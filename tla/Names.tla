-------------------------------- MODULE Names --------------------------------
(***************************************************************************)
(* How the layers compare names and routes: the normalizations of          *)
(* reconciler/src/match/normalize.ts and contract/src/route.ts, and the    *)
(* verdict of a CRUD run looked up by its normalized route                 *)
(* (behavior/src/tx-persistence.ts).                                       *)
(*                                                                         *)
(* A name is a value; what the code computes from its characters is given  *)
(* by constants: its lower-case words, the singular of a word, its letters *)
(* without separators (two names may have the same), which letters occur   *)
(* within others, and the names of what lies below the domain line.  A     *)
(* route is a method and the segments of its path.                         *)
(***************************************************************************)
EXTENDS Integers, Sequences, SequencesExt, FiniteSets

CONSTANTS
    Words,       \* function: name -> sequence of words
    Singular,    \* function: word -> word
    Slug,        \* function: name -> its kebab slug
    Letters,     \* function: name -> its letters and digits in lower case
    Within,      \* set of pairs of letters: the first is a proper part of the second
    Short,       \* letters that are fewer than three
    BelowLine,   \* names of sessions, outboxes, logs, caches ...
    Lower,       \* function: segment -> segment in lower case
    ParamSegment \* segments that are identifiers: ":x", "{x}", digits, UUID, hex

Name == DOMAIN Words

ASSUME NamesAssumption ==
    /\ DOMAIN Letters = Name /\ DOMAIN Slug = Name
    /\ BelowLine \subseteq Name
    /\ ":id" \in ParamSegment
    /\ \A segment \in DOMAIN Lower :
          Lower[segment] \in DOMAIN Lower /\ Lower[Lower[segment]] = Lower[segment]
    /\ ":id" \in DOMAIN Lower /\ Lower[":id"] = ":id"

normalizeName(name) == [i \in DOMAIN Words[name] |-> Singular[Words[name][i]]]

normalizeAttr(attribute) == Letters[attribute]

\* Overlap in hundredths, rounded to the nearest.
jaccard(a, b) ==
    LET both == Cardinality(a \cap b)
        any  == Cardinality(a \cup b)
    IN IF any = 0 THEN 0 ELSE (200 * both + any) \div (2 * any)

\* "METHOD /path" without its query, in lower case, identifiers collapsed.
normalizeRoute(route) ==
    [method |-> route.method,
     path   |-> [i \in DOMAIN route.path |->
                   LET segment == Lower[route.path[i]]
                   IN IF segment \in ParamSegment THEN ":id" ELSE segment]]

Mutating == {"POST", "PUT", "PATCH", "DELETE"}

\* Faulty variant: the step of the last entity on the route.
annotateLatest(key, crudResults) ==
    LET stepOf(result) == SelectInSeq(result, LAMBDA s : s.route = key)
        i == SelectLastInSeq(crudResults, LAMBDA r : stepOf(r) # 0)
        step == crudResults[i][stepOf(crudResults[i])]
    IN IF i = 0 \/ ~step.dbProbed THEN "unknown" ELSE IF step.ok THEN "yes" ELSE "no"

\* The verdict of the first step on the route, over the entities in order, if that
\* step was probed.
annotatePersistence(key, crudResults) ==
    LET stepOf(result) == SelectInSeq(result, LAMBDA s : s.route = key)
        i == SelectInSeq(crudResults, LAMBDA r : stepOf(r) # 0)
        step == crudResults[i][stepOf(crudResults[i])]
    IN IF i = 0 \/ ~step.dbProbed THEN "unknown" ELSE IF step.ok THEN "yes" ELSE "no"

\* Equal, or one within the other.
AlikeLetters(a, b) == a = b \/ <<a, b>> \in Within \/ <<b, a>> \in Within
=============================================================================
