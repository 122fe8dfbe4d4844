----------------------------- MODULE Verification -----------------------------
(***************************************************************************)
(* Verification of the reconciled model (verification/src/verify.ts with   *)
(* the panel of adjudicate.ts) and of the system boundary, route by route, *)
(* from the layers' nodes (verification/src/boundary.ts).                  *)
(***************************************************************************)
EXTENDS Reconciler

-------------------------------------------------------------------------------
(* The reconciled model.                                                     *)

\* The discrepancy a state stands for; the other states are legitimate.
discrepancyFor ==
    [state \in {"violates-decision", "code-only", "intent-only", "unmatched"} |->
        CASE state = "violates-decision" -> "decision-violation"
          [] state = "code-only"         -> "unverified-build"
          [] state = "intent-only"       -> "unbuilt-intent"
          [] OTHER                       -> "undocumented-runtime"]

Lens == {"correctness", "security", "intentionality"}

\* The panel: a lens refutes what is not a bug unless it is correctness; two
\* lenses that do not refute confirm.
adjudicate(category) ==
    LET class == IF category \in {"decision-violation", "runtime-error"}
                 THEN "bug" ELSE "uncertain"
        confirmed == {lens \in Lens : ~(class # "bug" /\ lens # "correctness")}
    IN [classification |-> IF Cardinality(confirmed) >= 2 THEN class ELSE "uncertain",
        confirmedCount |-> Cardinality(confirmed)]

Finding(id, category) ==
    [concept |-> id, category |-> category, verdict |-> adjudicate(category)]

\* Errors a page's findings report; other observations carry none.
behaviorErrors(row) ==
    UNION {n.raw.findings : n \in {n \in row.behavior : n.raw.kind = "page"}}

verifyUnified(unified) ==
    {Finding(id, discrepancyFor[unified[id].state]) :
        id \in {id \in DOMAIN unified : unified[id].state \in DOMAIN discrepancyFor}}
    \cup {Finding(id, "runtime-error") :
        id \in {id \in DOMAIN unified : behaviorErrors(unified[id]) # {}}}

-------------------------------------------------------------------------------
(* The boundary.                                                             *)

\* Equal letters, or one within the other (three letters at least).
Matches(field, known) ==
    \E k \in known : /\ {Letters[field], Letters[k]} \cap Short = {}
                     /\ AlikeLetters(Letters[field], Letters[k])

\* What the behavior layer gives as a route reached: its pages and its saves.
Visits(behavior) == {n \in ToSet(behavior) : n.raw.kind \in {"page", "transaction"}}

\* What the nodes say of a normalized route: the last route declares, the
\* last page or transaction observes, the last that has saved columns gives them.
assembleBoundary(key, structure, behavior) ==
    LET declares == Only(structure, {n \in RouteNodes(structure) : KeyOf(n) = key})
        observes == Only(behavior, {n \in Visits(behavior) : KeyOf(n) = key})
        saves    == Only(observes, {n \in ToSet(observes) :
                                       n.raw.kind = "transaction" /\ n.raw.saved # <<>>})
        last     == Last(declares).raw
    IN [route          |-> key,
        inStructure    |-> declares # <<>>,
        inBehavior     |-> observes # <<>>,
        declaredInputs |-> IF declares = <<>> THEN {} ELSE last.inputs,
        persists       |-> declares # <<>> /\ last.crud \cap {"C", "U"} # {},
        observedInputs |-> IF observes # <<>> /\ Last(observes).raw.kind = "page"
                           THEN Last(observes).raw.inputItems ELSE {},
        saved          |-> IF saves = <<>> THEN <<>> ELSE Last(saves).raw.saved]

assembleBoundaries(structure, behavior) ==
    {assembleBoundary(key, structure, behavior) :
        key \in {KeyOf(n) : n \in RouteNodes(structure) \cup Visits(behavior)}}

BoundaryFinding(b, kind, field) == [route |-> b.route, kind |-> kind, field |-> field]

inputFindings(b) ==
    IF b.declaredInputs = {} \/ b.observedInputs = {} THEN {}
    ELSE {BoundaryFinding(b, "input-undeclared", f) :
             f \in {f \in b.observedInputs : ~Matches(f, b.declaredInputs)}}
         \cup {BoundaryFinding(b, "input-missing", f) :
             f \in {f \in b.declaredInputs : ~Matches(f, b.observedInputs)}}

\* The killer check: nothing saved is worse than nothing observed.
persistenceFindings(b) ==
    IF ~b.persists THEN {}
    ELSE {BoundaryFinding(b, CASE b.saved = <<>>   -> "persistence-unobserved"
                               [] b.saved = <<{}>> -> "not-persisted"
                               [] OTHER            -> "roundtrip-ok", None)}

\* Every route with where it was seen, and the findings.
verifyBoundaries(boundaries) ==
    [routes   |-> {[route |-> b.route, structure |-> b.inStructure, behavior |-> b.inBehavior] :
                      b \in boundaries},
     findings |-> UNION {inputFindings(b) \cup persistenceFindings(b) : b \in boundaries}]

buildBoundaryReport(structure, behavior) ==
    verifyBoundaries(assembleBoundaries(structure, behavior))
=============================================================================
