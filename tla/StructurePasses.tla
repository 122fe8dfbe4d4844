--------------------------- MODULE StructurePasses ---------------------------
(***************************************************************************)
(* The incremental structure analysis: runPasses (structure/src/analyze/   *)
(* passes.ts) over the units of each repository in turn, driven by         *)
(* makeAnalyzeStructureRepo (cli/src/index.ts).  The units of one pass go  *)
(* through the fan-out limiter together; a unit's fragment comes from the  *)
(* cache or from a model call, which goes through the provider's own       *)
(* limiter; the barrier merges them and rewrites structure.nodes.json.     *)
(* Source files are versioned: the hash of a unit is its version, and a    *)
(* fragment is the version the model read, or 0 when it yielded nothing.   *)
(***************************************************************************)
EXTENDS LimiterState, FiniteSets, SequencesExt

CONSTANTS
    Unit,          \* analysis units
    Repos, RepoOf, \* repository of each unit, 1..Repos
    PassLists,     \* --pass lists tried (the default list is <<1, 2, 3>>)
    ForceArgs,     \* whether --force is tried
    Providers,     \* whether a model provider is configured, subset of BOOLEAN
    Cap,           \* ceiling of both limiters (CLAUDE_CODE_MAX_CONCURRENCY)
    Edited,        \* units the user edits
    MaxVersion, MaxRuns, MaxEdits, MaxFaults, MaxCrashes   \* bounds of the model

ASSUME UnitAssumption ==
    /\ IsFiniteSet(Unit) /\ Repos \in Nat \ {0} /\ RepoOf \in [Unit -> 1..Repos]
    /\ Cap \in Nat \ {0} /\ Edited \subseteq Unit

ASSUME ArgumentAssumption ==
    /\ \A l \in PassLists : l \in Seq(1..3) /\ l # << >>
    /\ ForceArgs \subseteq BOOLEAN /\ Providers \subseteq BOOLEAN
    /\ MaxVersion \in Nat \ {0} /\ MaxRuns \in Nat /\ MaxEdits \in Nat
    /\ MaxFaults \in Nat /\ MaxCrashes \in Nat

VARIABLES
    content,    \* version of the files of each unit
    cache,      \* .crawl-kit-cache/fragments: [unit, hash, pass, read]
    nodes,      \* facts of structure.nodes.json
    partial,    \* facts of structure.routes.partial.json
    pc,         \* "idle", "pass", "done" or "failed"
    args,       \* passes, force, online
    repo, at,   \* repository, position in the pass list
    hash,       \* versions enumerateUnits hashed
    perRepo,    \* latest extract of every repository seen by this process
    fanout,     \* the limiter of runPasses
    calls,      \* the limiter of the provider
    stage,      \* where each unit of the pass is
    frag,       \* its fragment once known
    unparsed,   \* history: (unit, version, pass) whose model call yielded nothing
    edited,     \* history: (unit, version hashed, version an edit gave it under that analysis)
    runs, edits, faults, crashes

process == <<pc, args, repo, at, hash, perRepo, fanout, calls, stage, frag>>
outputs == <<nodes, partial>>
bounds  == <<runs, edits, faults, crashes>>
vars == <<content, cache, outputs, process, unparsed, edited, bounds>>

-----------------------------------------------------------------------------

UnitsIn(r) == {u \in Unit : RepoOf[u] = r}

Pass == args.passes[at]

\* What a pass asks the model for: the route inventory, or the detail.
FactKind(p) == IF p = 1 THEN "route" ELSE "detail"

Entry(u, h, p, read) == [unit |-> u, hash |-> h, pass |-> p, read |-> read]

\* Faulty variant: whatever version of the unit is in the cache will do.
CachedAnyVersion(u, h, p) == {e \in cache : e.unit = u /\ e.pass = p}

\* readFragment: the cached fragment under this key.
Cached(u, h, p) == {e \in cache : e.unit = u /\ e.hash = h /\ e.pass = p}

\* mergeFragments: the facts of the fragments of this pass, and only this pass.
mergeFragments(units) ==
    {[kind |-> FactKind(Pass), unit |-> u, version |-> frag[u]] :
        u \in {v \in units : frag[v] # 0}}

\* Faulty variant: only the repository analysed last is kept.
mergedExtractLast(extracts) == extracts[repo]

\* mergedExtract: every repository seen so far.
mergedExtract(extracts) == UNION {extracts[r] : r \in 1..Repos}

\* The calls of limiter(...) of one pass, made in one go: the first c are
\* admitted, the others wait in their order.
acquireAll(units, c) ==
    LET calling == SetToSeq(units)
    IN IF Cardinality(units) <= c THEN [active |-> Cardinality(units), queue |-> << >>]
       ELSE [active |-> c, queue |-> SubSeq(calling, c + 1, Cardinality(units))]

InFlight == {u \in Unit : stage[u] \notin {"none", "final"}}

Fault == faults < MaxFaults /\ faults' = faults + 1

-----------------------------------------------------------------------------

NoProcess ==
    /\ pc = "idle" /\ args = [passes |-> <<1>>, force |-> FALSE, online |-> FALSE]
    /\ repo = 0 /\ at = 1
    /\ hash = [u \in Unit |-> 1]
    /\ perRepo = [r \in 1..Repos |-> {}]
    /\ fanout = noneActive /\ calls = noneActive
    /\ stage = [u \in Unit |-> "none"] /\ frag = [u \in Unit |-> 0]

Init ==
    /\ content = [u \in Unit |-> 1]
    /\ cache = {} /\ nodes = {} /\ partial = {}
    /\ NoProcess
    /\ unparsed = {} /\ edited = {}
    /\ runs = 0 /\ edits = 0 /\ faults = 0 /\ crashes = 0

\* All units of a pass call the limiter before any of them runs.
FanOut(r, i) ==
    LET slots == acquireAll(UnitsIn(r), Cap) IN
    /\ repo' = r /\ at' = i
    /\ fanout' = slots
    /\ stage' = [u \in Unit |->
                    IF u \notin UnitsIn(r) THEN "none"
                    ELSE IF u \in ToSet(slots.queue) THEN "queued" ELSE "granted"]
    /\ frag' = [u \in Unit |-> 0]
    /\ pc' = "pass"

\* Faulty variant: the hashes of the first enumeration are kept for good.
EnterRepoHashedOnce(r) == UNCHANGED hash /\ FanOut(r, 1)

\* enumerateUnits: the units of the repository are hashed as they are now.
EnterRepo(r) ==
    /\ hash' = [u \in Unit |-> IF RepoOf[u] = r THEN content[u] ELSE hash[u]]
    /\ FanOut(r, 1)

StartRun ==
    /\ pc = "idle" /\ runs < MaxRuns
    /\ runs' = runs + 1
    /\ \E passes \in PassLists, force \in ForceArgs, online \in Providers :
          args' = [passes |-> passes, force |-> force, online |-> online]
    /\ perRepo' = [r \in 1..Repos |-> {}]
    /\ calls' = noneActive
    /\ EnterRepo(1)
    /\ UNCHANGED <<content, edited, cache, outputs, unparsed, edits, faults, crashes>>

\* Unit u ends its turn in the fan-out limiter at step s; a waiting unit takes
\* over its slot.
Leave(u, s) ==
    /\ fanout' = release(fanout)
    /\ stage' = [v \in Unit |-> IF v = u THEN s
                                ELSE IF v \in Passed(fanout) THEN "granted" ELSE stage[v]]

\* A cached fragment under the hash of this run is used as it is.
ServeCached(u) ==
    /\ stage[u] = "granted" /\ ~args.force
    /\ \E e \in Cached(u, hash[u], Pass) : frag' = [frag EXCEPT ![u] = e.read]
    /\ stage' = [stage EXCEPT ![u] = "served"]
    /\ UNCHANGED <<content, edited, cache, outputs, pc, args, repo, at, hash, perRepo, fanout,
                   calls, unparsed, bounds>>

\* onUnit, and the slot is free.
FinishServed(u) ==
    /\ stage[u] = "served"
    /\ Leave(u, "final")
    /\ UNCHANGED <<content, edited, cache, outputs, pc, args, repo, at, hash, perRepo, calls,
                   frag, unparsed, bounds>>

Misses(u) == args.force \/ Cached(u, hash[u], Pass) = {}

\* parseUnit without a provider: an empty fragment, which is cached all the same.
ParseOffline(u) ==
    /\ stage[u] = "granted" /\ Misses(u) /\ ~args.online
    /\ stage' = [stage EXCEPT ![u] = "parsed"]
    /\ unparsed' = unparsed \cup {<<u, hash[u], Pass>>}
    /\ UNCHANGED <<content, edited, cache, outputs, pc, args, repo, at, hash, perRepo, fanout,
                   calls, frag, bounds>>

\* Faulty variant: one limiter for both, so a unit waits for a slot like its own.
AskModelShared(u) ==
    /\ stage[u] = "granted" /\ Misses(u) /\ args.online
    /\ fanout' = acquire(fanout, u, Cap)
    /\ stage' = [stage EXCEPT ![u] = IF Admits(fanout, Cap) THEN "calling" ELSE "waiting"]
    /\ UNCHANGED <<content, edited, cache, outputs, pc, args, repo, at, hash, perRepo, calls,
                   frag, unparsed, bounds>>

\* parseUnit with one: the model call asks the provider's limiter for a slot.
AskModel(u) ==
    /\ stage[u] = "granted" /\ Misses(u) /\ args.online
    /\ calls' = acquire(calls, u, Cap)
    /\ stage' = [stage EXCEPT ![u] = IF Admits(calls, Cap) THEN "calling" ELSE "waiting"]
    /\ UNCHANGED <<content, edited, cache, outputs, pc, args, repo, at, hash, perRepo, fanout,
                   frag, unparsed, bounds>>

\* The call returns what the files say now; a rejection, a timeout or a reply
\* without JSON leaves the fragment empty.
ModelReplies(u) ==
    /\ stage[u] = "calling"
    /\ calls' = release(calls)
    /\ stage' = [v \in Unit |-> IF v = u THEN "parsed"
                                ELSE IF v \in Passed(calls) THEN "calling" ELSE stage[v]]
    /\ \/ /\ frag' = [frag EXCEPT ![u] = content[u]]
          /\ UNCHANGED <<unparsed, faults>>
       \/ /\ Fault
          /\ unparsed' = unparsed \cup {<<u, hash[u], Pass>>}
          /\ UNCHANGED frag
    /\ UNCHANGED <<content, edited, cache, outputs, pc, args, repo, at, hash, perRepo, fanout,
                   runs, edits, crashes>>

\* Faulty variant: nothing is written.
writeFragmentNever(u) == UNCHANGED cache

\* writeFragment overwrites the entry of this key.
writeFragment(u) ==
    cache' = (cache \ Cached(u, hash[u], Pass)) \cup {Entry(u, hash[u], Pass, frag[u])}

StoreFragment(u) ==
    /\ stage[u] = "parsed"
    /\ writeFragment(u)
    /\ Leave(u, "final")
    /\ UNCHANGED <<content, edited, outputs, pc, args, repo, at, hash, perRepo, calls, frag,
                   unparsed, bounds>>

\* The write throws: the pass rejects at once, the slot is still given back and
\* the other units of the pass keep running.
StoreThrows(u) ==
    /\ stage[u] = "parsed" /\ Fault
    /\ Leave(u, "final")
    /\ pc' = "failed"
    /\ UNCHANGED <<content, edited, cache, outputs, args, repo, at, hash, perRepo, calls, frag,
                   unparsed, runs, edits, crashes>>

\* The barrier of a pass: merge, publish, go on with the next pass or
\* repository.
PassBarrier ==
    /\ pc = "pass" /\ \A u \in UnitsIn(repo) : stage[u] = "final"
    /\ perRepo' = [perRepo EXCEPT ![repo] = mergeFragments(UnitsIn(repo))]
    /\ nodes' = mergedExtract(perRepo')
    /\ partial' = IF Pass = 1 THEN {f \in nodes' : f.kind = "route"} ELSE partial
    /\ \/ at < Len(args.passes) /\ FanOut(repo, at + 1) /\ UNCHANGED hash
       \/ at = Len(args.passes) /\ repo < Repos /\ EnterRepo(repo + 1)
       \/ /\ at = Len(args.passes) /\ repo = Repos
          /\ pc' = "done"
          /\ UNCHANGED <<repo, at, hash, fanout, stage, frag>>
    /\ UNCHANGED <<content, edited, cache, args, calls, unparsed, bounds>>

\* Writing the outputs throws.
BarrierThrows ==
    /\ pc = "pass" /\ \A u \in UnitsIn(repo) : stage[u] = "final"
    /\ Fault
    /\ pc' = "failed"
    /\ UNCHANGED <<content, edited, cache, outputs, args, repo, at, hash, perRepo, fanout, calls,
                   stage, frag, unparsed, runs, edits, crashes>>

Gone ==
    /\ pc' = "idle" /\ args' = [passes |-> <<1>>, force |-> FALSE, online |-> FALSE]
    /\ repo' = 0 /\ at' = 1 /\ hash' = [u \in Unit |-> 1]
    /\ perRepo' = [r \in 1..Repos |-> {}]
    /\ fanout' = noneActive /\ calls' = noneActive
    /\ stage' = [u \in Unit |-> "none"] /\ frag' = [u \in Unit |-> 0]

Exit ==
    /\ pc \in {"done", "failed"} /\ InFlight = {}
    /\ Gone
    /\ UNCHANGED <<content, edited, cache, outputs, unparsed, bounds>>

\* A crash may tear the file of a fragment being written; a torn file does not
\* parse and reads as a miss.
Crash ==
    /\ pc # "idle" /\ crashes < MaxCrashes
    /\ crashes' = crashes + 1
    /\ \/ UNCHANGED cache
       \/ \E u \in Unit : stage[u] = "parsed" /\ cache' = cache \ Cached(u, hash[u], Pass)
    /\ Gone
    /\ UNCHANGED <<content, edited, outputs, unparsed, runs, edits, faults>>

\* The user edits a unit, forth or back, also under the analysis that has hashed
\* it and not read it yet.
Edit(u) ==
    /\ edits < MaxEdits /\ edits' = edits + 1
    /\ \E v \in 1..MaxVersion \ {content[u]} :
          /\ content' = [content EXCEPT ![u] = v]
          /\ edited' = IF RepoOf[u] = repo THEN edited \cup {<<u, hash[u], v>>} ELSE edited
    /\ UNCHANGED <<cache, outputs, process, unparsed, runs, faults, crashes>>

UnitStep(u) ==
    \/ ServeCached(u) \/ FinishServed(u)
    \/ ParseOffline(u) \/ AskModel(u) \/ ModelReplies(u)
    \/ StoreFragment(u) \/ StoreThrows(u)

Next ==
    \/ StartRun
    \/ \E u \in Unit : UnitStep(u)
    \/ PassBarrier \/ BarrierThrows \/ Exit
    \/ Crash
    \/ \E u \in Edited : Edit(u)

Spec == Init /\ [][Next]_vars

\* Every model call returns (the provider has a timeout), and the event loop
\* runs what is ready.
FairSpec ==
    /\ Spec
    /\ \A u \in Unit : WF_vars(UnitStep(u))
    /\ WF_vars(PassBarrier) /\ WF_vars(Exit)

-----------------------------------------------------------------------------
(* Properties. *)

Stage == {"none", "queued", "granted", "served", "waiting", "calling", "parsed", "final"}

Version == 1..MaxVersion

Fact == [kind : {"route", "detail"}, unit : Unit, version : Version]

\* Every variable has its type, and a key names one cached fragment.
TypeOK ==
    /\ content \in [Unit -> Version]
    /\ cache \subseteq [unit : Unit, hash : Version, pass : 1..3, read : 0..MaxVersion]
    /\ \A e, f \in cache : e.unit = f.unit /\ e.hash = f.hash /\ e.pass = f.pass => e = f
    /\ nodes \subseteq Fact /\ partial \subseteq Fact
    /\ pc \in {"idle", "pass", "done", "failed"}
    /\ repo \in 0..Repos /\ at \in 1..Len(args.passes)
    /\ hash \in [Unit -> Version]
    /\ \A r \in 1..Repos : perRepo[r] \subseteq Fact
    /\ stage \in [Unit -> Stage] /\ frag \in [Unit -> 0..MaxVersion]
    /\ edited \subseteq Unit \X Version \X Version
    /\ runs \in 0..MaxRuns /\ edits \in 0..MaxEdits
    /\ faults \in 0..MaxFaults /\ crashes \in 0..MaxCrashes

\* What fragments.ts says of its keys, as far as the code keeps it: a cached
\* fragment was read from the content its key names, or, if the unit was edited
\* between enumerateUnits' hash and the model's reading, from what an edit had
\* given the unit under the very analysis that made this key.
KeyNamesContent ==
    \A e \in cache : e.read \in {0, e.hash} \/ <<e.unit, e.hash, e.read>> \in edited

\* Every unit the barrier of a pass waits for no more has its fragment in the
\* cache, so an analysis that dies resumes from there.
FinalIsCached ==
    pc = "pass" => \A u \in Unit :
        stage[u] = "final" => Entry(u, hash[u], Pass, frag[u]) \in cache

Tells(facts, u, kind) == \E f \in facts : f.unit = u /\ f.kind = kind

\* After a successful analysis structure.nodes.json has, of every unit of every
\* repository, what its last pass asks for; what is missing is missing because a
\* model call about the version hashed yielded nothing, now or (through the
\* cache) in an earlier run.  What it tells is of the version hashed, or of one
\* an edit gave the unit under an analysis that had hashed this version.
PublishedIsComplete ==
    pc = "done" =>
        /\ \A f \in nodes :
              \/ f.version = hash[f.unit]
              \/ <<f.unit, hash[f.unit], f.version>> \in edited
        /\ \A u \in Unit :
              Tells(nodes, u, FactKind(Pass)) \/ <<u, hash[u], Pass>> \in unparsed

\* Every analysis ends, with no unit in flight.
EveryAnalysisEnds == pc # "idle" ~> pc = "idle"

-----------------------------------------------------------------------------
(* What the documents say and the code does not keep. *)

\* cli/src/index.ts: "every pass progressively refines structure.nodes.json".
\* An analysis whose first pass listed the routes, and in which every model
\* call succeeded, still has them when it is done.
RoutesSurvive ==
    pc = "done" /\ unparsed = {} /\ args.passes[1] = 1 =>
        \A u \in Unit : Tells(nodes, u, "route")
=============================================================================
