--------------------------- MODULE RunOrchestrator ---------------------------
(***************************************************************************)
(* `crawl-kit run` and `crawl-kit clear` inside a workspace                *)
(* (packages/cli/src/commands/run.ts, run-phases.ts, clear.ts).            *)
(*                                                                         *)
(* One Node process at a time drives intent, structure, behavior,          *)
(* reconcile and verify over one workspace.  It keeps the ledger in memory *)
(* (current), queues every snapshot behind a promise chain (writeChain)    *)
(* and reads the file (progressJson) back only when the next process       *)
(* starts.  An action is the code between two awaits; the writes of the    *)
(* chain, the structure units in flight, the clock and a crash interleave  *)
(* with them.  The injected engines (analyzeStructureRepo, runBehavior,    *)
(* reconcile, verify, draftIntent) appear by what they write and how they  *)
(* may end.                                                                *)
(***************************************************************************)
EXTENDS Progress, Integers, Sequences, FiniteSets

CONSTANTS
    Unit,          \* analysis units of the repositories (enumerateUnits)
    Repos,         \* number of cloned repositories
    RepoOf,        \* RepoOf[u] is the repository of unit u, in 1..Repos
    PassCount,     \* STRUCTURE_PASS_COUNT (3 in the code)
    MaxPages,      \* pages a crawl may report; bounds the behavior counts
    Ttl,           \* regenerateTtlSeconds, in ticks of the clock
    OnlyArgs,      \* values of --only tried, "all" when the flag is absent
    ForceArgs,     \* whether --force (a clear before the run) is tried
    Commands,      \* subset of {"run", "clear"}
    DoctorFindings,\* sets of phases the preflight may block
    IntentSources, \* states docs/domain/intent.json may be found in
    MaxRuns, MaxCrashes, MaxFaults, MaxClock   \* bounds of the model

Blockable == {"intent", "structure", "behavior"}
Layers    == Blockable
Artifact  == {"intent", "aggregates", "structure", "behavior", "unified", "findings"}

ASSUME UnitsAssumption ==
    /\ IsFiniteSet(Unit)
    /\ Repos \in Nat /\ PassCount \in Nat \ {0} /\ MaxPages \in Nat \ {0}
    /\ RepoOf \in [Unit -> 1..Repos]

ASSUME CommandAssumption ==
    /\ OnlyArgs \subseteq Blockable \cup {"all"}
    /\ ForceArgs \subseteq BOOLEAN
    /\ Commands \subseteq {"run", "clear"}
    /\ DoctorFindings \subseteq SUBSET Blockable
    /\ IntentSources \subseteq {"missing", "valid", "broken"}

ASSUME BoundsAssumption ==
    Ttl \in Nat /\ MaxRuns \in Nat /\ MaxCrashes \in Nat /\ MaxFaults \in Nat
                /\ MaxClock \in Nat

VARIABLES
    progressJson,  \* the ledger on disk; an absent file reads as emptyProgress
    current,       \* the ledger in memory
    writeChain,    \* snapshots committed and not yet written
    awaited,       \* writes the process is waiting for (await writeChain)
    pc,            \* where the process is; "idle" when none runs
    cmd,           \* the command line: name and only
    toClear,       \* files the clear has still to remove
    blocked,       \* phases the preflight of this run blocked
    unrecorded,    \* those of them whose "blocked" is not committed yet
    todo,          \* phases of this run not handled yet, the current one first
    body,          \* await the current phase body has reached
    outcome,       \* how the body ended
    structureFailed,
    repo, pass,    \* position of the structure engine
    pending,       \* units of this pass not finalized yet
    late,          \* units still in flight after the structure phase failed
    ran,           \* history: phases whose body this run entered
    files,         \* artifacts present in data/
    stale,         \* history: artifacts rewritten since they were last derived from
    orphaned,      \* history: files a clear removed before resetting their ledger entry
    intentJson,    \* docs/domain/intent.json: "missing", "valid" or "broken"
    now, runs, crashes, faults

ledgerVars == <<progressJson, current, writeChain, awaited>>
runVars    == <<cmd, toClear, blocked, unrecorded, structureFailed, ran>>
unitVars   == <<repo, pass, pending, late>>
fileVars   == <<files, stale, orphaned, intentJson>>
worldVars  == <<now, runs, crashes>>
vars == <<ledgerVars, pc, runVars, todo, body, outcome, unitVars, fileVars,
          worldVars, faults>>

-----------------------------------------------------------------------------
(* Vocabulary of the run. *)

UnitsOf(r) == {u \in Unit : RepoOf[u] = r}

\* structure total: every unit of every repository once per pass.
StructureTotal == Cardinality(Unit) * PassCount

\* Faulty variant: reconcile does not wait for behavior.
phaseOrderEager(only) ==
    IF only = "all"
      THEN <<"intent", "structure", "reconcile", "behavior", "verify">>
      ELSE <<only, "reconcile", "verify">>

phaseOrder(only) ==
    IF only = "all"
      THEN <<"intent", "structure", "behavior", "reconcile", "verify">>
      ELSE <<only, "reconcile", "verify">>

\* The files clearPhase removes, in its order.
clearList(only) ==
    CASE only = "intent"    -> <<"intent", "aggregates">>
      [] only = "structure" -> <<"structure">>
      [] only = "behavior"  -> <<"behavior">>
      [] OTHER -> <<"intent", "aggregates", "structure", "behavior",
                    "unified", "findings">>

noCommand == [name |-> "run", only |-> "all"]

isFresh(completedAt) == completedAt # NoTime /\ now - completedAt < Ttl

Phase == Head(todo)

\* commit(updater): memory moves at once, the write is queued.
Commit(ledger) ==
    /\ current' = ledger
    /\ writeChain' = Append(writeChain, ledger)
    /\ UNCHANGED <<progressJson, awaited>>

\* Writing a layer makes what was derived from it out of date; deriving an
\* artifact brings it up to date with its inputs.
Write(artifact, inputs) ==
    /\ files' = files \cup {artifact}
    /\ stale' = (stale \ inputs) \cup {artifact}
    /\ orphaned' = orphaned \ {artifact}

At(phase, step) == pc = "body" /\ Phase = phase /\ body = step

\* The body awaits again at step.
Continue(step) ==
    /\ body' = step
    /\ UNCHANGED <<pc, outcome, todo, runVars, worldVars>>

\* The body returned, or threw (outcome "failed").
Return(result) ==
    /\ pc' = "settle"
    /\ outcome' = result
    /\ body' = "none"
    /\ UNCHANGED <<todo, runVars, worldVars>>

\* A fault of the surroundings: a failing write, a rejected call, an absent
\* source.
Fault == faults < MaxFaults /\ faults' = faults + 1

\* What a process knew when it is gone; current mirrors the file until the
\* next process reads it.
ProcessGone ==
    /\ pc' = "idle" /\ cmd' = noCommand /\ toClear' = << >>
    /\ current' = progressJson' /\ writeChain' = << >> /\ awaited' = 0
    /\ blocked' = {} /\ unrecorded' = {} /\ structureFailed' = FALSE /\ ran' = {}
    /\ todo' = << >> /\ body' = "none" /\ outcome' = "completed"
    /\ repo' = 0 /\ pass' = 0 /\ pending' = {} /\ late' = {}

-----------------------------------------------------------------------------
(* Starting, and clearing first when asked to. *)

Init ==
    /\ progressJson = emptyProgress /\ current = emptyProgress
    /\ writeChain = << >> /\ awaited = 0
    /\ pc = "idle" /\ cmd = noCommand /\ toClear = << >>
    /\ blocked = {} /\ unrecorded = {} /\ structureFailed = FALSE /\ ran = {}
    /\ todo = << >> /\ body = "none" /\ outcome = "completed"
    /\ repo = 0 /\ pass = 0 /\ pending = {} /\ late = {}
    /\ files = {} /\ stale = {} /\ orphaned = {}
    /\ intentJson \in IntentSources
    /\ now = 1 /\ runs = 0 /\ crashes = 0 /\ faults = 0

StartCommand ==
    /\ pc = "idle" /\ runs < MaxRuns
    /\ \E name \in Commands, only \in OnlyArgs, force \in ForceArgs :
          /\ cmd' = [name |-> name, only |-> only]
          /\ IF name = "clear" \/ force
               THEN pc' = "clear" /\ toClear' = clearList(only)
               ELSE pc' = "load" /\ toClear' = << >>
    /\ runs' = runs + 1
    /\ structureFailed' = FALSE /\ ran' = {}
    /\ UNCHANGED <<ledgerVars, blocked, unrecorded, todo, body, outcome, unitVars,
                   fileVars, now, crashes, faults>>

\* rm of one artifact (absent files are skipped silently).
ClearFile ==
    /\ pc = "clear" /\ toClear # << >>
    /\ files' = files \ {Head(toClear)}
    /\ stale' = stale \cup {Head(toClear)}
    /\ orphaned' = orphaned \cup {Head(toClear)}
    /\ toClear' = Tail(toClear)
    /\ UNCHANGED <<ledgerVars, pc, cmd, blocked, unrecorded, structureFailed, ran,
                   todo, body, outcome, unitVars, intentJson, worldVars, faults>>

\* Only after the last file is gone is the ledger reset.
ClearLedger ==
    /\ pc = "clear" /\ toClear = << >>
    /\ progressJson' = IF cmd.only = "all" THEN emptyProgress
                                           ELSE resetPhase(progressJson, cmd.only)
    /\ orphaned' = {a \in orphaned : \A i \in 1..Len(clearList(cmd.only)) :
                                         clearList(cmd.only)[i] # a}
    /\ IF cmd.name = "run"
         THEN /\ pc' = "load"
              /\ UNCHANGED <<current, writeChain, awaited, runVars, todo, body,
                             outcome, unitVars>>
         ELSE ProcessGone
    /\ UNCHANGED <<files, stale, intentJson, worldVars, faults>>

\* readProgressOrEmpty, then the preflight, which blocks intent only when there
\* is no intent.json to reuse.
LoadInto(ledger) ==
    /\ pc = "load"
    /\ current' = ledger /\ writeChain' = << >> /\ awaited' = 0
    /\ \E found \in DoctorFindings :
          /\ "intent" \in found => intentJson = "missing"
          /\ blocked' = found /\ unrecorded' = found
    /\ pc' = "doctor"
    /\ UNCHANGED <<progressJson, cmd, toClear, structureFailed, ran, todo, body,
                   outcome, unitVars, fileVars, worldVars, faults>>

\* Faulty variant: every run starts its own ledger.
LoadNothing == LoadInto(emptyProgress)

Load == LoadInto(progressJson)

RecordBlocked ==
    /\ pc = "doctor"
    /\ \E ph \in unrecorded :
          /\ Commit(withPhaseStatus(current, ph, "blocked", now))
          /\ unrecorded' = unrecorded \ {ph}
    /\ UNCHANGED <<pc, cmd, toClear, blocked, structureFailed, ran, todo, body,
                   outcome, unitVars, fileVars, worldVars, faults>>

EnterLoop ==
    /\ pc = "doctor" /\ unrecorded = {}
    /\ pc' = "select"
    /\ todo' = phaseOrder(cmd.only)
    /\ UNCHANGED <<ledgerVars, runVars, body, outcome, unitVars, fileVars,
                   worldVars, faults>>

-----------------------------------------------------------------------------
(* The loop over the phases. *)

DependsOnStructure(ph) == ph \in {"behavior", "reconcile", "verify"}

SkippedAfterFailure == structureFailed /\ DependsOnStructure(Phase)

SkippedAsFresh ==
    current[Phase].status = "completed" /\ isFresh(current[Phase].completedAt)

Skips == SkippedAfterFailure \/ SkippedAsFresh \/ Phase \in blocked

SkipPhase ==
    /\ pc = "select" /\ todo # << >> /\ Skips
    /\ todo' = Tail(todo)
    /\ UNCHANGED <<ledgerVars, pc, runVars, body, outcome, unitVars, fileVars,
                   worldVars, faults>>

StartPhase ==
    /\ pc = "select" /\ todo # << >> /\ ~Skips
    /\ current' = withPhaseStatus(current, Phase, "running", now)
    /\ writeChain' = Append(writeChain, current')
    /\ awaited' = Len(writeChain')
    /\ pc' = "flush"
    /\ ran' = ran \cup {Phase}
    /\ UNCHANGED <<progressJson, cmd, toClear, blocked, unrecorded, structureFailed,
                   todo, body, outcome, unitVars, fileVars, worldVars, faults>>

\* Faulty variant: the body starts while "running" is still queued.
FlushSkipped ==
    /\ pc = "flush"
    /\ pc' = "body" /\ body' = "enter"
    /\ UNCHANGED <<ledgerVars, runVars, todo, outcome, unitVars, fileVars,
                   worldVars, faults>>

\* await flush(): the body runs only once "running" is on disk.
FlushDone ==
    /\ pc = "flush" /\ awaited = 0
    /\ pc' = "body" /\ body' = "enter"
    /\ UNCHANGED <<ledgerVars, runVars, todo, outcome, unitVars, fileVars,
                   worldVars, faults>>

\* Faulty variants: the newest snapshot overtakes the queue; nobody is told
\* that the write they wait for is done.
WriteOvertaking ==
    /\ pc # "idle" /\ writeChain # << >>
    /\ progressJson' = writeChain[Len(writeChain)]
    /\ writeChain' = SubSeq(writeChain, 1, Len(writeChain) - 1)
    /\ awaited' = IF awaited > 0 THEN awaited - 1 ELSE 0
    /\ UNCHANGED <<current, pc, runVars, todo, body, outcome, unitVars, fileVars,
                   worldVars, faults>>
WriteUnnoticed ==
    /\ pc # "idle" /\ writeChain # << >>
    /\ progressJson' = Head(writeChain)
    /\ writeChain' = Tail(writeChain)
    /\ UNCHANGED <<current, awaited, pc, runVars, todo, body, outcome, unitVars,
                   fileVars, worldVars, faults>>

\* The promise chain writes its oldest snapshot, one at a time and in order.
WriteSnapshot ==
    /\ pc # "idle" /\ writeChain # << >>
    /\ progressJson' = Head(writeChain)
    /\ writeChain' = Tail(writeChain)
    /\ awaited' = IF awaited > 0 THEN awaited - 1 ELSE 0
    /\ UNCHANGED <<current, pc, runVars, todo, body, outcome, unitVars, fileVars,
                   worldVars, faults>>

\* The outcome of a body goes to the ledger; a failed structure phase shuts
\* out what depends on it.
SettleWith(ledger, shutsOut) ==
    /\ pc = "settle"
    /\ Commit(ledger)
    /\ structureFailed' = (structureFailed \/ shutsOut)
    /\ todo' = Tail(todo)
    /\ pc' = "select"
    /\ UNCHANGED <<cmd, toClear, blocked, unrecorded, ran, body, outcome, unitVars,
                   fileVars, worldVars, faults>>

Settled == withPhaseStatus(current, Phase, outcome, now)

StructureBroke == Phase = "structure" /\ outcome = "failed"

\* Faulty variant: a block is not recorded.
SettleIgnoringBlocked ==
    SettleWith(IF outcome = "blocked" THEN current ELSE Settled, StructureBroke)

Settle == SettleWith(Settled, StructureBroke)

AwaitLedger ==
    /\ pc = "select" /\ todo = << >>
    /\ awaited' = Len(writeChain)
    /\ pc' = "drain"
    /\ UNCHANGED <<progressJson, current, writeChain, runVars, todo, body, outcome,
                   unitVars, fileVars, worldVars, faults>>

EndRun ==
    /\ pc = "drain" /\ awaited = 0
    /\ pc' = "ended"
    /\ UNCHANGED <<ledgerVars, runVars, todo, body, outcome, unitVars, fileVars,
                   worldVars, faults>>

\* Nothing is in flight any more: the event loop empties, or, with the viewer
\* open (the default), the user ends it with Ctrl-C.
Exit ==
    /\ pc = "ended" /\ late = {} /\ writeChain = << >>
    /\ UNCHANGED progressJson
    /\ ProcessGone
    /\ UNCHANGED <<fileVars, worldVars, faults>>

-----------------------------------------------------------------------------
(* intentPhase *)

IntentEnter ==
    /\ At("intent", "enter")
    /\ \/ /\ intentJson = "broken"
          /\ Return("blocked") /\ UNCHANGED ledgerVars
       \/ /\ intentJson = "valid"
          /\ Commit(withTasksRegistered(current, "intent", 1)) /\ Continue("nodes")
       \/ /\ intentJson = "missing"
          /\ Commit(withTasksRegistered(current, "intent", 2)) /\ Continue("draft")
    /\ UNCHANGED <<unitVars, fileVars, faults>>

\* draftIntent: a glossary, or no provider (null), or a rejection; the last
\* two block the phase, they do not fail it.
IntentDraft ==
    /\ At("intent", "draft")
    /\ \/ /\ Commit(withTaskCompleted(current, "intent", 1)) /\ Continue("save")
          /\ UNCHANGED faults
       \/ Fault /\ Return("blocked") /\ UNCHANGED ledgerVars
    /\ UNCHANGED <<unitVars, fileVars>>

IntentSave ==
    /\ At("intent", "save")
    /\ intentJson' = "valid"
    /\ Continue("nodes")
    /\ UNCHANGED <<ledgerVars, unitVars, files, stale, orphaned, faults>>

IntentNodes ==
    /\ At("intent", "nodes")
    /\ Write("intent", {})
    /\ Commit(withTaskCompleted(current, "intent", 1))
    /\ Continue("aggregates")
    /\ UNCHANGED <<unitVars, intentJson, faults>>

\* Faulty variant: the aggregates are never written.
IntentWithoutAggregates ==
    /\ At("intent", "aggregates")
    /\ Return("completed")
    /\ UNCHANGED <<ledgerVars, unitVars, fileVars, faults>>

IntentAggregates ==
    /\ At("intent", "aggregates")
    /\ Write("aggregates", {})
    /\ Return("completed")
    /\ UNCHANGED <<ledgerVars, unitVars, intentJson, faults>>

-----------------------------------------------------------------------------
(* structurePhase: repositories in sequence, passes in sequence, the units   *)
(* of one pass concurrently.                                                 *)

\* Enter pass p of repository r, or return when there is none.
AtPass(r, p) ==
    /\ repo' = r /\ pass' = p
    /\ pending' = UnitsOf(r)
    /\ IF r <= Repos THEN Continue("units") ELSE Return("completed")

StructureEnter ==
    /\ At("structure", "enter")
    /\ Commit(withTasksRegistered(current, "structure", StructureTotal))
    /\ AtPass(1, 1)
    /\ UNCHANGED <<late, fileVars, faults>>

\* Faulty variant: the last unit of a pass is not reported.
UnitDoneUnreported(u) ==
    /\ At("structure", "units") /\ u \in pending
    /\ pending' = pending \ {u}
    /\ IF pending = {u} THEN UNCHANGED ledgerVars
                        ELSE Commit(withTaskCompleted(current, "structure", 1))
    /\ UNCHANGED <<pc, todo, body, outcome, runVars, worldVars, repo, pass, late,
                   fileVars, faults>>

\* onUnit: a unit's fragment is final, parsed or served from the cache.
UnitDone(u) ==
    /\ At("structure", "units") /\ u \in pending
    /\ pending' = pending \ {u}
    /\ Commit(withTaskCompleted(current, "structure", 1))
    /\ UNCHANGED <<pc, todo, body, outcome, runVars, worldVars, repo, pass, late,
                   fileVars, faults>>

\* One unit throws: Promise.all rejects at once, the others keep running.
UnitThrows(u) ==
    /\ At("structure", "units") /\ u \in pending
    /\ Fault
    /\ late' = pending \ {u} /\ pending' = {}
    /\ Return("failed")
    /\ UNCHANGED <<ledgerVars, repo, pass, fileVars>>

\* The barrier of a pass: structure.nodes.json is rewritten.
PassDone ==
    /\ At("structure", "units") /\ pending = {}
    /\ Write("structure", {})
    /\ IF pass < PassCount THEN AtPass(repo, pass + 1) ELSE AtPass(repo + 1, 1)
    /\ UNCHANGED <<ledgerVars, late, intentJson, faults>>

\* The survivors of a failed pass end one by one while the loop goes on; they
\* still report through onUnit.
LateUnit(u) ==
    /\ pc # "idle" /\ u \in late
    /\ late' = late \ {u}
    /\ \/ Commit(withTaskCompleted(current, "structure", 1))
       \/ UNCHANGED ledgerVars
    /\ UNCHANGED <<pc, todo, body, outcome, runVars, worldVars, repo, pass, pending,
                   fileVars, faults>>

-----------------------------------------------------------------------------
(* behaviorPhase *)

BehaviorEnter ==
    /\ At("behavior", "enter")
    /\ \/ /\ \E total \in 1..MaxPages :
                Commit(withTasksRegistered(current, "behavior", total))
          /\ Continue("crawl") /\ UNCHANGED faults
       \/ Fault /\ Return("blocked") /\ UNCHANGED ledgerVars    \* no targets
    /\ UNCHANGED <<unitVars, fileVars>>

\* runBehavior reports the pages found in behavior.nodes.json, which emit may
\* have failed to rewrite: its exit code is not looked at.
BehaviorCrawl ==
    /\ At("behavior", "crawl")
    /\ \/ /\ \E pages \in 0..MaxPages :
                Commit(withTaskCompleted(current, "behavior", pages))
          /\ \/ Write("behavior", {}) /\ UNCHANGED faults
             \/ Fault /\ UNCHANGED <<files, stale, orphaned>>
          /\ Return("completed")
       \/ /\ Fault                                              \* ok = false
          /\ Commit(withTaskCompleted(current, "behavior", 0))
          /\ Return("failed") /\ UNCHANGED <<files, stale, orphaned>>
    /\ UNCHANGED <<unitVars, intentJson>>

-----------------------------------------------------------------------------
(* reconcilePhase and verifyPhase *)

DeriveEnter(ph) ==
    /\ At(ph, "enter")
    /\ Commit(withTasksRegistered(current, ph, 1))
    /\ Continue("derive")
    /\ UNCHANGED <<unitVars, fileVars, faults>>

\* cmdReconcile joins whatever layers exist (an absent one is empty).
ReconcileDerive ==
    /\ At("reconcile", "derive")
    /\ Write("unified", Layers)
    /\ Continue("finish")
    /\ UNCHANGED <<ledgerVars, unitVars, intentJson, faults>>

\* cmdVerify needs unified.json; readUnified throws without it.
VerifyDerive ==
    /\ At("verify", "derive") /\ "unified" \in files
    /\ Write("findings", {"unified"})
    /\ Continue("finish")
    /\ UNCHANGED <<ledgerVars, unitVars, intentJson, faults>>

DeriveFinish(ph) ==
    /\ At(ph, "finish")
    /\ Commit(withTaskCompleted(current, ph, 1))
    /\ Return("completed")
    /\ UNCHANGED <<unitVars, fileVars, faults>>

\* A write or a call a body awaits rejects (units reject in UnitThrows).
BodyThrows ==
    /\ \/ /\ \/ \E step \in {"save", "nodes", "aggregates"} : At("intent", step)
             \/ At("structure", "enter")
             \/ At("structure", "units") /\ pending = {}
             \/ At("behavior", "crawl")
             \/ At("reconcile", "derive") \/ At("verify", "derive")
          /\ Fault
       \/ At("verify", "derive") /\ "unified" \notin files /\ UNCHANGED faults
    /\ Return("failed")
    /\ UNCHANGED <<ledgerVars, unitVars, fileVars>>

-----------------------------------------------------------------------------
(* The environment. *)

\* Ctrl-C, a kill, or a ledger write that rejects: memory and the queued
\* snapshots are gone, the files stay.
Crash ==
    /\ pc # "idle" /\ crashes < MaxCrashes
    /\ crashes' = crashes + 1
    /\ UNCHANGED progressJson
    /\ ProcessGone
    /\ UNCHANGED <<fileVars, now, runs, faults>>

Tick ==
    /\ now < MaxClock
    /\ now' = now + 1
    /\ UNCHANGED <<ledgerVars, pc, runVars, todo, body, outcome, unitVars, fileVars,
                   runs, crashes, faults>>

\* Between runs the user writes, repairs or deletes docs/domain/intent.json.
EditIntent ==
    /\ pc = "idle" /\ runs < MaxRuns
    /\ intentJson' \in IntentSources \ {intentJson}
    /\ UNCHANGED <<ledgerVars, pc, runVars, todo, body, outcome, unitVars, files,
                   stale, orphaned, worldVars, faults>>

-----------------------------------------------------------------------------

BodyStep ==
    \/ IntentEnter \/ IntentDraft \/ IntentSave \/ IntentNodes \/ IntentAggregates
    \/ StructureEnter \/ PassDone
    \/ \E u \in Unit : UnitDone(u) \/ UnitThrows(u)
    \/ BehaviorEnter \/ BehaviorCrawl
    \/ ReconcileDerive \/ VerifyDerive
    \/ \E ph \in {"reconcile", "verify"} : DeriveEnter(ph) \/ DeriveFinish(ph)
    \/ BodyThrows

RunStep ==
    \/ ClearFile \/ ClearLedger \/ Load \/ RecordBlocked \/ EnterLoop
    \/ SkipPhase \/ StartPhase \/ FlushDone \/ Settle \/ AwaitLedger \/ EndRun

Next ==
    \/ StartCommand \/ Exit
    \/ RunStep
    \/ BodyStep
    \/ WriteSnapshot
    \/ \E u \in Unit : LateUnit(u)
    \/ Crash \/ Tick \/ EditIntent

Spec == Init /\ [][Next]_vars

\* Node's event loop runs what is ready: the orchestrator's own code, the
\* phase bodies (every engine they await ends, by its own timeouts), the
\* queued writes, and the units left in flight.  Nobody has to start a command,
\* or to close the viewer.
Fairness ==
    /\ WF_vars(RunStep)
    /\ WF_vars(BodyStep)
    /\ WF_vars(WriteSnapshot)
    /\ \A u \in Unit : WF_vars(LateUnit(u))

FairSpec == Spec /\ Fairness
-----------------------------------------------------------------------------
(* Properties. *)

ProcessState == {"idle", "clear", "load", "doctor", "select", "flush", "body",
                 "settle", "drain", "ended"}

BodyState == {"none", "enter", "draft", "save", "nodes", "aggregates", "units",
              "crawl", "derive", "finish"}

LedgersOK ==
    /\ progressJson \in Ledger /\ CountsWithin(progressJson)
    /\ current \in Ledger /\ CountsWithin(current)
    /\ writeChain \in Seq(Ledger)
    /\ \A i \in DOMAIN writeChain : CountsWithin(writeChain[i])
    /\ awaited \in Nat /\ awaited <= Len(writeChain)

ProcessOK ==
    /\ pc \in ProcessState
    /\ cmd \in [name : {"run", "clear"}, only : Blockable \cup {"all"}]
    /\ toClear \in Seq(Artifact)
    /\ blocked \subseteq Blockable /\ unrecorded \subseteq blocked
    /\ todo \in Seq(PhaseName) /\ body \in BodyState
    /\ pc \in {"flush", "body", "settle"} => todo # << >>
    /\ outcome \in {"completed", "blocked", "failed"}
    /\ structureFailed \in BOOLEAN /\ ran \subseteq PhaseName

WorkspaceOK ==
    /\ repo \in Nat /\ pass \in Nat
    /\ pending \subseteq Unit /\ late \subseteq Unit
    /\ files \subseteq Artifact /\ stale \subseteq Artifact /\ orphaned \subseteq Artifact
    /\ intentJson \in {"missing", "valid", "broken"}
    /\ now \in Nat /\ runs \in Nat /\ crashes \in Nat /\ faults \in Nat

\* Every variable has its type, and no task counter of a ledger in memory, in
\* the queue or on disk exceeds its total, whatever order the units of
\* structurePhase report in.
TypeOK == LedgersOK /\ ProcessOK /\ WorkspaceOK

\* The last snapshot in line for progress.json, or the file when none is.
LastSnapshot ==
    IF writeChain = << >> THEN progressJson ELSE writeChain[Len(writeChain)]

\* While a process runs, writing out the queue brings the file to exactly what
\* the process believes (and prints in its summary): no update of a phase body,
\* of a concurrent unit or of the preflight is lost or overtaken.
LedgerOnDiskCatchesUp == pc \notin {"clear", "load"} => LastSnapshot = current

\* While a phase body executes, however far the queue lags, progress.json says
\* that this phase is running (the contract of flush in run.ts).
RunningIsDurable == pc = "body" => progressJson[Phase].status = "running"

Lifecycle == INSTANCE PhaseLifecycle WITH ledger <- progressJson, Clearable <- Blockable

\* Through crashes, clears and late units, progress.json only ever changes as
\* the abstract ledger allows.
LedgerRefinesLifecycle == Lifecycle!LifecycleSpec

\* What a completed phase leaves in data/.  behavior leaves nothing for sure
\* (the exit code of emit is dropped), nor does structure without repositories.
ArtifactsOf(ph) ==
    CASE ph = "intent"    -> {"intent", "aggregates"}
      [] ph = "structure" -> IF Repos = 0 THEN {} ELSE {"structure"}
      [] ph = "behavior"  -> {}
      [] ph = "reconcile" -> {"unified"}
      [] ph = "verify"    -> {"findings"}

\* A phase recorded completed, which the next run will skip, has its artifacts;
\* the only exception is a clear that died between its files and its ledger.
CompletedHasArtifacts ==
    \A ph \in PhaseName :
        progressJson[ph].status = "completed" => ArtifactsOf(ph) \subseteq files \cup orphaned

\* When a run that derived again ends, unified.json reflects the last write of
\* each layer, and the findings reflect that unified.json.
DerivedFromTheLatest ==
    pc = "ended" =>
        /\ "reconcile" \in ran /\ current["reconcile"].status = "completed"
              => stale \cap Layers = {}
        /\ "verify" \in ran /\ current["verify"].status = "completed"
              => "unified" \notin stale

\* At the end of a run every phase it was asked for has an outcome, unless
\* structure failed in it and shut the phases behind it out; and those have not
\* run, although the surviving units still report while the loop moves on.
EveryPhaseSettled ==
    pc = "ended" =>
        \A i \in 1..Len(phaseOrder(cmd.only)) :
            LET ph == phaseOrder(cmd.only)[i] IN
            IF "structure" \in ran /\ current["structure"].status = "failed"
               /\ DependsOnStructure(ph)
            THEN ph \notin ran
            ELSE current[ph].status \in {"completed", "failed", "blocked"}

\* A completed phase counted every task it registered, even when the counters
\* it resumed from were cut off by a crash (behavior counts pages it finds, not
\* the ones it planned).
CompletedCountedAll ==
    \A ph \in PhaseName \ {"behavior"} :
        progressJson[ph].status = "completed" => progressJson[ph].completed = progressJson[ph].total

\* The work of every command ends: the process is gone, or it has its whole
\* ledger on disk and no unit in flight (and at most serves the viewer).
CommandEnds ==
    pc # "idle" ~> pc = "idle" \/ (pc = "ended" /\ writeChain = << >> /\ late = {})

-----------------------------------------------------------------------------
(* What the documents say and the code does not keep. *)

\* README.md: run --only structure runs "structure (+ reconcile/verify)".  A
\* phase that --only ran to completion is in the unified model when the run
\* ends.
OnlyRunReachesUnified ==
    pc = "ended" /\ cmd.only # "all" /\ cmd.only \in ran
        /\ current[cmd.only].status = "completed" /\ faults = 0
            => cmd.only \notin stale
=============================================================================
