----------------------------- MODULE BehaviorRun -----------------------------
(***************************************************************************)
(* The commands of the behavior engine over one .e2e directory and one     *)
(* target application: run (behavior/src/cli/commands/run.ts with          *)
(* pipeline/collect.ts and diff.ts), explore (pipeline/explore.ts), crud   *)
(* (cli/commands/crud.ts) and report (cli/commands/report.ts) on the       *)
(* findings store (state/findings.ts) and the baseline (state/store.ts).   *)
(*                                                                         *)
(* Commands are processes that may overlap; an action is the code up to    *)
(* its next await that touches something shared.  A fault makes an awaited *)
(* call throw, a crash kills the process.  The application may change at   *)
(* any time: a crawl sees any set of its features (transitions between     *)
(* pages).  A finding is a difference from the baseline or an observation  *)
(* of another stage.                                                       *)
(***************************************************************************)
EXTENDS Integers, FiniteSets

CONSTANTS
    Proc,         \* processes that may overlap
    Feature,      \* what a crawl can see of the application
    Observations, \* what a stage other than diff may find: sets of Observation
    Commands,     \* command lines tried
    Seeds,        \* whether launch.seed is configured, subset of BOOLEAN
    MaxCommands, MaxFaults   \* bounds of the model

Kind == {"run", "explore", "crud", "report"}

\* kind, run --explore, --no-reseed, and the absence of --no-report.
CommandLine == [kind : Kind, explore : BOOLEAN, noReseed : BOOLEAN, report : BOOLEAN]

Observation == [change |-> "observed"]

ASSUME ObservationsAssumption == Observations \subseteq SUBSET {Observation}

ASSUME ProcAssumption == Proc # {}

ASSUME CommandAssumption == Commands \subseteq CommandLine /\ Seeds \subseteq BOOLEAN

ASSUME BoundsAssumption ==
    MaxCommands \in Nat /\ MaxFaults \in Nat

VARIABLES
    db,            \* commands whose invalid data are in the application's database
    seed,          \* whether launch.seed is configured
    baseline,      \* baseline.yaml: no structure, or one
    pending,       \* .e2e/findings/*.json
    activity,      \* lines of activity.jsonl
    archive, archivedLines,     \* what is under findings/archive
    pc, id, cmd,                \* a process: its stage, its number, its command line
    structure, prior,           \* of a run: its crawl, the baseline it read
    consumed, movable, moveLog, \* of a report: what it read, what it has still to archive
    written, writtenLines,      \* history: everything stored or appended
    reported, reportedLines,    \* history: everything a written report contains
    excused,                    \* history: commands that threw or died, or waived the reseed
    delivered,                  \* history: commands whose report step is behind them
    told, disturbed,            \* history: see FindingsTellTheChange; commands overlapped
    issued, faults

appVars     == <<db, seed>>
storeVars   == <<pending, activity, archive, archivedLines>>
runVars     == <<structure, prior>>
reportVars  == <<consumed, movable, moveLog>>
writtenVars == <<written, writtenLines>>
endVars     == <<excused, delivered>>
tellVars    == <<told, disturbed>>
vars == <<appVars, baseline, storeVars, pc, id, cmd, runVars, reportVars, writtenVars,
          reported, reportedLines, endVars, tellVars, issued, faults>>

-----------------------------------------------------------------------------

CommandId == 1..MaxCommands

Finding == [change : {"added", "removed"}, what : Feature] \cup {Observation}

Entry(source, n, findings) == [source |-> source, id |-> n, findings |-> findings]
Line(source, n) == [source |-> source, id |-> n]

\* Faulty variant: what disappeared is not looked for.
detectDiffsAdded(current, base) ==
    UNION {[change : {"added"}, what : current \ b] : b \in base}

\* detectTransitionDiffs against the baseline, if there is one.
detectDiffs(current, base) ==
    UNION {[change : {"added"}, what : current \ b] \cup
           [change : {"removed"}, what : b \ current] : b \in base}

\* What a reader of the findings thinks of a feature afterwards.
After(features, findings) ==
    {f \in Feature : \/ [change |-> "added", what |-> f] \in findings
                     \/ f \in features /\ [change |-> "removed", what |-> f] \notin findings}

Destructive(c) == c.kind \in {"explore", "crud"} \/ (c.kind = "run" /\ c.explore)

Fault == faults < MaxFaults /\ faults' = faults + 1
NoFault == UNCHANGED faults

noCommand == [kind |-> "report", explore |-> FALSE, noReseed |-> FALSE, report |-> TRUE]

Init ==
    /\ db = {} /\ seed \in Seeds /\ baseline = {}
    /\ pending = {} /\ activity = {} /\ archive = {} /\ archivedLines = {}
    /\ pc = [p \in Proc |-> "idle"] /\ id = [p \in Proc |-> 0]
    /\ cmd = [p \in Proc |-> noCommand]
    /\ structure = [p \in Proc |-> {}] /\ prior = [p \in Proc |-> {}]
    /\ consumed = [p \in Proc |-> {}]
    /\ movable = [p \in Proc |-> {}] /\ moveLog = [p \in Proc |-> FALSE]
    /\ written = {} /\ writtenLines = {} /\ reported = {} /\ reportedLines = {}
    /\ excused = {} /\ delivered = {}
    /\ told = {} /\ disturbed = FALSE
    /\ issued = 0 /\ faults = 0

-----------------------------------------------------------------------------
(* How a process moves on, and how it ends. *)

Goto(p, stage) ==
    /\ pc' = [pc EXCEPT ![p] = stage]
    /\ UNCHANGED <<id, cmd>>

Leave(p) ==
    /\ pc' = [pc EXCEPT ![p] = "idle"]
    /\ id' = [id EXCEPT ![p] = 0] /\ cmd' = [cmd EXCEPT ![p] = noCommand]

\* The process is gone and its memory with it.
Forget(p) ==
    /\ structure' = [structure EXCEPT ![p] = {}]
    /\ prior' = [prior EXCEPT ![p] = {}] /\ consumed' = [consumed EXCEPT ![p] = {}]
    /\ movable' = [movable EXCEPT ![p] = {}] /\ moveLog' = [moveLog EXCEPT ![p] = FALSE]

\* The command ends by itself.
End(p) ==
    /\ Leave(p) /\ Forget(p)
    /\ UNCHANGED endVars

\* An exception leaves the command.
Throw(p) ==
    /\ Leave(p) /\ Forget(p)
    /\ excused' = excused \cup {id[p]} /\ UNCHANGED delivered

Stay == UNCHANGED <<runVars, reportVars, endVars>>

\* Faulty variant: nobody asks how the database will be restored.
RefusesNobody(c) == FALSE

\* The guard of the destructive commands: no seed, and not waived.
Refuses(c) == Destructive(c) /\ ~seed /\ ~c.noReseed

FirstStage(c) ==
    CASE c.kind = "run" -> "collect" [] c.kind = "report" -> "read" [] OTHER -> "explore"

\* A command up to its first shared step: it is refused, or (unless it is a
\* report) fails to prepare or to log in, or begins.
StartCommand(p) ==
    /\ pc[p] = "idle" /\ issued < MaxCommands
    /\ issued' = issued + 1
    /\ \E c \in Commands :
          \/ /\ Refuses(c) \/ c.kind # "report"
             /\ IF Refuses(c) THEN NoFault ELSE Fault
             /\ UNCHANGED <<pc, id, cmd, excused>>
          \/ /\ ~Refuses(c) /\ NoFault
             /\ cmd' = [cmd EXCEPT ![p] = c]
             /\ pc' = [pc EXCEPT ![p] = FirstStage(c)]
             /\ id' = [id EXCEPT ![p] = issued + 1]
             /\ excused' = IF c.noReseed THEN excused \cup {issued + 1} ELSE excused
    /\ disturbed' = (disturbed \/ \E q \in Proc \ {p} : pc[q] # "idle")
    /\ UNCHANGED <<appVars, baseline, storeVars, runVars, reportVars, writtenVars,
                   reported, reportedLines, delivered, told>>

-----------------------------------------------------------------------------
(* run, stage 1: collect. *)

AfterCollect(p) == IF cmd[p].explore THEN "explore" ELSE "saveBaseline"

\* loadBaseline, then crawl and extractPageInfo (which touch nothing shared).
Collect(p) ==
    /\ pc[p] = "collect" /\ NoFault
    /\ prior' = [prior EXCEPT ![p] = baseline]
    /\ \E seen \in SUBSET Feature : structure' = [structure EXCEPT ![p] = seen]
    /\ Goto(p, IF baseline = {} THEN "firstBaseline" ELSE AfterCollect(p))
    /\ UNCHANGED <<appVars, baseline, storeVars, reportVars, writtenVars,
                   reported, reportedLines, endVars, tellVars, issued>>

SaveFirstBaseline(p) ==
    /\ pc[p] = "firstBaseline" /\ NoFault
    /\ baseline' = {structure[p]}
    /\ Goto(p, AfterCollect(p)) /\ Stay
    /\ UNCHANGED <<appVars, storeVars, writtenVars, reported, reportedLines,
                   tellVars, issued>>

\* collect throws anywhere: the run goes on with the empty structure.
CollectThrows(p) ==
    /\ pc[p] \in {"collect", "firstBaseline"} /\ Fault
    /\ structure' = [structure EXCEPT ![p] = {}] /\ prior' = [prior EXCEPT ![p] = {}]
    /\ Goto(p, AfterCollect(p))
    /\ UNCHANGED <<appVars, baseline, storeVars, reportVars, writtenVars,
                   reported, reportedLines, endVars, tellVars, issued>>

-----------------------------------------------------------------------------
(* explore and crud: destructive input, then its findings. *)

\* Faulty variant: one file per source.
PutOver(e) == pending' = {f \in pending : f.source # e.source} \cup {e}

\* writeFindings: a new file each time, by its random suffix.
Put(e) == pending' = pending \cup {e}

writeFindings(source, n, findings) ==
    /\ Put(Entry(source, n, findings))
    /\ written' = written \cup {Entry(source, n, findings)}

appendActivity(source, n) ==
    /\ activity' = activity \cup {Line(source, n)}
    /\ writtenLines' = writtenLines \cup {Line(source, n)}

\* The forms are submitted, or the entities created, updated and deleted.
Explore(p) ==
    /\ pc[p] = "explore" /\ NoFault
    /\ db' = db \cup {id[p]}
    /\ Goto(p, "storeExplored") /\ Stay
    /\ UNCHANGED <<seed, baseline, storeVars, writtenVars, reported, reportedLines,
                   tellVars, issued>>

StoreExplored(p) ==
    /\ pc[p] = "storeExplored" /\ NoFault
    /\ \E findings \in Observations : writeFindings("explore", id[p], findings)
    /\ Goto(p, "logExplored") /\ Stay
    /\ UNCHANGED <<appVars, baseline, activity, archive, archivedLines, writtenLines,
                   reported, reportedLines, tellVars, issued>>

\* explore appends its activity, crud writes its results; explore inside a run
\* leaves the reseed to the run.
LogExplored(p) ==
    /\ pc[p] = "logExplored" /\ NoFault
    /\ IF cmd[p].kind = "crud" THEN UNCHANGED <<activity, writtenLines>>
                               ELSE appendActivity("explore", id[p])
    /\ IF cmd[p].kind # "run" /\ (cmd[p].noReseed \/ ~seed)
         THEN End(p)
         ELSE /\ Goto(p, IF cmd[p].kind = "run" THEN "saveBaseline" ELSE "reseed")
              /\ Stay
    /\ UNCHANGED <<appVars, baseline, pending, archive, archivedLines, written,
                   reported, reportedLines, tellVars, issued>>

\* A run swallows it; explore and crud leave at once, without the reseed.
ExploreThrows(p) ==
    /\ pc[p] \in {"explore", "storeExplored", "logExplored"} /\ Fault
    /\ db' \in IF pc[p] = "explore" THEN {db, db \cup {id[p]}} ELSE {db}
    /\ IF cmd[p].kind = "run" THEN Goto(p, "saveBaseline") /\ Stay ELSE Throw(p)
    /\ UNCHANGED <<seed, baseline, storeVars, writtenVars, reported, reportedLines,
                   tellVars, issued>>

-----------------------------------------------------------------------------
(* run, stages 2 to 5. *)

SaveBaseline(p) ==
    /\ pc[p] = "saveBaseline"
    /\ \/ NoFault /\ baseline' = {structure[p]}
       \/ Fault /\ UNCHANGED baseline
    /\ Goto(p, "store") /\ Stay
    /\ UNCHANGED <<appVars, storeVars, writtenVars, reported, reportedLines,
                   tellVars, issued>>

\* What diff, verify, login and scenarios find, on what the run has in memory.
\* Each may fail and then adds nothing; the explored findings are stored already.
Examined(p, observations) == detectDiffs(structure[p], prior[p]) \cup observations

StoreFindings(p) ==
    /\ pc[p] = "store"
    /\ \E observations \in Observations :
          \/ /\ NoFault
             /\ writeFindings("run", id[p], Examined(p, observations))
             /\ told' = IF prior[p] = {} THEN structure[p]
                                        ELSE After(told, Examined(p, observations))
          \/ Fault /\ writeFindings("run", id[p], observations) /\ UNCHANGED told
          \/ Fault /\ UNCHANGED <<pending, written, told>>
    /\ Goto(p, "log") /\ Stay
    /\ UNCHANGED <<appVars, baseline, activity, archive, archivedLines, writtenLines,
                   reported, reportedLines, disturbed, issued>>

\* Where a run goes once its findings and its database are settled.
AfterRun(p) == IF cmd[p].report THEN Goto(p, "read") /\ Stay ELSE End(p)

LogRun(p) ==
    /\ pc[p] = "log"
    /\ \/ NoFault /\ appendActivity("run", id[p])
       \/ Fault /\ UNCHANGED <<activity, writtenLines>>
    /\ IF cmd[p].explore /\ ~cmd[p].noReseed /\ seed
         THEN Goto(p, "reseed") /\ Stay
         ELSE AfterRun(p)
    /\ UNCHANGED <<appVars, baseline, pending, archive, archivedLines, written,
                   reported, reportedLines, tellVars, issued>>

\* seedDatabase replaces the whole content.
Reseed(p) ==
    /\ pc[p] = "reseed" /\ NoFault
    /\ db' = {}
    /\ IF cmd[p].kind = "run" THEN AfterRun(p) ELSE End(p)
    /\ UNCHANGED <<seed, baseline, storeVars, writtenVars, reported, reportedLines,
                   tellVars, issued>>

ReseedThrows(p) ==
    /\ pc[p] = "reseed" /\ Fault
    /\ Throw(p)
    /\ UNCHANGED <<appVars, baseline, storeVars, writtenVars, reported, reportedLines,
                   tellVars, issued>>

-----------------------------------------------------------------------------
(* report. *)

\* The command is over as far as the report goes.
Deliver(p) ==
    /\ Leave(p) /\ Forget(p)
    /\ delivered' = delivered \cup {id[p]} /\ UNCHANGED excused

ReadFindings(p) ==
    /\ pc[p] = "read" /\ NoFault
    /\ consumed' = [consumed EXCEPT ![p] = pending]
    /\ Goto(p, "render")
    /\ UNCHANGED <<appVars, baseline, storeVars, runVars, movable, moveLog, writtenVars,
                   reported, reportedLines, endVars, tellVars, issued>>

\* Faulty variant: only differences and activity count.
NothingToReportButDiffs(p, log) ==
    log = {} /\ \A e \in consumed[p] : e.findings \subseteq {Observation}

NothingToReport(p, log) == log = {} /\ \A e \in consumed[p] : e.findings = {}

\* The activity is read and all of it rendered: adjudication, issues (a failing
\* one is skipped), the files.
Render(p) ==
    /\ pc[p] = "render" /\ NoFault
    /\ \/ /\ NothingToReport(p, activity)
          /\ Deliver(p)
          /\ UNCHANGED <<reported, reportedLines>>
       \/ /\ ~NothingToReport(p, activity)
          /\ reported' = reported \cup consumed[p]
          /\ reportedLines' = reportedLines \cup activity
          /\ Goto(p, "list") /\ Stay
    /\ UNCHANGED <<appVars, baseline, storeVars, writtenVars, tellVars, issued>>

ReportThrows(p) ==
    /\ pc[p] \in {"read", "render", "list"} /\ Fault
    /\ Throw(p)
    /\ UNCHANGED <<appVars, baseline, storeVars, writtenVars, reported, reportedLines,
                   tellVars, issued>>

\* The findings files archiveConsumed takes: those the report read.
ToArchive(p) == consumed[p] \cap pending

\* archiveConsumed lists the directory; the activity log goes whenever it is there.
ListArchive(p) ==
    /\ pc[p] = "list" /\ NoFault
    /\ \/ /\ ToArchive(p) = {} /\ activity = {}
          /\ Deliver(p)
       \/ /\ ToArchive(p) # {} \/ activity # {}
          /\ movable' = [movable EXCEPT ![p] = ToArchive(p)]
          /\ moveLog' = [moveLog EXCEPT ![p] = activity # {}]
          /\ Goto(p, "move")
          /\ UNCHANGED <<runVars, consumed, endVars>>
    /\ UNCHANGED <<appVars, baseline, storeVars, writtenVars, reported, reportedLines,
                   tellVars, issued>>

\* rename; a file another report has moved away is only logged.
MoveFile(e) ==
    /\ archive' = IF e \in pending THEN archive \cup {e} ELSE archive
    /\ pending' = pending \ {e}

MoveEntry(p, e) ==
    /\ pc[p] = "move" /\ e \in movable[p]
    /\ \/ NoFault /\ MoveFile(e)
       \/ Fault /\ UNCHANGED <<pending, archive>>
    /\ movable' = [movable EXCEPT ![p] = @ \ {e}]
    /\ UNCHANGED <<appVars, baseline, activity, archivedLines, pc, id, cmd, runVars,
                   consumed, moveLog, writtenVars, reported, reportedLines,
                   endVars, tellVars, issued>>

MoveActivity(p) ==
    /\ pc[p] = "move" /\ moveLog[p]
    /\ \/ NoFault /\ archivedLines' = archivedLines \cup activity /\ activity' = {}
       \/ Fault /\ UNCHANGED <<activity, archivedLines>>
    /\ moveLog' = [moveLog EXCEPT ![p] = FALSE]
    /\ UNCHANGED <<appVars, baseline, pending, archive, pc, id, cmd, runVars, consumed,
                   movable, writtenVars, reported, reportedLines, endVars, tellVars, issued>>

EndReport(p) ==
    /\ pc[p] = "move" /\ movable[p] = {} /\ ~moveLog[p] /\ NoFault
    /\ Deliver(p)
    /\ UNCHANGED <<appVars, baseline, storeVars, writtenVars, reported, reportedLines,
                   tellVars, issued>>

-----------------------------------------------------------------------------
(* Whatever may come from outside. *)

\* A crash while baseline.yaml is being written leaves it unreadable or cut short.
Crash(p) ==
    /\ pc[p] # "idle" /\ Fault
    /\ IF pc[p] \in {"firstBaseline", "saveBaseline"}
         THEN baseline' \in {baseline, {}} \cup {{s} : s \in SUBSET structure[p]}
         ELSE UNCHANGED baseline
    /\ Throw(p)
    /\ UNCHANGED <<appVars, storeVars, writtenVars, reported, reportedLines,
                   tellVars, issued>>

Step(p) ==
    \/ Collect(p) \/ SaveFirstBaseline(p) \/ CollectThrows(p)
    \/ Explore(p) \/ StoreExplored(p) \/ LogExplored(p) \/ ExploreThrows(p)
    \/ SaveBaseline(p) \/ StoreFindings(p) \/ LogRun(p)
    \/ Reseed(p) \/ ReseedThrows(p)
    \/ ReadFindings(p) \/ Render(p) \/ ReportThrows(p)
    \/ ListArchive(p) \/ (\E e \in movable[p] : MoveEntry(p, e))
    \/ MoveActivity(p) \/ EndReport(p)

Next == \E p \in Proc : StartCommand(p) \/ Step(p) \/ Crash(p)

Spec == Init /\ [][Next]_vars

-----------------------------------------------------------------------------
(* Properties. *)

Stage == {"idle", "collect", "firstBaseline", "explore", "storeExplored", "logExplored",
          "saveBaseline", "store", "log", "reseed", "read", "render", "list", "move"}

EntryType == [source : {"run", "explore"}, id : CommandId, findings : SUBSET Finding]
LineType  == [source : {"run", "explore"}, id : CommandId]

\* Every variable has its type; a findings file is pending or archived, never both.
TypeOK ==
    /\ db \subseteq CommandId /\ seed \in BOOLEAN
    /\ baseline \subseteq SUBSET Feature
    /\ pending \subseteq EntryType /\ archive \subseteq EntryType
    /\ pending \cap archive = {}
    /\ activity \subseteq LineType /\ archivedLines \subseteq LineType
    /\ pc \in [Proc -> Stage] /\ id \in [Proc -> 0..MaxCommands]
    /\ cmd \in [Proc -> CommandLine]
    /\ structure \in [Proc -> SUBSET Feature] /\ prior \in [Proc -> SUBSET SUBSET Feature]
    /\ consumed \in [Proc -> SUBSET EntryType]
    /\ movable \in [Proc -> SUBSET EntryType] /\ moveLog \in [Proc -> BOOLEAN]
    /\ issued \in 0..MaxCommands /\ faults \in 0..MaxFaults

\* No findings file and no line of activity is ever lost or overwritten, and
\* what report archives it has reported, although runs store new files while it
\* renders, reports overlap, and a report may die between two files; only a line
\* that another command appends while the report renders may go unreported,
\* because the log is moved whole (archiveConsumed).
EntriesAreKept ==
    /\ written = pending \cup archive /\ writtenLines = activity \cup archivedLines
    /\ archive \subseteq reported
    /\ ~disturbed => archivedLines \subseteq reportedLines

\* Once the report of a command is behind it and no file refused to move, what
\* the command had stored has been reported, by it or by a report beside it.
DeliveredIsReported ==
    faults = 0 => \A e \in pending : e.id \in delivered => e.findings = {}

\* A command that ends without an exception has not left its invalid data in
\* the database, unless it was told so by --no-reseed.
RestoredOrWaived ==
    \A n \in db : n \in excused \/ \E p \in Proc : id[p] = n

\* Who starts from the first baseline and applies the findings of each run
\* knows what the baseline holds: no change of the application is absorbed by
\* it in silence (as long as runs do not overlap, and none of them fails).
FindingsTellTheChange ==
    ~disturbed /\ faults = 0 /\ baseline # {}
        /\ (\A p \in Proc : pc[p] = "idle") => baseline = {told}
=============================================================================
