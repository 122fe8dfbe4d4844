--------------------------- MODULE BehaviorRun_proofs ---------------------------
(***************************************************************************)
(* Proofs about the commands of the behavior engine: for any number of     *)
(* processes, commands and faults, and any application.                    *)
(***************************************************************************)
EXTENDS BehaviorRun, TLAPS

\* TypeOK but for its last word on findings files, which is StoredOnce.
Typed ==
    /\ db \subseteq CommandId /\ seed \in BOOLEAN
    /\ baseline \subseteq SUBSET Feature
    /\ pending \subseteq EntryType /\ archive \subseteq EntryType
    /\ activity \subseteq LineType /\ archivedLines \subseteq LineType
    /\ pc \in [Proc -> Stage] /\ id \in [Proc -> 0..MaxCommands]
    /\ cmd \in [Proc -> CommandLine]
    /\ structure \in [Proc -> SUBSET Feature] /\ prior \in [Proc -> SUBSET SUBSET Feature]
    /\ consumed \in [Proc -> SUBSET EntryType]
    /\ movable \in [Proc -> SUBSET EntryType] /\ moveLog \in [Proc -> BOOLEAN]
    /\ issued \in 0..MaxCommands /\ faults \in 0..MaxFaults

\* A process at work has a number of its own, already given out.
IdsOK ==
    /\ \A p \in Proc : pc[p] = "idle" <=> id[p] = 0
    /\ \A p \in Proc : id[p] <= issued
    /\ \A p, q \in Proc : p # q /\ id[p] = id[q] => id[p] = 0

-------------------------------------------------------------------------------
(* Types. *)

LEMMA InitTyped == Init => Typed
BY CommandAssumption, BoundsAssumption DEF Init, Typed, noCommand, CommandLine, Kind, Stage

\* What the ends of a command, and its moves, do to types.
LEMMA MovesTyped ==
    ASSUME Typed, NEW p \in Proc
    PROVE  /\ \A stage \in Stage : Goto(p, stage) =>
                 (pc \in [Proc -> Stage] /\ id \in [Proc -> 0..MaxCommands] /\ cmd \in [Proc -> CommandLine])'
           /\ Leave(p) =>
                 (pc \in [Proc -> Stage] /\ id \in [Proc -> 0..MaxCommands] /\ cmd \in [Proc -> CommandLine])'
           /\ Forget(p) =>
                 (/\ structure \in [Proc -> SUBSET Feature] /\ prior \in [Proc -> SUBSET SUBSET Feature]
                  /\ consumed \in [Proc -> SUBSET EntryType]
                  /\ movable \in [Proc -> SUBSET EntryType] /\ moveLog \in [Proc -> BOOLEAN])'
<1>1. noCommand \in CommandLine /\ "idle" \in Stage /\ MaxCommands \in Nat
  BY BoundsAssumption DEF noCommand, CommandLine, Kind, Stage
<1>2. \A stage \in Stage : Goto(p, stage) =>
         (pc \in [Proc -> Stage] /\ id \in [Proc -> 0..MaxCommands] /\ cmd \in [Proc -> CommandLine])'
  BY DEF Typed, Goto
<1>3. Leave(p) =>
         (pc \in [Proc -> Stage] /\ id \in [Proc -> 0..MaxCommands] /\ cmd \in [Proc -> CommandLine])'
  BY <1>1 DEF Typed, Leave
<1>4. Forget(p) =>
         (/\ structure \in [Proc -> SUBSET Feature] /\ prior \in [Proc -> SUBSET SUBSET Feature]
          /\ consumed \in [Proc -> SUBSET EntryType]
          /\ movable \in [Proc -> SUBSET EntryType] /\ moveLog \in [Proc -> BOOLEAN])'
  BY DEF Typed, Forget
<1> QED BY <1>2, <1>3, <1>4

\* What diff and the other stages find is a set of findings.
LEMMA ExaminedTyped ==
    ASSUME Typed, NEW p \in Proc, NEW observations \in Observations
    PROVE  /\ observations \subseteq Finding /\ Examined(p, observations) \subseteq Finding
<1>1. observations \subseteq Finding
  BY ObservationsAssumption DEF Finding
<1>2. structure[p] \subseteq Feature /\ \A b \in prior[p] : b \subseteq Feature
  BY DEF Typed
<1>3. detectDiffs(structure[p], prior[p]) \subseteq Finding
  BY <1>2 DEF detectDiffs, Finding
<1> QED BY <1>1, <1>3 DEF Examined

LEMMA NextTyped ==
    ASSUME Typed, IdsOK, [Next]_vars
    PROVE  Typed'
<1> USE DEF appVars, storeVars, runVars, reportVars, writtenVars, endVars, tellVars
<1>c. MaxCommands \in Nat /\ MaxFaults \in Nat
  BY BoundsAssumption
<1>1. ASSUME NEW p \in Proc, StartCommand(p) PROVE Typed'
  <2>1. PICK c \in Commands :
          \/ /\ Refuses(c) \/ c.kind # "report"
             /\ IF Refuses(c) THEN NoFault ELSE Fault
             /\ UNCHANGED <<pc, id, cmd, excused>>
          \/ /\ ~Refuses(c) /\ NoFault
             /\ cmd' = [cmd EXCEPT ![p] = c]
             /\ pc' = [pc EXCEPT ![p] = FirstStage(c)]
             /\ id' = [id EXCEPT ![p] = issued + 1]
             /\ excused' = IF c.noReseed THEN excused \cup {issued + 1} ELSE excused
    BY <1>1 DEF StartCommand
  <2>2. c \in CommandLine /\ FirstStage(c) \in Stage
    BY CommandAssumption DEF FirstStage, Stage
  <2>3. issued + 1 \in 0..MaxCommands /\ issued' \in 0..MaxCommands
    BY <1>1, <1>c DEF StartCommand, Typed
  <2>4. faults' \in 0..MaxFaults
    BY <2>1, <1>c DEF Fault, NoFault, Typed
  <2>5. (pc \in [Proc -> Stage] /\ id \in [Proc -> 0..MaxCommands] /\ cmd \in [Proc -> CommandLine])'
    BY <2>1, <2>2, <2>3 DEF Typed
  <2> QED BY <1>1, <2>3, <2>4, <2>5 DEF StartCommand, Typed
<1>f. ASSUME Fault \/ NoFault PROVE faults' \in 0..MaxFaults
  BY <1>f, <1>c DEF Fault, NoFault, Typed
<1>2. ASSUME NEW p \in Proc, Collect(p) PROVE Typed'
  <2>1. structure' \in [Proc -> SUBSET Feature] /\ prior' \in [Proc -> SUBSET SUBSET Feature]
    BY <1>2 DEF Collect, Typed
  <2>2. (pc \in [Proc -> Stage] /\ id \in [Proc -> 0..MaxCommands] /\ cmd \in [Proc -> CommandLine])'
    BY <1>2, MovesTyped DEF Collect, AfterCollect, Stage
  <2> QED BY <1>2, <1>f, <2>1, <2>2 DEF Collect, Typed
<1>3. ASSUME NEW p \in Proc, SaveFirstBaseline(p) PROVE Typed'
  <2>1. (pc \in [Proc -> Stage] /\ id \in [Proc -> 0..MaxCommands] /\ cmd \in [Proc -> CommandLine])'
    BY <1>3, MovesTyped DEF SaveFirstBaseline, AfterCollect, Stage
  <2> QED BY <1>3, <1>f, <2>1 DEF SaveFirstBaseline, Stay, Typed
<1>4. ASSUME NEW p \in Proc, CollectThrows(p) PROVE Typed'
  <2>1. (pc \in [Proc -> Stage] /\ id \in [Proc -> 0..MaxCommands] /\ cmd \in [Proc -> CommandLine])'
    BY <1>4, MovesTyped DEF CollectThrows, AfterCollect, Stage
  <2> QED BY <1>4, <1>f, <2>1 DEF CollectThrows, Typed
<1>5. ASSUME NEW p \in Proc, Explore(p) PROVE Typed'
  <2>1. (pc \in [Proc -> Stage] /\ id \in [Proc -> 0..MaxCommands] /\ cmd \in [Proc -> CommandLine])'
    BY <1>5, MovesTyped DEF Explore, Stage
  <2>2. id[p] \in CommandId
    BY <1>5 DEF Explore, Typed, IdsOK, CommandId
  <2> QED BY <1>5, <1>f, <2>1, <2>2 DEF Explore, Stay, Typed
<1>6. ASSUME NEW p \in Proc, StoreExplored(p) PROVE Typed'
  <2>1. (pc \in [Proc -> Stage] /\ id \in [Proc -> 0..MaxCommands] /\ cmd \in [Proc -> CommandLine])'
    BY <1>6, MovesTyped DEF StoreExplored, Stage
  <2>2. id[p] \in CommandId
    BY <1>6 DEF StoreExplored, Typed, IdsOK, CommandId
  <2>3. pending' \subseteq EntryType
    BY <1>6, <2>2, ExaminedTyped DEF StoreExplored, Typed, writeFindings, Put, Entry, EntryType
  <2> QED BY <1>6, <1>f, <2>1, <2>3 DEF StoreExplored, Stay, Typed
<1>7. ASSUME NEW p \in Proc, LogExplored(p) PROVE Typed'
  <2>1. (pc \in [Proc -> Stage] /\ id \in [Proc -> 0..MaxCommands] /\ cmd \in [Proc -> CommandLine])'
    BY <1>7, MovesTyped DEF LogExplored, End, Stage
  <2>2. id[p] \in CommandId
    BY <1>7 DEF LogExplored, Typed, IdsOK, CommandId
  <2>3. activity' \subseteq LineType
    BY <1>7, <2>2 DEF LogExplored, Typed, appendActivity, Line, LineType
  <2>4. (/\ structure \in [Proc -> SUBSET Feature] /\ prior \in [Proc -> SUBSET SUBSET Feature]
         /\ consumed \in [Proc -> SUBSET EntryType]
         /\ movable \in [Proc -> SUBSET EntryType] /\ moveLog \in [Proc -> BOOLEAN])'
    BY <1>7, MovesTyped DEF LogExplored, End, Stay, Typed
  <2> QED BY <1>7, <1>f, <2>1, <2>3, <2>4 DEF LogExplored, Typed
<1>8. ASSUME NEW p \in Proc, ExploreThrows(p) PROVE Typed'
  <2>1. (pc \in [Proc -> Stage] /\ id \in [Proc -> 0..MaxCommands] /\ cmd \in [Proc -> CommandLine])'
    BY <1>8, MovesTyped DEF ExploreThrows, Throw, Stage
  <2>2. id[p] \in CommandId
    BY <1>8 DEF ExploreThrows, Typed, IdsOK, CommandId
  <2>3. db' \subseteq CommandId
    BY <1>8, <2>2 DEF ExploreThrows, Typed
  <2>4. (/\ structure \in [Proc -> SUBSET Feature] /\ prior \in [Proc -> SUBSET SUBSET Feature]
         /\ consumed \in [Proc -> SUBSET EntryType]
         /\ movable \in [Proc -> SUBSET EntryType] /\ moveLog \in [Proc -> BOOLEAN])'
    BY <1>8, MovesTyped DEF ExploreThrows, Throw, Stay, Typed
  <2> QED BY <1>8, <1>f, <2>1, <2>3, <2>4 DEF ExploreThrows, Typed
<1>9. ASSUME NEW p \in Proc, SaveBaseline(p) PROVE Typed'
  <2>1. (pc \in [Proc -> Stage] /\ id \in [Proc -> 0..MaxCommands] /\ cmd \in [Proc -> CommandLine])'
    BY <1>9, MovesTyped DEF SaveBaseline, Stage
  <2>2. (/\ structure \in [Proc -> SUBSET Feature] /\ prior \in [Proc -> SUBSET SUBSET Feature]
         /\ consumed \in [Proc -> SUBSET EntryType]
         /\ movable \in [Proc -> SUBSET EntryType] /\ moveLog \in [Proc -> BOOLEAN])'
    BY <1>9, MovesTyped DEF SaveBaseline, Stay, Typed
  <2>3. baseline' \subseteq SUBSET Feature
    BY <1>9 DEF SaveBaseline, Typed
  <2> QED BY <1>9, <1>f, <2>1, <2>2, <2>3 DEF SaveBaseline, Typed
<1>10. ASSUME NEW p \in Proc, StoreFindings(p) PROVE Typed'
  <2>1. (pc \in [Proc -> Stage] /\ id \in [Proc -> 0..MaxCommands] /\ cmd \in [Proc -> CommandLine])'
    BY <1>10, MovesTyped DEF StoreFindings, Stage
  <2>2. id[p] \in CommandId
    BY <1>10 DEF StoreFindings, Typed, IdsOK, CommandId
  <2>3. pending' \subseteq EntryType
    BY <1>10, <2>2, ExaminedTyped DEF StoreFindings, Typed, writeFindings, Put, Entry, EntryType
  <2> QED BY <1>10, <1>f, <2>1, <2>3 DEF StoreFindings, Stay, Typed
<1>11. ASSUME NEW p \in Proc, LogRun(p) PROVE Typed'
  <2>1. (pc \in [Proc -> Stage] /\ id \in [Proc -> 0..MaxCommands] /\ cmd \in [Proc -> CommandLine])'
    BY <1>11, MovesTyped DEF LogRun, AfterRun, End, Stage
  <2>2. id[p] \in CommandId
    BY <1>11 DEF LogRun, Typed, IdsOK, CommandId
  <2>3. activity' \subseteq LineType
    BY <1>11, <2>2 DEF LogRun, Typed, appendActivity, Line, LineType
  <2>4. (/\ structure \in [Proc -> SUBSET Feature] /\ prior \in [Proc -> SUBSET SUBSET Feature]
         /\ consumed \in [Proc -> SUBSET EntryType]
         /\ movable \in [Proc -> SUBSET EntryType] /\ moveLog \in [Proc -> BOOLEAN])'
    BY <1>11, MovesTyped DEF LogRun, AfterRun, End, Stay, Typed
  <2> QED BY <1>11, <1>f, <2>1, <2>3, <2>4 DEF LogRun, Typed
<1>12. ASSUME NEW p \in Proc, Reseed(p) PROVE Typed'
  <2>1. (pc \in [Proc -> Stage] /\ id \in [Proc -> 0..MaxCommands] /\ cmd \in [Proc -> CommandLine])'
    BY <1>12, MovesTyped DEF Reseed, AfterRun, End, Stage
  <2>2. (/\ structure \in [Proc -> SUBSET Feature] /\ prior \in [Proc -> SUBSET SUBSET Feature]
         /\ consumed \in [Proc -> SUBSET EntryType]
         /\ movable \in [Proc -> SUBSET EntryType] /\ moveLog \in [Proc -> BOOLEAN])'
    BY <1>12, MovesTyped DEF Reseed, AfterRun, End, Stay, Typed
  <2> QED BY <1>12, <1>f, <2>1, <2>2 DEF Reseed, Typed
<1>13. ASSUME NEW p \in Proc, ReseedThrows(p) PROVE Typed'
  <2>1. (pc \in [Proc -> Stage] /\ id \in [Proc -> 0..MaxCommands] /\ cmd \in [Proc -> CommandLine])'
    BY <1>13, MovesTyped DEF ReseedThrows, Throw, Stage
  <2>2. (/\ structure \in [Proc -> SUBSET Feature] /\ prior \in [Proc -> SUBSET SUBSET Feature]
         /\ consumed \in [Proc -> SUBSET EntryType]
         /\ movable \in [Proc -> SUBSET EntryType] /\ moveLog \in [Proc -> BOOLEAN])'
    BY <1>13, MovesTyped DEF ReseedThrows, Throw, Typed
  <2> QED BY <1>13, <1>f, <2>1, <2>2 DEF ReseedThrows, Typed
<1>14. ASSUME NEW p \in Proc, ReadFindings(p) PROVE Typed'
  <2>1. (pc \in [Proc -> Stage] /\ id \in [Proc -> 0..MaxCommands] /\ cmd \in [Proc -> CommandLine])'
    BY <1>14, MovesTyped DEF ReadFindings, Stage
  <2>2. (/\ structure \in [Proc -> SUBSET Feature] /\ prior \in [Proc -> SUBSET SUBSET Feature]
         /\ consumed \in [Proc -> SUBSET EntryType]
         /\ movable \in [Proc -> SUBSET EntryType] /\ moveLog \in [Proc -> BOOLEAN])'
    BY <1>14, MovesTyped DEF ReadFindings, Typed
  <2> QED BY <1>14, <1>f, <2>1, <2>2 DEF ReadFindings, Typed
<1>15. ASSUME NEW p \in Proc, Render(p) PROVE Typed'
  <2>1. (pc \in [Proc -> Stage] /\ id \in [Proc -> 0..MaxCommands] /\ cmd \in [Proc -> CommandLine])'
    BY <1>15, MovesTyped DEF Render, Deliver, Stage
  <2>2. (/\ structure \in [Proc -> SUBSET Feature] /\ prior \in [Proc -> SUBSET SUBSET Feature]
         /\ consumed \in [Proc -> SUBSET EntryType]
         /\ movable \in [Proc -> SUBSET EntryType] /\ moveLog \in [Proc -> BOOLEAN])'
    BY <1>15, MovesTyped DEF Render, Deliver, Stay, Typed
  <2> QED BY <1>15, <1>f, <2>1, <2>2 DEF Render, Typed
<1>16. ASSUME NEW p \in Proc, ReportThrows(p) PROVE Typed'
  <2>1. (pc \in [Proc -> Stage] /\ id \in [Proc -> 0..MaxCommands] /\ cmd \in [Proc -> CommandLine])'
    BY <1>16, MovesTyped DEF ReportThrows, Throw, Stage
  <2>2. (/\ structure \in [Proc -> SUBSET Feature] /\ prior \in [Proc -> SUBSET SUBSET Feature]
         /\ consumed \in [Proc -> SUBSET EntryType]
         /\ movable \in [Proc -> SUBSET EntryType] /\ moveLog \in [Proc -> BOOLEAN])'
    BY <1>16, MovesTyped DEF ReportThrows, Throw, Typed
  <2> QED BY <1>16, <1>f, <2>1, <2>2 DEF ReportThrows, Typed
<1>17. ASSUME NEW p \in Proc, ListArchive(p) PROVE Typed'
  <2>1. (pc \in [Proc -> Stage] /\ id \in [Proc -> 0..MaxCommands] /\ cmd \in [Proc -> CommandLine])'
    BY <1>17, MovesTyped DEF ListArchive, Deliver, Stage
  <2>2. (/\ structure \in [Proc -> SUBSET Feature] /\ prior \in [Proc -> SUBSET SUBSET Feature]
         /\ consumed \in [Proc -> SUBSET EntryType]
         /\ movable \in [Proc -> SUBSET EntryType] /\ moveLog \in [Proc -> BOOLEAN])'
    BY <1>17, MovesTyped DEF ListArchive, Deliver, ToArchive, Typed
  <2> QED BY <1>17, <1>f, <2>1, <2>2 DEF ListArchive, Typed
<1>18. ASSUME NEW p \in Proc, NEW e \in movable[p], MoveEntry(p, e) PROVE Typed'
  <2>1. e \in EntryType /\ movable' \in [Proc -> SUBSET EntryType]
    BY <1>18 DEF MoveEntry, Typed
  <2>2. pending' \subseteq EntryType /\ archive' \subseteq EntryType
    BY <1>18, <2>1 DEF MoveEntry, MoveFile, Typed
  <2> QED BY <1>18, <1>f, <2>1, <2>2 DEF MoveEntry, Typed
<1>19. ASSUME NEW p \in Proc, MoveActivity(p) PROVE Typed'
  <2>1. moveLog' \in [Proc -> BOOLEAN]
    BY <1>19 DEF MoveActivity, Typed
  <2> QED BY <1>19, <1>f, <2>1 DEF MoveActivity, Typed
<1>20. ASSUME NEW p \in Proc, EndReport(p) PROVE Typed'
  <2>1. (pc \in [Proc -> Stage] /\ id \in [Proc -> 0..MaxCommands] /\ cmd \in [Proc -> CommandLine])'
    BY <1>20, MovesTyped DEF EndReport, Deliver, Stage
  <2>2. (/\ structure \in [Proc -> SUBSET Feature] /\ prior \in [Proc -> SUBSET SUBSET Feature]
         /\ consumed \in [Proc -> SUBSET EntryType]
         /\ movable \in [Proc -> SUBSET EntryType] /\ moveLog \in [Proc -> BOOLEAN])'
    BY <1>20, MovesTyped DEF EndReport, Deliver, Typed
  <2> QED BY <1>20, <1>f, <2>1, <2>2 DEF EndReport, Typed
<1>21. ASSUME NEW p \in Proc, Crash(p) PROVE Typed'
  <2>1. (pc \in [Proc -> Stage] /\ id \in [Proc -> 0..MaxCommands] /\ cmd \in [Proc -> CommandLine])'
    BY <1>21, MovesTyped DEF Crash, Throw, Stage
  <2>2. (/\ structure \in [Proc -> SUBSET Feature] /\ prior \in [Proc -> SUBSET SUBSET Feature]
         /\ consumed \in [Proc -> SUBSET EntryType]
         /\ movable \in [Proc -> SUBSET EntryType] /\ moveLog \in [Proc -> BOOLEAN])'
    BY <1>21, MovesTyped DEF Crash, Throw, Typed
  <2>3. baseline' \subseteq SUBSET Feature
    BY <1>21 DEF Crash, Typed
  <2> QED BY <1>21, <1>f, <2>1, <2>2, <2>3 DEF Crash, Typed
<1>22. CASE UNCHANGED vars
  BY <1>22 DEF vars, Typed
<1> QED BY <1>1, <1>2, <1>3, <1>4, <1>5, <1>6, <1>7, <1>8, <1>9, <1>10, <1>11, <1>12, <1>13,
           <1>14, <1>15, <1>16, <1>17, <1>18, <1>19, <1>20, <1>21, <1>22 DEF Next, Step

-------------------------------------------------------------------------------
(* Numbers. *)

\* A step of a process at work takes it to its next stage, lets it go, or
\* leaves it where it is; no other process moves.
Moves(p) ==
    /\ pc[p] # "idle" /\ issued' = issued
    /\ \/ \E stage \in Stage \ {"idle"} : Goto(p, stage)
       \/ Leave(p)
       \/ UNCHANGED <<pc, id, cmd>>

LEMMA StepMoves ==
    ASSUME NEW p \in Proc, Step(p) \/ Crash(p)
    PROVE  Moves(p)
<1>1. CASE Collect(p) \/ SaveFirstBaseline(p) \/ CollectThrows(p)
  BY <1>1 DEF Moves, Collect, SaveFirstBaseline, CollectThrows, AfterCollect, Stage
<1>2. CASE Explore(p) \/ StoreExplored(p) \/ LogExplored(p) \/ ExploreThrows(p)
  BY <1>2 DEF Moves, Explore, StoreExplored, LogExplored, ExploreThrows, End, Throw, Stage
<1>3. CASE SaveBaseline(p) \/ StoreFindings(p) \/ LogRun(p) \/ Reseed(p) \/ ReseedThrows(p)
  BY <1>3 DEF Moves, SaveBaseline, StoreFindings, LogRun, Reseed, ReseedThrows, AfterRun, End, Throw, Stage
<1>4. CASE ReadFindings(p) \/ Render(p) \/ ReportThrows(p)
  BY <1>4 DEF Moves, ReadFindings, Render, ReportThrows, Deliver, Throw, Stage
<1>5. CASE ListArchive(p) \/ (\E e \in movable[p] : MoveEntry(p, e)) \/ MoveActivity(p) \/ EndReport(p)
  BY <1>5 DEF Moves, ListArchive, MoveEntry, MoveActivity, EndReport, Deliver, Stage
<1>6. CASE Crash(p)
  BY <1>6 DEF Moves, Crash, Throw
<1> QED BY <1>1, <1>2, <1>3, <1>4, <1>5, <1>6 DEF Step

LEMMA NextIds ==
    ASSUME Typed, IdsOK, [Next]_vars
    PROVE  IdsOK'
<1>1. ASSUME NEW p \in Proc, StartCommand(p) PROVE IdsOK'
  <2>1. issued' = issued + 1 /\ pc[p] = "idle" /\ issued \in Nat
    BY <1>1 DEF StartCommand, Typed
  <2>2. CASE UNCHANGED <<pc, id>>
    BY <2>1, <2>2 DEF IdsOK, Typed
  <2>3. CASE \E stage \in Stage \ {"idle"} : pc' = [pc EXCEPT ![p] = stage] /\ id' = [id EXCEPT ![p] = issued + 1]
    BY <2>1, <2>3 DEF IdsOK, Typed
  <2> QED BY <1>1, <2>2, <2>3 DEF StartCommand, FirstStage, Stage
<1>2. ASSUME NEW p \in Proc, Moves(p) PROVE IdsOK'
  <2>1. CASE \E stage \in Stage \ {"idle"} : Goto(p, stage)
    BY <1>2, <2>1 DEF Moves, Goto, IdsOK, Typed
  <2>2. CASE Leave(p)
    BY <1>2, <2>2 DEF Moves, Leave, IdsOK, Typed
  <2>3. CASE UNCHANGED <<pc, id, cmd>>
    BY <1>2, <2>3 DEF Moves, IdsOK
  <2> QED BY <1>2, <2>1, <2>2, <2>3 DEF Moves
<1>3. CASE UNCHANGED vars
  BY <1>3 DEF vars, IdsOK
<1> QED BY <1>1, <1>2, <1>3, StepMoves DEF Next

-------------------------------------------------------------------------------
(* What is stored is kept, and what is archived has been reported. *)

\* Everything stored or appended is pending or archived; its number is known.
Kept ==
    /\ written = pending \cup archive /\ writtenLines = activity \cup archivedLines
    /\ \A e \in written : e.id \in 1..issued

\* What a report takes away is among what it has rendered.
ReportOK ==
    /\ archive \subseteq reported
    /\ \A p \in Proc :
          /\ pc[p] \in {"list", "move"} => consumed[p] \subseteq reported
          /\ movable[p] \subseteq IF pc[p] = "move" THEN consumed[p] ELSE {}

\* A command that was never beside another is alone.
Alone == ~disturbed => \A p, q \in Proc : p # q => pc[p] = "idle" \/ pc[q] = "idle"

\* And archives only lines it rendered.
LinesOK ==
    ~disturbed =>
        /\ archivedLines \subseteq reportedLines
        /\ \A p \in Proc : pc[p] \in {"list", "move"} => activity \subseteq reportedLines

LEMMA NextKept ==
    ASSUME Typed, IdsOK, Kept, [Next]_vars
    PROVE  Kept'
<1> USE DEF Kept, appVars, storeVars, writtenVars
<1>1. ASSUME NEW p \in Proc, StartCommand(p) PROVE Kept'
  BY <1>1 DEF StartCommand, Typed
<1>2. ASSUME NEW p \in Proc, Step(p) \/ Crash(p), UNCHANGED <<storeVars, writtenVars>> PROVE Kept'
  BY <1>2, StepMoves DEF Moves
<1>3. ASSUME NEW p \in Proc, pc[p] # "idle", issued' = issued, NEW source, NEW findings,
             writeFindings(source, id[p], findings),
             UNCHANGED <<archive, activity, archivedLines, writtenLines>>
      PROVE  Kept'
  <2>1. id[p] \in 1..issued
    BY <1>3 DEF IdsOK, Typed
  <2> QED BY <1>3, <2>1 DEF writeFindings, Put, Entry
<1>4. ASSUME NEW p \in Proc, NEW source, appendActivity(source, id[p]), issued' = issued,
             UNCHANGED <<pending, archive, archivedLines, written>>
      PROVE  Kept'
  BY <1>4 DEF appendActivity
<1>5. ASSUME NEW p \in Proc, StoreExplored(p) PROVE Kept'
  BY <1>3, <1>5 DEF StoreExplored
<1>6. ASSUME NEW p \in Proc, LogExplored(p) PROVE Kept'
  BY <1>4, <1>6 DEF LogExplored
<1>7. ASSUME NEW p \in Proc, StoreFindings(p) PROVE Kept'
  BY <1>3, <1>7 DEF StoreFindings
<1>8. ASSUME NEW p \in Proc, LogRun(p) PROVE Kept'
  BY <1>4, <1>8 DEF LogRun
<1>9. ASSUME NEW p \in Proc, NEW e \in movable[p], MoveEntry(p, e) PROVE Kept'
  BY <1>9 DEF MoveEntry, MoveFile
<1>10. ASSUME NEW p \in Proc, MoveActivity(p) PROVE Kept'
  BY <1>10 DEF MoveActivity
<1>11. ASSUME NEW p \in Proc, Step(p) \/ Crash(p) PROVE Kept'
  <2>1. CASE \/ StoreExplored(p) \/ LogExplored(p) \/ StoreFindings(p) \/ LogRun(p)
             \/ (\E e \in movable[p] : MoveEntry(p, e)) \/ MoveActivity(p)
    BY <2>1, <1>5, <1>6, <1>7, <1>8, <1>9, <1>10
  <2>2. CASE UNCHANGED <<storeVars, writtenVars>>
    BY <1>2, <1>11, <2>2
  <2> QED BY <1>11, <2>1, <2>2 DEF Step, Crash, Collect, SaveFirstBaseline, CollectThrows, Explore,
             ExploreThrows, SaveBaseline, Reseed, ReseedThrows, ReadFindings, Render, ReportThrows,
             ListArchive, EndReport
<1>12. CASE UNCHANGED vars
  BY <1>12 DEF vars
<1> QED BY <1>1, <1>11, <1>12 DEF Next

LEMMA NextReport ==
    ASSUME Typed, ReportOK, [Next]_vars
    PROVE  ReportOK'
<1> USE DEF ReportOK, storeVars, runVars, reportVars, writtenVars
<1>1. ASSUME NEW p \in Proc, StartCommand(p) PROVE ReportOK'
  BY <1>1 DEF StartCommand, FirstStage, Typed
<1>2. ASSUME NEW p \in Proc, Leave(p), Forget(p), archive' = archive, reported' = reported PROVE ReportOK'
  BY <1>2 DEF Leave, Forget, Typed
<1>3. ASSUME NEW p \in Proc, NEW stage \in Stage \ {"list", "move"}, Goto(p, stage), pc[p] # "move",
             UNCHANGED <<archive, reported, consumed, movable>>
      PROVE  ReportOK'
  BY <1>3 DEF Goto, Typed
<1>4. ASSUME NEW p \in Proc, Collect(p) \/ SaveFirstBaseline(p) \/ CollectThrows(p) PROVE ReportOK'
  BY <1>3, <1>4 DEF Collect, SaveFirstBaseline, CollectThrows, AfterCollect, Stage, Stay
<1>5. ASSUME NEW p \in Proc, Explore(p) \/ StoreExplored(p) \/ LogExplored(p) \/ ExploreThrows(p) PROVE ReportOK'
  BY <1>2, <1>3, <1>5 DEF Explore, StoreExplored, LogExplored, ExploreThrows, End, Throw, Stage, Stay
<1>6. ASSUME NEW p \in Proc, SaveBaseline(p) \/ StoreFindings(p) \/ LogRun(p) PROVE ReportOK'
  BY <1>2, <1>3, <1>6 DEF SaveBaseline, StoreFindings, LogRun, AfterRun, End, Stage, Stay
<1>7. ASSUME NEW p \in Proc, Reseed(p) \/ ReseedThrows(p) \/ ReportThrows(p) \/ Crash(p) PROVE ReportOK'
  BY <1>2, <1>3, <1>7 DEF Reseed, ReseedThrows, ReportThrows, Crash, AfterRun, End, Throw, Stage, Stay
<1>8. ASSUME NEW p \in Proc, ReadFindings(p) PROVE ReportOK'
  BY <1>8 DEF ReadFindings, Goto, Typed
<1>9. ASSUME NEW p \in Proc, Render(p) PROVE ReportOK'
  <2>1. CASE Deliver(p) /\ reported' = reported
    BY <1>2, <1>9, <2>1 DEF Render, Deliver
  <2>2. CASE reported' = reported \cup consumed[p] /\ Goto(p, "list") /\ Stay
    BY <1>9, <2>2 DEF Render, Goto, Stay, Typed
  <2> QED BY <1>9, <2>1, <2>2 DEF Render
<1>10. ASSUME NEW p \in Proc, ListArchive(p) PROVE ReportOK'
  <2>1. CASE Deliver(p)
    BY <1>2, <1>10, <2>1 DEF ListArchive, Deliver
  <2>2. CASE movable' = [movable EXCEPT ![p] = ToArchive(p)] /\ Goto(p, "move") /\ consumed' = consumed
    BY <1>10, <2>2 DEF ListArchive, ToArchive, Goto, Typed
  <2> QED BY <1>10, <2>1, <2>2 DEF ListArchive
<1>11. ASSUME NEW p \in Proc, NEW e \in movable[p], MoveEntry(p, e) PROVE ReportOK'
  <2>1. e \in reported /\ archive' \subseteq archive \cup {e}
    BY <1>11 DEF MoveEntry, MoveFile
  <2> QED BY <1>11, <2>1 DEF MoveEntry, Typed
<1>12. ASSUME NEW p \in Proc, MoveActivity(p) PROVE ReportOK'
  BY <1>12 DEF MoveActivity
<1>13. ASSUME NEW p \in Proc, EndReport(p) PROVE ReportOK'
  BY <1>2, <1>13 DEF EndReport, Deliver
<1>14. CASE UNCHANGED vars
  BY <1>14 DEF vars
<1> QED BY <1>1, <1>4, <1>5, <1>6, <1>7, <1>8, <1>9, <1>10, <1>11, <1>12, <1>13, <1>14 DEF Next, Step

\* disturbed is told at the start of a command and never taken back.
LEMMA StepDisturbed ==
    ASSUME NEW p \in Proc, Step(p) \/ Crash(p)
    PROVE  disturbed' = disturbed
BY DEF Step, Crash, Collect, SaveFirstBaseline, CollectThrows, Explore, StoreExplored, LogExplored,
       ExploreThrows, SaveBaseline, StoreFindings, LogRun, Reseed, ReseedThrows, ReadFindings, Render,
       ReportThrows, ListArchive, MoveEntry, MoveActivity, EndReport, tellVars

LEMMA NextAlone ==
    ASSUME Typed, Alone, [Next]_vars
    PROVE  Alone'
<1>1. ASSUME NEW p \in Proc, StartCommand(p) PROVE Alone'
  BY <1>1 DEF StartCommand, Alone, Typed
<1>2. ASSUME NEW p \in Proc, Step(p) \/ Crash(p) PROVE Alone'
  <2>1. disturbed' = disturbed /\ pc[p] # "idle"
    BY <1>2, StepDisturbed, StepMoves DEF Moves
  <2>2. \A q \in Proc : q # p => pc'[q] = pc[q]
    BY <1>2, StepMoves DEF Moves, Goto, Leave, Typed
  <2> QED BY <2>1, <2>2 DEF Alone
<1>3. CASE UNCHANGED vars
  BY <1>3 DEF vars, tellVars, Alone
<1> QED BY <1>1, <1>2, <1>3 DEF Next

LEMMA NextLines ==
    ASSUME Typed, Alone, LinesOK, [Next]_vars
    PROVE  LinesOK'
<1> USE DEF storeVars, writtenVars, tellVars
<1>1. ASSUME NEW p \in Proc, StartCommand(p) PROVE LinesOK'
  <2>1. \A q \in Proc : pc'[q] \in {"list", "move"} => pc[q] \in {"list", "move"}
    BY <1>1 DEF StartCommand, FirstStage, Typed
  <2> QED BY <1>1, <2>1 DEF StartCommand, LinesOK
<1>2. ASSUME NEW p \in Proc, Step(p) \/ Crash(p), UNCHANGED <<activity, archivedLines, reportedLines>>,
             pc'[p] \in {"list", "move"} => pc[p] \in {"list", "move"}
      PROVE  LinesOK'
  <2>1. disturbed' = disturbed
    BY <1>2, StepDisturbed
  <2>2. \A q \in Proc : q # p => pc'[q] = pc[q]
    BY <1>2, StepMoves DEF Moves, Goto, Leave, Typed
  <2> QED BY <1>2, <2>1, <2>2 DEF LinesOK
<1>3. ASSUME NEW p \in Proc, Step(p), UNCHANGED <<archivedLines, reportedLines>>,
             pc[p] # "idle", pc'[p] \notin {"list", "move"}
      PROVE  LinesOK'
  <2>1. disturbed' = disturbed
    BY <1>3, StepDisturbed
  <2>2. \A q \in Proc : q # p => pc'[q] = pc[q]
    BY <1>3, StepMoves DEF Moves, Goto, Leave, Typed
  <2>3. ~disturbed => \A q \in Proc : q # p => pc[q] = "idle"
    BY <1>3 DEF Alone
  <2> QED BY <1>3, <2>1, <2>2, <2>3 DEF LinesOK
<1>4. ASSUME NEW p \in Proc, LogExplored(p) PROVE LinesOK'
  <2>1. pc'[p] \in {"idle", "saveBaseline", "reseed"}
    BY <1>4 DEF LogExplored, End, Leave, Goto, Typed
  <2> QED BY <1>3, <1>4, <2>1 DEF LogExplored, Step
<1>5. ASSUME NEW p \in Proc, LogRun(p) PROVE LinesOK'
  <2>1. pc'[p] \in {"idle", "read", "reseed"}
    BY <1>5 DEF LogRun, AfterRun, End, Leave, Goto, Typed
  <2> QED BY <1>3, <1>5, <2>1 DEF LogRun, Step
<1>6. ASSUME NEW p \in Proc, Render(p) PROVE LinesOK'
  <2>1. CASE Deliver(p) /\ reportedLines' = reportedLines
    <3>1. pc'[p] = "idle"
      BY <2>1 DEF Deliver, Leave, Typed
    <3> QED BY <1>2, <1>6, <2>1, <3>1 DEF Render, Step
  <2>2. CASE reportedLines' = reportedLines \cup activity
    BY <1>6, <2>2 DEF Render, LinesOK
  <2> QED BY <1>6, <2>1, <2>2 DEF Render
<1>7. ASSUME NEW p \in Proc, ListArchive(p) \/ (\E e \in movable[p] : MoveEntry(p, e)) PROVE LinesOK'
  <2>1. pc[p] \in {"list", "move"}
    BY <1>7 DEF ListArchive, MoveEntry
  <2> QED BY <1>2, <1>7, <2>1 DEF ListArchive, MoveEntry, Step
<1>8. ASSUME NEW p \in Proc, MoveActivity(p) PROVE LinesOK'
  <2>1. pc[p] = "move" /\ pc' = pc
    BY <1>8 DEF MoveActivity
  <2> QED BY <1>8, <2>1 DEF MoveActivity, LinesOK
<1>9. ASSUME NEW p \in Proc, Step(p) \/ Crash(p) PROVE LinesOK'
  <2>1. CASE LogExplored(p) \/ LogRun(p) \/ Render(p) \/ ListArchive(p)
             \/ (\E e \in movable[p] : MoveEntry(p, e)) \/ MoveActivity(p)
    BY <2>1, <1>4, <1>5, <1>6, <1>7, <1>8
  <2>2. CASE Collect(p) \/ SaveFirstBaseline(p) \/ CollectThrows(p) \/ Explore(p) \/ StoreExplored(p)
             \/ ExploreThrows(p) \/ SaveBaseline(p) \/ StoreFindings(p) \/ Reseed(p) \/ ReseedThrows(p)
             \/ ReadFindings(p) \/ ReportThrows(p) \/ EndReport(p) \/ Crash(p)
    <3>1. UNCHANGED <<activity, archivedLines, reportedLines>>
      BY <2>2 DEF Crash, Collect, SaveFirstBaseline, CollectThrows, Explore, StoreExplored, ExploreThrows,
          SaveBaseline, StoreFindings, Reseed, ReseedThrows, ReadFindings, ReportThrows, EndReport
    <3>2. pc'[p] \notin {"list", "move"}
      <4>1. CASE Collect(p) \/ SaveFirstBaseline(p) \/ CollectThrows(p) \/ Explore(p) \/ StoreExplored(p)
        BY <4>1 DEF Collect, SaveFirstBaseline, CollectThrows, Explore, StoreExplored, AfterCollect, Goto, Typed
      <4>2. CASE SaveBaseline(p) \/ StoreFindings(p) \/ ReadFindings(p)
        BY <4>2 DEF SaveBaseline, StoreFindings, ReadFindings, Goto, Typed
      <4>3. CASE Leave(p)
        BY <4>3 DEF Leave, Typed
      <4>4. CASE Goto(p, "saveBaseline") \/ Goto(p, "read")
        BY <4>4 DEF Goto, Typed
      <4> QED BY <2>2, <4>1, <4>2, <4>3, <4>4 DEF ExploreThrows, Reseed, ReseedThrows, ReportThrows,
              EndReport, Crash, AfterRun, End, Throw, Deliver
    <3> QED BY <1>2, <1>9, <3>1, <3>2
  <2> QED BY <1>9, <2>1, <2>2 DEF Step
<1>10. CASE UNCHANGED vars
  BY <1>10 DEF vars, LinesOK
<1> QED BY <1>1, <1>9, <1>10 DEF Next

-------------------------------------------------------------------------------
(* Every findings file is stored once. *)

\* How much of a command's findings may be stored at its stage.
StoredOnce ==
    /\ pending \cap archive = {}
    /\ \A p \in Proc, e \in written :
          /\ pc[p] \in {"collect", "firstBaseline", "explore", "storeExplored"} => e.id # id[p]
          /\ pc[p] \in {"logExplored", "saveBaseline", "store"} /\ e.id = id[p] => e.source # "run"

LEMMA NextStored ==
    ASSUME Typed, IdsOK, Kept, StoredOnce, [Next]_vars
    PROVE  StoredOnce'
<1> USE DEF storeVars, writtenVars
<1>1. ASSUME NEW p \in Proc, StartCommand(p) PROVE StoredOnce'
  <2>1. UNCHANGED <<pending, archive, written>>
    BY <1>1 DEF StartCommand
  <2>2. \A q \in Proc : q # p => pc'[q] = pc[q] /\ id'[q] = id[q]
    BY <1>1 DEF StartCommand, Typed
  <2>3. (pc'[p] = "idle") \/ (id'[p] = issued + 1)
    BY <1>1 DEF StartCommand, Typed
  <2>4. \A e \in written : e.id \in 1..issued /\ issued \in Nat
    BY DEF Kept, Typed
  <2>5. \A e \in written : pc'[p] = "idle" \/ e.id # id'[p]
    BY <2>3, <2>4
  <2> QED BY <2>1, <2>2, <2>5 DEF StoredOnce
<1>2. ASSUME NEW p \in Proc, Step(p) \/ Crash(p), written' = written, (pending \cap archive)' = {},
             pc'[p] \in {"collect", "firstBaseline", "explore", "storeExplored"} =>
                pc[p] \in {"collect", "firstBaseline", "explore", "storeExplored"},
             pc'[p] \in {"logExplored", "saveBaseline", "store"} =>
                pc[p] \in {"collect", "firstBaseline", "explore", "storeExplored", "logExplored", "saveBaseline", "store"}
      PROVE  StoredOnce'
  <2>1. \A q \in Proc : q # p => pc'[q] = pc[q] /\ id'[q] = id[q]
    BY <1>2, StepMoves DEF Moves, Goto, Leave, Typed
  <2>2. pc'[p] = "idle" \/ id'[p] = id[p]
    BY <1>2, StepMoves DEF Moves, Goto, Leave, Typed
  <2> QED BY <1>2, <2>1, <2>2 DEF StoredOnce
<1>3. ASSUME NEW p \in Proc, pc[p] # "idle", NEW source, NEW findings, writeFindings(source, id[p], findings),
             archive' = archive, Entry(source, id[p], findings) \notin written, NEW stage \in Stage, Goto(p, stage),
             \/ source = "explore" /\ pc[p] = "storeExplored" /\ stage = "logExplored"
             \/ source = "run" /\ pc[p] = "store" /\ stage = "log"
      PROVE  StoredOnce'
  <2>1. \A q \in Proc : q # p => pc'[q] = pc[q] /\ id'[q] = id[q] /\ id[q] # id[p]
    BY <1>3 DEF Goto, IdsOK, Typed
  <2>2. pc'[p] = stage /\ id'[p] = id[p]
    BY <1>3 DEF Goto, Typed
  <2>3. written' = written \cup {Entry(source, id[p], findings)} /\ pending' = pending \cup {Entry(source, id[p], findings)}
    BY <1>3 DEF writeFindings, Put
  <2>4. Entry(source, id[p], findings).id = id[p] /\ Entry(source, id[p], findings).source = source
    BY DEF Entry
  <2>5. (pending \cap archive)' = {}
    BY <1>3, <2>3 DEF StoredOnce, Kept
  <2> QED BY <1>3, <2>1, <2>2, <2>3, <2>4, <2>5 DEF StoredOnce
<1>4. ASSUME NEW p \in Proc, StoreExplored(p) PROVE StoredOnce'
  <2>1. \A findings : Entry("explore", id[p], findings) \notin written
    BY <1>4 DEF StoreExplored, StoredOnce, Entry
  <2> QED BY <1>3, <1>4, <2>1 DEF StoreExplored, Stage
<1>5. ASSUME NEW p \in Proc, StoreFindings(p) PROVE StoredOnce'
  <2>1. \A findings : Entry("run", id[p], findings) \notin written
    BY <1>5 DEF StoreFindings, StoredOnce, Entry
  <2>2. pc'[p] = "log" /\ "log" \in Stage
    BY <1>5 DEF StoreFindings, Goto, Typed, Stage
  <2>3. CASE UNCHANGED <<pending, written>>
    <3>1. archive' = archive
      BY <1>5 DEF StoreFindings
    <3> QED BY <1>2, <1>5, <2>2, <2>3, <3>1 DEF Step, StoredOnce
  <2> QED BY <1>3, <1>5, <2>1, <2>2, <2>3 DEF StoreFindings
<1>6. ASSUME NEW p \in Proc, NEW e \in movable[p], MoveEntry(p, e) PROVE StoredOnce'
  <2>1. pc' = pc /\ (pending \cap archive)' = {} /\ written' = written
    BY <1>6 DEF MoveEntry, MoveFile, StoredOnce
  <2> QED BY <1>2, <1>6, <2>1 DEF Step
<1>7. ASSUME NEW p \in Proc, Step(p) \/ Crash(p) PROVE StoredOnce'
  <2>1. CASE StoreExplored(p) \/ StoreFindings(p) \/ (\E e \in movable[p] : MoveEntry(p, e))
    BY <2>1, <1>4, <1>5, <1>6
  <2>2. CASE Collect(p) \/ SaveFirstBaseline(p) \/ CollectThrows(p) \/ Explore(p) \/ LogExplored(p)
             \/ ExploreThrows(p) \/ SaveBaseline(p) \/ LogRun(p) \/ Reseed(p) \/ ReseedThrows(p)
             \/ ReadFindings(p) \/ Render(p) \/ ReportThrows(p) \/ ListArchive(p) \/ MoveActivity(p)
             \/ EndReport(p) \/ Crash(p)
    <3>1. UNCHANGED <<written, pending, archive>>
      BY <2>2 DEF Crash, Collect, SaveFirstBaseline, CollectThrows, Explore, LogExplored, ExploreThrows,
          SaveBaseline, LogRun, Reseed, ReseedThrows, ReadFindings, Render, ReportThrows, ListArchive,
          MoveActivity, EndReport, appendActivity
    <3>2. \/ pc'[p] \in {"idle", "reseed", "read", "render", "list", "move"}
          \/ pc'[p] \in {"firstBaseline", "explore", "saveBaseline"} /\ pc[p] \in {"collect", "firstBaseline"}
          \/ pc'[p] = "storeExplored" /\ pc[p] = "explore"
          \/ pc'[p] = "saveBaseline" /\ pc[p] \in {"explore", "storeExplored", "logExplored"}
          \/ pc'[p] = "store" /\ pc[p] = "saveBaseline"
      <4>1. CASE Collect(p) \/ SaveFirstBaseline(p) \/ CollectThrows(p)
        BY <4>1 DEF Collect, SaveFirstBaseline, CollectThrows, AfterCollect, Goto, Typed
      <4>2. CASE Explore(p) \/ SaveBaseline(p)
        BY <4>2 DEF Explore, SaveBaseline, Goto, Typed
      <4>3. CASE Leave(p)
        BY <4>3 DEF Leave, Typed
      <4>4. CASE \E stage \in {"reseed", "read", "render", "list", "move"} : Goto(p, stage)
        BY <4>4 DEF Goto, Typed
      <4>5. CASE MoveActivity(p)
        BY <4>5 DEF MoveActivity, Typed
      <4>6. CASE Goto(p, "saveBaseline") /\ pc[p] \in {"explore", "storeExplored", "logExplored"}
        BY <4>6 DEF Goto, Typed
      <4> QED BY <2>2, <4>1, <4>2, <4>3, <4>4, <4>5, <4>6 DEF LogExplored, ExploreThrows, LogRun, Reseed,
              ReseedThrows, ReadFindings, Render, ReportThrows, ListArchive, EndReport, Crash, AfterRun,
              End, Throw, Deliver
    <3>3. (pending \cap archive)' = {}
      BY <3>1 DEF StoredOnce
    <3> QED BY <1>2, <1>7, <3>1, <3>2, <3>3
  <2> QED BY <1>7, <2>1, <2>2 DEF Step
<1>8. CASE UNCHANGED vars
  BY <1>8 DEF vars, StoredOnce
<1> QED BY <1>1, <1>7, <1>8 DEF Next

-------------------------------------------------------------------------------
(* Invalid data do not stay behind. *)

\* Only a command that may be destructive has its data in the database, and it
\* has the reseed still before it, or is excused.
Accounted(p) ==
    /\ pc[p] # "idle" => ~Refuses(cmd[p]) /\ (cmd[p].noReseed => id[p] \in excused)
    /\ pc[p] \in {"collect", "firstBaseline", "saveBaseline", "store", "log"} => cmd[p].kind = "run"
    /\ pc[p] \in {"explore", "storeExplored", "logExplored"} => Destructive(cmd[p])
    /\ id[p] \in db => \/ id[p] \in excused
                       \/ Destructive(cmd[p]) /\ pc[p] \notin {"read", "render", "list", "move"}

WaivedOK == db \subseteq 1..issued /\ \A p \in Proc : Accounted(p)

\* How a step of p keeps it: nothing is taken from the excused, the database
\* gains p's data at most, and p stays accounted for.
Accounts(p) ==
    /\ seed' = seed /\ excused \subseteq excused'
    /\ db' \in {db, db \cup {id[p]}, {}}
    /\ Accounted(p)'
    /\ id[p] \in db' => id[p] \in excused' \/ id'[p] = id[p]

LEMMA AccountsKeeps ==
    ASSUME Typed, IdsOK, WaivedOK, RestoredOrWaived, NEW p \in Proc, Step(p) \/ Crash(p), Accounts(p)
    PROVE  WaivedOK' /\ RestoredOrWaived'
<1>1. pc[p] # "idle" /\ issued' = issued /\ id[p] \in 1..issued
  BY StepMoves DEF Moves, IdsOK, Typed
<1>2. \A q \in Proc : q # p =>
         pc'[q] = pc[q] /\ id'[q] = id[q] /\ cmd'[q] = cmd[q] /\ id[q] # id[p]
  BY <1>1, StepMoves DEF Moves, Goto, Leave, IdsOK, Typed
<1>3. db' \subseteq 1..issued'
  BY <1>1 DEF Accounts, WaivedOK
<1>4. \A q \in Proc : q # p => Accounted(q)'
  <2> SUFFICES ASSUME NEW q \in Proc, q # p PROVE Accounted(q)'
    OBVIOUS
  <2>1. pc'[q] = pc[q] /\ id'[q] = id[q] /\ cmd'[q] = cmd[q] /\ id[q] # id[p]
    BY <1>2
  <2>2. id[q] \in db' => id[q] \in db
    BY <2>1 DEF Accounts
  <2>3. Accounted(q) /\ seed' = seed /\ excused \subseteq excused'
    BY DEF WaivedOK, Accounts
  <2> QED BY <2>1, <2>2, <2>3 DEF Accounted, Refuses, Destructive
<1>5. WaivedOK'
  BY <1>3, <1>4 DEF WaivedOK, Accounts
<1>6. ASSUME NEW n \in db' PROVE n \in excused' \/ \E q \in Proc : id'[q] = n
  <2>1. CASE n = id[p]
    BY <2>1, <1>6 DEF Accounts
  <2>2. CASE n # id[p]
    <3>1. n \in db
      BY <1>6, <2>2 DEF Accounts
    <3>2. n \in excused \/ \E q \in Proc : id[q] = n
      BY <3>1 DEF RestoredOrWaived
    <3> QED BY <1>2, <2>2, <3>2 DEF Accounts
  <2> QED BY <2>1, <2>2
<1> QED BY <1>5, <1>6 DEF RestoredOrWaived

LEMMA NextWaived ==
    ASSUME Typed, IdsOK, WaivedOK, RestoredOrWaived, [Next]_vars
    PROVE  WaivedOK' /\ RestoredOrWaived'
<1> USE DEF appVars, endVars
<1>1. ASSUME NEW p \in Proc, StartCommand(p) PROVE WaivedOK' /\ RestoredOrWaived'
  <2>1. /\ db' = db /\ seed' = seed /\ excused \subseteq excused' /\ issued' = issued + 1
        /\ pc[p] = "idle" /\ id[p] = 0 /\ issued \in Nat /\ 0 \notin db /\ issued + 1 \notin db
    BY <1>1 DEF StartCommand, IdsOK, WaivedOK, Typed
  <2>2. \A q \in Proc : q # p => pc'[q] = pc[q] /\ id'[q] = id[q] /\ cmd'[q] = cmd[q]
    BY <1>1 DEF StartCommand, Typed
  <2>3. \A q \in Proc : Accounted(q)
    BY DEF WaivedOK
  <2>4. \A q \in Proc : q # p => Accounted(q)'
    BY <2>1, <2>2, <2>3 DEF Accounted, Refuses, Destructive
  <2>5. Accounted(p)'
    <3>1. CASE UNCHANGED <<pc, id, cmd>>
      BY <2>1, <2>3, <3>1 DEF Accounted
    <3>2. ASSUME NEW c \in Commands, ~Refuses(c), cmd' = [cmd EXCEPT ![p] = c],
                 pc' = [pc EXCEPT ![p] = FirstStage(c)], id' = [id EXCEPT ![p] = issued + 1],
                 excused' = IF c.noReseed THEN excused \cup {issued + 1} ELSE excused
          PROVE  Accounted(p)'
      <4>1. cmd'[p] = c /\ pc'[p] = FirstStage(c) /\ id'[p] = issued + 1 /\ c \in CommandLine
        BY <3>2, CommandAssumption DEF Typed
      <4> QED BY <2>1, <3>2, <4>1 DEF Accounted, Refuses, Destructive, FirstStage, CommandLine, Kind
    <3> QED BY <1>1, <3>1, <3>2 DEF StartCommand
  <2>6. RestoredOrWaived'
    BY <2>1, <2>2 DEF RestoredOrWaived
  <2>7. db' \subseteq 1..issued'
    BY <2>1 DEF WaivedOK
  <2> QED BY <2>4, <2>5, <2>6, <2>7 DEF WaivedOK
<1>2. ASSUME NEW p \in Proc, Step(p) \/ Crash(p), Leave(p), seed' = seed, excused \subseteq excused',
             db' \in {db, db \cup {id[p]}, {}}, id[p] \in db' => id[p] \in excused'
      PROVE  WaivedOK' /\ RestoredOrWaived'
  <2>1. pc'[p] = "idle" /\ id'[p] = 0
    BY <1>2 DEF Leave, Typed
  <2>2. 0 \notin db /\ id[p] # 0
    BY <1>2, StepMoves DEF WaivedOK, IdsOK, Moves, Typed
  <2>3. Accounted(p)'
    BY <1>2, <2>1, <2>2 DEF Accounted
  <2> QED BY <1>2, <2>1, <2>3, AccountsKeeps DEF Accounts
<1>3. ASSUME NEW p \in Proc, Throw(p), Step(p) \/ Crash(p), seed' = seed, db' \in {db, db \cup {id[p]}}
      PROVE  WaivedOK' /\ RestoredOrWaived'
  BY <1>2, <1>3 DEF Throw
<1>4. ASSUME NEW p \in Proc, Step(p), NEW stage \in Stage, Goto(p, stage), seed' = seed, excused' = excused,
             db' \in {db, db \cup {id[p]}, {}}, Accounted(p)'
      PROVE  WaivedOK' /\ RestoredOrWaived'
  <2>1. id'[p] = id[p]
    BY <1>4 DEF Goto
  <2> QED BY <1>4, <2>1, AccountsKeeps DEF Accounts
<1>5. ASSUME NEW p \in Proc, Collect(p) \/ SaveFirstBaseline(p) \/ CollectThrows(p) PROVE WaivedOK' /\ RestoredOrWaived'
  <2>1. PICK stage \in {"firstBaseline", "explore", "saveBaseline"} :
          Goto(p, stage) /\ (stage = "explore" => cmd[p].explore)
    BY <1>5 DEF Collect, SaveFirstBaseline, CollectThrows, AfterCollect
  <2>2. cmd[p].kind = "run" /\ pc[p] \notin {"idle", "read", "render", "list", "move"} /\ Accounted(p)
    BY <1>5 DEF WaivedOK, Accounted, Collect, SaveFirstBaseline, CollectThrows
  <2>3. pc'[p] = stage /\ id'[p] = id[p] /\ cmd'[p] = cmd[p]
    BY <2>1 DEF Goto, Typed
  <2>4. db' = db /\ seed' = seed /\ excused' = excused
    BY <1>5 DEF Collect, SaveFirstBaseline, CollectThrows, Stay
  <2>5. Accounted(p)'
    BY <2>1, <2>2, <2>3, <2>4 DEF Accounted, Refuses, Destructive
  <2> QED BY <1>4, <1>5, <2>1, <2>4, <2>5 DEF Step, Stage
\* The next stage is one where p is accounted for as before.
<1>6. ASSUME NEW p \in Proc, Step(p), NEW stage \in Stage, Goto(p, stage), seed' = seed, excused' = excused,
             db' \in {db, db \cup {id[p]}, {}},
             stage \in {"collect", "firstBaseline", "saveBaseline", "store", "log"} => cmd[p].kind = "run",
             stage \in {"explore", "storeExplored", "logExplored"} => Destructive(cmd[p]),
             id[p] \in db' => \/ id[p] \in excused
                              \/ Destructive(cmd[p]) /\ stage \notin {"read", "render", "list", "move"}
      PROVE  WaivedOK' /\ RestoredOrWaived'
  <2>1. pc'[p] = stage /\ id'[p] = id[p] /\ cmd'[p] = cmd[p] /\ pc[p] # "idle"
    BY <1>6, StepMoves DEF Goto, Moves, Typed
  <2>2. ~Refuses(cmd[p]) /\ (cmd[p].noReseed => id[p] \in excused)
    BY <2>1 DEF WaivedOK, Accounted
  <2>3. Accounted(p)'
    BY <1>6, <2>1, <2>2 DEF Accounted, Refuses, Destructive
  <2> QED BY <1>4, <1>6, <2>3
<1>7. ASSUME NEW p \in Proc, Explore(p) \/ StoreExplored(p) PROVE WaivedOK' /\ RestoredOrWaived'
  <2>1. Destructive(cmd[p])
    BY <1>7 DEF Explore, StoreExplored, WaivedOK, Accounted
  <2> QED BY <1>6, <1>7, <2>1 DEF Explore, StoreExplored, Step, Stage, Stay
\* A command without a seed that ends here has waived it.
<1>8. ASSUME NEW p \in Proc, LogExplored(p) PROVE WaivedOK' /\ RestoredOrWaived'
  <2>1. Destructive(cmd[p]) /\ ~Refuses(cmd[p]) /\ (cmd[p].noReseed => id[p] \in excused)
    BY <1>8 DEF LogExplored, WaivedOK, Accounted
  <2>2. db' = db /\ seed' = seed /\ excused' = excused
    BY <1>8 DEF LogExplored, End, Stay
  <2>3. CASE cmd[p].kind # "run" /\ (cmd[p].noReseed \/ ~seed) /\ End(p)
    BY <1>2, <1>8, <2>1, <2>2, <2>3 DEF End, Refuses, Step
  <2>4. CASE cmd[p].kind = "run" /\ Goto(p, "saveBaseline")
    BY <1>6, <1>8, <2>1, <2>2, <2>4 DEF Step, Stage
  <2>5. CASE Goto(p, "reseed")
    BY <1>6, <1>8, <2>1, <2>2, <2>5 DEF Step, Stage
  <2> QED BY <1>8, <2>3, <2>4, <2>5 DEF LogExplored
<1>9. ASSUME NEW p \in Proc, ExploreThrows(p) PROVE WaivedOK' /\ RestoredOrWaived'
  <2>1. Destructive(cmd[p]) /\ seed' = seed /\ db' \in {db, db \cup {id[p]}}
    BY <1>9 DEF ExploreThrows, WaivedOK, Accounted
  <2>2. CASE cmd[p].kind = "run" /\ Goto(p, "saveBaseline") /\ Stay
    BY <1>6, <1>9, <2>1, <2>2 DEF Step, Stage, Stay
  <2>3. CASE Throw(p)
    BY <1>3, <1>9, <2>1, <2>3 DEF Step
  <2> QED BY <1>9, <2>2, <2>3 DEF ExploreThrows
<1>10. ASSUME NEW p \in Proc, SaveBaseline(p) \/ StoreFindings(p) PROVE WaivedOK' /\ RestoredOrWaived'
  <2>1. cmd[p].kind = "run" /\ (id[p] \in db => id[p] \in excused \/ Destructive(cmd[p]))
    BY <1>10 DEF SaveBaseline, StoreFindings, WaivedOK, Accounted
  <2> QED BY <1>6, <1>10, <2>1 DEF SaveBaseline, StoreFindings, Step, Stage, Stay
\* A run without the reseed has not explored, or has waived it.
<1>11. ASSUME NEW p \in Proc, LogRun(p) PROVE WaivedOK' /\ RestoredOrWaived'
  <2>1. /\ cmd[p].kind = "run" /\ ~Refuses(cmd[p]) /\ (cmd[p].noReseed => id[p] \in excused)
        /\ id[p] \in db => id[p] \in excused \/ Destructive(cmd[p])
    BY <1>11 DEF LogRun, WaivedOK, Accounted
  <2>2. db' = db /\ seed' = seed /\ excused' = excused
    BY <1>11 DEF LogRun, AfterRun, End, Stay
  <2>3. CASE Goto(p, "reseed") /\ cmd[p].explore
    BY <1>6, <1>11, <2>1, <2>2, <2>3 DEF Step, Stage, Destructive
  <2>4. CASE ~(cmd[p].explore /\ ~cmd[p].noReseed /\ seed)
    <3>1. id[p] \in db => id[p] \in excused
      BY <2>1, <2>4 DEF Refuses, Destructive
    <3>2. CASE Goto(p, "read")
      BY <1>6, <1>11, <2>2, <3>1, <3>2 DEF Step, Stage
    <3>3. CASE End(p)
      BY <1>2, <1>11, <2>2, <3>1, <3>3 DEF Step, End
    <3> QED BY <1>11, <2>4, <3>2, <3>3 DEF LogRun, AfterRun
  <2> QED BY <1>11, <2>3, <2>4 DEF LogRun
<1>12. ASSUME NEW p \in Proc, Reseed(p) PROVE WaivedOK' /\ RestoredOrWaived'
  <2>1. db' = {} /\ seed' = seed /\ excused' = excused
    BY <1>12 DEF Reseed, AfterRun, End, Stay
  <2>2. CASE Goto(p, "read")
    BY <1>6, <1>12, <2>1, <2>2 DEF Step, Stage
  <2>3. CASE End(p)
    BY <1>2, <1>12, <2>1, <2>3 DEF Step, End
  <2> QED BY <1>12, <2>2, <2>3 DEF Reseed, AfterRun
<1>13. ASSUME NEW p \in Proc, ReseedThrows(p) \/ ReportThrows(p) \/ Crash(p) PROVE WaivedOK' /\ RestoredOrWaived'
  BY <1>3, <1>13 DEF ReseedThrows, ReportThrows, Crash, Step
\* What a report does is no matter of the database.
<1>14. ASSUME NEW p \in Proc, ReadFindings(p) \/ Render(p) \/ ListArchive(p) \/ EndReport(p)
       PROVE  WaivedOK' /\ RestoredOrWaived'
  <2>1. Step(p) /\ db' = db /\ seed' = seed /\ excused' = excused
    BY <1>14 DEF ReadFindings, Render, ListArchive, EndReport, Deliver, Stay, Step
  <2>2. id[p] \in db => id[p] \in excused
    BY <1>14 DEF ReadFindings, Render, ListArchive, EndReport, WaivedOK, Accounted
  <2>3. CASE Leave(p)
    BY <1>2, <2>1, <2>2, <2>3
  <2>4. CASE \E stage \in {"render", "list", "move"} : Goto(p, stage)
    BY <1>6, <2>1, <2>2, <2>4 DEF Stage
  <2> QED BY <1>14, <2>3, <2>4 DEF ReadFindings, Render, ListArchive, EndReport, Deliver
<1>15. ASSUME NEW p \in Proc, MoveActivity(p) \/ (\E e \in movable[p] : MoveEntry(p, e))
       PROVE  WaivedOK' /\ RestoredOrWaived'
  <2>1. UNCHANGED <<db, seed, excused, issued, pc, id, cmd>>
    BY <1>15 DEF MoveActivity, MoveEntry
  <2> QED BY <2>1 DEF WaivedOK, RestoredOrWaived, Accounted, Refuses, Destructive
<1>16. CASE UNCHANGED vars
  <2>1. UNCHANGED <<db, seed, excused, issued, pc, id, cmd>>
    BY <1>16 DEF vars
  <2> QED BY <2>1 DEF WaivedOK, RestoredOrWaived, Accounted, Refuses, Destructive
<1> QED BY <1>1, <1>5, <1>7, <1>8, <1>9, <1>10, <1>11, <1>12, <1>13, <1>14, <1>15, <1>16 DEF Next, Step

-------------------------------------------------------------------------------
(* Once the report is behind a command, its findings have been reported. *)

\* What p has stored and not yet reported is in its report's hands.
InHand(p) ==
    \A e \in pending : e.id = id[p] =>
        /\ pc[p] \in {"render", "list"} => e \in consumed[p]
        /\ pc[p] = "move" => e \in movable[p]

DeliveryOK ==
    /\ delivered \subseteq 1..issued
    /\ \A p \in Proc : pc[p] # "idle" => id[p] \notin delivered
    /\ faults = 0 => \A p \in Proc : InHand(p)

\* How a step of p keeps it: nobody else's findings are added.
Delivers(p) ==
    /\ \A e \in pending' : e \in pending \/ e.id = id[p]
    /\ \A q \in Proc : q # p => consumed'[q] = consumed[q] /\ movable'[q] = movable[q]
    /\ delivered' \in {delivered, delivered \cup {id[p]}}
    /\ id[p] \in delivered' => id'[p] = 0
    /\ faults' = 0 => /\ faults = 0 /\ InHand(p)'
                      /\ id[p] \in delivered' => \A e \in pending' : e.id = id[p] => e.findings = {}

LEMMA DeliversKeeps ==
    ASSUME Typed, IdsOK, Kept, DeliveryOK, DeliveredIsReported, NEW p \in Proc,
           Step(p) \/ Crash(p), Delivers(p), IdsOK'
    PROVE  DeliveryOK' /\ DeliveredIsReported'
<1>1. pc[p] # "idle" /\ issued' = issued /\ id[p] \in 1..issued /\ id[p] \notin delivered
  BY StepMoves DEF Moves, IdsOK, Typed, DeliveryOK
<1>2. \A q \in Proc : q # p => pc'[q] = pc[q] /\ id'[q] = id[q] /\ id[q] # id[p]
  BY <1>1, StepMoves DEF Moves, Goto, Leave, IdsOK, Typed
<1>3. \A q \in Proc : q # p => consumed'[q] = consumed[q] /\ movable'[q] = movable[q]
  BY DEF Delivers
<1>4. delivered' \subseteq 1..issued'
  BY <1>1 DEF Delivers, DeliveryOK
<1>5. \A q \in Proc : pc'[q] # "idle" => id'[q] \notin delivered'
  <2>1. pc'[p] # "idle" => id'[p] \notin delivered'
    <3>1. (pc'[p] = "idle" <=> id'[p] = 0) /\ (id'[p] = 0 \/ id'[p] = id[p])
      BY StepMoves DEF Moves, Goto, Leave, IdsOK, Typed
    <3> QED BY <1>1, <3>1 DEF Delivers
  <2>2. \A q \in Proc : q # p => (pc'[q] # "idle" => id'[q] \notin delivered')
    BY <1>2 DEF Delivers, DeliveryOK
  <2> QED BY <2>1, <2>2
<1>6. faults' = 0 => \A q \in Proc : InHand(q)'
  <2>1. \A q \in Proc : q # p /\ InHand(q) => InHand(q)'
    BY <1>2, <1>3 DEF Delivers, InHand
  <2> QED BY <2>1 DEF Delivers, DeliveryOK
<1>7. DeliveredIsReported'
  BY <1>1 DEF Delivers, DeliveredIsReported
<1> QED BY <1>4, <1>5, <1>6, <1>7 DEF DeliveryOK

LEMMA NextDelivery ==
    ASSUME Typed, IdsOK, Kept, DeliveryOK, DeliveredIsReported, [Next]_vars, IdsOK'
    PROVE  DeliveryOK' /\ DeliveredIsReported'
<1> USE DEF storeVars, writtenVars, endVars, runVars, reportVars
<1>0. faults \in Nat
  BY DEF Typed
<1>1. ASSUME NEW p \in Proc, StartCommand(p) PROVE DeliveryOK' /\ DeliveredIsReported'
  <2>1. /\ UNCHANGED <<pending, delivered, consumed, movable>> /\ issued' = issued + 1 /\ issued \in Nat
        /\ pc[p] = "idle" /\ (faults' = 0 => faults = 0)
    BY <1>0, <1>1 DEF StartCommand, Fault, NoFault, Typed
  <2>2. \A q \in Proc : q # p => pc'[q] = pc[q] /\ id'[q] = id[q]
    BY <1>1 DEF StartCommand, Typed
  <2>3. \/ pc'[p] = "idle"
        \/ pc'[p] \in {"collect", "explore", "read"} /\ id'[p] = issued + 1
    BY <1>1 DEF StartCommand, FirstStage, Typed
  <2>4. \A q \in Proc : InHand(q) => InHand(q)'
    BY <2>1, <2>2, <2>3 DEF InHand
  <2>5. \A q \in Proc : pc'[q] # "idle" => id'[q] \notin delivered'
    BY <2>1, <2>2, <2>3 DEF DeliveryOK
  <2> QED BY <2>1, <2>4, <2>5 DEF DeliveryOK, DeliveredIsReported
\* A command ends without its report, or goes on before it.
<1>2. ASSUME NEW p \in Proc, Step(p) \/ Crash(p), Fault \/ NoFault, pending' = pending, delivered' = delivered,
             \/ Leave(p) /\ Forget(p)
             \/ /\ \E stage \in Stage \ {"render", "list", "move"} : Goto(p, stage)
                /\ consumed' = consumed /\ movable' = movable
      PROVE  DeliveryOK' /\ DeliveredIsReported'
  <2>1. pc'[p] \notin {"render", "list", "move"}
    BY <1>2 DEF Leave, Goto, Typed
  <2>2. \A q \in Proc : q # p => consumed'[q] = consumed[q] /\ movable'[q] = movable[q]
    BY <1>2 DEF Forget, Typed
  <2>3. id[p] \notin delivered
    BY <1>2, StepMoves DEF Moves, DeliveryOK
  <2>4. faults' = 0 => faults = 0
    BY <1>0, <1>2 DEF Fault, NoFault
  <2> QED BY <1>2, <2>1, <2>2, <2>3, <2>4, DeliversKeeps DEF Delivers, InHand
\* Or it stores what it has found.
<1>3. ASSUME NEW p \in Proc, Step(p), Fault \/ NoFault, NEW source, NEW findings,
             writeFindings(source, id[p], findings),
             \E stage \in Stage \ {"render", "list", "move"} : Goto(p, stage), Stay
      PROVE  DeliveryOK' /\ DeliveredIsReported'
  <2>1. pc'[p] \notin {"render", "list", "move"}
    BY <1>3 DEF Goto, Typed
  <2>2. \A e \in pending' : e \in pending \/ e.id = id[p]
    BY <1>3 DEF writeFindings, Put, Entry
  <2>3. id[p] \notin delivered
    BY <1>3, StepMoves DEF Moves, DeliveryOK
  <2>4. faults' = 0 => faults = 0
    BY <1>0, <1>3 DEF Fault, NoFault
  <2> QED BY <1>3, <2>1, <2>2, <2>3, <2>4, DeliversKeeps DEF Delivers, InHand, Stay
\* Or its report is behind it, with nothing of its own left to tell.
<1>4. ASSUME NEW p \in Proc, Step(p), NoFault, pending' = pending, Deliver(p),
             faults = 0 => \A e \in pending : e.id = id[p] => e.findings = {}
      PROVE  DeliveryOK' /\ DeliveredIsReported'
  <2>1. pc'[p] = "idle" /\ id'[p] = 0
    BY <1>4 DEF Deliver, Leave, Typed
  <2>2. \A q \in Proc : q # p => consumed'[q] = consumed[q] /\ movable'[q] = movable[q]
    BY <1>4 DEF Deliver, Forget, Typed
  <2> QED BY <1>4, <2>1, <2>2, DeliversKeeps DEF Delivers, Deliver, InHand, NoFault
<1>5. ASSUME NEW p \in Proc, Collect(p) \/ SaveFirstBaseline(p) \/ CollectThrows(p) PROVE DeliveryOK' /\ DeliveredIsReported'
  BY <1>2, <1>5 DEF Collect, SaveFirstBaseline, CollectThrows, AfterCollect, Stay, Step, Stage
<1>6. ASSUME NEW p \in Proc, Explore(p) \/ LogExplored(p) \/ ExploreThrows(p) PROVE DeliveryOK' /\ DeliveredIsReported'
  BY <1>2, <1>6 DEF Explore, LogExplored, ExploreThrows, End, Throw, Stay, Step, Stage
<1>7. ASSUME NEW p \in Proc, StoreExplored(p) PROVE DeliveryOK' /\ DeliveredIsReported'
  BY <1>3, <1>7 DEF StoreExplored, Step, Stage
<1>8. ASSUME NEW p \in Proc, StoreFindings(p) PROVE DeliveryOK' /\ DeliveredIsReported'
  <2>1. Step(p) /\ (Fault \/ NoFault) /\ Stay /\ Goto(p, "log") /\ "log" \in Stage
    BY <1>8 DEF StoreFindings, Step, Stage
  <2>2. CASE pending' = pending
    BY <1>2, <2>1, <2>2 DEF Stay
  <2>3. CASE \E findings : writeFindings("run", id[p], findings)
    BY <1>3, <2>1, <2>3
  <2> QED BY <1>8, <2>2, <2>3 DEF StoreFindings
<1>9. ASSUME NEW p \in Proc, SaveBaseline(p) \/ LogRun(p) \/ Reseed(p) \/ ReseedThrows(p) \/ ReportThrows(p) \/ Crash(p)
      PROVE  DeliveryOK' /\ DeliveredIsReported'
  BY <1>2, <1>9 DEF SaveBaseline, LogRun, Reseed, ReseedThrows, ReportThrows, Crash, AfterRun, End, Throw, Stay, Step, Stage
<1>10. ASSUME NEW p \in Proc, ReadFindings(p) PROVE DeliveryOK' /\ DeliveredIsReported'
  <2>1. /\ Step(p) /\ pending' = pending /\ delivered' = delivered /\ faults' = faults /\ movable' = movable
        /\ consumed' = [consumed EXCEPT ![p] = pending] /\ pc'[p] = "render" /\ pc[p] # "idle"
    BY <1>10 DEF ReadFindings, Step, NoFault, Goto, Typed
  <2>2. id[p] \notin delivered
    BY <2>1 DEF DeliveryOK
  <2>3. consumed'[p] = pending /\ \A q \in Proc : q # p => consumed'[q] = consumed[q]
    BY <2>1 DEF Typed
  <2> QED BY <2>1, <2>2, <2>3, DeliversKeeps DEF Delivers, InHand
<1>11. ASSUME NEW p \in Proc, Render(p) PROVE DeliveryOK' /\ DeliveredIsReported'
  <2>1. /\ Step(p) /\ pending' = pending /\ NoFault /\ pc[p] = "render" /\ id[p] \notin delivered
        /\ faults = 0 => \A e \in pending : e.id = id[p] => e \in consumed[p]
    BY <1>11 DEF Render, Step, DeliveryOK, InHand
  <2>2. CASE Deliver(p) /\ NothingToReport(p, activity)
    BY <1>4, <2>1, <2>2 DEF NothingToReport
  <2>3. CASE Goto(p, "list") /\ Stay
    <3>1. pc'[p] = "list" /\ id'[p] = id[p]
      BY <2>3 DEF Goto, Typed
    <3> QED BY <2>1, <2>3, <3>1, DeliversKeeps DEF Delivers, InHand, Stay, NoFault
  <2> QED BY <1>11, <2>2, <2>3 DEF Render
<1>12. ASSUME NEW p \in Proc, ListArchive(p) PROVE DeliveryOK' /\ DeliveredIsReported'
  <2>1. /\ Step(p) /\ pending' = pending /\ NoFault /\ pc[p] = "list" /\ id[p] \notin delivered
        /\ faults = 0 => \A e \in pending : e.id = id[p] => e \in ToArchive(p)
    BY <1>12 DEF ListArchive, Step, DeliveryOK, InHand, ToArchive
  <2>2. CASE ToArchive(p) = {} /\ Deliver(p)
    BY <1>4, <2>1, <2>2
  <2>3. CASE movable' = [movable EXCEPT ![p] = ToArchive(p)] /\ Goto(p, "move") /\ consumed' = consumed /\ delivered' = delivered
    <3>1. pc'[p] = "move" /\ id'[p] = id[p] /\ movable'[p] = ToArchive(p)
          /\ \A q \in Proc : q # p => movable'[q] = movable[q]
      BY <2>3 DEF Goto, Typed
    <3> QED BY <2>1, <2>3, <3>1, DeliversKeeps DEF Delivers, InHand, NoFault
  <2> QED BY <1>12, <2>2, <2>3 DEF ListArchive
<1>13. ASSUME NEW p \in Proc, NEW e \in movable[p], MoveEntry(p, e) PROVE DeliveryOK' /\ DeliveredIsReported'
  <2>1. /\ Step(p) /\ pc[p] = "move" /\ delivered' = delivered /\ consumed' = consumed /\ pc' = pc /\ id' = id
        /\ movable' = [movable EXCEPT ![p] = @ \ {e}] /\ id[p] \notin delivered
    BY <1>13 DEF MoveEntry, Step, DeliveryOK
  <2>2. movable'[p] = movable[p] \ {e} /\ \A q \in Proc : q # p => movable'[q] = movable[q]
    BY <2>1 DEF Typed
  <2>3. \A x \in pending' : x \in pending
    BY <1>13 DEF MoveEntry, MoveFile
  <2>4. faults' = 0 => faults = 0 /\ pending' = pending \ {e}
    BY <1>0, <1>13 DEF MoveEntry, MoveFile, Fault, NoFault
  <2>5. faults' = 0 => InHand(p)'
    BY <2>1, <2>2, <2>4 DEF InHand, DeliveryOK
  <2> QED BY <2>1, <2>2, <2>3, <2>4, <2>5, DeliversKeeps DEF Delivers
<1>14. ASSUME NEW p \in Proc, MoveActivity(p) PROVE DeliveryOK' /\ DeliveredIsReported'
  <2>1. UNCHANGED <<pending, consumed, movable, delivered, pc, id, issued>> /\ (faults' = 0 => faults = 0)
    BY <1>0, <1>14 DEF MoveActivity, Fault, NoFault
  <2> QED BY <2>1 DEF DeliveryOK, DeliveredIsReported, InHand
<1>15. ASSUME NEW p \in Proc, EndReport(p) PROVE DeliveryOK' /\ DeliveredIsReported'
  <2>1. /\ Step(p) /\ pending' = pending /\ NoFault /\ Deliver(p)
        /\ faults = 0 => \A e \in pending : e.id # id[p]
    BY <1>15 DEF EndReport, Step, DeliveryOK, InHand
  <2> QED BY <1>4, <2>1
<1>16. CASE UNCHANGED vars
  BY <1>16 DEF vars, DeliveryOK, DeliveredIsReported, InHand
<1> QED BY <1>1, <1>5, <1>6, <1>7, <1>8, <1>9, <1>10, <1>11, <1>12, <1>13, <1>14, <1>15, <1>16 DEF Next, Step

-------------------------------------------------------------------------------
(* The baseline absorbs no change in silence. *)

Settled == baseline = {} \/ baseline = {told}

\* The baseline a run compares with is what its readers know.
Compares(p) == prior[p] = {} \/ prior[p] = {told}

Exploring == {"explore", "storeExplored", "logExplored"}

Informed(p) ==
    /\ pc[p] \in {"idle", "collect", "log", "reseed", "read", "render", "list", "move"} => Settled
    /\ pc[p] = "firstBaseline" => prior[p] = {}
    /\ pc[p] \in Exploring => IF cmd[p].kind = "run" THEN Compares(p) ELSE Settled
    /\ pc[p] = "saveBaseline" => Compares(p)
    /\ pc[p] = "store" => Compares(p) /\ baseline = {structure[p]}

\* The command at work is informed, and everybody when none is.
ToldOK ==
    ~disturbed /\ faults = 0 =>
        \A p \in Proc : pc[p] # "idle" \/ (\A q \in Proc : pc[q] = "idle") => Informed(p)

LEMMA InformedKeeps ==
    ASSUME Typed, Alone, ToldOK, NEW p \in Proc, Step(p) \/ Crash(p), Fault \/ NoFault,
           ~disturbed /\ NoFault /\ faults = 0 /\ Informed(p) => Informed(p)'
    PROVE  ToldOK'
<1> SUFFICES ASSUME ~disturbed', faults' = 0, NEW q \in Proc,
                    pc'[q] # "idle" \/ \A r \in Proc : pc'[r] = "idle"
             PROVE  Informed(q)'
  BY DEF ToldOK
<1>1. disturbed' = disturbed /\ pc[p] # "idle"
  BY StepDisturbed, StepMoves DEF Moves
<1>2. NoFault /\ faults = 0
  BY DEF Fault, NoFault, Typed
<1>3. \A r \in Proc : r # p => pc[r] = "idle" /\ pc'[r] = "idle"
  BY <1>1, StepMoves DEF Alone, Moves, Goto, Leave, Typed
<1>4. Informed(p)'
  BY <1>1, <1>2 DEF ToldOK
<1>5. CASE q = p
  BY <1>4, <1>5
<1>6. CASE q # p
  <2>1. pc'[q] = "idle" /\ pc'[p] = "idle"
    BY <1>3, <1>6
  <2> QED BY <1>4, <2>1 DEF Informed, Exploring
<1> QED BY <1>5, <1>6

\* Whoever applies what a run found to what the run compared with knows what it saw.
LEMMA AfterExamined ==
    ASSUME Typed, NEW p \in Proc, prior[p] = {told}, NEW observations \in Observations
    PROVE  After(told, Examined(p, observations)) = structure[p]
<1>1. structure[p] \subseteq Feature /\ told \subseteq Feature
  BY DEF Typed
<1>2. \A x \in observations : x = Observation
  BY ObservationsAssumption
<1>3. \A f, c : c # "observed" => [change |-> c, what |-> f] # Observation
  BY DEF Observation
<1>4. \A f : [change |-> "added", what |-> f] \in Examined(p, observations)
                 <=> f \in structure[p] \ told
  <2> SUFFICES ASSUME NEW f PROVE [change |-> "added", what |-> f] \in Examined(p, observations)
                 <=> f \in structure[p] \ told
    OBVIOUS
  <2>1. [change |-> "added", what |-> f] \notin observations
    BY <1>2, <1>3
  <2> QED BY <2>1 DEF Examined, detectDiffs
<1>5. \A f : [change |-> "removed", what |-> f] \in Examined(p, observations)
                 <=> f \in told \ structure[p]
  <2> SUFFICES ASSUME NEW f PROVE [change |-> "removed", what |-> f] \in Examined(p, observations)
                 <=> f \in told \ structure[p]
    OBVIOUS
  <2>1. [change |-> "removed", what |-> f] \notin observations
    BY <1>2, <1>3
  <2> QED BY <2>1 DEF Examined, detectDiffs
<1> QED BY <1>1, <1>4, <1>5 DEF After

LEMMA NextTold ==
    ASSUME Typed, Alone, WaivedOK, ToldOK, [Next]_vars
    PROVE  ToldOK'
<1> USE DEF tellVars, runVars, reportVars, Exploring
<1>1. ASSUME NEW p \in Proc, StartCommand(p) PROVE ToldOK'
  <2> SUFFICES ASSUME ~disturbed', faults' = 0, NEW q \in Proc,
                      pc'[q] # "idle" \/ \A r \in Proc : pc'[r] = "idle"
               PROVE  Informed(q)'
    BY DEF ToldOK
  <2>1. /\ ~disturbed /\ \A r \in Proc : pc[r] = "idle"
        /\ UNCHANGED <<baseline, told, structure, prior>>
    BY <1>1 DEF StartCommand
  <2>2. faults = 0
    BY <1>1 DEF StartCommand, Fault, NoFault, Typed
  <2>3. Settled'
    BY <2>1, <2>2 DEF ToldOK, Informed, Settled
  <2>4. \/ pc'[q] \in {"idle", "collect", "read"}
        \/ pc'[q] = "explore" /\ cmd'[q].kind # "run"
    BY <1>1, <2>1 DEF StartCommand, FirstStage, Typed
  <2> QED BY <2>3, <2>4 DEF Informed
\* A step that stays in what is known to all.
<1>2. ASSUME NEW p \in Proc, Step(p) \/ Crash(p), Fault \/ NoFault,
             NoFault => baseline' = baseline /\ told' = told /\ (Informed(p) => Settled),
             NoFault => pc'[p] \in {"idle", "reseed", "read", "render", "list", "move"}
      PROVE  ToldOK'
  BY <1>2, InformedKeeps DEF Informed, Settled
\* A step in which a run keeps what it compares with.
<1>3. ASSUME NEW p \in Proc, Step(p), NoFault,
             UNCHANGED <<baseline, told, structure, prior>>, NEW stage \in {"storeExplored", "logExplored", "saveBaseline"},
             Goto(p, stage), pc[p] \in Exploring, stage = "saveBaseline" => cmd[p].kind = "run"
      PROVE  ToldOK'
  <2>1. pc'[p] = stage /\ cmd' = cmd
    BY <1>3 DEF Goto, Typed
  <2> QED BY <1>3, <2>1, InformedKeeps DEF Informed, Compares, Settled
<1>4. ASSUME NEW p \in Proc, Collect(p) PROVE ToldOK'
  <2>1. /\ Step(p) /\ NoFault /\ pc[p] = "collect" /\ cmd[p].kind = "run" /\ baseline' = baseline /\ told' = told
        /\ cmd' = cmd /\ prior'[p] = baseline
        /\ pc'[p] = IF baseline = {} THEN "firstBaseline" ELSE AfterCollect(p)
    BY <1>4 DEF Collect, Step, Goto, WaivedOK, Accounted, Typed
  <2> QED BY <2>1, InformedKeeps DEF Informed, Settled, Compares, AfterCollect
<1>5. ASSUME NEW p \in Proc, SaveFirstBaseline(p) PROVE ToldOK'
  <2>1. /\ Step(p) /\ NoFault /\ pc[p] = "firstBaseline" /\ cmd[p].kind = "run" /\ prior' = prior /\ told' = told
        /\ cmd' = cmd /\ pc'[p] = AfterCollect(p)
    BY <1>5 DEF SaveFirstBaseline, Step, Stay, Goto, WaivedOK, Accounted, Typed
  <2> QED BY <2>1, InformedKeeps DEF Informed, Settled, Compares, AfterCollect
<1>6. ASSUME NEW p \in Proc, CollectThrows(p) \/ ExploreThrows(p) \/ ReseedThrows(p) \/ ReportThrows(p) \/ Crash(p)
      PROVE  ToldOK'
  <2>1. Fault /\ ~NoFault
    BY <1>6 DEF CollectThrows, ExploreThrows, ReseedThrows, ReportThrows, Crash, Fault, NoFault, Typed
  <2> QED BY <1>6, <2>1, InformedKeeps DEF Step
<1>7. ASSUME NEW p \in Proc, Explore(p) PROVE ToldOK'
  BY <1>3, <1>7 DEF Explore, Step, Stay
<1>8. ASSUME NEW p \in Proc, StoreExplored(p) PROVE ToldOK'
  BY <1>3, <1>8 DEF StoreExplored, Step, Stay
<1>9. ASSUME NEW p \in Proc, LogExplored(p) PROVE ToldOK'
  <2>1. /\ Step(p) /\ NoFault /\ pc[p] = "logExplored" /\ baseline' = baseline /\ told' = told
    BY <1>9 DEF LogExplored, Step
  <2>2. CASE cmd[p].kind = "run"
    BY <1>3, <1>9, <2>1, <2>2 DEF LogExplored, Stay
  <2>3. CASE cmd[p].kind # "run"
    <3>1. pc'[p] \in {"idle", "reseed"}
      BY <1>9, <2>3 DEF LogExplored, End, Leave, Goto, Typed
    <3>2. Informed(p) => Settled
      BY <2>1, <2>3 DEF Informed
    <3> QED BY <1>2, <2>1, <3>1, <3>2
  <2> QED BY <2>2, <2>3
<1>10. ASSUME NEW p \in Proc, SaveBaseline(p) PROVE ToldOK'
  <2>1. /\ Step(p) /\ (Fault \/ NoFault) /\ pc[p] = "saveBaseline" /\ prior' = prior /\ told' = told /\ structure' = structure
        /\ pc'[p] = "store"
    BY <1>10 DEF SaveBaseline, Step, Stay, Goto, Typed
  <2>2. NoFault => baseline' = {structure[p]}
    BY <1>10 DEF SaveBaseline, Fault, NoFault, Typed
  <2> QED BY <2>1, <2>2, InformedKeeps DEF Informed, Compares
<1>11. ASSUME NEW p \in Proc, StoreFindings(p) PROVE ToldOK'
  <2>1. /\ Step(p) /\ (Fault \/ NoFault) /\ pc[p] = "store" /\ baseline' = baseline /\ pc'[p] = "log"
    BY <1>11 DEF StoreFindings, Step, Goto, Typed
  <2>2. ASSUME NoFault, Informed(p) PROVE told' = structure[p]
    <3>1. PICK observations \in Observations :
            told' = IF prior[p] = {} THEN structure[p] ELSE After(told, Examined(p, observations))
      BY <1>11, <2>2 DEF StoreFindings, Fault, NoFault, Typed
    <3>2. prior[p] = {} \/ prior[p] = {told}
      BY <2>1, <2>2 DEF Informed, Compares
    <3> QED BY <3>1, <3>2, AfterExamined
  <2>3. Informed(p) => baseline = {structure[p]}
    BY <2>1 DEF Informed
  <2>4. NoFault /\ Informed(p) => Informed(p)'
    BY <2>1, <2>2, <2>3 DEF Informed, Settled
  <2> QED BY <2>1, <2>4, InformedKeeps
<1>12. ASSUME NEW p \in Proc, LogRun(p) \/ Reseed(p) PROVE ToldOK'
  <2>1. /\ Step(p) /\ (Fault \/ NoFault) /\ baseline' = baseline /\ told' = told /\ pc[p] \in {"log", "reseed"}
    BY <1>12 DEF LogRun, Reseed, Step
  <2>2. pc'[p] \in {"idle", "reseed", "read"}
    BY <1>12 DEF LogRun, Reseed, AfterRun, End, Leave, Goto, Typed
  <2> QED BY <1>2, <2>1, <2>2 DEF Informed
<1>13. ASSUME NEW p \in Proc, ReadFindings(p) \/ Render(p) \/ ListArchive(p) \/ EndReport(p) PROVE ToldOK'
  <2>1. /\ Step(p) /\ NoFault /\ baseline' = baseline /\ told' = told /\ pc[p] \in {"read", "render", "list", "move"}
    BY <1>13 DEF ReadFindings, Render, ListArchive, EndReport, Step
  <2>2. pc'[p] \in {"idle", "render", "list", "move"}
    BY <1>13 DEF ReadFindings, Render, ListArchive, EndReport, Deliver, Leave, Goto, Typed
  <2> QED BY <1>2, <2>1, <2>2 DEF Informed
<1>14. ASSUME NEW p \in Proc, MoveActivity(p) \/ (\E e \in movable[p] : MoveEntry(p, e)) PROVE ToldOK'
  <2>1. /\ Step(p) /\ (Fault \/ NoFault) /\ baseline' = baseline /\ told' = told /\ pc[p] = "move" /\ pc' = pc
    BY <1>14 DEF MoveActivity, MoveEntry, Step
  <2> QED BY <1>2, <2>1 DEF Informed
<1>15. CASE UNCHANGED vars
  BY <1>15 DEF vars, ToldOK, Informed, Settled, Compares
<1> QED BY <1>1, <1>4, <1>5, <1>6, <1>7, <1>8, <1>9, <1>10, <1>11, <1>12, <1>13, <1>14, <1>15 DEF Next, Step

-------------------------------------------------------------------------------
(* The inductive invariant and what follows from it. *)

IInv ==
    /\ Typed /\ IdsOK
    /\ Kept /\ StoredOnce /\ ReportOK
    /\ Alone /\ LinesOK
    /\ WaivedOK /\ RestoredOrWaived
    /\ DeliveryOK /\ DeliveredIsReported
    /\ ToldOK

LEMMA InitIInv == Init => IInv
<1> SUFFICES ASSUME Init PROVE IInv
  OBVIOUS
<1>1. Typed
  BY InitTyped
<1>2. IdsOK /\ Kept /\ StoredOnce /\ ReportOK /\ Alone /\ LinesOK
  BY DEF Init, IdsOK, Kept, StoredOnce, ReportOK, Alone, LinesOK
<1>3. WaivedOK /\ RestoredOrWaived /\ DeliveryOK /\ DeliveredIsReported
  BY DEF Init, WaivedOK, Accounted, RestoredOrWaived, DeliveryOK, InHand, DeliveredIsReported
<1>4. ToldOK
  BY DEF Init, ToldOK, Informed, Settled, Exploring
<1> QED BY <1>1, <1>2, <1>3, <1>4 DEF IInv

LEMMA NextIInv == IInv /\ [Next]_vars => IInv'
<1> SUFFICES ASSUME IInv, [Next]_vars PROVE IInv'
  OBVIOUS
<1>1. Typed' /\ IdsOK'
  BY NextTyped, NextIds DEF IInv
<1>2. Kept' /\ StoredOnce' /\ ReportOK'
  BY NextKept, NextStored, NextReport DEF IInv
<1>3. Alone' /\ LinesOK'
  BY NextAlone, NextLines DEF IInv
<1>4. WaivedOK' /\ RestoredOrWaived'
  BY NextWaived DEF IInv
<1>5. DeliveryOK' /\ DeliveredIsReported'
  BY <1>1, NextDelivery DEF IInv
<1>6. ToldOK'
  BY NextTold DEF IInv
<1> QED BY <1>1, <1>2, <1>3, <1>4, <1>5, <1>6 DEF IInv

LEMMA IInvAlways == Spec => []IInv
BY InitIInv, NextIInv, PTL DEF Spec

\* Every variable of the behavior commands has its type, and a findings file is
\* never both pending and archived.
THEOREM BehaviorTypeOK == Spec => []TypeOK
<1>1. IInv => TypeOK
  BY DEF IInv, Typed, StoredOnce, TypeOK
<1> QED BY <1>1, IInvAlways, PTL

\* No findings file and no line of activity is lost, what is archived has been
\* reported, and only the log of commands that overlap may move unread
\* (findings.ts), for any number of overlapping commands, faults and crashes.
THEOREM BehaviorEntriesAreKept == Spec => []EntriesAreKept
<1>1. IInv => EntriesAreKept
  BY DEF IInv, Kept, ReportOK, LinesOK, EntriesAreKept
<1> QED BY <1>1, IInvAlways, PTL

\* A report that is behind its command has left none of its findings untold
\* (report.ts), however many reports and runs overlap.
THEOREM BehaviorDelivered == Spec => []DeliveredIsReported
<1>1. IInv => DeliveredIsReported
  BY DEF IInv
<1> QED BY <1>1, IInvAlways, PTL

\* A command that ends by itself has restored the database or was told not to
\* (run.ts, explore.ts, crud.ts).
THEOREM BehaviorRestored == Spec => []RestoredOrWaived
<1>1. IInv => RestoredOrWaived
  BY DEF IInv
<1> QED BY <1>1, IInvAlways, PTL

\* The findings of runs that follow one another tell every change the baseline
\* takes in (collect.ts, diff.ts, store.ts).
THEOREM BehaviorFindingsTell == Spec => []FindingsTellTheChange
<1>1. IInv => FindingsTellTheChange
  <2> SUFFICES ASSUME IInv, ~disturbed, faults = 0, baseline # {}, \A p \in Proc : pc[p] = "idle"
               PROVE  baseline = {told}
    BY DEF FindingsTellTheChange
  <2>1. PICK p \in Proc : TRUE
    BY ProcAssumption
  <2> QED BY <2>1 DEF IInv, ToldOK, Informed, Settled
<1> QED BY <1>1, IInvAlways, PTL
=============================================================================
