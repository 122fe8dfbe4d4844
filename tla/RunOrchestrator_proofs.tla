----------------------- MODULE RunOrchestrator_proofs -----------------------
(***************************************************************************)
(* Proofs about the run orchestrator, for any set of units, any number of  *)
(* runs, faults and crashes, and any length of the write queue.            *)
(***************************************************************************)
EXTENDS RunOrchestrator, FiniteSetTheorems, TLAPS

\* The ledgers between the file (0) and memory (the last of the queue).
Snapshot(i) == IF i = 0 THEN progressJson ELSE writeChain[i]

\* Before the run reads the ledger nothing is queued.
QueueEmptyBefore == pc \in {"idle", "clear", "load"} => writeChain = << >>

\* From the snapshot a body was made to wait for onwards, all say "running".
RunningFromAwaited ==
    pc \in {"flush", "body", "settle"} =>
        \A i \in awaited..Len(writeChain) : Snapshot(i)[Phase].status = "running"

BodyAwaitsNothing == pc \in {"body", "settle"} => awaited = 0

\* structure is never started twice, and only what depends on it follows it.
TodoInOrder ==
    \A i, j \in DOMAIN todo :
        i < j /\ todo[i] = "structure" => DependsOnStructure(todo[j])

\* Units survive only a structure phase that failed.
LateBehindFailure ==
    late # {} =>
        \/ pc = "settle" /\ Phase = "structure" /\ outcome = "failed"
        \/ /\ pc \in {"select", "drain", "ended"}
           /\ structureFailed /\ current["structure"].status = "failed"
           /\ \A i \in DOMAIN todo : DependsOnStructure(todo[i])

\* Every queued snapshot is one lifecycle step away from the one before it.
QueueOfSteps ==
    \A i \in 1..Len(writeChain) : Lifecycle!LedgerStep(Snapshot(i - 1), Snapshot(i))

\* The inductive invariant: that the file is one step of the lifecycle away
\* from its past says nothing about the snapshots still queued, so the
\* invariant speaks about all of them.
IInv ==
    /\ TypeOK
    /\ LedgerOnDiskCatchesUp
    /\ QueueEmptyBefore
    /\ RunningFromAwaited
    /\ BodyAwaitsNothing
    /\ TodoInOrder
    /\ LateBehindFailure
    /\ QueueOfSteps

-----------------------------------------------------------------------------
(* Lemmas about the updaters of progress.ts: each keeps a ledger well formed *)
(* and is one step of the abstract lifecycle.                                *)

Good(l) == l \in Ledger /\ CountsWithin(l)

\* Replacing the entry of one phase by a well-formed one.
LEMMA ReplaceEntry ==
    ASSUME NEW l, Good(l), NEW ph \in PhaseName, NEW e \in PhaseProgress,
           e.completed <= e.total
    PROVE  LET m == [l EXCEPT ![ph] = e] IN
             /\ Good(m)
             /\ m[ph] = e
             /\ Lifecycle!OnlyEntry(l, m, ph)
<1> DEFINE m == [l EXCEPT ![ph] = e]
<1>1. m \in Ledger /\ m[ph] = e /\ \A q \in PhaseName \ {ph} : m[q] = l[q]
  BY DEF Good, Ledger
<1>2. CountsWithin(m)
  BY <1>1 DEF Good, CountsWithin
<1>3. m = [l EXCEPT ![ph] = m[ph]]
  BY <1>1
<1> QED
  BY <1>1, <1>2, <1>3 DEF Good, Lifecycle!OnlyEntry

LEMMA EntryType ==
    ASSUME NEW l, Good(l), NEW ph \in PhaseName
    PROVE  l[ph] \in PhaseProgress /\ l[ph].completed <= l[ph].total
  BY DEF Good, Ledger, CountsWithin

\* The entry withPhaseStatus puts in place of the old one.
statusEntry(l, ph, s, at) ==
    [status        |-> s,
     completedAt   |-> IF s \in {"completed", "failed"} THEN at ELSE l[ph].completedAt,
     blockedReason |-> l[ph].blockedReason \/ s = "blocked",
     total         |-> l[ph].total,
     completed     |-> l[ph].completed]

\* withPhaseStatus changes a status and keeps the counters.
LEMMA StatusUpdate ==
    ASSUME NEW l, Good(l), NEW ph \in PhaseName, NEW s \in PhaseStatus, NEW at \in Nat
    PROVE  LET m == withPhaseStatus(l, ph, s, at) IN
             /\ Good(m)
             /\ Lifecycle!OnlyEntry(l, m, ph)
             /\ m[ph].status = s
             /\ m[ph].total = l[ph].total /\ m[ph].completed = l[ph].completed
             /\ m[ph] = statusEntry(l, ph, s, at)
<1> DEFINE e == statusEntry(l, ph, s, at)
           m == withPhaseStatus(l, ph, s, at)
<1>1. l[ph] \in PhaseProgress /\ l[ph].completed <= l[ph].total
  BY EntryType
<1>2. e \in PhaseProgress /\ e.completed <= e.total
  <2>1. (l[ph].blockedReason \/ s = "blocked") \in BOOLEAN
    OBVIOUS
  <2>2. (IF s \in {"completed", "failed"} THEN at ELSE l[ph].completedAt) \in Nat
    BY <1>1 DEF PhaseProgress
  <2> QED
    BY <1>1, <2>1, <2>2 DEF PhaseProgress, statusEntry
<1>3. e.status = s /\ e.total = l[ph].total /\ e.completed = l[ph].completed
  BY DEF statusEntry
<1>4. m = [l EXCEPT ![ph] = e]
  BY DEF withPhaseStatus, statusEntry
<1>5. Good(m) /\ m[ph] = e /\ Lifecycle!OnlyEntry(l, m, ph)
  <2> HIDE DEF e, m
  <2> QED BY <1>2, <1>4, ReplaceEntry
<1> QED
  BY <1>3, <1>5

\* withTasksRegistered caps the count it keeps at the new total.
LEMMA RegisterUpdate ==
    ASSUME NEW l, Good(l), NEW ph \in PhaseName, NEW total \in Nat
    PROVE  LET m == withTasksRegistered(l, ph, total) IN
             /\ Good(m)
             /\ Lifecycle!OnlyEntry(l, m, ph)
             /\ m[ph].status = l[ph].status
             /\ l[ph].status = "running" => Lifecycle!Registered(l, m, ph)
<1> DEFINE e == [l[ph] EXCEPT !.total = total,
                              !.completed = AtMost(l[ph].completed, total)]
           m == withTasksRegistered(l, ph, total)
<1>1. l[ph] \in PhaseProgress
  BY EntryType
<1>2. AtMost(l[ph].completed, total) \in Nat /\ AtMost(l[ph].completed, total) <= total
  BY <1>1 DEF AtMost, PhaseProgress
<1>3. e \in PhaseProgress /\ e.completed <= e.total
  BY <1>1, <1>2 DEF PhaseProgress
<1>4. /\ e.status = l[ph].status
      /\ e = [l[ph] EXCEPT !.total = e.total, !.completed = e.completed]
  BY <1>1, <1>2 DEF PhaseProgress
<1>5. m = [l EXCEPT ![ph] = e]
  BY DEF withTasksRegistered
<1> HIDE DEF e, m
<1>6. Good(m) /\ m[ph] = e /\ Lifecycle!OnlyEntry(l, m, ph)
  BY <1>3, <1>5, ReplaceEntry
<1>7. m[ph].status = l[ph].status
  BY <1>4, <1>6
<1>8. l[ph].status = "running" => Lifecycle!Registered(l, m, ph)
  <2>1. m[ph].completed <= m[ph].total
    BY <1>3, <1>6
  <2> QED
    BY <1>4, <1>6, <2>1 DEF Lifecycle!Registered
<1> QED
  BY <1>6, <1>7, <1>8 DEF m

\* withTaskCompleted only adds, and never past the total.
LEMMA CompleteUpdate ==
    ASSUME NEW l, Good(l), NEW ph \in PhaseName, NEW count \in Nat
    PROVE  LET m == withTaskCompleted(l, ph, count) IN
             /\ Good(m)
             /\ Lifecycle!OnlyEntry(l, m, ph)
             /\ m[ph].status = l[ph].status
             /\ \/ l[ph].status = "running"
                \/ ph = "structure" /\ l[ph].status = "failed"
                => Lifecycle!Progressed(l, m, ph)
<1> DEFINE c == AtMost(l[ph].total, l[ph].completed + count)
           e == [l[ph] EXCEPT !.completed = c]
           m == withTaskCompleted(l, ph, count)
<1>1. l[ph] \in PhaseProgress /\ l[ph].completed <= l[ph].total
  BY EntryType
<1>2. c \in Nat /\ c <= l[ph].total /\ l[ph].completed <= c
  BY <1>1 DEF AtMost, PhaseProgress
<1>3. m = [l EXCEPT ![ph] = e]
  BY DEF withTaskCompleted
<1> HIDE DEF c
<1>4. e \in PhaseProgress /\ e.completed <= e.total
  BY <1>1, <1>2 DEF PhaseProgress
<1>5. /\ e.status = l[ph].status /\ l[ph].completed <= e.completed
      /\ e = [l[ph] EXCEPT !.completed = e.completed]
  BY <1>1, <1>2 DEF PhaseProgress
<1> HIDE DEF e, m
<1>6. Good(m) /\ m[ph] = e /\ Lifecycle!OnlyEntry(l, m, ph)
  BY <1>3, <1>4, ReplaceEntry
<1>7. m[ph].status = l[ph].status
  BY <1>5, <1>6
<1>8. ASSUME \/ l[ph].status = "running"
             \/ ph = "structure" /\ l[ph].status = "failed"
      PROVE  Lifecycle!Progressed(l, m, ph)
  <2>1. m[ph].completed <= m[ph].total
    BY <1>4, <1>6
  <2> QED
    BY <1>5, <1>6, <1>8, <2>1 DEF Lifecycle!Progressed
<1> QED
  BY <1>6, <1>7, <1>8 DEF m

\* The status steps of the orchestrator are lifecycle steps.
LEMMA StartIsAStep ==
    ASSUME NEW l, Good(l), NEW ph \in PhaseName, NEW at \in Nat
    PROVE  Lifecycle!Started(l, withPhaseStatus(l, ph, "running", at), ph)
<1>1. "running" \in PhaseStatus /\ l[ph] \in PhaseProgress
  BY EntryType DEF PhaseStatus
<1>2. statusEntry(l, ph, "running", at) = [l[ph] EXCEPT !.status = "running"]
  <2>1. (l[ph].blockedReason \/ "running" = "blocked") = l[ph].blockedReason
    BY <1>1 DEF PhaseProgress
  <2> QED
    BY <1>1, <2>1 DEF PhaseProgress, statusEntry
<1> QED
  BY <1>1, <1>2, StatusUpdate DEF Lifecycle!Started

LEMMA BlockIsAStep ==
    ASSUME NEW l, Good(l), NEW ph \in Blockable, NEW at \in Nat
    PROVE  Lifecycle!Blocked(l, withPhaseStatus(l, ph, "blocked", at), ph)
<1> DEFINE e == statusEntry(l, ph, "blocked", at)
<1>1. ph \in PhaseName /\ "blocked" \in PhaseStatus /\ l[ph] \in PhaseProgress
  BY EntryType DEF Blockable, PhaseName, PhaseStatus
<1>2. e.blockedReason
  BY DEF statusEntry
<1>3. e.status = "blocked" /\ e.completedAt = l[ph].completedAt
  BY DEF statusEntry
<1>4. e.total = l[ph].total /\ e.completed = l[ph].completed
  BY DEF statusEntry
<1>5. withPhaseStatus(l, ph, "blocked", at)[ph] = e
  BY <1>1, StatusUpdate
<1>6. Lifecycle!OnlyEntry(l, withPhaseStatus(l, ph, "blocked", at), ph)
  BY <1>1, StatusUpdate
<1> HIDE DEF e
<1> QED
  BY <1>2, <1>3, <1>4, <1>5, <1>6 DEF Lifecycle!Blocked

LEMMA EndIsAStep ==
    ASSUME NEW l, Good(l), NEW ph \in PhaseName, NEW at \in Nat,
           NEW s \in {"completed", "failed", "blocked"}, l[ph].status = "running"
    PROVE  Lifecycle!Ended(l, withPhaseStatus(l, ph, s, at), ph)
<1>1. s \in PhaseStatus /\ l[ph] \in PhaseProgress
  BY EntryType DEF PhaseStatus
<1>2. s = "blocked" => statusEntry(l, ph, s, at).blockedReason
  BY DEF statusEntry
<1> QED
  BY <1>1, <1>2, StatusUpdate DEF Lifecycle!Ended

-----------------------------------------------------------------------------
(* What a step may do to the ledger: nothing, commit, write, or restart.     *)

Before  == {"idle", "clear", "load"}
InHand  == {"flush", "body", "settle"}

\* The process goes on with the ledger it has.
Quiet ==
    /\ UNCHANGED <<progressJson, current, writeChain>>
    /\ awaited' \in {awaited, Len(writeChain)}
    /\ pc' \in Before => pc \in Before
    /\ pc \in {"clear", "load"} => pc' \in {"clear", "load"}
    /\ pc' \in InHand => pc \in InHand /\ UNCHANGED <<todo, awaited>>

Commits(m) ==
    /\ Good(m) /\ Lifecycle!LedgerStep(current, m)
    /\ current' = m /\ writeChain' = Append(writeChain, m)
    /\ UNCHANGED progressJson
    /\ awaited' \in {awaited, Len(writeChain) + 1}

Committed ==
    /\ pc' \notin Before
    /\ pc \notin {"clear", "load"}
    /\ \E m : /\ Commits(m)
              /\ pc' \in InHand =>
                    /\ UNCHANGED todo /\ m[Phase].status = "running"
                    /\ \/ pc \in InHand /\ awaited' = awaited
                       \/ awaited' = Len(writeChain) + 1

Restarted ==
    /\ writeChain' = << >> /\ awaited' = 0
    /\ Good(progressJson') /\ Good(current')
    /\ pc' \notin InHand
    /\ pc' \in {"clear", "load"} \/ current' = progressJson'

\* The ledger part of the invariant, and the part a running phase adds.
LedgerInv == LedgersOK /\ LedgerOnDiskCatchesUp /\ QueueEmptyBefore /\ QueueOfSteps

LEMMA LastIsLen ==
    ASSUME LedgersOK
    PROVE  /\ Len(writeChain) \in Nat /\ LastSnapshot = Snapshot(Len(writeChain))
           /\ DOMAIN writeChain = 1..Len(writeChain)
           /\ writeChain = << >> <=> Len(writeChain) = 0
  BY DEF LedgersOK, LastSnapshot, Snapshot

\* Nothing the queue says changes by adding a snapshot to its end.
LEMMA AppendSnapshot ==
    ASSUME LedgersOK, NEW m \in Ledger,
           writeChain' = Append(writeChain, m), UNCHANGED progressJson
    PROVE  /\ Len(writeChain') = Len(writeChain) + 1
           /\ \A i \in 0..Len(writeChain) : Snapshot(i)' = Snapshot(i)
           /\ \A i \in Nat : i = Len(writeChain) + 1 => Snapshot(i)' = m
<1>1. writeChain \in Seq(Ledger) /\ Len(writeChain) \in Nat
  BY LastIsLen DEF LedgersOK
<1>2. /\ Len(Append(writeChain, m)) = Len(writeChain) + 1
      /\ \A i \in 1..Len(writeChain) : Append(writeChain, m)[i] = writeChain[i]
      /\ Append(writeChain, m)[Len(writeChain) + 1] = m
  BY <1>1
<1>3. \A i \in 0..Len(writeChain) : Snapshot(i)' = Snapshot(i)
  BY <1>1, <1>2 DEF Snapshot
<1>4. \A i \in Nat : i = Len(writeChain) + 1 => Snapshot(i)' = m
  BY <1>1, <1>2 DEF Snapshot
<1> QED
  BY <1>2, <1>3, <1>4

\* Writing the head shifts the queue by one.
LEMMA ShiftSnapshot ==
    ASSUME LedgersOK, writeChain # << >>,
           progressJson' = Head(writeChain), writeChain' = Tail(writeChain)
    PROVE  /\ Len(writeChain') = Len(writeChain) - 1
           /\ writeChain' \in Seq(Ledger)
           /\ progressJson' = Snapshot(1)
           /\ \A i \in 0..Len(writeChain') : Snapshot(i)' = Snapshot(i + 1)
<1>1. /\ writeChain \in Seq(Ledger) /\ Len(writeChain) \in Nat \ {0}
      /\ Len(Tail(writeChain)) = Len(writeChain) - 1
      /\ \A i \in 1..(Len(writeChain) - 1) : Tail(writeChain)[i] = writeChain[i + 1]
      /\ Head(writeChain) = writeChain[1]
  BY LastIsLen DEF LedgersOK
<1>2. Tail(writeChain) \in Seq(Ledger)
  BY <1>1
<1> QED
  BY <1>1, <1>2 DEF Snapshot

LEMMA QuietKeeps ==
    ASSUME LedgerInv, RunningFromAwaited, Quiet
    PROVE  LedgerInv' /\ RunningFromAwaited'
<1> USE DEF LedgerInv
<1>1. LedgersOK'
  BY LastIsLen DEF Quiet, LedgersOK
<1>2. LedgerOnDiskCatchesUp' /\ QueueEmptyBefore'
  BY DEF Quiet, Before, LedgerOnDiskCatchesUp, QueueEmptyBefore, LastSnapshot
<1>3. \A i : Snapshot(i)' = Snapshot(i)
  BY DEF Quiet, Snapshot
<1>4. QueueOfSteps'
  BY <1>3 DEF Quiet, QueueOfSteps
<1>5. RunningFromAwaited'
  BY <1>3 DEF Quiet, InHand, RunningFromAwaited, Phase
<1> QED
  BY <1>1, <1>2, <1>4, <1>5

LEMMA CommittedKeeps ==
    ASSUME LedgerInv, RunningFromAwaited, Committed
    PROVE  LedgerInv' /\ RunningFromAwaited'
<1> USE DEF LedgerInv
<1>1. PICK m : /\ Commits(m)
               /\ pc' \in InHand =>
                    /\ UNCHANGED todo /\ m[Phase].status = "running"
                    /\ \/ pc \in InHand /\ awaited' = awaited
                       \/ awaited' = Len(writeChain) + 1
  BY DEF Committed
<1> DEFINE n == Len(writeChain)
<1>2. /\ m \in Ledger /\ CountsWithin(m) /\ current' = m
      /\ writeChain' = Append(writeChain, m) /\ progressJson' = progressJson
      /\ awaited' \in {awaited, n + 1}
      /\ Lifecycle!LedgerStep(current, m)
  BY <1>1 DEF Commits, Good
<1>3. /\ n \in Nat /\ Len(writeChain') = n + 1
      /\ writeChain \in Seq(Ledger) /\ awaited \in Nat /\ awaited <= n
      /\ DOMAIN writeChain = 1..n
      /\ LastSnapshot = Snapshot(n)
  BY <1>2, AppendSnapshot, LastIsLen DEF LedgersOK
<1>4. \A i \in 0..n : Snapshot(i)' = Snapshot(i)
  BY <1>2, AppendSnapshot
<1>5. \A i \in Nat : i = n + 1 => Snapshot(i)' = m
  BY <1>2, AppendSnapshot
<1>6. writeChain' \in Seq(Ledger) /\ DOMAIN writeChain' = 1..(n + 1)
  BY <1>2, <1>3
<1>7. LedgersOK'
  <2>1. \A i \in 1..n : writeChain'[i] = writeChain[i]
    BY <1>2, <1>3
  <2>2. writeChain'[n + 1] = m
    BY <1>2, <1>3
  <2>3. \A i \in DOMAIN writeChain' : CountsWithin(writeChain'[i])
    <3> SUFFICES ASSUME NEW i \in 1..(n + 1) PROVE CountsWithin(writeChain'[i])
      BY <1>6
    <3>1. CASE i = n + 1 BY <3>1, <2>2, <1>2
    <3>2. CASE i \in 1..n BY <3>2, <2>1, <1>3 DEF LedgersOK
    <3> QED BY <3>1, <3>2, <1>3
  <2>4. awaited' \in Nat /\ awaited' <= Len(writeChain')
    BY <1>2, <1>3
  <2>5. progressJson' \in Ledger /\ CountsWithin(progressJson')
    BY <1>2 DEF LedgersOK
  <2>6. current' \in Ledger /\ CountsWithin(current')
    BY <1>2
  <2> QED BY <1>6, <2>3, <2>4, <2>5, <2>6 DEF LedgersOK
<1>8. LedgerOnDiskCatchesUp'
  <2>1. writeChain' # << >> /\ writeChain'[Len(writeChain')] = m
    BY <1>2, <1>3
  <2> QED BY <1>2, <2>1 DEF LedgerOnDiskCatchesUp, LastSnapshot
<1>9. QueueEmptyBefore'
  BY DEF Committed, Before, QueueEmptyBefore
<1>10. QueueOfSteps'
  <2> SUFFICES ASSUME NEW i \in 1..(n + 1)
               PROVE  Lifecycle!LedgerStep(Snapshot(i - 1)', Snapshot(i)')
    BY <1>3 DEF QueueOfSteps
  <2>1. CASE i \in 1..n
    <3>1. Snapshot(i)' = Snapshot(i) /\ Snapshot(i - 1)' = Snapshot(i - 1)
      BY <2>1, <1>3, <1>4
    <3> QED BY <2>1, <3>1 DEF QueueOfSteps
  <2>2. CASE i = n + 1
    <3>1. Snapshot(i)' = m
      BY <2>2, <1>3, <1>5
    <3>2. i - 1 = n /\ n \in 0..n
      BY <2>2, <1>3
    <3>3. Snapshot(i - 1)' = Snapshot(n)
      BY <3>2, <1>4
    <3>4. Snapshot(n) = current
      BY <1>3 DEF LedgerOnDiskCatchesUp, Committed
    <3> QED BY <3>1, <3>3, <3>4, <1>2
  <2> QED BY <2>1, <2>2, <1>3
<1>11. RunningFromAwaited'
  <2> SUFFICES ASSUME pc' \in InHand, NEW i \in awaited'..(n + 1)
               PROVE  Snapshot(i)'[Phase'].status = "running"
    BY <1>3 DEF RunningFromAwaited, InHand
  <2>1. Phase' = Phase /\ m[Phase].status = "running" /\ i \in Nat
    BY <1>1, <1>2, <1>3 DEF Phase
  <2>2. CASE i = n + 1
    BY <2>1, <2>2, <1>5
  <2>3. CASE i # n + 1
    <3>1. pc \in InHand /\ i \in awaited..n /\ i \in 0..n
      BY <1>1, <1>3, <2>3
    <3>2. Snapshot(i)[Phase].status = "running"
      BY <3>1 DEF RunningFromAwaited, InHand
    <3> QED BY <2>1, <3>1, <3>2, <1>4
  <2> QED BY <2>2, <2>3
<1> QED
  BY <1>7, <1>8, <1>9, <1>10, <1>11

LEMMA WriteKeeps ==
    ASSUME LedgerInv, RunningFromAwaited, WriteSnapshot
    PROVE  LedgerInv' /\ RunningFromAwaited'
<1> USE DEF LedgerInv
<1> DEFINE n == Len(writeChain)
<1>1. /\ pc # "idle" /\ writeChain # << >> /\ pc' = pc /\ todo' = todo
      /\ progressJson' = Head(writeChain) /\ writeChain' = Tail(writeChain)
      /\ awaited' = IF awaited > 0 THEN awaited - 1 ELSE 0
      /\ current' = current
  BY DEF WriteSnapshot
<1>2. /\ n \in Nat \ {0} /\ Len(writeChain') = n - 1
      /\ writeChain' \in Seq(Ledger) /\ awaited \in Nat /\ awaited <= n
      /\ DOMAIN writeChain = 1..n
      /\ LastSnapshot = Snapshot(n)
      /\ progressJson' = Snapshot(1)
  BY <1>1, ShiftSnapshot, LastIsLen DEF LedgersOK
<1>3. \A i \in 0..(n - 1) : Snapshot(i)' = Snapshot(i + 1)
  BY <1>1, <1>2, ShiftSnapshot
<1>4. DOMAIN writeChain' = 1..(n - 1)
  BY <1>2
<1>5. \A i \in 1..n : Snapshot(i) \in Ledger /\ CountsWithin(Snapshot(i))
  BY <1>2 DEF Snapshot, LedgersOK
<1>6. LedgersOK'
  <2>1. \A i \in 1..(n - 1) : writeChain'[i] = Snapshot(i)'
    BY <1>2 DEF Snapshot
  <2>2. \A i \in DOMAIN writeChain' : CountsWithin(writeChain'[i])
    <3> SUFFICES ASSUME NEW i \in 1..(n - 1) PROVE CountsWithin(writeChain'[i])
      BY <1>4
    <3>1. i \in 0..(n - 1) /\ i + 1 \in 1..n
      BY <1>2
    <3>2. writeChain'[i] = Snapshot(i + 1)
      BY <3>1, <2>1, <1>3
    <3> QED BY <3>1, <3>2, <1>5
  <2>3. awaited' \in Nat /\ awaited' <= Len(writeChain')
    BY <1>1, <1>2
  <2>4. progressJson' \in Ledger /\ CountsWithin(progressJson')
    BY <1>2, <1>5
  <2>5. current' \in Ledger /\ CountsWithin(current')
    BY <1>1 DEF LedgersOK
  <2> QED BY <1>2, <2>2, <2>3, <2>4, <2>5 DEF LedgersOK
<1>7. LedgerOnDiskCatchesUp'
  <2>1. LastSnapshot' = Snapshot(n)
    <3>1. CASE n = 1
      <4>1. writeChain' = << >>
        BY <1>2, <3>1
      <4> QED BY <4>1, <3>1, <1>2 DEF LastSnapshot
    <3>2. CASE n # 1
      <4>1. writeChain' # << >> /\ n - 1 \in 0..(n - 1) /\ n - 1 # 0
        BY <1>2, <3>2
      <4>2. LastSnapshot' = writeChain'[n - 1]
        BY <4>1, <1>2 DEF LastSnapshot
      <4>3. writeChain'[n - 1] = Snapshot(n)
        BY <4>1, <1>2, <1>3 DEF Snapshot
      <4> QED BY <4>2, <4>3
    <3> QED BY <3>1, <3>2
  <2> QED BY <2>1, <1>1, <1>2 DEF LedgerOnDiskCatchesUp
<1>8. QueueEmptyBefore'
  BY <1>1 DEF QueueEmptyBefore
<1>9. QueueOfSteps'
  <2> SUFFICES ASSUME NEW i \in 1..(n - 1)
               PROVE  Lifecycle!LedgerStep(Snapshot(i - 1)', Snapshot(i)')
    BY <1>2 DEF QueueOfSteps
  <2>1. i \in 0..(n - 1) /\ i - 1 \in 0..(n - 1) /\ i + 1 \in 1..n /\ (i + 1) - 1 = i
        /\ (i - 1) + 1 = i
    BY <1>2
  <2>2. Snapshot(i)' = Snapshot(i + 1) /\ Snapshot(i - 1)' = Snapshot(i)
    BY <2>1, <1>3
  <2> QED BY <2>1, <2>2 DEF QueueOfSteps
<1>10. RunningFromAwaited'
  <2> SUFFICES ASSUME pc' \in InHand, NEW i \in awaited'..(n - 1)
               PROVE  Snapshot(i)'[Phase'].status = "running"
    BY <1>2 DEF RunningFromAwaited, InHand
  <2>1. Phase' = Phase /\ pc \in InHand
    BY <1>1 DEF Phase
  <2>2. i \in 0..(n - 1) /\ i + 1 \in awaited..n
    BY <1>1, <1>2
  <2> QED BY <2>1, <2>2, <1>3 DEF RunningFromAwaited, InHand
<1> QED
  BY <1>6, <1>7, <1>8, <1>9, <1>10

LEMMA RestartKeeps ==
    ASSUME Restarted
    PROVE  LedgerInv' /\ RunningFromAwaited'
<1>1. LedgersOK'
  BY DEF Restarted, LedgersOK, Good
<1>2. LedgerOnDiskCatchesUp' /\ QueueEmptyBefore' /\ RunningFromAwaited'
  BY DEF Restarted, LedgerOnDiskCatchesUp, LastSnapshot, QueueEmptyBefore,
         RunningFromAwaited, InHand
<1>3. QueueOfSteps'
  BY DEF Restarted, QueueOfSteps
<1> QED
  BY <1>1, <1>2, <1>3 DEF LedgerInv

-----------------------------------------------------------------------------
(* Every action is of one of the four kinds. *)

\* The phase in hand is running in memory too.
LEMMA PhaseInHand ==
    ASSUME IInv, pc \in InHand
    PROVE  Phase \in PhaseName /\ Good(current) /\ current[Phase].status = "running"
<1>1. Phase \in PhaseName
  BY DEF IInv, TypeOK, ProcessOK, InHand, Phase
<1>2. Good(current)
  BY DEF IInv, TypeOK, LedgersOK, Good
<1>3. Snapshot(Len(writeChain)) = current
  BY LastIsLen DEF IInv, TypeOK, LedgerOnDiskCatchesUp, InHand
<1>4. Len(writeChain) \in awaited..Len(writeChain)
  BY LastIsLen DEF IInv, TypeOK, LedgersOK
<1>5. Snapshot(Len(writeChain))[Phase].status = "running"
  BY <1>4 DEF IInv, RunningFromAwaited, InHand
<1> QED
  BY <1>1, <1>2, <1>3, <1>5

\* A body that sizes its work, or reports a part of it, commits one step.
LEMMA RegistersOrCompletes ==
    ASSUME IInv, pc = "body", UNCHANGED todo, pc' \in {"body", "settle"},
           NEW n \in Nat, NEW ph, ph = Phase,
           \/ Commit(withTasksRegistered(current, ph, n))
           \/ Commit(withTaskCompleted(current, ph, n))
    PROVE  Committed
<1>1. ph \in PhaseName /\ Good(current) /\ current[ph].status = "running"
  BY PhaseInHand DEF InHand
<1>2. PICK m : Commit(m) /\ Good(m) /\ Lifecycle!LedgerStep(current, m)
               /\ m[ph].status = "running"
  <2>1. CASE Commit(withTasksRegistered(current, ph, n))
    <3> DEFINE m == withTasksRegistered(current, ph, n)
    <3>1. Good(m) /\ Lifecycle!Registered(current, m, ph) /\ m[ph].status = "running"
      BY <1>1, RegisterUpdate
    <3> HIDE DEF m
    <3>2. Lifecycle!LedgerStep(current, m)
      BY <1>1, <3>1 DEF Lifecycle!LedgerStep, Lifecycle!PhaseName, PhaseName
    <3> QED BY <2>1, <3>1, <3>2 DEF m
  <2>2. CASE Commit(withTaskCompleted(current, ph, n))
    <3> DEFINE m == withTaskCompleted(current, ph, n)
    <3>1. Good(m) /\ Lifecycle!Progressed(current, m, ph) /\ m[ph].status = "running"
      BY <1>1, CompleteUpdate
    <3> HIDE DEF m
    <3>2. Lifecycle!LedgerStep(current, m)
      BY <1>1, <3>1 DEF Lifecycle!LedgerStep, Lifecycle!PhaseName, PhaseName
    <3> QED BY <2>2, <3>1, <3>2 DEF m
  <2> QED BY <2>1, <2>2
<1>3. Commits(m) /\ awaited' = awaited
  BY <1>2 DEF Commits, Commit
<1> QED
  BY <1>2, <1>3 DEF Committed, Before, InHand

\* What memory holds when the loop is over a failed structure phase.
LEMMA LateCommits ==
    ASSUME IInv, NEW u \in Unit, LateUnit(u)
    PROVE  Quiet \/ Committed
<1>1. pc' = pc /\ todo' = todo /\ late # {}
  BY DEF LateUnit
<1>2. CASE UNCHANGED ledgerVars
  BY <1>1, <1>2 DEF Quiet, ledgerVars
<1>3. CASE Commit(withTaskCompleted(current, "structure", 1))
  <2>1. CASE pc = "settle" /\ Phase = "structure"
    <3>1. /\ "structure" \in PhaseName /\ Good(current)
          /\ current["structure"].status = "running"
      BY <2>1, PhaseInHand DEF InHand
    <3> DEFINE m == withTaskCompleted(current, "structure", 1)
    <3>0. /\ Good(m) /\ Lifecycle!Progressed(current, m, "structure")
          /\ m["structure"].status = "running"
      BY <3>1, CompleteUpdate
    <3> HIDE DEF m
    <3>2. Lifecycle!LedgerStep(current, m)
      BY <3>0, <3>1 DEF Lifecycle!LedgerStep, Lifecycle!PhaseName, PhaseName
    <3>3. Commits(m) /\ awaited' = awaited
      BY <1>3, <3>0, <3>2 DEF Commits, Commit, m
    <3> QED BY <1>1, <2>1, <3>0, <3>3 DEF Committed, Before, InHand
  <2>2. CASE pc \in {"select", "drain", "ended"} /\ current["structure"].status = "failed"
    <3>1. "structure" \in PhaseName /\ Good(current)
      BY DEF PhaseName, IInv, TypeOK, LedgersOK, Good
    <3> DEFINE m == withTaskCompleted(current, "structure", 1)
    <3>0. Good(m) /\ Lifecycle!Progressed(current, m, "structure")
      BY <2>2, <3>1, CompleteUpdate
    <3> HIDE DEF m
    <3>2. Lifecycle!LedgerStep(current, m)
      BY <3>0, <3>1 DEF Lifecycle!LedgerStep, Lifecycle!PhaseName, PhaseName
    <3>3. Commits(m)
      BY <1>3, <3>0, <3>2 DEF Commits, Commit, m
    <3> QED BY <1>1, <2>2, <3>3 DEF Committed, Before, InHand
  <2> QED BY <1>1, <2>1, <2>2 DEF IInv, LateBehindFailure
<1> QED
  BY <1>2, <1>3 DEF LateUnit

LEMMA EmptyIsGood == Good(emptyProgress) /\ \A l, ph : Good(l) => Good(resetPhase(l, ph))
<1>1. freshPhase \in PhaseProgress /\ freshPhase.completed <= freshPhase.total
  BY DEF freshPhase, PhaseProgress, PhaseStatus, NoTime
<1>2. Good(emptyProgress)
  BY <1>1 DEF emptyProgress, Good, Ledger, CountsWithin
<1>3. ASSUME NEW l, NEW ph, Good(l) PROVE Good(resetPhase(l, ph))
  <2>1. CASE ph \in PhaseName
    BY <1>1, <1>3, <2>1, ReplaceEntry DEF resetPhase
  <2>2. CASE ph \notin PhaseName
    BY <1>3, <2>2 DEF resetPhase, Good, Ledger, CountsWithin
  <2> QED BY <2>1, <2>2
<1> QED
  BY <1>2, <1>3

LEMMA RestartActions ==
    ASSUME IInv, ClearLedger \/ Load \/ Exit \/ Crash
    PROVE  Restarted
<1>1. Good(progressJson) /\ Good(current) /\ (writeChain = << >> => awaited = 0)
  BY DEF IInv, TypeOK, LedgersOK, Good
<1>2. CASE ClearLedger
  <2>1. Good(progressJson') /\ pc = "clear"
    BY <1>1, <1>2, EmptyIsGood DEF ClearLedger
  <2>2. CASE cmd.name = "run"
    BY <1>1, <1>2, <2>1, <2>2 DEF ClearLedger, Restarted, InHand, IInv, QueueEmptyBefore
  <2>3. CASE cmd.name # "run"
    BY <1>2, <2>1, <2>3 DEF ClearLedger, ProcessGone, Restarted, InHand
  <2> QED BY <2>2, <2>3
<1>3. CASE Load
  BY <1>1, <1>3 DEF Load, LoadInto, Restarted, InHand
<1>4. CASE Exit
  BY <1>1, <1>4 DEF Exit, ProcessGone, Restarted, InHand
<1>5. CASE Crash
  BY <1>1, <1>5 DEF Crash, ProcessGone, Restarted, InHand
<1> QED
  BY <1>2, <1>3, <1>4, <1>5

\* Recording an outcome, a start or a diagnosis.
LEMMA StatusActions ==
    ASSUME IInv, RecordBlocked \/ StartPhase \/ Settle
    PROVE  Committed
<1>1. Good(current) /\ now \in Nat
  BY DEF IInv, TypeOK, LedgersOK, WorkspaceOK, Good
<1>2. CASE RecordBlocked
  <2>1. PICK ph \in unrecorded : Commit(withPhaseStatus(current, ph, "blocked", now))
    BY <1>2 DEF RecordBlocked
  <2>2. ph \in Blockable /\ ph \in PhaseName /\ "blocked" \in PhaseStatus
    BY DEF IInv, TypeOK, ProcessOK, Blockable, PhaseName, PhaseStatus
  <2> DEFINE m == withPhaseStatus(current, ph, "blocked", now)
  <2>3. Good(m) /\ Lifecycle!Blocked(current, m, ph)
    BY <1>1, <2>2, StatusUpdate, BlockIsAStep
  <2>4. Commit(m)
    BY <2>1
  <2> HIDE DEF m
  <2>5. Lifecycle!LedgerStep(current, m)
    BY <2>2, <2>3 DEF Lifecycle!LedgerStep, Lifecycle!PhaseName, PhaseName
  <2>6. Commits(m)
    BY <2>3, <2>4, <2>5 DEF Commits, Commit
  <2> QED BY <1>2, <2>6 DEF RecordBlocked, Committed, Before, InHand
<1>3. CASE StartPhase
  <2>1. /\ pc = "select" /\ pc' = "flush" /\ todo # << >> /\ todo' = todo
        /\ progressJson' = progressJson
        /\ current' = withPhaseStatus(current, Phase, "running", now)
        /\ writeChain' = Append(writeChain, current') /\ awaited' = Len(writeChain')
    BY <1>3 DEF StartPhase
  <2>2. Phase \in PhaseName /\ "running" \in PhaseStatus
    BY <2>1 DEF IInv, TypeOK, ProcessOK, Phase, PhaseStatus
  <2> DEFINE m == withPhaseStatus(current, Phase, "running", now)
  <2>3. Good(m) /\ Lifecycle!Started(current, m, Phase) /\ m[Phase].status = "running"
    BY <1>1, <2>2, StatusUpdate, StartIsAStep
  <2>4. current' = m
    BY <2>1
  <2> HIDE DEF m
  <2>5. Lifecycle!LedgerStep(current, m)
    BY <2>2, <2>3 DEF Lifecycle!LedgerStep, Lifecycle!PhaseName, PhaseName
  <2>6. awaited' = Len(writeChain) + 1
    BY <2>1, <2>3, <2>4, AppendSnapshot DEF Good, IInv, TypeOK
  <2>7. Commits(m)
    BY <2>1, <2>3, <2>4, <2>5, <2>6 DEF Commits
  <2> QED BY <2>1, <2>3, <2>6, <2>7 DEF Committed, Before, InHand
<1>4. CASE Settle
  <2>1. pc = "settle" /\ pc' = "select" /\ Commit(Settled)
    BY <1>4 DEF Settle, SettleWith
  <2>2. Phase \in PhaseName /\ current[Phase].status = "running"
    BY <2>1, PhaseInHand DEF InHand
  <2>3. outcome \in {"completed", "blocked", "failed"} /\ outcome \in PhaseStatus
    BY DEF IInv, TypeOK, ProcessOK, PhaseStatus
  <2> DEFINE m == withPhaseStatus(current, Phase, outcome, now)
  <2>4. Good(m) /\ Lifecycle!Ended(current, m, Phase)
    BY <1>1, <2>2, <2>3, StatusUpdate, EndIsAStep
  <2>5. Commit(m)
    BY <2>1 DEF Settled
  <2> HIDE DEF m
  <2>6. Lifecycle!LedgerStep(current, m)
    BY <2>2, <2>4 DEF Lifecycle!LedgerStep, Lifecycle!PhaseName, PhaseName
  <2>7. Commits(m)
    BY <2>4, <2>5, <2>6 DEF Commits, Commit
  <2> QED BY <2>1, <2>7 DEF Committed, Before, InHand
<1> QED
  BY <1>2, <1>3, <1>4

\* What a step leaves of the ledger and of the position in the run.
LEMMA QuietActions ==
    ASSUME IInv,
           \/ StartCommand \/ ClearFile \/ EnterLoop \/ SkipPhase \/ FlushDone
           \/ AwaitLedger \/ EndRun \/ Tick \/ EditIntent \/ UNCHANGED vars
    PROVE  Quiet
<1> USE DEF Quiet, Before, InHand, ledgerVars
<1>1. CASE StartCommand BY <1>1 DEF StartCommand
<1>2. CASE ClearFile BY <1>2 DEF ClearFile
<1>3. CASE EnterLoop BY <1>3 DEF EnterLoop
<1>4. CASE SkipPhase BY <1>4 DEF SkipPhase
<1>5. CASE FlushDone BY <1>5 DEF FlushDone
<1>6. CASE AwaitLedger BY <1>6 DEF AwaitLedger
<1>7. CASE EndRun BY <1>7 DEF EndRun
<1>8. CASE Tick BY <1>8 DEF Tick
<1>9. CASE EditIntent BY <1>9 DEF EditIntent
<1>10. CASE UNCHANGED vars BY <1>10 DEF vars
<1> QED
  BY <1>1, <1>2, <1>3, <1>4, <1>5, <1>6, <1>7, <1>8, <1>9, <1>10

\* A body stays in hand: it awaits again, or its outcome waits to be settled.
LEMMA BodyStaysInHand ==
    ASSUME BodyStep
    PROVE  pc = "body" /\ pc' \in {"body", "settle"} /\ UNCHANGED todo
<1> USE DEF At, Continue, Return, AtPass
<1>1. CASE IntentEnter BY <1>1 DEF IntentEnter
<1>2. CASE IntentDraft BY <1>2 DEF IntentDraft
<1>3. CASE IntentSave BY <1>3 DEF IntentSave
<1>4. CASE IntentNodes BY <1>4 DEF IntentNodes
<1>5. CASE IntentAggregates BY <1>5 DEF IntentAggregates
<1>6. CASE StructureEnter BY <1>6 DEF StructureEnter
<1>7. CASE PassDone BY <1>7 DEF PassDone
<1>8. CASE \E u \in Unit : UnitDone(u) \/ UnitThrows(u)
  BY <1>8 DEF UnitDone, UnitThrows
<1>9. CASE BehaviorEnter BY <1>9 DEF BehaviorEnter
<1>10. CASE BehaviorCrawl BY <1>10 DEF BehaviorCrawl
<1>11. CASE ReconcileDerive BY <1>11 DEF ReconcileDerive
<1>12. CASE VerifyDerive BY <1>12 DEF VerifyDerive
<1>13. CASE \E ph \in {"reconcile", "verify"} : DeriveEnter(ph) \/ DeriveFinish(ph)
  BY <1>13 DEF DeriveEnter, DeriveFinish
<1>14. CASE BodyThrows BY <1>14 DEF BodyThrows
<1> QED
  BY <1>1, <1>2, <1>3, <1>4, <1>5, <1>6, <1>7, <1>8, <1>9, <1>10, <1>11, <1>12,
     <1>13, <1>14 DEF BodyStep

LEMMA StructureTotalIsNat == StructureTotal \in Nat
  BY UnitsAssumption, FS_CardinalityType DEF StructureTotal

\* Every commit of a body registers or completes tasks of its own phase.
LEMMA BodyLedger ==
    ASSUME BodyStep
    PROVE  \/ UNCHANGED ledgerVars
           \/ \E ph, n : /\ ph = Phase /\ n \in Nat
                         /\ \/ Commit(withTasksRegistered(current, ph, n))
                            \/ Commit(withTaskCompleted(current, ph, n))
<1> DEFINE Works(ph, n) == \/ Commit(withTasksRegistered(current, ph, n))
                           \/ Commit(withTaskCompleted(current, ph, n))
<1>1. CASE IntentEnter
  BY <1>1 DEF IntentEnter, At
<1>2. CASE IntentDraft
  BY <1>2 DEF IntentDraft, At
<1>3. CASE IntentNodes
  BY <1>3 DEF IntentNodes, At
<1>4. CASE IntentSave \/ IntentAggregates \/ PassDone \/ ReconcileDerive \/ VerifyDerive
           \/ BodyThrows
  BY <1>4 DEF IntentSave, IntentAggregates, PassDone, ReconcileDerive, VerifyDerive, BodyThrows
<1>5. CASE StructureEnter
  BY <1>5, StructureTotalIsNat DEF StructureEnter, At
<1>6. CASE \E u \in Unit : UnitDone(u) \/ UnitThrows(u)
  BY <1>6 DEF UnitDone, UnitThrows, At
<1>7. CASE BehaviorEnter
  BY <1>7, UnitsAssumption DEF BehaviorEnter, At
<1>8. CASE BehaviorCrawl
  BY <1>8, UnitsAssumption DEF BehaviorCrawl, At
<1>9. CASE \E ph \in {"reconcile", "verify"} : DeriveEnter(ph) \/ DeriveFinish(ph)
  BY <1>9 DEF DeriveEnter, DeriveFinish, At
<1> QED
  BY <1>1, <1>2, <1>3, <1>4, <1>5, <1>6, <1>7, <1>8, <1>9 DEF BodyStep

LEMMA Effects ==
    ASSUME IInv, [Next]_vars
    PROVE  \/ Quiet \/ Committed \/ WriteSnapshot
           \/ Restarted /\ (ClearLedger \/ Load \/ Exit \/ Crash)
<1>1. CASE BodyStep
  <2>1. pc = "body" /\ pc' \in {"body", "settle"} /\ UNCHANGED todo
    BY <1>1, BodyStaysInHand
  <2>2. CASE UNCHANGED ledgerVars
    BY <2>1, <2>2 DEF Quiet, Before, InHand, ledgerVars
  <2>3. CASE \E ph, n : /\ ph = Phase /\ n \in Nat
                        /\ \/ Commit(withTasksRegistered(current, ph, n))
                           \/ Commit(withTaskCompleted(current, ph, n))
    BY <2>1, <2>3, RegistersOrCompletes
  <2> QED BY <1>1, <2>2, <2>3, BodyLedger
<1>2. CASE \E u \in Unit : LateUnit(u)
  BY <1>2, LateCommits
<1> QED
  BY <1>1, <1>2, QuietActions, StatusActions, RestartActions DEF Next, RunStep

-----------------------------------------------------------------------------
(* The position in the run. *)

LEMMA ListTypes ==
    ASSUME NEW only \in Blockable \cup {"all"}
    PROVE  phaseOrder(only) \in Seq(PhaseName) /\ clearList(only) \in Seq(Artifact)
<1>1. phaseOrder(only) \in Seq(PhaseName)
  <2>1. <<"intent", "structure", "behavior", "reconcile", "verify">> \in Seq(PhaseName)
    BY DEF PhaseName
  <2>2. only # "all" => <<only, "reconcile", "verify">> \in Seq(PhaseName)
    BY DEF PhaseName, Blockable
  <2> QED BY <2>1, <2>2 DEF phaseOrder
<1>2. clearList(only) \in Seq(Artifact)
  <2>1. /\ <<"intent", "aggregates">> \in Seq(Artifact)
        /\ <<"structure">> \in Seq(Artifact)
        /\ <<"behavior">> \in Seq(Artifact)
    BY DEF Artifact
  <2>2. <<"intent", "aggregates", "structure", "behavior", "unified", "findings">>
          \in Seq(Artifact)
    BY DEF Artifact
  <2> QED BY <2>1, <2>2 DEF clearList
<1> QED
  BY <1>1, <1>2

LEMMA ProcessStep ==
    ASSUME IInv, [Next]_vars
    PROVE  ProcessOK'
<1>0. ProcessOK
  BY DEF IInv, TypeOK
<1> USE <1>0 DEF ProcessOK, ProcessState, runVars
<1>1. CASE StartCommand
  <2>1. PICK name \in Commands, only \in OnlyArgs, force \in ForceArgs :
          /\ cmd' = [name |-> name, only |-> only]
          /\ IF name = "clear" \/ force
               THEN pc' = "clear" /\ toClear' = clearList(only)
               ELSE pc' = "load" /\ toClear' = << >>
    BY <1>1 DEF StartCommand
  <2>2. only \in Blockable \cup {"all"} /\ name \in {"run", "clear"}
    BY CommandAssumption
  <2>3. toClear' \in Seq(Artifact) /\ pc' \in {"clear", "load"}
    <3>1. clearList(only) \in Seq(Artifact) /\ << >> \in Seq(Artifact)
      BY <2>2, ListTypes
    <3>2. CASE name = "clear" \/ force BY <2>1, <3>1, <3>2
    <3>3. CASE ~(name = "clear" \/ force) BY <2>1, <3>1, <3>3
    <3> QED BY <3>2, <3>3
  <2>4. cmd' \in [name : {"run", "clear"}, only : Blockable \cup {"all"}]
    BY <2>1, <2>2
  <2> QED BY <1>1, <2>3, <2>4 DEF StartCommand
<1>2. CASE ClearFile
  BY <1>2 DEF ClearFile
<1>3. CASE Exit \/ Crash \/ ClearLedger
  <2>1. noCommand \in [name : {"run", "clear"}, only : Blockable \cup {"all"}]
    BY DEF noCommand
  <2>2. << >> \in Seq(Artifact) /\ << >> \in Seq(PhaseName)
    OBVIOUS
  <2>3. ProcessGone => ProcessOK'
    BY <2>1, <2>2 DEF ProcessGone, BodyState
  <2>4. CASE ProcessGone BY <2>3, <2>4
  <2>5. CASE ClearLedger /\ ~ProcessGone BY <2>5 DEF ClearLedger
  <2> QED BY <1>3, <2>4, <2>5 DEF Exit, Crash
<1>4. CASE Load
  BY <1>4, CommandAssumption DEF Load, LoadInto
<1>5. CASE RecordBlocked
  BY <1>5 DEF RecordBlocked
<1>6. CASE EnterLoop
  BY <1>6, ListTypes DEF EnterLoop
<1>7. CASE SkipPhase
  BY <1>7 DEF SkipPhase
<1>8. CASE StartPhase
  <2>1. Phase \in PhaseName
    BY <1>8 DEF StartPhase, Phase
  <2> QED BY <1>8, <2>1 DEF StartPhase
<1>9. CASE FlushDone
  BY <1>9 DEF FlushDone, BodyState
<1>10. CASE WriteSnapshot
  BY <1>10 DEF WriteSnapshot
<1>11. CASE Settle
  BY <1>11 DEF Settle, SettleWith
<1>12. CASE AwaitLedger \/ EndRun
  BY <1>12 DEF AwaitLedger, EndRun
<1>13. CASE BodyStep
  <2>1. UNCHANGED <<todo, runVars>> /\ body' \in BodyState
        /\ outcome' \in {"completed", "blocked", "failed"}
    <3> USE DEF At, Continue, Return, AtPass, BodyState
    <3>1. CASE IntentEnter BY <3>1 DEF IntentEnter
    <3>2. CASE IntentDraft BY <3>2 DEF IntentDraft
    <3>3. CASE IntentSave BY <3>3 DEF IntentSave
    <3>4. CASE IntentNodes BY <3>4 DEF IntentNodes
    <3>5. CASE IntentAggregates BY <3>5 DEF IntentAggregates
    <3>6. CASE StructureEnter BY <3>6 DEF StructureEnter
    <3>7. CASE PassDone BY <3>7 DEF PassDone
    <3>8. CASE \E u \in Unit : UnitDone(u) \/ UnitThrows(u)
      BY <3>8 DEF UnitDone, UnitThrows
    <3>9. CASE BehaviorEnter BY <3>9 DEF BehaviorEnter
    <3>10. CASE BehaviorCrawl BY <3>10 DEF BehaviorCrawl
    <3>11. CASE ReconcileDerive BY <3>11 DEF ReconcileDerive
    <3>12. CASE VerifyDerive BY <3>12 DEF VerifyDerive
    <3>13. CASE \E ph \in {"reconcile", "verify"} : DeriveEnter(ph) \/ DeriveFinish(ph)
      BY <3>13 DEF DeriveEnter, DeriveFinish
    <3>14. CASE BodyThrows BY <3>14 DEF BodyThrows
    <3> QED
      BY <1>13, <3>1, <3>2, <3>3, <3>4, <3>5, <3>6, <3>7, <3>8, <3>9, <3>10, <3>11,
         <3>12, <3>13, <3>14 DEF BodyStep
  <2> QED BY <1>13, <2>1, BodyStaysInHand
<1>14. CASE (\E u \in Unit : LateUnit(u)) \/ Tick \/ EditIntent
  BY <1>14 DEF LateUnit, Tick, EditIntent
<1>15. CASE UNCHANGED vars
  BY <1>15 DEF vars
<1> QED
  BY <1>1, <1>2, <1>3, <1>4, <1>5, <1>6, <1>7, <1>8, <1>9, <1>10, <1>11, <1>12,
     <1>13, <1>14, <1>15 DEF Next, RunStep

LEMMA WorkspaceStep ==
    ASSUME IInv, [Next]_vars
    PROVE  WorkspaceOK'
<1>0. WorkspaceOK /\ toClear \in Seq(Artifact)
  BY DEF IInv, TypeOK, ProcessOK
<1> USE <1>0 DEF WorkspaceOK, unitVars, fileVars, worldVars
<1>1. CASE StartCommand \/ Tick
  BY <1>1 DEF StartCommand, Tick
<1>2. CASE ClearFile
  <2>1. Head(toClear) \in Artifact
    BY <1>2 DEF ClearFile
  <2> QED BY <1>2, <2>1 DEF ClearFile
<1>3. CASE Exit \/ Crash \/ ClearLedger
  BY <1>3 DEF Exit, Crash, ClearLedger, ProcessGone
<1>4. CASE Load \/ RecordBlocked \/ EnterLoop \/ SkipPhase \/ StartPhase \/ FlushDone
  BY <1>4 DEF Load, LoadInto, RecordBlocked, EnterLoop, SkipPhase, StartPhase, FlushDone
<1>5. CASE WriteSnapshot \/ Settle \/ AwaitLedger \/ EndRun
  BY <1>5 DEF WriteSnapshot, Settle, SettleWith, AwaitLedger, EndRun
<1>6. CASE EditIntent
  BY <1>6, CommandAssumption DEF EditIntent
<1>7. CASE \E u \in Unit : LateUnit(u)
  BY <1>7 DEF LateUnit
<1>8. CASE BodyStep
  <2> USE DEF At, Continue, Return, AtPass, Fault, Write, Artifact, UnitsOf
  <2>1. CASE IntentEnter BY <2>1 DEF IntentEnter
  <2>2. CASE IntentDraft BY <2>2 DEF IntentDraft
  <2>3. CASE IntentSave BY <2>3 DEF IntentSave
  <2>4. CASE IntentNodes BY <2>4 DEF IntentNodes
  <2>5. CASE IntentAggregates BY <2>5 DEF IntentAggregates
  <2>6. CASE StructureEnter BY <2>6 DEF StructureEnter
  <2>7. CASE PassDone BY <2>7 DEF PassDone
  <2>8. CASE \E u \in Unit : UnitDone(u) \/ UnitThrows(u)
    <3>1. CASE \E u \in Unit : UnitDone(u) BY <3>1 DEF UnitDone
    <3>2. CASE \E u \in Unit : UnitThrows(u) BY <3>2 DEF UnitThrows
    <3> QED BY <2>8, <3>1, <3>2
  <2>9. CASE BehaviorEnter BY <2>9 DEF BehaviorEnter
  <2>10. CASE BehaviorCrawl
    <3>1. faults' \in Nat /\ UNCHANGED <<unitVars, intentJson, worldVars>>
      BY <2>10 DEF BehaviorCrawl
    <3>2. Write("behavior", {}) \/ UNCHANGED <<files, stale, orphaned>>
      BY <2>10, Zenon DEF BehaviorCrawl
    <3> QED BY <3>1, <3>2
  <2>11. CASE ReconcileDerive BY <2>11 DEF ReconcileDerive
  <2>12. CASE VerifyDerive BY <2>12 DEF VerifyDerive
  <2>13. CASE \E ph \in {"reconcile", "verify"} : DeriveEnter(ph) \/ DeriveFinish(ph)
    BY <2>13 DEF DeriveEnter, DeriveFinish
  <2>14. CASE BodyThrows BY <2>14 DEF BodyThrows
  <2> QED
    BY <1>8, <2>1, <2>2, <2>3, <2>4, <2>5, <2>6, <2>7, <2>8, <2>9, <2>10, <2>11,
       <2>12, <2>13, <2>14 DEF BodyStep
<1>9. CASE UNCHANGED vars
  BY <1>9 DEF vars
<1> QED
  BY <1>1, <1>2, <1>3, <1>4, <1>5, <1>6, <1>7, <1>8, <1>9 DEF Next, RunStep

LEMMA AwaitsStep ==
    ASSUME IInv, [Next]_vars
    PROVE  BodyAwaitsNothing'
<1>1. awaited \in Nat /\ BodyAwaitsNothing
  BY DEF IInv, TypeOK, LedgersOK
<1>2. CASE BodyStep
  <2>1. pc = "body"
    BY <1>2, BodyStaysInHand
  <2>2. awaited' = awaited
    BY <1>2, BodyLedger DEF ledgerVars, Commit
  <2> QED BY <2>1, <2>2, <1>1 DEF BodyAwaitsNothing
<1>3. CASE WriteSnapshot
  BY <1>1, <1>3 DEF WriteSnapshot, BodyAwaitsNothing
<1>4. CASE \E u \in Unit : LateUnit(u)
  BY <1>1, <1>4 DEF LateUnit, Commit, ledgerVars, BodyAwaitsNothing
<1>5. CASE FlushDone
  BY <1>5 DEF FlushDone, ledgerVars, BodyAwaitsNothing
<1>6. CASE Tick
  BY <1>1, <1>6 DEF Tick, ledgerVars, BodyAwaitsNothing
<1>7. CASE \/ StartCommand \/ ClearFile \/ ClearLedger \/ Load \/ RecordBlocked \/ EnterLoop
           \/ SkipPhase \/ StartPhase \/ Settle \/ AwaitLedger \/ EndRun \/ Exit
           \/ Crash \/ EditIntent
  <2>1. pc' \notin {"body", "settle"}
    BY <1>7 DEF StartCommand, ClearFile, ClearLedger, Load, LoadInto, RecordBlocked,
       EnterLoop, SkipPhase, StartPhase, Settle, SettleWith, AwaitLedger, EndRun, Exit,
       Crash, EditIntent, ProcessGone
  <2> QED BY <2>1 DEF BodyAwaitsNothing
<1>8. CASE UNCHANGED vars
  BY <1>1, <1>8 DEF vars, ledgerVars, BodyAwaitsNothing
<1> QED
  BY <1>2, <1>3, <1>4, <1>5, <1>6, <1>7, <1>8 DEF Next, RunStep

LEMMA TailOfTodo ==
    ASSUME todo \in Seq(PhaseName), todo # << >>
    PROVE  /\ Len(todo) \in Nat \ {0} /\ DOMAIN todo = 1..Len(todo)
           /\ Phase = todo[1]
           /\ DOMAIN Tail(todo) = 1..(Len(todo) - 1)
           /\ \A i \in 1..(Len(todo) - 1) : Tail(todo)[i] = todo[i + 1]
  BY DEF Phase

LEMMA OrderStep ==
    ASSUME IInv, [Next]_vars
    PROVE  TodoInOrder'
<1>1. todo \in Seq(PhaseName) /\ cmd.only \in Blockable \cup {"all"} /\ TodoInOrder
  BY DEF IInv, TypeOK, ProcessOK
<1>2. CASE todo' = todo
  BY <1>1, <1>2 DEF TodoInOrder
<1>3. CASE todo' = << >>
  BY <1>3 DEF TodoInOrder
<1>4. CASE todo # << >> /\ todo' = Tail(todo)
  <2> SUFFICES ASSUME NEW i \in 1..(Len(todo) - 1), NEW j \in 1..(Len(todo) - 1),
                      i < j, todo[i + 1] = "structure"
               PROVE  DependsOnStructure(todo[j + 1])
    BY <1>1, <1>4, TailOfTodo DEF TodoInOrder
  <2>1. i + 1 \in DOMAIN todo /\ j + 1 \in DOMAIN todo /\ i + 1 < j + 1
    BY <1>1, <1>4, TailOfTodo
  <2> QED BY <2>1, <1>1 DEF TodoInOrder
<1>5. CASE todo' = phaseOrder(cmd.only)
  <2> SUFFICES ASSUME NEW i \in DOMAIN phaseOrder(cmd.only),
                      NEW j \in DOMAIN phaseOrder(cmd.only),
                      i < j, phaseOrder(cmd.only)[i] = "structure"
               PROVE  DependsOnStructure(phaseOrder(cmd.only)[j])
    BY <1>5 DEF TodoInOrder
  <2>1. CASE cmd.only = "all"
    BY <2>1 DEF phaseOrder, DependsOnStructure
  <2>2. CASE cmd.only # "all"
    BY <2>2 DEF phaseOrder, DependsOnStructure
  <2> QED BY <2>1, <2>2
<1>6. \/ todo' = todo \/ todo' = << >> \/ todo' = phaseOrder(cmd.only)
      \/ todo # << >> /\ todo' = Tail(todo)
  <2>1. CASE BodyStep
    BY <2>1, BodyStaysInHand
  <2>2. CASE SkipPhase \/ Settle
    <3>1. pc = "settle" => todo # << >>
      BY DEF IInv, TypeOK, ProcessOK
    <3> QED BY <2>2, <3>1 DEF SkipPhase, Settle, SettleWith
  <2>3. CASE Exit \/ Crash \/ ClearLedger
    BY <2>3 DEF Exit, Crash, ClearLedger, ProcessGone
  <2>4. CASE \/ StartCommand \/ ClearFile \/ Load \/ RecordBlocked \/ EnterLoop
             \/ StartPhase \/ FlushDone \/ AwaitLedger \/ EndRun \/ WriteSnapshot
             \/ Tick \/ EditIntent \/ (\E u \in Unit : LateUnit(u))
    BY <2>4 DEF StartCommand, ClearFile, Load, LoadInto, RecordBlocked, EnterLoop,
       StartPhase, FlushDone, AwaitLedger, EndRun, WriteSnapshot, Tick, EditIntent, LateUnit
  <2>5. CASE UNCHANGED vars
    BY <2>5 DEF vars
  <2> QED BY <2>1, <2>2, <2>3, <2>4, <2>5 DEF Next, RunStep
<1> QED
  BY <1>2, <1>3, <1>4, <1>5, <1>6

LEMMA LateStep ==
    ASSUME IInv, [Next]_vars
    PROVE  LateBehindFailure'
<1>1. /\ LateBehindFailure /\ todo \in Seq(PhaseName) /\ TodoInOrder
      /\ pc = "settle" => todo # << >>
      /\ Good(current) /\ now \in Nat
  BY DEF IInv, TypeOK, ProcessOK, LedgersOK, WorkspaceOK, Good
<1>2. CASE late = {}
  <2>1. CASE \E u \in Unit : UnitThrows(u)
    <3>1. pc' = "settle" /\ Phase = "structure" /\ outcome' = "failed" /\ todo' = todo
      BY <2>1 DEF UnitThrows, At, Return
    <3> QED BY <3>1 DEF LateBehindFailure, Phase
  <2>2. CASE ~(\E u \in Unit : UnitThrows(u))
    <3>1. late' = {}
      <4>1. CASE BodyStep
        <5> USE DEF unitVars
        <5>1. CASE IntentEnter \/ IntentDraft \/ IntentSave \/ IntentNodes \/ IntentAggregates
          BY <5>1, <1>2 DEF IntentEnter, IntentDraft, IntentSave, IntentNodes, IntentAggregates
        <5>2. CASE StructureEnter \/ PassDone \/ BehaviorEnter \/ BehaviorCrawl
          BY <5>2, <1>2 DEF StructureEnter, PassDone, BehaviorEnter, BehaviorCrawl
        <5>3. CASE \E u \in Unit : UnitDone(u)
          BY <5>3, <1>2 DEF UnitDone
        <5>4. CASE ReconcileDerive \/ VerifyDerive \/ BodyThrows
          BY <5>4, <1>2 DEF ReconcileDerive, VerifyDerive, BodyThrows
        <5>5. CASE \E ph \in {"reconcile", "verify"} : DeriveEnter(ph) \/ DeriveFinish(ph)
          BY <5>5, <1>2 DEF DeriveEnter, DeriveFinish
        <5> QED BY <4>1, <2>2, <5>1, <5>2, <5>3, <5>4, <5>5 DEF BodyStep
      <4>2. CASE Exit \/ Crash \/ ClearLedger
        BY <4>2, <1>2 DEF Exit, Crash, ClearLedger, ProcessGone, unitVars
      <4>3. CASE \/ StartCommand \/ ClearFile \/ Load \/ RecordBlocked \/ EnterLoop
                 \/ StartPhase \/ FlushDone \/ AwaitLedger \/ EndRun \/ WriteSnapshot
                 \/ Tick \/ EditIntent \/ (\E u \in Unit : LateUnit(u))
                 \/ SkipPhase \/ Settle
        BY <4>3, <1>2 DEF StartCommand, ClearFile, Load, LoadInto, RecordBlocked,
           EnterLoop, StartPhase, FlushDone, AwaitLedger, EndRun, WriteSnapshot, Tick,
           EditIntent, LateUnit, SkipPhase, Settle, SettleWith, unitVars
      <4>4. CASE UNCHANGED vars
        BY <4>4, <1>2 DEF vars, unitVars
      <4> QED BY <4>1, <4>2, <4>3, <4>4 DEF Next, RunStep
    <3> QED BY <3>1 DEF LateBehindFailure
  <2> QED BY <2>1, <2>2
<1>3. CASE late # {}
  <2> DEFINE Shut == /\ structureFailed /\ current["structure"].status = "failed"
                     /\ \A i \in DOMAIN todo : DependsOnStructure(todo[i])
  <2>1. \/ pc = "settle" /\ Phase = "structure" /\ outcome = "failed"
        \/ pc \in {"select", "drain", "ended"} /\ Shut
    BY <1>1, <1>3 DEF LateBehindFailure
  <2>2. CASE Settle
    <3>1. /\ pc = "settle" /\ Phase = "structure" /\ outcome = "failed"
          /\ current' = withPhaseStatus(current, "structure", "failed", now)
          /\ structureFailed' /\ todo' = Tail(todo) /\ pc' = "select"
      BY <2>1, <2>2 DEF Settle, SettleWith, Settled, StructureBroke, Commit
    <3>2. current'["structure"].status = "failed"
      <4>1. "structure" \in PhaseName /\ "failed" \in PhaseStatus
        BY DEF PhaseName, PhaseStatus
      <4>2. withPhaseStatus(current, "structure", "failed", now)["structure"].status = "failed"
        BY <1>1, <4>1, StatusUpdate
      <4> QED BY <3>1, <4>2
    <3>3. \A i \in DOMAIN todo' : DependsOnStructure(todo'[i])
      <4> SUFFICES ASSUME NEW i \in 1..(Len(todo) - 1) PROVE DependsOnStructure(todo[i + 1])
        BY <1>1, <3>1, TailOfTodo
      <4>1. 1 \in DOMAIN todo /\ i + 1 \in DOMAIN todo /\ 1 < i + 1 /\ todo[1] = "structure"
        BY <1>1, <3>1, TailOfTodo
      <4> QED BY <4>1, <1>1 DEF TodoInOrder
    <3> QED BY <3>1, <3>2, <3>3 DEF LateBehindFailure
  <2>3. CASE SkipPhase
    <3>1. Shut /\ todo # << >> /\ pc' = "select" /\ todo' = Tail(todo)
          /\ UNCHANGED <<structureFailed, current>>
      BY <2>1, <2>3 DEF SkipPhase, ledgerVars, runVars
    <3>2. \A i \in DOMAIN todo' : DependsOnStructure(todo'[i])
      <4> SUFFICES ASSUME NEW i \in 1..(Len(todo) - 1) PROVE DependsOnStructure(todo[i + 1])
        BY <1>1, <3>1, TailOfTodo
      <4>1. i + 1 \in DOMAIN todo
        BY <1>1, <3>1, TailOfTodo
      <4> QED BY <4>1, <3>1
    <3> QED BY <3>1, <3>2 DEF LateBehindFailure
  <2>4. CASE StartPhase
    <3>1. Shut /\ todo # << >> /\ ~Skips
      BY <2>1, <2>4 DEF StartPhase
    <3>2. DependsOnStructure(Phase)
      BY <1>1, <3>1, TailOfTodo
    <3> QED BY <3>1, <3>2 DEF Skips, SkippedAfterFailure
  <2>5. CASE \E u \in Unit : LateUnit(u)
    <3>1. UNCHANGED <<pc, todo, outcome, structureFailed>>
      BY <2>5 DEF LateUnit, runVars
    <3>2. current'["structure"].status = current["structure"].status
      <4>1. "structure" \in PhaseName
        BY DEF PhaseName
      <4>2. withTaskCompleted(current, "structure", 1)["structure"].status
              = current["structure"].status
        BY <1>1, <4>1, CompleteUpdate
      <4> QED BY <2>5, <4>2 DEF LateUnit, Commit, ledgerVars
    <3> QED BY <2>1, <3>1, <3>2 DEF LateBehindFailure, Phase
  <2>6. CASE WriteSnapshot \/ AwaitLedger \/ EndRun \/ Tick \/ UNCHANGED vars
    <3>1. UNCHANGED <<todo, outcome, structureFailed, current>>
      BY <2>6 DEF WriteSnapshot, AwaitLedger, EndRun, Tick, runVars, ledgerVars, vars
    <3>2. pc' = pc \/ (pc \in {"select", "drain", "ended"} /\ pc' \in {"select", "drain", "ended"})
      BY <2>6 DEF WriteSnapshot, AwaitLedger, EndRun, Tick, vars
    <3> QED BY <2>1, <3>1, <3>2 DEF LateBehindFailure, Phase
  <2>7. CASE Exit \/ Crash \/ ClearLedger
    <3>1. pc # "clear"
      BY <2>1
    <3> QED BY <2>7, <3>1 DEF Exit, Crash, ClearLedger, ProcessGone, LateBehindFailure
  <2>8. ~ (\/ StartCommand \/ ClearFile \/ Load \/ RecordBlocked \/ EnterLoop \/ FlushDone
           \/ BodyStep \/ EditIntent)
    <3>1. pc \notin {"idle", "clear", "load", "doctor", "flush", "body"}
      BY <2>1
    <3> QED BY <3>1, BodyStaysInHand DEF StartCommand, ClearFile, Load, LoadInto,
            RecordBlocked, EnterLoop, FlushDone, EditIntent
  <2> QED BY <2>2, <2>3, <2>4, <2>5, <2>6, <2>7, <2>8 DEF Next, RunStep
<1> QED
  BY <1>2, <1>3

-----------------------------------------------------------------------------
(* The invariant, and what follows from it. *)

LEMMA InitIInv == Init => IInv
<1> SUFFICES ASSUME Init PROVE IInv
  OBVIOUS
<1>1. LedgersOK
  BY EmptyIsGood DEF Init, LedgersOK, Good
<1>2. ProcessOK
  <2>1. noCommand \in [name : {"run", "clear"}, only : Blockable \cup {"all"}]
    BY DEF noCommand
  <2>2. << >> \in Seq(Artifact) /\ << >> \in Seq(PhaseName)
    OBVIOUS
  <2> QED BY <2>1, <2>2 DEF Init, ProcessOK, ProcessState, BodyState
<1>3. WorkspaceOK
  BY CommandAssumption DEF Init, WorkspaceOK
<1>4. LedgerOnDiskCatchesUp /\ QueueEmptyBefore
  BY DEF Init, LedgerOnDiskCatchesUp, QueueEmptyBefore, LastSnapshot
<1>5. RunningFromAwaited /\ BodyAwaitsNothing /\ TodoInOrder /\ LateBehindFailure
  BY DEF Init, RunningFromAwaited, BodyAwaitsNothing, TodoInOrder, LateBehindFailure
<1>6. QueueOfSteps
  BY DEF Init, QueueOfSteps
<1> QED
  BY <1>1, <1>2, <1>3, <1>4, <1>5, <1>6 DEF IInv, TypeOK

LEMMA StepIInv == IInv /\ [Next]_vars => IInv'
<1> SUFFICES ASSUME IInv, [Next]_vars PROVE IInv'
  OBVIOUS
<1>1. LedgerInv' /\ RunningFromAwaited'
  BY Effects, QuietKeeps, CommittedKeeps, WriteKeeps, RestartKeeps
     DEF IInv, TypeOK, LedgerInv
<1>2. ProcessOK' /\ WorkspaceOK' /\ BodyAwaitsNothing'
  BY ProcessStep, WorkspaceStep, AwaitsStep
<1>3. TodoInOrder' /\ LateBehindFailure'
  BY OrderStep, LateStep
<1> QED
  BY <1>1, <1>2, <1>3 DEF IInv, TypeOK, LedgerInv

\* The invariant holds in every state a run can reach.
LEMMA RunInvariant == Spec => []IInv
  BY InitIInv, StepIInv, PTL DEF Spec

\* Every variable keeps its type, and no task counter of a ledger in memory, in
\* the queue or on disk passes its total.
THEOREM RunTypeOK == Spec => []TypeOK
<1>1. IInv => TypeOK
  BY DEF IInv
<1> QED
  BY <1>1, RunInvariant, PTL

\* No commit is lost or overtaken: the write queue always ends with what the
\* process has in memory.
THEOREM RunCatchesUp == Spec => []LedgerOnDiskCatchesUp
<1>1. IInv => LedgerOnDiskCatchesUp
  BY DEF IInv
<1> QED
  BY <1>1, RunInvariant, PTL

\* flush() keeps its contract: a body executes only under a durable "running".
THEOREM RunRunningIsDurable == Spec => []RunningIsDurable
<1>1. IInv => RunningIsDurable
  <2> SUFFICES ASSUME IInv, pc = "body" PROVE progressJson[Phase].status = "running"
    BY DEF RunningIsDurable
  <2>1. 0 \in awaited..Len(writeChain)
    BY LastIsLen DEF IInv, TypeOK, BodyAwaitsNothing
  <2>2. Snapshot(0)[Phase].status = "running"
    BY <2>1 DEF IInv, RunningFromAwaited
  <2> QED BY <2>2 DEF Snapshot
<1> QED
  BY <1>1, RunInvariant, PTL

\* What reaches progress.json is a step of the abstract ledger, or nothing.
LEMMA StepRefines == IInv /\ [Next]_vars => [Lifecycle!LifecycleNext]_progressJson
<1> SUFFICES ASSUME IInv, [Next]_vars, progressJson' # progressJson
             PROVE  Lifecycle!LifecycleNext
  OBVIOUS
<1>1. progressJson' \in Lifecycle!Ledger
  <2>1. LedgerInv'
    BY Effects, QuietKeeps, CommittedKeeps, WriteKeeps, RestartKeeps
       DEF IInv, TypeOK, LedgerInv
  <2>2. Lifecycle!Ledger = Ledger
    BY DEF Ledger, Lifecycle!Ledger, PhaseName, Lifecycle!PhaseName, PhaseProgress,
       Lifecycle!PhaseProgress, PhaseStatus, Lifecycle!PhaseStatus
  <2> QED BY <2>1, <2>2 DEF LedgerInv, LedgersOK
<1>2. WriteSnapshot \/ ClearLedger
  BY Effects DEF Quiet, Committed, Commits, Load, LoadInto, Exit, Crash
<1>3. CASE WriteSnapshot
  <2>1. Len(writeChain) \in Nat \ {0} /\ progressJson' = Snapshot(1)
    BY <1>3, LastIsLen, ShiftSnapshot DEF WriteSnapshot, IInv, TypeOK
  <2>2. Lifecycle!LedgerStep(Snapshot(0), Snapshot(1))
    BY <2>1 DEF IInv, QueueOfSteps
  <2> QED BY <1>1, <2>1, <2>2 DEF Lifecycle!LifecycleNext, Snapshot
<1>4. CASE ClearLedger
  <2>1. \/ progressJson' = emptyProgress
        \/ cmd.only \in Blockable /\ progressJson' = resetPhase(progressJson, cmd.only)
    BY <1>4 DEF ClearLedger, IInv, TypeOK, ProcessOK
  <2>2. Lifecycle!ClearStep(progressJson, progressJson')
    BY <2>1 DEF Lifecycle!ClearStep, Lifecycle!PhaseCleared, Lifecycle!emptyProgress,
       emptyProgress, Lifecycle!freshPhase, freshPhase, Lifecycle!PhaseName, PhaseName,
       Lifecycle!NoTime, NoTime, resetPhase
  <2> QED BY <1>1, <2>2 DEF Lifecycle!LifecycleNext
<1> QED
  BY <1>2, <1>3, <1>4

\* The orchestrator, with its queue, its crashes and its clears, implements the
\* abstract ledger its readers rely on.
THEOREM RunRefinesLifecycle == Spec => LedgerRefinesLifecycle
<1>1. Init => Lifecycle!LifecycleInit
  BY DEF Init, Lifecycle!LifecycleInit, Lifecycle!emptyProgress, emptyProgress,
     Lifecycle!freshPhase, freshPhase, Lifecycle!PhaseName, PhaseName,
     Lifecycle!NoTime, NoTime
<1> QED
  BY <1>1, RunInvariant, StepRefines, PTL DEF Spec, LedgerRefinesLifecycle, Lifecycle!LifecycleSpec

-----------------------------------------------------------------------------
(***************************************************************************)
(* What a run leaves behind: the ledger calls completed only what is there *)
(* and counted, what was derived is derived from the latest layers, and    *)
(* every phase asked for has an outcome.                                   *)
(***************************************************************************)

-----------------------------------------------------------------------------
(* Completed means present and counted. *)

\* What is there, or was there until a clear that has not reached the ledger.
Present == files \cup orphaned

Backed(l, artifacts) ==
    \A ph \in PhaseName : l[ph].status = "completed" =>
        /\ ArtifactsOf(ph) \subseteq artifacts
        /\ ph # "behavior" => l[ph].completed = l[ph].total

\* The file and everything queued for it.
SnapshotsBacked == \A i \in 0..Len(writeChain) : Backed(Snapshot(i), Present)

\* The unit reports the structure engine still has to make.
RemainingAt(r, p, units) ==
    {task \in Unit \X (1..PassCount) :
        \/ RepoOf[task[1]] > r
        \/ RepoOf[task[1]] = r /\ task[2] > p
        \/ RepoOf[task[1]] = r /\ task[2] = p /\ task[1] \in units}
Remaining == RemainingAt(repo, pass, pending)

\* At most n tasks of the phase in hand are still to be counted.
Owes(n) == current[Phase].total <= current[Phase].completed + n

IntentWorks ==
    /\ At("intent", "draft") => Owes(2)
    /\ At("intent", "save") \/ At("intent", "nodes") => Owes(1)
    /\ At("intent", "aggregates") => Owes(0) /\ "intent" \in Present

StructureWorks ==
    At("structure", "units") =>
        /\ pass \in 1..PassCount /\ repo \in 1..Repos
        /\ pending \subseteq UnitsOf(repo)
        /\ Owes(Cardinality(Remaining))

DeriveWorks ==
    \A ph \in {"reconcile", "verify"} :
        /\ At(ph, "derive") => Owes(1)
        /\ At(ph, "finish") => Owes(1) /\ ArtifactsOf(ph) \subseteq Present

\* What waits to be settled as completed is.
ReturnBacked ==
    pc = "settle" /\ outcome = "completed" =>
        /\ ArtifactsOf(Phase) \subseteq Present
        /\ Phase # "behavior" => Owes(0)

BackedInv ==
    SnapshotsBacked /\ IntentWorks /\ StructureWorks /\ DeriveWorks /\ ReturnBacked

-----------------------------------------------------------------------------
(* The position of a phase in the order, and what lies behind it. *)

Rank(ph) ==
    CASE ph = "intent" -> 1
      [] ph = "structure" -> 2
      [] ph = "behavior" -> 3
      [] ph = "reconcile" -> 4
      [] ph = "verify" -> 5

LoopState == {"select", "flush", "body", "settle", "drain", "ended"}

Asked == {phaseOrder(cmd.only)[i] : i \in 1..Len(phaseOrder(cmd.only))}
Left  == {todo[i] : i \in DOMAIN todo}

TodoAscends ==
    \A i, j \in DOMAIN todo : i < j => Rank(todo[i]) < Rank(todo[j])

\* What ran comes before what is left, unless it is the phase in hand.
RanIsBehind ==
    \A ph \in ran, i \in DOMAIN todo :
        \/ Rank(ph) < Rank(todo[i])
        \/ pc \in InHand /\ ph = Phase /\ i = 1

RanInLoop ==
    /\ pc \notin LoopState => ran = {} /\ structureFailed = FALSE
    /\ pc \in InHand => Phase \in ran /\ ~SkippedAfterFailure
    /\ pc \in {"drain", "ended"} => todo = << >>

\* structureFailed is what the ledger says of a structure phase of this run.
FailureKnown ==
    pc \in LoopState =>
        IF pc \in InHand /\ Phase = "structure"
        THEN ~structureFailed
        ELSE structureFailed
               <=> "structure" \in ran /\ current["structure"].status = "failed"

\* A diagnosis of the preflight stays in the ledger.
BlockedStays ==
    pc \in LoopState \cup {"doctor"} =>
        /\ \A ph \in blocked \ unrecorded : current[ph].status = "blocked" /\ ph \notin ran
        /\ pc \in LoopState => unrecorded = {}

\* The phases that are no longer left have their outcome, or were shut out.
HandledSettled ==
    pc \in LoopState =>
        \A ph \in Asked \ Left :
            IF structureFailed /\ DependsOnStructure(ph)
            THEN ph \notin ran
            ELSE current[ph].status \in {"completed", "failed", "blocked"}

\* Whether what a phase derived is still up to date.
UpToDate(ph) == IF ph = "reconcile" THEN stale \cap Layers = {} ELSE "unified" \notin stale

DerivedStays ==
    \A ph \in {"reconcile", "verify"} :
        \/ pc \in LoopState /\ ph \in ran /\ current[ph].status = "completed"
        \/ At(ph, "finish")
        \/ pc = "settle" /\ Phase = ph /\ outcome = "completed"
        => UpToDate(ph)

OrderInv ==
    /\ TodoAscends /\ RanIsBehind /\ RanInLoop
    /\ FailureKnown /\ BlockedStays /\ HandledSettled /\ DerivedStays

-----------------------------------------------------------------------------
(* What the steps do to memory and to the queue. *)

LEMMA CommitAppends ==
    ASSUME NEW m, Commit(m)
    PROVE  /\ current' = m /\ writeChain' = Append(writeChain, m)
           /\ UNCHANGED <<progressJson, awaited>>
  BY DEF Commit

\* A body moves no phase to another status: it counts tasks of its own.
LEMMA BodyCounts ==
    ASSUME IInv, BodyStep
    PROVE  \/ UNCHANGED ledgerVars
           \/ /\ Commit(current')
              /\ Good(current')
              /\ Lifecycle!OnlyEntry(current, current', Phase)
              /\ current'[Phase].status = "running"
<1>1. pc = "body"
  BY BodyStaysInHand
<1>2. Phase \in PhaseName /\ Good(current) /\ current[Phase].status = "running"
  BY <1>1, PhaseInHand DEF InHand
<1>3. CASE UNCHANGED ledgerVars
  BY <1>3
<1>4. ASSUME NEW n \in Nat, Commit(withTasksRegistered(current, Phase, n))
      PROVE  /\ Commit(current') /\ Good(current')
             /\ Lifecycle!OnlyEntry(current, current', Phase)
             /\ current'[Phase].status = "running"
  <2> DEFINE m == withTasksRegistered(current, Phase, n)
  <2>1. Good(m) /\ Lifecycle!OnlyEntry(current, m, Phase) /\ m[Phase].status = "running"
    BY <1>2, RegisterUpdate
  <2>2. Commit(m)
    BY <1>4
  <2> HIDE DEF m
  <2> QED BY <2>1, <2>2 DEF Commit
<1>5. ASSUME NEW n \in Nat, Commit(withTaskCompleted(current, Phase, n))
      PROVE  /\ Commit(current') /\ Good(current')
             /\ Lifecycle!OnlyEntry(current, current', Phase)
             /\ current'[Phase].status = "running"
  <2> DEFINE m == withTaskCompleted(current, Phase, n)
  <2>1. Good(m) /\ Lifecycle!OnlyEntry(current, m, Phase) /\ m[Phase].status = "running"
    BY <1>2, CompleteUpdate
  <2>2. Commit(m)
    BY <1>5
  <2> HIDE DEF m
  <2> QED BY <2>1, <2>2 DEF Commit
<1> QED
  BY <1>3, <1>4, <1>5, BodyLedger

\* Nor does a unit that outlived its pass: structure has failed, or is about to.
LEMMA LateCounts ==
    ASSUME IInv, NEW u \in Unit, LateUnit(u)
    PROVE  \/ UNCHANGED ledgerVars
           \/ /\ Commit(current')
              /\ Good(current')
              /\ Lifecycle!OnlyEntry(current, current', "structure")
              /\ current'["structure"].status = current["structure"].status
              /\ current["structure"].status \in {"running", "failed"}
<1>1. late # {}
  BY DEF LateUnit
<1>2. current["structure"].status \in {"running", "failed"}
  <2>1. CASE pc = "settle" /\ Phase = "structure"
    BY <2>1, PhaseInHand DEF InHand
  <2>2. CASE current["structure"].status = "failed"
    BY <2>2
  <2> QED BY <1>1, <2>1, <2>2 DEF IInv, LateBehindFailure
<1>3. CASE Commit(withTaskCompleted(current, "structure", 1))
  <2> DEFINE m == withTaskCompleted(current, "structure", 1)
  <2>1. "structure" \in PhaseName /\ Good(current)
    BY DEF PhaseName, IInv, TypeOK, LedgersOK, Good
  <2>2. /\ Good(m) /\ Lifecycle!OnlyEntry(current, m, "structure")
        /\ m["structure"].status = current["structure"].status
    BY <2>1, CompleteUpdate
  <2>3. Commit(m)
    BY <1>3
  <2> HIDE DEF m
  <2> QED BY <1>2, <2>2, <2>3 DEF Commit
<1> QED
  BY <1>3 DEF LateUnit

\* What OnlyEntry leaves alone.
LEMMA OtherEntries ==
    ASSUME NEW l, Good(l), NEW m, NEW ph \in PhaseName, Lifecycle!OnlyEntry(l, m, ph)
    PROVE  \A q \in PhaseName : q # ph => m[q] = l[q]
<1>1. m = [l EXCEPT ![ph] = m[ph]] /\ DOMAIN l = PhaseName
  BY DEF Lifecycle!OnlyEntry, Good, Ledger
<1> QED
  BY <1>1

-----------------------------------------------------------------------------
(* Artifacts only go when the ledger stops vouching for them. *)

\* A body adds files; a clear that removes one remembers it until it has
\* reached the ledger.
LEMMA PresentStays ==
    ASSUME [Next]_vars, ~ClearLedger
    PROVE  Present \subseteq Present'
<1> USE DEF Present, fileVars
<1>1. CASE BodyStep
  <2> USE DEF Write
  <2>1. CASE IntentEnter BY <2>1 DEF IntentEnter
  <2>2. CASE IntentDraft BY <2>2 DEF IntentDraft
  <2>3. CASE IntentSave BY <2>3 DEF IntentSave
  <2>4. CASE IntentNodes BY <2>4 DEF IntentNodes
  <2>5. CASE IntentAggregates BY <2>5 DEF IntentAggregates
  <2>6. CASE StructureEnter BY <2>6 DEF StructureEnter
  <2>7. CASE PassDone BY <2>7 DEF PassDone
  <2>8. CASE \E u \in Unit : UnitDone(u) \/ UnitThrows(u)
    BY <2>8 DEF UnitDone, UnitThrows
  <2>9. CASE BehaviorEnter BY <2>9 DEF BehaviorEnter
  <2>10. CASE BehaviorCrawl
    <3>1. Write("behavior", {}) \/ UNCHANGED <<files, stale, orphaned>>
      BY <2>10, Zenon DEF BehaviorCrawl
    <3> QED BY <3>1
  <2>11. CASE ReconcileDerive BY <2>11 DEF ReconcileDerive
  <2>12. CASE VerifyDerive BY <2>12 DEF VerifyDerive
  <2>13. CASE \E ph \in {"reconcile", "verify"} : DeriveEnter(ph) \/ DeriveFinish(ph)
    BY <2>13 DEF DeriveEnter, DeriveFinish
  <2>14. CASE BodyThrows BY <2>14 DEF BodyThrows
  <2> QED
    BY <1>1, <2>1, <2>2, <2>3, <2>4, <2>5, <2>6, <2>7, <2>8, <2>9, <2>10, <2>11,
       <2>12, <2>13, <2>14 DEF BodyStep
<1>2. CASE ClearFile
  BY <1>2 DEF ClearFile
<1>3. CASE \/ StartCommand \/ Exit \/ Load \/ RecordBlocked \/ EnterLoop
           \/ SkipPhase \/ StartPhase \/ FlushDone \/ Settle \/ AwaitLedger \/ EndRun
           \/ WriteSnapshot \/ Crash \/ Tick \/ EditIntent
           \/ (\E u \in Unit : LateUnit(u))
  BY <1>3 DEF StartCommand, Exit, Load, LoadInto, RecordBlocked, EnterLoop, SkipPhase,
     StartPhase, FlushDone, Settle, SettleWith, AwaitLedger, EndRun, WriteSnapshot,
     Crash, Tick, EditIntent, LateUnit
<1>4. CASE UNCHANGED vars
  BY <1>4 DEF vars
<1> QED
  BY <1>1, <1>2, <1>3, <1>4 DEF Next, RunStep

LEMMA BackedStays ==
    ASSUME NEW l, NEW S, NEW T, Backed(l, S), S \subseteq T
    PROVE  Backed(l, T)
  BY DEF Backed

\* A commit that completes nothing, or something that is there and counted.
LEMMA BackedCommit ==
    ASSUME NEW l, Good(l), NEW m, NEW ph \in PhaseName, NEW S, Backed(l, S),
           Lifecycle!OnlyEntry(l, m, ph),
           m[ph].status = "completed" =>
               /\ ArtifactsOf(ph) \subseteq S
               /\ ph # "behavior" => m[ph].completed = m[ph].total
    PROVE  Backed(m, S)
  BY OtherEntries DEF Backed

\* Distinct phases leave distinct artifacts, so a clear of one concerns no other.
LEMMA ClearedApart ==
    ASSUME NEW only \in Blockable, NEW ph \in PhaseName, ph # only,
           NEW i \in 1..Len(clearList(only))
    PROVE  clearList(only)[i] \notin ArtifactsOf(ph)
<1>1. CASE only = "intent"
  <2>1. clearList(only) = <<"intent", "aggregates">>
    BY <1>1 DEF clearList
  <2>2. Len(clearList(only)) = 2 /\ clearList(only)[1] = "intent"
        /\ clearList(only)[2] = "aggregates"
    BY <2>1
  <2>3. clearList(only)[i] \in {"intent", "aggregates"}
    BY <2>2
  <2> QED BY <1>1, <2>3 DEF ArtifactsOf, PhaseName
<1>2. CASE only = "structure"
  <2>1. Len(clearList(only)) = 1 /\ clearList(only)[1] = "structure"
    BY <1>2 DEF clearList
  <2> QED BY <1>2, <2>1 DEF ArtifactsOf, PhaseName
<1>3. CASE only = "behavior"
  <2>1. Len(clearList(only)) = 1 /\ clearList(only)[1] = "behavior"
    BY <1>3 DEF clearList
  <2> QED BY <1>3, <2>1 DEF ArtifactsOf, PhaseName
<1> QED
  BY <1>1, <1>2, <1>3 DEF Blockable

LEMMA ClearKeepsBacked ==
    ASSUME IInv, SnapshotsBacked, ClearLedger
    PROVE  Backed(progressJson', Present')
<1>1. Good(progressJson) /\ cmd.only \in Blockable \cup {"all"}
  BY DEF IInv, TypeOK, LedgersOK, ProcessOK, Good
<1>2. Backed(progressJson, Present)
  <2>1. 0 \in 0..Len(writeChain)
    BY LastIsLen DEF IInv, TypeOK
  <2> QED BY <2>1 DEF SnapshotsBacked, Snapshot
<1>3. CASE cmd.only = "all"
  <2>1. \A ph \in PhaseName : progressJson'[ph].status = "pending"
    BY <1>3 DEF ClearLedger, emptyProgress, freshPhase
  <2> QED BY <2>1 DEF Backed
<1>4. CASE cmd.only \in Blockable
  <2>1. progressJson' = resetPhase(progressJson, cmd.only)
    BY <1>4 DEF ClearLedger, Blockable
  <2>2. /\ cmd.only \in PhaseName
        /\ progressJson'[cmd.only].status = "pending"
        /\ \A ph \in PhaseName : ph # cmd.only => progressJson'[ph] = progressJson[ph]
    BY <1>1, <1>4, <2>1 DEF resetPhase, freshPhase, Good, Ledger, Blockable, PhaseName
  <2>3. ASSUME NEW ph \in PhaseName, ph # cmd.only, ArtifactsOf(ph) \subseteq Present
        PROVE  ArtifactsOf(ph) \subseteq Present'
    BY <1>4, <2>3, ClearedApart DEF ClearLedger, Present
  <2> QED BY <1>2, <2>2, <2>3 DEF Backed
<1> QED
  BY <1>1, <1>3, <1>4

-----------------------------------------------------------------------------
(* The queue stays backed, whatever reaches it. *)

\* What Settle completes had its artifacts and its counts.
LEMMA SettleBacked ==
    ASSUME IInv, BackedInv, Backed(current, Present), Settle
    PROVE  Backed(current', Present)
<1>1. /\ pc = "settle" /\ current' = withPhaseStatus(current, Phase, outcome, now)
  BY DEF Settle, SettleWith, Settled, Commit
<1>2. Phase \in PhaseName /\ Good(current)
  BY <1>1, PhaseInHand DEF InHand
<1>3. outcome \in PhaseStatus /\ now \in Nat
  BY DEF IInv, TypeOK, ProcessOK, WorkspaceOK, PhaseStatus
<1>4. /\ Lifecycle!OnlyEntry(current, current', Phase)
      /\ current'[Phase].status = outcome
      /\ current'[Phase].total = current[Phase].total
      /\ current'[Phase].completed = current[Phase].completed
  BY <1>1, <1>2, <1>3, StatusUpdate
<1>5. ASSUME outcome = "completed"
      PROVE  /\ ArtifactsOf(Phase) \subseteq Present
             /\ Phase # "behavior" => current'[Phase].completed = current'[Phase].total
  <2>1. /\ ArtifactsOf(Phase) \subseteq Present
        /\ Phase # "behavior" => current[Phase].total <= current[Phase].completed + 0
    BY <1>1, <1>5 DEF BackedInv, ReturnBacked, Owes
  <2>2. /\ current[Phase].total \in Nat /\ current[Phase].completed \in Nat
        /\ current[Phase].completed <= current[Phase].total
    BY <1>2, EntryType DEF PhaseProgress
  <2> QED BY <1>4, <2>1, <2>2
<1> QED
  BY <1>2, <1>4, <1>5, BackedCommit

LEMMA CommitsAreBacked ==
    ASSUME IInv, BackedInv, Backed(current, Present), [Next]_vars,
           ~(ClearLedger \/ Load \/ Exit \/ Crash)
    PROVE  Backed(current', Present)
<1>0. Good(current) /\ now \in Nat
  BY DEF IInv, TypeOK, LedgersOK, WorkspaceOK, Good
<1>1. CASE BodyStep
  <2>1. Phase \in PhaseName
    BY <1>1, BodyStaysInHand, PhaseInHand DEF InHand
  <2> QED BY <1>0, <1>1, <2>1, BodyCounts, BackedCommit DEF ledgerVars
<1>2. CASE \E u \in Unit : LateUnit(u)
  <2>1. "structure" \in PhaseName
    BY DEF PhaseName
  <2> QED BY <1>0, <1>2, <2>1, LateCounts, BackedCommit DEF ledgerVars
<1>3. CASE Settle
  BY <1>3, SettleBacked
<1>4. CASE RecordBlocked
  <2>1. PICK ph \in unrecorded : current' = withPhaseStatus(current, ph, "blocked", now)
    BY <1>4 DEF RecordBlocked, Commit
  <2>2. ph \in PhaseName /\ "blocked" \in PhaseStatus
    BY DEF IInv, TypeOK, ProcessOK, Blockable, PhaseName, PhaseStatus
  <2>3. Lifecycle!OnlyEntry(current, current', ph) /\ current'[ph].status = "blocked"
    BY <1>0, <2>1, <2>2, StatusUpdate
  <2> QED BY <1>0, <2>2, <2>3, BackedCommit
<1>5. CASE StartPhase
  <2>1. Phase \in PhaseName /\ "running" \in PhaseStatus
    BY <1>5 DEF StartPhase, IInv, TypeOK, ProcessOK, Phase, PhaseStatus
  <2>2. /\ Lifecycle!OnlyEntry(current, current', Phase)
        /\ current'[Phase].status = "running"
    BY <1>0, <1>5, <2>1, StatusUpdate DEF StartPhase
  <2> QED BY <1>0, <2>1, <2>2, BackedCommit
<1>6. CASE \/ StartCommand \/ ClearFile \/ EnterLoop \/ SkipPhase \/ FlushDone
           \/ AwaitLedger \/ EndRun \/ WriteSnapshot \/ Tick \/ EditIntent
  BY <1>6 DEF StartCommand, ClearFile, EnterLoop, SkipPhase, FlushDone, AwaitLedger,
     EndRun, WriteSnapshot, Tick, EditIntent, ledgerVars
<1>7. CASE UNCHANGED vars
  BY <1>7 DEF vars, ledgerVars
<1> QED
  BY <1>1, <1>2, <1>3, <1>4, <1>5, <1>6, <1>7 DEF Next, RunStep

LEMMA QueueBackedStep ==
    ASSUME IInv, BackedInv, [Next]_vars
    PROVE  SnapshotsBacked'
<1> DEFINE n == Len(writeChain)
<1>1. LedgersOK /\ n \in Nat /\ SnapshotsBacked
  BY LastIsLen DEF IInv, TypeOK, BackedInv
<1>2. CASE ClearLedger
  <2>1. writeChain' = << >>
    BY <1>2 DEF ClearLedger, ProcessGone, IInv, QueueEmptyBefore
  <2> QED BY <1>2, <2>1, <1>1, ClearKeepsBacked DEF SnapshotsBacked, Snapshot
<1>3. CASE ~ClearLedger
  <2>1. Present \subseteq Present'
    BY <1>3, PresentStays
  <2>2. \A l : Backed(l, Present) => Backed(l, Present')
    BY <2>1, BackedStays
  <2>3. CASE Load \/ Exit \/ Crash
    <3>1. writeChain' = << >> /\ progressJson' = progressJson
      BY <2>3 DEF Load, LoadInto, Exit, Crash, ProcessGone
    <3>2. Backed(progressJson, Present)
      BY <1>1 DEF SnapshotsBacked, Snapshot
    <3> QED BY <3>1, <3>2, <2>2 DEF SnapshotsBacked, Snapshot
  <2>4. CASE WriteSnapshot
    <3>1. /\ n \in Nat \ {0} /\ Len(writeChain') = n - 1
          /\ \A i \in 0..(n - 1) : Snapshot(i)' = Snapshot(i + 1)
      BY <1>1, <2>4, ShiftSnapshot, LastIsLen DEF WriteSnapshot
    <3> SUFFICES ASSUME NEW i \in 0..(n - 1) PROVE Backed(Snapshot(i)', Present')
      BY <3>1 DEF SnapshotsBacked
    <3>2. i + 1 \in 0..n /\ Snapshot(i)' = Snapshot(i + 1)
      BY <3>1
    <3> QED BY <1>1, <3>2, <2>2 DEF SnapshotsBacked
  <2>5. CASE Quiet
    <3>1. writeChain' = writeChain /\ \A i : Snapshot(i)' = Snapshot(i)
      BY <2>5 DEF Quiet, Snapshot
    <3> QED BY <1>1, <2>2, <3>1 DEF SnapshotsBacked
  <2>6. CASE Committed /\ ~(Load \/ Exit \/ Crash)
    <3>1. PICK m : Commits(m)
      BY <2>6 DEF Committed
    <3>2. /\ m \in Ledger /\ current' = m /\ writeChain' = Append(writeChain, m)
          /\ UNCHANGED progressJson
      BY <3>1 DEF Commits, Good
    <3>3. /\ Len(writeChain') = n + 1
          /\ \A i \in 0..n : Snapshot(i)' = Snapshot(i)
          /\ \A i \in Nat : i = n + 1 => Snapshot(i)' = m
      BY <1>1, <3>2, AppendSnapshot
    <3>4. current = Snapshot(n)
      BY <2>6, LastIsLen, <1>1 DEF Committed, IInv, LedgerOnDiskCatchesUp
    <3>5. Backed(current, Present)
      BY <3>4, <1>1 DEF SnapshotsBacked
    <3>6. Backed(m, Present')
      BY <3>2, <3>5, <2>2, <2>6, <1>3, CommitsAreBacked
    <3> SUFFICES ASSUME NEW i \in 0..(n + 1) PROVE Backed(Snapshot(i)', Present')
      BY <3>3 DEF SnapshotsBacked
    <3>7. CASE i = n + 1 BY <3>7, <3>3, <3>6, <1>1
    <3>8. CASE i \in 0..n BY <3>8, <3>3, <2>2, <1>1 DEF SnapshotsBacked
    <3> QED BY <3>7, <3>8, <1>1
  <2> QED BY <1>3, <2>3, <2>4, <2>5, <2>6, Effects
<1> QED
  BY <1>2, <1>3

-----------------------------------------------------------------------------
(* What a body still owes. *)

LEMMA RegisterOwes ==
    ASSUME NEW l, Good(l), NEW ph \in PhaseName, NEW total \in Nat
    PROVE  LET m == withTasksRegistered(l, ph, total) IN
             m[ph].total <= m[ph].completed + total
<1> DEFINE e == [l[ph] EXCEPT !.total = total,
                              !.completed = AtMost(l[ph].completed, total)]
<1>1. l[ph] \in PhaseProgress
  BY EntryType
<1>2. e.total = total /\ e.completed \in Nat
  BY <1>1 DEF PhaseProgress, AtMost
<1>3. withTasksRegistered(l, ph, total)[ph] = e
  BY DEF withTasksRegistered, Good, Ledger
<1> HIDE DEF e
<1> QED
  BY <1>2, <1>3

LEMMA CompleteOwes ==
    ASSUME NEW l, Good(l), NEW ph \in PhaseName, NEW n \in Nat,
           l[ph].total <= l[ph].completed + (n + 1)
    PROVE  LET m == withTaskCompleted(l, ph, 1) IN
             m[ph].total <= m[ph].completed + n
<1> DEFINE e == [l[ph] EXCEPT !.completed = AtMost(l[ph].total, l[ph].completed + 1)]
<1>1. l[ph] \in PhaseProgress
  BY EntryType
<1>2. e.total <= e.completed + n
  BY <1>1 DEF PhaseProgress, AtMost
<1>3. withTaskCompleted(l, ph, 1)[ph] = e
  BY DEF withTaskCompleted, Good, Ledger
<1> HIDE DEF e
<1> QED
  BY <1>2, <1>3

LEMMA TasksFinite ==
    /\ IsFiniteSet(Unit \X (1..PassCount))
    /\ Cardinality(Unit \X (1..PassCount)) = StructureTotal
<1>1. IsFiniteSet(Unit) /\ PassCount \in Nat /\ 1 \in Int /\ PassCount \in Int
  BY UnitsAssumption
<1>2. IsFiniteSet(1..PassCount) /\ Cardinality(1..PassCount) = PassCount
  BY <1>1, FS_Interval
<1> QED
  BY <1>1, <1>2, FS_Product DEF StructureTotal

LEMMA RemainingFinite ==
    ASSUME NEW r, NEW p, NEW S
    PROVE  IsFiniteSet(RemainingAt(r, p, S)) /\ Cardinality(RemainingAt(r, p, S)) \in Nat
<1>1. RemainingAt(r, p, S) \subseteq Unit \X (1..PassCount)
  BY DEF RemainingAt
<1> QED
  BY <1>1, TasksFinite, FS_Subset, FS_CardinalityType

\* Before the first pass everything remains, after the last nothing.
LEMMA RemainingEnds ==
    /\ RemainingAt(1, 1, UnitsOf(1)) = Unit \X (1..PassCount)
    /\ \A r \in Nat : r > Repos => \A p, S : RemainingAt(r, p, S) = {}
  BY UnitsAssumption DEF RemainingAt, UnitsOf

\* The barrier of a pass opens exactly the tasks of the next one.
LEMMA RemainingBarrier ==
    ASSUME NEW r \in Nat, NEW p \in 1..PassCount
    PROVE  /\ p < PassCount =>
                  RemainingAt(r, p + 1, UnitsOf(r)) = RemainingAt(r, p, {})
           /\ p = PassCount =>
                  RemainingAt(r + 1, 1, UnitsOf(r + 1)) = RemainingAt(r, p, {})
<1>1. PassCount \in Nat \ {0} /\ Repos \in Nat
      /\ \A u \in Unit : RepoOf[u] \in Nat
  BY UnitsAssumption
<1>2. p < PassCount => RemainingAt(r, p + 1, UnitsOf(r)) = RemainingAt(r, p, {})
  BY <1>1 DEF RemainingAt, UnitsOf
<1>3. p = PassCount => RemainingAt(r + 1, 1, UnitsOf(r + 1)) = RemainingAt(r, p, {})
  BY <1>1 DEF RemainingAt, UnitsOf
<1> QED
  BY <1>2, <1>3

\* A unit that reports is one task less.
LEMMA RemainingUnit ==
    ASSUME NEW r \in Nat, NEW p \in 1..PassCount, NEW S \in SUBSET UnitsOf(r), NEW u \in S
    PROVE  Cardinality(RemainingAt(r, p, S))
             = Cardinality(RemainingAt(r, p, S \ {u})) + 1
<1> DEFINE R == RemainingAt(r, p, S)
           Q == RemainingAt(r, p, S \ {u})
<1>1. u \in Unit /\ RepoOf[u] = r
  BY DEF UnitsOf
<1>2. <<u, p>> \in R
  BY <1>1 DEF RemainingAt
<1>3. Q = R \ {<<u, p>>}
  <2>1. Q \subseteq R \ {<<u, p>>}
    BY <1>1 DEF RemainingAt
  <2>2. R \ {<<u, p>>} \subseteq Q
    <3> SUFFICES ASSUME NEW task \in R, task # <<u, p>> PROVE task \in Q
      OBVIOUS
    <3>1. task = <<task[1], task[2]>> /\ task \in Unit \X (1..PassCount)
      BY DEF RemainingAt
    <3>2. task[2] = p => task[1] # u
      BY <3>1
    <3> QED BY <3>1, <3>2 DEF RemainingAt
  <2> QED BY <2>1, <2>2
<1> HIDE DEF R, Q
<1>4. IsFiniteSet(R) /\ Cardinality(R) \in Nat
  BY RemainingFinite DEF R
<1>5. Cardinality(R \ {<<u, p>>}) = Cardinality(R) - 1
  BY <1>2, <1>4, FS_RemoveElement
<1>6. Cardinality(R) = Cardinality(Q) + 1
  BY <1>3, <1>4, <1>5
<1> QED
  BY <1>6 DEF R, Q

\* What the intent phase owes shrinks to nothing, and its files come before it.
LEMMA IntentKeeps ==
    ASSUME IInv, BackedInv,
           IntentEnter \/ IntentDraft \/ IntentSave \/ IntentNodes \/ IntentAggregates
    PROVE  IntentWorks' /\ StructureWorks' /\ DeriveWorks' /\ ReturnBacked'
<1>1. /\ pc = "body" /\ Phase = "intent" /\ todo' = todo
  BY BodyStaysInHand DEF BodyStep, IntentEnter, IntentDraft, IntentSave, IntentNodes,
     IntentAggregates, At
<1>2. Good(current) /\ Phase' = "intent" /\ "intent" \in PhaseName
  BY <1>1, PhaseInHand DEF InHand, Phase
<1>3. StructureWorks' /\ DeriveWorks'
  BY <1>2 DEF StructureWorks, DeriveWorks, At
<1> SUFFICES IntentWorks' /\ ReturnBacked'
  BY <1>3
<1>4. CASE IntentEnter
  <2>1. CASE pc' = "settle" /\ outcome' = "blocked"
    BY <2>1 DEF IntentWorks, ReturnBacked, At
  <2>2. CASE /\ current' = withTasksRegistered(current, "intent", 1)
             /\ pc' = "body" /\ body' = "nodes"
    <3>1. Owes(1)'
      BY <1>2, <2>2, RegisterOwes DEF Owes
    <3> QED BY <2>2, <3>1 DEF IntentWorks, ReturnBacked, At
  <2>3. CASE /\ current' = withTasksRegistered(current, "intent", 2)
             /\ pc' = "body" /\ body' = "draft"
    <3>1. Owes(2)'
      BY <1>2, <2>3, RegisterOwes DEF Owes
    <3> QED BY <2>3, <3>1 DEF IntentWorks, ReturnBacked, At
  <2> QED BY <1>4, <1>1, <2>1, <2>2, <2>3 DEF IntentEnter, Return, Commit, Continue
<1>5. CASE IntentDraft
  <2>1. CASE pc' = "settle" /\ outcome' = "blocked"
    BY <2>1 DEF IntentWorks, ReturnBacked, At
  <2>2. CASE /\ current' = withTaskCompleted(current, "intent", 1)
             /\ pc' = "body" /\ body' = "save"
    <3>1. current["intent"].total <= current["intent"].completed + (1 + 1)
      BY <1>1, <1>5 DEF IntentDraft, BackedInv, IntentWorks, Owes
    <3>2. Owes(1)'
      BY <1>2, <2>2, <3>1, CompleteOwes DEF Owes
    <3> QED BY <2>2, <3>2 DEF IntentWorks, ReturnBacked, At
  <2> QED BY <1>5, <1>1, <2>1, <2>2 DEF IntentDraft, Return, Commit, Continue
<1>6. CASE IntentSave
  <2>1. Owes(1) /\ current' = current /\ pc' = "body" /\ body' = "nodes"
    BY <1>1, <1>6 DEF IntentSave, BackedInv, IntentWorks, ledgerVars, Continue
  <2>2. Owes(1)'
    BY <2>1, <1>1, <1>2 DEF Owes
  <2> QED BY <2>1, <2>2 DEF IntentWorks, ReturnBacked, At
<1>7. CASE IntentNodes
  <2>1. /\ Owes(1) /\ current' = withTaskCompleted(current, "intent", 1)
        /\ pc' = "body" /\ body' = "aggregates" /\ files' = files \cup {"intent"}
    BY <1>1, <1>7 DEF IntentNodes, BackedInv, IntentWorks, Commit, Continue, Write
  <2>2. current["intent"].total <= current["intent"].completed + (0 + 1)
    BY <1>1, <2>1 DEF Owes
  <2>3. Owes(0)'
    BY <1>2, <2>1, <2>2, CompleteOwes DEF Owes
  <2> QED BY <2>1, <2>3 DEF IntentWorks, ReturnBacked, At, Present
<1>8. CASE IntentAggregates
  <2>1. /\ Owes(0) /\ "intent" \in Present /\ current' = current
        /\ pc' = "settle" /\ Write("aggregates", {})
    BY <1>1, <1>8 DEF IntentAggregates, BackedInv, IntentWorks, ledgerVars, Return
  <2>2. Owes(0)'
    BY <2>1, <1>1, <1>2 DEF Owes
  <2>3. {"intent", "aggregates"} \subseteq Present'
    BY <2>1 DEF Write, Present
  <2>4. ArtifactsOf("intent") = {"intent", "aggregates"}
    BY DEF ArtifactsOf
  <2> QED BY <1>2, <2>1, <2>2, <2>3, <2>4 DEF IntentWorks, ReturnBacked, At
<1> QED
  BY <1>4, <1>5, <1>6, <1>7, <1>8

\* The structure phase owes one report for every unit and pass still to come.
LEMMA StructureKeeps ==
    ASSUME IInv, BackedInv,
           \/ StructureEnter \/ PassDone
           \/ \E u \in Unit : UnitDone(u) \/ UnitThrows(u)
    PROVE  IntentWorks' /\ StructureWorks' /\ DeriveWorks' /\ ReturnBacked'
<1>1. /\ pc = "body" /\ Phase = "structure" /\ todo' = todo
  BY BodyStaysInHand DEF BodyStep, StructureEnter, PassDone, UnitDone, UnitThrows, At
<1>2. Good(current) /\ Phase' = "structure" /\ "structure" \in PhaseName
  BY <1>1, PhaseInHand DEF InHand, Phase
<1>3. IntentWorks' /\ DeriveWorks'
  BY <1>2 DEF IntentWorks, DeriveWorks, At
<1> SUFFICES StructureWorks' /\ ReturnBacked'
  BY <1>3
<1>4. /\ PassCount \in Nat \ {0} /\ Repos \in Nat /\ StructureTotal \in Nat
      /\ current["structure"] \in PhaseProgress
      /\ At("structure", "units") =>
           /\ pass \in 1..PassCount /\ repo \in 1..Repos /\ pending \subseteq UnitsOf(repo)
           /\ Owes(Cardinality(Remaining))
  BY <1>2, UnitsAssumption, StructureTotalIsNat, EntryType DEF BackedInv, StructureWorks
<1>5. ArtifactsOf("structure") \subseteq {"structure"}
      /\ (Repos = 0 => ArtifactsOf("structure") = {})
  BY DEF ArtifactsOf
<1>6. CASE \E u \in Unit : UnitThrows(u)
  BY <1>6 DEF UnitThrows, Return, StructureWorks, ReturnBacked, At
<1>7. CASE \E u \in Unit : UnitDone(u)
  <2>1. PICK u \in Unit : UnitDone(u)
    BY <1>7
  <2>2. /\ At("structure", "units") /\ u \in pending /\ pending' = pending \ {u}
        /\ current' = withTaskCompleted(current, "structure", 1)
        /\ UNCHANGED <<pc, body, repo, pass>>
    BY <2>1 DEF UnitDone, Commit
  <2> DEFINE k == Cardinality(Remaining)
             j == Cardinality(RemainingAt(repo, pass, pending \ {u}))
  <2>3. k = j + 1 /\ j \in Nat
    BY <1>4, <2>2, RemainingUnit, RemainingFinite DEF Remaining
  <2>4. Remaining' = RemainingAt(repo, pass, pending \ {u})
    BY <2>2 DEF Remaining
  <2>5. current["structure"].total <= current["structure"].completed + k
    BY <1>1, <1>4, <2>2 DEF Owes
  <2>6. current'["structure"].total <= current'["structure"].completed + j
    <3> HIDE DEF k, j
    <3> QED BY <1>2, <2>2, <2>3, <2>5, CompleteOwes
  <2>7. Owes(Cardinality(Remaining))'
    BY <1>2, <2>4, <2>6 DEF Owes
  <2>8. pending' \subseteq UnitsOf(repo')
    BY <1>4, <2>2
  <2> QED BY <1>1, <1>4, <2>2, <2>7, <2>8 DEF StructureWorks, ReturnBacked, At
<1>8. CASE StructureEnter
  <2>1. /\ AtPass(1, 1)
        /\ current' = withTasksRegistered(current, "structure", StructureTotal)
    BY <1>8 DEF StructureEnter, Commit
  <2>2. current'["structure"].total <= current'["structure"].completed + StructureTotal
    BY <1>2, <1>4, <2>1, RegisterOwes
  <2>3. Remaining' = RemainingAt(1, 1, UnitsOf(1))
    BY <2>1 DEF AtPass, Remaining
  <2>4. Cardinality(Remaining') = StructureTotal
    BY <2>3, RemainingEnds, TasksFinite
  <2>5. CASE 1 <= Repos
    <3>1. Owes(Cardinality(Remaining))'
      BY <1>2, <2>2, <2>4 DEF Owes
    <3>2. pc' = "body" /\ pass' \in 1..PassCount /\ repo' \in 1..Repos
          /\ pending' \subseteq UnitsOf(repo')
      BY <1>1, <1>4, <2>1, <2>5 DEF AtPass, Continue
    <3> QED BY <3>1, <3>2 DEF StructureWorks, ReturnBacked
  <2>6. CASE ~(1 <= Repos)
    <3>1. Repos = 0 /\ pc' = "settle" /\ outcome' = "completed"
      BY <1>4, <2>1, <2>6 DEF AtPass, Return
    <3>2. RemainingAt(1, 1, UnitsOf(1)) = {}
      BY <3>1, RemainingEnds
    <3>3. StructureTotal = 0
      BY <2>3, <2>4, <3>2, FS_EmptySet
    <3>4. Owes(0)'
      BY <1>2, <2>2, <3>3 DEF Owes
    <3> QED BY <1>2, <1>5, <3>1, <3>4 DEF StructureWorks, ReturnBacked, At
  <2> QED BY <2>5, <2>6
<1>9. CASE PassDone
  <2>1. /\ At("structure", "units") /\ pending = {} /\ current' = current
        /\ files' = files \cup {"structure"}
        /\ IF pass < PassCount THEN AtPass(repo, pass + 1) ELSE AtPass(repo + 1, 1)
    BY <1>9 DEF PassDone, Write, ledgerVars
  <2>2. /\ pass \in 1..PassCount /\ repo \in 1..Repos /\ Remaining = RemainingAt(repo, pass, {})
        /\ Owes(Cardinality(Remaining))
    BY <1>4, <2>1 DEF Remaining
  <2>3. /\ Remaining' = Remaining /\ pass' \in 1..PassCount /\ repo' \in 1..(Repos + 1)
        /\ pending' = UnitsOf(repo')
    <3>1. CASE pass < PassCount
      <4>1. Remaining' = RemainingAt(repo, pass + 1, UnitsOf(repo))
        BY <2>1, <3>1 DEF AtPass, Remaining
      <4>2. RemainingAt(repo, pass + 1, UnitsOf(repo)) = RemainingAt(repo, pass, {})
        BY <1>4, <2>2, <3>1, RemainingBarrier
      <4> QED BY <1>4, <2>1, <2>2, <3>1, <4>1, <4>2 DEF AtPass
    <3>2. CASE ~(pass < PassCount)
      <4>1. Remaining' = RemainingAt(repo + 1, 1, UnitsOf(repo + 1)) /\ pass = PassCount
        BY <1>4, <2>1, <2>2, <3>2 DEF AtPass, Remaining
      <4>2. RemainingAt(repo + 1, 1, UnitsOf(repo + 1)) = RemainingAt(repo, pass, {})
        BY <1>4, <2>2, <4>1, RemainingBarrier
      <4> QED BY <1>4, <2>1, <2>2, <3>2, <4>1, <4>2 DEF AtPass
    <3> QED BY <3>1, <3>2
  <2>4. Owes(Cardinality(Remaining))'
    BY <1>1, <1>2, <2>1, <2>2, <2>3 DEF Owes
  <2>5. CASE repo' <= Repos
    <3>1. pc' = "body" /\ repo' \in 1..Repos
      BY <1>1, <1>4, <2>1, <2>3, <2>5 DEF AtPass, Continue
    <3> QED BY <2>3, <2>4, <3>1 DEF StructureWorks, ReturnBacked
  <2>6. CASE ~(repo' <= Repos)
    <3>1. pc' = "settle" /\ repo' > Repos /\ repo' \in Nat
      BY <1>4, <2>1, <2>3, <2>6 DEF AtPass, Return
    <3>2. Remaining' = {}
      BY <3>1, RemainingEnds DEF Remaining
    <3>3. Owes(0)'
      BY <2>4, <3>2, FS_EmptySet DEF Owes
    <3> QED BY <1>2, <1>5, <2>1, <3>1, <3>3 DEF StructureWorks, ReturnBacked, At, Present
  <2> QED BY <1>4, <2>3, <2>5, <2>6
<1> QED
  BY <1>6, <1>7, <1>8, <1>9

\* Reconcile and verify each owe one task, and write before they count it.
LEMMA DeriveKeeps ==
    ASSUME IInv, BackedInv,
           \/ ReconcileDerive \/ VerifyDerive
           \/ \E ph \in {"reconcile", "verify"} : DeriveEnter(ph) \/ DeriveFinish(ph)
    PROVE  IntentWorks' /\ StructureWorks' /\ DeriveWorks' /\ ReturnBacked'
<1>1. PICK ph \in {"reconcile", "verify"} :
        \/ DeriveEnter(ph) \/ DeriveFinish(ph)
        \/ ph = "reconcile" /\ ReconcileDerive
        \/ ph = "verify" /\ VerifyDerive
  OBVIOUS
<1>2. pc = "body" /\ Phase = ph /\ todo' = todo
  BY <1>1, BodyStaysInHand DEF BodyStep, DeriveEnter, DeriveFinish, ReconcileDerive,
     VerifyDerive, At
<1>3. Good(current) /\ Phase' = ph /\ ph \in PhaseName
  BY <1>2, PhaseInHand DEF InHand, Phase
<1>4. IntentWorks' /\ StructureWorks'
  BY <1>3 DEF IntentWorks, StructureWorks, At
<1> SUFFICES DeriveWorks' /\ ReturnBacked'
  BY <1>4
<1>5. ArtifactsOf("reconcile") = {"unified"} /\ ArtifactsOf("verify") = {"findings"}
  BY DEF ArtifactsOf
<1>6. CASE DeriveEnter(ph)
  <2>1. /\ current' = withTasksRegistered(current, ph, 1) /\ pc' = "body" /\ body' = "derive"
    BY <1>2, <1>6 DEF DeriveEnter, Commit, Continue
  <2>2. Owes(1)'
    BY <1>3, <2>1, RegisterOwes DEF Owes
  <2> QED BY <2>1, <2>2 DEF DeriveWorks, ReturnBacked, At
<1>7. CASE DeriveFinish(ph)
  <2>1. /\ current' = withTaskCompleted(current, ph, 1) /\ pc' = "settle"
        /\ At(ph, "finish") /\ UNCHANGED fileVars
    BY <1>7 DEF DeriveFinish, Commit, Return
  <2>2. Owes(1) /\ ArtifactsOf(ph) \subseteq Present
    BY <2>1 DEF BackedInv, DeriveWorks
  <2>3. current[ph].total <= current[ph].completed + (0 + 1)
    BY <1>2, <2>2 DEF Owes
  <2>4. Owes(0)'
    BY <1>3, <2>1, <2>3, CompleteOwes DEF Owes
  <2>5. ArtifactsOf(ph) \subseteq Present'
    BY <2>1, <2>2 DEF fileVars, Present
  <2> QED BY <1>3, <2>1, <2>4, <2>5 DEF DeriveWorks, ReturnBacked, At
<1>8. CASE \/ ph = "reconcile" /\ ReconcileDerive
           \/ ph = "verify" /\ VerifyDerive
  <2>1. /\ At(ph, "derive") /\ current' = current /\ pc' = "body" /\ body' = "finish"
        /\ ArtifactsOf(ph) \subseteq Present'
    BY <1>2, <1>5, <1>8 DEF ReconcileDerive, VerifyDerive, ledgerVars, Continue, Write, Present
  <2>2. Owes(1)
    BY <2>1 DEF BackedInv, DeriveWorks
  <2>3. Owes(1)'
    BY <1>2, <1>3, <2>1, <2>2 DEF Owes
  <2> QED BY <1>3, <2>1, <2>3 DEF DeriveWorks, ReturnBacked, At
<1> QED
  BY <1>1, <1>6, <1>7, <1>8

LEMMA WorksStep ==
    ASSUME IInv, BackedInv, [Next]_vars
    PROVE  IntentWorks' /\ StructureWorks' /\ DeriveWorks' /\ ReturnBacked'
<1> USE DEF IntentWorks, StructureWorks, DeriveWorks, ReturnBacked, At
<1>1. CASE BodyStep
  <2>1. CASE BehaviorEnter \/ BehaviorCrawl
    <3>1. Phase = "behavior" /\ todo' = todo
      BY <1>1, <2>1, BodyStaysInHand DEF BehaviorEnter, BehaviorCrawl
    <3>2. Phase' = "behavior" /\ ArtifactsOf("behavior") = {}
      BY <3>1 DEF Phase, ArtifactsOf
    <3> QED BY <3>2
  <2>2. CASE BodyThrows
    BY <2>2 DEF BodyThrows, Return
  <2> QED BY <1>1, <2>1, <2>2, IntentKeeps, StructureKeeps, DeriveKeeps DEF BodyStep
<1>2. CASE FlushDone
  BY <1>2 DEF FlushDone
<1>3. CASE WriteSnapshot \/ Tick \/ UNCHANGED vars
  <2>1. UNCHANGED <<current, pc, todo, body, outcome, unitVars, files, orphaned>>
    BY <1>3 DEF WriteSnapshot, Tick, vars, ledgerVars, fileVars
  <2>2. UNCHANGED <<Phase, Present, Remaining>>
    BY <2>1 DEF Phase, Present, Remaining, unitVars
  <2> QED BY <2>1, <2>2 DEF BackedInv, Owes, unitVars
<1>4. CASE \E u \in Unit : LateUnit(u)
  <2>1. late # {} /\ UNCHANGED <<pc, outcome>>
    BY <1>4 DEF LateUnit
  <2>2. pc' # "body" /\ ~(pc' = "settle" /\ outcome' = "completed")
    BY <2>1 DEF IInv, LateBehindFailure
  <2> QED BY <2>2
<1>5. CASE \/ StartCommand \/ ClearFile \/ ClearLedger \/ Load \/ RecordBlocked
           \/ EnterLoop \/ SkipPhase \/ StartPhase \/ Settle \/ AwaitLedger \/ EndRun
           \/ Exit \/ Crash \/ EditIntent
  <2>1. pc' \notin {"body", "settle"}
    BY <1>5 DEF StartCommand, ClearFile, ClearLedger, Load, LoadInto, RecordBlocked,
       EnterLoop, SkipPhase, StartPhase, Settle, SettleWith, AwaitLedger, EndRun, Exit,
       Crash, EditIntent, ProcessGone
  <2> QED BY <2>1
<1> QED
  BY <1>1, <1>2, <1>3, <1>4, <1>5 DEF Next, RunStep

LEMMA BackedInitially == Init => BackedInv
<1> SUFFICES ASSUME Init PROVE BackedInv
  OBVIOUS
<1>1. SnapshotsBacked
  <2>1. \A ph \in PhaseName : emptyProgress[ph].status = "pending"
    BY DEF emptyProgress, freshPhase
  <2> QED BY <2>1 DEF Init, SnapshotsBacked, Snapshot, Backed
<1> QED
  BY <1>1 DEF Init, BackedInv, IntentWorks, StructureWorks, DeriveWorks, ReturnBacked, At

LEMMA RunIsBacked == Spec => []BackedInv
<1>1. IInv /\ BackedInv /\ [Next]_vars => BackedInv'
  BY QueueBackedStep, WorksStep DEF BackedInv
<1> QED
  BY <1>1, BackedInitially, RunInvariant, PTL DEF Spec

LEMMA FileIsBacked ==
    ASSUME IInv, BackedInv
    PROVE  Backed(progressJson, Present)
<1>1. 0 \in 0..Len(writeChain)
  BY LastIsLen DEF IInv, TypeOK
<1> QED
  BY <1>1 DEF BackedInv, SnapshotsBacked, Snapshot

\* A phase the ledger calls completed, and the next run therefore skips, has its
\* artifacts in data/, unless a clear died between its files and its ledger.
THEOREM RunCompletedHasArtifacts == Spec => []CompletedHasArtifacts
<1>1. IInv /\ BackedInv => CompletedHasArtifacts
  BY FileIsBacked DEF Backed, Present, CompletedHasArtifacts
<1> QED
  BY <1>1, RunInvariant, RunIsBacked, PTL

\* A phase the ledger calls completed counted every task it registered, through
\* resumed counters, concurrent units and several passes and repositories.
THEOREM RunCompletedCountedAll == Spec => []CompletedCountedAll
<1>1. IInv /\ BackedInv => CompletedCountedAll
  BY FileIsBacked DEF Backed, CompletedCountedAll
<1> QED
  BY <1>1, RunInvariant, RunIsBacked, PTL

-----------------------------------------------------------------------------
(* The order of the phases. *)

LEMMA RankFacts ==
    /\ \A ph \in PhaseName :
          /\ Rank(ph) \in Nat
          /\ DependsOnStructure(ph) <=> Rank(ph) > Rank("structure")
    /\ Rank("intent") = 1 /\ Rank("structure") = 2 /\ Rank("behavior") = 3
    /\ Rank("reconcile") = 4 /\ Rank("verify") = 5
<1>1. /\ Rank("intent") = 1 /\ Rank("structure") = 2 /\ Rank("behavior") = 3
      /\ Rank("reconcile") = 4 /\ Rank("verify") = 5
  BY DEF Rank
<1> QED
  BY <1>1 DEF PhaseName, DependsOnStructure

LEMMA OrderAscends ==
    ASSUME NEW only \in Blockable \cup {"all"},
           NEW i \in DOMAIN phaseOrder(only), NEW j \in DOMAIN phaseOrder(only), i < j
    PROVE  Rank(phaseOrder(only)[i]) < Rank(phaseOrder(only)[j])
<1>1. CASE only = "all"
  <2> DEFINE s == <<"intent", "structure", "behavior", "reconcile", "verify">>
  <2>1. phaseOrder(only) = s
    BY <1>1 DEF phaseOrder
  <2>2. /\ DOMAIN s = 1..5 /\ s[1] = "intent" /\ s[2] = "structure" /\ s[3] = "behavior"
        /\ s[4] = "reconcile" /\ s[5] = "verify"
    OBVIOUS
  <2> HIDE DEF s
  <2>3. i \in 1..5 /\ j \in 1..5
    BY <2>1, <2>2
  <2>4. \A k \in 1..5 : Rank(s[k]) = k
    BY <2>2, RankFacts
  <2> QED BY <2>1, <2>3, <2>4
<1>2. CASE only \in Blockable
  <2> DEFINE s == <<only, "reconcile", "verify">>
  <2>1. phaseOrder(only) = s
    BY <1>2 DEF phaseOrder, Blockable
  <2>2. /\ DOMAIN s = 1..3 /\ s[1] = only /\ s[2] = "reconcile" /\ s[3] = "verify"
    OBVIOUS
  <2> HIDE DEF s
  <2>3. i \in 1..3 /\ j \in 1..3
    BY <2>1, <2>2
  <2>4. Rank(only) \in 1..3
    BY <1>2, RankFacts DEF Blockable
  <2>5. Rank(s[1]) \in 1..3 /\ Rank(s[2]) = 4 /\ Rank(s[3]) = 5
    BY <2>2, <2>4, RankFacts
  <2> QED BY <2>1, <2>3, <2>5
<1> QED
  BY <1>1, <1>2

\* What a step does to the position in the run: it is outside the loop, it is
\* one of the loop's own steps, or nothing the loop decides by moves.
Outside ==
    /\ pc' \notin LoopState /\ ran' = {} /\ structureFailed' = FALSE
    /\ todo' \in {todo, << >>}
    /\ pc' = "doctor" => blocked' = unrecorded'

SameStatus(ledger) == \A ph \in PhaseName : ledger[ph].status = current[ph].status

Calm ==
    /\ UNCHANGED <<todo, runVars>>
    /\ SameStatus(current')
    /\ \/ pc' = pc
       \/ pc = "flush" /\ pc' = "body"
       \/ pc = "body" /\ pc' = "settle"
       \/ pc = "select" /\ todo = << >> /\ pc' = "drain"
       \/ pc = "drain" /\ pc' = "ended"

LEMMA BodyIsCalm ==
    ASSUME IInv, BodyStep
    PROVE  Calm
<1>1. pc = "body" /\ pc' \in {"body", "settle"} /\ todo' = todo
  BY BodyStaysInHand
<1>2. Phase \in PhaseName /\ Good(current) /\ current[Phase].status = "running"
  BY <1>1, PhaseInHand DEF InHand
<1>3. SameStatus(current')
  BY <1>2, BodyCounts, OtherEntries DEF SameStatus, ledgerVars
<1>4. UNCHANGED runVars
  <2> USE DEF Continue, Return, AtPass
  <2>1. CASE IntentEnter BY <2>1 DEF IntentEnter
  <2>2. CASE IntentDraft BY <2>2 DEF IntentDraft
  <2>3. CASE IntentSave BY <2>3 DEF IntentSave
  <2>4. CASE IntentNodes BY <2>4 DEF IntentNodes
  <2>5. CASE IntentAggregates BY <2>5 DEF IntentAggregates
  <2>6. CASE StructureEnter BY <2>6 DEF StructureEnter
  <2>7. CASE PassDone BY <2>7 DEF PassDone
  <2>8. CASE \E u \in Unit : UnitDone(u) \/ UnitThrows(u)
    BY <2>8 DEF UnitDone, UnitThrows
  <2>9. CASE BehaviorEnter BY <2>9 DEF BehaviorEnter
  <2>10. CASE BehaviorCrawl BY <2>10 DEF BehaviorCrawl
  <2>11. CASE ReconcileDerive BY <2>11 DEF ReconcileDerive
  <2>12. CASE VerifyDerive BY <2>12 DEF VerifyDerive
  <2>13. CASE \E ph \in {"reconcile", "verify"} : DeriveEnter(ph) \/ DeriveFinish(ph)
    BY <2>13 DEF DeriveEnter, DeriveFinish
  <2>14. CASE BodyThrows BY <2>14 DEF BodyThrows
  <2> QED
    BY <2>1, <2>2, <2>3, <2>4, <2>5, <2>6, <2>7, <2>8, <2>9, <2>10, <2>11,
       <2>12, <2>13, <2>14 DEF BodyStep
<1> QED
  BY <1>1, <1>3, <1>4 DEF Calm

LEMMA RestIsCalm ==
    ASSUME IInv, \/ FlushDone \/ WriteSnapshot \/ AwaitLedger \/ EndRun \/ Tick
                 \/ (\E u \in Unit : LateUnit(u)) \/ UNCHANGED vars
    PROVE  /\ Calm /\ UNCHANGED <<stale, outcome>>
           /\ pc' = "body" => \/ pc' = pc /\ body' = body
                              \/ body' = "enter"
<1> USE DEF Calm, SameStatus, fileVars
<1>1. CASE FlushDone
  BY <1>1 DEF FlushDone, ledgerVars
<1>2. CASE WriteSnapshot
  BY <1>2 DEF WriteSnapshot
<1>3. CASE AwaitLedger \/ EndRun
  BY <1>3 DEF AwaitLedger, EndRun, ledgerVars
<1>4. CASE Tick \/ UNCHANGED vars
  BY <1>4 DEF Tick, vars, ledgerVars
<1>5. CASE \E u \in Unit : LateUnit(u)
  <2>1. PICK u \in Unit : LateUnit(u)
    BY <1>5
  <2>2. Good(current) /\ "structure" \in PhaseName
    BY DEF IInv, TypeOK, LedgersOK, Good, PhaseName
  <2>3. \A ph \in PhaseName : current'[ph].status = current[ph].status
    BY <2>1, <2>2, LateCounts, OtherEntries DEF ledgerVars
  <2> QED BY <2>1, <2>3 DEF LateUnit
<1> QED
  BY <1>1, <1>2, <1>3, <1>4, <1>5

LEMMA Moves ==
    ASSUME IInv, RanInLoop, [Next]_vars
    PROVE  \/ Outside \/ RecordBlocked \/ EnterLoop \/ SkipPhase \/ StartPhase \/ Settle
           \/ Calm
<1>1. CASE \/ StartCommand \/ ClearFile \/ ClearLedger \/ Load \/ Exit \/ Crash \/ EditIntent
  <2> USE DEF Outside, LoopState, RanInLoop, runVars
  <2>1. CASE StartCommand BY <1>1, <2>1 DEF StartCommand
  <2>2. CASE ClearFile BY <2>2 DEF ClearFile
  <2>3. CASE ClearLedger
    <3>1. pc = "clear" /\ (ProcessGone \/ (pc' = "load" /\ UNCHANGED <<runVars, todo>>))
      BY <2>3 DEF ClearLedger
    <3>2. CASE ProcessGone BY <3>2 DEF ProcessGone
    <3>3. CASE pc' = "load" /\ UNCHANGED <<runVars, todo>> BY <3>1, <3>3
    <3> QED BY <3>1, <3>2, <3>3
  <2>4. CASE Load BY <2>4 DEF Load, LoadInto
  <2>5. CASE Exit \/ Crash BY <2>5 DEF Exit, Crash, ProcessGone
  <2>6. CASE EditIntent BY <2>6 DEF EditIntent
  <2> QED BY <1>1, <2>1, <2>2, <2>3, <2>4, <2>5, <2>6
<1> QED
  BY <1>1, BodyIsCalm, RestIsCalm DEF Next, RunStep

\* What the two steps that move a phase to another status do.
LEMMA StatusMoves ==
    ASSUME IInv, StartPhase \/ Settle
    PROVE  /\ Phase \in PhaseName /\ todo # << >>
           /\ \A ph \in PhaseName : ph # Phase => current'[ph].status = current[ph].status
           /\ StartPhase => current'[Phase].status = "running"
           /\ Settle => current'[Phase].status = outcome
<1>1. /\ Phase \in PhaseName /\ todo # << >> /\ Good(current) /\ now \in Nat
      /\ outcome \in PhaseStatus /\ "running" \in PhaseStatus
  BY DEF StartPhase, Settle, SettleWith, IInv, TypeOK, LedgersOK, ProcessOK, WorkspaceOK,
         Good, Phase, PhaseStatus
<1>2. CASE StartPhase
  <2>1. current' = withPhaseStatus(current, Phase, "running", now)
    BY <1>2 DEF StartPhase
  <2>2. /\ Lifecycle!OnlyEntry(current, current', Phase)
        /\ current'[Phase].status = "running"
    BY <1>1, <2>1, StatusUpdate
  <2> QED BY <1>1, <1>2, <2>2, OtherEntries DEF StartPhase, Settle, SettleWith
<1>3. CASE Settle
  <2>1. current' = withPhaseStatus(current, Phase, outcome, now)
    BY <1>3 DEF Settle, SettleWith, Settled, Commit
  <2>2. /\ Lifecycle!OnlyEntry(current, current', Phase)
        /\ current'[Phase].status = outcome
    BY <1>1, <2>1, StatusUpdate
  <2> QED BY <1>1, <1>3, <2>2, OtherEntries DEF StartPhase, Settle, SettleWith
<1> QED
  BY <1>2, <1>3

-----------------------------------------------------------------------------
(* Where the run is. *)

LEMMA PositionStep ==
    ASSUME IInv, OrderInv, [Next]_vars
    PROVE  TodoAscends' /\ RanIsBehind' /\ RanInLoop'
<1>0. /\ todo \in Seq(PhaseName) /\ cmd.only \in Blockable \cup {"all"}
      /\ TodoAscends /\ RanIsBehind /\ RanInLoop
      /\ ran \subseteq PhaseName
      /\ pc \in {"flush", "body", "settle"} => todo # << >>
  BY DEF OrderInv, IInv, TypeOK, ProcessOK
<1>1. CASE Outside
  BY <1>0, <1>1 DEF Outside, LoopState, InHand, TodoAscends, RanIsBehind, RanInLoop
<1>2. CASE RecordBlocked
  BY <1>0, <1>2 DEF RecordBlocked, LoopState, InHand, TodoAscends, RanIsBehind, RanInLoop
<1>3. CASE EnterLoop
  <2>1. /\ pc' = "select" /\ todo' = phaseOrder(cmd.only) /\ ran' = {}
    BY <1>0, <1>3 DEF EnterLoop, runVars, RanInLoop, LoopState
  <2>2. TodoAscends'
    BY <1>0, <2>1, OrderAscends DEF TodoAscends
  <2> QED BY <2>1, <2>2 DEF RanIsBehind, RanInLoop, LoopState, InHand
<1>4. CASE SkipPhase \/ Settle
  <2>1. /\ todo # << >> /\ todo' = Tail(todo) /\ pc' = "select" /\ ran' = ran
        /\ pc \in {"select", "settle"}
    BY <1>0, <1>4 DEF SkipPhase, Settle, SettleWith, runVars
  <2>2. /\ Len(todo) \in Nat \ {0} /\ DOMAIN todo = 1..Len(todo)
        /\ DOMAIN todo' = 1..(Len(todo) - 1)
        /\ \A i \in 1..(Len(todo) - 1) : todo'[i] = todo[i + 1]
    BY <1>0, <2>1, TailOfTodo
  <2>3. \A i \in DOMAIN todo' : i + 1 \in DOMAIN todo /\ i + 1 # 1 /\ todo'[i] = todo[i + 1]
    BY <2>2
  <2>4. TodoAscends'
    <3> SUFFICES ASSUME NEW i \in DOMAIN todo', NEW j \in DOMAIN todo', i < j
                 PROVE  Rank(todo'[i]) < Rank(todo'[j])
      BY DEF TodoAscends
    <3>1. i + 1 \in DOMAIN todo /\ j + 1 \in DOMAIN todo /\ i + 1 < j + 1
      BY <2>2, <2>3
    <3> QED BY <1>0, <2>3, <3>1 DEF TodoAscends
  <2>5. RanIsBehind'
    BY <1>0, <2>1, <2>3 DEF RanIsBehind
  <2> QED BY <2>1, <2>4, <2>5 DEF RanInLoop, LoopState, InHand
<1>5. CASE StartPhase
  <2>1. /\ todo # << >> /\ todo' = todo /\ pc = "select" /\ pc' = "flush"
        /\ ran' = ran \cup {Phase} /\ structureFailed' = structureFailed /\ ~SkippedAfterFailure
    BY <1>5 DEF StartPhase, Skips
  <2>2. Phase' = Phase /\ Phase = todo[1] /\ DOMAIN todo = 1..Len(todo) /\ Len(todo) \in Nat
    BY <1>0, <2>1, TailOfTodo DEF Phase
  <2>3. \A i \in DOMAIN todo : i # 1 => 1 \in DOMAIN todo /\ 1 < i
    BY <2>2
  <2>4. RanIsBehind'
    BY <1>0, <2>1, <2>2, <2>3 DEF RanIsBehind, TodoAscends, InHand
  <2> QED BY <1>0, <2>1, <2>2, <2>4 DEF TodoAscends, RanInLoop, LoopState, InHand,
             SkippedAfterFailure
<1>6. CASE Calm
  <2>1. Phase' = Phase /\ (SkippedAfterFailure' <=> SkippedAfterFailure)
    BY <1>6 DEF Calm, Phase, SkippedAfterFailure, runVars
  <2>2. UNCHANGED <<todo, ran, structureFailed>>
    BY <1>6 DEF Calm, runVars
  <2> QED BY <1>0, <1>6, <2>1, <2>2 DEF Calm, TodoAscends, RanIsBehind, RanInLoop,
             LoopState, InHand
<1> QED
  BY <1>0, <1>1, <1>2, <1>3, <1>4, <1>5, <1>6, Moves

LEMMA FailureStep ==
    ASSUME IInv, OrderInv, [Next]_vars
    PROVE  FailureKnown'
<1>0. /\ todo \in Seq(PhaseName) /\ RanIsBehind /\ RanInLoop /\ FailureKnown
      /\ "structure" \in PhaseName
  BY DEF OrderInv, IInv, TypeOK, ProcessOK, PhaseName
<1>1. CASE Outside \/ RecordBlocked
  BY <1>1 DEF Outside, RecordBlocked, FailureKnown, LoopState
<1>2. CASE EnterLoop
  BY <1>0, <1>2 DEF EnterLoop, runVars, RanInLoop, FailureKnown, LoopState, InHand
<1>3. CASE SkipPhase
  BY <1>0, <1>3 DEF SkipPhase, ledgerVars, runVars, FailureKnown, LoopState, InHand
<1>4. CASE StartPhase
  <2>1. /\ todo # << >> /\ todo' = todo /\ pc = "select" /\ pc' = "flush"
        /\ ran' = ran \cup {Phase} /\ structureFailed' = structureFailed
    BY <1>4 DEF StartPhase
  <2>2. Phase' = Phase /\ Phase = todo[1] /\ 1 \in DOMAIN todo
    BY <1>0, <2>1, TailOfTodo DEF Phase
  <2>3. structureFailed <=> "structure" \in ran /\ current["structure"].status = "failed"
    BY <1>0, <2>1 DEF FailureKnown, LoopState, InHand
  <2>4. CASE Phase = "structure"
    <3>1. "structure" \notin ran
      <4> SUFFICES ASSUME "structure" \in ran PROVE FALSE
        OBVIOUS
      <4>1. Rank("structure") < Rank(todo[1])
        BY <1>0, <2>1, <2>2 DEF RanIsBehind, InHand
      <4>2. Rank("structure") = 2 /\ Rank(todo[1]) = 2
        BY <2>2, <2>4, RankFacts
      <4> QED BY <4>1, <4>2
    <3> QED BY <2>1, <2>2, <2>3, <2>4, <3>1 DEF FailureKnown, InHand
  <2>5. CASE Phase # "structure"
    BY <1>0, <1>4, <2>1, <2>2, <2>3, <2>5, StatusMoves DEF FailureKnown
  <2> QED BY <2>4, <2>5
<1>5. CASE Settle
  <2>1. /\ pc = "settle" /\ pc' = "select" /\ ran' = ran
        /\ structureFailed' = (structureFailed \/ StructureBroke)
    BY <1>5 DEF Settle, SettleWith
  <2>2. CASE Phase = "structure"
    <3>1. "structure" \in ran /\ ~structureFailed
      BY <1>0, <2>1, <2>2 DEF RanInLoop, FailureKnown, LoopState, InHand
    <3>2. current'["structure"].status = outcome
      BY <1>5, <2>2, StatusMoves
    <3> QED BY <2>1, <2>2, <3>1, <3>2 DEF FailureKnown, InHand, StructureBroke
  <2>3. CASE Phase # "structure"
    <3>1. structureFailed <=> "structure" \in ran /\ current["structure"].status = "failed"
      BY <1>0, <2>1, <2>3 DEF FailureKnown, LoopState, InHand
    <3>2. current'["structure"].status = current["structure"].status
      BY <1>0, <1>5, <2>3, StatusMoves
    <3> QED BY <2>1, <2>3, <3>1, <3>2 DEF FailureKnown, InHand, StructureBroke
  <2> QED BY <2>2, <2>3
<1>6. CASE Calm
  <2>1. /\ Phase' = Phase /\ UNCHANGED <<ran, structureFailed>>
        /\ current'["structure"].status = current["structure"].status
    BY <1>0, <1>6 DEF Calm, Phase, runVars, SameStatus
  <2> QED BY <1>0, <1>6, <2>1 DEF Calm, FailureKnown, LoopState, InHand
<1> QED
  BY <1>0, <1>1, <1>2, <1>3, <1>4, <1>5, <1>6, Moves

LEMMA BlockedStep ==
    ASSUME IInv, OrderInv, [Next]_vars
    PROVE  BlockedStays'
<1>0. /\ BlockedStays /\ RanInLoop /\ unrecorded \subseteq blocked /\ blocked \subseteq PhaseName
      /\ Good(current) /\ now \in Nat
  BY DEF OrderInv, IInv, TypeOK, ProcessOK, LedgersOK, WorkspaceOK, Good, Blockable, PhaseName
<1> USE DEF LoopState
<1>1. CASE Outside
  BY <1>1 DEF Outside, BlockedStays
<1>2. CASE RecordBlocked
  <2>1. PICK ph \in unrecorded : /\ current' = withPhaseStatus(current, ph, "blocked", now)
                                 /\ unrecorded' = unrecorded \ {ph}
    BY <1>2 DEF RecordBlocked, Commit
  <2>2. ph \in PhaseName /\ "blocked" \in PhaseStatus
    BY <1>0 DEF PhaseStatus
  <2>3. /\ Lifecycle!OnlyEntry(current, current', ph) /\ current'[ph].status = "blocked"
    BY <1>0, <2>1, <2>2, StatusUpdate
  <2>4. \A q \in PhaseName : q # ph => current'[q] = current[q]
    BY <1>0, <2>2, <2>3, OtherEntries
  <2>5. pc = "doctor" /\ pc' = "doctor" /\ ran' = ran /\ ran = {} /\ blocked' = blocked
    BY <1>0, <1>2 DEF RecordBlocked, RanInLoop
  <2> QED BY <1>0, <2>1, <2>3, <2>4, <2>5 DEF BlockedStays
<1>3. CASE EnterLoop \/ SkipPhase
  BY <1>0, <1>3 DEF EnterLoop, SkipPhase, ledgerVars, runVars, BlockedStays
<1>4. CASE StartPhase
  <2>1. /\ pc = "select" /\ ran' = ran \cup {Phase} /\ UNCHANGED <<blocked, unrecorded>>
        /\ Phase \notin blocked
    BY <1>4 DEF StartPhase, Skips
  <2> QED BY <1>0, <1>4, <2>1, StatusMoves DEF BlockedStays
<1>5. CASE Settle
  <2>1. /\ pc = "settle" /\ UNCHANGED <<ran, blocked, unrecorded>> /\ Phase \in ran
    BY <1>0, <1>5 DEF Settle, SettleWith, RanInLoop, InHand
  <2>2. Phase \notin blocked \ unrecorded
    BY <1>0, <2>1 DEF BlockedStays
  <2> QED BY <1>0, <1>5, <2>1, <2>2, StatusMoves DEF BlockedStays
<1>6. CASE Calm
  <2>1. UNCHANGED <<ran, blocked, unrecorded>> /\ SameStatus(current')
        /\ (pc' \in LoopState <=> pc \in LoopState) /\ (pc' = "doctor" <=> pc = "doctor")
    BY <1>6 DEF Calm, runVars
  <2> QED BY <1>0, <2>1 DEF BlockedStays, SameStatus
<1> QED
  BY <1>0, <1>1, <1>2, <1>3, <1>4, <1>5, <1>6, Moves

-----------------------------------------------------------------------------
(* What the run has decided. *)

LEMMA HandledStep ==
    ASSUME IInv, OrderInv, [Next]_vars
    PROVE  HandledSettled'
<1> DEFINE Decided(ph) == IF structureFailed /\ DependsOnStructure(ph)
                          THEN ph \notin ran
                          ELSE current[ph].status \in {"completed", "failed", "blocked"}
<1>0. /\ todo \in Seq(PhaseName) /\ cmd.only \in Blockable \cup {"all"}
      /\ RanIsBehind /\ RanInLoop /\ FailureKnown /\ BlockedStays /\ HandledSettled
      /\ outcome \in {"completed", "blocked", "failed"} /\ structureFailed \in BOOLEAN
  BY DEF OrderInv, IInv, TypeOK, ProcessOK
<1>1. Asked \subseteq PhaseName
  BY <1>0, ListTypes DEF Asked
<1>2. CASE Outside \/ RecordBlocked
  BY <1>2 DEF Outside, RecordBlocked, HandledSettled, LoopState
<1>3. CASE EnterLoop
  <2>1. Asked' = Asked /\ todo' = phaseOrder(cmd.only)
    BY <1>3 DEF EnterLoop, runVars, Asked
  <2>2. phaseOrder(cmd.only) \in Seq(PhaseName)
    BY <1>0, ListTypes
  <2>3. Asked' \subseteq Left'
    BY <2>1, <2>2 DEF Asked, Left
  <2> QED BY <2>3 DEF HandledSettled
<1>4. CASE SkipPhase
  <2>1. /\ pc = "select" /\ todo # << >> /\ Skips /\ todo' = Tail(todo) /\ Asked' = Asked
        /\ UNCHANGED <<current, ran, structureFailed>>
    BY <1>4 DEF SkipPhase, ledgerVars, runVars, Asked
  <2>2. Left \subseteq Left' \cup {Phase}
    <3> SUFFICES ASSUME NEW i \in DOMAIN todo, i # 1 PROVE todo[i] \in Left'
      BY <1>0, <2>1, TailOfTodo DEF Left
    <3>1. i - 1 \in DOMAIN todo' /\ todo'[i - 1] = todo[i]
      BY <1>0, <2>1, TailOfTodo
    <3> QED BY <3>1 DEF Left
  <2>3. Phase \notin ran
    <3>1. 1 \in DOMAIN todo /\ Phase = todo[1] /\ Phase \in PhaseName
      BY <1>0, <2>1, TailOfTodo
    <3>2. Phase \in ran => Rank(Phase) < Rank(Phase)
      BY <1>0, <2>1, <3>1 DEF RanIsBehind, InHand
    <3> QED BY <3>1, <3>2, RankFacts
  <2>4. Decided(Phase)
    <3>1. CASE structureFailed /\ DependsOnStructure(Phase)
      BY <2>3, <3>1
    <3>2. CASE ~(structureFailed /\ DependsOnStructure(Phase))
      <4>1. SkippedAsFresh \/ Phase \in blocked
        BY <2>1, <3>2 DEF Skips, SkippedAfterFailure
      <4>2. Phase \in blocked => current[Phase].status = "blocked"
        BY <1>0, <2>1 DEF BlockedStays, LoopState
      <4> QED BY <3>2, <4>1, <4>2 DEF SkippedAsFresh
    <3> QED BY <3>1, <3>2
  <2>5. \A ph \in Asked \ Left : Decided(ph)
    BY <1>0, <2>1 DEF HandledSettled, LoopState
  <2> QED BY <2>1, <2>2, <2>4, <2>5 DEF HandledSettled
<1>5. CASE StartPhase
  <2>1. /\ pc = "select" /\ todo # << >> /\ todo' = todo /\ Asked' = Asked
        /\ ran' = ran \cup {Phase} /\ structureFailed' = structureFailed
    BY <1>5 DEF StartPhase, Asked
  <2>2. Left' = Left /\ Phase \in Left
    BY <1>0, <2>1, TailOfTodo DEF Left
  <2>3. \A ph \in Asked \ Left : Decided(ph)
    BY <1>0, <2>1 DEF HandledSettled, LoopState
  <2>4. \A ph \in Asked \ Left : ph # Phase /\ current'[ph].status = current[ph].status
    BY <1>1, <1>5, <2>2, StatusMoves
  <2> QED BY <2>1, <2>2, <2>3, <2>4 DEF HandledSettled
<1>6. CASE Settle
  <2>1. /\ pc = "settle" /\ todo # << >> /\ todo' = Tail(todo) /\ Asked' = Asked /\ ran' = ran
        /\ structureFailed' = (structureFailed \/ StructureBroke)
    BY <1>6, StatusMoves DEF Settle, SettleWith, Asked
  <2>2. Left \subseteq Left' \cup {Phase}
    <3> SUFFICES ASSUME NEW i \in DOMAIN todo, i # 1 PROVE todo[i] \in Left'
      BY <1>0, <2>1, TailOfTodo DEF Left
    <3>1. i - 1 \in DOMAIN todo' /\ todo'[i - 1] = todo[i]
      BY <1>0, <2>1, TailOfTodo
    <3> QED BY <3>1 DEF Left
  <2>3. /\ current'[Phase].status = outcome
        /\ \A ph \in Asked : ph # Phase => current'[ph].status = current[ph].status
    BY <1>1, <1>6, StatusMoves
  <2>4. ~(structureFailed' /\ DependsOnStructure(Phase))
    BY <1>0, <2>1 DEF RanInLoop, InHand, SkippedAfterFailure, StructureBroke, DependsOnStructure
  <2>5. ASSUME NEW ph \in Asked \ Left, ph # Phase
        PROVE  Decided(ph)'
    <3>1. Decided(ph)
      BY <1>0, <2>1, <2>5 DEF HandledSettled, LoopState
    <3>2. CASE structureFailed' = structureFailed
      BY <2>1, <2>3, <2>5, <3>1, <3>2
    <3>3. CASE StructureBroke /\ ~structureFailed
      <4>1. DependsOnStructure(ph) => ph \notin ran
        <5> SUFFICES ASSUME DependsOnStructure(ph), ph \in ran PROVE FALSE
          OBVIOUS
        <5>1. Rank(ph) > 2 /\ Rank(ph) \in Nat
          BY <1>1, RankFacts
        <5>2. Phase = todo[1] /\ 1 \in DOMAIN todo /\ Phase = "structure"
          BY <1>0, <2>1, <3>3, TailOfTodo DEF StructureBroke
        <5>3. Rank(ph) < Rank(todo[1])
          BY <1>0, <2>5, <5>2 DEF RanIsBehind
        <5>4. Rank(todo[1]) = 2
          BY <5>2, RankFacts
        <5> QED BY <5>1, <5>3, <5>4
      <4>2. current[ph].status \in {"completed", "failed", "blocked"}
        BY <3>1, <3>3
      <4> QED BY <2>1, <2>3, <2>5, <4>1, <4>2
    <3> QED BY <1>0, <2>1, <3>2, <3>3
  <2> QED BY <1>0, <2>1, <2>2, <2>3, <2>4, <2>5 DEF HandledSettled
<1>7. CASE Calm
  <2>1. /\ UNCHANGED <<Asked, Left, ran, structureFailed>> /\ SameStatus(current')
        /\ (pc' \in LoopState => pc \in LoopState)
    BY <1>7 DEF Calm, runVars, Asked, Left, LoopState
  <2> QED BY <1>0, <1>1, <2>1 DEF HandledSettled, SameStatus
<1> QED
  BY <1>0, <1>2, <1>3, <1>4, <1>5, <1>6, <1>7, Moves

\* While a body runs, only what it derives is brought up to date, and nothing
\* behind it is put out of date.
LEMMA DerivedInBody ==
    ASSUME IInv, OrderInv, BodyStep
    PROVE  DerivedStays'
<1>0. /\ RanIsBehind /\ RanInLoop /\ DerivedStays /\ todo \in Seq(PhaseName)
      /\ pc = "body" /\ todo # << >> /\ Calm
      /\ Phase \in PhaseName /\ current[Phase].status = "running"
  <2>1. pc = "body"
    BY BodyStaysInHand
  <2> QED BY <2>1, BodyIsCalm, PhaseInHand DEF OrderInv, IInv, TypeOK, ProcessOK, InHand
<1>1. /\ Phase' = Phase /\ ran' = ran /\ pc' \in {"body", "settle"}
      /\ \A ph \in PhaseName : current'[ph].status = current[ph].status
  BY <1>0, BodyStaysInHand DEF Calm, Phase, runVars, SameStatus
<1>2. ASSUME NEW ph \in {"reconcile", "verify"}, ph \in ran, ph # Phase
      PROVE  ph = "reconcile" /\ Phase = "verify"
  <2>1. 1 \in DOMAIN todo /\ Phase = todo[1]
    BY <1>0, TailOfTodo
  <2>2. Rank(ph) < Rank(Phase)
    BY <1>0, <1>2, <2>1 DEF RanIsBehind
  <2> QED BY <1>0, <2>2, RankFacts DEF PhaseName
<1>3. ASSUME NEW ph \in {"reconcile", "verify"}, ph \in ran, current[ph].status = "completed"
      PROVE  UpToDate(ph)'
  <2>1. ph = "reconcile" /\ Phase = "verify" /\ UpToDate(ph)
    BY <1>0, <1>2, <1>3 DEF DerivedStays, LoopState
  <2>2. stale' \subseteq stale \cup {"findings"}
    <3>1. \/ VerifyDerive \/ DeriveEnter("verify") \/ DeriveFinish("verify") \/ BodyThrows
      BY <2>1 DEF BodyStep, IntentEnter, IntentDraft, IntentSave, IntentNodes,
         IntentAggregates, StructureEnter, PassDone, UnitDone, UnitThrows, BehaviorEnter,
         BehaviorCrawl, ReconcileDerive, DeriveEnter, DeriveFinish, At
    <3> QED BY <3>1 DEF VerifyDerive, Write, DeriveEnter, DeriveFinish, BodyThrows, fileVars
  <2> QED BY <2>1, <2>2 DEF UpToDate, Layers, Blockable
<1>4. ASSUME NEW ph \in {"reconcile", "verify"},
             \/ pc' = "body" /\ Phase = ph /\ body' = "finish"
             \/ pc' = "settle" /\ Phase = ph /\ outcome' = "completed"
      PROVE  UpToDate(ph)'
  <2>1. \/ ph = "reconcile" /\ ReconcileDerive
        \/ ph = "verify" /\ VerifyDerive
        \/ DeriveFinish(ph)
    <3>1. ~(IntentEnter \/ IntentDraft \/ IntentSave \/ IntentNodes \/ IntentAggregates)
      BY <1>4 DEF IntentEnter, IntentDraft, IntentSave, IntentNodes, IntentAggregates, At
    <3>2. ~(\/ StructureEnter \/ PassDone \/ BehaviorEnter \/ BehaviorCrawl
            \/ \E u \in Unit : UnitDone(u) \/ UnitThrows(u))
      BY <1>4 DEF StructureEnter, PassDone, BehaviorEnter, BehaviorCrawl, UnitDone,
         UnitThrows, At
    <3>3. ~BodyThrows
      BY <1>4 DEF BodyThrows, Return
    <3>4. \A q \in {"reconcile", "verify"} : ~DeriveEnter(q)
      BY <1>0, <1>4 DEF DeriveEnter, Continue
    <3> QED BY <1>4, <3>1, <3>2, <3>3, <3>4 DEF BodyStep, DeriveFinish, ReconcileDerive,
            VerifyDerive, At
  <2>2. CASE \/ ph = "reconcile" /\ ReconcileDerive
             \/ ph = "verify" /\ VerifyDerive
    BY <2>2 DEF ReconcileDerive, VerifyDerive, Write, UpToDate, Layers, Blockable
  <2>3. CASE DeriveFinish(ph)
    BY <1>0, <2>3 DEF DeriveFinish, DerivedStays, fileVars, UpToDate
  <2> QED BY <2>1, <2>2, <2>3
<1> QED
  BY <1>1, <1>3, <1>4 DEF DerivedStays, At, PhaseName

LEMMA DerivedStep ==
    ASSUME IInv, OrderInv, [Next]_vars
    PROVE  DerivedStays'
<1>0. DerivedStays /\ RanInLoop /\ {"reconcile", "verify"} \subseteq PhaseName
  BY DEF OrderInv, PhaseName
<1> USE DEF LoopState
<1>1. CASE BodyStep
  BY <1>1, DerivedInBody
<1>2. CASE Outside \/ RecordBlocked \/ EnterLoop
  BY <1>0, <1>2 DEF Outside, RecordBlocked, EnterLoop, runVars, RanInLoop, DerivedStays, At
<1>3. CASE SkipPhase
  BY <1>0, <1>3 DEF SkipPhase, ledgerVars, runVars, fileVars, DerivedStays, At, UpToDate
<1>4. CASE StartPhase
  <2>1. /\ pc = "select" /\ pc' = "flush" /\ stale' = stale /\ ran' = ran \cup {Phase}
    BY <1>4 DEF StartPhase, fileVars
  <2> QED BY <1>0, <1>4, <2>1, StatusMoves DEF DerivedStays, At, UpToDate
<1>5. CASE Settle
  <2>1. /\ pc = "settle" /\ pc' = "select" /\ stale' = stale /\ ran' = ran
    BY <1>5 DEF Settle, SettleWith, fileVars
  <2> QED BY <1>0, <1>5, <2>1, StatusMoves DEF DerivedStays, At, UpToDate
<1>6. CASE \/ FlushDone \/ WriteSnapshot \/ AwaitLedger \/ EndRun \/ Tick
           \/ (\E u \in Unit : LateUnit(u)) \/ UNCHANGED vars
  <2>1. /\ Calm /\ UNCHANGED <<stale, outcome>>
        /\ pc' = "body" => \/ pc' = pc /\ body' = body
                           \/ body' = "enter"
    BY <1>6, RestIsCalm
  <2>2. /\ Phase' = Phase /\ ran' = ran /\ SameStatus(current')
        /\ pc' \in LoopState => pc \in LoopState
    BY <2>1 DEF Calm, Phase, runVars
  <2>3. pc' = "settle" => pc = "settle"
    BY <1>6 DEF FlushDone, WriteSnapshot, AwaitLedger, EndRun, Tick, LateUnit, vars
  <2> QED BY <1>0, <2>1, <2>2, <2>3 DEF SameStatus, DerivedStays, At, UpToDate
<1>7. CASE \/ StartCommand \/ ClearFile \/ ClearLedger \/ Load \/ Exit \/ Crash \/ EditIntent
  <2>1. pc' \notin LoopState
    BY <1>7 DEF StartCommand, ClearFile, ClearLedger, Load, LoadInto, Exit, Crash,
       EditIntent, ProcessGone
  <2> QED BY <2>1 DEF DerivedStays, At
<1> QED
  BY <1>1, <1>2, <1>3, <1>4, <1>5, <1>6, <1>7 DEF Next, RunStep

LEMMA OrderInitially == Init => OrderInv
  BY DEF Init, OrderInv, TodoAscends, RanIsBehind, RanInLoop, FailureKnown, BlockedStays,
     HandledSettled, DerivedStays, LoopState, InHand, At

LEMMA RunIsOrdered == Spec => []OrderInv
<1>1. IInv /\ OrderInv /\ [Next]_vars => OrderInv'
  <2> SUFFICES ASSUME IInv, OrderInv, [Next]_vars PROVE OrderInv'
    OBVIOUS
  <2>1. TodoAscends' /\ RanIsBehind' /\ RanInLoop'
    BY PositionStep
  <2>2. FailureKnown' /\ BlockedStays' /\ HandledSettled' /\ DerivedStays'
    BY FailureStep, BlockedStep, HandledStep, DerivedStep
  <2> QED BY <2>1, <2>2 DEF OrderInv
<1> QED
  BY <1>1, OrderInitially, RunInvariant, PTL DEF Spec

\* When a run that derived again ends, unified.json was derived from the layers
\* as they are, and the findings from that unified.json: the order of the phases
\* leaves nothing that could rewrite an input behind what derives from it.
THEOREM RunDerivedFromTheLatest == Spec => []DerivedFromTheLatest
<1>1. OrderInv => DerivedFromTheLatest
  BY DEF OrderInv, DerivedStays, UpToDate, LoopState, DerivedFromTheLatest
<1> QED
  BY <1>1, RunIsOrdered, PTL

\* When a run ends, every phase it was asked for has an outcome in the ledger, or
\* a broken structure phase of the same run shut it out and it did not run.
THEOREM RunEveryPhaseSettled == Spec => []EveryPhaseSettled
<1>1. OrderInv => EveryPhaseSettled
  <2> SUFFICES ASSUME OrderInv, pc = "ended" PROVE EveryPhaseSettled
    BY DEF EveryPhaseSettled
  <2>1. todo = << >>
    BY DEF OrderInv, RanInLoop
  <2>2. Left = {}
    BY <2>1 DEF Left
  <2>3. structureFailed <=> "structure" \in ran /\ current["structure"].status = "failed"
    BY DEF OrderInv, FailureKnown, LoopState, InHand
  <2>4. \A ph \in Asked :
           IF structureFailed /\ DependsOnStructure(ph)
           THEN ph \notin ran
           ELSE current[ph].status \in {"completed", "failed", "blocked"}
    BY <2>2 DEF OrderInv, HandledSettled, LoopState
  <2>5. \A i \in 1..Len(phaseOrder(cmd.only)) : phaseOrder(cmd.only)[i] \in Asked
    BY DEF Asked
  <2> QED BY <2>3, <2>4, <2>5 DEF EveryPhaseSettled
<1> QED
  BY <1>1, RunIsOrdered, PTL
=============================================================================
