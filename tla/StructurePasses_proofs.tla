----------------------- MODULE StructurePasses_proofs -----------------------
(***************************************************************************)
(* Proofs about the concurrency limiter, for every number of calls and     *)
(* every cap, and about the incremental structure analysis that uses two   *)
(* of them, for any set of units and repositories, any pass lists, any cap *)
(* and any number of runs, faults and crashes.                             *)
(***************************************************************************)
EXTENDS StructurePasses, Limiter, FiniteSetTheorems, TLAPS

-----------------------------------------------------------------------------
(* The limiter.                                                              *)

\* Waiting calls stand in the queue in the order they were made.
QueueInOrder ==
    \A i, j \in DOMAIN slots.queue :
        i < j => ticket[slots.queue[i]] < ticket[slots.queue[j]]

TicketsUsed == \A t \in Task : ticket[t] <= made

\* The inductive invariant: the properties alone are not inductive, because
\* what a release grants next depends on the order inside the queue.
LimiterInv ==
    /\ CallTypeOK
    /\ ActiveIsHolding
    /\ NoIdleSlot
    /\ NoOvertaking
    /\ QueueInOrder
    /\ TicketsUsed

-----------------------------------------------------------------------------
(* Lemmas about the operators of LimiterState.                              *)

\* Whatever option and environment say, a limiter has at least one slot.
LEMMA CapIsPositive ==
    ASSUME NEW option \in Options, NEW env \in Envs
    PROVE  ceiling(resolveClaudeCodeConcurrency(option, env)) \in Nat \ {0}
<1>1. \A o \in Options \cup Envs : o # << >> => o[1] \in Int
  BY CapAssumption
<1>2. resolveClaudeCodeConcurrency(option, env) \in Int
  BY <1>1 DEF resolveClaudeCodeConcurrency, DEFAULT_CLAUDE_CODE_MAX_CONCURRENCY
<1> QED
  BY <1>2 DEF ceiling

\* Appending to a queue adds one waiting call.
LEMMA AppendWaiting ==
    ASSUME NEW q \in Seq(Task), NEW t \in Task
    PROVE  {Append(q, t)[i] : i \in DOMAIN Append(q, t)} = {q[i] : i \in DOMAIN q} \cup {t}
<1> DEFINE r == Append(q, t)
<1>1. /\ DOMAIN q = 1..Len(q) /\ DOMAIN r = 1..(Len(q) + 1) /\ Len(q) \in Nat
      /\ \A i \in 1..Len(q) : r[i] = q[i]
      /\ r[Len(q) + 1] = t
  OBVIOUS
<1>2. {r[i] : i \in DOMAIN r} \subseteq {q[i] : i \in DOMAIN q} \cup {t}
  <2> SUFFICES ASSUME NEW i \in 1..(Len(q) + 1) PROVE r[i] \in {q[k] : k \in 1..Len(q)} \cup {t}
    BY <1>1
  <2>1. CASE i = Len(q) + 1  BY <2>1, <1>1
  <2>2. CASE i \in 1..Len(q) BY <2>2, <1>1
  <2> QED BY <2>1, <2>2, <1>1
<1>3. {q[i] : i \in DOMAIN q} \cup {t} \subseteq {r[i] : i \in DOMAIN r}
  <2>1. t \in {r[i] : i \in 1..(Len(q) + 1)}
    <3>1. Len(q) + 1 \in 1..(Len(q) + 1) BY <1>1
    <3> QED BY <3>1, <1>1
  <2>2. ASSUME NEW i \in 1..Len(q) PROVE q[i] \in {r[k] : k \in 1..(Len(q) + 1)}
    <3>1. i \in 1..(Len(q) + 1) BY <1>1
    <3> QED BY <3>1, <1>1
  <2> QED BY <2>1, <2>2, <1>1
<1> QED BY <1>2, <1>3

\* A queue is its head and its tail.
LEMMA HeadTailWaiting ==
    ASSUME NEW q \in Seq(Task), q # << >>
    PROVE  /\ Head(q) \in Task /\ Tail(q) \in Seq(Task)
           /\ {q[i] : i \in DOMAIN q} = {Head(q)} \cup {Tail(q)[i] : i \in DOMAIN Tail(q)}
<1> DEFINE r == Tail(q)
<1>1. /\ Len(q) \in Nat \ {0} /\ DOMAIN q = 1..Len(q)
      /\ r \in Seq(Task) /\ Len(r) = Len(q) - 1 /\ DOMAIN r = 1..(Len(q) - 1)
      /\ \A i \in 1..(Len(q) - 1) : r[i] = q[i + 1]
      /\ Head(q) = q[1] /\ q[1] \in Task
  OBVIOUS
<1>2. {q[i] : i \in DOMAIN q} \subseteq {Head(q)} \cup {r[i] : i \in DOMAIN r}
  <2> SUFFICES ASSUME NEW i \in 1..Len(q)
               PROVE  q[i] \in {Head(q)} \cup {r[k] : k \in 1..(Len(q) - 1)}
    BY <1>1
  <2>1. CASE i = 1 BY <2>1, <1>1
  <2>2. CASE i # 1
    <3>1. i - 1 \in 1..(Len(q) - 1) /\ (i - 1) + 1 = i BY <2>2, <1>1
    <3>2. r[i - 1] = q[i] BY <3>1, <1>1
    <3> QED BY <3>1, <3>2
  <2> QED BY <2>1, <2>2
<1>3. {Head(q)} \cup {r[i] : i \in DOMAIN r} \subseteq {q[i] : i \in DOMAIN q}
  <2>1. Head(q) \in {q[i] : i \in 1..Len(q)}
    <3>1. 1 \in 1..Len(q) BY <1>1
    <3> QED BY <3>1, <1>1
  <2>2. ASSUME NEW i \in 1..(Len(q) - 1) PROVE r[i] \in {q[k] : k \in 1..Len(q)}
    <3>1. i + 1 \in 1..Len(q) BY <1>1
    <3> QED BY <3>1, <1>1
  <2> QED BY <2>1, <2>2, <1>1
<1> QED BY <1>1, <1>2, <1>3
-----------------------------------------------------------------------------

LEMMA LimiterInitInv == LimiterInit => LimiterInv
<1> SUFFICES ASSUME LimiterInit PROVE LimiterInv
  OBVIOUS
<1>1. cap \in Nat \ {0}
  BY CapIsPositive DEF LimiterInit
<1>2. slots = [active |-> 0, queue |-> << >>] /\ Holding = {}
  BY DEF LimiterInit, noneActive, Holding
<1>3. Cardinality(Holding) = 0
  BY <1>2, FS_EmptySet
<1>4. CallTypeOK
  <2>1. slots \in [active : Nat, queue : Seq(Task)]
    BY <1>2
  <2>2. Waiting = {} /\ {t \in Task : state[t] = "queued"} = {}
    BY <1>2 DEF Waiting, LimiterInit
  <2> QED
    BY <1>1, <2>1, <2>2 DEF LimiterInit, CallTypeOK, CallState
<1>5. ActiveIsHolding
  BY <1>1, <1>2, <1>3 DEF ActiveIsHolding
<1>6. NoIdleSlot /\ NoOvertaking /\ QueueInOrder /\ TicketsUsed
  BY <1>2 DEF NoIdleSlot, NoOvertaking, QueueInOrder, TicketsUsed, LimiterInit
<1> QED
  BY <1>4, <1>5, <1>6 DEF LimiterInv

\* A call that finds a slot free finds nobody waiting, and takes the slot.
LEMMA CallAdmitted ==
    ASSUME LimiterInv, NEW t \in Task, Call(t), Admits(slots, cap)
    PROVE  LimiterInv'
<1> USE DEF LimiterInv
<1>1. /\ state[t] = "idle" /\ cap' = cap /\ made' = made + 1
      /\ state' = [state EXCEPT ![t] = "granted"]
      /\ ticket' = [ticket EXCEPT ![t] = made + 1]
      /\ slots' = [active |-> slots.active + 1, queue |-> slots.queue]
  BY DEF Call, acquire
<1>2. slots.queue = << >> /\ slots.active + 1 <= cap
  BY DEF NoIdleSlot, Admits, CallTypeOK
<1>3. slots'.queue = << >> /\ slots'.active = slots.active + 1
  BY <1>1, <1>2 DEF CallTypeOK
<1>4. \A u \in Task : state[u] # "queued" /\ state'[u] # "queued"
  BY <1>1, <1>2 DEF CallTypeOK, Waiting
<1>5. CallTypeOK'
  <2>1. slots' \in [active : Nat, queue : Seq(Task)]
    BY <1>1, <1>3 DEF CallTypeOK
  <2>2. state' \in [Task -> CallState] /\ ticket' \in [Task -> Nat]
    BY <1>1 DEF CallTypeOK, CallState
  <2>3. Waiting' = {} /\ {u \in Task : state'[u] = "queued"} = {}
    BY <1>3, <1>4 DEF Waiting
  <2> QED
    BY <1>1, <2>1, <2>2, <2>3 DEF CallTypeOK
<1>6. ActiveIsHolding'
  <2>1. Holding' = Holding \cup {t} /\ t \notin Holding
    BY <1>1 DEF Holding, CallTypeOK
  <2>2. IsFiniteSet(Holding)
    BY TaskAssumption, FS_Subset DEF Holding
  <2>3. Cardinality(Holding') = Cardinality(Holding) + 1
    BY <2>1, <2>2, FS_AddElement
  <2> QED
    BY <1>1, <1>2, <1>3, <2>3 DEF ActiveIsHolding
<1>7. NoIdleSlot' /\ NoOvertaking' /\ QueueInOrder'
  BY <1>3, <1>4 DEF NoIdleSlot, NoOvertaking, QueueInOrder
<1>8. TicketsUsed'
  BY <1>1 DEF TicketsUsed, CallTypeOK
<1> QED
  BY <1>5, <1>6, <1>7, <1>8

\* A call that finds none free goes to the end of the queue, behind tickets
\* that are all smaller than its own.
LEMMA CallQueued ==
    ASSUME LimiterInv, NEW t \in Task, Call(t), ~Admits(slots, cap)
    PROVE  LimiterInv'
<1> USE DEF LimiterInv
<1>1. /\ state[t] = "idle" /\ cap' = cap /\ made' = made + 1
      /\ state' = [state EXCEPT ![t] = "queued"]
      /\ ticket' = [ticket EXCEPT ![t] = made + 1]
      /\ slots' = [active |-> slots.active, queue |-> Append(slots.queue, t)]
  BY DEF Call, acquire
<1>2. slots'.queue = Append(slots.queue, t) /\ slots'.active = slots.active
  BY <1>1 DEF CallTypeOK
<1>3. slots.queue \in Seq(Task) /\ Waiting' = Waiting \cup {t}
  <2> DEFINE q == slots.queue
  <2>1. q \in Seq(Task)
    BY DEF CallTypeOK
  <2>2. {Append(q, t)[i] : i \in DOMAIN Append(q, t)} = {q[i] : i \in DOMAIN q} \cup {t}
    BY <2>1, AppendWaiting
  <2> QED
    BY <1>2, <2>1, <2>2, Zenon DEF Waiting
<1>4. Holding' = Holding
  BY <1>1 DEF Holding, CallTypeOK
<1>5. CallTypeOK'
  <2>1. slots' \in [active : Nat, queue : Seq(Task)]
    BY <1>1, <1>3 DEF CallTypeOK
  <2>2. state' \in [Task -> CallState] /\ ticket' \in [Task -> Nat]
    BY <1>1 DEF CallTypeOK, CallState
  <2>3. Waiting' = {u \in Task : state'[u] = "queued"}
    BY <1>1, <1>3 DEF CallTypeOK
  <2> QED
    BY <1>1, <2>1, <2>2, <2>3 DEF CallTypeOK
<1>6. ActiveIsHolding' /\ NoIdleSlot'
  BY <1>1, <1>2, <1>4 DEF ActiveIsHolding, NoIdleSlot, Admits, CallTypeOK
<1>7. TicketsUsed'
  BY <1>1 DEF TicketsUsed, CallTypeOK
<1>8. NoOvertaking'
  BY <1>1 DEF NoOvertaking, TicketsUsed, CallTypeOK
<1>9. QueueInOrder'
  <2> DEFINE q == slots.queue
  <2>1. /\ Len(q) \in Nat /\ DOMAIN q = 1..Len(q) /\ DOMAIN slots'.queue = 1..(Len(q) + 1)
        /\ \A i \in 1..Len(q) : slots'.queue[i] = q[i] /\ q[i] \in Task
        /\ slots'.queue[Len(q) + 1] = t
    BY <1>2, <1>3
  <2>2. \A i \in 1..Len(q) : state[q[i]] = "queued" /\ q[i] # t
    BY <1>1, <2>1 DEF CallTypeOK, Waiting
  <2>3. \A i \in 1..Len(q) : ticket'[q[i]] = ticket[q[i]] /\ ticket[q[i]] < made + 1
    BY <1>1, <2>1, <2>2 DEF TicketsUsed, CallTypeOK
  <2>4. ticket'[t] = made + 1
    BY <1>1 DEF CallTypeOK
  <2> SUFFICES ASSUME NEW i \in 1..(Len(q) + 1), NEW j \in 1..(Len(q) + 1), i < j
               PROVE  ticket'[slots'.queue[i]] < ticket'[slots'.queue[j]]
    BY <2>1 DEF QueueInOrder
  <2>5. i \in 1..Len(q)
    BY <2>1
  <2>6. CASE j = Len(q) + 1
    BY <2>1, <2>3, <2>4, <2>5, <2>6
  <2>7. CASE j \in 1..Len(q)
    BY <2>1, <2>3, <2>5, <2>7 DEF QueueInOrder
  <2> QED
    BY <2>1, <2>6, <2>7
<1> QED
  BY <1>5, <1>6, <1>7, <1>8, <1>9
\* The await of an acquired slot resumes: nobody gains or loses a slot.
LEMMA StartInv ==
    ASSUME LimiterInv, NEW t \in Task, Start(t)
    PROVE  LimiterInv'
<1> USE DEF LimiterInv
<1>1. /\ state[t] = "granted" /\ state' = [state EXCEPT ![t] = "running"]
      /\ UNCHANGED <<cap, slots, ticket, made>>
  BY DEF Start
<1>2. Holding' = Holding /\ Waiting' = Waiting
  BY <1>1 DEF Holding, Waiting, CallTypeOK
<1>3. {u \in Task : state'[u] = "queued"} = {u \in Task : state[u] = "queued"}
  BY <1>1 DEF CallTypeOK
<1>4. CallTypeOK'
  BY <1>1, <1>2, <1>3 DEF CallTypeOK, CallState
<1>5. ActiveIsHolding' /\ NoIdleSlot' /\ QueueInOrder' /\ TicketsUsed'
  BY <1>1, <1>2 DEF ActiveIsHolding, NoIdleSlot, QueueInOrder, TicketsUsed
<1>6. NoOvertaking'
  BY <1>1 DEF NoOvertaking, CallTypeOK
<1> QED
  BY <1>4, <1>5, <1>6

\* A call ends while nobody waits: its slot becomes free.
LEMMA FinishFrees ==
    ASSUME LimiterInv, NEW t \in Task, Finish(t), slots.queue = << >>
    PROVE  LimiterInv'
<1> USE DEF LimiterInv
<1>1. /\ state[t] = "running" /\ UNCHANGED <<cap, ticket, made>>
      /\ slots' = [active |-> slots.active - 1, queue |-> << >>]
      /\ state' = [u \in Task |-> IF u = t THEN "done" ELSE state[u]]
  BY DEF Finish, release, Passed
<1>2. slots'.active = slots.active - 1 /\ slots'.queue = << >>
  BY <1>1
<1>3. \A u \in Task : state[u] # "queued" /\ state'[u] # "queued"
  BY <1>1 DEF CallTypeOK, Waiting
<1>4. /\ Holding' = Holding \ {t} /\ t \in Holding
      /\ IsFiniteSet(Holding)
  BY <1>1, TaskAssumption, FS_Subset DEF Holding, CallTypeOK
<1>5. Cardinality(Holding') = Cardinality(Holding) - 1 /\ Cardinality(Holding) \in Nat
  BY <1>4, FS_RemoveElement, FS_CardinalityType
<1>6. slots.active - 1 \in Nat
  <2>1. Cardinality(Holding) # 0
    BY <1>4, FS_EmptySet
  <2> QED
    BY <1>5, <2>1 DEF ActiveIsHolding
<1>7. CallTypeOK'
  <2>1. slots' \in [active : Nat, queue : Seq(Task)]
    BY <1>1, <1>6
  <2>2. state' \in [Task -> CallState]
    BY <1>1 DEF CallTypeOK, CallState
  <2>3. Waiting' = {} /\ {u \in Task : state'[u] = "queued"} = {}
    BY <1>2, <1>3 DEF Waiting
  <2> QED
    BY <1>1, <2>1, <2>2, <2>3 DEF CallTypeOK
<1>8. ActiveIsHolding'
  BY <1>1, <1>2, <1>5 DEF ActiveIsHolding, CallTypeOK
<1>9. NoIdleSlot' /\ NoOvertaking' /\ QueueInOrder' /\ TicketsUsed'
  BY <1>1, <1>2, <1>3 DEF NoIdleSlot, NoOvertaking, QueueInOrder, TicketsUsed
<1> QED
  BY <1>7, <1>8, <1>9

\* A call ends while others wait: the first of them holds the slot at once.
LEMMA FinishHandsOver ==
    ASSUME LimiterInv, NEW t \in Task, Finish(t), slots.queue # << >>
    PROVE  LimiterInv'
<1> USE DEF LimiterInv
<1> DEFINE q == slots.queue
           h == Head(q)
<1>1. /\ state[t] = "running" /\ UNCHANGED <<cap, ticket, made>>
      /\ slots' = [active |-> slots.active, queue |-> Tail(q)]
      /\ state' = [u \in Task |-> IF u = t THEN "done"
                                  ELSE IF u = h THEN "granted" ELSE state[u]]
  BY DEF Finish, release, Passed
<1>2. slots'.active = slots.active /\ slots'.queue = Tail(q)
  BY <1>1
<1>3. /\ q \in Seq(Task) /\ h \in Task /\ Tail(q) \in Seq(Task)
      /\ {q[i] : i \in DOMAIN q} = {h} \cup {Tail(q)[i] : i \in DOMAIN Tail(q)}
  BY HeadTailWaiting DEF CallTypeOK
<1>4. Waiting = {h} \cup Waiting'
  BY <1>2, <1>3, Zenon DEF Waiting
<1>5. state[h] = "queued" /\ h # t
  BY <1>1, <1>3, <1>4 DEF CallTypeOK
<1>6. /\ Len(q) \in Nat \ {0} /\ DOMAIN q = 1..Len(q)
      /\ DOMAIN Tail(q) = 1..(Len(q) - 1)
      /\ \A i \in 1..(Len(q) - 1) : Tail(q)[i] = q[i + 1]
      /\ h = q[1]
  BY <1>3
\* h is out of the queue: every other waiting call has a larger ticket.
<1>7. \A u \in Waiting' : ticket[h] < ticket[u]
  <2> SUFFICES ASSUME NEW i \in 1..(Len(q) - 1) PROVE ticket[h] < ticket[Tail(q)[i]]
    BY <1>2, <1>6 DEF Waiting
  <2>1. 1 \in DOMAIN q /\ i + 1 \in DOMAIN q /\ 1 < i + 1
    BY <1>6
  <2> QED
    BY <1>6, <2>1 DEF QueueInOrder
<1>8. Waiting' = Waiting \ {h}
  <2>1. h \notin Waiting'
    BY <1>3, <1>7 DEF CallTypeOK
  <2> QED
    BY <1>4, <2>1
<1>9. CallTypeOK'
  <2>1. slots' \in [active : Nat, queue : Seq(Task)]
    BY <1>1, <1>3 DEF CallTypeOK
  <2>2. state' \in [Task -> CallState]
    BY <1>1 DEF CallTypeOK, CallState
  <2>3. Waiting' = {u \in Task : state'[u] = "queued"}
    BY <1>1, <1>5, <1>8 DEF CallTypeOK
  <2> QED
    BY <1>1, <2>1, <2>2, <2>3 DEF CallTypeOK
<1>10. ActiveIsHolding'
  <2>1. Holding' = (Holding \ {t}) \cup {h} /\ t \in Holding /\ h \notin Holding \ {t}
    BY <1>1, <1>3, <1>5 DEF Holding, CallTypeOK
  <2>2. IsFiniteSet(Holding) /\ IsFiniteSet(Holding \ {t})
    BY TaskAssumption, FS_Subset DEF Holding
  <2>3. Cardinality(Holding \ {t}) = Cardinality(Holding) - 1
    BY <2>1, <2>2, FS_RemoveElement
  <2>4. Cardinality(Holding') = Cardinality(Holding \ {t}) + 1
    BY <2>1, <2>2, FS_AddElement
  <2>5. Cardinality(Holding) \in Nat
    BY <2>2, FS_CardinalityType
  <2> QED
    BY <1>1, <1>2, <2>3, <2>4, <2>5 DEF ActiveIsHolding
<1>11. NoIdleSlot' /\ TicketsUsed'
  BY <1>1, <1>2 DEF NoIdleSlot, TicketsUsed
<1>12. NoOvertaking'
  <2> SUFFICES ASSUME NEW u \in Task, NEW v \in Task, state'[u] = "queued",
                      state'[v] \in {"granted", "running", "done"}
               PROVE  ticket[v] < ticket[u]
    BY <1>1 DEF NoOvertaking
  <2>1. state[u] = "queued" /\ u \in Waiting'
    BY <1>1, <1>9 DEF CallTypeOK
  <2>2. CASE v = h
    BY <1>7, <2>1, <2>2
  <2>3. CASE v # h
    <3>1. state[v] \in {"granted", "running", "done"}
      BY <1>1, <2>3
    <3> QED
      BY <2>1, <3>1 DEF NoOvertaking
  <2> QED
    BY <2>2, <2>3
<1>13. QueueInOrder'
  <2> SUFFICES ASSUME NEW i \in 1..(Len(q) - 1), NEW j \in 1..(Len(q) - 1), i < j
               PROVE  ticket[Tail(q)[i]] < ticket[Tail(q)[j]]
    BY <1>1, <1>2, <1>6 DEF QueueInOrder
  <2>1. i + 1 \in DOMAIN q /\ j + 1 \in DOMAIN q /\ i + 1 < j + 1
    BY <1>6
  <2> QED
    BY <1>6, <2>1 DEF QueueInOrder
<1> QED
  BY <1>9, <1>10, <1>11, <1>12, <1>13

LEMMA LimiterNextInv == LimiterInv /\ [LimiterNext]_limiterVars => LimiterInv'
<1> SUFFICES ASSUME LimiterInv, [LimiterNext]_limiterVars PROVE LimiterInv'
  OBVIOUS
<1>1. ASSUME NEW t \in Task, Call(t) PROVE LimiterInv'
  BY <1>1, CallAdmitted, CallQueued
<1>2. ASSUME NEW t \in Task, Start(t) PROVE LimiterInv'
  BY <1>2, StartInv
<1>3. ASSUME NEW t \in Task, Finish(t) PROVE LimiterInv'
  BY <1>3, FinishFrees, FinishHandsOver
<1>4. CASE UNCHANGED limiterVars
  <2>1. UNCHANGED <<cap, slots, state, ticket, made>>
    BY <1>4 DEF limiterVars
  <2>2. Holding' = Holding /\ Waiting' = Waiting
    BY <2>1 DEF Holding, Waiting
  <2> QED
    BY <2>1, <2>2 DEF LimiterInv, CallTypeOK, ActiveIsHolding, NoIdleSlot, NoOvertaking,
                      QueueInOrder, TicketsUsed
<1> QED
  BY <1>1, <1>2, <1>3, <1>4 DEF LimiterNext

LEMMA LimiterInductive == LimiterSpec => []LimiterInv
  BY LimiterInitInv, LimiterNextInv, PTL DEF LimiterSpec

\* makeLimiter keeps its closure state consistent, whatever the callers do.
THEOREM LimiterTypeOK == LimiterSpec => []CallTypeOK
<1>1. LimiterInv => CallTypeOK
  BY DEF LimiterInv
<1> QED
  BY LimiterInductive, <1>1, PTL

\* At most the resolved cap of tasks ever run at once.
THEOREM LimiterBounded == LimiterSpec => []ActiveIsHolding
<1>1. LimiterInv => ActiveIsHolding
  BY DEF LimiterInv
<1> QED
  BY LimiterInductive, <1>1, PTL

\* The limiter never leaves a slot idle while a call waits.
THEOREM LimiterWorkConserving == LimiterSpec => []NoIdleSlot
<1>1. LimiterInv => NoIdleSlot
  BY DEF LimiterInv
<1> QED
  BY LimiterInductive, <1>1, PTL

\* The limiter is first come, first served.
THEOREM LimiterFirstComeFirstServed == LimiterSpec => []NoOvertaking
<1>1. LimiterInv => NoOvertaking
  BY DEF LimiterInv
<1> QED
  BY LimiterInductive, <1>1, PTL

-----------------------------------------------------------------------------
(* The structure analysis.                                                   *)

Arguments ==
    /\ args \in [passes : Seq(1..3), force : BOOLEAN, online : BOOLEAN]
    /\ args.passes # << >>

LimiterType == [active : Int, queue : Seq(Unit)]

\* Who waits in a limiter's queue is at the stage s, and waits there once.
WaitsAt(l, where, s) ==
    /\ \A i \in 1..Len(l.queue) : where[l.queue[i]] = s
    /\ \A i, j \in 1..Len(l.queue) : l.queue[i] = l.queue[j] => i = j

Limiters ==
    /\ fanout \in LimiterType /\ calls \in LimiterType
    /\ WaitsAt(fanout, stage, "queued")
    /\ WaitsAt(calls, stage, "waiting")

\* Only units of the repository being analysed are under way.
OneRepoAtATime ==
    /\ \A u \in Unit : stage[u] # "none" => RepoOf[u] = repo
    /\ pc # "idle" => repo # 0

\* A unit served from the cache, or done in a pass that goes on, is in the cache.
SettledIsCached ==
    \A u \in Unit :
        stage[u] = "served" \/ (stage[u] = "final" /\ pc = "pass") =>
            Entry(u, hash[u], Pass, frag[u]) \in cache

PerRepoType == perRepo \in [1..Repos -> SUBSET Fact]

\* The first inductive invariant: whom a limiter lets through next, and what
\* the cache holds for units that are only on their way to the barrier.
IInv ==
    /\ TypeOK
    /\ Arguments
    /\ PerRepoType
    /\ Limiters
    /\ OneRepoAtATime
    /\ SettledIsCached

-----------------------------------------------------------------------------
(* Lemmas about the limiters. *)

\* The calls of one pass that do not get a slot wait, each once.
LEMMA AcquireAllType ==
    ASSUME NEW S \in SUBSET Unit
    PROVE  /\ acquireAll(S, Cap) \in LimiterType
           /\ ToSet(acquireAll(S, Cap).queue) \subseteq S
           /\ \A i, j \in 1..Len(acquireAll(S, Cap).queue) :
                 acquireAll(S, Cap).queue[i] = acquireAll(S, Cap).queue[j] => i = j
<1> DEFINE n == Cardinality(S)
           f == SetToSeq(S)
           q == SubSeq(f, Cap + 1, n)
<1>1. IsFiniteSet(S) /\ n \in Nat /\ ExistsBijection(1..n, S)
  BY UnitAssumption, FS_Subset, FS_CardinalityType
<1>2. \E g \in [1..n -> S] : IsInjective(g)
  BY <1>1 DEF ExistsBijection, Bijection, Injection
<1>3. f \in [1..n -> S] /\ IsInjective(f)
  BY <1>2 DEF SetToSeq
<1>4. f \in Seq(S) /\ Len(f) = n
  BY <1>1, <1>3
<1>5. CASE n <= Cap
  <2>1. acquireAll(S, Cap) = [active |-> n, queue |-> << >>]
    BY <1>5 DEF acquireAll
  <2> QED
    BY <2>1, <1>1 DEF LimiterType, ToSet
<1>6. CASE ~(n <= Cap)
  <2>1. acquireAll(S, Cap) = [active |-> Cap, queue |-> q]
    BY <1>6 DEF acquireAll
  <2>2. /\ Cap \in Nat /\ Cap < n
        /\ q \in Seq(S) /\ Len(q) = n - Cap
        /\ \A i \in 1..(n - Cap) : q[i] = f[Cap + i]
    BY <1>1, <1>3, <1>4, <1>6, UnitAssumption
  <2>3. \A i, j \in 1..(n - Cap) : q[i] = q[j] => i = j
    <3> SUFFICES ASSUME NEW i \in 1..(n - Cap), NEW j \in 1..(n - Cap), q[i] = q[j] PROVE i = j
      OBVIOUS
    <3>1. Cap + i \in 1..n /\ Cap + j \in 1..n /\ f[Cap + i] = f[Cap + j]
      BY <2>2, <1>1
    <3>2. Cap + i = Cap + j
      BY <3>1, <1>3 DEF IsInjective
    <3> QED BY <3>2, <2>2
  <2>4. q \in Seq(Unit) /\ ToSet(q) \subseteq S
    BY <2>2 DEF ToSet
  <2> QED
    BY <2>1, <2>2, <2>3, <2>4 DEF LimiterType
<1> QED BY <1>5, <1>6

\* Giving a slot back lets at most the oldest waiting call through.
LEMMA ReleaseType ==
    ASSUME NEW l \in LimiterType,
           \A i, j \in 1..Len(l.queue) : l.queue[i] = l.queue[j] => i = j
    PROVE  /\ release(l) \in LimiterType
           /\ \A i, j \in 1..Len(release(l).queue) :
                 release(l).queue[i] = release(l).queue[j] => i = j
           /\ \A i \in 1..Len(release(l).queue) :
                 /\ release(l).queue[i] \notin Passed(l)
                 /\ \E k \in 1..Len(l.queue) : release(l).queue[i] = l.queue[k]
           /\ \A v \in Passed(l) : \E k \in 1..Len(l.queue) : v = l.queue[k]
<1> DEFINE q == l.queue
           r == Tail(q)
<1>1. q \in Seq(Unit) /\ l.active \in Int
  BY DEF LimiterType
<1>2. CASE q = << >>
  BY <1>1, <1>2 DEF release, Passed, LimiterType
<1>3. CASE q # << >>
  <2>1. release(l) = [active |-> l.active, queue |-> r] /\ Passed(l) = {q[1]}
    BY <1>1, <1>3 DEF release, Passed
  <2>2. /\ Len(q) \in Nat \ {0} /\ r \in Seq(Unit) /\ Len(r) = Len(q) - 1
        /\ \A i \in 1..(Len(q) - 1) : r[i] = q[i + 1]
    BY <1>1, <1>3
  <2>3. release(l) \in LimiterType
    BY <2>1, <2>2, <1>1 DEF LimiterType
  <2>4. \A i, j \in 1..Len(r) : r[i] = r[j] => i = j
    <3> SUFFICES ASSUME NEW i \in 1..Len(r), NEW j \in 1..Len(r), r[i] = r[j] PROVE i = j
      OBVIOUS
    <3>1. i + 1 \in 1..Len(q) /\ j + 1 \in 1..Len(q) /\ q[i + 1] = q[j + 1]
      BY <2>2
    <3>2. i + 1 = j + 1
      BY <3>1
    <3> QED BY <3>2, <2>2
  <2>5. \A i \in 1..Len(r) : r[i] # q[1] /\ \E k \in 1..Len(q) : r[i] = q[k]
    <3> SUFFICES ASSUME NEW i \in 1..Len(r) PROVE r[i] # q[1] /\ \E k \in 1..Len(q) : r[i] = q[k]
      OBVIOUS
    <3>1. i + 1 \in 1..Len(q) /\ 1 \in 1..Len(q) /\ r[i] = q[i + 1] /\ i + 1 # 1
      BY <2>2
    <3>2. q[i + 1] # q[1]
      BY <3>1
    <3> QED BY <3>1, <3>2
  <2>6. 1 \in 1..Len(q)
    BY <2>2
  <2> QED
    BY <2>1, <2>3, <2>4, <2>5, <2>6
<1> QED BY <1>2, <1>3

\* A unit that ends its turn lets the oldest waiting one in.
LEMMA LeaveInv ==
    ASSUME IInv, NEW u \in Unit, stage[u] \in {"served", "parsed"}, Leave(u, "final"),
           UNCHANGED <<calls, repo>>, pc' # "idle" => repo' # 0
    PROVE  /\ stage' \in [Unit -> Stage] /\ stage'[u] = "final"
           /\ \A v \in Unit : v # u => stage'[v] \in {stage[v], "granted"}
           /\ Limiters' /\ OneRepoAtATime'
<1>1. /\ stage \in [Unit -> Stage] /\ fanout \in LimiterType /\ calls \in LimiterType
      /\ WaitsAt(fanout, stage, "queued") /\ WaitsAt(calls, stage, "waiting")
      /\ \A v \in Unit : stage[v] # "none" => RepoOf[v] = repo
  BY DEF IInv, TypeOK, Limiters, OneRepoAtATime
<1>2. /\ fanout' = release(fanout)
      /\ stage' = [v \in Unit |-> IF v = u THEN "final"
                                  ELSE IF v \in Passed(fanout) THEN "granted" ELSE stage[v]]
  BY DEF Leave
<1>3. \A i, j \in 1..Len(fanout.queue) : fanout.queue[i] = fanout.queue[j] => i = j
  BY <1>1 DEF WaitsAt
<1>4. \A v \in Passed(fanout) : v \in Unit /\ stage[v] = "queued"
  <2> SUFFICES ASSUME NEW v \in Passed(fanout) PROVE v \in Unit /\ stage[v] = "queued"
    OBVIOUS
  <2>1. PICK k \in 1..Len(fanout.queue) : v = fanout.queue[k]
    BY <1>1, <1>3, ReleaseType
  <2> QED BY <2>1, <1>1 DEF WaitsAt, LimiterType
<1>5. stage' \in [Unit -> Stage] /\ stage'[u] = "final"
  BY <1>1, <1>2 DEF Stage
<1>6. \A v \in Unit : v # u => stage'[v] \in {stage[v], "granted"}
  BY <1>1, <1>2
<1>7. WaitsAt(calls', stage', "waiting")
  <2>1. \A i \in 1..Len(calls.queue) : calls.queue[i] \in Unit /\ stage[calls.queue[i]] = "waiting"
    BY <1>1 DEF WaitsAt, LimiterType
  <2>2. \A v \in Unit : stage[v] = "waiting" => stage'[v] = "waiting"
    BY <1>1, <1>2, <1>4
  <2> QED BY <2>1, <2>2, <1>1 DEF WaitsAt
<1>8. fanout' \in LimiterType /\ WaitsAt(fanout', stage', "queued")
  <2>1. /\ fanout' \in LimiterType
        /\ \A i, j \in 1..Len(fanout'.queue) : fanout'.queue[i] = fanout'.queue[j] => i = j
        /\ \A i \in 1..Len(fanout'.queue) :
              /\ fanout'.queue[i] \notin Passed(fanout)
              /\ \E k \in 1..Len(fanout.queue) : fanout'.queue[i] = fanout.queue[k]
    BY <1>1, <1>2, <1>3, ReleaseType
  <2>2. \A k \in 1..Len(fanout.queue) : fanout.queue[k] \in Unit /\ stage[fanout.queue[k]] = "queued"
    BY <1>1 DEF WaitsAt, LimiterType
  <2>3. \A i \in 1..Len(fanout'.queue) : stage'[fanout'.queue[i]] = "queued"
    BY <2>1, <2>2, <1>2
  <2> QED BY <2>1, <2>3 DEF WaitsAt
<1>9. Limiters'
  BY <1>1, <1>7, <1>8 DEF Limiters
<1>10. OneRepoAtATime'
  <2>1. stage[u] # "none" /\ \A v \in Passed(fanout) : stage[v] # "none"
    BY <1>4
  <2> QED BY <2>1, <1>1, <1>2 DEF OneRepoAtATime
<1> QED BY <1>5, <1>6, <1>9, <1>10

\* At a fan-out no unit has come further than its limiter.
LEMMA FanOutInv ==
    ASSUME IInv, NEW r \in 1..Repos, NEW i, FanOut(r, i),
           \/ calls' = noneActive
           \/ calls' = calls /\ \A u \in Unit : stage[u] # "waiting"
    PROVE  /\ repo' = r /\ at' = i /\ pc' = "pass"
           /\ stage' \in [Unit -> {"none", "queued", "granted"}]
           /\ frag' = [u \in Unit |-> 0]
           /\ Limiters' /\ OneRepoAtATime'
<1> DEFINE lim == acquireAll(UnitsIn(r), Cap)
<1>1. /\ repo' = r /\ at' = i /\ pc' = "pass" /\ fanout' = lim
      /\ stage' = [u \in Unit |->
                    IF u \notin UnitsIn(r) THEN "none"
                    ELSE IF u \in ToSet(lim.queue) THEN "queued" ELSE "granted"]
      /\ frag' = [u \in Unit |-> 0]
  BY DEF FanOut
<1>2. UnitsIn(r) \in SUBSET Unit /\ \A u \in UnitsIn(r) : RepoOf[u] = r
  BY DEF UnitsIn
<1>3. /\ lim \in LimiterType /\ ToSet(lim.queue) \subseteq UnitsIn(r)
      /\ \A k, j \in 1..Len(lim.queue) : lim.queue[k] = lim.queue[j] => k = j
  BY <1>2, AcquireAllType
<1>4. stage' \in [Unit -> {"none", "queued", "granted"}]
  BY <1>1
<1>5. WaitsAt(fanout', stage', "queued")
  <2>1. \A k \in 1..Len(lim.queue) : lim.queue[k] \in ToSet(lim.queue)
    BY <1>3 DEF ToSet, LimiterType
  <2> QED BY <2>1, <1>1, <1>2, <1>3 DEF WaitsAt
<1>6. calls' \in LimiterType /\ calls'.queue = << >>
  <2>1. CASE calls' = noneActive
    BY <2>1 DEF noneActive, LimiterType
  <2>2. CASE calls' = calls /\ \A u \in Unit : stage[u] # "waiting"
    <3>1. calls \in LimiterType /\ WaitsAt(calls, stage, "waiting")
      BY DEF IInv, Limiters
    <3>2. calls.queue = << >>
      <4> SUFFICES ASSUME calls.queue # << >> PROVE FALSE
        OBVIOUS
      <4>1. 1 \in 1..Len(calls.queue) /\ calls.queue[1] \in Unit
        BY <3>1 DEF LimiterType
      <4> QED BY <4>1, <3>1, <2>2 DEF WaitsAt
    <3> QED BY <3>1, <3>2, <2>2
  <2> QED BY <2>1, <2>2
<1>7. Limiters'
  BY <1>1, <1>3, <1>5, <1>6 DEF Limiters, WaitsAt
<1>8. OneRepoAtATime'
  BY <1>1, <1>2 DEF OneRepoAtATime
<1> QED BY <1>1, <1>4, <1>7, <1>8

\* Without a process nothing is under way.
LEMMA GoneInv ==
    ASSUME Gone, IInv
    PROVE  /\ Arguments' /\ PerRepoType' /\ Limiters' /\ OneRepoAtATime' /\ SettledIsCached'
           /\ pc' = "idle" /\ repo' \in 0..Repos /\ at' \in 1..Len(args'.passes)
           /\ hash' \in [Unit -> Version]
           /\ stage' \in [Unit -> Stage] /\ frag' \in [Unit -> 0..MaxVersion]
<1>1. /\ args' = [passes |-> <<1>>, force |-> FALSE, online |-> FALSE]
      /\ pc' = "idle" /\ repo' = 0 /\ at' = 1 /\ hash' = [u \in Unit |-> 1]
      /\ perRepo' = [r \in 1..Repos |-> {}]
      /\ fanout' = noneActive /\ calls' = noneActive
      /\ stage' = [u \in Unit |-> "none"] /\ frag' = [u \in Unit |-> 0]
  BY DEF Gone
<1>2. <<1>> \in Seq(1..3) /\ <<1>> # << >> /\ Len(<<1>>) = 1
  OBVIOUS
<1>3. Arguments' /\ at' \in 1..Len(args'.passes)
  BY <1>1, <1>2 DEF Arguments
<1>4. Limiters'
  BY <1>1 DEF Limiters, WaitsAt, LimiterType, noneActive
<1>5. PerRepoType' /\ OneRepoAtATime' /\ SettledIsCached'
  BY <1>1 DEF PerRepoType, OneRepoAtATime, SettledIsCached
<1>6. repo' \in 0..Repos /\ 1 \in Version /\ 0 \in 0..MaxVersion
  BY <1>1, UnitAssumption, ArgumentAssumption DEF Version
<1> QED BY <1>1, <1>3, <1>4, <1>5, <1>6 DEF Stage

-----------------------------------------------------------------------------
(* The first invariant. *)

LEMMA InitInv == Init => IInv
<1> SUFFICES ASSUME Init PROVE IInv
  OBVIOUS
<1>1. /\ content = [u \in Unit |-> 1] /\ cache = {} /\ nodes = {} /\ partial = {}
      /\ edited = {} /\ runs = 0 /\ edits = 0 /\ faults = 0 /\ crashes = 0
      /\ args = [passes |-> <<1>>, force |-> FALSE, online |-> FALSE]
      /\ pc = "idle" /\ repo = 0 /\ at = 1 /\ hash = [u \in Unit |-> 1]
      /\ perRepo = [r \in 1..Repos |-> {}]
      /\ fanout = noneActive /\ calls = noneActive
      /\ stage = [u \in Unit |-> "none"] /\ frag = [u \in Unit |-> 0]
  BY DEF Init, NoProcess
<1>2. <<1>> \in Seq(1..3) /\ <<1>> # << >> /\ Len(<<1>>) = 1
  OBVIOUS
<1>3. Arguments /\ at \in 1..Len(args.passes)
  BY <1>1, <1>2 DEF Arguments
<1>4. Limiters
  BY <1>1 DEF Limiters, WaitsAt, LimiterType, noneActive
<1>5. PerRepoType /\ OneRepoAtATime /\ SettledIsCached
  BY <1>1 DEF PerRepoType, OneRepoAtATime, SettledIsCached
<1>6. 0 \in 0..Repos /\ 1 \in Version /\ 0 \in 0..MaxVersion
  BY UnitAssumption, ArgumentAssumption DEF Version
<1>7. 0 \in 0..MaxRuns /\ 0 \in 0..MaxEdits /\ 0 \in 0..MaxFaults /\ 0 \in 0..MaxCrashes
  BY ArgumentAssumption
<1>8. TypeOK
  BY <1>1, <1>3, <1>6, <1>7 DEF TypeOK, Stage
<1> QED BY <1>3, <1>4, <1>5, <1>8 DEF IInv

\* Hashing the units of the next repository.
LEMMA EnterRepoInv ==
    ASSUME IInv, NEW r \in 1..Repos, EnterRepo(r),
           \/ calls' = noneActive
           \/ calls' = calls /\ \A u \in Unit : stage[u] # "waiting"
    PROVE  /\ repo' = r /\ at' = 1 /\ pc' = "pass"
           /\ hash' \in [Unit -> Version]
           /\ stage' \in [Unit -> {"none", "queued", "granted"}]
           /\ frag' = [u \in Unit |-> 0]
           /\ Limiters' /\ OneRepoAtATime'
<1>1. FanOut(r, 1) /\ hash' = [u \in Unit |-> IF RepoOf[u] = r THEN content[u] ELSE hash[u]]
  BY DEF EnterRepo
<1>2. hash' \in [Unit -> Version]
  BY <1>1 DEF IInv, TypeOK
<1> QED BY <1>1, <1>2, FanOutInv

\* At a fan-out nothing is settled.
LEMMA FreshFanOut ==
    ASSUME stage' \in [Unit -> {"none", "queued", "granted"}], frag' = [u \in Unit |-> 0]
    PROVE  /\ SettledIsCached' /\ stage' \in [Unit -> Stage]
           /\ frag' \in [Unit -> 0..MaxVersion]
<1>1. 0 \in 0..MaxVersion
  BY ArgumentAssumption
<1> QED BY <1>1 DEF SettledIsCached, Stage

LEMMA StartRunInv == IInv /\ StartRun => IInv'
<1> SUFFICES ASSUME IInv, StartRun PROVE IInv'
  OBVIOUS
<1>1. /\ runs' = runs + 1 /\ runs < MaxRuns
      /\ perRepo' = [r \in 1..Repos |-> {}]
      /\ calls' = noneActive /\ EnterRepo(1)
      /\ UNCHANGED <<content, edited, cache, outputs, unparsed, edits, faults, crashes>>
  BY DEF StartRun
<1>2. PICK passes \in PassLists, force \in ForceArgs, online \in Providers :
         args' = [passes |-> passes, force |-> force, online |-> online]
  BY DEF StartRun
<1>3. Arguments' /\ 1 \in 1..Len(args'.passes)
  <2>1. passes \in Seq(1..3) /\ passes # << >> /\ force \in BOOLEAN /\ online \in BOOLEAN
    BY ArgumentAssumption
  <2> QED BY <1>2, <2>1 DEF Arguments
<1>4. 1 \in 1..Repos
  BY UnitAssumption
<1>5. /\ repo' = 1 /\ at' = 1 /\ pc' = "pass" /\ hash' \in [Unit -> Version]
      /\ stage' \in [Unit -> {"none", "queued", "granted"}]
      /\ frag' = [u \in Unit |-> 0] /\ Limiters' /\ OneRepoAtATime'
  BY <1>1, <1>4, EnterRepoInv
<1>6. SettledIsCached' /\ stage' \in [Unit -> Stage] /\ frag' \in [Unit -> 0..MaxVersion]
  BY <1>5, FreshFanOut
<1>7. PerRepoType'
  BY <1>1 DEF PerRepoType
<1>8. runs' \in 0..MaxRuns
  BY <1>1, ArgumentAssumption DEF IInv, TypeOK
<1>9. TypeOK'
  BY SMTT(30), <1>1, <1>3, <1>4, <1>5, <1>6, <1>8 DEF IInv, TypeOK, outputs
<1> QED BY <1>3, <1>5, <1>6, <1>7, <1>9 DEF IInv

LEMMA ServeCachedInv == ASSUME IInv, NEW u \in Unit, ServeCached(u) PROVE IInv'
<1>1. /\ stage[u] = "granted" /\ stage' = [stage EXCEPT ![u] = "served"]
      /\ UNCHANGED <<content, edited, cache, outputs, pc, args, repo, at, hash, perRepo, fanout,
                     calls, unparsed, bounds>>
  BY DEF ServeCached
<1>2. PICK e \in Cached(u, hash[u], Pass) : frag' = [frag EXCEPT ![u] = e.read]
  BY DEF ServeCached
<1>3. /\ e \in cache /\ e.unit = u /\ e.hash = hash[u] /\ e.pass = Pass
      /\ e \in [unit : Unit, hash : Version, pass : 1..3, read : 0..MaxVersion]
  BY <1>2 DEF Cached, IInv, TypeOK
<1>4. Entry(u, hash[u], Pass, e.read) = e
  BY <1>3 DEF Entry
<1>5. TypeOK'
  BY <1>1, <1>2, <1>3 DEF IInv, TypeOK, outputs, bounds, Stage
<1>6. Limiters' /\ OneRepoAtATime'
  BY SMTT(30), <1>1 DEF IInv, TypeOK, Limiters, LimiterType, WaitsAt, OneRepoAtATime
<1>7. SettledIsCached'
  <2>1. Pass' = Pass
    BY <1>1 DEF Pass
  <2>2. frag'[u] = e.read /\ \A v \in Unit : v # u => frag'[v] = frag[v] /\ stage'[v] = stage[v]
    BY <1>1, <1>2 DEF IInv, TypeOK
  <2> QED BY <1>1, <1>3, <1>4, <2>1, <2>2 DEF IInv, SettledIsCached, Entry
<1> QED BY <1>1, <1>5, <1>6, <1>7 DEF IInv, Arguments, PerRepoType

LEMMA FinishServedInv == ASSUME IInv, NEW u \in Unit, FinishServed(u) PROVE IInv'
<1>1. /\ stage[u] = "served" /\ Leave(u, "final")
      /\ UNCHANGED <<content, edited, cache, outputs, pc, args, repo, at, hash, perRepo, calls,
                     frag, unparsed, bounds>>
  BY DEF FinishServed
<1>2. /\ stage' \in [Unit -> Stage] /\ stage'[u] = "final"
      /\ \A v \in Unit : v # u => stage'[v] \in {stage[v], "granted"}
      /\ Limiters' /\ OneRepoAtATime'
  BY <1>1, LeaveInv DEF IInv, OneRepoAtATime
<1>3. TypeOK'
  BY <1>1, <1>2 DEF IInv, TypeOK, outputs, bounds
<1>4. SettledIsCached'
  <2>1. Pass' = Pass
    BY <1>1 DEF Pass
  <2> QED BY <1>1, <1>2, <2>1 DEF IInv, SettledIsCached, Entry
<1> QED BY <1>1, <1>2, <1>3, <1>4 DEF IInv, Arguments, PerRepoType

LEMMA ParseOfflineInv == ASSUME IInv, NEW u \in Unit, ParseOffline(u) PROVE IInv'
<1>1. /\ stage[u] = "granted" /\ stage' = [stage EXCEPT ![u] = "parsed"]
      /\ UNCHANGED <<content, edited, cache, outputs, pc, args, repo, at, hash, perRepo, fanout,
                     calls, frag, bounds>>
  BY DEF ParseOffline
<1>2. TypeOK'
  BY <1>1 DEF IInv, TypeOK, outputs, bounds, Stage
<1>3. Limiters' /\ OneRepoAtATime'
  BY SMTT(30), <1>1 DEF IInv, TypeOK, Limiters, LimiterType, WaitsAt, OneRepoAtATime
<1>4. SettledIsCached'
  <2>1. Pass' = Pass
    BY <1>1 DEF Pass
  <2> QED BY <1>1, <2>1 DEF IInv, TypeOK, SettledIsCached, Entry
<1> QED BY <1>1, <1>2, <1>3, <1>4 DEF IInv, Arguments, PerRepoType

LEMMA AskModelInv == ASSUME IInv, NEW u \in Unit, AskModel(u) PROVE IInv'
<1>1. /\ stage[u] = "granted" /\ calls' = acquire(calls, u, Cap)
      /\ stage' = [stage EXCEPT ![u] = IF Admits(calls, Cap) THEN "calling" ELSE "waiting"]
      /\ UNCHANGED <<content, edited, cache, outputs, pc, args, repo, at, hash, perRepo, fanout,
                     frag, unparsed, bounds>>
  BY DEF AskModel
<1>2. TypeOK'
  BY <1>1 DEF IInv, TypeOK, outputs, bounds, Stage
<1>3. Limiters'
  <2>1. /\ calls \in LimiterType /\ WaitsAt(calls, stage, "waiting")
        /\ fanout \in LimiterType /\ WaitsAt(fanout, stage, "queued")
        /\ stage \in [Unit -> Stage]
    BY DEF IInv, Limiters, TypeOK
  <2>2. WaitsAt(fanout', stage', "queued")
    BY <1>1, <2>1 DEF WaitsAt, LimiterType
  <2>3. CASE Admits(calls, Cap)
    <3>1. calls' = [active |-> calls.active + 1, queue |-> calls.queue]
      BY <1>1, <2>3 DEF acquire
    <3>2. calls' \in LimiterType /\ WaitsAt(calls', stage', "waiting")
      BY <3>1, <1>1, <2>1 DEF WaitsAt, LimiterType
    <3> QED BY <3>2, <2>1, <2>2, <1>1 DEF Limiters
  <2>4. CASE ~Admits(calls, Cap)
    <3> DEFINE q == calls.queue
               r == Append(q, u)
    <3>1. calls' = [active |-> calls.active, queue |-> r]
      BY <1>1, <2>4 DEF acquire
    <3>2. /\ q \in Seq(Unit) /\ r \in Seq(Unit) /\ Len(r) = Len(q) + 1 /\ Len(q) \in Nat
          /\ \A i \in 1..Len(q) : r[i] = q[i]
          /\ r[Len(q) + 1] = u
      BY <2>1 DEF LimiterType
    <3>3. \A i \in 1..Len(q) : q[i] # u /\ q[i] \in Unit /\ stage[q[i]] = "waiting"
      BY <2>1, <3>2, <1>1 DEF WaitsAt
    <3>4. \A i \in 1..Len(r) : stage'[r[i]] = "waiting"
      <4> SUFFICES ASSUME NEW i \in 1..Len(r) PROVE stage'[r[i]] = "waiting"
        OBVIOUS
      <4>1. CASE i \in 1..Len(q)
        BY <4>1, <3>2, <3>3, <1>1, <2>1
      <4>2. CASE i = Len(q) + 1
        BY <4>2, <3>2, <1>1, <2>1, <2>4
      <4> QED BY <4>1, <4>2, <3>2
    <3>5. \A i, j \in 1..Len(r) : r[i] = r[j] => i = j
      <4> SUFFICES ASSUME NEW i \in 1..Len(r), NEW j \in 1..Len(r), r[i] = r[j] PROVE i = j
        OBVIOUS
      <4>1. CASE i \in 1..Len(q) /\ j \in 1..Len(q)
        BY <4>1, <3>2, <2>1 DEF WaitsAt
      <4>2. CASE i \notin 1..Len(q) \/ j \notin 1..Len(q)
        BY <4>2, <3>2, <3>3
      <4> QED BY <4>1, <4>2
    <3>6. calls' \in LimiterType /\ WaitsAt(calls', stage', "waiting")
      BY <3>1, <3>2, <3>4, <3>5, <2>1 DEF WaitsAt, LimiterType
    <3> QED BY <3>6, <2>1, <2>2, <1>1 DEF Limiters
  <2> QED BY <2>3, <2>4
<1>4. OneRepoAtATime'
  BY <1>1 DEF IInv, TypeOK, OneRepoAtATime
<1>5. SettledIsCached'
  <2>1. Pass' = Pass
    BY <1>1 DEF Pass
  <2> QED BY <1>1, <2>1 DEF IInv, TypeOK, SettledIsCached, Entry
<1> QED BY <1>1, <1>2, <1>3, <1>4, <1>5 DEF IInv, Arguments, PerRepoType

LEMMA ModelRepliesInv == ASSUME IInv, NEW u \in Unit, ModelReplies(u) PROVE IInv'
<1>1. /\ stage[u] = "calling" /\ calls' = release(calls)
      /\ stage' = [v \in Unit |-> IF v = u THEN "parsed"
                                  ELSE IF v \in Passed(calls) THEN "calling" ELSE stage[v]]
      /\ frag' \in {frag, [frag EXCEPT ![u] = content[u]]}
      /\ \/ UNCHANGED faults
         \/ faults < MaxFaults /\ faults' = faults + 1
      /\ UNCHANGED <<content, edited, cache, outputs, pc, args, repo, at, hash, perRepo, fanout,
                     runs, edits, crashes>>
  BY DEF ModelReplies, Fault
<1>2. /\ stage \in [Unit -> Stage] /\ calls \in LimiterType /\ fanout \in LimiterType
      /\ WaitsAt(calls, stage, "waiting") /\ WaitsAt(fanout, stage, "queued")
  BY DEF IInv, TypeOK, Limiters
<1>3. \A i, j \in 1..Len(calls.queue) : calls.queue[i] = calls.queue[j] => i = j
  BY <1>2 DEF WaitsAt
<1>4. /\ calls' \in LimiterType
      /\ \A i, j \in 1..Len(calls'.queue) : calls'.queue[i] = calls'.queue[j] => i = j
      /\ \A i \in 1..Len(calls'.queue) :
            /\ calls'.queue[i] \notin Passed(calls)
            /\ \E k \in 1..Len(calls.queue) : calls'.queue[i] = calls.queue[k]
      /\ \A v \in Passed(calls) : \E k \in 1..Len(calls.queue) : v = calls.queue[k]
  <2>1. calls \in LimiterType
    BY <1>2
  <2>2. calls' = release(calls)
    BY <1>1
  <2> QED BY <2>1, <2>2, <1>3, ReleaseType
<1>5. \A k \in 1..Len(calls.queue) : calls.queue[k] \in Unit /\ stage[calls.queue[k]] = "waiting"
  BY <1>2 DEF WaitsAt, LimiterType
<1>6. \A v \in Passed(calls) : v \in Unit /\ stage[v] = "waiting"
  BY <1>4, <1>5
<1>7. TypeOK'
  <2>1. stage' \in [Unit -> Stage]
    BY <1>1, <1>2 DEF Stage
  <2>2. frag' \in [Unit -> 0..MaxVersion]
    <3>1. frag \in [Unit -> 0..MaxVersion] /\ content[u] \in 0..MaxVersion
      BY ArgumentAssumption DEF IInv, TypeOK, Version
    <3>2. CASE frag' = frag
      BY <3>1, <3>2
    <3>3. CASE frag' = [frag EXCEPT ![u] = content[u]]
      BY <3>1, <3>3
    <3> QED BY <3>2, <3>3, <1>1
  <2>3. faults' \in 0..MaxFaults
    BY <1>1, ArgumentAssumption DEF IInv, TypeOK
  <2> QED BY <1>1, <2>1, <2>2, <2>3 DEF IInv, TypeOK, outputs
<1>8. Limiters'
  <2>1. WaitsAt(calls', stage', "waiting")
    <3>1. \A i \in 1..Len(calls'.queue) : stage'[calls'.queue[i]] = "waiting"
      BY <1>1, <1>4, <1>5
    <3> QED BY <3>1, <1>4 DEF WaitsAt
  <2>2. WaitsAt(fanout', stage', "queued")
    <3>1. \A i \in 1..Len(fanout.queue) : fanout.queue[i] \in Unit /\ stage[fanout.queue[i]] = "queued"
      BY <1>2 DEF WaitsAt, LimiterType
    <3>2. \A v \in Unit : stage[v] = "queued" => stage'[v] = "queued"
      BY <1>1, <1>6
    <3> QED BY <3>1, <3>2, <1>1, <1>2 DEF WaitsAt
  <2> QED BY <2>1, <2>2, <1>1, <1>2, <1>4 DEF Limiters
<1>9. OneRepoAtATime'
  BY <1>1, <1>6 DEF IInv, OneRepoAtATime
<1>10. SettledIsCached'
  <2>1. Pass' = Pass
    BY <1>1 DEF Pass
  <2>2. \A v \in Unit : stage'[v] \in {"served", "final"} => stage'[v] = stage[v] /\ frag'[v] = frag[v]
    BY <1>1 DEF IInv, TypeOK
  <2> QED BY <1>1, <2>1, <2>2 DEF IInv, SettledIsCached, Entry
<1> QED BY <1>1, <1>7, <1>8, <1>9, <1>10 DEF IInv, Arguments, PerRepoType

\* Writing a fragment takes away no other key's.
LEMMA WriteFragmentType ==
    ASSUME IInv, NEW u \in Unit, writeFragment(u)
    PROVE  /\ cache' \subseteq [unit : Unit, hash : Version, pass : 1..3, read : 0..MaxVersion]
           /\ \A e, f \in cache' : e.unit = f.unit /\ e.hash = f.hash /\ e.pass = f.pass => e = f
           /\ Entry(u, hash[u], Pass, frag[u]) \in cache'
           /\ \A e \in cache : e.unit # u => e \in cache'
<1> DEFINE new == Entry(u, hash[u], Pass, frag[u])
<1>1. cache' = {e \in cache : ~(e.unit = u /\ e.hash = hash[u] /\ e.pass = Pass)} \cup {new}
  BY DEF writeFragment, Cached
<1>2. Pass \in 1..3
  BY DEF IInv, TypeOK, Arguments, Pass
<1>3. /\ new \in [unit : Unit, hash : Version, pass : 1..3, read : 0..MaxVersion]
      /\ new.unit = u /\ new.hash = hash[u] /\ new.pass = Pass
  BY <1>2 DEF IInv, TypeOK, Entry
<1>4. \A e, f \in cache : e.unit = f.unit /\ e.hash = f.hash /\ e.pass = f.pass => e = f
  BY DEF IInv, TypeOK
<1> HIDE DEF new
<1>5. cache' \subseteq [unit : Unit, hash : Version, pass : 1..3, read : 0..MaxVersion]
  BY <1>1, <1>3 DEF IInv, TypeOK
<1>6. \A e, f \in cache' : e.unit = f.unit /\ e.hash = f.hash /\ e.pass = f.pass => e = f
  BY <1>1, <1>3, <1>4
<1>7. new \in cache' /\ \A e \in cache : e.unit # u => e \in cache'
  BY <1>1
<1> QED BY <1>5, <1>6, <1>7 DEF new

LEMMA StoreFragmentInv == ASSUME IInv, NEW u \in Unit, StoreFragment(u) PROVE IInv'
<1>1. /\ stage[u] = "parsed" /\ writeFragment(u) /\ Leave(u, "final")
      /\ UNCHANGED <<content, edited, outputs, pc, args, repo, at, hash, perRepo, calls, frag,
                     unparsed, bounds>>
  BY DEF StoreFragment
<1>2. /\ stage' \in [Unit -> Stage] /\ stage'[u] = "final"
      /\ \A v \in Unit : v # u => stage'[v] \in {stage[v], "granted"}
      /\ Limiters' /\ OneRepoAtATime'
  BY <1>1, LeaveInv DEF IInv, OneRepoAtATime
<1>3. /\ cache' \subseteq [unit : Unit, hash : Version, pass : 1..3, read : 0..MaxVersion]
      /\ \A e, f \in cache' : e.unit = f.unit /\ e.hash = f.hash /\ e.pass = f.pass => e = f
      /\ Entry(u, hash[u], Pass, frag[u]) \in cache'
      /\ \A e \in cache : e.unit # u => e \in cache'
  BY <1>1, WriteFragmentType
<1>4. TypeOK'
  BY <1>1, <1>2, <1>3 DEF IInv, TypeOK, outputs, bounds
<1>5. SettledIsCached'
  <2>1. Pass' = Pass
    BY <1>1 DEF Pass
  <2>2. \A v \in Unit : Entry(v, hash[v], Pass, frag[v]).unit = v
    BY DEF Entry
  <2>3. \A v \in Unit : Entry(v, hash[v], Pass, frag[v])' = Entry(v, hash[v], Pass, frag[v])
    BY <1>1, <2>1 DEF Entry
  <2>4. ASSUME NEW v \in Unit,
               stage'[v] = "served" \/ (stage'[v] = "final" /\ pc' = "pass")
        PROVE  Entry(v, hash[v], Pass, frag[v]) \in cache'
    <3>1. CASE v = u
      BY <3>1, <1>3
    <3>2. CASE v # u
      <4>1. Entry(v, hash[v], Pass, frag[v]) \in cache
        BY <3>2, <2>4, <1>1, <1>2 DEF IInv, SettledIsCached
      <4> QED BY <4>1, <3>2, <2>2, <1>3
    <3> QED BY <3>1, <3>2
  <2> QED BY <2>3, <2>4 DEF SettledIsCached
<1> QED BY <1>1, <1>2, <1>4, <1>5 DEF IInv, Arguments, PerRepoType

LEMMA StoreThrowsInv == ASSUME IInv, NEW u \in Unit, StoreThrows(u) PROVE IInv'
<1>1. /\ stage[u] = "parsed" /\ faults < MaxFaults /\ faults' = faults + 1
      /\ Leave(u, "final") /\ pc' = "failed"
      /\ UNCHANGED <<content, edited, cache, outputs, args, repo, at, hash, perRepo, calls, frag,
                     unparsed, runs, edits, crashes>>
  BY DEF StoreThrows, Fault
<1>2. repo # 0
  BY <1>1, UnitAssumption DEF IInv, OneRepoAtATime
<1>3. /\ stage' \in [Unit -> Stage] /\ stage'[u] = "final"
      /\ \A v \in Unit : v # u => stage'[v] \in {stage[v], "granted"}
      /\ Limiters' /\ OneRepoAtATime'
  BY <1>1, <1>2, LeaveInv
<1>4. faults' \in 0..MaxFaults
  BY <1>1, ArgumentAssumption DEF IInv, TypeOK
<1>5. TypeOK'
  BY <1>1, <1>3, <1>4 DEF IInv, TypeOK, outputs
<1>6. SettledIsCached'
  <2>1. Pass' = Pass
    BY <1>1 DEF Pass
  <2> QED BY <1>1, <1>3, <2>1 DEF IInv, SettledIsCached, Entry
<1> QED BY <1>1, <1>3, <1>5, <1>6 DEF IInv, Arguments, PerRepoType

\* What a barrier merges are facts of the repository's units.
LEMMA MergeType ==
    ASSUME IInv
    PROVE  /\ mergeFragments(UnitsIn(repo)) \subseteq Fact
           /\ \A f \in mergeFragments(UnitsIn(repo)) :
                 f.unit \in UnitsIn(repo) /\ f.version = frag[f.unit]
<1>1. \A u \in Unit : frag[u] # 0 => frag[u] \in Version
  BY ArgumentAssumption DEF IInv, TypeOK, Version
<1>2. FactKind(Pass) \in {"route", "detail"}
  BY DEF FactKind
<1> QED BY <1>1, <1>2 DEF mergeFragments, UnitsIn, Fact

LEMMA PublishType ==
    ASSUME NEW extracts \in [1..Repos -> SUBSET Fact]
    PROVE  mergedExtract(extracts) \subseteq Fact
  BY DEF mergedExtract

LEMMA PassBarrierInv == IInv /\ PassBarrier => IInv'
<1> SUFFICES ASSUME IInv, PassBarrier PROVE IInv'
  OBVIOUS
<1>1. /\ pc = "pass" /\ \A u \in UnitsIn(repo) : stage[u] = "final"
      /\ perRepo' = [perRepo EXCEPT ![repo] = mergeFragments(UnitsIn(repo))]
      /\ nodes' = mergedExtract(perRepo')
      /\ partial' = IF Pass = 1 THEN {f \in nodes' : f.kind = "route"} ELSE partial
      /\ UNCHANGED <<content, edited, cache, args, calls, unparsed, bounds>>
  BY DEF PassBarrier
<1>2. \A u \in Unit : stage[u] # "waiting"
  BY <1>1 DEF IInv, OneRepoAtATime, UnitsIn
<1>3. PerRepoType' /\ nodes' \subseteq Fact /\ partial' \subseteq Fact
  <2>1. perRepo' \in [1..Repos -> SUBSET Fact]
    BY <1>1, MergeType DEF IInv, PerRepoType
  <2>2. nodes' \subseteq Fact
    BY <2>1, <1>1, PublishType
  <2> QED BY <1>1, <2>1, <2>2 DEF PerRepoType, IInv, TypeOK
<1>4. repo \in 1..Repos /\ Len(args.passes) \in Nat \ {0} /\ at \in 1..Len(args.passes)
  BY <1>1, UnitAssumption DEF IInv, TypeOK, OneRepoAtATime, Arguments
<1>5. ASSUME stage' \in [Unit -> {"none", "queued", "granted"}],
             frag' = [u \in Unit |-> 0], Limiters', OneRepoAtATime',
             pc' = "pass", repo' \in 1..Repos, at' \in 1..Len(args.passes),
             hash' \in [Unit -> Version]
      PROVE  IInv'
  <2>1. SettledIsCached' /\ stage' \in [Unit -> Stage] /\ frag' \in [Unit -> 0..MaxVersion]
    BY <1>5, FreshFanOut
  <2>2. TypeOK'
    <3>1. /\ content' \in [Unit -> Version]
          /\ cache' \subseteq [unit : Unit, hash : Version, pass : 1..3, read : 0..MaxVersion]
          /\ \A e, f \in cache' : e.unit = f.unit /\ e.hash = f.hash /\ e.pass = f.pass => e = f
      BY <1>1 DEF IInv, TypeOK
    <3>2. pc' \in {"idle", "pass", "done", "failed"} /\ repo' \in 0..Repos
          /\ at' \in 1..Len(args'.passes)
      BY <1>1, <1>5, UnitAssumption
    <3>3. \A r \in 1..Repos : perRepo'[r] \subseteq Fact
      BY <1>3 DEF PerRepoType
    <3>4. /\ edited' \subseteq Unit \X Version \X Version
          /\ runs' \in 0..MaxRuns /\ edits' \in 0..MaxEdits
          /\ faults' \in 0..MaxFaults /\ crashes' \in 0..MaxCrashes
      BY <1>1 DEF IInv, TypeOK, bounds
    <3> QED BY <3>1, <3>2, <3>3, <3>4, <1>3, <1>5, <2>1 DEF TypeOK
  <2> QED BY <1>1, <1>3, <1>5, <2>1, <2>2 DEF IInv, Arguments
<1>6. CASE at < Len(args.passes) /\ FanOut(repo, at + 1) /\ UNCHANGED hash
  <2>1. at + 1 \in 1..Len(args.passes)
    BY <1>4, <1>6
  <2>2. /\ repo' = repo /\ at' = at + 1 /\ pc' = "pass"
        /\ stage' \in [Unit -> {"none", "queued", "granted"}]
        /\ frag' = [u \in Unit |-> 0] /\ Limiters' /\ OneRepoAtATime'
    BY <1>1, <1>2, <1>4, <1>6, FanOutInv
  <2> QED BY <1>4, <1>5, <1>6, <2>1, <2>2 DEF IInv, TypeOK
<1>7. CASE at = Len(args.passes) /\ repo < Repos /\ EnterRepo(repo + 1)
  <2>1. repo + 1 \in 1..Repos /\ 1 \in 1..Len(args.passes)
    BY <1>4, <1>7, UnitAssumption
  <2>2. /\ repo' = repo + 1 /\ at' = 1 /\ pc' = "pass" /\ hash' \in [Unit -> Version]
        /\ stage' \in [Unit -> {"none", "queued", "granted"}]
        /\ frag' = [u \in Unit |-> 0] /\ Limiters' /\ OneRepoAtATime'
    BY <1>1, <1>2, <1>7, <2>1, EnterRepoInv
  <2> QED BY <1>5, <2>1, <2>2
<1>8. CASE /\ at = Len(args.passes) /\ repo = Repos
           /\ pc' = "done"
           /\ UNCHANGED <<repo, at, hash, fanout, stage, frag>>
  <2>1. TypeOK'
    <3>1. pc' \in {"idle", "pass", "done", "failed"}
      BY <1>8
    <3> QED BY <3>1, <1>1, <1>3, <1>8 DEF IInv, TypeOK, bounds, PerRepoType
  <2>2. Limiters' /\ OneRepoAtATime' /\ Arguments'
    BY <1>1, <1>8 DEF IInv, Limiters, WaitsAt, OneRepoAtATime, Arguments
  <2>3. SettledIsCached'
    BY <1>1, <1>2, <1>8 DEF IInv, SettledIsCached, Entry, Pass
  <2> QED BY <1>3, <2>1, <2>2, <2>3 DEF IInv
<1> QED BY <1>6, <1>7, <1>8 DEF PassBarrier

LEMMA BarrierThrowsInv == IInv /\ BarrierThrows => IInv'
<1> SUFFICES ASSUME IInv, BarrierThrows PROVE IInv'
  OBVIOUS
<1>1. /\ pc = "pass" /\ pc' = "failed" /\ faults < MaxFaults /\ faults' = faults + 1
      /\ UNCHANGED <<content, edited, cache, outputs, args, repo, at, hash, perRepo, fanout, calls,
                     stage, frag, unparsed, runs, edits, crashes>>
  BY DEF BarrierThrows, Fault
<1>2. faults' \in 0..MaxFaults
  BY <1>1, ArgumentAssumption DEF IInv, TypeOK
<1>3. TypeOK'
  BY <1>1, <1>2 DEF IInv, TypeOK, outputs
<1>4. Limiters' /\ OneRepoAtATime' /\ Arguments' /\ PerRepoType'
  BY <1>1 DEF IInv, Limiters, WaitsAt, OneRepoAtATime, Arguments, PerRepoType
<1>5. SettledIsCached'
  BY <1>1 DEF IInv, SettledIsCached, Entry, Pass
<1> QED BY <1>3, <1>4, <1>5 DEF IInv

LEMMA ExitInv == IInv /\ Exit => IInv'
<1> SUFFICES ASSUME IInv, Exit PROVE IInv'
  OBVIOUS
<1>1. Gone /\ UNCHANGED <<content, edited, cache, outputs, unparsed, bounds>>
  BY DEF Exit
<1> QED BY <1>1, GoneInv DEF IInv, TypeOK, outputs, bounds, PerRepoType

LEMMA CrashInv == IInv /\ Crash => IInv'
<1> SUFFICES ASSUME IInv, Crash PROVE IInv'
  OBVIOUS
<1>1. /\ Gone /\ crashes < MaxCrashes /\ crashes' = crashes + 1 /\ cache' \subseteq cache
      /\ UNCHANGED <<content, edited, outputs, unparsed, runs, edits, faults>>
  BY DEF Crash
<1>2. crashes' \in 0..MaxCrashes
  BY <1>1, ArgumentAssumption DEF IInv, TypeOK
<1> QED BY <1>1, <1>2, GoneInv DEF IInv, TypeOK, outputs, PerRepoType

LEMMA EditInv == ASSUME IInv, NEW u \in Edited, Edit(u) PROVE IInv'
<1>1. PICK v \in 1..MaxVersion :
          /\ content' = [content EXCEPT ![u] = v]
          /\ edited' = IF RepoOf[u] = repo THEN edited \cup {<<u, hash[u], v>>} ELSE edited
  BY DEF Edit
<1>2. /\ UNCHANGED <<cache, outputs, process, unparsed, runs, faults, crashes>>
      /\ edits < MaxEdits /\ edits' = edits + 1
  BY DEF Edit
<1>3. TypeOK'
  <2>1. u \in Unit /\ v \in Version /\ hash[u] \in Version
    BY UnitAssumption DEF IInv, TypeOK, Version
  <2>2. content' \in [Unit -> Version] /\ edited' \subseteq Unit \X Version \X Version
    BY <1>1, <2>1 DEF IInv, TypeOK
  <2>3. edits' \in 0..MaxEdits
    BY <1>2, ArgumentAssumption DEF IInv, TypeOK
  <2> QED BY <1>2, <2>2, <2>3 DEF IInv, TypeOK, outputs, process
<1>4. Limiters' /\ OneRepoAtATime' /\ Arguments' /\ PerRepoType' /\ SettledIsCached'
  BY <1>2 DEF IInv, Limiters, WaitsAt, OneRepoAtATime, Arguments, PerRepoType,
              SettledIsCached, Entry, Pass, process
<1> QED BY <1>3, <1>4 DEF IInv

LEMMA NextInv == IInv /\ [Next]_vars => IInv'
<1> SUFFICES ASSUME IInv, [Next]_vars PROVE IInv'
  OBVIOUS
<1>1. CASE StartRun
  BY <1>1, StartRunInv
<1>2. ASSUME NEW u \in Unit, UnitStep(u) PROVE IInv'
  BY <1>2, ServeCachedInv, FinishServedInv, ParseOfflineInv, AskModelInv, ModelRepliesInv,
     StoreFragmentInv, StoreThrowsInv DEF UnitStep
<1>3. CASE PassBarrier
  BY <1>3, PassBarrierInv
<1>4. CASE BarrierThrows
  BY <1>4, BarrierThrowsInv
<1>5. CASE Exit
  BY <1>5, ExitInv
<1>6. CASE Crash
  BY <1>6, CrashInv
<1>7. ASSUME NEW u \in Edited, Edit(u) PROVE IInv'
  BY <1>7, EditInv
<1>8. CASE UNCHANGED vars
  <2>1. UNCHANGED <<content, edited, cache, outputs, process, unparsed, bounds>>
    BY <1>8 DEF vars
  <2>2. TypeOK'
    BY <2>1 DEF IInv, TypeOK, outputs, process, bounds
  <2>3. Limiters' /\ OneRepoAtATime' /\ Arguments' /\ PerRepoType' /\ SettledIsCached'
    BY <2>1 DEF IInv, Limiters, WaitsAt, OneRepoAtATime, Arguments, PerRepoType,
                SettledIsCached, Entry, Pass, process
  <2> QED BY <2>2, <2>3 DEF IInv
<1> QED BY <1>1, <1>2, <1>3, <1>4, <1>5, <1>6, <1>7, <1>8 DEF Next

LEMMA InvAlways == Spec => []IInv
  BY InitInv, NextInv, PTL DEF Spec

\* Whatever is analysed, however often and however it fails: every variable of
\* the pass engine keeps its type, and one key never names two fragments.
THEOREM StructureTypeOK == Spec => []TypeOK
<1>1. IInv => TypeOK
  BY DEF IInv
<1> QED BY <1>1, InvAlways, PTL

\* A unit the barrier no longer waits for has its fragment in the cache, so an
\* analysis that dies at any point resumes behind every finished unit.
THEOREM StructureFinalIsCached == Spec => []FinalIsCached
<1>1. IInv => FinalIsCached
  BY DEF IInv, SettledIsCached, FinalIsCached
<1> QED BY <1>1, InvAlways, PTL

-----------------------------------------------------------------------------
(* What the analysis caches and publishes. *)

\* Version v of unit u may be kept under the hash of this analysis: it is the
\* one hashed, or one an edit gave the unit afterwards.
OfKey(u, v) == v = hash[u] \/ <<u, hash[u], v>> \in edited

\* Units of the repository under analysis are as they were hashed, or edited
\* since.
HashIsContent ==
    /\ pc = "idle" => repo = 0
    /\ \A u \in Unit : RepoOf[u] = repo => OfKey(u, content[u])

\* A fragment tells of a version of its key, or nothing.
FragOfHash == \A u \in Unit : frag[u] = 0 \/ OfKey(u, frag[u])

\* An empty fragment, cached or in hand, is one the model owed.
EmptyWasUnparsed ==
    \A e \in cache : e.read = 0 => <<e.unit, e.hash, e.pass>> \in unparsed

FragUnparsed ==
    \A u \in Unit :
        stage[u] \in {"served", "parsed", "final"} /\ frag[u] = 0 =>
            <<u, hash[u], Pass>> \in unparsed

\* The extract of a repository is about its units, at versions of their keys.
RepoFacts ==
    \A r \in 1..Repos : \A f \in perRepo[r] :
        f.unit \in Unit /\ RepoOf[f.unit] = r /\ OfKey(f.unit, f.version) /\ r <= repo

LastPass == args.passes[Len(args.passes)]

\* These facts have what the last pass was to tell of a unit.
Told(u, facts) == Tells(facts, u, FactKind(LastPass))

\* Every repository behind the current one is told whole.
Complete ==
    \A u \in Unit :
        RepoOf[u] < repo \/ pc = "done" =>
            Told(u, perRepo[RepoOf[u]]) \/ <<u, hash[u], LastPass>> \in unparsed

Published ==
    pc = "done" => nodes = mergedExtract(perRepo) /\ at = Len(args.passes) /\ repo = Repos

\* The second inductive invariant, relative to the first.
JInv ==
    /\ HashIsContent
    /\ FragOfHash
    /\ KeyNamesContent
    /\ EmptyWasUnparsed
    /\ FragUnparsed
    /\ RepoFacts
    /\ Complete
    /\ Published

LEMMA InitJ == Init => JInv
<1> SUFFICES ASSUME Init PROVE JInv
  OBVIOUS
<1>1. /\ cache = {} /\ pc = "idle" /\ repo = 0 /\ unparsed = {}
      /\ perRepo = [r \in 1..Repos |-> {}]
      /\ stage = [u \in Unit |-> "none"] /\ frag = [u \in Unit |-> 0]
  BY DEF Init, NoProcess
<1>2. \A u \in Unit : RepoOf[u] \in Nat /\ RepoOf[u] > 0
  BY UnitAssumption
<1>3. HashIsContent /\ Complete /\ Published
  BY <1>1, <1>2 DEF HashIsContent, Complete, Published
<1>4. FragOfHash /\ KeyNamesContent /\ EmptyWasUnparsed /\ FragUnparsed /\ RepoFacts
  BY <1>1 DEF FragOfHash, KeyNamesContent, EmptyWasUnparsed, FragUnparsed, RepoFacts
<1> QED BY <1>3, <1>4 DEF JInv

\* A step of one unit leaves what is published and what is hashed alone.
LEMMA UnitFrame ==
    ASSUME JInv, UNCHANGED <<content, edited, perRepo, nodes, args, repo, at, hash>>,
           unparsed \subseteq unparsed', pc' \in {pc, "failed"}
    PROVE  HashIsContent' /\ RepoFacts' /\ Complete' /\ Published'
<1>1. HashIsContent' /\ RepoFacts'
  BY DEF JInv, HashIsContent, RepoFacts, OfKey
<1>2. Complete' /\ Published'
  BY DEF JInv, Complete, Published, Told, Tells, LastPass, mergedExtract
<1> QED BY <1>1, <1>2

\* A step of one unit that touches no fragment and settles no unit anew.
LEMMA UnitFrameStage ==
    ASSUME IInv, JInv,
           UNCHANGED <<content, edited, perRepo, nodes, args, repo, at, hash, cache, frag>>,
           unparsed \subseteq unparsed', pc' \in {pc, "failed"},
           \A v \in Unit : \/ stage'[v] \notin {"served", "parsed", "final"}
                           \/ stage[v] \in {"served", "parsed", "final"}
                           \/ <<v, hash[v], Pass>> \in unparsed'
    PROVE  JInv'
<1>1. Pass' = Pass
  BY DEF Pass
<1>2. FragOfHash' /\ KeyNamesContent' /\ EmptyWasUnparsed'
  BY DEF JInv, FragOfHash, OfKey, KeyNamesContent, EmptyWasUnparsed
<1>3. FragUnparsed'
  BY <1>1 DEF JInv, FragUnparsed
<1> QED BY <1>2, <1>3, UnitFrame DEF JInv

LEMMA ServeCachedJ == ASSUME IInv, JInv, NEW u \in Unit, ServeCached(u) PROVE JInv'
<1>1. /\ stage' = [stage EXCEPT ![u] = "served"]
      /\ UNCHANGED <<content, edited, cache, nodes, pc, args, repo, at, hash, perRepo, unparsed>>
  BY DEF ServeCached, outputs
<1>2. PICK e \in cache : /\ e.unit = u /\ e.hash = hash[u] /\ e.pass = Pass
                         /\ frag' = [frag EXCEPT ![u] = e.read]
  BY DEF ServeCached, Cached
<1>3. frag \in [Unit -> 0..MaxVersion] /\ stage \in [Unit -> Stage]
  BY DEF IInv, TypeOK
<1>4. (e.read = 0 \/ OfKey(u, e.read)) /\ (e.read = 0 => <<u, hash[u], Pass>> \in unparsed)
  BY <1>2 DEF JInv, KeyNamesContent, EmptyWasUnparsed, OfKey
<1>5. Pass' = Pass
  BY <1>1 DEF Pass
<1>6. FragOfHash' /\ KeyNamesContent' /\ EmptyWasUnparsed'
  BY <1>1, <1>2, <1>3, <1>4 DEF JInv, FragOfHash, OfKey, KeyNamesContent, EmptyWasUnparsed
<1>7. FragUnparsed'
  BY <1>1, <1>2, <1>3, <1>4, <1>5 DEF JInv, FragUnparsed
<1> QED BY <1>1, <1>6, <1>7, UnitFrame DEF JInv

LEMMA LeaveStage ==
    ASSUME IInv, NEW u \in Unit, Leave(u, "final")
    PROVE  \A v \in Unit : v # u => stage'[v] \in {stage[v], "granted"}
  BY DEF Leave

LEMMA FinishServedJ == ASSUME IInv, JInv, NEW u \in Unit, FinishServed(u) PROVE JInv'
<1>1. /\ stage[u] = "served" /\ Leave(u, "final")
      /\ UNCHANGED <<content, edited, cache, nodes, pc, args, repo, at, hash, perRepo, frag,
                     unparsed>>
  BY DEF FinishServed, outputs
<1> QED BY <1>1, LeaveStage, UnitFrameStage

LEMMA ParseOfflineJ == ASSUME IInv, JInv, NEW u \in Unit, ParseOffline(u) PROVE JInv'
<1>1. /\ stage' = [stage EXCEPT ![u] = "parsed"]
      /\ unparsed' = unparsed \cup {<<u, hash[u], Pass>>}
      /\ UNCHANGED <<content, edited, cache, nodes, pc, args, repo, at, hash, perRepo, frag>>
  BY DEF ParseOffline, outputs
<1>2. stage \in [Unit -> Stage]
  BY DEF IInv, TypeOK
<1> QED BY <1>1, <1>2, UnitFrameStage

LEMMA AskModelJ == ASSUME IInv, JInv, NEW u \in Unit, AskModel(u) PROVE JInv'
<1>1. /\ stage' = [stage EXCEPT ![u] = IF Admits(calls, Cap) THEN "calling" ELSE "waiting"]
      /\ UNCHANGED <<content, edited, cache, nodes, pc, args, repo, at, hash, perRepo, frag,
                     unparsed>>
  BY DEF AskModel, outputs
<1>2. stage \in [Unit -> Stage]
  BY DEF IInv, TypeOK
<1> QED BY <1>1, <1>2, UnitFrameStage

LEMMA ModelRepliesJ == ASSUME IInv, JInv, NEW u \in Unit, ModelReplies(u) PROVE JInv'
<1>1. /\ stage[u] = "calling"
      /\ stage' = [v \in Unit |-> IF v = u THEN "parsed"
                                  ELSE IF v \in Passed(calls) THEN "calling" ELSE stage[v]]
      /\ \/ frag' = [frag EXCEPT ![u] = content[u]] /\ unparsed' = unparsed
         \/ unparsed' = unparsed \cup {<<u, hash[u], Pass>>} /\ frag' = frag
      /\ UNCHANGED <<content, edited, cache, nodes, pc, args, repo, at, hash, perRepo>>
  BY DEF ModelReplies, outputs
<1>2. /\ frag \in [Unit -> 0..MaxVersion] /\ stage \in [Unit -> Stage]
      /\ content[u] \in 1..MaxVersion
  BY DEF IInv, TypeOK, Version
<1>3. CASE unparsed' = unparsed \cup {<<u, hash[u], Pass>>} /\ frag' = frag
  BY <1>1, <1>2, <1>3, UnitFrameStage
<1>4. CASE frag' = [frag EXCEPT ![u] = content[u]] /\ unparsed' = unparsed
  <2>1. RepoOf[u] = repo /\ repo \in Nat
    BY <1>1, UnitAssumption DEF IInv, OneRepoAtATime, TypeOK
  <2>2. OfKey(u, content[u]) /\ content[u] # 0
    BY <2>1, <1>2 DEF JInv, HashIsContent
  <2>3. Pass' = Pass
    BY <1>1 DEF Pass
  <2>4. FragOfHash' /\ KeyNamesContent' /\ EmptyWasUnparsed'
    BY <1>1, <1>2, <1>4, <2>2 DEF JInv, FragOfHash, OfKey, KeyNamesContent, EmptyWasUnparsed
  <2>5. ASSUME NEW v \in Unit, stage'[v] \in {"served", "parsed", "final"}, frag'[v] = 0
        PROVE  <<v, hash[v], Pass>> \in unparsed
    <3>1. v # u
      BY <2>5, <1>2, <1>4, <2>2
    <3>2. stage[v] \in {"served", "parsed", "final"} /\ frag[v] = 0
      BY <3>1, <2>5, <1>1, <1>2, <1>4
    <3> QED BY <3>2 DEF JInv, FragUnparsed
  <2>6. FragUnparsed'
    BY <2>5, <2>3, <1>1, <1>4 DEF FragUnparsed
  <2> QED BY <1>1, <1>4, <2>4, <2>6, UnitFrame DEF JInv
<1> QED BY <1>1, <1>3, <1>4

LEMMA StoreFragmentJ == ASSUME IInv, JInv, NEW u \in Unit, StoreFragment(u) PROVE JInv'
<1>1. /\ stage[u] = "parsed" /\ Leave(u, "final")
      /\ UNCHANGED <<content, edited, nodes, pc, args, repo, at, hash, perRepo, frag, unparsed>>
      /\ cache' \subseteq cache \cup {Entry(u, hash[u], Pass, frag[u])}
  BY DEF StoreFragment, outputs, writeFragment
<1>2. \A v \in Unit : stage'[v] \in {"served", "parsed", "final"} =>
                          stage[v] \in {"served", "parsed", "final"}
  BY <1>1, LeaveStage
<1>3. LET new == Entry(u, hash[u], Pass, frag[u])
      IN /\ new.read \in {0, new.hash} \/ <<new.unit, new.hash, new.read>> \in edited
         /\ new.read = 0 => <<new.unit, new.hash, new.pass>> \in unparsed
  BY <1>1 DEF JInv, FragOfHash, OfKey, FragUnparsed, Entry
<1>4. KeyNamesContent' /\ EmptyWasUnparsed'
  BY <1>1, <1>3 DEF JInv, KeyNamesContent, EmptyWasUnparsed
<1>5. Pass' = Pass
  BY <1>1 DEF Pass
<1>6. FragOfHash' /\ FragUnparsed'
  BY <1>1, <1>2, <1>5 DEF JInv, FragOfHash, OfKey, FragUnparsed
<1> QED BY <1>1, <1>4, <1>6, UnitFrame DEF JInv

LEMMA StoreThrowsJ == ASSUME IInv, JInv, NEW u \in Unit, StoreThrows(u) PROVE JInv'
<1>1. /\ stage[u] = "parsed" /\ Leave(u, "final") /\ pc' = "failed"
      /\ UNCHANGED <<content, edited, cache, nodes, args, repo, at, hash, perRepo, frag, unparsed>>
  BY DEF StoreThrows, outputs
<1> QED BY <1>1, LeaveStage, UnitFrameStage

LEMMA StartRunJ == IInv /\ JInv /\ StartRun => JInv'
<1> SUFFICES ASSUME IInv, JInv, StartRun PROVE JInv'
  OBVIOUS
<1>1. /\ perRepo' = [r \in 1..Repos |-> {}] /\ calls' = noneActive /\ EnterRepo(1)
      /\ UNCHANGED <<content, edited, cache, unparsed>>
  BY DEF StartRun
<1>2. hash' = [u \in Unit |-> IF RepoOf[u] = 1 THEN content[u] ELSE hash[u]]
  BY <1>1 DEF EnterRepo
<1>3. /\ repo' = 1 /\ pc' = "pass" /\ frag' = [u \in Unit |-> 0]
      /\ stage' \in [Unit -> {"none", "queued", "granted"}]
  BY <1>1, EnterRepoInv, UnitAssumption
<1>4. \A u \in Unit : RepoOf[u] \in Nat /\ RepoOf[u] > 0
  BY UnitAssumption
<1>5. HashIsContent'
  BY <1>1, <1>2, <1>3, <1>4 DEF HashIsContent, OfKey
<1>6. FragOfHash' /\ KeyNamesContent' /\ EmptyWasUnparsed' /\ FragUnparsed'
  BY <1>1, <1>3 DEF JInv, FragOfHash, OfKey, KeyNamesContent, EmptyWasUnparsed, FragUnparsed
<1>7. RepoFacts' /\ Complete' /\ Published'
  BY <1>1, <1>3, <1>4 DEF RepoFacts, Complete, Published
<1> QED BY <1>5, <1>6, <1>7 DEF JInv

\* What a barrier merges tells of every unit of the repository, or the model
\* owed it.
LEMMA MergeTells ==
    ASSUME IInv, JInv, NEW u \in Unit, RepoOf[u] = repo, stage[u] = "final"
    PROVE  \/ Tells(mergeFragments(UnitsIn(repo)), u, FactKind(Pass))
           \/ <<u, hash[u], Pass>> \in unparsed
<1>1. CASE frag[u] = 0
  BY <1>1 DEF JInv, FragUnparsed
<1>2. CASE frag[u] # 0
  <2> DEFINE told == [kind |-> FactKind(Pass), unit |-> u, version |-> frag[u]]
  <2>1. told \in mergeFragments(UnitsIn(repo))
    BY <1>2 DEF mergeFragments, UnitsIn
  <2>2. told.unit = u /\ told.kind = FactKind(Pass)
    OBVIOUS
  <2> QED BY <2>1, <2>2 DEF Tells
<1> QED BY <1>1, <1>2

LEMMA PassBarrierJ == IInv /\ JInv /\ PassBarrier => JInv'
<1> SUFFICES ASSUME IInv, JInv, PassBarrier PROVE JInv'
  OBVIOUS
<1> DEFINE merged == mergeFragments(UnitsIn(repo))
<1>1. /\ pc = "pass" /\ \A u \in UnitsIn(repo) : stage[u] = "final"
      /\ perRepo' = [perRepo EXCEPT ![repo] = merged]
      /\ nodes' = mergedExtract(perRepo')
      /\ UNCHANGED <<content, edited, cache, args, calls, unparsed>>
  BY DEF PassBarrier
<1>2. \A u \in Unit : stage[u] # "waiting"
  BY <1>1 DEF IInv, OneRepoAtATime, UnitsIn
<1>3. /\ repo \in 1..Repos /\ Repos \in Nat /\ Len(args.passes) \in Nat \ {0}
      /\ at \in 1..Len(args.passes)
      /\ perRepo \in [1..Repos -> SUBSET Fact]
      /\ \A u \in Unit : RepoOf[u] \in 1..Repos
  BY <1>1, UnitAssumption DEF IInv, TypeOK, OneRepoAtATime, Arguments, PerRepoType
<1>4. \A f \in merged : f.unit \in Unit /\ RepoOf[f.unit] = repo /\ OfKey(f.unit, f.version)
  <2>1. ASSUME NEW f \in merged PROVE f.version = frag[f.unit] /\ frag[f.unit] # 0
                                      /\ f.unit \in Unit /\ RepoOf[f.unit] = repo
    BY DEF mergeFragments, UnitsIn
  <2> QED BY <2>1 DEF JInv, FragOfHash, OfKey
\* Of the repositories entered so far the extract is right before they move on.
<1>5. \A r \in 1..Repos : \A f \in perRepo'[r] :
          f.unit \in Unit /\ RepoOf[f.unit] = r /\ OfKey(f.unit, f.version) /\ r <= repo
  BY <1>1, <1>3, <1>4 DEF JInv, RepoFacts
<1>7. \A u \in Unit : RepoOf[u] < repo =>
          Told(u, perRepo'[RepoOf[u]]) \/ <<u, hash[u], LastPass>> \in unparsed
  BY <1>1, <1>3 DEF JInv, Complete
<1>8. ASSUME at = Len(args.passes), NEW u \in Unit, RepoOf[u] = repo
      PROVE  Told(u, perRepo'[RepoOf[u]]) \/ <<u, hash[u], LastPass>> \in unparsed
  <2>1. Pass = LastPass /\ stage[u] = "final"
    BY <1>1, <1>8 DEF Pass, LastPass, UnitsIn
  <2> QED BY <2>1, <1>1, <1>3, <1>8, MergeTells DEF Told
<1>9. ASSUME stage' \in [Unit -> {"none", "queued", "granted"}], frag' = [u \in Unit |-> 0],
             pc' = "pass"
      PROVE  FragOfHash' /\ KeyNamesContent' /\ EmptyWasUnparsed' /\ FragUnparsed' /\ Published'
  BY <1>1, <1>9 DEF JInv, FragOfHash, OfKey, KeyNamesContent, EmptyWasUnparsed, FragUnparsed, Published
<1>10. CASE at < Len(args.passes) /\ FanOut(repo, at + 1) /\ UNCHANGED hash
  <2>1. /\ repo' = repo /\ pc' = "pass"
        /\ stage' \in [Unit -> {"none", "queued", "granted"}] /\ frag' = [u \in Unit |-> 0]
    BY <1>1, <1>2, <1>3, <1>10, FanOutInv
  <2>2. HashIsContent' /\ RepoFacts'
    BY <1>1, <1>5, <1>10, <2>1 DEF JInv, HashIsContent, RepoFacts, OfKey
  <2>3. Complete'
    BY <1>1, <1>7, <1>10, <2>1 DEF Complete, Told, Tells, LastPass
  <2> QED BY <1>9, <2>1, <2>2, <2>3 DEF JInv
<1>11. CASE at = Len(args.passes) /\ repo < Repos /\ EnterRepo(repo + 1)
  <2>1. /\ repo' = repo + 1 /\ pc' = "pass"
        /\ stage' \in [Unit -> {"none", "queued", "granted"}] /\ frag' = [u \in Unit |-> 0]
    BY <1>1, <1>2, <1>3, <1>11, EnterRepoInv
  <2>2. hash' = [u \in Unit |-> IF RepoOf[u] = repo + 1 THEN content[u] ELSE hash[u]]
    BY <1>11 DEF EnterRepo
  <2>3. \A u \in Unit : RepoOf[u] <= repo => hash'[u] = hash[u]
    BY <1>3, <2>2
  <2>4. HashIsContent'
    <3>1. \A u \in Unit : RepoOf[u] = repo' => hash'[u] = content'[u]
      BY <1>1, <2>1, <2>2
    <3> QED BY <3>1, <2>1 DEF HashIsContent, OfKey
  <2>5. RepoFacts'
    <3>1. \A u \in Unit : \A v : RepoOf[u] <= repo /\ OfKey(u, v) =>
              v = hash'[u] \/ <<u, hash'[u], v>> \in edited'
      BY <1>1, <2>3 DEF OfKey
    <3>2. \A r \in 1..Repos : r <= repo => r <= repo + 1
      BY <1>3
    <3> QED BY <1>3, <1>5, <3>1, <3>2, <2>1 DEF RepoFacts, OfKey
  <2>6. Complete'
    <3>1. \A u \in Unit : RepoOf[u] < repo + 1 => RepoOf[u] < repo \/ RepoOf[u] = repo
      BY <1>3
    <3>2. \A u \in Unit : RepoOf[u] < repo + 1 => hash'[u] = hash[u]
      BY <1>3, <2>3
    <3>3. \A u \in Unit : RepoOf[u] < repo + 1 =>
              Told(u, perRepo'[RepoOf[u]]) \/ <<u, hash[u], LastPass>> \in unparsed
      BY <3>1, <1>7, <1>8, <1>11
    <3> QED BY <3>2, <3>3, <1>1, <2>1 DEF Complete, Told, Tells, LastPass
  <2> QED BY <1>9, <2>1, <2>4, <2>5, <2>6 DEF JInv
<1>12. CASE /\ at = Len(args.passes) /\ repo = Repos /\ pc' = "done"
            /\ UNCHANGED <<repo, at, hash, fanout, stage, frag>>
  <2>1. HashIsContent' /\ RepoFacts'
    BY <1>1, <1>5, <1>12 DEF JInv, HashIsContent, RepoFacts, OfKey
  <2>2. Pass' = Pass
    BY <1>1, <1>12 DEF Pass
  <2>3. FragOfHash' /\ KeyNamesContent' /\ EmptyWasUnparsed' /\ FragUnparsed'
    BY <1>1, <1>12, <2>2 DEF JInv, FragOfHash, OfKey, KeyNamesContent, EmptyWasUnparsed, FragUnparsed
  <2>4. Published'
    BY <1>1, <1>12 DEF Published
  <2>5. Complete'
    <3>1. \A u \in Unit : RepoOf[u] < repo \/ RepoOf[u] = repo
      BY <1>3, <1>12
    <3>2. \A u \in Unit :
              Told(u, perRepo'[RepoOf[u]]) \/ <<u, hash[u], LastPass>> \in unparsed
      BY <3>1, <1>7, <1>8, <1>12
    <3> QED BY <3>2, <1>1, <1>12 DEF Complete, Told, Tells, LastPass
  <2> QED BY <2>1, <2>3, <2>4, <2>5 DEF JInv
<1> QED BY <1>10, <1>11, <1>12 DEF PassBarrier

LEMMA BarrierThrowsJ == IInv /\ JInv /\ BarrierThrows => JInv'
<1> SUFFICES ASSUME IInv, JInv, BarrierThrows PROVE JInv'
  OBVIOUS
<1>1. /\ pc' = "failed"
      /\ UNCHANGED <<content, edited, cache, nodes, args, repo, at, hash, perRepo, stage, frag,
                     unparsed>>
  BY DEF BarrierThrows, outputs
<1> QED BY <1>1, UnitFrameStage

\* The process is gone: only the cache is left of the analysis.
LEMMA GoneJ ==
    ASSUME JInv, Gone, UNCHANGED <<content, edited, unparsed>>, cache' \subseteq cache
    PROVE  JInv'
<1>1. /\ pc' = "idle" /\ repo' = 0 /\ perRepo' = [r \in 1..Repos |-> {}]
      /\ stage' = [u \in Unit |-> "none"] /\ frag' = [u \in Unit |-> 0]
  BY DEF Gone
<1>2. \A u \in Unit : RepoOf[u] \in Nat /\ RepoOf[u] > 0
  BY UnitAssumption
<1>3. HashIsContent' /\ Complete' /\ Published' /\ RepoFacts'
  BY <1>1, <1>2 DEF HashIsContent, Complete, Published, RepoFacts
<1>4. FragOfHash' /\ KeyNamesContent' /\ EmptyWasUnparsed' /\ FragUnparsed'
  BY <1>1 DEF JInv, FragOfHash, OfKey, KeyNamesContent, EmptyWasUnparsed, FragUnparsed
<1> QED BY <1>3, <1>4 DEF JInv

LEMMA EditJ == ASSUME IInv, JInv, NEW u \in Edited, Edit(u) PROVE JInv'
<1>1. UNCHANGED <<cache, outputs, process, unparsed>>
  BY DEF Edit
<1>2. PICK v \in 1..MaxVersion :
          /\ content' = [content EXCEPT ![u] = v]
          /\ edited' = IF RepoOf[u] = repo THEN edited \cup {<<u, hash[u], v>>} ELSE edited
  BY DEF Edit
<1>3. content \in [Unit -> Version] /\ u \in Unit
  BY UnitAssumption DEF IInv, TypeOK
<1>4. edited \subseteq edited'
  BY <1>2
<1>5. hash' = hash /\ repo' = repo /\ pc' = pc /\ frag' = frag /\ stage' = stage
      /\ perRepo' = perRepo /\ args' = args /\ at' = at /\ nodes' = nodes
  BY <1>1 DEF process, outputs
<1>6. ASSUME NEW w \in Unit, NEW x, OfKey(w, x) PROVE OfKey(w, x)'
  BY <1>4, <1>5, <1>6 DEF OfKey
<1>7. HashIsContent'
  <2>1. ASSUME NEW w \in Unit, RepoOf[w] = repo, w # u PROVE OfKey(w, content[w])'
    <3>1. content'[w] = content[w]
      BY <1>2, <1>3, <2>1
    <3> QED BY <2>1, <3>1, <1>4, <1>5 DEF JInv, HashIsContent, OfKey
  <2>2. ASSUME RepoOf[u] = repo PROVE OfKey(u, content[u])'
    BY <1>2, <1>3, <1>5, <2>2 DEF OfKey
  <2> QED BY <1>5, <2>1, <2>2 DEF JInv, HashIsContent
<1>8. FragOfHash'
  BY <1>4, <1>5 DEF JInv, FragOfHash, OfKey
<1>9. RepoFacts'
  BY <1>5, <1>6 DEF JInv, RepoFacts
<1>10. KeyNamesContent' /\ EmptyWasUnparsed'
  BY <1>1, <1>4 DEF JInv, KeyNamesContent, EmptyWasUnparsed
<1>11. FragUnparsed' /\ Complete' /\ Published'
  BY <1>1, <1>5 DEF JInv, FragUnparsed, Pass, Complete, Told, Tells, LastPass, Published,
                    mergedExtract
<1> QED BY <1>7, <1>8, <1>9, <1>10, <1>11 DEF JInv

LEMMA NextJ == ASSUME IInv, JInv, [Next]_vars PROVE JInv'
<1>1. CASE StartRun
  BY <1>1, StartRunJ
<1>2. ASSUME NEW u \in Unit, UnitStep(u) PROVE JInv'
  BY <1>2, ServeCachedJ, FinishServedJ, ParseOfflineJ, AskModelJ, ModelRepliesJ,
     StoreFragmentJ, StoreThrowsJ DEF UnitStep
<1>3. CASE PassBarrier
  BY <1>3, PassBarrierJ
<1>4. CASE BarrierThrows
  BY <1>4, BarrierThrowsJ
<1>5. CASE Exit
  BY <1>5, GoneJ DEF Exit
<1>6. CASE Crash
  BY <1>6, GoneJ DEF Crash
<1>7. ASSUME NEW u \in Edited, Edit(u) PROVE JInv'
  BY <1>7, EditJ
<1>8. CASE UNCHANGED vars
  <2>1. UNCHANGED <<content, edited, cache, nodes, pc, args, repo, at, hash, perRepo, stage, frag,
                    unparsed>>
    BY <1>8 DEF vars, process, outputs
  <2> QED BY <2>1, UnitFrameStage
<1> QED BY <1>1, <1>2, <1>3, <1>4, <1>5, <1>6, <1>7, <1>8 DEF Next

LEMMA JInvAlways == Spec => []JInv
<1>1. IInv /\ IInv' /\ JInv /\ [Next]_vars => JInv'
  BY NextJ
<1> QED BY <1>1, InitJ, InvAlways, PTL DEF Spec

\* Whatever ran, failed, crashed or was edited before, between and under the
\* analyses: a cached fragment was read from the very content its key names, or
\* from what an edit had given the unit under the analysis that hashed it so.
THEOREM StructureKeyNamesContent == Spec => []KeyNamesContent
<1>1. JInv => KeyNamesContent
  BY DEF JInv
<1> QED BY <1>1, JInvAlways, PTL

\* A finished analysis has published, for every unit of every repository, what
\* its last pass asks for, of the version hashed or of one an edit gave the unit
\* under an analysis of that version; only what the model owed about the version
\* hashed is missing.
THEOREM StructurePublishedIsComplete == Spec => []PublishedIsComplete
<1>1. ASSUME IInv, JInv, pc = "done" PROVE PublishedIsComplete
  <2>1. nodes = mergedExtract(perRepo) /\ at = Len(args.passes)
    BY <1>1 DEF JInv, Published
  <2>2. Pass = LastPass
    BY <2>1 DEF Pass, LastPass
  <2>3. \A u \in Unit : RepoOf[u] \in 1..Repos
    BY UnitAssumption
  <2>4. \A f \in nodes : OfKey(f.unit, f.version)
    BY <1>1, <2>1 DEF mergedExtract, JInv, RepoFacts
  <2>5. \A u \in Unit : Told(u, nodes) \/ <<u, hash[u], Pass>> \in unparsed
    BY <1>1, <2>1, <2>2, <2>3 DEF mergedExtract, JInv, Complete, Told, Tells
  <2> QED BY <2>2, <2>4, <2>5 DEF PublishedIsComplete, Told, OfKey
<1>2. IInv /\ JInv => PublishedIsComplete
  BY <1>1 DEF PublishedIsComplete
<1> QED BY <1>2, InvAlways, JInvAlways, PTL
=============================================================================
