------------------------------- MODULE Limiter -------------------------------
(***************************************************************************)
(* The shared concurrency limiter (packages/contract/src/concurrency.ts):  *)
(* every `claude` subprocess and every unit parse goes through one.  A     *)
(* call is limit(task); it waits for a slot, runs the task and gives the   *)
(* slot back whether the task resolved or rejected.  A slot is granted in  *)
(* the caller's turn or in the turn of a release, the task starts in a     *)
(* later microtask.                                                        *)
(***************************************************************************)
EXTENDS LimiterState, FiniteSets

CONSTANTS
    Task,      \* the calls made of the limiter
    Options,   \* explicit caps tried, << >> for none
    Envs       \* values of CLAUDE_CODE_MAX_CONCURRENCY tried, << >> for unset

ASSUME TaskAssumption == IsFiniteSet(Task)

ASSUME CapAssumption ==
    \A o \in Options \cup Envs : o = << >> \/ (Len(o) = 1 /\ o \in Seq(Int))

VARIABLES
    cap,       \* ceiling of this limiter
    slots,     \* active and queue
    state,     \* where each call is
    ticket,    \* history: the order in which calls were made, 0 before
    made       \* history: how many were made

limiterVars == <<cap, slots, state, ticket, made>>

LimiterInit ==
    /\ \E option \in Options, env \in Envs :
          cap = ceiling(resolveClaudeCodeConcurrency(option, env))
    /\ slots = noneActive
    /\ state = [t \in Task |-> "idle"]
    /\ ticket = [t \in Task |-> 0]
    /\ made = 0

\* limit(task): acquire runs at once, in the caller's turn.
Call(t) ==
    /\ state[t] = "idle"
    /\ slots' = acquire(slots, t, cap)
    /\ state' = [state EXCEPT ![t] = IF Admits(slots, cap) THEN "granted" ELSE "queued"]
    /\ made' = made + 1
    /\ ticket' = [ticket EXCEPT ![t] = made + 1]
    /\ UNCHANGED cap

\* The await of acquire resumes.
Start(t) ==
    /\ state[t] = "granted"
    /\ state' = [state EXCEPT ![t] = "running"]
    /\ UNCHANGED <<cap, slots, ticket, made>>

\* The task resolved or rejected: finally releases, which grants the slot to
\* the first waiting call before anything else runs.
Finish(t) ==
    /\ state[t] = "running"
    /\ slots' = release(slots)
    /\ state' = [u \in Task |-> IF u = t THEN "done"
                                ELSE IF u \in Passed(slots) THEN "granted"
                                ELSE state[u]]
    /\ UNCHANGED <<cap, ticket, made>>

LimiterNext == \E t \in Task : Call(t) \/ Start(t) \/ Finish(t)

LimiterSpec == LimiterInit /\ [][LimiterNext]_limiterVars

\* The event loop runs ready continuations and every task settles.
FairLimiterSpec == LimiterSpec /\ \A t \in Task : WF_limiterVars(Start(t)) /\ WF_limiterVars(Finish(t))

-----------------------------------------------------------------------------
(* Properties. *)

CallState == {"idle", "queued", "granted", "running", "done"}

\* Calls that hold a slot.
Holding == {t \in Task : state[t] \in {"granted", "running"}}

Waiting == {slots.queue[i] : i \in DOMAIN slots.queue}

\* Every variable has its type; the queue holds exactly the waiting calls.
CallTypeOK ==
    /\ cap \in Nat \ {0}
    /\ slots \in [active : Nat, queue : Seq(Task)]
    /\ state \in [Task -> CallState]
    /\ ticket \in [Task -> Nat] /\ made \in Nat
    /\ Waiting = {t \in Task : state[t] = "queued"}

\* active counts the calls that hold a slot, never more than the ceiling, so
\* no more than that many subprocesses exist at once; rejections included.
ActiveIsHolding == slots.active = Cardinality(Holding) /\ slots.active <= cap

\* A slot is never free while a call waits.
NoIdleSlot == slots.queue # << >> => slots.active = cap

\* Calls are granted their slot in the order they were made.
NoOvertaking ==
    \A t, u \in Task :
        state[t] = "queued" /\ state[u] \in {"granted", "running", "done"}
            => ticket[u] < ticket[t]

\* Every call made of the limiter is settled.
EveryCallSettles == \A t \in Task : state[t] # "idle" ~> state[t] = "done"
=============================================================================
