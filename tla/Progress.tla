------------------------------ MODULE Progress ------------------------------
(***************************************************************************)
(* The progress ledger .crawl-kit/progress.json and its pure updaters      *)
(* (packages/contract/src/progress.ts).  A ledger maps each pipeline phase *)
(* to its entry.  Timestamps nobody reads back (startedAt, updatedAt), the *)
(* run id and the wording of a blocked reason are left out: an entry keeps *)
(* whether it carries a reason, and its completedAt, which the resume gate *)
(* of the orchestrator compares with the clock.                            *)
(***************************************************************************)
EXTENDS Naturals

PhaseName == {"intent", "structure", "behavior", "reconcile", "verify"}

PhaseStatus == {"pending", "running", "completed", "blocked", "failed"}

\* completedAt of an entry that has none; the clock starts at 1.
NoTime == 0

PhaseProgress ==
    [status : PhaseStatus, completedAt : Nat, blockedReason : BOOLEAN,
     total : Nat, completed : Nat]

Ledger == [PhaseName -> PhaseProgress]

freshPhase ==
    [status |-> "pending", completedAt |-> NoTime, blockedReason |-> FALSE,
     total |-> 0, completed |-> 0]

emptyProgress == [ph \in PhaseName |-> freshPhase]

AtMost(a, b) == IF a <= b THEN a ELSE b

\* Everything the new status does not overwrite is kept from the old entry.
withPhaseStatus(p, ph, status, at) ==
    [p EXCEPT ![ph] =
        [status        |-> status,
         completedAt   |-> IF status \in {"completed", "failed"}
                             THEN at ELSE p[ph].completedAt,
         blockedReason |-> p[ph].blockedReason \/ status = "blocked",
         total         |-> p[ph].total,
         completed     |-> p[ph].completed]]

\* A re-registered phase keeps its old count, capped at the new total.
withTasksRegistered(p, ph, total) ==
    [p EXCEPT ![ph] = [p[ph] EXCEPT !.total = total,
                                    !.completed = AtMost(p[ph].completed, total)]]

withTaskCompleted(p, ph, count) ==
    [p EXCEPT ![ph] = [p[ph] EXCEPT !.completed =
                          AtMost(p[ph].total, p[ph].completed + count)]]

\* clear.ts: a cleared phase is rebuilt from scratch, never from its old entry.
resetPhase(p, ph) == [p EXCEPT ![ph] = freshPhase]

\* The counters of an entry stay within its total, whatever order the
\* concurrent onUnit callbacks arrive in.
CountsWithin(l) == \A ph \in PhaseName : l[ph].completed <= l[ph].total
=============================================================================
