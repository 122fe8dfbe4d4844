--------------------------- MODULE PhaseLifecycle ---------------------------
(***************************************************************************)
(* What progress.json promises its readers (the dashboard, the next run):  *)
(* an abstract specification of the ledger alone, with no process, no      *)
(* queue and no artifact behind it.  A phase is started, makes progress,   *)
(* ends, is blocked by the preflight, or is cleared; nothing else ever     *)
(* happens to the file, and it never shows half of one of these steps.     *)
(***************************************************************************)
EXTENDS Progress

CONSTANTS
    Clearable    \* the phases clear, doctor and --only know by name

VARIABLE ledger

LifecycleInit == ledger = emptyProgress

\* Only the entry of ph differs between l and m.
OnlyEntry(l, m, ph) == m = [l EXCEPT ![ph] = m[ph]]

\* A phase may start whatever its last outcome was: completed but stale,
\* failed, blocked, or still "running" because a crash cut it off.
Started(l, m, ph) ==
    /\ OnlyEntry(l, m, ph)
    /\ m[ph] = [l[ph] EXCEPT !.status = "running"]

\* Only a running phase completes, fails or finds itself blocked; the counts
\* it reached are kept.
Ended(l, m, ph) ==
    /\ OnlyEntry(l, m, ph)
    /\ l[ph].status = "running"
    /\ m[ph].status \in {"completed", "failed", "blocked"}
    /\ m[ph].total = l[ph].total
    /\ m[ph].completed = l[ph].completed
    /\ m[ph].status = "blocked" => m[ph].blockedReason

\* The preflight blocks a phase from any status, and says why.
Blocked(l, m, ph) ==
    /\ ph \in Clearable
    /\ OnlyEntry(l, m, ph)
    /\ m[ph].status = "blocked" /\ m[ph].blockedReason
    /\ \A field \in {"completedAt", "total", "completed"} :
          m[ph][field] = l[ph][field]

\* A running phase sizes its work once it knows it.
Registered(l, m, ph) ==
    /\ OnlyEntry(l, m, ph)
    /\ l[ph].status = "running"
    /\ m[ph].completed <= m[ph].total
    /\ m[ph] = [l[ph] EXCEPT !.total = m[ph].total,
                             !.completed = m[ph].completed]

\* Counts only grow, and never past the total.  Units of a structure phase
\* that already failed may still report in.
Progressed(l, m, ph) ==
    /\ OnlyEntry(l, m, ph)
    /\ \/ l[ph].status = "running"
       \/ ph = "structure" /\ l[ph].status = "failed"
    /\ l[ph].completed <= m[ph].completed
    /\ m[ph].completed <= m[ph].total
    /\ m[ph] = [l[ph] EXCEPT !.completed = m[ph].completed]

PhaseCleared(l, m, ph) == ph \in Clearable /\ m = [l EXCEPT ![ph] = freshPhase]

\* One commit of the orchestrator.
LedgerStep(l, m) ==
    \E ph \in PhaseName :
        \/ Started(l, m, ph)
        \/ Ended(l, m, ph)
        \/ Blocked(l, m, ph)
        \/ Registered(l, m, ph)
        \/ Progressed(l, m, ph)

ClearStep(l, m) ==
    \/ m = emptyProgress
    \/ \E ph \in Clearable : PhaseCleared(l, m, ph)

LifecycleNext ==
    /\ ledger' \in Ledger
    /\ LedgerStep(ledger, ledger') \/ ClearStep(ledger, ledger')

LifecycleSpec == LifecycleInit /\ [][LifecycleNext]_ledger
=============================================================================
