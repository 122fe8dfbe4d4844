---------------------------- MODULE MCBehaviorRun ----------------------------
(* Small instances of the behavior commands for TLC. *)
EXTENDS BehaviorRun, TLC

Run(explore, noReseed, report) ==
    [kind |-> "run", explore |-> explore, noReseed |-> noReseed, report |-> report]
Alone(kind, noReseed) ==
    [kind |-> kind, explore |-> FALSE, noReseed |-> noReseed, report |-> TRUE]

EveryCommand ==
    {Run(TRUE, FALSE, TRUE), Run(TRUE, TRUE, FALSE), Run(FALSE, FALSE, TRUE),
     Alone("explore", FALSE), Alone("crud", TRUE), Alone("report", FALSE)}

Findings == {{Observation}}

\* Bound: commands that overlap work on an application in which crawls see
\* nothing; those that follow one another on one that changes.
OverlapWithoutFeatures ==
    disturbed => baseline \subseteq {{}} /\ \A p \in Proc : structure[p] = {}

Symmetry == Permutations(Proc)
=============================================================================
