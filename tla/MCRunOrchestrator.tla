-------------------------- MODULE MCRunOrchestrator --------------------------
(* Small instances of the run orchestrator for TLC. *)
EXTENDS RunOrchestrator

CONSTANTS u1, u2

OneUnit  == {u1}
TwoUnits == {u1, u2}

\* Every unit in one repository, or one repository each.
OneRepo  == [u \in Unit |-> 1]
TwoRepos == [u \in Unit |-> IF u = u1 THEN 1 ELSE 2]

Healthy      == {{}}
OneDiagnosis == {{}, {"structure"}}
AnyDiagnosis == {{}, {"intent"}, {"structure"}, {"behavior"}, {"structure", "behavior"}}
=============================================================================
