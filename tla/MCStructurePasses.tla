-------------------------- MODULE MCStructurePasses --------------------------
(* A small instance of the incremental analysis for TLC. *)
EXTENDS StructurePasses

CONSTANTS u1, u2, u3

TwoUnits   == {u1, u2}
ThreeUnits == {u1, u2, u3}

\* u1 alone in the last repository.
MCRepoOf == [u \in Unit |-> IF u = u1 THEN Repos ELSE 1]

InventoryThenDetail == {<<1, 2>>}
SomePasses == {<<1, 2>>, <<2>>}
=============================================================================
