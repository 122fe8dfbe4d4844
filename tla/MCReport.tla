------------------------------ MODULE MCReport ------------------------------
(* A small instance of the report for TLC. *)
EXTENDS Report

\* A member on either side of the threshold or on it.
MCVote == [refuted : BOOLEAN, class : Class, confidence : {60, 80, 100}]

\* One finding in two files, once with another.
MCStored == {{"a"}, {"a", "b"}}
=============================================================================
