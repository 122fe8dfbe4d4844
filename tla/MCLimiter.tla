------------------------------ MODULE MCLimiter ------------------------------
(* A small instance of the limiter for TLC. *)
EXTENDS Limiter

\* No option, a senseless one, and two real ones; an environment variable that
\* is unset, zero, or set.
MCOptions == {<< >>, <<-1>>, <<2>>}
MCEnvs    == {<< >>, <<0>>, <<2>>}
=============================================================================
