----------------------------- MODULE MCLimiter -----------------------------
(* Limiter on a small instance, with the mutations its properties catch.   *)
EXTENDS Limiter, TLC

Symmetry == Permutations(Turns)
=============================================================================
