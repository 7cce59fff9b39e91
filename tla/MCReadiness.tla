---------------------------- MODULE MCReadiness ----------------------------
(* Small instance of Readiness.                                            *)
EXTENDS Readiness, TLC

Symmetry == Permutations(Members) \cup Permutations(Handlers)
=============================================================================
