------------------------------ MODULE MCStream ------------------------------
(* Stream with two runtimes that serve the same member.                    *)
EXTENDS Stream

MCOwner == [r \in Runtimes |-> "a"]
=============================================================================
