---------------------------- MODULE MCProjection ----------------------------
(* A council and two delegations; batch ids are interchangeable.           *)
EXTENDS Projection

MCOrder == <<"c1", "d1", "d2">>
MCSpeaker == [i \in Invocations |-> "a"]
MCSymmetry == Permutations(Batches)
=============================================================================
