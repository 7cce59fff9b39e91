------------------------------ MODULE MCCouncil ------------------------------
(* Council on small instances; members are interchangeable.                *)
EXTENDS Council, TLC, FiniteSets

CONSTANTS MaxResponses,  \* bound: raises, drops and automatic drops
          MaxDispatches, \* bound: dispatches under way at a time
          MaxBlocks      \* bound: distinct resume phases of blocks

MemberSymmetry == Permutations(Members)

Bounded ==
    /\ Cardinality(raised) + Cardinality(dropped) + Cardinality(auto) <= MaxResponses
    /\ Cardinality({g \in DOMAIN grants : grants[g].run # "done"}) <= MaxDispatches
    /\ Cardinality(blocks) <= MaxBlocks
=============================================================================
