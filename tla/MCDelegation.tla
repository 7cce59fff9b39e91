---------------------------- MODULE MCDelegation ----------------------------
(* Delegation is finite, but its sets of recorded resume phases multiply:  *)
(* the passing run looks at sessions that record few distinct ones.        *)
EXTENDS Delegation, FiniteSets

CONSTANTS MaxEscalations, MaxBlocks   \* bounds on distinct resume phases

Bounded == /\ Cardinality(escalations) <= MaxEscalations
           /\ Cardinality(blocks) <= MaxBlocks
=============================================================================
