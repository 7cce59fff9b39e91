------------------------- MODULE MCSessionCreation -------------------------
(* A delegation and two councils; the second council reuses the first's id *)
(* with another payload.                                                   *)
EXTENDS SessionCreation

MCRequests ==
    {[id |-> "s1", kind |-> "delegation", body |-> 1, roster |-> {"p"}],
     [id |-> "s2", kind |-> "council", body |-> 1, roster |-> {"p", "q"}],
     [id |-> "s2", kind |-> "council", body |-> 2, roster |-> {"p"}]}
=============================================================================
