--------------------------- MODULE MCSessionStore ---------------------------
(***************************************************************************)
(* SessionStore on a slice of the delegation lifecycle: work is submitted  *)
(* and accepted, with artifacts (attach) or without, the moderator may     *)
(* cancel or block, a member acknowledges a cursor.  c1 is also sent with  *)
(* another kind (a command-id conflict).                                   *)
(***************************************************************************)
EXTENDS SessionStore

CONSTANTS c1, c2, c3, c4, c5, c6

MCPhases == {"working", "submitted", "accepted", "cancelled", "blocked"}
MCTerminal == {"accepted", "cancelled"}
MCKinds == {"submit", "accept", "cancel", "block", "ack", "attach"}
MCFrom == [k \in MCKinds |->
             CASE k \in {"submit", "attach"} -> {"working"}
               [] k = "accept" -> {"submitted"}
               [] k = "cancel" -> MCPhases \ MCTerminal
               [] k = "block"  -> MCPhases \ (MCTerminal \cup {"blocked"})
               [] k = "ack"    -> MCPhases]
MCTo == [k \in MCKinds |->
             CASE k \in {"submit", "attach"} -> "submitted"
               [] k = "accept" -> "accepted"
               [] k = "cancel" -> "cancelled"
               [] k = "block"  -> "blocked"
               [] k = "ack"    -> Keep]
MCGateFirst == {"block", "attach"}
MCStamped == {"attach"}
MCReplayed == {"submit", "accept"}
MCRequests == {<<c1, "submit">>, <<c2, "accept">>, <<c3, "cancel">>,
               <<c4, "block">>, <<c5, "ack">>, <<c6, "attach">>, <<c1, "cancel">>}
RaceRequests == {<<c1, "submit">>, <<c2, "accept">>, <<c3, "cancel">>}
=============================================================================
