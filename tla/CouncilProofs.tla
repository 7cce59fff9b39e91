---------------------------- MODULE CouncilProofs ----------------------------
(***************************************************************************)
(* Theorems about the council lifecycle, for every set of members and      *)
(* every limit: any number of turns, grants, runners, drafts and rounds.   *)
(***************************************************************************)
EXTENDS Council, TLAPS

(* Hands and grants: nobody both raises a hand and drops out of a turn,    *)
(* and whoever was granted a turn has raised a hand for it.                *)
HandsFirst ==
    /\ raised \cap dropped = {}
    /\ \A g \in DOMAIN grants : <<grants[g].member, grants[g].turn>> \in raised

(* The phases that a resume can bring back have what they need.            *)
BlocksHaveDraft ==
    /\ blocks \cap {"draft_conclusion", "consensus_vote"} # {} => draft > 0
    /\ "consensus_vote" \in blocks => round > 0

Conclusion == ConclusionHasDraft /\ BlocksHaveDraft
IndInv == /\ TypeOK /\ FinalizedIsUnanimous /\ Conclusion
          /\ HandsFirst /\ DraftFollowsDiscussion

USE CouncilConstants DEF window, speech, conclusion, Transition, AppendEvent,
                         AppendDispatchEvent, SawTurn, Phases, Terminal, Open, Turns

(* A step of a dispatch replaces the record of its grant.                  *)
LEMMA Update ==
    ASSUME NEW s \in Seq(GrantRecords), NEW g \in DOMAIN s, NEW rec \in GrantRecords,
           NEW u, u = [s EXCEPT ![g] = rec]
    PROVE  /\ u \in Seq(GrantRecords) /\ Len(u) = Len(s) /\ DOMAIN u = DOMAIN s
           /\ \A i \in DOMAIN s : u[i] = IF i = g THEN rec ELSE s[i]
<1>1. s \in [1..Len(s) -> GrantRecords] /\ Len(s) \in Nat /\ DOMAIN s = 1..Len(s)
  OBVIOUS
<1>2. u \in [1..Len(s) -> GrantRecords] /\ DOMAIN u = DOMAIN s
  BY <1>1
<1>3. u \in Seq(GrantRecords) /\ Len(u) = Len(s)
  BY <1>1, <1>2
<1>4. QED
  BY <1>2, <1>3, <1>1

(* The record of a grant changes in what the step says and keeps its       *)
(* member and turn.                                                        *)
LEMMA DispatchUpdate ==
    ASSUME TypeOK, NEW g \in DOMAIN grants,
           DispatchFails(g) \/ RunnerStarts(g) \/ RunnerRetries(g) \/ RunnerFails(g)
             \/ RunnerSucceeds(g) \/ RunnerSpeaks(g)
             \/ \E t \in Turns : RunnerValidates(g, t)
    PROVE  /\ grants' \in Seq(GrantRecords) /\ Len(grants') = Len(grants)
           /\ DOMAIN grants' = DOMAIN grants
           /\ \A i \in DOMAIN grants : /\ grants'[i].member = grants[i].member
                                        /\ grants'[i].turn = grants[i].turn
<1>1. grants \in Seq(GrantRecords) /\ grants[g] \in GrantRecords
  BY DEF TypeOK
<1>2. PICK rec \in GrantRecords :
           /\ grants' = [grants EXCEPT ![g] = rec]
           /\ rec.member = grants[g].member /\ rec.turn = grants[g].turn
  <2>1. CASE DispatchFails(g) \/ RunnerFails(g) \/ RunnerSpeaks(g)
    <3> DEFINE rec == [grants[g] EXCEPT !.run = "done"]
    <3>1. rec \in GrantRecords /\ rec.member = grants[g].member /\ rec.turn = grants[g].turn
      BY <1>1 DEF GrantRecords
    <3>2. grants' = [grants EXCEPT ![g] = rec]
      BY <2>1 DEF DispatchFails, RunnerFails, RunnerSpeaks
    <3>3. QED
      BY <3>1, <3>2
  <2>2. CASE RunnerStarts(g)
    <3> DEFINE rec == [grants[g] EXCEPT !.run = "running", !.attempt = 1]
    <3>1. 1 \in 0..(MaxRetries + 1)
      OBVIOUS
    <3>2. rec \in GrantRecords /\ rec.member = grants[g].member /\ rec.turn = grants[g].turn
      BY <3>1, <1>1, Zenon DEF GrantRecords
    <3>3. grants' = [grants EXCEPT ![g] = rec]
      BY <2>2, <1>1 DEF RunnerStarts
    <3>4. QED
      BY <3>2, <3>3
  <2>3. CASE RunnerRetries(g)
    <3> DEFINE rec == [grants[g] EXCEPT !.attempt = @ + 1]
    <3>1. grants[g].attempt + 1 \in 0..(MaxRetries + 1)
      BY <2>3, <1>1 DEF RunnerRetries, GrantRecords
    <3>2. rec \in GrantRecords /\ rec.member = grants[g].member /\ rec.turn = grants[g].turn
      BY <3>1, <1>1, Zenon DEF GrantRecords
    <3>3. grants' = [grants EXCEPT ![g] = rec]
      BY <2>3 DEF RunnerRetries
    <3>4. QED
      BY <3>2, <3>3
  <2>4. CASE RunnerSucceeds(g)
    <3> DEFINE rec == [grants[g] EXCEPT !.run = "succeeded"]
    <3>1. rec \in GrantRecords /\ rec.member = grants[g].member /\ rec.turn = grants[g].turn
      BY <1>1 DEF GrantRecords
    <3>2. grants' = [grants EXCEPT ![g] = rec]
      BY <2>4 DEF RunnerSucceeds
    <3>3. QED
      BY <3>1, <3>2
  <2>5. ASSUME NEW t \in Turns, RunnerValidates(g, t)
        PROVE  \E rec \in GrantRecords :
                 /\ grants' = [grants EXCEPT ![g] = rec]
                 /\ rec.member = grants[g].member /\ rec.turn = grants[g].turn
    <3> DEFINE rec == [grants[g] EXCEPT !.run = "valid", !.says = t]
    <3>1. rec \in GrantRecords /\ rec.member = grants[g].member /\ rec.turn = grants[g].turn
      BY <1>1, Zenon DEF GrantRecords
    <3>2. grants' = [grants EXCEPT ![g] = rec]
      BY <2>5, <1>1 DEF RunnerValidates
    <3>3. QED
      BY <3>1, <3>2
  <2>6. QED
    BY <2>1, <2>2, <2>3, <2>4, <2>5
<1>3. QED
  BY <1>1, <1>2, Update

(* Every action keeps the types.                                           *)
LEMMA TypeStep == TypeOK /\ Conclusion /\ [Next]_vars => TypeOK'
<1> SUFFICES ASSUME TypeOK, Conclusion, [Next]_vars PROVE TypeOK'
  OBVIOUS
<1> USE DEF TypeOK
<1>1. ASSUME OpeningRecord PROVE TypeOK'
  BY <1>1 DEF OpeningRecord
<1>2. ASSUME Prepare PROVE TypeOK'
  BY <1>2 DEF Prepare
<1>3. ASSUME Intervene PROVE TypeOK'
  BY <1>3 DEF Intervene
<1>4. ASSUME NEW t \in Turns, Poll(t) PROVE TypeOK'
  BY <1>4 DEF Poll
<1>5. ASSUME NEW t \in Turns, Deadline(t) PROVE TypeOK'
  BY <1>5 DEF Deadline
<1>6. ASSUME NEW m \in Members, NEW t \in Turns, HandRaise(m, t) PROVE TypeOK'
  BY <1>6 DEF HandRaise, Slots
<1>7. ASSUME NEW m \in Members, NEW t \in Turns, Drop(m, t) PROVE TypeOK'
  BY <1>7 DEF Drop, Slots
<1>8. ASSUME NEW m \in Members, NEW t \in Turns, Grant(m, t) PROVE TypeOK'
  BY <1>8 DEF Grant, GrantRecords
<1>9. ASSUME NEW m \in Members, NEW t \in Turns, Speak(m, t) PROVE TypeOK'
  BY <1>9 DEF Speak, Slots
<1>10. ASSUME NEW m \in Members, AutoDrop(m) PROVE TypeOK'
  BY <1>10 DEF AutoDrop, Slots
<1>11. ASSUME NEW m \in Members, NEW v \in Votes, Vote(m, v) PROVE TypeOK'
  <2>1. draft \in 1..MaxDrafts /\ round \in 1..MaxRounds
    BY <1>11 DEF Vote, Conclusion, ConclusionHasDraft
  <2>2. ballots' \subseteq Ballots
    BY <1>11, <2>1 DEF Vote, Ballots
  <2>3. QED
    BY <1>11, <2>2 DEF Vote
<1>12. ASSUME NEW g \in DOMAIN grants, DispatchFails(g) PROVE TypeOK'
  BY <1>12, DispatchUpdate DEF DispatchFails
<1>13. ASSUME NEW g \in DOMAIN grants, RunnerStarts(g) PROVE TypeOK'
  BY <1>13, DispatchUpdate DEF RunnerStarts
<1>14. ASSUME NEW g \in DOMAIN grants, RunnerRetries(g) PROVE TypeOK'
  BY <1>14, DispatchUpdate DEF RunnerRetries
<1>15. ASSUME NEW g \in DOMAIN grants, RunnerFails(g) PROVE TypeOK'
  BY <1>15, DispatchUpdate DEF RunnerFails
<1>a. ASSUME NEW g \in DOMAIN grants, NEW t \in Turns, RunnerValidates(g, t) PROVE TypeOK'
  BY <1>a, DispatchUpdate DEF RunnerValidates
<1>b. ASSUME NEW g \in DOMAIN grants, RunnerSucceeds(g) PROVE TypeOK'
  BY <1>b, DispatchUpdate DEF RunnerSucceeds
<1>16. ASSUME NEW g \in DOMAIN grants, RunnerSpeaks(g) PROVE TypeOK'
  <2>1. grants[g] \in GrantRecords
    OBVIOUS
  <2>2. grants[g].member \in Members /\ grants[g].says \in Turns
    BY <2>1, Zenon DEF GrantRecords
  <2>3. spoken' \subseteq Slots
    BY <1>16, <2>2 DEF RunnerSpeaks, Slots
  <2>4. QED
    BY <1>16, <2>3, DispatchUpdate DEF RunnerSpeaks
<1>17. ASSUME Propose PROVE TypeOK'
  <2>1. draft' \in 0..MaxDrafts
    BY <1>17 DEF Propose
  <2>2. voting' \in BOOLEAN
    BY <1>17, Zenon DEF Propose
  <2>3. QED
    BY <1>17, <2>1, <2>2 DEF Propose
<1>18. ASSUME Revise PROVE TypeOK'
  <2>1. draft' \in 0..MaxDrafts
    BY <1>18 DEF Revise
  <2>2. voting' \in BOOLEAN
    BY <1>18, Zenon DEF Revise
  <2>3. QED
    BY <1>18, <2>1, <2>2 DEF Revise
<1>19. ASSUME RequestVote PROVE TypeOK'
  BY <1>19 DEF RequestVote
<1>20. ASSUME Finalize PROVE TypeOK'
  BY <1>20 DEF Finalize
<1>21. ASSUME NEW e \in BOOLEAN, Unresolved(e) PROVE TypeOK'
  BY <1>21 DEF Unresolved
<1>22. ASSUME CancelSession PROVE TypeOK'
  BY <1>22 DEF CancelSession
<1>23. ASSUME BlockSession PROVE TypeOK'
  BY <1>23 DEF BlockSession
<1>24. ASSUME StreamEvent PROVE TypeOK'
  BY <1>24 DEF StreamEvent
<1>25. ASSUME NEW r \in blocks, ResumeSession(r) PROVE TypeOK'
  BY <1>25 DEF ResumeSession
<1>26. ASSUME UNCHANGED vars PROVE TypeOK'
  BY <1>26 DEF vars
<1>27. QED
  BY <1>1, <1>2, <1>3, <1>4, <1>5, <1>6, <1>7, <1>8, <1>9, <1>10, <1>11, <1>12, <1>13,
     <1>14, <1>15, <1>a, <1>b, <1>16, <1>17, <1>18, <1>19, <1>20, <1>21, <1>22, <1>23, <1>24, <1>25, <1>26
  DEF Next, Dispatch

(* Only Finalize enters finalized, and nothing votes or revises there.     *)
LEMMA UnanimousStep == TypeOK /\ FinalizedIsUnanimous /\ [Next]_vars => FinalizedIsUnanimous'
<1> SUFFICES ASSUME TypeOK, FinalizedIsUnanimous, [Next]_vars PROVE FinalizedIsUnanimous'
  OBVIOUS
<1> USE DEF TypeOK, FinalizedIsUnanimous
<1>1. ASSUME OpeningRecord PROVE FinalizedIsUnanimous'
  BY <1>1 DEF OpeningRecord
<1>2. ASSUME Prepare PROVE FinalizedIsUnanimous'
  BY <1>2 DEF Prepare
<1>3. ASSUME Intervene PROVE FinalizedIsUnanimous'
  BY <1>3 DEF Intervene
<1>4. ASSUME NEW t \in Turns, Poll(t) PROVE FinalizedIsUnanimous'
  BY <1>4 DEF Poll
<1>5. ASSUME NEW t \in Turns, Deadline(t) PROVE FinalizedIsUnanimous'
  BY <1>5 DEF Deadline
<1>6. ASSUME NEW m \in Members, NEW t \in Turns, HandRaise(m, t) PROVE FinalizedIsUnanimous'
  BY <1>6 DEF HandRaise
<1>7. ASSUME NEW m \in Members, NEW t \in Turns, Drop(m, t) PROVE FinalizedIsUnanimous'
  BY <1>7 DEF Drop
<1>8. ASSUME NEW m \in Members, NEW t \in Turns, Grant(m, t) PROVE FinalizedIsUnanimous'
  BY <1>8 DEF Grant
<1>9. ASSUME NEW m \in Members, NEW t \in Turns, Speak(m, t) PROVE FinalizedIsUnanimous'
  BY <1>9 DEF Speak
<1>10. ASSUME NEW m \in Members, AutoDrop(m) PROVE FinalizedIsUnanimous'
  BY <1>10 DEF AutoDrop
<1>11. ASSUME NEW m \in Members, NEW v \in Votes, Vote(m, v) PROVE FinalizedIsUnanimous'
  BY <1>11 DEF Vote
<1>12. ASSUME NEW g \in DOMAIN grants, DispatchFails(g) PROVE FinalizedIsUnanimous'
  BY <1>12 DEF DispatchFails
<1>13. ASSUME NEW g \in DOMAIN grants, RunnerStarts(g) PROVE FinalizedIsUnanimous'
  BY <1>13 DEF RunnerStarts
<1>14. ASSUME NEW g \in DOMAIN grants, RunnerRetries(g) PROVE FinalizedIsUnanimous'
  BY <1>14 DEF RunnerRetries
<1>15. ASSUME NEW g \in DOMAIN grants, RunnerFails(g) PROVE FinalizedIsUnanimous'
  BY <1>15 DEF RunnerFails
<1>a. ASSUME NEW g \in DOMAIN grants, NEW t \in Turns, RunnerValidates(g, t)
      PROVE  FinalizedIsUnanimous'
  BY <1>a DEF RunnerValidates
<1>b. ASSUME NEW g \in DOMAIN grants, RunnerSucceeds(g) PROVE FinalizedIsUnanimous'
  BY <1>b DEF RunnerSucceeds
<1>16. ASSUME NEW g \in DOMAIN grants, RunnerSpeaks(g) PROVE FinalizedIsUnanimous'
  BY <1>16 DEF RunnerSpeaks
<1>17. ASSUME Propose PROVE FinalizedIsUnanimous'
  BY <1>17 DEF Propose
<1>18. ASSUME Revise PROVE FinalizedIsUnanimous'
  BY <1>18 DEF Revise
<1>19. ASSUME RequestVote PROVE FinalizedIsUnanimous'
  BY <1>19 DEF RequestVote
<1>20. ASSUME Finalize PROVE FinalizedIsUnanimous'
  BY <1>20 DEF Finalize, FinalizeReady, CurrentBallots
<1>21. ASSUME NEW e \in BOOLEAN, Unresolved(e) PROVE FinalizedIsUnanimous'
  BY <1>21 DEF Unresolved
<1>22. ASSUME CancelSession PROVE FinalizedIsUnanimous'
  BY <1>22 DEF CancelSession
<1>23. ASSUME BlockSession PROVE FinalizedIsUnanimous'
  BY <1>23 DEF BlockSession
<1>24. ASSUME StreamEvent PROVE FinalizedIsUnanimous'
  BY <1>24 DEF StreamEvent
<1>25. ASSUME NEW r \in blocks, ResumeSession(r) PROVE FinalizedIsUnanimous'
  BY <1>25 DEF ResumeSession
<1>26. ASSUME UNCHANGED vars PROVE FinalizedIsUnanimous'
  BY <1>26 DEF vars
<1>27. QED
  BY <1>1, <1>2, <1>3, <1>4, <1>5, <1>6, <1>7, <1>8, <1>9, <1>10, <1>11, <1>12, <1>13,
     <1>14, <1>15, <1>a, <1>b, <1>16, <1>17, <1>18, <1>19, <1>20, <1>21, <1>22, <1>23, <1>24, <1>25, <1>26
  DEF Next, Dispatch

(* Drafts and rounds only grow, so a block never outlives its draft.       *)
LEMMA ConclusionStep == TypeOK /\ Conclusion /\ [Next]_vars => Conclusion'
<1> SUFFICES ASSUME TypeOK, Conclusion, [Next]_vars PROVE Conclusion'
  OBVIOUS
<1> USE DEF TypeOK, Conclusion, ConclusionHasDraft, BlocksHaveDraft
<1>1. ASSUME OpeningRecord PROVE Conclusion'
  BY <1>1 DEF OpeningRecord
<1>2. ASSUME Prepare PROVE Conclusion'
  BY <1>2 DEF Prepare
<1>3. ASSUME Intervene PROVE Conclusion'
  BY <1>3 DEF Intervene
<1>4. ASSUME NEW t \in Turns, Poll(t) PROVE Conclusion'
  BY <1>4 DEF Poll
<1>5. ASSUME NEW t \in Turns, Deadline(t) PROVE Conclusion'
  BY <1>5 DEF Deadline
<1>6. ASSUME NEW m \in Members, NEW t \in Turns, HandRaise(m, t) PROVE Conclusion'
  BY <1>6 DEF HandRaise
<1>7. ASSUME NEW m \in Members, NEW t \in Turns, Drop(m, t) PROVE Conclusion'
  BY <1>7 DEF Drop
<1>8. ASSUME NEW m \in Members, NEW t \in Turns, Grant(m, t) PROVE Conclusion'
  BY <1>8 DEF Grant
<1>9. ASSUME NEW m \in Members, NEW t \in Turns, Speak(m, t) PROVE Conclusion'
  BY <1>9 DEF Speak
<1>10. ASSUME NEW m \in Members, AutoDrop(m) PROVE Conclusion'
  BY <1>10 DEF AutoDrop
<1>11. ASSUME NEW m \in Members, NEW v \in Votes, Vote(m, v) PROVE Conclusion'
  BY <1>11 DEF Vote
<1>12. ASSUME NEW g \in DOMAIN grants, DispatchFails(g) PROVE Conclusion'
  BY <1>12 DEF DispatchFails
<1>13. ASSUME NEW g \in DOMAIN grants, RunnerStarts(g) PROVE Conclusion'
  BY <1>13 DEF RunnerStarts
<1>14. ASSUME NEW g \in DOMAIN grants, RunnerRetries(g) PROVE Conclusion'
  BY <1>14 DEF RunnerRetries
<1>15. ASSUME NEW g \in DOMAIN grants, RunnerFails(g) PROVE Conclusion'
  BY <1>15 DEF RunnerFails
<1>a. ASSUME NEW g \in DOMAIN grants, NEW t \in Turns, RunnerValidates(g, t)
      PROVE  Conclusion'
  BY <1>a DEF RunnerValidates
<1>b. ASSUME NEW g \in DOMAIN grants, RunnerSucceeds(g) PROVE Conclusion'
  BY <1>b DEF RunnerSucceeds
<1>16. ASSUME NEW g \in DOMAIN grants, RunnerSpeaks(g) PROVE Conclusion'
  BY <1>16 DEF RunnerSpeaks
<1>17. ASSUME Propose PROVE Conclusion'
  BY <1>17 DEF Propose
<1>18. ASSUME Revise PROVE Conclusion'
  BY <1>18 DEF Revise
<1>19. ASSUME RequestVote PROVE Conclusion'
  BY <1>19 DEF RequestVote
<1>20. ASSUME Finalize PROVE Conclusion'
  BY <1>20 DEF Finalize, FinalizeReady
<1>21. ASSUME NEW e \in BOOLEAN, Unresolved(e) PROVE Conclusion'
  BY <1>21 DEF Unresolved
<1>22. ASSUME CancelSession PROVE Conclusion'
  BY <1>22 DEF CancelSession
<1>23. ASSUME BlockSession PROVE Conclusion'
  BY <1>23 DEF BlockSession
<1>24. ASSUME StreamEvent PROVE Conclusion'
  BY <1>24 DEF StreamEvent
<1>25. ASSUME NEW r \in blocks, ResumeSession(r) PROVE Conclusion'
  BY <1>25 DEF ResumeSession
<1>26. ASSUME UNCHANGED vars PROVE Conclusion'
  BY <1>26 DEF vars
<1>27. QED
  BY <1>1, <1>2, <1>3, <1>4, <1>5, <1>6, <1>7, <1>8, <1>9, <1>10, <1>11, <1>12, <1>13,
     <1>14, <1>15, <1>a, <1>b, <1>16, <1>17, <1>18, <1>19, <1>20, <1>21, <1>22, <1>23, <1>24, <1>25, <1>26
  DEF Next, Dispatch

(* Grants are never taken back.                                            *)
LEMMA HandsStep == TypeOK /\ HandsFirst /\ [Next]_vars => HandsFirst'
<1> SUFFICES ASSUME TypeOK, HandsFirst, [Next]_vars PROVE HandsFirst'
  OBVIOUS
<1> USE DEF TypeOK, HandsFirst
<1>1. ASSUME OpeningRecord PROVE HandsFirst'
  BY <1>1 DEF OpeningRecord
<1>2. ASSUME Prepare PROVE HandsFirst'
  BY <1>2 DEF Prepare
<1>3. ASSUME Intervene PROVE HandsFirst'
  BY <1>3 DEF Intervene
<1>4. ASSUME NEW t \in Turns, Poll(t) PROVE HandsFirst'
  BY <1>4 DEF Poll
<1>5. ASSUME NEW t \in Turns, Deadline(t) PROVE HandsFirst'
  BY <1>5 DEF Deadline
<1>6. ASSUME NEW m \in Members, NEW t \in Turns, HandRaise(m, t) PROVE HandsFirst'
  BY <1>6 DEF HandRaise
<1>7. ASSUME NEW m \in Members, NEW t \in Turns, Drop(m, t) PROVE HandsFirst'
  BY <1>7 DEF Drop
<1>8. ASSUME NEW m \in Members, NEW t \in Turns, Grant(m, t) PROVE HandsFirst'
  BY <1>8 DEF Grant
<1>9. ASSUME NEW m \in Members, NEW t \in Turns, Speak(m, t) PROVE HandsFirst'
  BY <1>9 DEF Speak
<1>10. ASSUME NEW m \in Members, AutoDrop(m) PROVE HandsFirst'
  BY <1>10 DEF AutoDrop
<1>11. ASSUME NEW m \in Members, NEW v \in Votes, Vote(m, v) PROVE HandsFirst'
  BY <1>11 DEF Vote
<1>12. ASSUME NEW g \in DOMAIN grants, DispatchFails(g) PROVE HandsFirst'
  BY <1>12, DispatchUpdate DEF DispatchFails
<1>13. ASSUME NEW g \in DOMAIN grants, RunnerStarts(g) PROVE HandsFirst'
  <2>1. UNCHANGED <<raised, dropped>>
    BY <1>13 DEF RunnerStarts
  <2>2. QED
    BY <1>13, <2>1, DispatchUpdate
<1>14. ASSUME NEW g \in DOMAIN grants, RunnerRetries(g) PROVE HandsFirst'
  BY <1>14, DispatchUpdate DEF RunnerRetries
<1>15. ASSUME NEW g \in DOMAIN grants, RunnerFails(g) PROVE HandsFirst'
  BY <1>15, DispatchUpdate DEF RunnerFails
<1>a. ASSUME NEW g \in DOMAIN grants, NEW t \in Turns, RunnerValidates(g, t)
      PROVE  HandsFirst'
  <2>1. UNCHANGED <<raised, dropped>>
    BY <1>a DEF RunnerValidates
  <2>2. QED
    BY <1>a, <2>1, DispatchUpdate
<1>b. ASSUME NEW g \in DOMAIN grants, RunnerSucceeds(g) PROVE HandsFirst'
  BY <1>b, DispatchUpdate DEF RunnerSucceeds
<1>16. ASSUME NEW g \in DOMAIN grants, RunnerSpeaks(g) PROVE HandsFirst'
  BY <1>16, DispatchUpdate DEF RunnerSpeaks
<1>17. ASSUME Propose PROVE HandsFirst'
  BY <1>17 DEF Propose
<1>18. ASSUME Revise PROVE HandsFirst'
  BY <1>18 DEF Revise
<1>19. ASSUME RequestVote PROVE HandsFirst'
  BY <1>19 DEF RequestVote
<1>20. ASSUME Finalize PROVE HandsFirst'
  BY <1>20 DEF Finalize
<1>21. ASSUME NEW e \in BOOLEAN, Unresolved(e) PROVE HandsFirst'
  BY <1>21 DEF Unresolved
<1>22. ASSUME CancelSession PROVE HandsFirst'
  BY <1>22 DEF CancelSession
<1>23. ASSUME BlockSession PROVE HandsFirst'
  BY <1>23 DEF BlockSession
<1>24. ASSUME StreamEvent PROVE HandsFirst'
  BY <1>24 DEF StreamEvent
<1>25. ASSUME NEW r \in blocks, ResumeSession(r) PROVE HandsFirst'
  BY <1>25 DEF ResumeSession
<1>26. ASSUME UNCHANGED vars PROVE HandsFirst'
  BY <1>26 DEF vars
<1>27. QED
  BY <1>1, <1>2, <1>3, <1>4, <1>5, <1>6, <1>7, <1>8, <1>9, <1>10, <1>11, <1>12, <1>13,
     <1>14, <1>15, <1>a, <1>b, <1>16, <1>17, <1>18, <1>19, <1>20, <1>21, <1>22, <1>23, <1>24, <1>25, <1>26
  DEF Next, Dispatch

(* What a step leaves of the discussion: speeches, hands and grants stay,  *)
(* and the first draft is a proposal.                                      *)
Grows ==
    /\ spoken \subseteq spoken' /\ raised \subseteq raised'
    /\ DOMAIN grants \subseteq DOMAIN grants'
    /\ \A g \in DOMAIN grants : /\ grants'[g].member = grants[g].member
                                /\ grants'[g].turn = grants[g].turn
    /\ draft' # draft => draft > 0 \/ Propose

(* No action takes anything back.                                          *)
LEMMA GrowsStep == TypeOK /\ [Next]_vars => Grows
<1> SUFFICES ASSUME TypeOK, [Next]_vars PROVE Grows
  OBVIOUS
<1> USE DEF TypeOK, Grows
<1>1. ASSUME OpeningRecord PROVE Grows
  BY <1>1 DEF OpeningRecord
<1>2. ASSUME Prepare PROVE Grows
  BY <1>2 DEF Prepare
<1>3. ASSUME Intervene PROVE Grows
  BY <1>3 DEF Intervene
<1>4. ASSUME NEW t \in Turns, Poll(t) PROVE Grows
  BY <1>4 DEF Poll
<1>5. ASSUME NEW t \in Turns, Deadline(t) PROVE Grows
  BY <1>5 DEF Deadline
<1>6. ASSUME NEW m \in Members, NEW t \in Turns, HandRaise(m, t) PROVE Grows
  BY <1>6 DEF HandRaise
<1>7. ASSUME NEW m \in Members, NEW t \in Turns, Drop(m, t) PROVE Grows
  BY <1>7 DEF Drop
<1>8. ASSUME NEW m \in Members, NEW t \in Turns, Grant(m, t) PROVE Grows
  BY <1>8 DEF Grant
<1>9. ASSUME NEW m \in Members, NEW t \in Turns, Speak(m, t) PROVE Grows
  BY <1>9 DEF Speak
<1>10. ASSUME NEW m \in Members, AutoDrop(m) PROVE Grows
  BY <1>10 DEF AutoDrop
<1>11. ASSUME NEW m \in Members, NEW v \in Votes, Vote(m, v) PROVE Grows
  BY <1>11 DEF Vote
<1>12. ASSUME NEW g \in DOMAIN grants, DispatchFails(g) PROVE Grows
  BY <1>12, DispatchUpdate DEF DispatchFails
<1>13. ASSUME NEW g \in DOMAIN grants, RunnerStarts(g) PROVE Grows
  BY <1>13, DispatchUpdate DEF RunnerStarts
<1>14. ASSUME NEW g \in DOMAIN grants, RunnerRetries(g) PROVE Grows
  BY <1>14, DispatchUpdate DEF RunnerRetries
<1>15. ASSUME NEW g \in DOMAIN grants, RunnerFails(g) PROVE Grows
  BY <1>15, DispatchUpdate DEF RunnerFails
<1>a. ASSUME NEW g \in DOMAIN grants, NEW t \in Turns, RunnerValidates(g, t)
      PROVE  Grows
  BY <1>a, DispatchUpdate DEF RunnerValidates
<1>b. ASSUME NEW g \in DOMAIN grants, RunnerSucceeds(g) PROVE Grows
  BY <1>b, DispatchUpdate DEF RunnerSucceeds
<1>16. ASSUME NEW g \in DOMAIN grants, RunnerSpeaks(g) PROVE Grows
  BY <1>16, DispatchUpdate DEF RunnerSpeaks
<1>17. ASSUME Propose PROVE Grows
  BY <1>17 DEF Propose
<1>18. ASSUME Revise PROVE Grows
  BY <1>18 DEF Revise
<1>19. ASSUME RequestVote PROVE Grows
  BY <1>19 DEF RequestVote
<1>20. ASSUME Finalize PROVE Grows
  BY <1>20 DEF Finalize
<1>21. ASSUME NEW e \in BOOLEAN, Unresolved(e) PROVE Grows
  BY <1>21 DEF Unresolved
<1>22. ASSUME CancelSession PROVE Grows
  BY <1>22 DEF CancelSession
<1>23. ASSUME BlockSession PROVE Grows
  BY <1>23 DEF BlockSession
<1>24. ASSUME StreamEvent PROVE Grows
  BY <1>24 DEF StreamEvent
<1>25. ASSUME NEW r \in blocks, ResumeSession(r) PROVE Grows
  BY <1>25 DEF ResumeSession
<1>26. ASSUME UNCHANGED vars PROVE Grows
  BY <1>26 DEF vars
<1>27. QED
  BY <1>1, <1>2, <1>3, <1>4, <1>5, <1>6, <1>7, <1>8, <1>9, <1>10, <1>11, <1>12, <1>13,
     <1>14, <1>15, <1>a, <1>b, <1>16, <1>17, <1>18, <1>19, <1>20, <1>21, <1>22, <1>23, <1>24, <1>25, <1>26
  DEF Next, Dispatch

(* A draft keeps the discussion it concludes: grants rest on raised hands, *)
(* so whoever was heard when it was proposed is heard for good.            *)
LEMMA DraftStep ==
    ASSUME TypeOK, HandsFirst, HandsFirst', DraftFollowsDiscussion, [Next]_vars
    PROVE  DraftFollowsDiscussion'
<1>1. Grows
  BY GrowsStep
<1>2. ASSUME NEW m \in Members, NEW t \in Turns, <<m, t>> \in spoken, Granted(m, t)
      PROVE  Heard(m, t)'
  <2>1. PICK g \in DOMAIN grants : grants[g].member = m /\ grants[g].turn = t
    BY <1>2 DEF Granted
  <2>2. Granted(m, t)'
    BY <1>1, <2>1 DEF Grows, Granted
  <2>3. <<m, t>> \in raised'
    BY <1>1, <2>1 DEF Grows, HandsFirst
  <2>4. <<m, t>> \notin dropped' /\ <<m, t>> \in spoken'
    BY <1>1, <1>2, <2>3 DEF Grows, HandsFirst
  <2>5. QED
    BY <2>2, <2>3, <2>4 DEF Heard
<1>3. SUFFICES ASSUME draft' > 0, MaxDiscussionTurns > 0
               PROVE  DraftFollowsDiscussion'
  BY DEF DraftFollowsDiscussion
<1>4. /\ \A t \in 1..MaxDiscussionTurns :
            \E m \in Members : t \in Turns /\ <<m, t>> \in spoken /\ Granted(m, t)
      /\ \A m \in Members : \E t \in Turns :
            t > MaxDiscussionTurns /\ <<m, t>> \in spoken /\ Granted(m, t)
  <2>1. CASE draft > 0
    <3>1. \A t \in 1..MaxDiscussionTurns : \E m \in Members : Heard(m, t)
      BY <1>3, <2>1 DEF DraftFollowsDiscussion
    <3>2. \A m \in Members : \E t \in Turns : t > MaxDiscussionTurns /\ Heard(m, t)
      BY <1>3, <2>1 DEF DraftFollowsDiscussion
    <3>3. \A m, t : <<m, t>> \in spoken => t \in Turns
      BY DEF TypeOK, Slots
    <3>4. QED
      BY <3>1, <3>2, <3>3 DEF Heard
  <2>2. CASE Propose
    <3>1. \A m, t : <<m, t>> \in spoken => t \in Turns
      BY DEF TypeOK, Slots
    <3>2. QED
      BY <1>3, <2>2, <3>1 DEF Propose, ProposeReady
  <2>3. QED
    BY <1>1, <1>3, <2>1, <2>2 DEF Grows, TypeOK
<1>5. QED
  BY <1>2, <1>4 DEF DraftFollowsDiscussion

(* The initial state has nothing yet.                                      *)
LEMMA InitInv == Init => IndInv
<1> SUFFICES ASSUME Init PROVE IndInv
  OBVIOUS
<1>1. TypeOK
  <2>1. grants \in Seq(GrantRecords) /\ Len(grants) <= MaxGrants
    BY DEF Init
  <2>2. /\ turn \in 0..MaxTurn /\ draft \in 0..MaxDrafts /\ round \in 0..MaxRounds
        /\ phase \in Phases
    BY DEF Init
  <2>3. voting \in BOOLEAN
    BY Zenon DEF Init
  <2>4. QED
    BY <2>1, <2>2, <2>3 DEF Init, TypeOK
<1>2. HandsFirst
  BY DEF Init, HandsFirst
<1>3. FinalizedIsUnanimous /\ Conclusion
  BY DEF Init, FinalizedIsUnanimous, Conclusion, ConclusionHasDraft,
         BlocksHaveDraft
<1>4. DraftFollowsDiscussion
  BY DEF Init, DraftFollowsDiscussion
<1>5. QED
  BY <1>1, <1>2, <1>3, <1>4 DEF IndInv

(* The invariant is inductive.                                             *)
LEMMA Inductive == Spec => []IndInv
<1>1. IndInv /\ [Next]_vars => IndInv'
  BY TypeStep, UnanimousStep, ConclusionStep, HandsStep, DraftStep DEF IndInv
<1>2. QED
  BY InitInv, <1>1, PTL DEF Spec

(* Every variable of the council keeps its type, the attempts of a runner  *)
(* within the limit of its retries among them.                             *)
THEOREM TypeCorrect == Spec => []TypeOK
<1>1. IndInv => TypeOK
  BY DEF IndInv
<1>2. QED
  BY <1>1, Inductive, PTL

(* A finalized council has the consent of every member to its last draft   *)
(* in its last round (validateFinalizeReady), for any number of drafts,    *)
(* rounds, blocks and late runners.                                        *)
THEOREM FinalizedUnanimously == Spec => []FinalizedIsUnanimous
<1>1. IndInv => FinalizedIsUnanimous
  BY DEF IndInv
<1>2. QED
  BY <1>1, Inductive, PTL

(* A draft follows the whole discussion (councilDiscussionLifecycle), for  *)
(* every limit on the number of turns.                                     *)
THEOREM DraftsFollowDiscussion == Spec => []DraftFollowsDiscussion
<1>1. IndInv => DraftFollowsDiscussion
  BY DEF IndInv
<1>2. QED
  BY <1>1, Inductive, PTL

(* A council in a conclusion phase has a draft, and in a vote a round,     *)
(* whichever block a resume names.                                         *)
THEOREM ConclusionsHaveDraft == Spec => []ConclusionHasDraft
<1>1. IndInv => ConclusionHasDraft
  BY DEF IndInv, Conclusion
<1>2. QED
  BY <1>1, Inductive, PTL

(* The event of a running dispatch                                         *)
Reopens ==
    /\ phase' = "discussion"
    /\ \E g \in DOMAIN grants : grants[g].run # "done" /\ grants'[g] # grants[g]
Finished == phase \in Terminal /\ phase' # phase => Reopens

(* Only a dispatch that is under way leaves a terminal phase.              *)
LEMMA FinishedStep == TypeOK /\ [Next]_vars => Finished
<1> SUFFICES ASSUME TypeOK, [Next]_vars PROVE Finished
  OBVIOUS
<1> USE DEF TypeOK, Finished
<1>1. ASSUME OpeningRecord PROVE Finished
  BY <1>1 DEF OpeningRecord
<1>2. ASSUME Prepare PROVE Finished
  BY <1>2 DEF Prepare
<1>3. ASSUME Intervene PROVE Finished
  BY <1>3 DEF Intervene
<1>4. ASSUME NEW t \in Turns, Poll(t) PROVE Finished
  BY <1>4 DEF Poll
<1>5. ASSUME NEW t \in Turns, Deadline(t) PROVE Finished
  BY <1>5 DEF Deadline
<1>6. ASSUME NEW m \in Members, NEW t \in Turns, HandRaise(m, t) PROVE Finished
  BY <1>6 DEF HandRaise
<1>7. ASSUME NEW m \in Members, NEW t \in Turns, Drop(m, t) PROVE Finished
  BY <1>7 DEF Drop
<1>8. ASSUME NEW m \in Members, NEW t \in Turns, Grant(m, t) PROVE Finished
  BY <1>8 DEF Grant
<1>9. ASSUME NEW m \in Members, NEW t \in Turns, Speak(m, t) PROVE Finished
  BY <1>9 DEF Speak
<1>10. ASSUME NEW m \in Members, AutoDrop(m) PROVE Finished
  BY <1>10 DEF AutoDrop
<1>11. ASSUME NEW m \in Members, NEW v \in Votes, Vote(m, v) PROVE Finished
  BY <1>11 DEF Vote
<1>12. ASSUME NEW g \in DOMAIN grants, DispatchFails(g) PROVE Finished
  <2>1. grants[g] \in GrantRecords
    OBVIOUS
  <2>2. grants[g].run = "queued" /\ grants'[g].run = "done"
    BY <1>12, <2>1 DEF DispatchFails, GrantRecords
  <2>3. QED
    BY <1>12, <2>1, <2>2 DEF DispatchFails, Reopens, GrantRecords
<1>13. ASSUME NEW g \in DOMAIN grants, RunnerStarts(g) PROVE Finished
  <2>1. grants[g] \in GrantRecords
    OBVIOUS
  <2>2. grants[g].run = "queued" /\ grants'[g].run = "running"
    BY <1>13, <2>1 DEF RunnerStarts, GrantRecords
  <2>3. QED
    BY <1>13, <2>1, <2>2 DEF RunnerStarts, Reopens, GrantRecords
<1>14. ASSUME NEW g \in DOMAIN grants, RunnerRetries(g) PROVE Finished
  <2>1. grants[g] \in GrantRecords
    OBVIOUS
  <2>2. grants[g].run = "running" /\ grants'[g].attempt = grants[g].attempt + 1
    BY <1>14, <2>1 DEF RunnerRetries, GrantRecords
  <2>3. grants[g].attempt \in Nat
    BY <2>1 DEF GrantRecords
  <2>4. grants'[g] # grants[g]
    BY <2>2, <2>3
  <2>5. QED
    BY <1>14, <2>2, <2>4 DEF RunnerRetries, Reopens
<1>15. ASSUME NEW g \in DOMAIN grants, RunnerFails(g) PROVE Finished
  <2>1. grants[g] \in GrantRecords
    OBVIOUS
  <2>2. grants[g].run = "running" /\ grants'[g].run = "done"
    BY <1>15, <2>1 DEF RunnerFails, GrantRecords
  <2>3. QED
    BY <1>15, <2>1, <2>2 DEF RunnerFails, Reopens, GrantRecords
<1>a. ASSUME NEW g \in DOMAIN grants, NEW t \in Turns, RunnerValidates(g, t) PROVE Finished
  BY <1>a DEF RunnerValidates
<1>b. ASSUME NEW g \in DOMAIN grants, RunnerSucceeds(g) PROVE Finished
  <2>1. grants[g] \in GrantRecords
    OBVIOUS
  <2>2. grants[g].run = "valid" /\ grants'[g].run = "succeeded"
    BY <1>b, <2>1 DEF RunnerSucceeds, GrantRecords
  <2>3. QED
    BY <1>b, <2>1, <2>2 DEF RunnerSucceeds, Reopens, GrantRecords
<1>16. ASSUME NEW g \in DOMAIN grants, RunnerSpeaks(g) PROVE Finished
  <2>1. grants[g] \in GrantRecords
    OBVIOUS
  <2>2. grants[g].run = "succeeded" /\ grants'[g].run = "done"
    BY <1>16, <2>1 DEF RunnerSpeaks, GrantRecords
  <2>3. QED
    BY <1>16, <2>1, <2>2 DEF RunnerSpeaks, Reopens, GrantRecords
<1>17. ASSUME Propose PROVE Finished
  BY <1>17 DEF Propose
<1>18. ASSUME Revise PROVE Finished
  BY <1>18 DEF Revise
<1>19. ASSUME RequestVote PROVE Finished
  BY <1>19 DEF RequestVote
<1>20. ASSUME Finalize PROVE Finished
  BY <1>20 DEF Finalize
<1>21. ASSUME NEW e \in BOOLEAN, Unresolved(e) PROVE Finished
  BY <1>21 DEF Unresolved
<1>22. ASSUME CancelSession PROVE Finished
  BY <1>22 DEF CancelSession
<1>23. ASSUME BlockSession PROVE Finished
  BY <1>23 DEF BlockSession
<1>24. ASSUME StreamEvent PROVE Finished
  BY <1>24 DEF StreamEvent
<1>25. ASSUME NEW r \in blocks, ResumeSession(r) PROVE Finished
  BY <1>25 DEF ResumeSession
<1>26. ASSUME UNCHANGED vars PROVE Finished
  BY <1>26 DEF vars
<1>27. QED
  BY <1>1, <1>2, <1>3, <1>4, <1>5, <1>6, <1>7, <1>8, <1>9, <1>10, <1>11, <1>12, <1>13,
     <1>14, <1>15, <1>a, <1>b, <1>16, <1>17, <1>18, <1>19, <1>20, <1>21, <1>22, <1>23, <1>24, <1>25, <1>26
  DEF Next, Dispatch

(* A terminal council is left by an event of a dispatch that was still     *)
(* under way, and by no command.                                           *)
THEOREM ReopenedOnlyByDispatch == Spec => OnlyDispatchReopens
<1>1. TypeOK /\ [Next]_vars =>
        [(phase \in Terminal /\ phase' # phase) =>
            /\ phase' = "discussion"
            /\ \E g \in DOMAIN grants : grants[g].run # "done" /\ grants'[g] # grants[g]]_vars
  BY FinishedStep DEF Finished, Reopens
<1>2. QED
  BY <1>1, TypeCorrect, PTL DEF Spec, OnlyDispatchReopens
==============================================================================
