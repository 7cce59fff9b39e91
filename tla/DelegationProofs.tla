-------------------------- MODULE DelegationProofs --------------------------
(***************************************************************************)
(* The invariants of Delegation, for every set of resume phases clients    *)
(* may give.  They are proved together: what a resumed block or a          *)
(* resolved escalation brings back is known only from what was recorded.   *)
(***************************************************************************)
EXTENDS Delegation, TLAPS

WorkDone == {"submitted", "under_review"}

(* A phase that stands for submitted work, now or in a recorded resume     *)
(* phase, means that a work_submitted event exists or a client gave one.   *)
AskedFor == overrides \cap (WorkDone \cup {"accepted"}) # {}
SubmittedPhases ==
    ((escalations \cup blocks \cup {phase}) \cap (WorkDone \cup {"accepted"}) # {}) =>
        submitted \/ AskedFor

(* Recorded resume phases are phases a session can be resumed in, and a    *)
(* recorded phase that waits has the event it waits for.                   *)
RecordedPhases ==
    /\ blocks \cap (Terminal \cup {"blocked"}) = {}
    /\ phase = "blocked" \/ "blocked" \in escalations =>
          blocks # {} \/ "blocked" \in overrides
    /\ escalations # {} \/ phase = "waiting_user" \/ "waiting_user" \in blocks =>
          WaysOut(escalations) # {} \/ overrides \ WaysOut(overrides) # {}

IndInv == TypeOK /\ SubmittedPhases /\ RecordedPhases

(* The initial states of a delegation satisfy the invariant.               *)
LEMMA InitInv == Init => IndInv
  BY DEF Init, IndInv, TypeOK, SubmittedPhases, RecordedPhases,
         Phases, Types, Terminal, WorkDone

USE DEF AppendEvent, Transition

(* Every command preserves the type invariant.                             *)
LEMMA TypeStep == IndInv /\ [Next]_vars => TypeOK'
<1> SUFFICES ASSUME IndInv, [Next]_vars PROVE TypeOK'
  OBVIOUS
<1> USE DEF IndInv, TypeOK, Phases, Types, Open, Terminal, Busy
<1>1. CASE Ack \/ Clarify \/ AnswerClarification \/ Update \/ Submit
  BY <1>1 DEF Ack, Clarify, AnswerClarification, Update, Submit
<1>2. CASE Review \/ Revise \/ Accept
  BY <1>2 DEF Review, Revise, Accept
<1>3. CASE Escalate \/ Flush
  <2>1. resumePhaseForEscalation \in Phases
    BY DEF resumePhaseForEscalation
  <2>2. CASE Escalate
    BY <2>1, <2>2 DEF Escalate
  <2>3. CASE Flush
    BY <2>1, <2>3 DEF Flush
  <2>4. QED
    BY <1>3, <2>2, <2>3
<1>4. CASE CancelSession \/ BlockSession
  BY <1>4 DEF CancelSession, BlockSession
<1>5. ASSUME NEW r \in escalations, ResolveEscalation(r) PROVE TypeOK'
  BY <1>5 DEF ResolveEscalation
<1>6. ASSUME NEW r \in blocks, ResumeSession(r) PROVE TypeOK'
  BY <1>6 DEF ResumeSession
<1>7. ASSUME NEW t \in {"delegation_message", "assignee_update_requested"}, Note(t)
      PROVE TypeOK'
  BY <1>7 DEF Note
<1>8. ASSUME NEW t \in {"review_clarification_requested",
                        "review_clarification_answered", "review_submitted"},
             ReviewExchange(t)
      PROVE TypeOK'
  BY <1>8 DEF ReviewExchange
<1>9. ASSUME NEW t \in {"user_escalation_delivered", "user_escalation_delivery_failed"},
             DeliveryEvidence(t)
      PROVE TypeOK'
  BY <1>9 DEF DeliveryEvidence
<1>10. ASSUME NEW t \in {"stream_cursor_acknowledged", "stream_subscriber_heartbeat"},
              StreamEvent(t)
       PROVE TypeOK'
  BY <1>10 DEF StreamEvent
<1>11. CASE Batch
  BY <1>11 DEF Batch
<1>12. CASE UNCHANGED vars
  BY <1>12 DEF vars
<1>13. QED
  BY <1>12, <1>1, <1>2, <1>3, <1>4, <1>5, <1>6, <1>7, <1>8, <1>9, <1>10, <1>11 DEF Next

(* Every command preserves what the recorded phases stand for.             *)
LEMMA PhaseStep ==
    IndInv /\ [Next]_vars => (SubmittedPhases /\ RecordedPhases)'
<1> SUFFICES ASSUME IndInv, [Next]_vars
             PROVE  (SubmittedPhases /\ RecordedPhases)'
  OBVIOUS
<1> USE DEF IndInv, TypeOK, SubmittedPhases, RecordedPhases, AskedFor,
            WaysOut, Phases, Open, Terminal, Busy, WorkDone
<1>1. CASE Ack \/ Clarify \/ AnswerClarification \/ Update \/ Submit
  BY <1>1 DEF Ack, Clarify, AnswerClarification, Update, Submit
<1>2. CASE Review \/ Revise \/ Accept \/ Batch
  BY <1>2 DEF Review, Revise, Accept, Batch
<1>3. CASE Escalate \/ Flush
  <2>0. phase \in Open /\ phase' = "waiting_user" /\ UNCHANGED <<clarified, submitted, blocks>>
    BY <1>3 DEF Escalate, Flush
  <2>1. CASE escalations' = escalations \cup {resumePhaseForEscalation} /\ overrides' = overrides
    <3>1. \/ phase = "waiting_user" /\ resumePhaseForEscalation = "waiting_user"
          \/ resumePhaseForEscalation \in Phases \ {"waiting_user"}
      BY <2>0 DEF resumePhaseForEscalation
    <3>2. resumePhaseForEscalation \in {phase, "working"}
      BY DEF resumePhaseForEscalation
    <3> HIDE DEF Phases
    <3>3. SubmittedPhases'
      BY <2>0, <2>1, <3>2
    <3>4. RecordedPhases'
      BY <2>0, <2>1, <3>1, <3>2
    <3>5. QED
      BY <3>3, <3>4
  <2>2. ASSUME NEW r \in ResumeOverrides, escalations' = escalations \cup {r},
               overrides' = overrides \cup {r}
        PROVE  (SubmittedPhases /\ RecordedPhases)'
    <3>1. SubmittedPhases'
      BY <2>0, <2>2
    <3>2. RecordedPhases'
      BY <2>0, <2>2
    <3>3. QED
      BY <3>1, <3>2
  <2>3. QED
    BY <1>3, <2>1, <2>2 DEF Escalate, Flush
<1>4. CASE CancelSession \/ BlockSession
  BY <1>4 DEF CancelSession, BlockSession
<1>5. ASSUME NEW r \in escalations, ResolveEscalation(r)
      PROVE (SubmittedPhases /\ RecordedPhases)'
  BY <1>5 DEF ResolveEscalation
<1>6. ASSUME NEW r \in blocks, ResumeSession(r)
      PROVE (SubmittedPhases /\ RecordedPhases)'
  BY <1>6 DEF ResumeSession
<1>7. ASSUME NEW t \in {"delegation_message", "assignee_update_requested"}, Note(t)
      PROVE (SubmittedPhases /\ RecordedPhases)'
  BY <1>7 DEF Note
<1>8. ASSUME NEW t \in {"review_clarification_requested",
                        "review_clarification_answered", "review_submitted"},
             ReviewExchange(t)
      PROVE (SubmittedPhases /\ RecordedPhases)'
  BY <1>8 DEF ReviewExchange
<1>9. ASSUME NEW t \in {"user_escalation_delivered", "user_escalation_delivery_failed"},
             DeliveryEvidence(t)
      PROVE (SubmittedPhases /\ RecordedPhases)'
  BY <1>9 DEF DeliveryEvidence
<1>10. ASSUME NEW t \in {"stream_cursor_acknowledged", "stream_subscriber_heartbeat"},
              StreamEvent(t)
       PROVE (SubmittedPhases /\ RecordedPhases)'
  BY <1>10 DEF StreamEvent
<1>11. CASE UNCHANGED vars
  BY <1>11 DEF vars
<1>12. QED
  BY <1>1, <1>2, <1>3, <1>4, <1>5, <1>6, <1>7, <1>8, <1>9, <1>10, <1>11 DEF Next

(* The inductive invariant holds in every state of every delegation.       *)
THEOREM Inductive == Spec => []IndInv
<1>1. IndInv /\ [Next]_vars => IndInv'
  BY TypeStep, PhaseStep DEF IndInv
<1>2. QED
  BY InitInv, <1>1, PTL DEF Spec

(* Every field keeps its type.                                             *)
THEOREM TypeCorrect == Spec => []TypeOK
<1>1. IndInv => TypeOK
  BY DEF IndInv
<1>2. QED
  BY <1>1, Inductive, PTL

(* delegate.accept can succeed only in a session with a work_submitted     *)
(* event, whatever blocks and escalations the session went through, or in  *)
(* one where a client gave a phase of submitted work to return to.         *)
THEOREM AcceptedOnlySubmitted == Spec => []AcceptedWorkWasSubmitted
<1>1. IndInv => AcceptedWorkWasSubmitted
  BY DEF IndInv, SubmittedPhases, AskedFor, WorkDone, AcceptedWorkWasSubmitted
<1>2. QED
  BY <1>1, Inductive, PTL

(* A session in waiting_user has an escalation that leads out of it, and   *)
(* one in blocked has a block that ResumeSession accepts, but for resume   *)
(* phases that clients gave.                                               *)
THEOREM NeverStranded == Spec => []NobodyStranded
<1>1. IndInv => NobodyStranded
  BY DEF IndInv, RecordedPhases, NobodyStranded, WaitingHasEscalation, BlockedIsRecoverable
<1>2. QED
  BY <1>1, Inductive, PTL

(* No command but delivery evidence takes a session out of a terminal      *)
(* phase.                                                                  *)
THEOREM ReopenedOnlyByDelivery == Spec => OnlyDeliveryReopens
<1> DEFINE Delivered == {"user_escalation_delivered", "user_escalation_delivery_failed"}
<1>1. ASSUME Next, phase \in Terminal, phase' # phase
      PROVE  type' \in Delivered
  <2> USE <1>1 DEF Terminal, Open
  <2>1. ~(Ack \/ Clarify \/ AnswerClarification \/ Update \/ Submit \/ Review
            \/ Revise \/ Accept \/ Escalate \/ Batch \/ Flush)
    BY DEF Ack, Clarify, AnswerClarification, Update, Submit, Review, Revise,
           Accept, Escalate, Batch, Flush
  <2>2. ~(CancelSession \/ BlockSession)
    BY DEF CancelSession, BlockSession
  <2>3. \A r : ~ResolveEscalation(r) /\ ~ResumeSession(r)
    BY DEF ResolveEscalation, ResumeSession
  <2>4. \A t : ~Note(t) /\ ~ReviewExchange(t) /\ ~StreamEvent(t)
    BY DEF Note, ReviewExchange, StreamEvent
  <2>5. \A t : DeliveryEvidence(t) => type' = t
    BY DEF DeliveryEvidence
  <2>6. QED
    BY <2>1, <2>2, <2>3, <2>4, <2>5 DEF Next
<1>2. [Next]_vars => [(phase \in Terminal /\ phase' # phase) => type' \in Delivered]_vars
  BY <1>1
<1>3. QED
  BY <1>2, PTL DEF Spec, OnlyDeliveryReopens
=============================================================================
