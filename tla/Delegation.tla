----------------------------- MODULE Delegation -----------------------------
(***************************************************************************)
(* The delegation lifecycle: one action per delegate.* command, plus       *)
(* cancel, block, resume, delivery evidence and the stream bookkeeping     *)
(* events, each executed as a whole (RecordDelegationEvent and its         *)
(* siblings; what two of them do at once is SessionStore's subject, and so *)
(* is session.yaml).  The log is represented by what later commands read   *)
(* of it: the phase and the type of its last event, whether a              *)
(* clarification was ever requested, and the resume phases that            *)
(* user_escalation_requested and session_blocked events recorded.  A       *)
(* command that names an earlier event may name any of them, so the sets   *)
(* lose nothing.                                                           *)
(***************************************************************************)
EXTENDS Naturals

CONSTANT ResumeOverrides   \* resume_phase values clients put in an escalation:
                           \* any phase, or what is no phase at all

Phases == {"created", "assigned", "acknowledged", "working",
           "needs_clarification", "waiting_user", "submitted", "under_review",
           "revision_requested", "blocked", "accepted", "cancelled"}
Terminal == {"accepted", "cancelled"}
Open == Phases \ Terminal

VARIABLES
    phase,       \* phase of the last event of channel.jsonl
    type,        \* type of the last event
    clarified,   \* a clarification_requested event exists
    submitted,   \* a work_submitted event exists
    escalations, \* resume phases of the user_escalation_requested events
    overrides,   \* those among them that a client gave
    blocks       \* resume phases of the session_blocked events

vars == <<phase, type, clarified, submitted, escalations, overrides, blocks>>

Types == {"session_created", "task_assigned", "assignee_acknowledged",
          "delegation_message", "clarification_requested",
          "clarification_answered", "assignee_update",
          "assignee_update_requested", "work_submitted", "review_requested",
          "review_clarification_requested", "review_clarification_answered",
          "review_submitted", "revision_requested", "work_accepted",
          "user_escalation_requested", "escalation_batched",
          "user_escalation_resolved", "user_escalation_delivered",
          "user_escalation_delivery_failed", "session_cancelled",
          "session_blocked", "session_resumed",
          "stream_cursor_acknowledged", "stream_subscriber_heartbeat"}

-----------------------------------------------------------------------------
(* AppendEvent on channel.jsonl: the event becomes the last one, if        *)
(* ValidateEnvelope finds that its phase is one.                           *)
AppendEvent(t, p) == p \in Phases /\ type' = t /\ phase' = p

(* A command of RecordDelegationEvent that is allowed in the phases ps.    *)
Transition(ps, t, p) == phase \in Open /\ phase \in ps /\ AppendEvent(t, p)

(* Mutant of resumePhaseForEscalation: the last event's type is recorded.  *)
resumePhaseFromType == IF phase = "needs_clarification" THEN "working" ELSE type

resumePhaseForEscalation == IF phase = "needs_clarification" THEN "working" ELSE phase

Busy == {"acknowledged", "working", "revision_requested"}

(* CreateDelegation leaves session_created and task_assigned; a crash      *)
(* between its two appends leaves session_created alone.                   *)
Init ==
    /\ \/ phase = "assigned" /\ type = "task_assigned"
       \/ phase = "created" /\ type = "session_created"
    /\ clarified = FALSE /\ submitted = FALSE
    /\ escalations = {} /\ overrides = {} /\ blocks = {}

Ack ==
    /\ Transition({"assigned"}, "assignee_acknowledged", "acknowledged")
    /\ UNCHANGED <<clarified, submitted, escalations, overrides, blocks>>

(* delegate message and delegate request-update have no phase of their own *)
Note(t) ==
    /\ Transition(Open, t, phase)
    /\ UNCHANGED <<clarified, submitted, escalations, overrides, blocks>>

Clarify ==
    /\ Transition(Busy, "clarification_requested", "needs_clarification")
    /\ clarified' = TRUE
    /\ UNCHANGED <<submitted, escalations, overrides, blocks>>

AnswerClarification ==
    /\ clarified
    /\ Transition({"needs_clarification", "waiting_user"}, "clarification_answered", "working")
    /\ UNCHANGED <<clarified, submitted, escalations, overrides, blocks>>

Update ==
    /\ Transition(Busy, "assignee_update", "working")
    /\ UNCHANGED <<clarified, submitted, escalations, overrides, blocks>>

Submit ==
    /\ Transition(Busy, "work_submitted", "submitted")
    /\ submitted' = TRUE
    /\ UNCHANGED <<clarified, escalations, overrides, blocks>>

Review ==
    /\ Transition({"submitted"}, "review_requested", "under_review")
    /\ UNCHANGED <<clarified, submitted, escalations, overrides, blocks>>

(* review-question, review-answer and review-submit                        *)
ReviewExchange(t) ==
    /\ Transition({"under_review"}, t, phase)
    /\ UNCHANGED <<clarified, submitted, escalations, overrides, blocks>>

Revise ==
    /\ Transition({"under_review"}, "revision_requested", "revision_requested")
    /\ UNCHANGED <<clarified, submitted, escalations, overrides, blocks>>

(* Mutant of Accept: any open phase will do.                               *)
AcceptAnyOpen ==
    /\ Transition(Open, "work_accepted", "accepted")
    /\ UNCHANGED <<clarified, submitted, escalations, overrides, blocks>>

Accept ==
    /\ Transition({"submitted", "under_review"}, "work_accepted", "accepted")
    /\ UNCHANGED <<clarified, submitted, escalations, overrides, blocks>>

(* delegate escalate: from any open phase, with the resume phase derived   *)
(* from the current phase or the one the client gave, which is not looked  *)
(* at before an event is to be recorded in it.                             *)
Escalate ==
    /\ Transition(Open, "user_escalation_requested", "waiting_user")
    /\ \/ escalations' = escalations \cup {resumePhaseForEscalation} /\ UNCHANGED overrides
       \/ \E r \in ResumeOverrides : /\ escalations' = escalations \cup {r}
                                     /\ overrides' = overrides \cup {r}
    /\ UNCHANGED <<clarified, submitted, blocks>>

(* delegate escalate of low urgency: batched, the phase stays.             *)
Batch ==
    /\ Transition(Open, "escalation_batched", phase)
    /\ UNCHANGED <<clarified, submitted, escalations, overrides, blocks>>

(* delegate escalation-flush: the resume phase is always the derived one.  *)
Flush ==
    /\ Transition(Open, "user_escalation_requested", "waiting_user")
    /\ escalations' = escalations \cup {resumePhaseForEscalation}
    /\ UNCHANGED <<clarified, submitted, overrides, blocks>>

(* delegate resolve-escalation returns to the resume phase of whichever    *)
(* user_escalation_requested event the command names.                      *)
ResolveEscalation(r) ==
    /\ r \in escalations
    /\ Transition({"waiting_user"}, "user_escalation_resolved", r)
    /\ UNCHANGED <<clarified, submitted, escalations, overrides, blocks>>

(* RecordDeliveryEvidence: needs an escalation event, looks at no phase    *)
(* and always records waiting_user.                                        *)
DeliveryEvidence(t) ==
    /\ escalations # {}
    /\ AppendEvent(t, "waiting_user")
    /\ UNCHANGED <<clarified, submitted, escalations, overrides, blocks>>

(* Mutant of CancelSession: the terminal check is missing.                 *)
CancelAnyPhase ==
    /\ AppendEvent("session_cancelled", "cancelled")
    /\ UNCHANGED <<clarified, submitted, escalations, overrides, blocks>>

CancelSession ==
    /\ phase \in Open
    /\ AppendEvent("session_cancelled", "cancelled")
    /\ UNCHANGED <<clarified, submitted, escalations, overrides, blocks>>

(* Mutant of BlockSession: the resume phase is not recorded.               *)
BlockForgets ==
    /\ phase \in Open \ {"blocked"}
    /\ AppendEvent("session_blocked", "blocked")
    /\ UNCHANGED <<clarified, submitted, escalations, overrides, blocks>>

BlockSession ==
    /\ phase \in Open \ {"blocked"}
    /\ AppendEvent("session_blocked", "blocked")
    /\ blocks' = blocks \cup {phase}
    /\ UNCHANGED <<clarified, submitted, escalations, overrides>>

(* ResumeSession accepts any session_blocked event of the session whose    *)
(* resume phase is neither terminal nor blocked.                           *)
ResumeSession(r) ==
    /\ phase = "blocked"
    /\ r \in blocks \ (Terminal \cup {"blocked"})
    /\ AppendEvent("session_resumed", r)
    /\ UNCHANGED <<clarified, submitted, escalations, overrides, blocks>>

(* AcknowledgeCursor and the subscriber heartbeat record the phase they    *)
(* find, in terminal sessions too.                                         *)
StreamEvent(t) ==
    /\ AppendEvent(t, phase)
    /\ UNCHANGED <<clarified, submitted, escalations, overrides, blocks>>

Next ==
    \/ Ack \/ Clarify \/ AnswerClarification \/ Update \/ Submit
    \/ Review \/ Revise \/ Accept
    \/ \E t \in {"delegation_message", "assignee_update_requested"} : Note(t)
    \/ \E t \in {"review_clarification_requested", "review_clarification_answered",
                 "review_submitted"} : ReviewExchange(t)
    \/ Escalate \/ Batch \/ Flush
    \/ \E r \in escalations : ResolveEscalation(r)
    \/ \E t \in {"user_escalation_delivered", "user_escalation_delivery_failed"} :
          DeliveryEvidence(t)
    \/ CancelSession \/ BlockSession
    \/ \E r \in blocks : ResumeSession(r)
    \/ \E t \in {"stream_cursor_acknowledged", "stream_subscriber_heartbeat"} :
          StreamEvent(t)

Spec == Init /\ [][Next]_vars

-----------------------------------------------------------------------------
TypeOK ==
    /\ phase \in Phases /\ type \in Types
    /\ clarified \in BOOLEAN /\ submitted \in BOOLEAN
    /\ escalations \subseteq Phases \cup ResumeOverrides /\ blocks \subseteq Phases
    /\ overrides \subseteq ResumeOverrides \cap escalations

(* Work is accepted only if it was submitted: delegate.accept looks only   *)
(* at the phase, and the phase also comes back from resumed blocks and     *)
(* resolved escalations, but no such detour invents a submitted phase      *)
(* unless a client asked for one by hand.                                  *)
AcceptedWorkWasSubmitted ==
    phase = "accepted" =>
        submitted \/ overrides \cap {"submitted", "under_review", "accepted"} # {}

(* In waiting_user resolve-escalation can name an escalation that leads    *)
(* elsewhere, unless a client gave waiting_user, or what is no phase, as   *)
(* the phase to return to.                                                 *)
WaysOut(rs) == (rs \cap Phases) \ {"waiting_user"}
WaitingHasEscalation ==
    phase = "waiting_user" => \/ WaysOut(escalations) # {}
                              \/ overrides \ WaysOut(overrides) # {}

(* A blocked session can be resumed: some session_blocked event names a    *)
(* phase that ResumeSession accepts, however blocked was reached, unless a *)
(* client asked to return to blocked.                                      *)
BlockedIsRecoverable ==
    phase = "blocked" => \/ blocks \ (Terminal \cup {"blocked"}) # {}
                         \/ "blocked" \in overrides

(* Nobody is stranded, through nested escalations, blocks within           *)
(* escalations and delivery evidence that arrives late.                    *)
NobodyStranded == WaitingHasEscalation /\ BlockedIsRecoverable

(* A terminal phase is left by no command but delivery evidence.           *)
OnlyDeliveryReopens ==
    [][(phase \in Terminal /\ phase' # phase) =>
          type' \in {"user_escalation_delivered", "user_escalation_delivery_failed"}]_vars
=============================================================================
