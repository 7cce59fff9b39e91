------------------------------- MODULE Council -------------------------------
(***************************************************************************)
(* The council lifecycle: one action per council.* command (RecordCouncil- *)
(* Event), the response-window deadline and its sweeper, cancel, block and *)
(* resume, the stream bookkeeping events, and the events that the dispatch *)
(* of a selected speaker appends while its runner runs next to them.       *)
(* Commands are executed one at a time; a runner takes as long as it       *)
(* likes, and anything may be recorded before its result arrives.          *)
(* The council has no Discord thread, so the attendance, readiness and     *)
(* visible-closeout gates, which apply to thread councils only, are open.  *)
(***************************************************************************)
EXTENDS Naturals, Sequences

CONSTANTS Members,             \* council members, the moderator excluded
          Votes,               \* vote values; only "block" is special
          MaxDiscussionTurns,  \* limits.max_discussion_turns, 0: not set
          MaxRetries,          \* runner retries per dispatch
          MaxTurn,             \* bound: turn numbers used
          MaxGrants,           \* bound: speaker_selected events
          MaxDrafts,           \* bound: draft versions
          MaxRounds            \* bound: consensus rounds

ASSUME CouncilConstants ==
    /\ "block" \in Votes
    /\ MaxDiscussionTurns \in Nat /\ MaxRetries \in Nat
    /\ MaxTurn \in Nat /\ MaxGrants \in Nat
    /\ MaxDrafts \in Nat /\ MaxRounds \in Nat

Phases == {"created", "preparation", "discussion", "draft_conclusion",
           "consensus_vote", "blocked", "finalized", "unresolved", "cancelled"}
Terminal == {"finalized", "unresolved", "cancelled"}
Open == Phases \ Terminal
Turns == 1..MaxTurn

VARIABLES
    phase,    \* phase of the last event of channel.jsonl
    turn,     \* highest turn any event names (currentCouncilTurn)
    polled,   \* turns with a hand_raise_requested event
    expired,  \* turns whose latest response window is past its deadline
    raised,   \* <<member, turn>> of the hand_raise events
    dropped,  \* ... of the hand_raise_dropped events the member sent
    auto,     \* ... of the hand_raise_dropped events the daemon recorded
    grants,   \* the speaker_selected events and how their dispatch stands
    spoken,   \* <<member, turn>> of the speech events
    draft,    \* latestDraftVersion
    round,    \* latestConsensusRound
    voting,   \* the latest vote request is newer than the latest draft
    ballots,  \* the consensus_vote events
    blocks    \* resume phases of the session_blocked events

window == <<turn, polled, expired, raised, dropped, auto>>
speech == <<grants, spoken>>
conclusion == <<draft, round, voting, ballots>>
vars == <<phase, window, speech, conclusion, blocks>>

-----------------------------------------------------------------------------
(* AppendEvent on channel.jsonl; session.yaml is SessionStore's subject.   *)
AppendEvent(p) == phase' = p

(* AppendEvent of a dispatch: the event carries the phase of the           *)
(* speaker_selected event.                                                 *)
AppendDispatchEvent == phase' = "discussion"

(* A council command allowed in the phases ps; none is in a terminal one.  *)
Transition(ps, p) == phase \in ps \ Terminal /\ AppendEvent(p)

SawTurn(t) == turn' = IF t > turn THEN t ELSE turn

(* responseWindowAccountingFromIndex                                       *)
Responded(m, t) == <<m, t>> \in raised \cup dropped \cup auto
Missing(t) == {m \in Members : ~Responded(m, t)}

(* validateResponseWindowAccepts: a turn that was never polled has no      *)
(* window and accepts every response.                                      *)
WindowAccepts(t) == t \in polled => t \notin expired /\ Missing(t) # {}

(* speakerGranted                                                          *)
Granted(m, t) == \E g \in DOMAIN grants : grants[g].member = m /\ grants[g].turn = t

(* Mutant of ProposeReady: the last discussion turn is not counted.        *)
ProposeReadyEarly ==
    MaxDiscussionTurns > 0 =>
        /\ polled # {}
        /\ \A t \in 1..(MaxDiscussionTurns - 1) :
              \E m \in Members : <<m, t>> \in spoken /\ Granted(m, t)
        /\ \A m \in Members : \E t \in Turns :
              t > MaxDiscussionTurns /\ <<m, t>> \in spoken /\ Granted(m, t)

(* councilDiscussionLifecycle: a moderator opening, a granted speech in    *)
(* every discussion turn and a closeout speech of every member after them. *)
ProposeReady ==
    MaxDiscussionTurns > 0 =>
        /\ polled # {}
        /\ \A t \in 1..MaxDiscussionTurns :
              \E m \in Members : <<m, t>> \in spoken /\ Granted(m, t)
        /\ \A m \in Members : \E t \in Turns :
              t > MaxDiscussionTurns /\ <<m, t>> \in spoken /\ Granted(m, t)

(* Mutant of CurrentBallots: votes of earlier rounds on the draft count.   *)
BallotsOfDraft == {b \in ballots : b.draft = draft}

(* The votes duplicateVote and validateFinalizeReady look at.              *)
CurrentBallots == {b \in ballots : b.draft = draft /\ b.round = round}

(* validateFinalizeReady                                                   *)
FinalizeReady ==
    /\ voting
    /\ \A m \in Members : \E b \in CurrentBallots : b.member = m
    /\ \A b \in CurrentBallots : b.vote # "block"
    /\ ProposeReady

Init ==
    /\ phase = "created"
    /\ turn = 0 /\ polled = {} /\ expired = {}
    /\ raised = {} /\ dropped = {} /\ auto = {}
    /\ grants = <<>> /\ spoken = {}
    /\ draft = 0 /\ round = 0 /\ voting = FALSE /\ ballots = {}
    /\ blocks = {}

-----------------------------------------------------------------------------
(* Opening                                                                 *)

(* request-attendance, attend and lock-agenda; ready and prepared-partial: *)
(* without a thread no later command reads them.                           *)
OpeningRecord ==
    /\ Transition({"created", "preparation"}, phase)
    /\ UNCHANGED <<window, speech, conclusion, blocks>>

Prepare ==
    /\ Transition({"created"}, "preparation")
    /\ UNCHANGED <<window, speech, conclusion, blocks>>

-----------------------------------------------------------------------------
(* Discussion                                                              *)

(* A poll names the next turn or any other; polling a turn again opens a   *)
(* new window for it.                                                      *)
Poll(t) ==
    /\ Transition({"preparation", "discussion"}, "discussion")
    /\ SawTurn(t)
    /\ polled' = polled \cup {t}
    /\ expired' = expired \ {t}
    /\ UNCHANGED <<raised, dropped, auto, speech, conclusion, blocks>>

Deadline(t) ==
    /\ t \in polled \ expired
    /\ expired' = expired \cup {t}
    /\ UNCHANGED <<phase, turn, polled, raised, dropped, auto,
                   speech, conclusion, blocks>>

(* validateCouncilRaiseOrDropUnique compares the sender, so a drop the     *)
(* daemon recorded does not stop a raise; a second raise is accepted.      *)
HandRaise(m, t) ==
    /\ WindowAccepts(t)
    /\ <<m, t>> \notin dropped
    /\ Transition({"discussion"}, "discussion")
    /\ SawTurn(t)
    /\ raised' = raised \cup {<<m, t>>}
    /\ UNCHANGED <<polled, expired, dropped, auto, speech, conclusion, blocks>>

Drop(m, t) ==
    /\ t \in polled
    /\ WindowAccepts(t)
    /\ <<m, t>> \notin raised \cup dropped
    /\ Transition({"discussion"}, "discussion")
    /\ SawTurn(t)
    /\ dropped' = dropped \cup {<<m, t>>}
    /\ UNCHANGED <<polled, expired, raised, auto, speech, conclusion, blocks>>

(* One drop of a sweep: a member missing from the current turn's window.   *)
AutoDrop(m) ==
    /\ turn \in expired
    /\ m \in Missing(turn)
    /\ Transition({"discussion"}, "discussion")
    /\ auto' = auto \cup {<<m, turn>>}
    /\ UNCHANGED <<turn, polled, expired, raised, dropped, speech, conclusion, blocks>>

(* The moderator grants a raised hand; the handler then dispatches the     *)
(* member's runner.                                                        *)
Grant(m, t) ==
    /\ <<m, t>> \in raised
    /\ Len(grants) < MaxGrants
    /\ Transition({"discussion"}, "discussion")
    /\ grants' = Append(grants, [member |-> m, turn |-> t,
                                 run |-> "queued", attempt |-> 0, says |-> t])
    /\ UNCHANGED <<window, spoken, conclusion, blocks>>

(* council.speak by the member itself                                      *)
Speak(m, t) ==
    /\ Granted(m, t)
    /\ Transition({"discussion"}, "discussion")
    /\ spoken' = spoken \cup {<<m, t>>}
    /\ UNCHANGED <<window, grants, conclusion, blocks>>

Intervene ==
    /\ Transition({"discussion"}, "discussion")
    /\ UNCHANGED <<window, speech, conclusion, blocks>>

-----------------------------------------------------------------------------
(* The dispatch of grant g                                                 *)

(* A diagnostic instead of a runner: no registry snapshot, no adapter, ... *)
DispatchFails(g) ==
    /\ grants[g].run = "queued"
    /\ AppendDispatchEvent
    /\ grants' = [grants EXCEPT ![g].run = "done"]
    /\ UNCHANGED <<window, spoken, conclusion, blocks>>

(* The prompt evidence and runner_invocation_started are appended; the     *)
(* preflight looks at the copied metadata, not at the log, and the daemon  *)
(* is created without the dispatch locks.                                  *)
RunnerStarts(g) ==
    /\ grants[g].run = "queued"
    /\ AppendDispatchEvent
    /\ grants' = [grants EXCEPT ![g].run = "running", ![g].attempt = 1]
    /\ UNCHANGED <<window, spoken, conclusion, blocks>>

RunnerRetries(g) ==
    /\ grants[g].run = "running" /\ grants[g].attempt <= MaxRetries
    /\ AppendDispatchEvent
    /\ grants' = [grants EXCEPT ![g].attempt = @ + 1]
    /\ UNCHANGED <<window, spoken, conclusion, blocks>>

(* runner_invocation_failed or runner_result_discarded                     *)
RunnerFails(g) ==
    /\ grants[g].run = "running"
    /\ AppendDispatchEvent
    /\ grants' = [grants EXCEPT ![g].run = "done"]
    /\ UNCHANGED <<window, spoken, conclusion, blocks>>

(* A result is validated: council.speak would accept it now.  The runner's *)
(* payload names the turn.                                                 *)
RunnerValidates(g, t) ==
    /\ grants[g].run = "running"
    /\ phase = "discussion" /\ Granted(grants[g].member, t)
    /\ grants' = [grants EXCEPT ![g].run = "valid", ![g].says = t]
    /\ UNCHANGED <<phase, window, spoken, conclusion, blocks>>

(* runner_invocation_succeeded and then the speech are appended; what else *)
(* was recorded since the validation is not looked at.                     *)
RunnerSucceeds(g) ==
    /\ grants[g].run = "valid"
    /\ AppendDispatchEvent
    /\ grants' = [grants EXCEPT ![g].run = "succeeded"]
    /\ UNCHANGED <<window, spoken, conclusion, blocks>>

RunnerSpeaks(g) ==
    /\ grants[g].run = "succeeded"
    /\ AppendDispatchEvent
    /\ grants' = [grants EXCEPT ![g].run = "done"]
    /\ spoken' = spoken \cup {<<grants[g].member, grants[g].says>>}
    /\ UNCHANGED <<window, conclusion, blocks>>

-----------------------------------------------------------------------------
(* Conclusion                                                              *)

Propose ==
    /\ draft = 0 /\ MaxDrafts > 0
    /\ ProposeReady
    /\ Transition({"discussion"}, "draft_conclusion")
    /\ draft' = 1 /\ voting' = FALSE
    /\ UNCHANGED <<window, speech, round, ballots, blocks>>

Revise ==
    /\ draft \in 1..(MaxDrafts - 1)
    /\ Transition({"draft_conclusion", "consensus_vote"}, "draft_conclusion")
    /\ draft' = draft + 1 /\ voting' = FALSE
    /\ UNCHANGED <<window, speech, round, ballots, blocks>>

RequestVote ==
    /\ draft > 0 /\ round < MaxRounds
    /\ Transition({"draft_conclusion"}, "consensus_vote")
    /\ round' = round + 1 /\ voting' = TRUE
    /\ UNCHANGED <<window, speech, draft, ballots, blocks>>

Vote(m, v) ==
    /\ voting
    /\ \A b \in CurrentBallots : b.member # m
    /\ Transition({"consensus_vote"}, "consensus_vote")
    /\ ballots' = ballots \cup
          {[member |-> m, draft |-> draft, round |-> round, vote |-> v]}
    /\ UNCHANGED <<window, speech, draft, round, voting, blocks>>

Finalize ==
    /\ FinalizeReady
    /\ Transition({"consensus_vote"}, "finalized")
    /\ UNCHANGED <<window, speech, conclusion, blocks>>

(* hasBlockVote: any round of any draft                                    *)
HasBlockVote == \E b \in ballots : b.vote = "block"

(* In consensus_vote a block vote, or evidence, is needed.                 *)
Unresolved(evidence) ==
    /\ phase = "consensus_vote" => evidence \/ HasBlockVote
    /\ Transition({"discussion", "draft_conclusion", "consensus_vote"}, "unresolved")
    /\ UNCHANGED <<window, speech, conclusion, blocks>>

-----------------------------------------------------------------------------
(* Mutant of CancelSession: the terminal check is missing.                 *)
CancelAnyPhase ==
    /\ AppendEvent("cancelled")
    /\ UNCHANGED <<window, speech, conclusion, blocks>>

CancelSession ==
    /\ Transition(Open, "cancelled")
    /\ UNCHANGED <<window, speech, conclusion, blocks>>

BlockSession ==
    /\ Transition(Open \ {"blocked"}, "blocked")
    /\ blocks' = blocks \cup {phase}
    /\ UNCHANGED <<window, speech, conclusion>>

(* Any session_blocked event of the session may be named.                  *)
ResumeSession(r) ==
    /\ r \in blocks
    /\ Transition({"blocked"}, r)
    /\ UNCHANGED <<window, speech, conclusion, blocks>>

(* Cursor acknowledgements and heartbeats record the phase they find.      *)
StreamEvent ==
    /\ AppendEvent(phase)
    /\ UNCHANGED <<window, speech, conclusion, blocks>>

Dispatch(g) ==
    \/ DispatchFails(g) \/ RunnerStarts(g) \/ RunnerRetries(g) \/ RunnerFails(g)
    \/ RunnerSucceeds(g) \/ RunnerSpeaks(g) \/ \E t \in Turns : RunnerValidates(g, t)

Next ==
    \/ OpeningRecord \/ Prepare \/ Intervene
    \/ \E t \in Turns : Poll(t) \/ Deadline(t)
    \/ \E m \in Members, t \in Turns :
          HandRaise(m, t) \/ Drop(m, t) \/ Grant(m, t) \/ Speak(m, t)
    \/ \E m \in Members : AutoDrop(m) \/ (\E v \in Votes : Vote(m, v))
    \/ \E g \in DOMAIN grants : Dispatch(g)
    \/ Propose \/ Revise \/ RequestVote \/ Finalize
    \/ \E evidence \in BOOLEAN : Unresolved(evidence)
    \/ CancelSession \/ BlockSession \/ StreamEvent
    \/ \E r \in blocks : ResumeSession(r)

Spec == Init /\ [][Next]_vars

-----------------------------------------------------------------------------
Slots == Members \X Turns
GrantRecords == [member : Members, turn : Turns,
                 run : {"queued", "running", "valid", "succeeded", "done"},
                 attempt : 0..(MaxRetries + 1), says : Turns]
Ballots == [member : Members, draft : 1..MaxDrafts, round : 1..MaxRounds, vote : Votes]

TypeOK ==
    /\ phase \in Phases
    /\ turn \in 0..MaxTurn /\ polled \subseteq Turns /\ expired \subseteq polled
    /\ raised \subseteq Slots /\ dropped \subseteq Slots /\ auto \subseteq Slots
    /\ grants \in Seq(GrantRecords) /\ Len(grants) <= MaxGrants
    /\ spoken \subseteq Slots
    /\ draft \in 0..MaxDrafts /\ round \in 0..MaxRounds /\ voting \in BOOLEAN
    /\ ballots \subseteq Ballots
    /\ blocks \subseteq Open \ {"blocked"}

(* A council is finalized with the consent of every member to the draft it *)
(* ends with: each has voted on the latest draft in the latest round, and  *)
(* nobody's vote there is a block.  finalize reads votes by round and      *)
(* draft, and drafts, rounds, blocks and late runners interleave.          *)
FinalizedIsUnanimous ==
    phase = "finalized" =>
        \A m \in Members :
            /\ \E b \in ballots : b.member = m /\ b.draft = draft /\ b.round = round
            /\ \A b \in ballots : b.member = m /\ b.draft = draft /\ b.round = round
                                    => b.vote # "block"

(* The conclusion phases are never entered without a draft, nor the vote   *)
(* without a round, whichever block a resume names: revise, request-vote   *)
(* and vote rely on it.                                                    *)
ConclusionHasDraft ==
    /\ phase \in {"draft_conclusion", "consensus_vote", "finalized"} => draft > 0
    /\ phase \in {"consensus_vote", "finalized"} => round > 0

(* With max_discussion_turns set, a draft exists only after the discussion *)
(* it concludes: every turn has a speech of a member who raised a hand for *)
(* it, was granted it and did not drop out of it, and every member closed. *)
Heard(m, t) == /\ <<m, t>> \in spoken /\ Granted(m, t)
               /\ <<m, t>> \in raised /\ <<m, t>> \notin dropped
DraftFollowsDiscussion ==
    draft > 0 /\ MaxDiscussionTurns > 0 =>
        /\ \A t \in 1..MaxDiscussionTurns : \E m \in Members : Heard(m, t)
        /\ \A m \in Members : \E t \in Turns : t > MaxDiscussionTurns /\ Heard(m, t)

(* A terminal phase is left by no command, only by an event of a dispatch  *)
(* that was still under way, which records discussion.                     *)
OnlyDispatchReopens ==
    [][(phase \in Terminal /\ phase' # phase) =>
          /\ phase' = "discussion"
          /\ \E g \in DOMAIN grants :
                grants[g].run # "done" /\ grants'[g] # grants[g]]_vars
=============================================================================
