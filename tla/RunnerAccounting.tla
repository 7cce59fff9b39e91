-------------------------- MODULE RunnerAccounting --------------------------
(***************************************************************************)
(* What is reported about a grant.  The answer of council.grant, status,   *)
(* stream status, transcript and export all derive a verdict per grant     *)
(* from the log (SelectedRunnerAccountingFromIndex), in which the events   *)
(* of the dispatch are mixed with those of its retries and with speeches   *)
(* that were recorded by hand.  It is a function of the state of           *)
(* SpeakerDispatch.                                                        *)
(***************************************************************************)
EXTENDS SpeakerDispatch

(* recordSelectedRunnerTerminal: failures, discards and diagnostics        *)
Terminal(g) == g \in failed

(* linkedRunnerSpeechMatchesGrant: a speech of the member's own runner,    *)
(* with an invocation that was started for the grant                       *)
Linked(g) == spoken[g] > 0 /\ started[g] > 0

(* selectedRunnerDeliveryDiagnostic: the speech of a thread council shows  *)
(* a posted message of the bound thread.                                   *)
Delivered(g) == Visible => posted[g] > 0

(* Mutant of Status: a speech recorded by hand takes the pass away.        *)
StatusByHand(g) ==
    CASE Terminal(g) \/ g \in cited -> "runner_terminal_failure"
      [] ~Terminal(g) /\ g \notin cited /\ Linked(g) -> "selected_runner_pass"
      [] OTHER -> "missing_linked_runner_speech"

(* The scan of the log: what it collects for a grant.  A speech without a  *)
(* runner is counted as a diagnostic and for nothing else.                 *)
Scan(g) == [terminal |-> Terminal(g), started |-> started[g] > 0,
            succeeded |-> succeeded[g] > 0, linked |-> Linked(g)]

(* The verdict on a grant, after the scan                                  *)
Status(g) ==
    IF Scan(g).terminal THEN "runner_terminal_failure"
    ELSE IF ~Scan(g).started THEN "missing_runner_invocation_started"
    ELSE IF ~Scan(g).succeeded THEN "missing_runner_invocation_succeeded"
    ELSE IF ~Scan(g).linked THEN "missing_linked_runner_speech"
    ELSE IF ~Delivered(g) THEN "missing_selected_runner_delivery_evidence"
    ELSE "selected_runner_pass"

Pass(g) == Status(g) = "selected_runner_pass"

-----------------------------------------------------------------------------
(* A client that got a successful answer never reads that the outcome of   *)
(* its grant is still to come: the verdict is a pass or a failure, through *)
(* crashes, failed appends and retried requests.  The one exception is a   *)
(* grant that a speech recorded by hand gives as its cause: it ends the    *)
(* dispatch of later retries, yet counts for nothing in the verdict.       *)
AnsweredIsAccounted ==
    \A g \in answered \ cited : Status(g) \in {"selected_runner_pass", "runner_terminal_failure"}

(* A failure on record is final: neither a late speech of the runner nor   *)
(* one recorded by hand repairs it.                                        *)
FailureIsFinal ==
    [][\A g \in Grants : Status(g) = "runner_terminal_failure"
                         => Status(g)' = "runner_terminal_failure"]_vars

(* A pass can be lost again, but only to a handler that took the running   *)
(* dispatch for a stale one, or got an error for a line that was written;  *)
(* in a raced dispatch also to the other runner.                           *)
PassIsLostToDiagnosis ==
    [][\A g \in Grants : Pass(g) /\ ~Pass(g)' =>
          \E h \in Handlers : /\ job[h] = g
                              /\ pc[h] = "diagnose" \/ (g \in raced /\ pc[h] \in {"fail", "discard"})
      ]_vars
=============================================================================
