-------------------------- MODULE SpeakerDispatch --------------------------
(***************************************************************************)
(* What happens to a grant: council.grant records speaker_selected and its *)
(* handler then dispatches the member's runner, within the same request.   *)
(* The request may be retried while the first one still runs, after it, or *)
(* after a crash; every append may fail, before or after the line is in    *)
(* the log; the council may leave discussion meanwhile, and a client may   *)
(* record a speech of the member with council.speak.  All grants are       *)
(* grants of one member.  NewServer sets no DispatchLocks, and Dispatch    *)
(* then makes locks of its own, so no step waits for another dispatch.     *)
(***************************************************************************)
EXTENDS Naturals

CONSTANTS Grants,       \* council.grant commands for the member
          Handlers,     \* concurrent request handlers
          Visible,      \* the council has a Discord thread
          MaxRetries,   \* runner retries per dispatch
          MaxRequests,  \* bound: requests received
          MaxCrashes,   \* bound: daemon restarts
          MaxFaults     \* bound: appends that fail

ASSUME DispatchConstants ==
    /\ Visible \in BOOLEAN
    /\ MaxRetries \in Nat /\ MaxRequests \in Nat
    /\ MaxCrashes \in Nat /\ MaxFaults \in Nat

VARIABLES
    phase,      \* the council is in discussion, or elsewhere
    selected,   \* grants with a speaker_selected event
    refused,    \* grants whose command id a readiness diagnostic used up
    prompted,   \* grants with a selected_runner_prompt_evidence event
    cited,      \* grants that a speech recorded by hand gives as its cause
    started,    \* grant -> runner_invocation_started events
    succeeded,  \* grant -> runner_invocation_succeeded events
    posted,     \* grant -> messages the member posted in the thread
    spoken,     \* grant -> speech events
    failed,     \* grants with a failure, discard or diagnostic event
    pc, job,    \* handler -> its next step and the grant it works for
    attempt,    \* handler -> runner attempt
    answered,   \* grants whose request got a successful answer
    raced,      \* grants that two handlers set out to dispatch together
    requests, crashes, faults

marks == <<selected, refused, prompted, cited>>
events == <<marks, started, succeeded, posted, spoken, failed>>
vars == <<phase, events, pc, job, attempt, answered, raced, requests, crashes, faults>>

Steps == {"idle", "record", "check", "prepare", "prepared", "start", "run", "retry",
          "validate", "deliver", "succeed", "speak", "discard", "fail", "diagnose",
          "byhand"}

-----------------------------------------------------------------------------
(* selectedSpeakerDispatchRecorded: any speech that cites the grant counts *)
Recorded(g) == g \in failed \cup cited \/ spoken[g] > 0

(* A line is appended, or it is not, or it is and the metadata write after *)
(* it fails.  A dispatch event puts the log in discussion again.           *)
Written(w) == phase' = IF w THEN "discussion" ELSE phase
Outcome(w, ok) ==
    \/ w /\ ok /\ UNCHANGED faults
    \/ ~ok /\ faults < MaxFaults /\ faults' = faults + 1

(* validateNoPostedSelectedRunnerVisibleEcho: the turn of a thread council *)
(* has no posted speech of the member's runner yet.                        *)
Unposted(g) == Visible => spoken[g] = 0

Goto(h, s) == pc' = [pc EXCEPT ![h] = s]
Count(f, g, w) == IF w THEN [f EXCEPT ![g] = @ + 1] ELSE f
Answer(h, ok) ==
    /\ Goto(h, "idle")
    /\ answered' = IF ok THEN answered \cup {job[h]} ELSE answered

Init ==
    /\ phase = "discussion"
    /\ selected = {} /\ refused = {} /\ prompted = {} /\ cited = {} /\ failed = {}
    /\ started = [g \in Grants |-> 0] /\ succeeded = [g \in Grants |-> 0]
    /\ posted = [g \in Grants |-> 0] /\ spoken = [g \in Grants |-> 0]
    /\ pc = [h \in Handlers |-> "idle"]
    /\ job \in [Handlers -> Grants]
    /\ attempt = [h \in Handlers |-> 0]
    /\ answered = {} /\ raced = {}
    /\ requests = 0 /\ crashes = 0 /\ faults = 0

(* council.grant, sent for the first time or again                         *)
Receive(h, g) ==
    /\ pc[h] = "idle" /\ requests < MaxRequests
    /\ requests' = requests + 1
    /\ job' = [job EXCEPT ![h] = g]
    /\ attempt' = [attempt EXCEPT ![h] = 0]
    /\ Goto(h, "record")
    /\ UNCHANGED <<phase, events, answered, raced, crashes, faults>>

(* The readiness preflight and RecordCouncilEvent.  The request is refused *)
(* (phase, principal, turn, another payload); or, in a thread council, the *)
(* member is not ready, which is recorded under the command id; or the     *)
(* event is found, or appended.                                            *)
RecordGrant(h, w, ok) ==
    /\ pc[h] = "record"
    /\ \/ Answer(h, FALSE) /\ UNCHANGED <<phase, selected, refused, faults>>
       \/ /\ Visible /\ Outcome(w, ok)
          /\ refused' = IF w THEN refused \cup ({job[h]} \ selected) ELSE refused
          /\ Answer(h, FALSE)
          /\ UNCHANGED <<phase, selected>>
       \/ /\ phase = "discussion" /\ job[h] \in selected
          /\ Goto(h, "check")
          /\ UNCHANGED <<phase, selected, refused, answered, faults>>
       \/ /\ phase = "discussion" /\ job[h] \notin selected \cup refused
          /\ Outcome(w, ok) /\ Written(w)
          /\ selected' = IF w THEN selected \cup {job[h]} ELSE selected
          /\ IF ok THEN Goto(h, "check") /\ UNCHANGED answered ELSE Answer(h, FALSE)
          /\ UNCHANGED refused
    /\ UNCHANGED <<prompted, cited, started, succeeded, posted, spoken, failed, job, attempt,
                   raced, requests, crashes>>

(* A handler that decided to dispatch and has no runner yet                *)
Launching(h) == pc[h] \in {"prepare", "prepared", "start"} /\ attempt[h] = 0

(* The dispatch begins; the prompt evidence is appended once per grant.    *)
Launch(h) ==
    /\ Goto(h, IF job[h] \in prompted THEN "prepared" ELSE "prepare")
    /\ raced' = IF \E k \in Handlers : Launching(k) /\ job[k] = job[h]
                THEN raced \cup {job[h]} ELSE raced
    /\ UNCHANGED answered

(* Mutants of CheckGrant: a runner that started is no reason to stop; or   *)
(* it is taken for granted that its handler will record the outcome.       *)
CheckRestarts(h) ==
    /\ pc[h] = "check"
    /\ \/ Recorded(job[h]) /\ Answer(h, TRUE) /\ UNCHANGED raced
       \/ ~Recorded(job[h]) /\ Launch(h)
    /\ UNCHANGED <<phase, events, job, attempt, requests, crashes, faults>>

CheckTrusts(h) ==
    /\ pc[h] = "check"
    /\ \/ /\ Recorded(job[h]) \/ started[job[h]] > 0
          /\ Answer(h, TRUE) /\ UNCHANGED raced
       \/ ~Recorded(job[h]) /\ started[job[h]] = 0 /\ Launch(h)
    /\ UNCHANGED <<phase, events, job, attempt, requests, crashes, faults>>

(* dispatchSelectedSpeakerAfterGrant reads the log: a recorded outcome     *)
(* ends the request, a runner that was started by whomever is diagnosed as *)
(* stale, otherwise the dispatch begins.                                   *)
CheckGrant(h) ==
    /\ pc[h] = "check"
    /\ \/ Recorded(job[h]) /\ Answer(h, TRUE) /\ UNCHANGED raced
       \/ /\ ~Recorded(job[h]) /\ started[job[h]] > 0
          /\ Goto(h, "diagnose") /\ UNCHANGED <<answered, raced>>
       \/ ~Recorded(job[h]) /\ started[job[h]] = 0 /\ Launch(h)
    /\ UNCHANGED <<phase, events, job, attempt, requests, crashes, faults>>

(* Readiness, registry snapshot, adapter and prompt: a problem with one of *)
(* them is diagnosed.  The prompt evidence is appended even if it says     *)
(* that context is missing, which is diagnosed next.                       *)
Prepare(h, w, ok) ==
    /\ pc[h] \in {"prepare", "prepared"}
    /\ \/ /\ Goto(h, "diagnose") \/ (pc[h] = "prepared" /\ Goto(h, "start"))
          /\ UNCHANGED <<phase, prompted, answered, faults>>
       \/ /\ pc[h] = "prepare"
          /\ Outcome(w, ok) /\ Written(w)
          /\ prompted' = IF w THEN prompted \cup {job[h]} ELSE prompted
          /\ IF ok THEN (Goto(h, "start") \/ Goto(h, "diagnose")) /\ UNCHANGED answered
             ELSE Answer(h, FALSE)
    /\ UNCHANGED <<selected, refused, cited, started, succeeded, posted, spoken, failed,
                   job, attempt, raced, requests, crashes>>

(* The preflight of Dispatch, before the first attempt, may refuse; every  *)
(* attempt appends runner_invocation_started before the runner is called.  *)
Start(h, w, ok) ==
    /\ pc[h] = "start"
    /\ \/ /\ attempt[h] = 0
          /\ Goto(h, "diagnose")
          /\ UNCHANGED <<phase, started, attempt, faults>>
       \/ /\ Outcome(w, ok) /\ Written(w)
          /\ started' = Count(started, job[h], w)
          /\ attempt' = [attempt EXCEPT ![h] = @ + 1]
          /\ Goto(h, IF ok THEN "run" ELSE "diagnose")
    /\ UNCHANGED <<marks, succeeded, posted, spoken, failed, job, answered,
                   raced, requests, crashes>>

(* Mutant of RunnerReturns: one retry more than the limit.                 *)
RunnerReturnsLate(h) ==
    /\ pc[h] = "run"
    /\ \/ Goto(h, "validate") \/ Goto(h, "discard") \/ Goto(h, "fail")
       \/ attempt[h] <= MaxRetries + 1 /\ Goto(h, "retry")
    /\ UNCHANGED <<phase, events, job, attempt, answered, raced, requests, crashes, faults>>

(* The runner succeeds, its result is no speech or comes too late, it      *)
(* fails for good, or it fails in a way that may be retried.               *)
RunnerReturns(h) ==
    /\ pc[h] = "run"
    /\ \/ Goto(h, "validate") \/ Goto(h, "discard") \/ Goto(h, "fail")
       \/ attempt[h] <= MaxRetries /\ Goto(h, "retry")
    /\ UNCHANGED <<phase, events, job, attempt, answered, raced, requests, crashes, faults>>

(* runner_retry_attempted                                                  *)
Retry(h, w, ok) ==
    /\ pc[h] = "retry"
    /\ Outcome(w, ok) /\ Written(w)
    /\ Goto(h, IF ok THEN "start" ELSE "diagnose")
    /\ UNCHANGED <<events, job, attempt, answered, raced, requests, crashes>>

(* Mutant of Validate: thread councils skip the delivery.                  *)
ValidateOnly(h) ==
    /\ pc[h] = "validate"
    /\ \/ Goto(h, "discard")
       \/ phase = "discussion" /\ Goto(h, "succeed")
    /\ UNCHANGED <<phase, events, job, attempt, answered, raced, requests, crashes, faults>>

(* BuildCouncilEvent of the speech: refused outside discussion, for a bad  *)
(* payload, and in a thread council when the turn has a posted speech.     *)
Validate(h) ==
    /\ pc[h] = "validate"
    /\ \/ Goto(h, "discard")
       \/ /\ phase = "discussion" /\ Unposted(job[h])
          /\ Goto(h, IF Visible THEN "deliver" ELSE "succeed")
    /\ UNCHANGED <<phase, events, job, attempt, answered, raced, requests, crashes, faults>>

(* SendVisible: the message is posted, or not, or posted without evidence. *)
Deliver(h, w, ok) ==
    /\ pc[h] = "deliver"
    /\ ok => w
    /\ posted' = Count(posted, job[h], w)
    /\ Goto(h, IF ok THEN "succeed" ELSE "discard")
    /\ UNCHANGED <<phase, marks, started, succeeded, spoken, failed, job, attempt,
                   answered, raced, requests, crashes, faults>>

Succeed(h, w, ok) ==
    /\ pc[h] = "succeed"
    /\ Outcome(w, ok) /\ Written(w)
    /\ succeeded' = Count(succeeded, job[h], w)
    /\ Goto(h, IF ok THEN "speak" ELSE "diagnose")
    /\ UNCHANGED <<marks, started, posted, spoken, failed, job, attempt, answered,
                   raced, requests, crashes>>

(* The speech that was validated is appended without another look.         *)
Speak(h, w, ok) ==
    /\ pc[h] = "speak"
    /\ Outcome(w, ok) /\ Written(w)
    /\ spoken' = Count(spoken, job[h], w)
    /\ IF ok THEN Answer(h, TRUE) ELSE Goto(h, "diagnose") /\ UNCHANGED answered
    /\ UNCHANGED <<marks, started, succeeded, posted, failed, job, attempt, raced,
                   requests, crashes>>

(* Mutant of Fail: a discarded result is not recorded.                     *)
FailOnly(h, w, ok) ==
    /\ pc[h] = "fail"
    /\ Outcome(w, ok) /\ Written(w)
    /\ failed' = IF w THEN failed \cup {job[h]} ELSE failed
    /\ IF ok THEN Answer(h, TRUE) ELSE Goto(h, "diagnose") /\ UNCHANGED answered
    /\ UNCHANGED <<marks, started, succeeded, posted, spoken, job, attempt, raced,
                   requests, crashes>>

(* runner_invocation_failed, runner_result_discarded                       *)
Fail(h, w, ok) ==
    /\ pc[h] \in {"fail", "discard"}
    /\ Outcome(w, ok) /\ Written(w)
    /\ failed' = IF w THEN failed \cup {job[h]} ELSE failed
    /\ IF ok THEN Answer(h, TRUE) ELSE Goto(h, "diagnose") /\ UNCHANGED answered
    /\ UNCHANGED <<marks, started, succeeded, posted, spoken, job, attempt, raced,
                   requests, crashes>>

(* selected_runner_dispatch_failed: the request is then a success.         *)
Diagnose(h, w, ok) ==
    /\ pc[h] = "diagnose"
    /\ Outcome(w, ok) /\ Written(w)
    /\ failed' = IF w THEN failed \cup {job[h]} ELSE failed
    /\ Answer(h, ok)
    /\ UNCHANGED <<marks, started, succeeded, posted, spoken, job, attempt, raced,
                   requests, crashes>>

(* council.speak up to the append: the member has been selected and, in a  *)
(* thread council, has no posted speech on record.                         *)
CheckSpeech(h, g) ==
    /\ pc[h] = "idle" /\ requests < MaxRequests
    /\ requests' = requests + 1
    /\ phase = "discussion" /\ g \in selected /\ Unposted(g)
    /\ job' = [job EXCEPT ![h] = g]
    /\ Goto(h, "byhand")
    /\ UNCHANGED <<phase, events, attempt, answered, raced, crashes, faults>>

(* Its append, without another look; it may give the grant as its cause.   *)
RecordSpeech(h, w, ok) ==
    /\ pc[h] = "byhand"
    /\ Outcome(w, ok) /\ Written(w)
    /\ \/ UNCHANGED cited
       \/ w /\ cited' = cited \cup {job[h]}
    /\ Goto(h, "idle")
    /\ UNCHANGED <<selected, refused, prompted, started, succeeded, posted, spoken, failed,
                   job, attempt, answered, raced, requests, crashes>>

(* other commands: block and resume, propose, cancel, ...                  *)
ChangePhase ==
    /\ phase' = IF phase = "discussion" THEN "elsewhere" ELSE "discussion"
    /\ UNCHANGED <<events, pc, job, attempt, answered, raced, requests, crashes, faults>>

Crash ==
    /\ crashes < MaxCrashes
    /\ crashes' = crashes + 1
    /\ pc' = [h \in Handlers |-> "idle"]
    /\ UNCHANGED <<phase, events, job, attempt, answered, raced, requests, faults>>

AppendStep(h, w, ok) ==
    \/ RecordGrant(h, w, ok) \/ Prepare(h, w, ok) \/ Start(h, w, ok) \/ Retry(h, w, ok)
    \/ Deliver(h, w, ok) \/ Succeed(h, w, ok) \/ Speak(h, w, ok) \/ Fail(h, w, ok)
    \/ Diagnose(h, w, ok) \/ RecordSpeech(h, w, ok)

Step(h) ==
    \/ CheckGrant(h) \/ RunnerReturns(h) \/ Validate(h)
    \/ \E w, ok \in BOOLEAN : AppendStep(h, w, ok)

Next ==
    \/ \E h \in Handlers : Step(h) \/ \E g \in Grants : Receive(h, g) \/ CheckSpeech(h, g)
    \/ ChangePhase \/ Crash

Spec == Init /\ [][Next]_vars

(* Handlers go on; a runner and a delivery end, with their timeouts.       *)
Fairness == \A h \in Handlers : WF_vars(Step(h))
FairSpec == Spec /\ Fairness

-----------------------------------------------------------------------------
TypeOK ==
    /\ phase \in {"discussion", "elsewhere"}
    /\ selected \subseteq Grants /\ refused \subseteq Grants
    /\ prompted \subseteq Grants /\ cited \subseteq Grants /\ failed \subseteq Grants
    /\ started \in [Grants -> Nat] /\ succeeded \in [Grants -> Nat]
    /\ posted \in [Grants -> Nat] /\ spoken \in [Grants -> Nat]
    /\ pc \in [Handlers -> Steps] /\ job \in [Handlers -> Grants]
    /\ attempt \in [Handlers -> 0..(MaxRetries + 1)]
    /\ answered \subseteq Grants /\ raced \subseteq Grants
    /\ requests \in Nat /\ crashes \in Nat /\ faults \in Nat

(* A grant that was answered with success has an outcome on record: the    *)
(* speech, a failure, a discard or a diagnostic.  Crashes, failed appends  *)
(* and concurrent retries leave none to be forgotten.                      *)
AnsweredIsSettled == \A g \in answered : Recorded(g)

(* Unless two handlers set out to dispatch the grant together, its member  *)
(* posts at most one message and speaks at most once, over crashes between *)
(* post and append, failed appends and retried requests.                   *)
SpeaksOnce == \A g \in Grants \ raced : posted[g] <= 1 /\ spoken[g] <= 1

(* A speech is recorded only after the invocation succeeded and, in a      *)
(* thread council, after its message was posted; also for raced grants.    *)
SpeechIsBacked ==
    \A g \in Grants : /\ spoken[g] <= succeeded[g] /\ succeeded[g] <= started[g]
                      /\ Visible => succeeded[g] <= posted[g]

(* Every request comes to an end.                                          *)
RequestsEnd == \A h \in Handlers : pc[h] # "idle" ~> pc[h] = "idle"
=============================================================================
