----------------------------- MODULE Projection -----------------------------
(***************************************************************************)
(* network.sqlite, the read model.  storage rebuild-projection and storage *)
(* verify run outside the daemon: each lists the sessions, loads           *)
(* session.yaml and then the log of one session after the other while the  *)
(* daemon goes on appending, and folds the events into rows.  Rebuild      *)
(* fills a temporary database and renames it; verify compares with the     *)
(* installed one.  One of them runs at a time here.                        *)
(***************************************************************************)
EXTENDS Naturals, Sequences, FiniteSets, SequencesExt

CONSTANTS Councils, Delegations,   \* session ids
          Order,         \* all sessions, in the order of their names
          Members,
          Invocations,
          Speaker,       \* Speaker[i]: the member of invocation i
          Batches,       \* batch ids, chosen by whoever escalates
          Statuses,      \* attendance statuses
          MaxEvents      \* bound: events in all logs

Sessions == Councils \cup Delegations
None == "none"

ASSUME ProjectionConstants ==
    /\ Order \in Seq(Sessions) /\ ToSet(Order) = Sessions
    /\ \A i, j \in 1..Len(Order) : Order[i] = Order[j] => i = j
    /\ Speaker \in [Invocations -> Members]
    /\ None \notin Members \cup Statuses
    /\ IsFiniteSet(Batches) /\ MaxEvents \in Nat

VARIABLES
    log,       \* session -> events
    yaml,      \* session -> last_speaker of session.yaml
    behind,    \* sessions whose session.yaml is yet to show the speech
    reader,    \* the rebuild or the verification under way
    file,      \* network.sqlite
    verdict    \* of the last verify

vars == <<log, yaml, behind, reader, file, verdict>>

Outcomes == {"runner_invocation_succeeded", "runner_invocation_failed", "runner_result_discarded"}
RunnerTerminal == Outcomes \cup {"speech"}
CouncilTypes == {"hand_raise", "runner_invocation_started", "attendance_requested",
                 "member_attended", "stream_cursor_acknowledged"} \cup RunnerTerminal
DelegationTypes == {"escalation_batched", "user_escalation_requested", "review_submitted",
                    "session_blocked", "session_resumed", "work_accepted"}

(* What is read of a payload: batch, which escalation-flush sets and       *)
(* escalate clears, and the two keys of an attendance, of which only       *)
(* status is required; a second one that says the same is as good as none. *)
Payload == [batch : BOOLEAN, status : Statuses \cup {None},
            attendanceStatus : Statuses \cup {None}]
Plain == [batch |-> FALSE, status |-> None, attendanceStatus |-> None]
Payloads(type) ==
    CASE type = "user_escalation_requested" -> {[Plain EXCEPT !.batch = b] : b \in BOOLEAN}
      [] type = "member_attended" -> {p \in Payload :
            ~p.batch /\ p.status # None /\ p.attendanceStatus # p.status}
      [] OTHER -> {Plain}

-----------------------------------------------------------------------------
(* Rows: sessions, and runner_invocations and escalation_batches, whose    *)
(* keys do not name a session.                                             *)
NoRow == [phase |-> "none", blockedBy |-> 0, calls |-> 0, cost |-> 0, pending |-> 0,
          lastSpeaker |-> None, raises |-> [m \in Members |-> "none"],
          attendance |-> [m \in Members |-> "none"], latest |-> [m \in Members |-> 0],
          events |-> 0]
EmptyState ==
    [rows |-> [s \in Sessions |-> NoRow],
     runners |-> [i \in Invocations |-> [status |-> "none", costAggregated |-> FALSE]],
     batches |-> [b \in Batches |-> [status |-> "none", session |-> None, count |-> 0]]]

(* initSession: the last speaker comes from session.yaml and stays.        *)
initSession(db, s, speaker) == [db EXCEPT !.rows[s].lastSpeaker = speaker]

(* applyEvent: the row of the session                                      *)
applySession(db, s, e) ==
    [db EXCEPT !.rows[s].phase = e.phase, !.rows[s].events = @ + 1,
               !.rows[s].blockedBy =
                   CASE e.phase = "blocked" -> db.rows[s].events + 1
                     [] e.type = "session_resumed" -> 0
                     [] OTHER -> @]

(* Mutant of applyRunnerEvent: every terminal event adds its cost.         *)
applyRunnerTwice(db, s, e) ==
    CASE e.type = "runner_invocation_started" ->
            [db EXCEPT !.runners[e.key].status = "started", !.rows[s].calls = @ + 1]
      [] e.type \in RunnerTerminal -> [db EXCEPT !.rows[s].cost = @ + 1]
      [] OTHER -> db

(* applyRunnerEvent: started counts a call; the first other event of the   *)
(* invocation adds its cost.  Every result costs 1 here.                   *)
applyRunnerEvent(db, s, e) ==
    CASE e.type = "runner_invocation_started" ->
            [db EXCEPT !.runners[e.key] = [status |-> "started", costAggregated |-> FALSE],
                       !.rows[s].calls = @ + 1]
      [] e.type \in RunnerTerminal ->
            [db EXCEPT !.runners[e.key] =
                           [status |-> CASE e.type = "runner_invocation_failed" -> "failed"
                                         [] e.type = "runner_result_discarded" -> "discarded"
                                         [] OTHER -> "succeeded",
                            costAggregated |-> TRUE],
                       !.rows[s].cost =
                           IF db.runners[e.key].costAggregated THEN @ ELSE @ + 1]
      [] OTHER -> db

(* countPendingBatchItems                                                  *)
countPending(batches, s) ==
    MapThenSumSet(LAMBDA b : batches[b].count,
                  {b \in Batches : batches[b].session = s /\ batches[b].status = "pending"})

(* Mutant of applyBatch: a flush leaves the batch pending.                 *)
applyBatchKeeps(batches, s, e) ==
    IF e.type = "escalation_batched"
    THEN [batches EXCEPT ![e.key] = [status |-> "pending", session |-> s, count |-> @.count + 1]]
    ELSE batches

(* The batch of an escalation: it is created pending; once flushed it      *)
(* stays so, and counts what is added later without showing it.  Only an   *)
(* escalation with the flag flushes.  escalation_rate_limited, which both  *)
(* readers know, is written by no command.                                 *)
applyBatch(batches, s, e) ==
    CASE e.type = "escalation_batched" ->
            IF batches[e.key].status # "none" THEN [batches EXCEPT ![e.key].count = @ + 1]
            ELSE [batches EXCEPT ![e.key] = [status |-> "pending", session |-> s, count |-> 1]]
      [] /\ e.type = "user_escalation_requested" /\ e.payload.batch
         /\ batches[e.key].status # "none" ->
            [batches EXCEPT ![e.key].status = "flushed", ![e.key].count = 0]
      [] OTHER -> batches

(* applyEscalationEvent, which recounts the session on every event         *)
applyEscalationEvent(db, s, e) ==
    LET batches == applyBatch(db.batches, s, e)
    IN  [db EXCEPT !.batches = batches, !.rows[s].pending = countPending(batches, s)]

(* The status of an attendance in its row: attendance_status comes first.  *)
Shown(e) == IF e.payload.attendanceStatus # None THEN e.payload.attendanceStatus
            ELSE e.payload.status

(* Mutant of applyCouncilEvent: a new request keeps the rows it finds.     *)
applyCouncilKeeps(db, s, e) ==
    CASE e.type = "attendance_requested" ->
            [db EXCEPT !.rows[s].attendance = [m \in Members |->
                IF @[m] = "none" THEN "requested" ELSE @[m]]]
      [] e.type = "member_attended" -> [db EXCEPT !.rows[s].attendance[e.key] = Shown(e)]
      [] OTHER -> db

(* applyCouncilEvent: a hand raise of the last speaker is not eligible; a  *)
(* request starts the attendance of all members again; an attendance needs *)
(* no request.                                                             *)
applyCouncilEvent(db, s, e) ==
    CASE e.type = "hand_raise" ->
            [db EXCEPT !.rows[s].raises[e.key] =
                IF db.rows[s].lastSpeaker = e.key THEN "recent_speaker" ELSE "eligible"]
      [] e.type = "attendance_requested" ->
            [db EXCEPT !.rows[s].attendance = [m \in Members |-> "requested"]]
      [] e.type = "member_attended" -> [db EXCEPT !.rows[s].attendance[e.key] = Shown(e)]
      [] OTHER -> db

(* Tables that keep the last event of a key: the cursor of a member ...    *)
applyStreamEvent(db, s, e) ==
    IF e.type # "stream_cursor_acknowledged" THEN db
    ELSE [db EXCEPT !.rows[s].latest[e.key] = db.rows[s].events]

(* ... and the review of a reviewer.                                       *)
applyReviewEvent(db, s, e) ==
    IF e.type # "review_submitted" THEN db
    ELSE [db EXCEPT !.rows[s].latest[e.key] = db.rows[s].events]

applyEvent(db, s, e) ==
    LET row     == applySession(db, s, e)
        runner  == applyRunnerEvent(row, s, e)
        batched == applyEscalationEvent(runner, s, e)
        council == applyCouncilEvent(batched, s, e)
    IN  applyReviewEvent(applyStreamEvent(council, s, e), s, e)

(* One session of ReplayProjectionState                                    *)
replaySession(db, s, speaker, events) ==
    LET after[n \in 0..Len(events)] ==
            IF n = 0 THEN initSession(db, s, speaker)
            ELSE applyEvent(after[n - 1], s, events[n])
    IN  after[Len(events)]

-----------------------------------------------------------------------------
Idle == [step |-> "idle", mode |-> "verify", next |-> 1, speaker |-> None,
         db |-> EmptyState, begun |-> [s \in Sessions |-> 0]]
NoFile == [exists |-> FALSE, db |-> EmptyState]

Init ==
    /\ log = [s \in Sessions |-> <<>>]
    /\ yaml = [s \in Sessions |-> None]
    /\ behind = {}
    /\ reader = Idle
    /\ file = NoFile /\ verdict = "none"

PhaseOf(s) == IF log[s] = <<>> THEN "open" ELSE log[s][Len(log[s])].phase
Has(s, type, key) == \E k \in 1..Len(log[s]) : log[s][k].type = type /\ log[s][k].key = key

(* The keys an event of a type can have now: an invocation has one outcome *)
(* after its start, and a speech follows a success.                        *)
Keys(s, type) ==
    CASE type \in {"hand_raise", "stream_cursor_acknowledged", "review_submitted",
                   "member_attended"} -> Members
      [] type = "attendance_requested" -> {None}
      [] type = "runner_invocation_started" ->
            {i \in Invocations : \A c \in Councils : ~Has(c, type, i)}
      [] type \in Outcomes ->
            {i \in Invocations : /\ Has(s, "runner_invocation_started", i)
                                 /\ \A t \in Outcomes : ~Has(s, t, i)}
      [] type = "speech" ->
            {i \in Invocations : /\ Has(s, "runner_invocation_succeeded", i)
                                 /\ ~Has(s, "speech", i)}
      [] type \in {"escalation_batched", "user_escalation_requested"} ->
            IF PhaseOf(s) = "open" THEN Batches ELSE {}
      [] type = "session_blocked" -> IF PhaseOf(s) = "open" THEN {None} ELSE {}
      [] type = "session_resumed" -> IF PhaseOf(s) = "blocked" THEN {None} ELSE {}
      [] type = "work_accepted" -> IF PhaseOf(s) = "open" THEN {None} ELSE {}

(* The log write of AppendEvent, for an event some handler records.  The   *)
(* session is waiting_user, which is open here, after an escalation.       *)
WriteEvent(s, type, key, payload) ==
    /\ s \notin behind
    /\ FoldFunction(LAMBDA l, n : Len(l) + n, 0, log) < MaxEvents
    /\ log' = [log EXCEPT ![s] = Append(@, [type |-> type, key |-> key, payload |-> payload,
           phase |-> CASE type = "session_blocked" -> "blocked"
                       [] type = "session_resumed" -> "open"
                       [] type = "work_accepted" -> "terminal"
                       [] OTHER -> PhaseOf(s)])]
    /\ behind' = IF type = "speech" THEN behind \cup {s} ELSE behind
    /\ UNCHANGED <<yaml, reader, file, verdict>>

(* The write of session.yaml at the end of AppendEvent; only a speech      *)
(* changes what is read of it.                                             *)
WriteYaml(s) ==
    /\ s \in behind
    /\ behind' = behind \ {s}
    /\ yaml' = [yaml EXCEPT ![s] = Speaker[log[s][Len(log[s])].key]]
    /\ UNCHANGED <<log, reader, file, verdict>>

-----------------------------------------------------------------------------
(* The sessions are listed; begun is what their logs hold (history).       *)
Start(mode) ==
    /\ reader.step = "idle"
    /\ reader' = [Idle EXCEPT !.step = "load", !.mode = mode,
                              !.begun = [s \in Sessions |-> Len(log[s])]]
    /\ verdict' = "none"
    /\ UNCHANGED <<log, yaml, behind, file>>

AllRead == reader.step = "load" /\ reader.next > Len(Order)

(* LoadSessionYAML of the next session                                     *)
Load ==
    /\ reader.step = "load" /\ ~AllRead
    /\ reader' = [reader EXCEPT !.step = "read", !.speaker = yaml[Order[reader.next]]]
    /\ UNCHANGED <<log, yaml, behind, file, verdict>>

(* ReadLogIndex of that session, and the fold                              *)
Read ==
    /\ reader.step = "read"
    /\ LET s == Order[reader.next]
       IN  reader' = [reader EXCEPT !.step = "load", !.next = @ + 1, !.speaker = None,
                          !.db = replaySession(@, s, reader.speaker, log[s])]
    /\ UNCHANGED <<log, yaml, behind, file, verdict>>

(* Mutant of Install: the database file is filled where it is.             *)
InstallAsRead ==
    /\ reader.step = "load" /\ reader.mode = "rebuild"
    /\ file' = [exists |-> TRUE, db |-> reader.db]
    /\ reader' = Idle
    /\ UNCHANGED <<log, yaml, behind, verdict>>

(* populateProjectionDB fills a temporary database in one transaction,     *)
(* which is complete when it is renamed.                                   *)
Install ==
    /\ AllRead /\ reader.mode = "rebuild"
    /\ file' = [exists |-> TRUE, db |-> reader.db]
    /\ reader' = Idle
    /\ UNCHANGED <<log, yaml, behind, verdict>>

(* Mutant of sameContent: a session is known by the phase it shows.        *)
samePrefix(a, b) ==
    \A s \in Sessions : /\ a.rows[s].events <= b.rows[s].events
                        /\ a.rows[s].phase = b.rows[s].phase

(* projectionContentHash of both databases                                 *)
sameContent(a, b) == a = b

(* The end of VerifyStorage: the database it fills is in memory.           *)
Compare ==
    /\ AllRead /\ reader.mode = "verify"
    /\ verdict' = CASE ~file.exists -> "missing"
                    [] file.exists /\ sameContent(file.db, reader.db) -> "valid"
                    [] OTHER -> "mismatch"
    /\ reader' = Idle
    /\ UNCHANGED <<log, yaml, behind, file>>

(* The reader fails or is killed: a temporary database is never looked at. *)
Fails ==
    /\ reader.step # "idle"
    /\ reader' = Idle
    /\ UNCHANGED <<log, yaml, behind, file, verdict>>

Next ==
    \/ \E s \in Councils, t \in CouncilTypes : \E k \in Keys(s, t), p \in Payloads(t) :
            WriteEvent(s, t, k, p)
    \/ \E s \in Delegations, t \in DelegationTypes : \E k \in Keys(s, t), p \in Payloads(t) :
            WriteEvent(s, t, k, p)
    \/ \E s \in Sessions : WriteYaml(s)
    \/ Start("rebuild") \/ Start("verify") \/ Load \/ Read \/ Fails
    \/ Install \/ Compare

Spec == Init /\ [][Next]_vars

-----------------------------------------------------------------------------
(* The events of a session that the installed projection was built from    *)
Source(s) == SubSeq(log[s], 1, file.db.rows[s].events)

(* Every variable has its type, and every session of an installed          *)
(* projection shows a prefix of its log: never an event the log lacks, and *)
(* the phase of the last event it shows.                                   *)
TypeOK ==
    /\ yaml \in [Sessions -> Members \cup {None}]
    /\ behind \subseteq Sessions
    /\ reader.step \in {"idle", "load", "read"} /\ reader.mode \in {"rebuild", "verify"}
    /\ reader.next \in 1..(Len(Order) + 1)
    /\ verdict \in {"none", "missing", "valid", "mismatch"}
    /\ file.exists => \A s \in Sessions :
           LET n == file.db.rows[s].events
           IN  n <= Len(log[s]) /\ (n > 0 => file.db.rows[s].phase = log[s][n].phase)

(* A database holds what the logs held when the reader began.              *)
Covers(db) == \A s \in Sessions : db.rows[s].events >= reader.begun[s]

(* A rebuild installs every event there was when it began, and never part  *)
(* of the sessions, although the daemon goes on writing and wherever an    *)
(* earlier one failed.                                                     *)
RebuildIsComplete == [][file' # file => Covers(file'.db)]_vars

(* verify calls no stale projection valid: an installed one that lacks an  *)
(* event written before verify began is reported, whatever the daemon      *)
(* writes while the sessions are read.                                     *)
ValidIsCurrent == [][verdict' # verdict /\ verdict' = "valid" => Covers(file.db)]_vars

(* An invocation is one call and is paid once, although its success and    *)
(* its speech both carry the cost and a dispatch may stop between them.    *)
PaidOnce ==
    \A s \in Sessions :
        LET Of(types) == {i \in Invocations :
                \E k \in 1..Len(Source(s)) : Source(s)[k].type \in types
                                             /\ Source(s)[k].key = i}
        IN  /\ file.db.rows[s].calls = Cardinality(Of({"runner_invocation_started"}))
            /\ file.db.rows[s].cost = Cardinality(Of(RunnerTerminal))

(* ListEscalationBatches, the daemon's own view of a log: what was added   *)
(* behind the latest flush is pending.                                     *)
Listed(events, b) ==
    LET flushes == {k \in 1..Len(events) :
                       events[k].type = "user_escalation_requested" /\ events[k].key = b}
    IN  Cardinality({k \in 1..Len(events) :
            /\ events[k].type = "escalation_batched" /\ events[k].key = b
            /\ \A f \in flushes : f < k})

(* The k-th event adds to batch b, flushes it, or escalates beside it:     *)
(* without the flag.                                                       *)
Adding(e, b) == e.type = "escalation_batched" /\ e.key = b
Flushing(e, b) == e.type = "user_escalation_requested" /\ e.key = b /\ e.payload.batch
Bypassing(e, b) == e.type = "user_escalation_requested" /\ e.key = b /\ ~e.payload.batch

(* A batch id that was used again after its flush, or by another session   *)
Reused(b) ==
    \E s \in Sessions : \E k \in 1..Len(Source(s)) :
        /\ Adding(Source(s)[k], b)
        /\ \/ file.db.batches[b].session # s
           \/ \E j \in 1..(k - 1) : /\ Flushing(Source(s)[j], b)
                                    /\ \E i \in 1..(j - 1) : Adding(Source(s)[i], b)

(* An immediate escalation named the batch of one that was waiting, and no *)
(* flush came since.                                                       *)
Bypassed(b) ==
    \E s \in Sessions : \E k \in 1..Len(Source(s)) :
        /\ Adding(Source(s)[k], b)
        /\ \E j \in (k + 1)..Len(Source(s)) : Bypassing(Source(s)[j], b)
        /\ \A j \in (k + 1)..Len(Source(s)) : ~Flushing(Source(s)[j], b)

(* The last event of a type and key                                        *)
Position(events, type, key) ==
    Max({0} \cup {k \in 1..Len(events) : events[k].type = type /\ events[k].key = key})

(* attendanceEvidenceByMember, on which the readiness gates rest: the      *)
(* latest attendance behind the latest request, whose status comes first   *)
Evidence(events, m) ==
    LET request == Position(events, "attendance_requested", None)
        answer  == Position(events, "member_attended", m)
    IN  CASE request = 0 -> "none"
          [] request > 0 /\ answer > request -> events[answer].payload.status
          [] OTHER -> "requested"

(* An attendance that the two readers take differently: nobody asked for   *)
(* it, or its two keys differ.                                             *)
Disputed(events, m) ==
    LET request == Position(events, "attendance_requested", None)
        answer  == Position(events, "member_attended", m)
    IN  /\ answer > request
        /\ request = 0 \/ Shown(events[answer]) # events[answer].payload.status

(* Two readers of the same events agree: the attendance table shows what   *)
(* the readiness report takes for evidence, through any number of requests *)
(* and answers, unless the member's last answer is one nobody asked for or *)
(* carries two different statuses.                                         *)
AttendanceViewsAgree ==
    \A s \in Councils, m \in Members :
        ~Disputed(Source(s), m) =>
            file.db.rows[s].attendance[m] = Evidence(Source(s), m)

(* Two readers of the same events agree: the projection counts the         *)
(* escalations pending in a session as the daemon's list does, unless a    *)
(* batch id is used again after its flush or in another session, or an     *)
(* immediate escalation named a batch that was waiting.                    *)
BatchViewsAgree ==
    (\A b \in Batches : ~Reused(b) /\ ~Bypassed(b)) => \A s \in Sessions :
        file.db.rows[s].pending = MapThenSumSet(LAMBDA b : Listed(Source(s), b), Batches)
=============================================================================
