----------------------------- MODULE Readiness -----------------------------
(***************************************************************************)
(* The gates of a council on a Discord thread.  Members announce           *)
(* themselves and later that they are prepared; prepare, poll and grant    *)
(* first run a preflight, which records a timeout for each silent member   *)
(* (one append after the other), then judges every member's evidence, and  *)
(* only then is the command itself recorded, from another read of the log. *)
(* The moderator may block the session and resume it from any block on     *)
(* record.                                                                 *)
(*                                                                         *)
(* Every handler reads the log, decides, and appends later, with no lock   *)
(* in between, so the event carries the phase its handler has read.        *)
(* Handlers lose everything in a crash.  A command has an id of its own: a *)
(* retry finds the recorded event and changes nothing.  AppendEvent's own  *)
(* look at the event ids is one step with the write; two handlers that     *)
(* pass it together leave a log that nobody can read any more, which ends  *)
(* every behaviour here (SessionStore).                                    *)
(***************************************************************************)
EXTENDS Naturals

CONSTANTS Members,
          Moderator,
          Handlers,
          MaxEvents      \* bound: events of the council

ASSUME ReadinessConstants == MaxEvents \in Nat

VARIABLES
    length,        \* events in the log
    phase,         \* latest phase of the log
    asked,         \* attendance requests so far
    attendance,    \* member -> latest attendance behind the latest request
    attended,      \* members with any attendance behind any request
    agenda,        \* agenda_locked was recorded when all had attended
    prepares,      \* preparation requests so far
    preparation,   \* member -> latest answer behind the latest of them
    blocks, last,  \* resume phases of all blocks, and of the latest one
    timedOut,      \* <<command, request, member>> of the recorded timeouts
    overdue,       \* deadlines that have passed: of prepare, of poll
    handler,
    announced,     \* members recorded as present (history)
    saidReady,     \* members that recorded member_ready (history)
    raced,         \* an event was appended behind a decision it overtook (history)
    older          \* a resume went by a block before the latest (history)

log == <<length, phase, asked, attendance, attended, agenda, prepares, preparation,
         blocks, last>>
history == <<announced, saidReady, raced, older>>
vars == <<log, timedOut, overdue, handler, history>>

Phases == {"created", "preparation", "discussion", "blocked"}

(* What blocks is one value: attendance that is partial, unavailable or    *)
(* no_response_timeout, and preparation that is partial, after a timeout   *)
(* or not.                                                                 *)
Attendance == {"none", "present", "absent"}
Preparation == {"none", "ready", "partial"}
Commands == {"prepare", "poll", "grant"}

(* The events, by what they say                                            *)
OfCreated == {"request", "present", "absent", "agenda"}
Answers == {"ready", "partial"}
Types == OfCreated \cup Answers \cup Commands \cup {"diagnostic", "block", "resume"}

(* The phases from which councilTransition, BlockSession and ResumeSession *)
(* allow an event                                                          *)
Gate(type) ==
    CASE type \in OfCreated \cup {"prepare"} -> {"created"}
      [] type \in Answers -> {"preparation"}
      [] type = "poll" -> {"preparation", "discussion"}
      [] type = "grant" -> {"discussion"}
      [] type = "resume" -> {"blocked"}
      [] type = "block" -> Phases \ {"blocked"}
      [] OTHER -> Phases

(* ... and the phase the event carries; a resume takes it from the block.  *)
PhaseOf(type, resumed) ==
    CASE type \in OfCreated -> "created"
      [] type \in Answers \cup {"prepare"} -> "preparation"
      [] type \in {"poll", "grant"} -> "discussion"
      [] type = "block" -> "blocked"
      [] type = "resume" -> resumed
      [] OTHER -> phase

Event(type, m, resumed) ==
    [type |-> type, member |-> m, phase |-> PhaseOf(type, resumed), seen |-> phase]

Nothing == [type |-> "agenda", member |-> Moderator,
            phase |-> "created", seen |-> "created"]
Idle == [step |-> "idle", cmd |-> "grant", request |-> 0, silent |-> {}, event |-> Nothing]

-----------------------------------------------------------------------------
Init ==
    /\ length = 0 /\ phase = "created" /\ asked = 0 /\ prepares = 0
    /\ attendance = [m \in Members |-> "none"]
    /\ attended = {} /\ agenda = FALSE
    /\ preparation = [m \in Members |-> "none"]
    /\ blocks = {} /\ last = "created"
    /\ timedOut = {} /\ overdue = {}
    /\ handler = [h \in Handlers |-> Idle]
    /\ announced = {} /\ saidReady = {} /\ raced = FALSE /\ older = FALSE

Refuse(h) == handler' = [handler EXCEPT ![h] = Idle]

(* A prepare has its report and is not recorded yet.                       *)
Reported == \E h \in Handlers :
    handler[h].cmd = "prepare" /\ handler[h].step \in {"record", "append"}

(* member_attended counts for the member its payload names, and only       *)
(* behind a request.                                                       *)
Attended(e) ==
    LET counts == e.type \in {"present", "absent"} /\ asked > 0
    IN  /\ attendance' = IF e.type = "request" THEN [m \in Members |-> "none"]
                         ELSE IF counts THEN [attendance EXCEPT ![e.member] = e.type]
                         ELSE attendance
        /\ attended' = IF counts THEN attended \cup {e.member} ELSE attended
        /\ announced' = IF counts /\ e.type = "present" THEN announced \cup {e.member}
                        ELSE announced

(* member_ready and member_prepared_partial behind the latest preparation  *)
(* request                                                                 *)
Prepared(e) ==
    /\ preparation' = IF e.type = "prepare" THEN [m \in Members |-> "none"]
                      ELSE IF e.type \in Answers THEN [preparation EXCEPT ![e.member] = e.type]
                      ELSE preparation
    /\ saidReady' = IF e.type = "ready" THEN saidReady \cup {e.member} ELSE saidReady

(* The append of an event, and what the readers of the log make of it      *)
Append(e) ==
    /\ length < MaxEvents /\ length' = length + 1
    /\ phase' = e.phase
    /\ asked' = IF e.type = "request" THEN asked + 1 ELSE asked
    /\ prepares' = IF e.type = "prepare" THEN prepares + 1 ELSE prepares
    /\ overdue' = IF e.type = "request" THEN overdue \ {"prepare"}
                  ELSE IF e.type = "prepare" THEN overdue \ {"poll"} ELSE overdue
    /\ Attended(e) /\ Prepared(e)
    /\ agenda' = (agenda \/ (e.type = "agenda" /\ asked > 0 /\ attended = Members))
    /\ blocks' = IF e.type = "block" THEN blocks \cup {e.seen} ELSE blocks
    /\ last' = IF e.type = "block" THEN e.seen ELSE last
    /\ raced' = \/ raced
                \/ phase # e.seen
                \/ e.type \in {"request", "present", "absent"} /\ Reported
    /\ older' = (older \/ (e.type = "resume" /\ e.phase # last))

(* The deadline of the latest request passes.                              *)
Deadline(cmd) ==
    /\ cmd = "prepare" => asked > 0
    /\ cmd = "poll" => prepares > 0
    /\ overdue' = overdue \cup {cmd}
    /\ UNCHANGED <<log, timedOut, handler, history>>

-----------------------------------------------------------------------------
(* The commands without a preflight: the handler reads the log, ...        *)
Decide(h, type, m, resumed) ==
    /\ handler[h].step = "idle"
    /\ phase \in Gate(type)
    /\ handler' = [handler EXCEPT ![h] = [Idle EXCEPT !.step = "append",
                                                      !.event = Event(type, m, resumed)]]
    /\ UNCHANGED <<log, timedOut, overdue, history>>

(* ... and appends.                                                        *)
AppendEvent(h) ==
    /\ handler[h].step = "append"
    /\ Append(handler[h].event)
    /\ Refuse(h)
    /\ UNCHANGED timedOut

(* terminalAttendanceAfter and terminalPreparationAfter: the members       *)
(* without an answer behind the latest request                             *)
Silent(cmd) ==
    IF cmd = "prepare" THEN {m \in Members : attendance[m] = "none"}
    ELSE {m \in Members : preparation[m] = "none"}

(* handleCouncilEvent, up to the read of ApplyAttendanceTimeouts or        *)
(* ApplyPreparationTimeouts                                                *)
Receive(h, cmd) ==
    /\ handler[h].step = "idle"
    /\ handler' = [handler EXCEPT ![h] = [Idle EXCEPT
           !.step = "timeouts", !.cmd = cmd,
           !.request = IF cmd = "prepare" THEN asked ELSE prepares,
           !.silent = IF cmd \in overdue THEN Silent(cmd) ELSE {}]]
    /\ UNCHANGED <<log, timedOut, overdue, history>>

TimeoutType(cmd) == IF cmd = "prepare" THEN "absent" ELSE "partial"

(* The command id of a timeout names request and member.                   *)
TimeoutId(h, m) == <<handler[h].cmd, handler[h].request, m>>

(* One timeout of the list.  The phase is checked again and the command id *)
(* looked up; the member's silence is not.                                 *)
CheckTimeout(h, m) ==
    LET type == TimeoutType(handler[h].cmd)
    IN  /\ handler[h].step = "timeouts" /\ m \in handler[h].silent
        /\ IF phase \notin Gate(type) THEN Refuse(h)
           ELSE IF TimeoutId(h, m) \in timedOut
           THEN handler' = [handler EXCEPT ![h].silent = @ \ {m}]
           ELSE handler' = [handler EXCEPT ![h] =
                    [@ EXCEPT !.step = "timeout", !.event = Event(type, m, phase)]]
        /\ UNCHANGED <<log, timedOut, overdue, history>>

(* ... and its append, unless another handler has been here.               *)
AppendTimeout(h) ==
    LET m == handler[h].event.member
    IN  /\ handler[h].step = "timeout"
        /\ IF TimeoutId(h, m) \in timedOut
           THEN Refuse(h) /\ UNCHANGED <<log, timedOut, overdue, history>>
           ELSE /\ Append(handler[h].event)
                /\ timedOut' = timedOut \cup {TimeoutId(h, m)}
                /\ handler' = [handler EXCEPT ![h] =
                       [handler[h] EXCEPT !.step = "timeouts",
                                          !.silent = handler[h].silent \ {m}]]

(* Mutant of attendanceReady: any terminal attendance will do, as in the   *)
(* guard of prepare.                                                       *)
attendanceTerminal(m) == attendance[m] # "none"

(* Mutant of preparationReady: so will any answer to the preparation       *)
(* request.                                                                *)
preparationAnswered(m) == preparation[m] # "none"

(* attendanceReadinessStatus and preparationReadinessStatus: whatever is   *)
(* not ready blocks, partial answers included.                             *)
attendanceReady(m) == attendance[m] = "present"
preparationReady(m) == preparation[m] = "ready"

(* ParticipantRuntimeReadinessFromIndex, for the evidence that the command *)
(* requires; fresh are the members with a subscriber, a valid cursor ack,  *)
(* fresh times of both, which come and go with every beat, and, if the     *)
(* grant names them, the prerequisites of their runner                     *)
Ready(cmd, fresh) ==
    \A m \in Members :
        /\ m \in fresh /\ attendanceReady(m)
        /\ cmd # "prepare" => preparationReady(m)

(* The report.  A grant that is not ready leaves a diagnostic.             *)
Report(h, fresh) ==
    /\ handler[h].step = "timeouts" /\ handler[h].silent = {}
    /\ \/ /\ Ready(handler[h].cmd, fresh)
          /\ handler' = [handler EXCEPT ![h].step = "record"]
       \/ /\ ~Ready(handler[h].cmd, fresh) /\ handler[h].cmd = "grant"
          /\ handler' = [handler EXCEPT ![h].step = "diagnose"]
       \/ /\ ~Ready(handler[h].cmd, fresh) /\ handler[h].cmd # "grant"
          /\ Refuse(h)
    /\ UNCHANGED <<log, timedOut, overdue, history>>

(* validateAttendanceAgendaGuard: it counts attendance behind any request  *)
AgendaGuard == asked > 0 /\ attended = Members /\ agenda

(* RecordCouncilEvent for prepare, poll and grant, and the diagnostic,     *)
(* which has no gate and takes the phase of the last event: another read   *)
Check(h) ==
    LET type == IF handler[h].step = "diagnose" THEN "diagnostic" ELSE handler[h].cmd
    IN  /\ handler[h].step \in {"record", "diagnose"}
        /\ IF phase \in Gate(type) /\ (type = "prepare" => AgendaGuard)
           THEN handler' = [handler EXCEPT ![h] =
                    [@ EXCEPT !.step = "append", !.event = Event(type, Moderator, phase)]]
           ELSE Refuse(h)
        /\ UNCHANGED <<log, timedOut, overdue, history>>

Crash ==
    /\ handler' = [h \in Handlers |-> Idle]
    /\ UNCHANGED <<log, timedOut, overdue, history>>

Next ==
    \/ Crash
    \/ \E cmd \in {"prepare", "poll"} : Deadline(cmd)
    \/ \E h \in Handlers :
          \/ \E m \in Members, type \in {"present", "absent"} \cup Answers : Decide(h, type, m, phase)
          \/ \E type \in {"request", "agenda", "block"} : Decide(h, type, Moderator, phase)
          \/ \E resumed \in blocks : Decide(h, "resume", Moderator, resumed)
          \/ AppendEvent(h)
          \/ \E cmd \in Commands : Receive(h, cmd)
          \/ \E m \in Members : CheckTimeout(h, m)
          \/ AppendTimeout(h)
          \/ \E fresh \in SUBSET Members : Report(h, fresh)
          \/ Check(h)

Spec == Init /\ [][Next]_vars

-----------------------------------------------------------------------------
TypeOK ==
    /\ phase \in Phases /\ length \in Nat /\ asked \in Nat /\ prepares \in Nat
    /\ attendance \in [Members -> Attendance] /\ attended \subseteq Members
    /\ agenda \in BOOLEAN /\ preparation \in [Members -> Preparation]
    /\ blocks \subseteq Phases \ {"blocked"} /\ last \in Phases \ {"blocked"}
    /\ overdue \subseteq {"prepare", "poll"}
    /\ timedOut \subseteq Commands \X Nat \X Members
    /\ announced \subseteq Members /\ saidReady \subseteq Members
    /\ raced \in BOOLEAN /\ older \in BOOLEAN
    /\ handler \in [Handlers -> [step : {"idle", "timeouts", "timeout", "record", "diagnose",
                                         "append"},
                                 cmd : Commands, request : Nat, silent : SUBSET Members,
                                 event : [type : Types, member : Members \cup {Moderator},
                                          phase : Phases, seen : Phases]]]

(* A council is in discussion only if every member was once recorded as    *)
(* present and said it is prepared.  A recorded timeout is evidence of the *)
(* failure and never stands for the answer, whichever handlers append      *)
(* timeouts, answers and phases that are out of date while others judge,   *)
(* whatever block a resume goes by, and although the guard of prepare      *)
(* accepts a timeout.                                                      *)
DiscussionHasConsent ==
    phase = "discussion" => \A m \in Members : m \in announced /\ m \in saidReady

(* From the first preparation request on attendance is complete and closed *)
(* so that the council can be polled.  Two things undo that: an event that *)
(* is appended after a decision it should have been part of (attendance    *)
(* between the report of prepare and its append, or any event whose phase  *)
(* is out of date), and a resume that goes by a block before the latest,   *)
(* back to the phase created, where attendance is open again.              *)
PreparationIsPollable ==
    prepares > 0 /\ ~raced /\ ~older => \A m \in Members : attendance[m] = "present"
=============================================================================
