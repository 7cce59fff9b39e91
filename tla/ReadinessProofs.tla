--------------------------- MODULE ReadinessProofs ---------------------------
(***************************************************************************)
(* Theorems about the gates of a thread council, for every set of members, *)
(* any number of handlers and logs of any length, and about the response   *)
(* windows behind those gates.                                             *)
(***************************************************************************)
EXTENDS Readiness, TLAPS

(* What an event, and a handler that carries one, look like                *)
EventType == [type : Types, member : Members \cup {Moderator}, phase : Phases, seen : Phases]
HandlerType == [step : {"idle", "timeouts", "timeout", "record", "diagnose", "append"},
                cmd : Commands, request : Nat, silent : SUBSET Members, event : EventType]

(* An event is as its gate let it through.                                 *)
Named == {"present", "absent"} \cup Answers
EventOK(e) ==
    /\ e.type \in Named => e.member \in Members
    /\ e.type \in OfCreated \cup {"prepare"} => e.seen = "created"
    /\ e.type = "block" => e.phase = "blocked" /\ e.seen # "blocked"
    /\ e.type = "resume" => e.seen = "blocked" /\ e.phase # "blocked"
    /\ e.type = "prepare" => e.phase = "preparation"
    /\ e.phase = "created" => e.seen = "created" \/ e.type = "resume"
    /\ e.phase = "blocked" => e.seen = "blocked" \/ e.type = "block"

HandlerOK(x) ==
    /\ EventOK(x.event)
    /\ x.step = "append" /\ x.event.type = "prepare" => x.cmd = "prepare"
    /\ x.step = "timeout" => x.event.type \in {"absent", "partial"}
    /\ x.step = "diagnose" => x.cmd = "grant"

(* Every member was recorded as present and has said it is prepared.       *)
Consented == \A m \in Members : m \in announced /\ m \in saidReady
AllPresent == \A m \in Members : attendance[m] = "present"

(* Whatever can lead to a discussion has the consent: the evidence that is *)
(* judged, the blocks that may be resumed, the handlers past their read.   *)
Answered ==
    \A m \in Members : /\ attendance[m] = "present" => m \in announced
                       /\ preparation[m] = "ready" => m \in saidReady
Agreed == phase = "discussion" \/ "discussion" \in blocks => Consented
Bound(x) == \/ x.event.phase = "discussion" \/ x.event.seen = "discussion"
            \/ x.step = "record" /\ x.cmd # "prepare"
Carried == \A h \in Handlers : HandlerOK(handler[h]) /\ (Bound(handler[h]) => Consented)

(* A prepare past its report: attendance is complete unless it has moved.  *)
IsReported(x) == x.cmd = "prepare" /\ x.step \in {"record", "append"}
Counted == \A h \in Handlers : IsReported(handler[h]) /\ ~raced => AllPresent

(* ... and stays so once it is recorded, because the way back to created   *)
(* is closed, also through the latest block.                               *)
Closed ==
    prepares > 0 /\ ~raced /\ ~older =>
        AllPresent /\ phase # "created" /\ (phase = "blocked" => last # "created")

IndInv == TypeOK /\ Answered /\ Agreed /\ Carried /\ Counted /\ Closed

(* A handler at rest carries nothing.                                      *)
LEMMA IdleHandler ==
    /\ Idle \in HandlerType /\ HandlerOK(Idle) /\ ~Bound(Idle) /\ ~IsReported(Idle)
    /\ Idle.step = "idle" /\ Idle.cmd = "grant" /\ Idle.event = Nothing
    /\ Nothing \in EventType /\ EventOK(Nothing)
    /\ Nothing.phase = "created" /\ Nothing.seen = "created"
  BY DEF Idle, Nothing, HandlerType, EventType, HandlerOK, EventOK, Bound, IsReported, Commands,
         Phases, Types, OfCreated, Answers, Named

(* An event that passes its gate                                           *)
LEMMA GatedEvent ==
    ASSUME phase \in Phases, NEW type \in Types, NEW m \in Members \cup {Moderator},
           type \in Named => m \in Members,
           NEW resumed \in Phases, type = "resume" => resumed # "blocked",
           phase \in Gate(type)
    PROVE  /\ Event(type, m, resumed) \in EventType /\ EventOK(Event(type, m, resumed))
           /\ Event(type, m, resumed).type = type /\ Event(type, m, resumed).seen = phase
           /\ Event(type, m, resumed).member = m
           /\ Event(type, m, resumed).phase = "discussion" =>
                  \/ phase = "discussion" \/ type \in {"poll", "grant"}
                  \/ type = "resume" /\ resumed = "discussion"
<1> DEFINE p == PhaseOf(type, resumed)
<1>1. /\ p \in Phases
      /\ type \in OfCreated \cup {"prepare"} => phase = "created"
      /\ type = "block" => p = "blocked" /\ phase # "blocked"
      /\ type = "resume" => phase = "blocked" /\ p = resumed
      /\ type = "prepare" => p = "preparation"
      /\ p = "created" => phase = "created" \/ type = "resume"
      /\ p = "blocked" => phase = "blocked" \/ type = "block"
      /\ p = "discussion" => \/ phase = "discussion" \/ type \in {"poll", "grant"}
                             \/ type = "resume" /\ resumed = "discussion"
  BY DEF PhaseOf, Gate, Types, OfCreated, Answers, Commands, Phases
<1> HIDE DEF p
<1>2. Event(type, m, resumed) = [type |-> type, member |-> m, phase |-> p, seen |-> phase]
  BY DEF Event, p
<1>3. QED
  BY <1>1, <1>2 DEF EventType, EventOK

(* A step of one handler that leaves the log alone                         *)
LEMMA LocalStep ==
    ASSUME IndInv, NEW h \in Handlers, NEW x \in HandlerType,
           handler' = [handler EXCEPT ![h] = x],
           HandlerOK(x), Bound(x) => Consented,
           IsReported(x) => IsReported(handler[h]) \/ AllPresent,
           UNCHANGED <<log, timedOut, overdue, history>>
    PROVE  IndInv'
<1>1. handler \in [Handlers -> HandlerType] /\ handler' \in [Handlers -> HandlerType]
  BY DEF IndInv, TypeOK, HandlerType, EventType
<1>2. /\ UNCHANGED <<length, phase, asked, attendance, attended, agenda, prepares, preparation,
                     blocks, last, timedOut, overdue, announced, saidReady, raced, older>>
      /\ Consented' = Consented /\ AllPresent' = AllPresent
  BY DEF log, history, Consented, AllPresent
<1>3. \A k \in Handlers : handler'[k] = IF k = h THEN x ELSE handler[k]
  BY <1>1
<1>4. TypeOK'
  BY <1>1, <1>2 DEF IndInv, TypeOK, HandlerType, EventType
<1>5. Answered' /\ Agreed' /\ Closed'
  BY <1>2 DEF IndInv, Answered, Agreed, Closed
<1>6. Carried'
  BY <1>2, <1>3 DEF IndInv, Carried
<1>7. Counted'
  BY <1>2, <1>3 DEF IndInv, Counted
<1>8. QED
  BY <1>4, <1>5, <1>6, <1>7 DEF IndInv

(* What the append of an event does to everything but the handlers         *)
LogInv == Answered /\ Agreed /\ Closed
LEMMA AppendStep ==
    ASSUME IndInv, NEW h \in Handlers, Append(handler[h].event),
           handler[h].step \in {"append", "timeout"}
    PROVE  /\ length' \in Nat /\ phase' \in Phases /\ asked' \in Nat /\ prepares' \in Nat
           /\ attendance' \in [Members -> Attendance] /\ attended' \subseteq Members
           /\ agenda' \in BOOLEAN /\ preparation' \in [Members -> Preparation]
           /\ blocks' \subseteq Phases \ {"blocked"} /\ last' \in Phases \ {"blocked"}
           /\ overdue' \subseteq {"prepare", "poll"}
           /\ announced' \subseteq Members /\ saidReady' \subseteq Members
           /\ raced' \in BOOLEAN /\ older' \in BOOLEAN
           /\ LogInv'
           /\ Consented => Consented'
           /\ \A k \in Handlers : IsReported(handler[k]) /\ ~raced' => ~raced /\ AllPresent'
<1> DEFINE e == handler[h].event
<1>0. /\ e \in EventType /\ EventOK(e) /\ (e.phase = "discussion" \/ e.seen = "discussion" => Consented)
      /\ e.type = "prepare" => IsReported(handler[h])
  BY DEF IndInv, TypeOK, Carried, HandlerOK, Bound, IsReported, EventType
<1> HIDE DEF e
<1>1. Append(e)
  BY DEF e
<1>2. /\ length \in Nat /\ phase \in Phases /\ asked \in Nat /\ prepares \in Nat
      /\ attendance \in [Members -> Attendance] /\ attended \subseteq Members
      /\ agenda \in BOOLEAN /\ preparation \in [Members -> Preparation]
      /\ blocks \subseteq Phases \ {"blocked"} /\ last \in Phases \ {"blocked"}
      /\ overdue \subseteq {"prepare", "poll"}
      /\ announced \subseteq Members /\ saidReady \subseteq Members
      /\ raced \in BOOLEAN /\ older \in BOOLEAN
  BY DEF IndInv, TypeOK
<1>3. /\ length' \in Nat /\ phase' \in Phases /\ asked' \in Nat /\ prepares' \in Nat
      /\ blocks' \subseteq Phases \ {"blocked"} /\ last' \in Phases \ {"blocked"}
      /\ overdue' \subseteq {"prepare", "poll"}
  BY <1>0, <1>1, <1>2 DEF Append, EventType, EventOK
<1>4. agenda' \in BOOLEAN /\ raced' \in BOOLEAN /\ older' \in BOOLEAN
  <2>1. /\ agenda' = (agenda \/ (e.type = "agenda" /\ asked > 0 /\ attended = Members))
        /\ raced' = (raced \/ phase # e.seen
                           \/ (e.type \in {"request", "present", "absent"} /\ Reported))
        /\ older' = (older \/ (e.type = "resume" /\ e.phase # last))
    BY <1>1 DEF Append
  <2>2. QED
    BY <2>1, Zenon
<1>5. /\ attendance' \in [Members -> Attendance] /\ attended' \subseteq Members
      /\ announced' \subseteq Members
      /\ \A m \in Members : attendance'[m] = "present" => m \in announced'
      /\ announced \subseteq announced'
      /\ e.type \notin {"request", "present", "absent"} => attendance' = attendance
  BY <1>0, <1>1, <1>2 DEF Append, Attended, EventOK, Named, Attendance, IndInv, Answered
<1>6. /\ preparation' \in [Members -> Preparation] /\ saidReady' \subseteq Members
      /\ \A m \in Members : preparation'[m] = "ready" => m \in saidReady'
      /\ saidReady \subseteq saidReady'
  BY <1>0, <1>1, <1>2 DEF Append, Prepared, EventOK, Named, Answers, Preparation, IndInv, Answered
<1>7. Consented => Consented'
  BY <1>5, <1>6 DEF Consented
<1>8. Agreed'
  <2>1. /\ phase' = "discussion" => e.phase = "discussion"
        /\ "discussion" \in blocks' => "discussion" \in blocks \/ e.seen = "discussion"
    BY <1>1 DEF Append
  <2>2. QED
    BY <2>1, <1>0, <1>7 DEF IndInv, Agreed
<1>9. ~raced' => /\ ~raced /\ phase = e.seen
                 /\ ~(e.type \in {"request", "present", "absent"} /\ Reported)
  BY <1>1, <1>2 DEF Append
<1>10. \A k \in Handlers : IsReported(handler[k]) => Reported
  BY DEF Reported, IsReported
<1>11. \A k \in Handlers : IsReported(handler[k]) /\ ~raced' => ~raced /\ AllPresent'
  <2> SUFFICES ASSUME NEW k \in Handlers, IsReported(handler[k]), ~raced'
               PROVE  ~raced /\ AllPresent'
    OBVIOUS
  <2>1. ~raced /\ attendance' = attendance
    BY <1>5, <1>9, <1>10
  <2>2. AllPresent
    BY <2>1 DEF IndInv, Counted
  <2>3. QED
    BY <2>1, <2>2 DEF AllPresent
<1>12. Closed'
  <2> SUFFICES ASSUME prepares' > 0, ~raced', ~older'
               PROVE  AllPresent' /\ phase' # "created" /\ (phase' = "blocked" => last' # "created")
    BY DEF Closed
  <2>1. /\ ~older /\ (e.type = "resume" => e.phase = last)
        /\ phase' = e.phase
        /\ prepares' = IF e.type = "prepare" THEN prepares + 1 ELSE prepares
        /\ last' = IF e.type = "block" THEN e.seen ELSE last
    BY <1>1, <1>2 DEF Append
  <2>2. CASE e.type = "prepare"
    <3>1. AllPresent'
      BY <1>0, <1>11, <2>2
    <3>2. QED
      BY <3>1, <2>1, <2>2, <1>0 DEF EventOK
  <2>3. CASE e.type # "prepare"
    <3>1. AllPresent /\ phase # "created" /\ (phase = "blocked" => last # "created")
      BY <2>1, <2>3, <1>9 DEF IndInv, Closed
    <3>2. e.type \notin {"request", "present", "absent"}
      BY <3>1, <1>0, <1>9 DEF EventOK, OfCreated
    <3>3. AllPresent'
      BY <3>1, <3>2, <1>5 DEF AllPresent
    <3>4. QED
      BY <3>1, <3>3, <2>1, <1>0, <1>9 DEF EventOK
  <2>4. QED
    BY <2>2, <2>3
<1>13. QED
  BY <1>3, <1>4, <1>5, <1>6, <1>7, <1>8, <1>11, <1>12 DEF LogInv, Answered

(* ... and to everything: the handler goes on with x.                      *)
LEMMA AppendThenStep ==
    ASSUME IndInv, NEW h \in Handlers, Append(handler[h].event),
           handler[h].step \in {"append", "timeout"},
           NEW x \in HandlerType, handler' = [handler EXCEPT ![h] = x],
           HandlerOK(x), Bound(x) => Bound(handler[h]), ~IsReported(x),
           timedOut' \subseteq Commands \X Nat \X Members
    PROVE  IndInv'
<1>1. handler \in [Handlers -> HandlerType] /\ handler' \in [Handlers -> HandlerType]
  BY DEF IndInv, TypeOK, HandlerType, EventType
<1>2. \A k \in Handlers : handler'[k] = IF k = h THEN x ELSE handler[k]
  BY <1>1
<1>3. TypeOK'
  BY <1>1, AppendStep DEF TypeOK, HandlerType, EventType
<1>4. Consented => Consented'
  BY AppendStep
<1>5. Carried'
  BY <1>2, <1>4 DEF IndInv, Carried
<1>6. Counted'
  <2>1. \A k \in Handlers : IsReported(handler[k]) /\ ~raced' => AllPresent'
    BY AppendStep
  <2>2. QED
    BY <1>2, <2>1 DEF Counted
<1>7. QED
  BY <1>3, <1>5, <1>6, AppendStep DEF IndInv, LogInv

(* Every action keeps the invariant.                                       *)
LEMMA Step == IndInv /\ [Next]_vars => IndInv'
<1> SUFFICES ASSUME IndInv, [Next]_vars PROVE IndInv'
  OBVIOUS
<1>0. /\ handler \in [Handlers -> HandlerType] /\ phase \in Phases /\ asked \in Nat
      /\ prepares \in Nat /\ blocks \subseteq Phases \ {"blocked"}
      /\ timedOut \subseteq Commands \X Nat \X Members
  BY DEF IndInv, TypeOK, HandlerType, EventType
<1>1. CASE Crash
  <2>1. /\ handler' = [h \in Handlers |-> Idle] /\ UNCHANGED <<log, timedOut, overdue, history>>
    BY <1>1 DEF Crash
  <2>2. handler' \in [Handlers -> HandlerType] /\ \A h \in Handlers : handler'[h] = Idle
    BY <2>1, IdleHandler
  <2>3. Consented' = Consented /\ AllPresent' = AllPresent
    BY <2>1 DEF log, history, Consented, AllPresent
  <2>4. TypeOK'
    BY <2>1, <2>2 DEF IndInv, TypeOK, HandlerType, EventType, log, history
  <2>5. Answered' /\ Agreed' /\ Closed'
    BY <2>1, <2>3 DEF IndInv, Answered, Agreed, Closed, log, history
  <2>6. Carried' /\ Counted'
    BY <2>2, IdleHandler DEF Carried, Counted
  <2>7. QED
    BY <2>4, <2>5, <2>6 DEF IndInv
<1>2. ASSUME NEW cmd \in {"prepare", "poll"}, Deadline(cmd) PROVE IndInv'
  <2>1. overdue' = overdue \cup {cmd} /\ UNCHANGED <<log, timedOut, handler, history>>
    BY <1>2 DEF Deadline
  <2>2. Consented' = Consented /\ AllPresent' = AllPresent
    BY <2>1 DEF log, history, Consented, AllPresent
  <2>3. TypeOK'
    BY <2>1 DEF IndInv, TypeOK, log, history
  <2>4. QED
    BY <2>1, <2>2, <2>3 DEF IndInv, Answered, Agreed, Carried, Counted, Closed, log, history
<1>3. ASSUME NEW h \in Handlers, NEW type \in Types, NEW m \in Members \cup {Moderator},
             NEW resumed \in Phases, type \in Named => m \in Members,
             type \notin Commands, type = "resume" => resumed \in blocks,
             Decide(h, type, m, resumed)
      PROVE  IndInv'
  <2> DEFINE e == Event(type, m, resumed)
             x == [Idle EXCEPT !.step = "append", !.event = e]
  <2>1. phase \in Gate(type) /\ handler' = [handler EXCEPT ![h] = x]
        /\ UNCHANGED <<log, timedOut, overdue, history>>
    BY <1>3 DEF Decide
  <2>2. /\ e \in EventType /\ EventOK(e) /\ e.type = type /\ e.seen = phase
        /\ e.phase = "discussion" => phase = "discussion" \/ "discussion" \in blocks
    BY <1>0, <1>3, <2>1, GatedEvent DEF Commands
  <2> HIDE DEF e
  <2>3. x \in HandlerType /\ x.event = e /\ x.step = "append" /\ x.cmd = "grant"
    BY <2>2, IdleHandler DEF HandlerType
  <2> HIDE DEF x
  <2>4. HandlerOK(x) /\ (Bound(x) => Consented) /\ ~IsReported(x)
    BY <1>3, <2>2, <2>3 DEF HandlerOK, Bound, IsReported, Commands, IndInv, Agreed
  <2>5. QED
    BY <2>1, <2>3, <2>4, LocalStep
<1>4. ASSUME NEW h \in Handlers, AppendEvent(h) PROVE IndInv'
  <2>1. /\ handler[h].step = "append" /\ Append(handler[h].event) /\ timedOut' = timedOut
        /\ handler' = [handler EXCEPT ![h] = Idle]
    BY <1>4 DEF AppendEvent, Refuse
  <2>2. QED
    BY <1>0, <2>1, IdleHandler, AppendThenStep
<1>5. ASSUME NEW h \in Handlers, NEW cmd \in Commands, Receive(h, cmd) PROVE IndInv'
  <2> DEFINE x == [Idle EXCEPT !.step = "timeouts", !.cmd = cmd,
                       !.request = IF cmd = "prepare" THEN asked ELSE prepares,
                       !.silent = IF cmd \in overdue THEN Silent(cmd) ELSE {}]
  <2>1. handler' = [handler EXCEPT ![h] = x] /\ UNCHANGED <<log, timedOut, overdue, history>>
    BY <1>5 DEF Receive
  <2>2. Silent(cmd) \subseteq Members
    BY DEF Silent
  <2>3. x \in HandlerType /\ x.step = "timeouts" /\ x.event = Nothing
    BY <1>0, <2>2, IdleHandler DEF HandlerType
  <2> HIDE DEF x
  <2>4. HandlerOK(x) /\ ~Bound(x) /\ ~IsReported(x)
    BY <2>3, IdleHandler DEF HandlerOK, Bound, IsReported
  <2>5. QED
    BY <2>1, <2>3, <2>4, LocalStep
<1>6. ASSUME NEW h \in Handlers, NEW m \in Members, CheckTimeout(h, m) PROVE IndInv'
  <2> DEFINE type == TimeoutType(handler[h].cmd)
             e == Event(type, m, phase)
             y == [handler[h] EXCEPT !.silent = handler[h].silent \ {m}]
             z == [handler[h] EXCEPT !.step = "timeout", !.event = e]
  <2>1. /\ handler[h].step = "timeouts" /\ UNCHANGED <<log, timedOut, overdue, history>>
        /\ \/ handler' = [handler EXCEPT ![h] = Idle]
           \/ handler' = [handler EXCEPT ![h] = y]
           \/ phase \in Gate(type) /\ handler' = [handler EXCEPT ![h] = z]
    BY <1>6, Zenon DEF CheckTimeout, Refuse
  <2>2. CASE handler' = [handler EXCEPT ![h] = Idle]
    BY <2>1, <2>2, IdleHandler, LocalStep
  <2>3. CASE handler' = [handler EXCEPT ![h] = y]
    <3>1. y \in HandlerType /\ y.event = handler[h].event /\ y.step = "timeouts"
      BY <1>0, <2>1 DEF HandlerType
    <3> HIDE DEF y
    <3>2. HandlerOK(y) /\ (Bound(y) => Consented) /\ ~IsReported(y)
      BY <3>1, <2>1 DEF HandlerOK, Bound, IsReported, IndInv, Carried
    <3>3. QED
      BY <2>1, <2>3, <3>1, <3>2, LocalStep
  <2>4. CASE phase \in Gate(type) /\ handler' = [handler EXCEPT ![h] = z]
    <3>1. type \in {"absent", "partial"} /\ type \in Types /\ type \notin {"resume", "poll", "grant"}
      BY DEF TimeoutType, Types, OfCreated, Answers
    <3> HIDE DEF type
    <3>2. /\ e \in EventType /\ EventOK(e) /\ e.type = type /\ e.seen = phase
          /\ e.phase = "discussion" => phase = "discussion"
      BY <1>0, <2>4, <3>1, GatedEvent
    <3> HIDE DEF e
    <3>3. z \in HandlerType /\ z.event = e /\ z.step = "timeout"
      BY <1>0, <3>2 DEF HandlerType
    <3> HIDE DEF z
    <3>4. HandlerOK(z) /\ (Bound(z) => Consented) /\ ~IsReported(z)
      BY <3>1, <3>2, <3>3 DEF HandlerOK, Bound, IsReported, IndInv, Agreed
    <3>5. QED
      BY <2>1, <2>4, <3>3, <3>4, LocalStep
  <2>5. QED
    BY <2>1, <2>2, <2>3, <2>4
<1>7. ASSUME NEW h \in Handlers, AppendTimeout(h) PROVE IndInv'
  <2> DEFINE m == handler[h].event.member
             x == [handler[h] EXCEPT !.step = "timeouts", !.silent = handler[h].silent \ {m}]
             id == <<handler[h].cmd, handler[h].request, m>>
  <2>1. /\ handler[h].step = "timeout"
        /\ \/ /\ handler' = [handler EXCEPT ![h] = Idle]
              /\ UNCHANGED <<log, timedOut, overdue, history>>
           \/ /\ Append(handler[h].event) /\ timedOut' = timedOut \cup {id}
              /\ handler' = [handler EXCEPT ![h] = x]
    BY <1>7 DEF AppendTimeout, TimeoutId, Refuse
  <2>2. CASE /\ handler' = [handler EXCEPT ![h] = Idle]
             /\ UNCHANGED <<log, timedOut, overdue, history>>
    BY <2>2, IdleHandler, LocalStep
  <2>3. CASE /\ Append(handler[h].event) /\ timedOut' = timedOut \cup {id}
             /\ handler' = [handler EXCEPT ![h] = x]
    <3>1. HandlerOK(handler[h]) /\ handler[h] \in HandlerType
      BY <1>0 DEF IndInv, Carried
    <3>2. m \in Members
      BY <2>1, <3>1 DEF HandlerOK, EventOK, Named, Answers
    <3>3. id \in Commands \X Nat \X Members
      BY <3>1, <3>2 DEF HandlerType
    <3>4. x \in HandlerType /\ x.event = handler[h].event /\ x.step = "timeouts"
      BY <3>1 DEF HandlerType
    <3> HIDE DEF x, id, m
    <3>5. HandlerOK(x) /\ (Bound(x) => Bound(handler[h])) /\ ~IsReported(x)
      BY <3>1, <3>4 DEF HandlerOK, Bound, IsReported
    <3>6. timedOut' \subseteq Commands \X Nat \X Members
      BY <1>0, <2>3, <3>3
    <3>7. QED
      BY <2>1, <2>3, <3>4, <3>5, <3>6, AppendThenStep
  <2>4. QED
    BY <2>1, <2>2, <2>3
<1>8. ASSUME NEW h \in Handlers, NEW fresh \in SUBSET Members, Report(h, fresh) PROVE IndInv'
  <2> DEFINE y == [handler[h] EXCEPT !.step = "record"]
             z == [handler[h] EXCEPT !.step = "diagnose"]
  <2>1. /\ handler[h].step = "timeouts" /\ UNCHANGED <<log, timedOut, overdue, history>>
        /\ \/ handler' = [handler EXCEPT ![h] = Idle]
           \/ Ready(handler[h].cmd, fresh) /\ handler' = [handler EXCEPT ![h] = y]
           \/ handler[h].cmd = "grant" /\ handler' = [handler EXCEPT ![h] = z]
    BY <1>8, Zenon DEF Report, Refuse
  <2>2. CASE handler' = [handler EXCEPT ![h] = Idle]
    BY <2>1, <2>2, IdleHandler, LocalStep
  <2>3. CASE Ready(handler[h].cmd, fresh) /\ handler' = [handler EXCEPT ![h] = y]
    <3>1. /\ y \in HandlerType /\ y.event = handler[h].event /\ y.step = "record"
          /\ y.cmd = handler[h].cmd
      BY <1>0 DEF HandlerType
    <3> HIDE DEF y
    <3>2. AllPresent
      BY <2>3 DEF Ready, attendanceReady, AllPresent
    <3>3. y.cmd # "prepare" => Consented
      BY <2>3, <3>1 DEF Ready, attendanceReady, preparationReady, Consented, IndInv, Answered
    <3>4. HandlerOK(y) /\ (Bound(y) => Consented)
      BY <2>1, <3>1, <3>3 DEF HandlerOK, Bound, IndInv, Carried
    <3>5. QED
      BY <2>1, <2>3, <3>1, <3>2, <3>4, LocalStep
  <2>4. CASE handler[h].cmd = "grant" /\ handler' = [handler EXCEPT ![h] = z]
    <3>1. /\ z \in HandlerType /\ z.event = handler[h].event /\ z.step = "diagnose"
          /\ z.cmd = "grant"
      BY <1>0, <2>4 DEF HandlerType
    <3> HIDE DEF z
    <3>2. HandlerOK(z) /\ (Bound(z) => Consented) /\ ~IsReported(z)
      BY <2>1, <3>1 DEF HandlerOK, Bound, IsReported, IndInv, Carried
    <3>3. QED
      BY <2>1, <2>4, <3>1, <3>2, LocalStep
  <2>5. QED
    BY <2>1, <2>2, <2>3, <2>4
<1>9. ASSUME NEW h \in Handlers, Check(h) PROVE IndInv'
  <2> DEFINE type == IF handler[h].step = "diagnose" THEN "diagnostic" ELSE handler[h].cmd
             e == Event(type, Moderator, phase)
             x == [handler[h] EXCEPT !.step = "append", !.event = e]
  <2>1. /\ handler[h].step \in {"record", "diagnose"}
        /\ UNCHANGED <<log, timedOut, overdue, history>>
        /\ \/ handler' = [handler EXCEPT ![h] = Idle]
           \/ phase \in Gate(type) /\ handler' = [handler EXCEPT ![h] = x]
    BY <1>9, Zenon DEF Check, Refuse
  <2>2. CASE handler' = [handler EXCEPT ![h] = Idle]
    BY <2>1, <2>2, IdleHandler, LocalStep
  <2>3. CASE phase \in Gate(type) /\ handler' = [handler EXCEPT ![h] = x]
    <3>0. /\ handler[h] \in HandlerType /\ (Bound(handler[h]) => Consented)
          /\ handler[h].step = "diagnose" => handler[h].cmd = "grant"
      BY <1>0 DEF IndInv, Carried, HandlerOK
    <3>1. /\ type \in Types /\ type \notin Named /\ type # "resume"
          /\ type = "prepare" => handler[h].cmd = "prepare" /\ handler[h].step = "record"
          /\ type \in {"poll", "grant"} => Consented
          /\ type # "diagnostic" => type = handler[h].cmd /\ handler[h].step = "record"
          /\ type = "diagnostic" => handler[h].step = "diagnose"
      BY <2>1, <3>0 DEF HandlerType, Commands, Types, Named, Answers, Bound
    <3> HIDE DEF type
    <3>2. /\ e \in EventType /\ EventOK(e) /\ e.type = type /\ e.seen = phase
          /\ e.phase = "discussion" => phase = "discussion" \/ type \in {"poll", "grant"}
      BY <1>0, <2>3, <3>1, GatedEvent
    <3> HIDE DEF e
    <3>3. x \in HandlerType /\ x.event = e /\ x.step = "append" /\ x.cmd = handler[h].cmd
      BY <3>0, <3>2 DEF HandlerType
    <3> HIDE DEF x
    <3>4. HandlerOK(x) /\ (Bound(x) => Consented)
      BY <3>1, <3>2, <3>3 DEF HandlerOK, Bound, IndInv, Agreed
    <3>5. IsReported(x) => IsReported(handler[h])
      BY <2>1, <3>0, <3>1, <3>3 DEF IsReported
    <3>6. QED
      BY <2>1, <2>3, <3>3, <3>4, <3>5, LocalStep
  <2>4. QED
    BY <2>1, <2>2, <2>3
<1>10. CASE UNCHANGED vars
  <2>1. UNCHANGED <<log, timedOut, overdue, handler, history>>
    BY <1>10 DEF vars
  <2>2. Consented' = Consented /\ AllPresent' = AllPresent
    BY <2>1 DEF log, history, Consented, AllPresent
  <2>3. TypeOK'
    BY <2>1 DEF IndInv, TypeOK, log, history
  <2>4. QED
    BY <2>1, <2>2, <2>3 DEF IndInv, Answered, Agreed, Carried, Counted, Closed, log, history
<1>11. QED
  <2>1. \A t \in {"present", "absent"} \cup Answers : t \in Types /\ t \notin Commands /\ t # "resume"
    BY DEF Types, OfCreated, Answers, Commands
  <2>2. \A t \in {"request", "agenda", "block", "resume"} : t \in Types /\ t \notin Commands /\ t \notin Named
    BY DEF Types, OfCreated, Answers, Commands, Named
  <2>3. ASSUME NEW h \in Handlers, NEW m \in Members, NEW t \in {"present", "absent"} \cup Answers,
               Decide(h, t, m, phase)
        PROVE  IndInv'
    BY <1>0, <1>3, <2>1, <2>3
  <2>4. ASSUME NEW h \in Handlers, NEW t \in {"request", "agenda", "block"},
               Decide(h, t, Moderator, phase)
        PROVE  IndInv'
    BY <1>0, <1>3, <2>2, <2>4
  <2>5. ASSUME NEW h \in Handlers, NEW resumed \in blocks, Decide(h, "resume", Moderator, resumed)
        PROVE  IndInv'
    BY <1>0, <1>3, <2>2, <2>5
  <2>6. QED
    BY <1>1, <1>2, <1>4, <1>5, <1>6, <1>7, <1>8, <1>9, <1>10, <2>3, <2>4, <2>5 DEF Next

(* Nothing has been asked or answered at the start.                        *)
LEMMA InitInv == Init => IndInv
<1> SUFFICES ASSUME Init PROVE IndInv
  OBVIOUS
<1>1. TypeOK
  <2>1. agenda \in BOOLEAN /\ raced \in BOOLEAN /\ older \in BOOLEAN
    BY Zenon DEF Init
  <2>2. handler \in [Handlers -> HandlerType]
    BY IdleHandler DEF Init
  <2>3. QED
    BY <2>1, <2>2 DEF Init, TypeOK, Phases, Attendance, Preparation, HandlerType, EventType
<1>2. Answered /\ Agreed /\ Closed
  BY DEF Init, Answered, Agreed, Closed
<1>3. Carried /\ Counted
  BY IdleHandler DEF Init, Carried, Counted
<1>4. QED
  BY <1>1, <1>2, <1>3 DEF IndInv

LEMMA Inductive == Spec => []IndInv
  BY InitInv, Step, PTL DEF Spec

(* Every variable keeps its type, for any number of members, handlers and  *)
(* events, and an event in the hands of a handler (buildCouncilEvent) is   *)
(* one its gate let through.                                               *)
THEOREM TypeCorrect == Spec => []TypeOK
<1>1. IndInv => TypeOK
  BY DEF IndInv
<1>2. QED
  BY <1>1, Inductive, PTL

(* A discussion has the consent of all members: each was recorded as       *)
(* present and recorded member_ready (preparationEvidenceByMember); no     *)
(* timeout stands for an answer, whatever handlers append from old reads   *)
(* and whichever block ResumeSession goes by.                              *)
THEOREM DiscussionWithConsent == Spec => []DiscussionHasConsent
<1>1. IndInv => DiscussionHasConsent
  BY DEF IndInv, Agreed, Consented, DiscussionHasConsent
<1>2. QED
  BY <1>1, Inductive, PTL

(* A council that requested preparation can be polled, unless an append    *)
(* overtook a decision or a resume went by a block before the latest       *)
(* (ResumeSession).                                                        *)
THEOREM PreparationsArePollable == Spec => []PreparationIsPollable
<1>1. IndInv => PreparationIsPollable
  BY DEF IndInv, Closed, AllPresent, PreparationIsPollable
<1>2. QED
  BY <1>1, Inductive, PTL

-----------------------------------------------------------------------------
(* The response windows of a council that is past these gates: module      *)
(* ResponseWindow, over constants and variables of its own, for any number *)
(* of members, handlers, turns, polls, ticks and restarts                  *)
CONSTANTS Window, MaxTurn, MaxPolls, MaxRequests, MaxTime, MaxCrashes
VARIABLES now, standing, turn, window, deadline, raised, dropped, auto, request, sweep,
          onTime, received, crashes

W == INSTANCE ResponseWindow WITH phase <- standing

(* A request and a sweep under way are about a turn, and about a member.   *)
AboutTurns ==
    /\ \A h \in Handlers : request[h].step # "none" =>
           /\ request[h].turn \in W!Turns
           /\ request[h].kind # "poll" => request[h].from \in Members
    /\ sweep.step # "rest" => sweep.turn \in W!Turns
    /\ sweep.step = "write" => sweep.who \in Members

(* The window the sweeper set out from is over; another may have opened.   *)
Expired == sweep.step # "rest" =>
    /\ 0 < sweep.window /\ sweep.window <= window[sweep.turn]
    /\ sweep.window = window[sweep.turn] => deadline[sweep.turn] < now

(* The member it is about to drop has not answered in that window in time: *)
(* what is recorded after the sweeper's read is late.                      *)
SilentInWindow ==
    sweep.step = "write" /\ <<sweep.who, sweep.turn>> \in onTime =>
        window[sweep.turn] # sweep.window

WindowInv == W!TypeOK /\ AboutTurns /\ Expired /\ SilentInWindow

(* The constants of the windows                                            *)
Bounds == Window \in Nat /\ MaxTurn \in Nat

RequestType == [step : W!Steps, kind : {"poll", "raise", "drop"},
                from : Members \cup {Moderator}, turn : 0..MaxTurn, at : Nat]
SweepType == [step : {"rest", "list", "drop", "write"}, turn : 0..MaxTurn, window : Nat,
              missing : SUBSET Members, who : Members \cup {Moderator}]

(* Every step of the windows keeps the invariant.                          *)
LEMMA WindowStep ==
    ASSUME Bounds, WindowInv, [W!Next]_(W!vars)
    PROVE  WindowInv'
<1> USE DEF WindowInv, W!TypeOK, AboutTurns, Expired, SilentInWindow, W!log
<1>0. /\ now \in Nat /\ turn \in 0..MaxTurn /\ received \in Nat /\ crashes \in Nat
      /\ MaxTurn \in Nat /\ Window \in Nat /\ W!Turns = 1..MaxTurn
      /\ standing \in {"discussion", "other"}
      /\ window \in [W!Turns -> Nat] /\ deadline \in [W!Turns -> Nat]
      /\ raised \subseteq W!Slots /\ dropped \subseteq W!Slots /\ auto \subseteq W!Slots
      /\ onTime \subseteq raised \cup dropped
      /\ request \in [Handlers -> RequestType] /\ sweep \in SweepType
      /\ W!None \in RequestType /\ W!None.step = "none"
      /\ W!Rest \in SweepType /\ W!Rest.step = "rest"
  BY DEF Bounds, W!Turns, W!Rest, W!None, W!Steps, RequestType, SweepType
<1>1. CASE W!Tick
  BY <1>0, <1>1 DEF W!Tick
<1>2. CASE W!SweepStatus
  <2>1. /\ turn \in W!Turns /\ window[turn] > 0 /\ now > deadline[turn]
        /\ sweep' = [W!Rest EXCEPT !.step = "list", !.turn = turn, !.window = window[turn]]
        /\ UNCHANGED <<now, W!log, request, onTime, received, crashes>>
    BY <1>0, <1>2 DEF W!SweepStatus
  <2>2. /\ sweep' \in SweepType /\ sweep'.step = "list" /\ sweep'.turn = turn
        /\ sweep'.window = window[turn]
    BY <1>0, <2>1 DEF SweepType
  <2>3. (AboutTurns /\ Expired /\ SilentInWindow)'
    BY <1>0, <2>1, <2>2 DEF SweepType
  <2>4. W!TypeOK'
    BY <1>0, <2>1, <2>2 DEF SweepType
  <2>5. QED
    BY <2>3, <2>4
<1>3. CASE W!SweepList
  <2>1. /\ sweep.step = "list" /\ UNCHANGED <<now, W!log, request, onTime, received, crashes>>
        /\ \/ sweep' = W!Rest
           \/ sweep' = [sweep EXCEPT !.step = "drop", !.missing = W!Missing(sweep.turn)]
    BY <1>3 DEF W!SweepList
  <2>2. /\ sweep' \in SweepType
        /\ \/ sweep'.step = "rest"
           \/ sweep'.step = "drop" /\ sweep'.turn = sweep.turn /\ sweep'.window = sweep.window
    BY <1>0, <2>1 DEF SweepType, W!Missing
  <2>3. QED
    BY <1>0, <2>1, <2>2 DEF SweepType
<1>4. ASSUME NEW m \in Members, W!SweepCheck(m) PROVE WindowInv'
  <2>1. /\ sweep.step = "drop" /\ UNCHANGED <<now, W!log, request, onTime, received, crashes>>
        /\ \/ sweep' = W!Rest
           \/ /\ sweep' = [sweep EXCEPT !.step = "write", !.who = m]
              /\ <<m, sweep.turn>> \notin raised \cup dropped
    BY <1>4 DEF W!SweepCheck, W!Conflict
  <2>2. /\ sweep' \in SweepType
        /\ \/ sweep'.step = "rest"
           \/ /\ sweep'.step = "write" /\ sweep'.turn = sweep.turn
              /\ sweep'.window = sweep.window /\ sweep'.who = m
              /\ <<m, sweep.turn>> \notin onTime
    BY <1>0, <2>1 DEF SweepType
  <2>3. QED
    BY <1>0, <2>1, <2>2 DEF SweepType
<1>5. CASE W!SweepWrite
  <2>1. /\ sweep.step = "write" /\ sweep.turn \in W!Turns /\ sweep.who \in Members
        /\ UNCHANGED <<now, turn, window, deadline, raised, dropped, request, onTime,
                       received, crashes>>
        /\ auto' = auto \cup {<<sweep.who, sweep.turn>>} /\ standing' = "discussion"
        /\ \/ sweep' = W!Rest
           \/ sweep' = [sweep EXCEPT !.step = "drop", !.missing = sweep.missing \ {sweep.who}]
    BY <1>5 DEF W!SweepWrite
  <2>2. /\ sweep' \in SweepType
        /\ \/ sweep'.step = "rest"
           \/ sweep'.step = "drop" /\ sweep'.turn = sweep.turn /\ sweep'.window = sweep.window
    BY <1>0, <2>1 DEF SweepType
  <2>3. auto' \subseteq W!Slots
    BY <1>0, <2>1 DEF W!Slots
  <2>4. QED
    BY <1>0, <2>1, <2>2, <2>3 DEF SweepType
<1>6. CASE W!ChangePhase
  BY <1>0, <1>6 DEF W!ChangePhase
<1>7. CASE W!Crash
  <2>1. /\ request' = [k \in Handlers |-> W!None] /\ sweep' = W!Rest
        /\ crashes' = crashes + 1 /\ UNCHANGED <<now, W!log, onTime, received>>
    BY <1>7 DEF W!Crash
  <2>2. /\ request' \in [Handlers -> RequestType] /\ sweep' \in SweepType
        /\ sweep'.step = "rest" /\ \A k \in Handlers : request'[k].step = "none"
    BY <1>0, <2>1
  <2>3. crashes' = crashes + 1 /\ UNCHANGED <<now, W!log, onTime, received>>
    BY <2>1
  <2>4. QED
    BY <1>0, <2>2, <2>3 DEF RequestType, SweepType
<1>8. ASSUME NEW h \in Handlers, NEW r \in W!Inputs, W!Receive(h, r) PROVE WindowInv'
  <2> DEFINE x == [step |-> "received", kind |-> r.kind, from |-> r.from,
                   turn |-> r.turn, at |-> now]
  <2>1. /\ request' = [request EXCEPT ![h] = x]
        /\ received' = received + 1 /\ UNCHANGED <<now, W!log, sweep, onTime, crashes>>
    BY <1>8 DEF W!Receive
  <2>2. /\ x \in RequestType /\ x.turn \in W!Turns
        /\ x.kind # "poll" => x.from \in Members
    BY <1>0 DEF W!Inputs, RequestType, W!Steps
  <2> HIDE DEF x
  <2>3. /\ request' \in [Handlers -> RequestType]
        /\ \A k \in Handlers : request'[k].step # "none" =>
               /\ request'[k].turn \in W!Turns
               /\ request'[k].kind # "poll" => request'[k].from \in Members
    BY <1>0, <2>1, <2>2
  <2>4. received' = received + 1 /\ UNCHANGED <<now, W!log, sweep, onTime, crashes>>
    BY <2>1
  <2>5. QED
    BY <1>0, <2>3, <2>4 DEF RequestType
<1>9. ASSUME NEW h \in Handlers, W!Check(h) PROVE WindowInv'
  <2> DEFINE x == [request[h] EXCEPT !.step = "checked"]
  <2>1. /\ request[h].step = "received"
        /\ \/ request' = [request EXCEPT ![h] = x]
           \/ request' = [request EXCEPT ![h] = W!None]
        /\ UNCHANGED <<now, W!log, sweep, onTime, received, crashes>>
    BY <1>9 DEF W!Check
  <2>2. /\ x \in RequestType /\ x.turn = request[h].turn /\ x.kind = request[h].kind
        /\ x.from = request[h].from
    BY <1>0 DEF RequestType, W!Steps
  <2> HIDE DEF x
  <2>3. /\ request' \in [Handlers -> RequestType]
        /\ \A k \in Handlers : request'[k].step # "none" =>
               /\ request'[k].turn \in W!Turns
               /\ request'[k].kind # "poll" => request'[k].from \in Members
    BY <1>0, <2>1, <2>2
  <2>4. QED
    BY <1>0, <2>1, <2>3 DEF RequestType
<1>10. ASSUME NEW h \in Handlers, W!Write(h) PROVE WindowInv'
  <2> DEFINE r == request[h]
  <2>1. /\ r.step = "checked" /\ r.turn \in W!Turns /\ r.at \in Nat
        /\ request' = [request EXCEPT ![h] = W!None]
        /\ standing' = "discussion" /\ turn' = W!Later(r.turn)
        /\ UNCHANGED <<now, auto, sweep, received, crashes>>
    BY <1>0, <1>10 DEF W!Write, RequestType
  <2>2. request' \in [Handlers -> RequestType] /\ turn' \in 0..MaxTurn
    BY <1>0, <2>1 DEF W!Later
  <2>3. \A k \in Handlers : request'[k].step # "none" => request'[k] = request[k]
    BY <1>0, <2>1
  <2>4. CASE r.kind = "poll"
    <3>1. /\ window' = [window EXCEPT ![r.turn] = window[r.turn] + 1]
          /\ deadline' = [deadline EXCEPT ![r.turn] = r.at + Window]
          /\ UNCHANGED <<raised, dropped, onTime>>
      BY <1>10, <2>4 DEF W!Write
    <3>2. window' \in [W!Turns -> Nat] /\ deadline' \in [W!Turns -> Nat]
      <4>1. Window \in Nat /\ window[r.turn] \in Nat
        BY <1>0, <2>1
      <4> HIDE DEF r
      <4>2. r.at + Window \in Nat /\ window[r.turn] + 1 \in Nat
        BY <2>1, <4>1
      <4>3. QED
        BY <1>0, <2>1, <3>1, <4>2
    <3>3. sweep.step # "rest" =>
              /\ sweep.window <= window'[sweep.turn]
              /\ sweep.window = window'[sweep.turn] =>
                     window[sweep.turn] = sweep.window /\ deadline'[sweep.turn] = deadline[sweep.turn]
      BY <1>0, <2>1, <3>1 DEF SweepType
    <3> HIDE DEF r
    <3>4. QED
      BY <1>0, <2>1, <2>2, <2>3, <3>1, <3>2, <3>3 DEF RequestType, SweepType
  <2>5. CASE r.kind # "poll"
    <3> DEFINE slot == <<r.from, r.turn>>
    <3>1. /\ UNCHANGED <<window, deadline>>
          /\ raised' \in {raised, raised \cup {slot}} /\ dropped' \in {dropped, dropped \cup {slot}}
          /\ raised' \cup dropped' = raised \cup dropped \cup {slot}
          /\ \/ onTime' = onTime
             \/ /\ onTime' = onTime \cup {slot}
                /\ window[r.turn] = 0 \/ now <= deadline[r.turn]
      BY <1>0, <1>10, <2>5 DEF W!Write, RequestType
    <3>2. slot \in W!Slots
      BY <2>1, <2>5 DEF W!Slots
    <3>3. /\ raised' \subseteq W!Slots /\ dropped' \subseteq W!Slots
          /\ onTime' \subseteq raised' \cup dropped'
      BY <1>0, <3>1, <3>2
    <3>4. SilentInWindow'
      <4> SUFFICES ASSUME sweep.step = "write", <<sweep.who, sweep.turn>> \in onTime'
                   PROVE  window[sweep.turn] # sweep.window
        BY <2>1, <3>1
      <4>1. CASE <<sweep.who, sweep.turn>> \in onTime
        BY <4>1
      <4>2. CASE <<sweep.who, sweep.turn>> = slot /\ (window[r.turn] = 0 \/ now <= deadline[r.turn])
        <5>1. sweep.turn = r.turn
          BY <4>2
        <5> HIDE DEF r, slot
        <5>2. QED
          BY <1>0, <2>1, <4>2, <5>1 DEF SweepType
      <4>3. QED
        BY <3>1, <4>1, <4>2
    <3> HIDE DEF r, slot
    <3>5. QED
      BY <1>0, <2>1, <2>2, <2>3, <3>1, <3>3, <3>4 DEF RequestType, SweepType
  <2>6. QED
    BY <2>4, <2>5
<1>11. CASE UNCHANGED W!vars
  BY <1>11 DEF W!vars
<1>12. QED
  BY <1>1, <1>2, <1>3, <1>4, <1>5, <1>6, <1>7, <1>8, <1>9, <1>10, <1>11 DEF W!Next, W!Sweep

(* A member whose answer was recorded in time is dropped for being silent  *)
(* only if the turn was polled again since the sweeper found its window    *)
(* expired, for any number of handlers that read the log before the        *)
(* sweeper appends (RecordCouncilResponseWindowTimeout) and append after.  *)
THEOREM RespondersStay == Bounds => (W!Spec => W!RespondersAreNotDropped)
<1> SUFFICES ASSUME Bounds PROVE W!Spec => W!RespondersAreNotDropped
  OBVIOUS
<1>1. W!Init => WindowInv
  BY DEF Bounds, W!Init, W!Rest, W!None, W!Turns, W!Steps, WindowInv, W!TypeOK, AboutTurns,
     Expired, SilentInWindow
<1>2. WindowInv /\ [W!Next]_(W!vars) => WindowInv'
  BY WindowStep
<1> DEFINE Kept == \A m \in Members, t \in W!Turns :
               <<m, t>> \in (auto' \ auto) \cap onTime => window[t] # sweep.window
<1>3. WindowInv /\ [W!Next]_(W!vars) => [Kept]_(W!vars)
  <2> SUFFICES ASSUME WindowInv, W!Next PROVE Kept
    OBVIOUS
  <2>1. CASE W!SweepWrite
    BY <2>1 DEF W!SweepWrite, WindowInv, SilentInWindow
  <2>2. CASE auto' = auto
    BY <2>2
  <2>3. QED
    BY <2>1, <2>2 DEF W!Next, W!log, W!Tick, W!Sweep, W!SweepStatus, W!SweepList, W!SweepCheck,
       W!Crash, W!Receive, W!Check, W!Write, W!ChangePhase
<1>4. QED
  BY <1>1, <1>2, <1>3, PTL DEF W!Spec, W!RespondersAreNotDropped
=============================================================================
