------------------------------- MODULE Stream -------------------------------
(***************************************************************************)
(* Subscribers of a session's log.  A member runtime loads its cursor from *)
(* a file, asks the daemon for a bounded follow (which itself appends a    *)
(* heartbeat), and for each frame handles the event if its policy says so, *)
(* acknowledges the cursor (which appends another event) and saves the     *)
(* cursor.  Nothing stops two runtimes of the same member.  Appends are    *)
(* written first and synced later; cursor files are truncated first,       *)
(* written later and never synced.                                         *)
(***************************************************************************)
EXTENDS Naturals, Sequences

CONSTANTS Members,
          Moderator,   \* sends work too, and subscribes to nothing
          Runtimes,    \* member runtime processes
          Owner,       \* Owner[r]: the member that runtime r serves
          MaxWork,     \* bound: work events sent
          MaxEvents,   \* bound: events ever written
          MaxFaults    \* bound: failed runs and power losses

ASSUME StreamConstants ==
    /\ Owner \in [Runtimes -> Members]
    /\ Moderator \notin Members
    /\ MaxWork \in Nat /\ MaxEvents \in Nat /\ MaxFaults \in Nat

VARIABLES
    log,       \* channel.jsonl
    synced,    \* number of lines that survive a power loss
    ids,       \* event ids given out
    cursor,    \* member -> content of its cursor file
    run,       \* runtime -> where RunOnce is
    handled,   \* member -> ids of the events its handlers finished (history)
    broken,    \* a runtime refused its frames: gap, or replay after live
    work, faults

vars == <<log, synced, ids, cursor, run, handled, broken, work, faults>>

Cursors == [offset : Nat, id : Nat]   \* offsets count from 1
NoCursor == [offset |-> 0, id |-> 0]  \* missing or empty file
Mixed == [offset |-> 0, id |-> 1]     \* two cursors in one file: no cursorPattern
Frames == [cursor : Cursors, replay : BOOLEAN]
Events == [id : Nat, type : {"work", "heartbeat", "ack"},
           from : Members \cup {Moderator, "atn-controld"},
           member : Members \cup {Moderator}, cursor : Cursors]
Steps == {"idle", "heartbeat", "replay", "follow", "handle",
          "ack", "ackSync", "truncate", "save"}
Runs == [step : Steps, since : Cursors, start : Nat, frames : Seq(Frames),
         live : BOOLEAN]   \* live: seenLive of RunOnce
Idle == [step |-> "idle", since |-> NoCursor, start |-> 0, frames |-> <<>>,
         live |-> FALSE]

-----------------------------------------------------------------------------
(* cursorFor                                                               *)
CursorFor(i) == [offset |-> i, id |-> log[i].id]

(* The cursor check of replayStartOffset and AcknowledgeCursor.            *)
Matches(c) == c.offset \in 1..Len(log) /\ log[c.offset].id = c.id

(* framesFrom: the frames of the events after the first start              *)
framesFrom(start, replay) ==
    [i \in 1..(Len(log) - start) |->
        [cursor |-> CursorFor(start + i), replay |-> replay]]

(* Runtime.shouldAct with a policy for work sent by others                 *)
shouldAct(m, event) == event.type = "work" /\ event.from # m

(* The cursor StreamStatusFromLogAt shows for a member: its latest ack     *)
StatusCursor(m) ==
    LET acks == {i \in 1..Len(log) : log[i].type = "ack" /\ log[i].member = m}
    IN  IF acks = {} THEN NoCursor
        ELSE log[CHOOSE i \in acks : \A j \in acks : j <= i].cursor

Init ==
    /\ log = <<>> /\ synced = 0 /\ ids = 0
    /\ cursor = [m \in Members |-> NoCursor]
    /\ run = [r \in Runtimes |-> Idle]
    /\ handled = [m \in Members |-> {}]
    /\ broken = FALSE /\ work = 0 /\ faults = 0

(* Bound: the disk is full, and AppendEvent returns an error.              *)
Full == ids = MaxEvents

(* AppendEvent up to the write of the line                                 *)
Append1(type, from, member, c) ==
    /\ ~Full
    /\ ids' = ids + 1
    /\ log' = Append(log, [id |-> ids + 1, type |-> type, from |-> from,
                           member |-> member, cursor |-> c])

(* The fsync of AppendEvent: it covers the whole file.                     *)
SyncLog == synced' = Len(log)

Goto(r, step) == run' = [run EXCEPT ![r].step = step]

(* Another handler writes an event members may act on, and syncs it later. *)
Send(from) ==
    /\ work < MaxWork
    /\ Append1("work", from, from, NoCursor)
    /\ work' = work + 1
    /\ UNCHANGED <<synced, cursor, run, handled, broken, faults>>

SendSyncs ==
    /\ synced < Len(log)
    /\ SyncLog
    /\ UNCHANGED <<log, ids, cursor, run, handled, broken, work, faults>>

(* RunOnce: CursorStore.Load and the replay request.  Load refuses a file  *)
(* that is no cursor, and nothing is asked of the daemon.                  *)
Load(r) ==
    /\ run[r].step = "idle" /\ ~Full /\ cursor[Owner[r]] # Mixed
    /\ run' = [run EXCEPT ![r] = [Idle EXCEPT !.step = "heartbeat",
                                              !.since = cursor[Owner[r]]]]
    /\ UNCHANGED <<log, synced, ids, cursor, handled, broken, work, faults>>

(* recordStreamSubscriberHeartbeat, with its fsync: an unsynced line is    *)
(* seen in Send and in Ack                                                 *)
Heartbeat(r) ==
    /\ run[r].step = "heartbeat"
    /\ IF Full
       THEN run' = [run EXCEPT ![r] = Idle] /\ UNCHANGED <<log, ids, synced>>
       ELSE /\ Append1("heartbeat", Owner[r], Owner[r], NoCursor)
            /\ synced' = Len(log) + 1
            /\ Goto(r, "replay")
    /\ UNCHANGED <<cursor, handled, broken, work, faults>>

(* ReplayStreamWithAfterReplay: the first read of the log.  A cursor that  *)
(* does not match ends the run.                                            *)
Replay(r) ==
    /\ run[r].step = "replay"
    /\ run' = [run EXCEPT ![r] =
           IF @.since # NoCursor /\ ~Matches(@.since) THEN Idle
           ELSE [@ EXCEPT !.step = "follow", !.start = Len(log),
                          !.frames = framesFrom(run[r].since.offset, TRUE)]]
    /\ UNCHANGED <<log, synced, ids, cursor, handled, broken, work, faults>>

(* Mutant of Follow: live frames start at the tip of the later read.       *)
FollowFromTip(r) ==
    /\ run[r].step = "follow"
    /\ run' = [run EXCEPT ![r].step = "handle",
                          ![r].frames = @ \o framesFrom(Len(log) - 1, FALSE)]
    /\ UNCHANGED <<log, synced, ids, cursor, handled, broken, work, faults>>

(* Mutant of Follow: the poll loop has no deadline.                        *)
FollowForever(r) ==
    /\ run[r].step = "follow" /\ Len(log) > run[r].start
    /\ run' = [run EXCEPT ![r].step = "handle",
                          ![r].frames = @ \o framesFrom(run[r].start, FALSE)]
    /\ UNCHANGED <<log, synced, ids, cursor, handled, broken, work, faults>>

(* followFrames: the read that finds new events, or the one at the         *)
(* deadline, which may find none.  The answer is complete.                 *)
Follow(r) ==
    /\ run[r].step = "follow"
    /\ run' = [run EXCEPT ![r].step = "handle",
                          ![r].frames = @ \o framesFrom(run[r].start, FALSE)]
    /\ UNCHANGED <<log, synced, ids, cursor, handled, broken, work, faults>>

(* The order checks of RunOnce on the next frame: previousOffset is the    *)
(* offset of since, which moves along with the frames.                     *)
InOrder(r) ==
    LET f == Head(run[r].frames)
    IN  f.cursor.offset = run[r].since.offset + 1 /\ ~(run[r].live /\ f.replay)

(* Mutant of Handle: the policy's decision is taken for the previous event *)
(* of the log.                                                             *)
HandlePrevious(r) ==
    /\ run[r].step = "handle" /\ run[r].frames # <<>>
    /\ LET m == Owner[r]
           f == Head(run[r].frames)
       IN  IF ~InOrder(r)
           THEN /\ broken' = TRUE /\ run' = [run EXCEPT ![r] = Idle] /\ UNCHANGED handled
           ELSE /\ handled' = IF f.cursor.offset > 1 /\ shouldAct(m, log[f.cursor.offset - 1])
                              THEN [handled EXCEPT ![m] = @ \cup {f.cursor.id}]
                              ELSE handled
                /\ Goto(r, "ack") /\ UNCHANGED broken
    /\ UNCHANGED <<log, synced, ids, cursor, work, faults>>

(* One frame of RunOnce's loop: the checks, and the handler if the policy  *)
(* says so.  ErrDurableFailureRecorded counts as handled; any other error  *)
(* is RunFails.                                                            *)
Handle(r) ==
    /\ run[r].step = "handle" /\ run[r].frames # <<>>
    /\ LET m == Owner[r]
           f == Head(run[r].frames)
       IN  IF ~InOrder(r)
           THEN /\ broken' = TRUE /\ run' = [run EXCEPT ![r] = Idle] /\ UNCHANGED handled
           ELSE /\ handled' = IF shouldAct(m, log[f.cursor.offset])
                              THEN [handled EXCEPT ![m] = @ \cup {f.cursor.id}]
                              ELSE handled
                /\ Goto(r, "ack") /\ UNCHANGED broken
    /\ UNCHANGED <<log, synced, ids, cursor, work, faults>>

(* Mutant of Ack: the answer does not wait for the fsync.                  *)
AckUnsynced(r) ==
    /\ run[r].step = "ack"
    /\ Append1("ack", "atn-controld", Owner[r], Head(run[r].frames).cursor)
    /\ Goto(r, "truncate")
    /\ UNCHANGED <<synced, cursor, handled, broken, work, faults>>

(* AcknowledgeCursor: another event in the log, in the daemon's name       *)
Ack(r) ==
    /\ run[r].step = "ack"
    /\ IF Full \/ ~Matches(Head(run[r].frames).cursor)
       THEN run' = [run EXCEPT ![r] = Idle] /\ UNCHANGED <<log, ids>>
       ELSE /\ Append1("ack", "atn-controld", Owner[r], Head(run[r].frames).cursor)
            /\ Goto(r, "ackSync")
    /\ UNCHANGED <<synced, cursor, handled, broken, work, faults>>

AckSync(r) ==
    /\ run[r].step = "ackSync"
    /\ SyncLog
    /\ Goto(r, "truncate")
    /\ UNCHANGED <<log, ids, cursor, handled, broken, work, faults>>

(* FileCursorStore.Save: os.WriteFile truncates the file ...               *)
Truncate(r) ==
    /\ run[r].step = "truncate"
    /\ cursor' = [cursor EXCEPT ![Owner[r]] = NoCursor]
    /\ Goto(r, "save")
    /\ UNCHANGED <<log, synced, ids, handled, broken, work, faults>>

(* What the file may hold once c is written at its start: the end of what  *)
(* another runtime wrote since the file was truncated stays behind c when  *)
(* it was longer.                                                          *)
Written(m, c) == {c} \cup (IF cursor[m] \in {NoCursor, c} THEN {} ELSE {Mixed})

(* ... and writes it; the loop goes on with the next frame.                *)
Save(r) ==
    /\ run[r].step = "save"
    /\ LET c == Head(run[r].frames).cursor
       IN  /\ \E content \in Written(Owner[r], c) :
                 cursor' = [cursor EXCEPT ![Owner[r]] = content]
           /\ run' = [run EXCEPT ![r].step = "handle", ![r].since = c,
                                 ![r].frames = Tail(@),
                                 ![r].live = @ \/ ~Head(run[r].frames).replay]
    /\ UNCHANGED <<log, synced, ids, handled, broken, work, faults>>

(* RunOnce returns after its last frame.                                   *)
Done(r) ==
    /\ run[r].step = "handle" /\ run[r].frames = <<>>
    /\ run' = [run EXCEPT ![r] = Idle]
    /\ UNCHANGED <<log, synced, ids, cursor, handled, broken, work, faults>>

(* A request or the handler fails, or the runtime dies, anywhere.          *)
RunFails(r) ==
    /\ run[r].step # "idle" /\ faults < MaxFaults
    /\ run' = [run EXCEPT ![r] = Idle] /\ faults' = faults + 1
    /\ UNCHANGED <<log, synced, ids, cursor, handled, broken, work>>

(* The machine goes down: lines that were not synced may be lost, and so   *)
(* may the content of a cursor file.                                       *)
PowerLoss ==
    /\ faults < MaxFaults /\ faults' = faults + 1
    /\ \E n \in synced..Len(log) : log' = SubSeq(log, 1, n) /\ synced' = n
    /\ \E lost \in SUBSET Members :
           cursor' = [m \in Members |-> IF m \in lost THEN NoCursor ELSE cursor[m]]
    /\ run' = [r \in Runtimes |-> Idle]
    /\ UNCHANGED <<ids, handled, broken, work>>

RunOnce(r) ==
    \/ Load(r) \/ Heartbeat(r) \/ Replay(r) \/ Follow(r)
    \/ Handle(r) \/ Ack(r) \/ AckSync(r) \/ Truncate(r) \/ Save(r) \/ Done(r)

Next ==
    \/ \E from \in Members \cup {Moderator} : Send(from)
    \/ SendSyncs \/ PowerLoss
    \/ \E r \in Runtimes : RunOnce(r) \/ RunFails(r)

Spec == Init /\ [][Next]_vars

(* A run under way goes on: the daemon answers within the follow timeout   *)
(* and handlers return.  Nothing obliges anyone to start a run.            *)
FairSpec ==
    Spec /\ \A r \in Runtimes : WF_vars(run[r].step # "idle" /\ RunOnce(r))

-----------------------------------------------------------------------------
(* Every variable has its type; the synced lines are lines of the log.     *)
TypeOK ==
    /\ log \in Seq(Events) /\ synced \in 0..Len(log) /\ ids \in Nat
    /\ cursor \in [Members -> Cursors]
    /\ run \in [Runtimes -> Runs]
    /\ handled \in [Members -> SUBSET Nat]
    /\ broken \in BOOLEAN /\ work \in Nat /\ faults \in Nat

(* A member resumes behind its saved cursor, and stream.status shows its   *)
(* acknowledged one, so nothing it should act on may lie before either of  *)
(* them unhandled: no event is skipped, whatever fails between handling,   *)
(* acknowledging and saving, and even if two runtimes of the member        *)
(* overwrite each other's cursor.                                          *)
SavedIsHandled ==
    \A m \in Members : \A c \in {cursor[m], StatusCursor(m)} : \A i \in 1..c.offset :
        i <= Len(log) /\ shouldAct(m, log[i]) => log[i].id \in handled[m]

(* A cursor file the daemon, or Load, would refuse: the member could never *)
(* read its stream again.                                                  *)
Refused(m) == cursor[m] # NoCursor /\ ~Matches(cursor[m])

(* A cursor file goes bad in one way only: a runtime writes over what      *)
(* another runtime of the member wrote after the file was truncated.       *)
(* Neither a power loss, which may take back an event that a frame showed, *)
(* nor a run that stops between truncating and writing, nor a lone runtime *)
(* ever leaves a cursor that names no event of the log.                    *)
SavedIsKnown ==
    [][\A m \in Members : Refused(m)' /\ ~Refused(m) =>
          \E r \in Runtimes : /\ Owner[r] = m /\ run[r].step = "save"
                               /\ cursor[m] # NoCursor]_vars

(* The checks of RunOnce for gaps and for replay frames after live ones    *)
(* never fire on what the daemon sends.                                    *)
FramesInOrder == ~broken

(* A run ends although every frame it acknowledges adds an event to the    *)
(* log it follows.                                                         *)
RunsEnd == \A r \in Runtimes : run[r].step # "idle" ~> run[r].step = "idle"
=============================================================================
