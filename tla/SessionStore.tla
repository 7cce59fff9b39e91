---------------------------- MODULE SessionStore ----------------------------
(***************************************************************************)
(* One session directory and the daemon's request handlers.                *)
(*                                                                         *)
(* Each connection gets a goroutine of its own and no lock is held by the  *)
(* handlers of an existing session, so a request is the sequence           *)
(*    load session.yaml -> read channel.jsonl, gate and deduplicate ->     *)
(*    read channel.jsonl again, look for the event id -> write the line -> *)
(*    fsync -> create session.yaml.tmp -> rename it over session.yaml      *)
(* whose steps interleave with those of other handlers and with crashes.   *)
(* A kind of request stands for a handler: From, To and GateFirst are what *)
(* RecordDelegationEvent, CancelSession, BlockSession, ... differ in.      *)
(***************************************************************************)
EXTENDS Naturals, Sequences, FiniteSets

CONSTANTS Handlers,    \* concurrent request handlers (goroutines)
          Requests,    \* <<command id, kind>> pairs clients send and resend
          Kinds,       \* kinds of mutating request
          Phases, Terminal,
          From,        \* From[k]: phases in which kind k passes its gate
          To,          \* To[k]: phase of its event, or Keep
          Keep,        \* the event records the phase the log is in
          GateFirst,   \* kinds whose phase gate precedes the retry lookup
          Replayed,    \* kinds whose retry is rebuilt from the recorded prior phase
          Stamped,     \* kinds whose event carries the time of its request
          InitPhase,   \* phase recorded by session_created
          NoCmd,       \* command id of session_created
          MaxRequests, \* bound: requests received
          MaxCrashes,  \* bound: daemon or machine crashes
          MaxFaults,   \* bound: calls on the two files that fail
          ShortWrites  \* whether a write of a log line may fail half done

ASSUME StoreConstants ==
    /\ Requests \subseteq {r[1] : r \in Requests} \X Kinds
    /\ \A r \in Requests : r[1] # NoCmd
    /\ Terminal \subseteq Phases
    /\ InitPhase \in Phases \ Terminal
    /\ Keep \notin Phases
    /\ From \in [Kinds -> SUBSET Phases]
    /\ To \in [Kinds -> Phases \cup {Keep}]
    /\ GateFirst \subseteq Kinds /\ Replayed \subseteq Kinds \ GateFirst
    /\ Stamped \subseteq GateFirst /\ ShortWrites \in BOOLEAN
    /\ MaxRequests \in Nat /\ MaxCrashes \in Nat /\ MaxFaults \in Nat

VARIABLES
    log,      \* channel.jsonl, its complete lines
    torn,     \* channel.jsonl also holds a fragment or a spoiled line
    synced,   \* how many lines the last fsync made durable
    yaml,     \* the phase session.yaml records
    tmp,      \* session.yaml.tmp exists
    pc,       \* handler -> the step it takes next
    job,      \* handler -> the event it is building
    meta,     \* handler -> the phase in the metadata it loaded
    off,      \* handler -> the offset it will report
    replies,  \* answers the clients have received
    requests, \* requests received so far
    crashes, faults

vars == <<log, torn, synced, yaml, tmp, pc, job, meta, off, replies,
          requests, crashes, faults>>

Cmds == {r[1] : r \in Requests}
Events == [cmd : Cmds \cup {NoCmd}, kind : Kinds \cup {NoCmd}, phase : Phases]
First == [cmd |-> NoCmd, kind |-> NoCmd, phase |-> InitPhase]
Steps == {"idle", "read", "append", "write", "sync", "meta", "rename"}
Outcomes == {"ok", "dedup", "conflict", "rejected", "corrupt",
             "duplicate_event", "append_failed", "metadata_failed"}

-----------------------------------------------------------------------------
Lifecycle == INSTANCE SessionLifecycle
                 WITH events <- log, confirmed <- synced

(* latestPhase: the phase of the last event.                               *)
latestPhase == log[Len(log)].phase

(* projectedMetadataPhaseStatus: a terminal phase in the metadata stays.   *)
projectedMetadataPhase(current, p) == IF current \in Terminal THEN current ELSE p

(* The event id is made of the event type and the command id.              *)
SameEventID(e, f) == e.cmd = f.cmd /\ e.kind = f.kind

DuplicateEventID ==
    \E i, j \in 1..Len(log) : i # j /\ SameEventID(log[i], log[j])

(* ReadLogIndex refuses the whole file for one bad line or repeated id.    *)
LogCorrupt == torn \/ DuplicateEventID

Recorded(c) == {i \in 1..Len(log) : log[i].cmd = c}
FirstRecorded(c) == {i \in Recorded(c) : \A j \in Recorded(c) : i <= j}

(* Mutant of Reply: the cursor counts the new line twice.                  *)
ReplyOffByOne(h, o, n) == replies' = replies \cup
    {[cmd |-> job[h].cmd, kind |-> job[h].kind, out |-> o, off |-> n + 1]}

Reply(h, o, n) == replies' = replies \cup
    {[cmd |-> job[h].cmd, kind |-> job[h].kind, out |-> o, off |-> n]}

Finish(h, o, n) == Reply(h, o, n) /\ pc' = [pc EXCEPT ![h] = "idle"]

-----------------------------------------------------------------------------
Init ==
    /\ log = <<First>> /\ torn = FALSE /\ synced = 1
    /\ yaml = InitPhase /\ tmp = FALSE
    /\ pc = [h \in Handlers |-> "idle"]
    /\ job = [h \in Handlers |-> First]
    /\ meta = [h \in Handlers |-> InitPhase]
    /\ off = [h \in Handlers |-> 0]
    /\ replies = {}
    /\ requests = 0 /\ crashes = 0 /\ faults = 0

(* A connection is accepted and loadSession reads session.yaml.            *)
Load(h, r) ==
    /\ pc[h] = "idle" /\ requests < MaxRequests
    /\ requests' = requests + 1
    /\ job' = [job EXCEPT ![h] = [cmd |-> r[1], kind |-> r[2], phase |-> yaml]]
    /\ meta' = [meta EXCEPT ![h] = yaml]
    /\ pc' = [pc EXCEPT ![h] = "read"]
    /\ UNCHANGED <<log, torn, synced, yaml, tmp, off, replies, crashes, faults>>

(* A retry is recognised when the event it would build is the one recorded *)
(* under its command id.  replayExistingDelegationCommand rebuilds it from *)
(* the phase the recorded event was taken in; the other handlers from the  *)
(* phase the log is in now.  It passes over commands with artifacts: these *)
(* meet the gate first, and ingestArtifacts names the files after the time *)
(* of the request, so that a retry is never equivalent.                    *)
Equivalent(i, k) ==
    LET p == IF k \in Replayed /\ i > 1 THEN log[i - 1].phase ELSE latestPhase
    IN  /\ log[i].kind = k /\ k \notin Stamped
        /\ log[i].phase = Lifecycle!EventPhase(k, p)
        /\ k \in Replayed => p \in From[k]

Lookup(h) ==
    \E i \in FirstRecorded(job[h].cmd) :
        \/ Equivalent(i, job[h].kind) /\ Finish(h, "dedup", i - 1)
        \/ ~Equivalent(i, job[h].kind) /\ Finish(h, "conflict", 0)

(* Mutant of Known: the command-id lookup is skipped.                      *)
KnownNever(h) == FALSE

Rejected(h) == latestPhase \notin From[job[h].kind]
Known(h)    == Recorded(job[h].cmd) # {}

(* ReadLogIndex, then the handler's gate and the command-id lookup of      *)
(* appendIdempotentEvent, in the order the handler does them.              *)
Read(h) ==
    /\ pc[h] = "read"
    /\ \/ LogCorrupt /\ Finish(h, "corrupt", 0) /\ UNCHANGED job
       \/ /\ ~LogCorrupt /\ Rejected(h)
          /\ job[h].kind \in GateFirst \/ ~Known(h)
          /\ Finish(h, "rejected", 0) /\ UNCHANGED job
       \/ /\ ~LogCorrupt /\ Known(h)
          /\ job[h].kind \notin GateFirst \/ ~Rejected(h)
          /\ Lookup(h) /\ UNCHANGED job
       \/ /\ ~LogCorrupt /\ ~Known(h) /\ ~Rejected(h)
          /\ job' = [job EXCEPT ![h].phase =
                         Lifecycle!EventPhase(job[h].kind, latestPhase)]
          /\ pc' = [pc EXCEPT ![h] = "append"]
          /\ UNCHANGED replies
    /\ UNCHANGED <<log, torn, synced, yaml, tmp, meta, off, requests, crashes, faults>>

(* AppendEvent reads the log a second time: only the event id is checked.  *)
AppendRead(h) ==
    /\ pc[h] = "append"
    /\ \/ LogCorrupt /\ Finish(h, "corrupt", 0) /\ UNCHANGED off
       \/ /\ ~LogCorrupt
          /\ \E i \in 1..Len(log) : SameEventID(log[i], job[h])
          /\ Finish(h, "duplicate_event", 0) /\ UNCHANGED off
       \/ /\ ~LogCorrupt
          /\ \A i \in 1..Len(log) : ~SameEventID(log[i], job[h])
          /\ off' = [off EXCEPT ![h] = Len(log)]
          /\ pc' = [pc EXCEPT ![h] = "write"]
          /\ UNCHANGED replies
    /\ UNCHANGED <<log, torn, synced, yaml, tmp, job, meta, requests, crashes, faults>>

(* Mutants of Write: the file is opened with O_TRUNC; the fsync is skipped.*)
WriteTruncates(h) ==
    /\ pc[h] = "write"
    /\ log' = <<job[h]>>
    /\ pc' = [pc EXCEPT ![h] = "sync"]
    /\ UNCHANGED <<torn, synced, yaml, tmp, job, meta, off, replies, requests, crashes, faults>>

WriteUnsynced(h) ==
    /\ pc[h] = "write"
    /\ log' = IF torn THEN log ELSE Append(log, job[h])
    /\ pc' = [pc EXCEPT ![h] = "meta"]
    /\ UNCHANGED <<torn, synced, yaml, tmp, job, meta, off, replies, requests, crashes, faults>>

(* The O_APPEND write.  Behind a fragment the line is spoiled with it.     *)
Write(h) ==
    /\ pc[h] = "write"
    /\ log' = IF torn THEN log ELSE Append(log, job[h])
    /\ pc' = [pc EXCEPT ![h] = "sync"]
    /\ UNCHANGED <<torn, synced, yaml, tmp, job, meta, off, replies, requests, crashes, faults>>

(* A short write (no space left): part of the line stays in the file.      *)
WriteFails(h) ==
    /\ pc[h] = "write" /\ ShortWrites /\ faults < MaxFaults
    /\ faults' = faults + 1
    /\ torn' = TRUE
    /\ Finish(h, "append_failed", 0)
    /\ UNCHANGED <<log, synced, yaml, tmp, job, meta, off, requests, crashes>>

Sync(h) ==
    /\ pc[h] = "sync"
    /\ synced' = Len(log)
    /\ pc' = [pc EXCEPT ![h] = "meta"]
    /\ UNCHANGED <<log, torn, yaml, tmp, job, meta, off, replies, requests, crashes, faults>>

(* Chmod, Sync, Close or the sync of the directory fails: the request is   *)
(* answered with an error and its line stays, durable or not.              *)
SyncFails(h) ==
    /\ pc[h] = "sync" /\ faults < MaxFaults
    /\ faults' = faults + 1
    /\ synced' \in {synced, Len(log)}
    /\ Finish(h, "append_failed", 0)
    /\ UNCHANGED <<log, torn, yaml, tmp, job, meta, off, requests, crashes>>

(* Mutant of CreateTmp: wait until the temporary file is gone.             *)
CreateTmpWaits(h) ==
    /\ pc[h] = "meta" /\ ~tmp
    /\ tmp' = TRUE
    /\ pc' = [pc EXCEPT ![h] = "rename"]
    /\ UNCHANGED <<log, torn, synced, yaml, job, meta, off, replies, requests, crashes, faults>>

(* WriteSessionYAMLAtomic opens session.yaml.tmp with O_EXCL: it fails when *)
(* another handler, or a crash, left the file there.                       *)
CreateTmp(h) ==
    /\ pc[h] = "meta"
    /\ \/ tmp /\ Finish(h, "metadata_failed", 0) /\ UNCHANGED tmp
       \/ /\ ~tmp /\ tmp' = TRUE
          /\ pc' = [pc EXCEPT ![h] = "rename"]
          /\ UNCHANGED replies
    /\ UNCHANGED <<log, torn, synced, yaml, job, meta, off, requests, crashes, faults>>

Rename(h) ==
    /\ pc[h] = "rename"
    /\ yaml' = projectedMetadataPhase(meta[h], job[h].phase)
    /\ tmp' = FALSE
    /\ Finish(h, "ok", off[h])
    /\ UNCHANGED <<log, torn, synced, job, meta, off, requests, crashes, faults>>

(* Encoding, syncing, closing or renaming session.yaml.tmp fails, and the  *)
(* file stays behind; or the directory cannot be synced after the rename.  *)
MetaFails(h) ==
    /\ pc[h] = "rename" /\ faults < MaxFaults
    /\ faults' = faults + 1
    /\ \/ UNCHANGED <<yaml, tmp>>
       \/ tmp' = FALSE /\ yaml' = projectedMetadataPhase(meta[h], job[h].phase)
    /\ Finish(h, "metadata_failed", 0)
    /\ UNCHANGED <<log, torn, synced, job, meta, off, requests, crashes>>

(* A crash and restart: handlers are gone, lines not yet synced may be     *)
(* lost or cut, and nothing is repaired or cleaned when the daemon starts. *)
Crash ==
    /\ crashes < MaxCrashes
    /\ crashes' = crashes + 1
    /\ \E n \in synced..Len(log), cut \in BOOLEAN :
          /\ log' = SubSeq(log, 1, n)
          /\ torn' = (torn \/ (cut /\ n < Len(log)))
    /\ tmp' \in {tmp, FALSE}
    /\ pc' = [h \in Handlers |-> "idle"]
    /\ UNCHANGED <<synced, yaml, job, meta, off, replies, requests, faults>>

Step(h) == Read(h) \/ AppendRead(h) \/ Write(h) \/ Sync(h) \/ CreateTmp(h) \/ Rename(h)

Next ==
    \/ \E h \in Handlers :
          \/ \E r \in Requests : Load(h, r)
          \/ Step(h) \/ WriteFails(h) \/ SyncFails(h) \/ MetaFails(h)
    \/ Crash

Spec == Init /\ [][Next]_vars

(* A handler goroutine that can take its next step eventually does.        *)
Fairness == \A h \in Handlers : WF_vars(Step(h))
FairSpec == Spec /\ Fairness

-----------------------------------------------------------------------------
TypeOK ==
    /\ log \in Seq(Events) /\ torn \in BOOLEAN
    /\ synced \in 1..Len(log)
    /\ yaml \in Phases /\ tmp \in BOOLEAN
    /\ pc \in [Handlers -> Steps]
    /\ job \in [Handlers -> Events]
    /\ meta \in [Handlers -> Phases]
    /\ off \in [Handlers -> Nat]
    /\ replies \subseteq [cmd : Cmds \cup {NoCmd}, kind : Kinds \cup {NoCmd},
                          out : Outcomes, off : Nat]
    /\ requests \in Nat /\ crashes \in Nat /\ faults \in Nat

InLog(r) == \E i \in 1..synced : log[i].cmd = r.cmd /\ log[i].kind = r.kind

(* AppendEvent answers only after file.Sync: an event whose append was     *)
(* answered, with success or with a failed metadata write, is in the part  *)
(* of channel.jsonl that survives every later crash.                       *)
AckedIsDurable ==
    \A r \in replies : r.out \in {"ok", "metadata_failed"} => InLog(r)

(* session.yaml is written after the line it summarises is durable: it     *)
(* never shows a phase no durable event of channel.jsonl has recorded.     *)
YamlFollowsLog == \E i \in 1..synced : log[i].phase = yaml

(* No cursor passes its event.  The lookup of a retry reports the line of  *)
(* the event.  AppendEvent reports the length the log had when it read it  *)
(* last: the event is that line or, if other handlers wrote in between, a  *)
(* later one, and it is durable.                                           *)
Names(i, r) == log[i].cmd = r.cmd /\ log[i].kind = r.kind
CursorNamesEvent ==
    [][\A r \in replies' \ replies :
          /\ r.out = "dedup" => r.off + 1 \in 1..Len(log) /\ Names(r.off + 1, r)
          /\ r.out = "ok" => \E i \in (r.off + 1)..synced : Names(i, r)]_vars

(* commandEquivalent and the event-id check make a retry harmless: one     *)
(* command never leaves two lines, which ReadLogIndex would refuse.        *)
RetryLeavesLogReadable == ~DuplicateEventID

(* A request that was answered is not refused when it is sent again, with  *)
(* two exceptions: a handler that looks at the phase before it looks the   *)
(* command id up may refuse it for the phase (or, with artifacts, take it  *)
(* for another command), and an event that records the phase it finds, as  *)
(* stream.ack does, is compared in the phase of now.                       *)
Refused(r) == r.out \in {"rejected", "conflict"}
AnsweredBefore(r) == \E q \in replies :
    q.out \in {"ok", "metadata_failed"} /\ q.cmd = r.cmd /\ q.kind = r.kind
PhaseMoved(r) ==
    /\ r.out = "conflict" /\ r.kind \notin Replayed /\ To[r.kind] = Keep
    /\ \E i \in 1..Len(log) : Names(i, r) /\ log[i].phase # latestPhase
RetryFirstReturnsRecorded ==
    [][\A r \in replies' \ replies :
          Refused(r) /\ AnsweredBefore(r) => r.kind \in GateFirst \/ PhaseMoved(r)]_vars

(* channel.jsonl is append-only: no step, a crash included, removes or     *)
(* changes a line that was synced.                                         *)
DurableLinesStay ==
    [][/\ synced' >= synced
       /\ \A i \in 1..synced : i <= Len(log') /\ log'[i] = log[i]]_vars

(* With one handler at a time the store is the lifecycle it promises.      *)
ImplementsLifecycle == Lifecycle!Spec

(* No handler waits for another: every request comes to an end.            *)
RequestsEnd == \A h \in Handlers : pc[h] # "idle" ~> pc[h] = "idle"
=============================================================================
