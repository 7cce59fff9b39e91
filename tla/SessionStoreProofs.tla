------------------------- MODULE SessionStoreProofs -------------------------
(***************************************************************************)
(* What survives any interleaving of handlers, retries and crashes, for    *)
(* every number of handlers, every request set and every bound; and that   *)
(* a daemon serving one request at a time implements SessionLifecycle.     *)
(***************************************************************************)
EXTENDS SessionStore, TLAPS, SequenceTheorems

(* No short write happens while another handler is past its second read of *)
(* the log: either writes are never short, or requests are served one at a *)
(* time.                                                                   *)
SafeWrites == ~ShortWrites \/ \A g, h \in Handlers : g = h

(* A spoiled log stops every handler at its first read.                    *)
TornStops == torn => \A h \in Handlers : pc[h] \in {"idle", "read"}

(* A handler past its write finds its event in the log, past its fsync in  *)
(* the durable part, at the offset it noted or, if other handlers wrote    *)
(* since, behind it.                                                       *)
WrittenThenSynced == \A h \in Handlers :
    /\ pc[h] = "write" => off[h] <= Len(log)
    /\ pc[h] = "sync" => \E i \in (off[h] + 1)..Len(log) : log[i] = job[h]
    /\ pc[h] \in {"meta", "rename"} => \E i \in (off[h] + 1)..synced : log[i] = job[h]

(* The phase a handler loaded from session.yaml is that of a durable event *)
LoadedFromLog == \A h \in Handlers :
    pc[h] # "idle" => \E i \in 1..synced : log[i].phase = meta[h]

JobsAreRequests == \A h \in Handlers :
    pc[h] # "idle" => <<job[h].cmd, job[h].kind>> \in Requests

IndInv ==
    /\ TypeOK /\ JobsAreRequests /\ TornStops /\ WrittenThenSynced
    /\ LoadedFromLog /\ AckedIsDurable /\ YamlFollowsLog

(* How a step moves channel.jsonl: the durable lines are all still there.  *)
Keeps == /\ log' \in Seq(Events) /\ synced' \in 1..Len(log')
         /\ synced <= synced' /\ \A i \in 1..synced : log'[i] = log[i]

-----------------------------------------------------------------------------
(* The phase an event records is a phase.                                  *)
LEMMA EventPhaseType ==
    ASSUME NEW k \in Kinds, NEW p \in Phases
    PROVE  Lifecycle!EventPhase(k, p) \in Phases
  BY StoreConstants DEF Lifecycle!EventPhase

(* A request is a command id and a kind.                                   *)
LEMMA RequestType ==
    ASSUME NEW r \in Requests
    PROVE  r[1] \in Cmds /\ r[2] \in Kinds /\ r = <<r[1], r[2]>>
  BY StoreConstants DEF Cmds

(* The last event of the log records a phase.                              *)
LEMMA LatestPhaseType == TypeOK => latestPhase \in Phases
<1> SUFFICES ASSUME TypeOK PROVE latestPhase \in Phases
  OBVIOUS
<1>1. log \in Seq(Events) /\ Len(log) \in 1..Len(log)
  BY LenProperties DEF TypeOK
<1>2. log[Len(log)] \in Events
  BY <1>1, ElementOfSeq
<1>3. QED
  BY <1>2 DEF latestPhase, Events

(* Every step keeps the durable part of channel.jsonl.                     *)
LEMMA KeepsStep == TypeOK /\ [Next]_vars => Keeps
<1> SUFFICES ASSUME TypeOK, [Next]_vars PROVE Keeps
  OBVIOUS
<1> USE DEF TypeOK, Keeps
<1>0. Len(log) \in Nat /\ synced \in Nat /\ 1 <= synced /\ synced <= Len(log)
  BY LenProperties
<1>1. ASSUME log' = log, synced' = synced PROVE Keeps
  BY <1>1
<1>2. ASSUME NEW h \in Handlers, Write(h) PROVE Keeps
  <2>1. CASE torn
    BY <1>2, <2>1 DEF Write
  <2>2. CASE ~torn
    <3>1. log' = Append(log, job[h]) /\ synced' = synced /\ job[h] \in Events
      BY <1>2, <2>2 DEF Write
    <3>2. /\ log' \in Seq(Events) /\ Len(log') = Len(log) + 1
          /\ \A i \in 1..Len(log) : log'[i] = log[i]
      BY <3>1, AppendProperties
    <3>3. QED
      BY <1>0, <3>1, <3>2
  <2>3. QED
    BY <2>1, <2>2
<1>3. ASSUME NEW h \in Handlers, Sync(h) \/ SyncFails(h) PROVE Keeps
  BY <1>0, <1>3 DEF Sync, SyncFails
<1>4. CASE Crash
  <2>1. PICK n \in synced..Len(log) : log' = SubSeq(log, 1, n)
    BY <1>4 DEF Crash
  <2>2. \A i \in 1..n : log[i] \in Events
    BY <1>0, LenProperties
  <2>3. /\ log' \in Seq(Events) /\ Len(log') = n
        /\ \A i \in 1..n : log'[i] = log[i]
    BY <1>0, <2>1, <2>2, SubSeqProperties
  <2>4. QED
    BY <1>0, <1>4, <2>3 DEF Crash
<1>5. ASSUME NEW h \in Handlers, NEW r \in Requests, Load(h, r) PROVE Keeps
  BY <1>1, <1>5 DEF Load
<1>6. ASSUME NEW h \in Handlers, Read(h) PROVE Keeps
  BY <1>1, <1>6 DEF Read
<1>7. ASSUME NEW h \in Handlers, AppendRead(h) PROVE Keeps
  BY <1>1, <1>7 DEF AppendRead
<1>8. ASSUME NEW h \in Handlers, CreateTmp(h) \/ Rename(h) \/ WriteFails(h) \/ MetaFails(h)
      PROVE  Keeps
  BY <1>1, <1>8 DEF CreateTmp, Rename, WriteFails, MetaFails
<1>9. CASE UNCHANGED vars
  BY <1>1, <1>9 DEF vars
<1>10. QED
  BY <1>2, <1>3, <1>4, <1>5, <1>6, <1>7, <1>8, <1>9 DEF Next, Step

(* The initial state satisfies the invariant.                              *)
LEMMA InitInv == Init => IndInv
<1> SUFFICES ASSUME Init PROVE IndInv
  OBVIOUS
<1>1. First \in Events /\ First.phase = InitPhase
  BY StoreConstants DEF First, Events
<1>2. log \in Seq(Events) /\ Len(log) = 1 /\ log[1] = First
  BY <1>1 DEF Init
<1>3. TypeOK
  <2>1. synced \in 1..Len(log) /\ yaml \in Phases
    BY <1>2, StoreConstants DEF Init
  <2>2. job \in [Handlers -> Events] /\ pc \in [Handlers -> Steps]
    BY <1>1 DEF Init, Steps
  <2>3. meta \in [Handlers -> Phases] /\ off \in [Handlers -> Nat]
    BY StoreConstants DEF Init
  <2>4. QED
    BY <1>2, <2>1, <2>2, <2>3 DEF Init, TypeOK
<1>4. JobsAreRequests /\ TornStops /\ WrittenThenSynced /\ LoadedFromLog /\ AckedIsDurable
  BY DEF Init, JobsAreRequests, TornStops, WrittenThenSynced, LoadedFromLog, AckedIsDurable
<1>5. YamlFollowsLog
  BY <1>1, <1>2 DEF Init, YamlFollowsLog
<1>6. QED
  BY <1>3, <1>4, <1>5 DEF IndInv

(* Every step preserves the type invariant; that a handler's job is one of *)
(* the requests is needed for the phase its event will record.             *)
LEMMA TypeStep == TypeOK /\ JobsAreRequests /\ [Next]_vars => TypeOK' /\ JobsAreRequests'
<1> SUFFICES ASSUME TypeOK, JobsAreRequests, [Next]_vars
             PROVE  TypeOK' /\ JobsAreRequests'
  OBVIOUS
<1>0. log' \in Seq(Events) /\ synced' \in 1..Len(log')
  BY KeepsStep DEF Keeps
<1>a. Len(log) \in Nat /\ synced \in Nat /\ 1 <= synced /\ synced <= Len(log)
  BY LenProperties DEF TypeOK
<1>b. ASSUME NEW h \in Handlers, NEW o \in Outcomes, NEW n \in Nat, Finish(h, o, n)
      PROVE  /\ replies' \subseteq [cmd : Cmds \cup {NoCmd}, kind : Kinds \cup {NoCmd},
                                    out : Outcomes, off : Nat]
             /\ pc' \in [Handlers -> Steps]
             /\ \A g \in Handlers : pc'[g] # "idle" => pc[g] # "idle"
  <2>1. job[h] \in Events
    BY DEF TypeOK
  <2>2. [cmd |-> job[h].cmd, kind |-> job[h].kind, out |-> o, off |-> n]
          \in [cmd : Cmds \cup {NoCmd}, kind : Kinds \cup {NoCmd}, out : Outcomes, off : Nat]
    BY <2>1 DEF Events
  <2>3. QED
    BY <1>b, <2>2 DEF Finish, Reply, TypeOK, Steps
<1>1. ASSUME NEW h \in Handlers, NEW r \in Requests, Load(h, r)
      PROVE  TypeOK' /\ JobsAreRequests'
  <2>1. r[1] \in Cmds /\ r[2] \in Kinds /\ <<r[1], r[2]>> \in Requests
    BY RequestType
  <2>2. [cmd |-> r[1], kind |-> r[2], phase |-> yaml] \in Events
    BY <2>1 DEF TypeOK, Events
  <2>3. TypeOK'
    BY <1>0, <1>1, <2>2 DEF Load, TypeOK, Steps
  <2>4. JobsAreRequests'
    BY <1>1, <2>1 DEF Load, TypeOK, JobsAreRequests
  <2>5. QED
    BY <2>3, <2>4
<1>2. ASSUME NEW h \in Handlers, Read(h) PROVE TypeOK' /\ JobsAreRequests'
  <2> DEFINE Ends == \E o \in Outcomes, n \in Nat : Finish(h, o, n)
  <2>1. ASSUME Ends, job' = job PROVE TypeOK' /\ JobsAreRequests'
    <3>1. PICK o \in Outcomes, n \in Nat : Finish(h, o, n)
      BY <2>1
    <3>2. QED
      BY <1>0, <1>2, <1>b, <2>1, <3>1 DEF Read, TypeOK, JobsAreRequests
  <2>2. ASSUME Lookup(h) PROVE Ends
    <3>1. PICK i \in FirstRecorded(job[h].cmd) :
              Finish(h, "dedup", i - 1) \/ Finish(h, "conflict", 0)
      BY <2>2 DEF Lookup
    <3>2. i - 1 \in Nat
      BY <1>a DEF FirstRecorded, Recorded
    <3>3. QED
      BY <3>1, <3>2 DEF Outcomes
  <2>3. CASE /\ job' = [job EXCEPT ![h].phase =
                            Lifecycle!EventPhase(job[h].kind, latestPhase)]
             /\ pc' = [pc EXCEPT ![h] = "append"]
             /\ UNCHANGED replies
    <3>1. job[h].kind \in Kinds /\ <<job[h].cmd, job[h].kind>> \in Requests
      BY <1>2, RequestType DEF Read, JobsAreRequests
    <3>2. Lifecycle!EventPhase(job[h].kind, latestPhase) \in Phases
      BY <3>1, EventPhaseType, LatestPhaseType
    <3>3. /\ job' \in [Handlers -> Events]
          /\ \A g \in Handlers : job'[g].cmd = job[g].cmd /\ job'[g].kind = job[g].kind
      BY <2>3, <3>2 DEF TypeOK, Events
    <3>4. QED
      BY <1>0, <1>2, <2>3, <3>1, <3>3 DEF Read, TypeOK, JobsAreRequests, Steps
  <2>4. QED
    BY <1>2, <2>1, <2>2, <2>3 DEF Read, Outcomes
<1>3. ASSUME NEW h \in Handlers, AppendRead(h) PROVE TypeOK' /\ JobsAreRequests'
  <2>1. CASE \E o \in {"corrupt", "duplicate_event"} : Finish(h, o, 0) /\ UNCHANGED off
    BY <1>0, <1>3, <1>b, <2>1 DEF AppendRead, TypeOK, JobsAreRequests, Outcomes
  <2>2. CASE /\ off' = [off EXCEPT ![h] = Len(log)]
             /\ pc' = [pc EXCEPT ![h] = "write"]
             /\ UNCHANGED replies
    BY <1>0, <1>3, <1>a, <2>2 DEF AppendRead, TypeOK, JobsAreRequests, Steps
  <2>3. QED
    BY <1>3, <2>1, <2>2 DEF AppendRead
<1>4. ASSUME NEW h \in Handlers, Write(h) \/ Sync(h) PROVE TypeOK' /\ JobsAreRequests'
  BY <1>0, <1>4 DEF Write, Sync, TypeOK, JobsAreRequests, Steps
<1>5. ASSUME NEW h \in Handlers, WriteFails(h) \/ SyncFails(h)
      PROVE  TypeOK' /\ JobsAreRequests'
  <2>1. Finish(h, "append_failed", 0) /\ "append_failed" \in Outcomes /\ 0 \in Nat
    BY <1>5 DEF WriteFails, SyncFails, Outcomes
  <2>2. /\ UNCHANGED <<yaml, tmp, job, meta, off, requests, crashes>>
        /\ torn' \in {torn, TRUE} /\ faults' = faults + 1
    BY <1>5 DEF WriteFails, SyncFails
  <2>3. torn' \in BOOLEAN
    BY <2>2, Zenon DEF TypeOK
  <2>4. QED
    BY <1>0, <1>b, <2>1, <2>2, <2>3 DEF TypeOK, JobsAreRequests
<1>6. ASSUME NEW h \in Handlers, CreateTmp(h) PROVE TypeOK' /\ JobsAreRequests'
  <2>1. CASE Finish(h, "metadata_failed", 0) /\ UNCHANGED tmp
    BY <1>0, <1>6, <1>b, <2>1 DEF CreateTmp, TypeOK, JobsAreRequests, Outcomes
  <2>2. CASE tmp' = TRUE /\ pc' = [pc EXCEPT ![h] = "rename"] /\ UNCHANGED replies
    BY <1>0, <1>6, <2>2 DEF CreateTmp, TypeOK, JobsAreRequests, Steps
  <2>3. QED
    BY <1>6, <2>1, <2>2 DEF CreateTmp
<1>7. ASSUME NEW h \in Handlers, Rename(h) \/ MetaFails(h)
      PROVE  TypeOK' /\ JobsAreRequests'
  <2>1. off[h] \in Nat /\ 0 \in Nat /\ {"ok", "metadata_failed"} \subseteq Outcomes
    BY DEF TypeOK, Outcomes
  <2>2. projectedMetadataPhase(meta[h], job[h].phase) \in Phases
    BY DEF projectedMetadataPhase, TypeOK, Events
  <2>3. CASE Rename(h)
    BY <1>0, <1>b, <2>1, <2>2, <2>3 DEF Rename, TypeOK, JobsAreRequests
  <2>4. CASE MetaFails(h)
    <3>1. Finish(h, "metadata_failed", 0) /\ tmp' \in {tmp, FALSE}
      BY <2>4 DEF MetaFails
    <3>2. tmp' \in BOOLEAN
      BY <3>1, Zenon DEF TypeOK
    <3>3. yaml' \in Phases
      BY <2>2, <2>4 DEF MetaFails, TypeOK
    <3>4. QED
      BY <1>0, <1>b, <2>1, <2>4, <3>1, <3>2, <3>3 DEF MetaFails, TypeOK, JobsAreRequests
  <2>5. QED
    BY <1>7, <2>3, <2>4
<1>8. CASE Crash
  <2>1. torn' \in BOOLEAN /\ tmp' \in BOOLEAN
    BY <1>8, Zenon DEF Crash, TypeOK
  <2>2. pc' \in [Handlers -> Steps] /\ crashes' \in Nat
    BY <1>8 DEF Crash, TypeOK, Steps
  <2>3. QED
    BY <1>0, <1>8, <2>1, <2>2 DEF Crash, TypeOK, JobsAreRequests
<1>9. CASE UNCHANGED vars
  BY <1>9 DEF vars, TypeOK, JobsAreRequests
<1>10. QED
  BY <1>1, <1>2, <1>3, <1>4, <1>5, <1>6, <1>7, <1>8, <1>9 DEF Next, Step

(* Type correctness of the store.                                          *)
THEOREM TypeCorrect == Spec => []TypeOK
<1>1. Init => TypeOK /\ JobsAreRequests
  BY InitInv DEF IndInv
<1>2. QED
  BY <1>1, TypeStep, PTL DEF Spec

(* channel.jsonl is append-only once synced, for every interleaving of     *)
(* handlers and crashes.                                                   *)
THEOREM DurableLinesAreKept == Spec => DurableLinesStay
<1>1. TypeOK /\ [Next]_vars =>
        [/\ synced' >= synced
         /\ \A i \in 1..synced : i <= Len(log') /\ log'[i] = log[i]]_vars
  <2> SUFFICES ASSUME TypeOK, [Next]_vars
               PROVE  /\ synced' >= synced
                      /\ \A i \in 1..synced : i <= Len(log') /\ log'[i] = log[i]
    OBVIOUS
  <2>1. Keeps
    BY KeepsStep
  <2>2. Len(log') \in Nat /\ synced \in Nat
    BY <2>1, LenProperties DEF Keeps, TypeOK
  <2>3. QED
    BY <2>1, <2>2 DEF Keeps
<1>2. QED
  BY <1>1, TypeCorrect, PTL DEF Spec, DurableLinesStay

-----------------------------------------------------------------------------
(* Under SafeWrites a spoiled log is seen by every handler.                *)
LEMMA TornStep == SafeWrites /\ IndInv /\ [Next]_vars => TornStops'
<1> SUFFICES ASSUME SafeWrites, IndInv, [Next]_vars PROVE TornStops'
  OBVIOUS
<1> USE DEF IndInv, TypeOK, TornStops
<1>a. ASSUME NEW h \in Handlers, NEW o, NEW n, Finish(h, o, n), torn' = torn
      PROVE  TornStops'
  BY <1>a DEF Finish
<1>1. ASSUME NEW h \in Handlers, NEW r \in Requests, Load(h, r) PROVE TornStops'
  BY <1>1 DEF Load
<1>2. ASSUME NEW h \in Handlers, Read(h) PROVE TornStops'
  BY <1>2, <1>a DEF Read, Lookup, LogCorrupt
<1>3. ASSUME NEW h \in Handlers, AppendRead(h) PROVE TornStops'
  BY <1>3, <1>a DEF AppendRead, LogCorrupt
<1>4. ASSUME NEW h \in Handlers, Write(h) \/ Sync(h) PROVE TornStops'
  BY <1>4 DEF Write, Sync
<1>5. ASSUME NEW h \in Handlers, WriteFails(h) PROVE TornStops'
  <2>1. \A g \in Handlers : g = h
    BY <1>5 DEF WriteFails, SafeWrites
  <2>2. QED
    BY <1>5, <2>1 DEF WriteFails, Finish
<1>6. ASSUME NEW h \in Handlers, CreateTmp(h) \/ Rename(h) \/ SyncFails(h) \/ MetaFails(h)
      PROVE  TornStops'
  BY <1>6, <1>a DEF CreateTmp, Rename, SyncFails, MetaFails
<1>7. CASE Crash
  BY <1>7 DEF Crash
<1>8. CASE UNCHANGED vars
  BY <1>8 DEF vars
<1>9. QED
  BY <1>1, <1>2, <1>3, <1>4, <1>5, <1>6, <1>7, <1>8 DEF Next, Step

(* A line found in the durable part is found there after any step.         *)
LEMMA DurableStays ==
    ASSUME TypeOK, Keeps, NEW i \in 1..synced
    PROVE  i \in 1..synced' /\ log'[i] = log[i]
  BY LenProperties DEF TypeOK, Keeps

(* A handler's event is in the log after its write, durable after fsync,   *)
(* and never before the offset the handler noted.                          *)
LEMMA WrittenStep == IndInv /\ [Next]_vars => WrittenThenSynced'
<1> SUFFICES ASSUME IndInv, [Next]_vars, NEW g \in Handlers
             PROVE  /\ pc'[g] = "write" => off'[g] <= Len(log')
                    /\ pc'[g] = "sync" =>
                          \E i \in (off'[g] + 1)..Len(log') : log'[i] = job'[g]
                    /\ pc'[g] \in {"meta", "rename"} =>
                          \E i \in (off'[g] + 1)..synced' : log'[i] = job'[g]
  BY DEF WrittenThenSynced
<1> DEFINE Goal == /\ pc'[g] = "write" => off'[g] <= Len(log')
                   /\ pc'[g] = "sync" =>
                         \E i \in (off'[g] + 1)..Len(log') : log'[i] = job'[g]
                   /\ pc'[g] \in {"meta", "rename"} =>
                         \E i \in (off'[g] + 1)..synced' : log'[i] = job'[g]
           Same == pc'[g] = pc[g] /\ job'[g] = job[g] /\ off'[g] = off[g] /\ log' = log
<1>0. /\ TypeOK /\ Keeps /\ Len(log) \in Nat /\ Len(log') \in Nat
      /\ synced \in Nat /\ 1 <= synced
  BY KeepsStep, LenProperties DEF IndInv, TypeOK, Keeps
<1>a. /\ pc \in [Handlers -> Steps] /\ off \in [Handlers -> Nat] /\ off[g] \in Nat
      /\ job \in [Handlers -> Events]
  BY <1>0 DEF TypeOK
<1>d. ASSUME pc[g] \in {"meta", "rename"}
      PROVE  \E i \in (off[g] + 1)..synced' : log'[i] = job[g]
  <2>1. PICK i \in (off[g] + 1)..synced : log[i] = job[g]
    BY <1>d DEF IndInv, WrittenThenSynced
  <2>2. i \in 1..synced
    BY <1>0, <1>a
  <2>3. i \in 1..synced' /\ log'[i] = log[i]
    BY <1>0, <2>2, DurableStays
  <2>4. i \in (off[g] + 1)..synced'
    BY <1>0, <1>a, <2>1, <2>3
  <2>5. QED
    BY <2>1, <2>3, <2>4
<1>b. ASSUME Same PROVE Goal
  BY <1>b, <1>d DEF IndInv, WrittenThenSynced
<1>e. ASSUME pc'[g] \in {"idle", "read", "append"} PROVE Goal
  BY <1>e
<1>c. ASSUME NEW h \in Handlers, NEW o, NEW n, Finish(h, o, n)
      PROVE  pc'[g] = pc[g] \/ pc'[g] = "idle"
  BY <1>a, <1>c DEF Finish
<1>1. ASSUME NEW h \in Handlers, NEW r \in Requests, Load(h, r) PROVE Goal
  <2>1. Same \/ pc'[g] = "read"
    BY <1>a, <1>1 DEF Load
  <2>2. QED
    BY <1>b, <1>e, <2>1
<1>2. ASSUME NEW h \in Handlers, Read(h) PROVE Goal
  <2>1. CASE job' = job /\ \E o, n : Finish(h, o, n)
    <3>1. Same \/ pc'[g] = "idle"
      BY <1>2, <1>c, <2>1 DEF Read
    <3>2. QED
      BY <1>b, <1>e, <3>1
  <2>2. CASE /\ job' = [job EXCEPT ![h].phase =
                            Lifecycle!EventPhase(job[h].kind, latestPhase)]
             /\ pc' = [pc EXCEPT ![h] = "append"]
    <3>1. Same \/ pc'[g] = "append"
      BY <1>a, <1>2, <2>2 DEF Read
    <3>2. QED
      BY <1>b, <1>e, <3>1
  <2>3. QED
    BY <1>2, <2>1, <2>2 DEF Read, Lookup
<1>3. ASSUME NEW h \in Handlers, AppendRead(h) PROVE Goal
  <2>1. CASE UNCHANGED off /\ \E o, n : Finish(h, o, n)
    <3>1. Same \/ pc'[g] = "idle"
      BY <1>3, <1>c, <2>1 DEF AppendRead
    <3>2. QED
      BY <1>b, <1>e, <3>1
  <2>2. CASE off' = [off EXCEPT ![h] = Len(log)] /\ pc' = [pc EXCEPT ![h] = "write"]
    <3>1. Same \/ (pc'[g] = "write" /\ off'[g] = Len(log) /\ log' = log)
      BY <1>a, <1>3, <2>2 DEF AppendRead
    <3>2. QED
      BY <1>0, <1>b, <3>1
  <2>3. QED
    BY <1>3, <2>1, <2>2 DEF AppendRead
<1>4. ASSUME NEW h \in Handlers, Write(h) PROVE Goal
  <2>1. /\ ~torn /\ log' = Append(log, job[h]) /\ job' = job /\ off' = off
        /\ job[h] \in Events /\ pc[h] = "write"
    BY <1>0, <1>4 DEF Write, IndInv, TornStops, TypeOK
  <2>2. /\ Len(log') = Len(log) + 1 /\ log'[Len(log) + 1] = job[h]
        /\ \A i \in 1..Len(log) : log'[i] = log[i]
    BY <1>0, <2>1, AppendProperties DEF TypeOK
  <2>3. CASE g = h
    <3>1. pc'[g] = "sync" /\ off[g] <= Len(log)
      BY <1>4, <1>a, <2>1, <2>3 DEF Write, IndInv, WrittenThenSynced
    <3>2. Len(log) + 1 \in (off[g] + 1)..Len(log')
      BY <1>0, <1>a, <2>2, <3>1
    <3>3. QED
      BY <2>1, <2>2, <2>3, <3>1, <3>2
  <2>4. CASE g # h
    <3>1. pc'[g] = pc[g]
      BY <1>4, <1>a, <2>4 DEF Write
    <3>2. ASSUME pc[g] = "sync" PROVE \E i \in (off[g] + 1)..Len(log') : log'[i] = job[g]
      <4>1. PICK i \in (off[g] + 1)..Len(log) : log[i] = job[g]
        BY <3>2 DEF IndInv, WrittenThenSynced
      <4>2. i \in 1..Len(log) /\ i \in (off[g] + 1)..Len(log')
        BY <1>0, <1>a, <2>2, <4>1
      <4>3. QED
        BY <2>2, <4>1, <4>2
    <3>3. pc[g] = "write" => off[g] <= Len(log')
      BY <1>0, <1>a, <2>2 DEF IndInv, WrittenThenSynced
    <3>4. QED
      BY <1>d, <2>1, <3>1, <3>2, <3>3
  <2>5. QED
    BY <2>3, <2>4
<1>5. ASSUME NEW h \in Handlers, Sync(h) PROVE Goal
  <2>1. log' = log /\ job' = job /\ off' = off /\ synced' = Len(log)
    BY <1>5 DEF Sync
  <2>2. CASE g = h
    BY <1>5, <1>a, <2>1, <2>2 DEF Sync, IndInv, WrittenThenSynced
  <2>3. CASE g # h
    BY <1>5, <1>a, <1>b, <2>1, <2>3 DEF Sync
  <2>4. QED
    BY <2>2, <2>3
<1>6. ASSUME NEW h \in Handlers, WriteFails(h) \/ SyncFails(h) \/ MetaFails(h) \/ Rename(h)
      PROVE  Goal
  <2>1. Same \/ pc'[g] = "idle"
    BY <1>6, <1>c DEF WriteFails, SyncFails, MetaFails, Rename
  <2>2. QED
    BY <1>b, <1>e, <2>1
<1>7. ASSUME NEW h \in Handlers, CreateTmp(h) PROVE Goal
  <2>1. log' = log /\ job' = job /\ off' = off
    BY <1>7 DEF CreateTmp
  <2>2. pc'[g] = pc[g] \/ pc'[g] = "idle" \/ (pc[g] = "meta" /\ pc'[g] = "rename")
    BY <1>7, <1>a, <1>c DEF CreateTmp
  <2>3. QED
    BY <1>b, <1>d, <1>e, <2>1, <2>2
<1>8. CASE Crash
  BY <1>8, <1>e DEF Crash
<1>9. CASE UNCHANGED vars
  BY <1>9, <1>b DEF vars
<1>10. QED
  BY <1>1, <1>2, <1>3, <1>4, <1>5, <1>6, <1>7, <1>8, <1>9 DEF Next, Step

(* A handler at its metadata finds its event in the durable part.          *)
LEMMA MetaIsDurable ==
    ASSUME TypeOK, WrittenThenSynced, NEW h \in Handlers, pc[h] \in {"meta", "rename"}
    PROVE  \E i \in 1..synced : log[i] = job[h]
<1>1. PICK i \in (off[h] + 1)..synced : log[i] = job[h]
  BY DEF WrittenThenSynced
<1>2. off[h] \in Nat /\ synced \in Nat
  BY LenProperties DEF TypeOK
<1>3. i \in 1..synced
  BY <1>1, <1>2
<1>4. QED
  BY <1>1, <1>3

(* The phases in session.yaml, and in the copies handlers loaded, stay     *)
(* those of durable events.                                                *)
LEMMA YamlStep == IndInv /\ [Next]_vars => YamlFollowsLog' /\ LoadedFromLog'
<1> SUFFICES ASSUME IndInv, [Next]_vars PROVE YamlFollowsLog' /\ LoadedFromLog'
  OBVIOUS
<1> DEFINE Durable(p) == \E i \in 1..synced : log[i].phase = p
           Durable1(p) == \E i \in 1..synced' : log'[i].phase = p
<1>0. TypeOK /\ Keeps
  BY KeepsStep DEF IndInv
<1>a. ASSUME NEW p, Durable(p) PROVE Durable1(p)
  BY <1>0, <1>a, DurableStays
<1>b. Durable1(yaml) /\ \A g \in Handlers : pc[g] # "idle" => Durable1(meta[g])
  BY <1>a DEF IndInv, YamlFollowsLog, LoadedFromLog
<1> HIDE DEF Durable, Durable1
<1>c. ASSUME Durable1(yaml'), \A g \in Handlers : pc'[g] # "idle" => Durable1(meta'[g])
      PROVE  YamlFollowsLog' /\ LoadedFromLog'
  BY <1>c DEF YamlFollowsLog, LoadedFromLog, Durable1
<1>d. ASSUME yaml' = yaml, meta' = meta,
             \A g \in Handlers : pc'[g] # "idle" => pc[g] # "idle"
      PROVE  YamlFollowsLog' /\ LoadedFromLog'
  BY <1>b, <1>c, <1>d
<1>e. pc \in [Handlers -> Steps] /\ meta \in [Handlers -> Phases]
  BY <1>0 DEF TypeOK
<1>f. ASSUME NEW h \in Handlers, NEW o, NEW n, Finish(h, o, n)
      PROVE  \A g \in Handlers : pc'[g] # "idle" => pc[g] # "idle"
  BY <1>e, <1>f DEF Finish
<1>1. ASSUME NEW h \in Handlers, NEW r \in Requests, Load(h, r)
      PROVE  YamlFollowsLog' /\ LoadedFromLog'
  BY <1>1, <1>b, <1>c, <1>e DEF Load
<1>2. ASSUME NEW h \in Handlers, Read(h) PROVE YamlFollowsLog' /\ LoadedFromLog'
  <2>1. \A g \in Handlers : pc'[g] # "idle" => pc[g] # "idle"
    BY <1>2, <1>e, <1>f DEF Read, Lookup
  <2>2. QED
    BY <1>2, <1>d, <2>1 DEF Read
<1>3. ASSUME NEW h \in Handlers, AppendRead(h) PROVE YamlFollowsLog' /\ LoadedFromLog'
  <2>1. \A g \in Handlers : pc'[g] # "idle" => pc[g] # "idle"
    BY <1>3, <1>e, <1>f DEF AppendRead
  <2>2. QED
    BY <1>3, <1>d, <2>1 DEF AppendRead
<1>4. ASSUME NEW h \in Handlers, Write(h) \/ Sync(h)
      PROVE  YamlFollowsLog' /\ LoadedFromLog'
  BY <1>4, <1>d, <1>e DEF Write, Sync
<1>5. ASSUME NEW h \in Handlers, WriteFails(h) \/ SyncFails(h) \/ CreateTmp(h)
      PROVE  YamlFollowsLog' /\ LoadedFromLog'
  <2>1. \A g \in Handlers : pc'[g] # "idle" => pc[g] # "idle"
    BY <1>5, <1>e, <1>f DEF WriteFails, SyncFails, CreateTmp
  <2>2. QED
    BY <1>5, <1>d, <2>1 DEF WriteFails, SyncFails, CreateTmp
<1>6. ASSUME NEW h \in Handlers, Rename(h) \/ MetaFails(h)
      PROVE  YamlFollowsLog' /\ LoadedFromLog'
  <2>1. pc[h] = "rename"
    BY <1>6 DEF Rename, MetaFails
  <2>2. Durable(job[h].phase) /\ Durable(meta[h])
    BY <1>0, <2>1, MetaIsDurable DEF IndInv, LoadedFromLog, Durable
  <2>3. Durable1(yaml')
    BY <1>6, <1>a, <1>b, <2>2 DEF Rename, MetaFails, projectedMetadataPhase
  <2>4. \A g \in Handlers : pc'[g] # "idle" => Durable1(meta'[g])
    BY <1>6, <1>b, <1>f DEF Rename, MetaFails
  <2>5. QED
    BY <1>c, <2>3, <2>4
<1>7. CASE Crash
  BY <1>7, <1>d DEF Crash
<1>8. CASE UNCHANGED vars
  BY <1>8, <1>d DEF vars
<1>9. QED
  BY <1>1, <1>2, <1>3, <1>4, <1>5, <1>6, <1>7, <1>8 DEF Next, Step

(* No answer of success, and no answer that only the metadata failed, is   *)
(* given for an event that a crash could still take back.                  *)
LEMMA AckedStep == IndInv /\ [Next]_vars => AckedIsDurable'
<1> SUFFICES ASSUME IndInv, [Next]_vars PROVE AckedIsDurable'
  OBVIOUS
<1>0. TypeOK /\ Keeps
  BY KeepsStep DEF IndInv
<1>a. ASSUME NEW r, InLog(r) PROVE InLog(r)'
  BY <1>0, <1>a, DurableStays DEF InLog
<1>b. ASSUME \A r \in replies' \ replies :
                 r.out \in {"ok", "metadata_failed"} => InLog(r)
      PROVE  AckedIsDurable'
  BY <1>a, <1>b DEF IndInv, AckedIsDurable
<1>c. ASSUME NEW h \in Handlers, NEW o, NEW n, Finish(h, o, n),
             o \in {"ok", "metadata_failed"} => \E i \in 1..synced : log[i] = job[h]
      PROVE  AckedIsDurable'
  <2>1. SUFFICES ASSUME NEW r \in replies' \ replies,
                        r.out \in {"ok", "metadata_failed"}
                 PROVE  InLog(r)
    BY <1>b
  <2>2. r = [cmd |-> job[h].cmd, kind |-> job[h].kind, out |-> o, off |-> n]
    BY <1>c, <2>1 DEF Finish, Reply
  <2>3. QED
    BY <1>c, <2>1, <2>2 DEF InLog
<1>1. ASSUME NEW h \in Handlers, NEW r \in Requests, Load(h, r) PROVE AckedIsDurable'
  BY <1>1, <1>b DEF Load
<1>2. ASSUME NEW h \in Handlers, Read(h) PROVE AckedIsDurable'
  BY <1>2, <1>b, <1>c DEF Read, Lookup
<1>3. ASSUME NEW h \in Handlers, AppendRead(h) PROVE AckedIsDurable'
  BY <1>3, <1>b, <1>c DEF AppendRead
<1>4. ASSUME NEW h \in Handlers, Write(h) \/ Sync(h) PROVE AckedIsDurable'
  BY <1>4, <1>b DEF Write, Sync
<1>5. ASSUME NEW h \in Handlers, WriteFails(h) \/ SyncFails(h) PROVE AckedIsDurable'
  BY <1>5, <1>c DEF WriteFails, SyncFails
<1>6. ASSUME NEW h \in Handlers, CreateTmp(h) \/ Rename(h) \/ MetaFails(h)
      PROVE  AckedIsDurable'
  <2>1. pc[h] \in {"meta", "rename"}
    BY <1>6 DEF CreateTmp, Rename, MetaFails
  <2>2. \E i \in 1..synced : log[i] = job[h]
    BY <1>0, <2>1, MetaIsDurable DEF IndInv
  <2>3. QED
    BY <1>6, <1>b, <1>c, <2>2 DEF CreateTmp, Rename, MetaFails
<1>7. CASE Crash
  BY <1>7, <1>b DEF Crash
<1>8. CASE UNCHANGED vars
  BY <1>8, <1>b DEF vars
<1>9. QED
  BY <1>1, <1>2, <1>3, <1>4, <1>5, <1>6, <1>7, <1>8 DEF Next, Step

(* The invariant holds throughout, for any number of handlers.             *)
THEOREM Inductive == SafeWrites => (Spec => []IndInv)
<1> SUFFICES ASSUME SafeWrites PROVE Spec => []IndInv
  OBVIOUS
<1>1. IndInv /\ [Next]_vars => IndInv'
  BY TypeStep, TornStep, WrittenStep, YamlStep, AckedStep DEF IndInv
<1>2. QED
  BY <1>1, InitInv, PTL DEF Spec

(* An event whose append was answered is never lost.                       *)
THEOREM AckedEventsSurvive == SafeWrites => (Spec => []AckedIsDurable)
<1>1. IndInv => AckedIsDurable
  BY DEF IndInv
<1>2. QED
  BY <1>1, Inductive, PTL

(* session.yaml never runs ahead of the durable log.                       *)
THEOREM YamlNeverAhead == SafeWrites => (Spec => []YamlFollowsLog)
<1>1. IndInv => YamlFollowsLog
  BY DEF IndInv
<1>2. QED
  BY <1>1, Inductive, PTL

(* A reply whose cursor is at or before its event.                         *)
LEMMA ReplyNames ==
    ASSUME NEW h \in Handlers, NEW o, NEW n, Finish(h, o, n), TypeOK,
           o = "dedup" => /\ n + 1 \in 1..Len(log)
                          /\ log[n + 1].cmd = job[h].cmd /\ log[n + 1].kind = job[h].kind,
           o = "ok" => \E i \in (n + 1)..synced : log[i] = job[h],
           NEW r \in replies' \ replies
    PROVE  /\ r.out = "dedup" => r.off + 1 \in 1..Len(log) /\ Names(r.off + 1, r)
           /\ r.out = "ok" => \E i \in (r.off + 1)..synced : Names(i, r)
<1>1. r = [cmd |-> job[h].cmd, kind |-> job[h].kind, out |-> o, off |-> n]
  BY DEF Finish, Reply
<1>2. r.cmd = job[h].cmd /\ r.kind = job[h].kind /\ r.out = o /\ r.off = n
  BY <1>1
<1>3. QED
  BY <1>2 DEF Names

(* However handlers interleave, no cursor passes the event it is given     *)
(* for: that of a retry is exact, that of an append is the event's line or *)
(* an earlier one.                                                         *)
THEOREM CursorsNameEvents == SafeWrites => (Spec => CursorNamesEvent)
<1> SUFFICES ASSUME SafeWrites PROVE Spec => CursorNamesEvent
  OBVIOUS
<1>1. IndInv /\ [Next]_vars =>
        [\A r \in replies' \ replies :
            /\ r.out = "dedup" => r.off + 1 \in 1..Len(log) /\ Names(r.off + 1, r)
            /\ r.out = "ok" => \E i \in (r.off + 1)..synced : Names(i, r)]_vars
  <2> SUFFICES ASSUME IndInv, [Next]_vars, NEW r \in replies' \ replies
               PROVE  /\ r.out = "dedup" => r.off + 1 \in 1..Len(log) /\ Names(r.off + 1, r)
                      /\ r.out = "ok" => \E i \in (r.off + 1)..synced : Names(i, r)
    OBVIOUS
  <2> DEFINE Goal == /\ r.out = "dedup" => r.off + 1 \in 1..Len(log) /\ Names(r.off + 1, r)
                     /\ r.out = "ok" => \E i \in (r.off + 1)..synced : Names(i, r)
  <2>0. TypeOK
    BY DEF IndInv
  <2>a. ASSUME NEW h \in Handlers, NEW o, NEW n, Finish(h, o, n), o \notin {"ok", "dedup"}
        PROVE  Goal
    BY <2>0, <2>a, ReplyNames
  <2> HIDE DEF Goal
  <2>1. ASSUME NEW h \in Handlers, Read(h) PROVE Goal
    <3>1. ASSUME Lookup(h) PROVE Goal
      <4>1. PICK i \in FirstRecorded(job[h].cmd) :
                \/ Equivalent(i, job[h].kind) /\ Finish(h, "dedup", i - 1)
                \/ Finish(h, "conflict", 0)
        BY <3>1 DEF Lookup
      <4>2. CASE Equivalent(i, job[h].kind) /\ Finish(h, "dedup", i - 1)
        <5>1. i \in 1..Len(log) /\ log[i].cmd = job[h].cmd /\ log[i].kind = job[h].kind
          BY <4>2 DEF FirstRecorded, Recorded, Equivalent
        <5>2. (i - 1) + 1 = i
          BY <5>1
        <5>3. QED
          BY <2>0, <4>2, <5>1, <5>2, ReplyNames DEF Goal
      <4>3. QED
        BY <2>a, <4>1, <4>2
    <3>2. QED
      BY <2>1, <2>a, <3>1 DEF Read
  <2>2. ASSUME NEW h \in Handlers, AppendRead(h) PROVE Goal
    BY <2>2, <2>a DEF AppendRead
  <2>3. ASSUME NEW h \in Handlers,
               WriteFails(h) \/ SyncFails(h) \/ MetaFails(h) \/ CreateTmp(h)
        PROVE  Goal
    BY <2>3, <2>a DEF WriteFails, SyncFails, MetaFails, CreateTmp
  <2>4. ASSUME NEW h \in Handlers, Rename(h) PROVE Goal
    <3>1. Finish(h, "ok", off[h]) /\ \E i \in (off[h] + 1)..synced : log[i] = job[h]
      BY <2>4 DEF Rename, IndInv, WrittenThenSynced
    <3>2. QED
      BY <2>0, <3>1, ReplyNames DEF Goal
  <2>5. ASSUME NEW h \in Handlers, Write(h) \/ Sync(h) \/ \E q \in Requests : Load(h, q)
        PROVE  FALSE
    BY <2>5 DEF Write, Sync, Load
  <2>6. CASE Crash \/ UNCHANGED vars
    BY <2>6 DEF Crash, vars
  <2>7. QED
    BY <2>1, <2>2, <2>3, <2>4, <2>5, <2>6 DEF Next, Step, Goal
<1>2. Spec => []IndInv
  BY Inductive
<1>3. QED
  BY <1>1, <1>2, PTL DEF Spec, CursorNamesEvent

-----------------------------------------------------------------------------
(* One request at a time: what the gate and the lookup established still   *)
(* holds when the line is written.                                         *)
Serial == \A g, h \in Handlers : g = h

GateStillHolds == \A h \in Handlers : pc[h] \in {"append", "write"} =>
    /\ Recorded(job[h].cmd) = {}
    /\ latestPhase \in From[job[h].kind]
    /\ job[h].phase = Lifecycle!EventPhase(job[h].kind, latestPhase)

(* With one handler nothing comes between the gate and the write.          *)
LEMMA GateStep == Serial /\ IndInv /\ GateStillHolds /\ [Next]_vars => GateStillHolds'
<1> SUFFICES ASSUME Serial, IndInv, GateStillHolds, [Next]_vars, NEW g \in Handlers,
                    pc'[g] \in {"append", "write"}
             PROVE  /\ Recorded(job[g].cmd)' = {}
                    /\ latestPhase' \in From[job'[g].kind]
                    /\ job'[g].phase = Lifecycle!EventPhase(job'[g].kind, latestPhase')
  BY DEF GateStillHolds, Lifecycle!EventPhase
<1>0. pc \in [Handlers -> Steps] /\ job \in [Handlers -> Events]
  BY DEF IndInv, TypeOK
<1>a. ASSUME NEW h \in Handlers PROVE h = g
  BY DEF Serial
<1>b. ASSUME NEW h \in Handlers, NEW o, NEW n, Finish(h, o, n) PROVE FALSE
  BY <1>0, <1>a, <1>b DEF Finish
<1>c. ASSUME log' = log, job' = job, pc[g] \in {"append", "write"}
      PROVE  /\ Recorded(job[g].cmd)' = {}
             /\ latestPhase' \in From[job'[g].kind]
             /\ job'[g].phase = Lifecycle!EventPhase(job'[g].kind, latestPhase')
  BY <1>c DEF GateStillHolds, Recorded, latestPhase
<1>1. ASSUME NEW h \in Handlers, NEW r \in Requests, Load(h, r) PROVE FALSE
  BY <1>0, <1>1, <1>a DEF Load
<1>2. ASSUME NEW h \in Handlers, Read(h)
      PROVE  /\ Recorded(job[g].cmd)' = {}
             /\ latestPhase' \in From[job'[g].kind]
             /\ job'[g].phase = Lifecycle!EventPhase(job'[g].kind, latestPhase')
  <2>1. h = g
    BY <1>a
  <2>2. /\ job' = [job EXCEPT ![g].phase =
                       Lifecycle!EventPhase(job[g].kind, latestPhase)]
        /\ ~Known(g) /\ ~Rejected(g) /\ log' = log
    BY <1>2, <1>b, <2>1 DEF Read, Lookup
  <2>3. /\ job'[g].cmd = job[g].cmd /\ job'[g].kind = job[g].kind
        /\ job'[g].phase = Lifecycle!EventPhase(job[g].kind, latestPhase)
    BY <1>0, <2>2 DEF Events
  <2>4. QED
    BY <2>2, <2>3 DEF Known, Rejected, Recorded, latestPhase
<1>3. ASSUME NEW h \in Handlers, AppendRead(h) PROVE pc[g] = "append" /\ log' = log /\ job' = job
  BY <1>3, <1>a DEF AppendRead
<1>4. ASSUME NEW h \in Handlers, Write(h) \/ Sync(h) PROVE FALSE
  BY <1>0, <1>4, <1>a DEF Write, Sync
<1>5. ASSUME NEW h \in Handlers,
             WriteFails(h) \/ SyncFails(h) \/ MetaFails(h) \/ CreateTmp(h) \/ Rename(h)
      PROVE  FALSE
  BY <1>0, <1>5, <1>a, <1>b DEF WriteFails, SyncFails, MetaFails, CreateTmp, Rename
<1>6. CASE Crash
  BY <1>6 DEF Crash
<1>7. CASE UNCHANGED vars
  BY <1>7, <1>c DEF vars
<1>8. QED
  BY <1>1, <1>2, <1>3, <1>4, <1>5, <1>6, <1>7, <1>c DEF Next, Step

(* Every step of a serial store is a step of the lifecycle or a stutter.   *)
LEMMA LifecycleStep ==
    Serial /\ IndInv /\ GateStillHolds /\ [Next]_vars => [Lifecycle!Next]_(Lifecycle!vars)
<1> SUFFICES ASSUME Serial, IndInv, GateStillHolds, [Next]_vars
             PROVE  [Lifecycle!Next]_(Lifecycle!vars)
  OBVIOUS
<1>a. ASSUME log' = log, synced' = synced PROVE Lifecycle!vars' = Lifecycle!vars
  BY <1>a DEF Lifecycle!vars
<1>1. ASSUME NEW h \in Handlers, Write(h) PROVE Lifecycle!Next
  <2> DEFINE r == <<job[h].cmd, job[h].kind>>
  <2>1. pc[h] = "write" /\ r \in Requests /\ ~torn /\ job[h] \in Events
    BY <1>1 DEF Write, IndInv, JobsAreRequests, TornStops, TypeOK
  <2>2. log' = Append(log, job[h]) /\ synced' = synced
    BY <1>1, <2>1 DEF Write
  <2>3. /\ Recorded(job[h].cmd) = {} /\ latestPhase \in From[job[h].kind]
        /\ job[h].phase = Lifecycle!EventPhase(job[h].kind, latestPhase)
    BY <2>1 DEF GateStillHolds
  <2>4. job[h] = [cmd |-> job[h].cmd, kind |-> job[h].kind, phase |-> job[h].phase]
    BY <2>1 DEF Events
  <2>5. job[h] = Lifecycle!Event(r, latestPhase)
    BY <2>3, <2>4 DEF Lifecycle!Event
  <2>6. Lifecycle!Execute(r)
    BY <2>2, <2>3, <2>5 DEF Lifecycle!Execute, Lifecycle!CurrentPhase, latestPhase, Recorded
  <2>7. QED
    BY <2>1, <2>6 DEF Lifecycle!Next
<1>2. ASSUME NEW h \in Handlers, Sync(h) \/ SyncFails(h)
      PROVE  Lifecycle!Next \/ (log' = log /\ synced' = synced)
  BY <1>2 DEF Sync, SyncFails, Lifecycle!Next, Lifecycle!Confirm
<1>3. CASE Crash
  BY <1>3 DEF Crash, Lifecycle!Next, Lifecycle!Forget
<1>4. ASSUME NEW h \in Handlers, NEW q \in Requests, Load(h, q)
      PROVE  log' = log /\ synced' = synced
  BY <1>4 DEF Load
<1>5. ASSUME NEW h \in Handlers, Read(h) PROVE log' = log /\ synced' = synced
  BY <1>5 DEF Read
<1>6. ASSUME NEW h \in Handlers, AppendRead(h) PROVE log' = log /\ synced' = synced
  BY <1>6 DEF AppendRead
<1>7. ASSUME NEW h \in Handlers, WriteFails(h) \/ MetaFails(h) \/ CreateTmp(h) \/ Rename(h)
      PROVE  log' = log /\ synced' = synced
  BY <1>7 DEF WriteFails, MetaFails, CreateTmp, Rename
<1>8. CASE UNCHANGED vars
  BY <1>8, <1>a DEF vars
<1>9. QED
  BY <1>1, <1>2, <1>3, <1>4, <1>5, <1>6, <1>7, <1>8, <1>a DEF Next, Step

(* A daemon that serves one request at a time implements the lifecycle:    *)
(* one event per command, each from a phase that admits it, and only       *)
(* unconfirmed events are ever taken back.                                 *)
THEOREM SerialStoreImplements == Serial => (Spec => ImplementsLifecycle)
<1> SUFFICES ASSUME Serial PROVE Spec => Lifecycle!Spec
  BY DEF ImplementsLifecycle
<1>1. SafeWrites
  BY DEF SafeWrites, Serial
<1>2. Init => Lifecycle!Init /\ GateStillHolds
  BY DEF Init, Lifecycle!Init, GateStillHolds
<1>3. IndInv /\ GateStillHolds /\ [Next]_vars => GateStillHolds'
  BY GateStep
<1>4. IndInv /\ GateStillHolds /\ [Next]_vars => [Lifecycle!Next]_(Lifecycle!vars)
  BY LifecycleStep
<1>5. Spec => []IndInv
  BY <1>1, Inductive
<1>6. QED
  BY <1>2, <1>3, <1>4, <1>5, PTL DEF Spec, Lifecycle!Spec
-----------------------------------------------------------------------------
(* What the lifecycle makes of a log: it starts with session_created, no   *)
(* command is recorded twice, and every event was admitted by the phase of *)
(* the one before it.                                                      *)
Admitted(i) ==
    /\ log[i].kind \in Kinds /\ log[i - 1].phase \in From[log[i].kind]
    /\ log[i].phase = Lifecycle!EventPhase(log[i].kind, log[i - 1].phase)
History ==
    /\ log[1] = First
    /\ \A i, j \in 1..Len(log) : log[i].cmd = log[j].cmd => i = j
    /\ \A i \in 2..Len(log) : Admitted(i)

(* Every step of the lifecycle leaves such a log.                          *)
LEMMA HistoryStep ==
    TypeOK /\ History /\ [Lifecycle!Next]_(Lifecycle!vars) => History'
<1> SUFFICES ASSUME TypeOK, History, [Lifecycle!Next]_(Lifecycle!vars) PROVE History'
  OBVIOUS
<1>0. Len(log) \in Nat /\ synced \in Nat /\ 1 <= synced /\ synced <= Len(log)
  BY LenProperties DEF TypeOK
<1>1. ASSUME NEW n \in 1..Len(log), Len(log') = n, \A i \in 1..n : log'[i] = log[i]
      PROVE  History'
  <2>1. \A i \in 1..n : i \in 1..Len(log)
    BY <1>0
  <2>2. \A i \in 2..n : i \in 1..n /\ i - 1 \in 1..n /\ i \in 2..Len(log)
    BY <1>0
  <2>3. log'[1] = First
    BY <1>0, <1>1 DEF History
  <2>4. \A i, j \in 1..Len(log') : log'[i].cmd = log'[j].cmd => i = j
    BY <1>1, <2>1 DEF History
  <2>5. ASSUME NEW i \in 2..Len(log') PROVE Admitted(i)'
    BY <1>1, <2>2 DEF History, Admitted
  <2>6. QED
    BY <2>3, <2>4, <2>5 DEF History
<1>2. ASSUME NEW r \in Requests, Lifecycle!Execute(r) PROVE History'
  <2> DEFINE e == Lifecycle!Event(r, latestPhase)
             n == Len(log)
  <2>1. /\ log' = Append(log, e) /\ latestPhase \in From[r[2]]
        /\ \A i \in 1..n : log[i].cmd # r[1]
    BY <1>2 DEF Lifecycle!Execute, Lifecycle!CurrentPhase, latestPhase
  <2>2. /\ e.cmd = r[1] /\ e.kind = r[2]
        /\ e.phase = Lifecycle!EventPhase(r[2], latestPhase) /\ e \in Events
    BY RequestType, LatestPhaseType, EventPhaseType DEF Lifecycle!Event, Events
  <2> HIDE DEF e
  <2>3. Len(log') = n + 1 /\ log'[n + 1] = e /\ \A i \in 1..n : log'[i] = log[i]
    BY <2>1, <2>2, AppendProperties DEF TypeOK
  <2> HIDE DEF n
  <2>4. n \in Nat /\ 1 <= n /\ latestPhase = log[n].phase
    BY <1>0 DEF n, latestPhase
  <2>5. log'[1] = First
    BY <2>3, <2>4 DEF History
  <2>6. ASSUME NEW i \in 1..Len(log'), NEW j \in 1..Len(log'), log'[i].cmd = log'[j].cmd
        PROVE  i = j
    <3>1. i \in 1..n \/ i = n + 1
      BY <2>3, <2>4
    <3>2. j \in 1..n \/ j = n + 1
      BY <2>3, <2>4
    <3>3. QED
      BY <2>1, <2>2, <2>3, <2>6, <3>1, <3>2 DEF History, n
  <2>7. ASSUME NEW i \in 2..Len(log') PROVE Admitted(i)'
    <3>1. CASE i = n + 1
      <4>1. log'[i] = e /\ i - 1 = n /\ log'[n] = log[n]
        BY <2>3, <2>4, <3>1
      <4>2. QED
        BY <2>1, <2>2, <2>4, <4>1, RequestType DEF Admitted
    <3>2. CASE i # n + 1
      <4>1. i \in 2..n /\ i \in 1..n /\ i - 1 \in 1..n
        BY <2>3, <2>4, <3>2
      <4>2. QED
        BY <2>3, <4>1 DEF History, Admitted, n
    <3>3. QED
      BY <3>1, <3>2
  <2>8. QED
    BY <2>5, <2>6, <2>7 DEF History
<1>3. ASSUME NEW n \in synced..Len(log), Lifecycle!Forget(n) PROVE History'
  <2>1. n \in 1..Len(log) /\ log' = SubSeq(log, 1, n)
    BY <1>0, <1>3 DEF Lifecycle!Forget
  <2>2. Len(log') = n /\ \A i \in 1..n : log'[i] = log[i]
    BY <1>0, <2>1, SubSeqProperties DEF TypeOK
  <2>3. QED
    BY <1>1, <2>1, <2>2
<1>4. CASE Lifecycle!Confirm \/ UNCHANGED Lifecycle!vars
  <2>1. log' = log
    BY <1>4 DEF Lifecycle!Confirm, Lifecycle!vars
  <2>2. QED
    BY <2>1 DEF History, Admitted
<1>5. QED
  BY <1>2, <1>3, <1>4 DEF Lifecycle!Next

SerialInv == IndInv /\ GateStillHolds /\ History

(* The invariant of a daemon that serves one request at a time             *)
THEOREM SerialInductive == Serial => (Spec => []SerialInv)
<1> SUFFICES ASSUME Serial PROVE Spec => []SerialInv
  OBVIOUS
<1>1. Init => SerialInv
  <2> SUFFICES ASSUME Init PROVE SerialInv
    OBVIOUS
  <2>1. IndInv
    BY InitInv
  <2>2. log = <<First>> /\ Len(log) = 1 /\ log[1] = First
    BY DEF Init
  <2>3. History
    BY <2>2 DEF History
  <2>4. GateStillHolds
    BY DEF Init, GateStillHolds
  <2>5. QED
    BY <2>1, <2>3, <2>4 DEF SerialInv
<1>2. SerialInv /\ [Next]_vars => (GateStillHolds /\ History)'
  <2> SUFFICES ASSUME SerialInv, [Next]_vars
               PROVE  (GateStillHolds /\ History)'
    OBVIOUS
  <2>1. GateStillHolds'
    BY GateStep DEF SerialInv
  <2>2. History'
    BY LifecycleStep, HistoryStep DEF SerialInv, IndInv
  <2>3. QED
    BY <2>1, <2>2
<1>3. SafeWrites
  BY DEF SafeWrites, Serial
<1>4. Spec => []IndInv
  BY <1>3, Inductive
<1>5. IndInv' /\ (GateStillHolds /\ History)' => SerialInv'
  BY DEF SerialInv
<1>6. QED
  BY <1>1, <1>2, <1>4, <1>5, PTL DEF Spec

(* A request that is looked up before the gate and whose event is on       *)
(* record gets that event back, however far the session has moved on,      *)
(* unless the event records the phase it finds and the phase has changed.  *)
LEMMA RecordedIsReturned ==
    ASSUME TypeOK, History, NEW k \in Kinds \ GateFirst, NEW c \in Cmds,
           NEW i \in 1..Len(log), log[i].cmd = c, log[i].kind = k, NEW j \in FirstRecorded(c)
    PROVE  \/ Equivalent(j, k)
           \/ k \notin Replayed /\ To[k] = Keep /\ log[i].phase # latestPhase
<1>0. Len(log) \in Nat
  BY LenProperties DEF TypeOK
<1>1. j \in 1..Len(log) /\ log[j].cmd = c
  BY DEF FirstRecorded, Recorded
<1>2. j = i /\ log[j].kind = k
  BY <1>1 DEF History
<1>3. j # 1
  BY <1>1, StoreConstants DEF History, First, Cmds
<1>4. j \in 2..Len(log) /\ j > 1
  BY <1>0, <1>1, <1>3
<1>5. log[j - 1].phase \in From[k] /\ log[j].phase = Lifecycle!EventPhase(k, log[j - 1].phase)
  BY <1>2, <1>4 DEF History, Admitted
<1>s. k \notin Stamped
  BY StoreConstants
<1>6. CASE k \in Replayed
  BY <1>2, <1>4, <1>5, <1>6, <1>s DEF Equivalent
<1>7. CASE k \notin Replayed
  BY <1>2, <1>5, <1>7, <1>s DEF Equivalent, Lifecycle!EventPhase
<1>8. QED
  BY <1>6, <1>7

(* A retry of a request that was answered, with success or with a failed   *)
(* metadata write, is refused only by a gate that comes before the lookup, *)
(* or because an event that records the phase it finds would now record    *)
(* another; over any number of later events, crashes and restarts.         *)
THEOREM RetriesReturnTheEvent == Serial => (Spec => RetryFirstReturnsRecorded)
<1> SUFFICES ASSUME Serial PROVE Spec => RetryFirstReturnsRecorded
  OBVIOUS
<1>1. SerialInv /\ [Next]_vars =>
        [\A r \in replies' \ replies :
            Refused(r) /\ AnsweredBefore(r) => r.kind \in GateFirst \/ PhaseMoved(r)]_vars
  <2> SUFFICES ASSUME SerialInv, [Next]_vars, NEW r \in replies' \ replies,
                      Refused(r), r.kind \notin GateFirst, AnsweredBefore(r)
               PROVE  PhaseMoved(r)
    OBVIOUS
  <2>0. TypeOK /\ History /\ JobsAreRequests /\ AckedIsDurable
    BY DEF SerialInv, IndInv
  <2>1. PICK i \in 1..Len(log) : log[i].cmd = r.cmd /\ log[i].kind = r.kind
    <3>1. PICK q \in replies : /\ q.out \in {"ok", "metadata_failed"}
                               /\ q.cmd = r.cmd /\ q.kind = r.kind
      BY DEF AnsweredBefore
    <3>2. PICK i \in 1..synced : log[i].cmd = q.cmd /\ log[i].kind = q.kind
      BY <2>0, <3>1 DEF AckedIsDurable, InLog
    <3>3. i \in 1..Len(log)
      BY <2>0, LenProperties DEF TypeOK
    <3>4. QED
      BY <3>1, <3>2, <3>3
  <2>2. ASSUME NEW h \in Handlers, NEW o, NEW n, Finish(h, o, n)
        PROVE  /\ o \in {"rejected", "conflict"} /\ r.out = o
               /\ r.cmd = job[h].cmd /\ r.kind = job[h].kind
    <3>1. r = [cmd |-> job[h].cmd, kind |-> job[h].kind, out |-> o, off |-> n]
      BY <2>2 DEF Finish, Reply
    <3>2. QED
      BY <3>1 DEF Refused
  <2>3. ASSUME NEW h \in Handlers, Read(h) PROVE PhaseMoved(r)
    <3>1. \E o, n : Finish(h, o, n)
      BY <2>3 DEF Read, Lookup
    <3>2. r.cmd = job[h].cmd /\ r.kind = job[h].kind
      BY <2>2, <3>1
    <3>3. Known(h)
      BY <2>1, <3>2 DEF Known, Recorded
    <3>4. job[h].cmd \in Cmds /\ job[h].kind \in Kinds \ GateFirst
      <4>1. <<job[h].cmd, job[h].kind>> \in Requests
        BY <2>0, <2>3 DEF Read, JobsAreRequests
      <4>2. QED
        BY <3>2, <4>1, RequestType
    <3>5. ~Finish(h, "corrupt", 0) /\ \A n : ~Finish(h, "dedup", n)
      BY <2>2
    <3>6. Lookup(h)
      BY <2>3, <3>1, <3>2, <3>3, <3>5 DEF Read
    <3>7. PICK j \in FirstRecorded(job[h].cmd) :
              ~Equivalent(j, job[h].kind) /\ Finish(h, "conflict", 0)
      BY <3>5, <3>6 DEF Lookup
    <3>8. /\ job[h].kind \notin Replayed /\ To[job[h].kind] = Keep
          /\ log[i].phase # latestPhase
      BY <2>0, <2>1, <3>2, <3>4, <3>7, RecordedIsReturned
    <3>9. r.out = "conflict"
      BY <2>2, <3>7
    <3>10. QED
      BY <2>1, <3>2, <3>8, <3>9 DEF PhaseMoved, Names
  <2>4. ASSUME NEW h \in Handlers, AppendRead(h) PROVE FALSE
    BY <2>2, <2>4 DEF AppendRead
  <2>5. ASSUME NEW h \in Handlers,
               WriteFails(h) \/ SyncFails(h) \/ MetaFails(h) \/ CreateTmp(h) \/ Rename(h)
        PROVE  FALSE
    BY <2>2, <2>5 DEF WriteFails, SyncFails, MetaFails, CreateTmp, Rename
  <2>6. ASSUME NEW h \in Handlers, Write(h) \/ Sync(h) \/ \E q \in Requests : Load(h, q)
        PROVE  FALSE
    BY <2>6 DEF Write, Sync, Load
  <2>7. CASE Crash \/ UNCHANGED vars
    BY <2>7 DEF Crash, vars
  <2>8. QED
    BY <2>3, <2>4, <2>5, <2>6, <2>7 DEF Next, Step
<1>2. Spec => []SerialInv
  BY SerialInductive
<1>3. QED
  BY <1>1, <1>2, PTL DEF Spec, RetryFirstReturnsRecorded
=============================================================================
