---------------------------- MODULE StreamProofs ----------------------------
(***************************************************************************)
(* Theorems about the subscribers of a log, for any number of members,     *)
(* runtimes, events, failed runs and power losses.                         *)
(***************************************************************************)
EXTENDS Stream, TLAPS, SequenceTheorems, WellFoundedInduction

(* A member has handled what it should act on in the first n lines.        *)
Prefix(m, n) ==
    /\ n \in 0..Len(log)
    /\ \A i \in 1..n : shouldAct(m, log[i]) => log[i].id \in handled[m]

(* An acknowledgement names an earlier line, and what lies before that     *)
(* line has been handled.                                                  *)
AcksHandled ==
    \A i \in 1..Len(log), m \in Members : log[i].type = "ack" /\ log[i].member = m =>
        log[i].cursor.offset < i /\ Prefix(m, log[i].cursor.offset)

(* A saved cursor names a line that a power loss cannot take back, or the  *)
(* file is no cursor.                                                      *)
CursorsDurable ==
    \A m \in Members :
        /\ cursor[m] \in {NoCursor, Mixed} \/ Matches(cursor[m])
        /\ cursor[m].offset <= synced /\ Prefix(m, cursor[m].offset)

(* What a run holds: the cursor it is at,                                  *)
AtCursor(r) == run[r].step # "idle" =>
    /\ run[r].since = NoCursor \/ Matches(run[r].since)
    /\ Prefix(Owner[r], run[r].since.offset)

(* the frames of the lines behind it, replayed ones first,                 *)
FramesFollow(r) == run[r].step \notin {"idle", "heartbeat", "replay"} =>
    /\ \A j \in 1..Len(run[r].frames) :
          /\ run[r].frames[j].cursor.offset = run[r].since.offset + j
          /\ Matches(run[r].frames[j].cursor)
          /\ run[r].live => ~run[r].frames[j].replay
    /\ \A j, k \in 1..Len(run[r].frames) :
          j < k /\ run[r].frames[k].replay => run[r].frames[j].replay

(* up to the line where the first read of the log ended,                   *)
ReplayEnds(r) ==
    /\ run[r].step \in {"heartbeat", "replay", "follow"} => ~run[r].live
    /\ run[r].step = "follow" =>
          /\ run[r].start = run[r].since.offset + Len(run[r].frames)
          /\ run[r].start <= Len(log)
          /\ \A j \in 1..Len(run[r].frames) : run[r].frames[j].replay

(* and one frame that is handled and, once acknowledged, durable.          *)
FrameInHand(r) ==
    /\ run[r].step \in {"ack", "ackSync", "truncate", "save"} =>
          /\ run[r].frames # <<>>
          /\ Prefix(Owner[r], run[r].frames[1].cursor.offset)
    /\ run[r].step \in {"truncate", "save"} => run[r].frames[1].cursor.offset <= synced

RunOK(r) == AtCursor(r) /\ FramesFollow(r) /\ ReplayEnds(r) /\ FrameInHand(r)
RunsOK == \A r \in Runtimes : RunOK(r)

IndInv == TypeOK /\ AcksHandled /\ CursorsDurable /\ RunsOK /\ FramesInOrder

USE StreamConstants DEF SyncLog

-----------------------------------------------------------------------------
(* A set of numbers that is bounded and not empty has a greatest one.      *)
LEMMA Greatest ==
    ASSUME NEW n \in Nat, NEW S \in SUBSET (1..n), S # {}
    PROVE  \E i \in S : \A j \in S : j <= i
<1> DEFINE R == OpToRel(<, Nat)
           T == {n - i : i \in S}
<1>1. IsWellFoundedOn(R, Nat)
  BY NatLessThanWellFounded, Zenon
<1>2. \A x, y \in Nat : <<y, x>> \in R <=> y < x
  BY DEF OpToRel
<1>0. \A i \in S : i \in Nat /\ n - i \in Nat
  OBVIOUS
<1>3. T \subseteq Nat /\ T # {}
  BY <1>0
<1> HIDE DEF R
<1>4. \E x \in T : \A y \in T : ~(<<y, x>> \in R)
  <2> HIDE DEF T
  <2> QED
    BY <1>1, <1>3, WFMin
<1>5. PICK x \in T : \A y \in T : ~(y < x)
  BY <1>2, <1>3, <1>4
<1>6. PICK i \in S : x = n - i
  OBVIOUS
<1>7. ASSUME NEW j \in S PROVE j <= i
  <2>1. n - j \in T /\ ~(n - j < n - i)
    BY <1>5, <1>6
  <2>2. QED
    BY <1>0, <2>1
<1>8. QED
  BY <1>7

(* The log is a sequence of events.                                        *)
LEMMA LogFacts ==
    ASSUME TypeOK
    PROVE  /\ Len(log) \in Nat /\ synced \in Nat /\ synced <= Len(log)
           /\ \A i \in 1..Len(log) : log[i] \in Events
  BY LenProperties, ElementOfSeq DEF TypeOK

(* The frames behind line n: one for each later line, in order             *)
LEMMA FramesFrom ==
    ASSUME TypeOK, NEW n \in 0..Len(log), NEW replay \in BOOLEAN
    PROVE  /\ framesFrom(n, replay) \in Seq(Frames)
           /\ Len(framesFrom(n, replay)) = Len(log) - n
           /\ \A j \in 1..(Len(log) - n) :
                 framesFrom(n, replay)[j] = [cursor |-> CursorFor(n + j), replay |-> replay]
<1> DEFINE f == framesFrom(n, replay)
           k == Len(log) - n
<1>1. k \in Nat
  BY LogFacts
<1>2. \A j \in 1..k : [cursor |-> CursorFor(n + j), replay |-> replay] \in Frames
  <2> SUFFICES ASSUME NEW j \in 1..k
               PROVE  [cursor |-> CursorFor(n + j), replay |-> replay] \in Frames
    OBVIOUS
  <2>1. n + j \in 1..Len(log)
    BY <1>1, LogFacts
  <2>2. log[n + j].id \in Nat
    BY <2>1, LogFacts DEF Events
  <2>3. QED
    BY <2>1, <2>2 DEF CursorFor, Frames, Cursors
<1>3. f = [j \in 1..k |-> [cursor |-> CursorFor(n + j), replay |-> replay]]
  BY DEF framesFrom
<1>4. f \in [1..k -> Frames]
  BY <1>2, <1>3
<1>5. f \in Seq(Frames)
  BY <1>1, <1>4, SeqDef
<1>6. Len(f) = k
  <2>1. DOMAIN f = 1..Len(f) /\ Len(f) \in Nat
    BY <1>5, LenProperties
  <2>2. DOMAIN f = 1..k
    BY <1>4
  <2>3. QED
    BY <1>1, <2>1, <2>2
<1>7. QED
  BY <1>3, <1>5, <1>6

(* AppendEvent adds one line.                                              *)
LEMMA AppendFacts ==
    ASSUME TypeOK, NEW type \in {"work", "heartbeat", "ack"},
           NEW from \in Members \cup {Moderator, "atn-controld"},
           NEW member \in Members \cup {Moderator}, NEW c \in Cursors,
           Append1(type, from, member, c)
    PROVE  /\ log' \in Seq(Events) /\ ids' \in Nat /\ Len(log') = Len(log) + 1
           /\ \A i \in 1..Len(log) : log'[i] = log[i]
           /\ log'[Len(log) + 1] = [id |-> ids + 1, type |-> type, from |-> from,
                                    member |-> member, cursor |-> c]
<1> DEFINE e == [id |-> ids + 1, type |-> type, from |-> from, member |-> member, cursor |-> c]
<1>1. e \in Events /\ ids' \in Nat
  BY DEF Append1, Events, TypeOK
<1>2. log \in Seq(Events) /\ log' = Append(log, e)
  BY DEF Append1, TypeOK
<1> HIDE DEF e
<1>3. /\ log' \in Seq(Events) /\ Len(log') = Len(log) + 1 /\ log'[Len(log) + 1] = e
      /\ \A i \in 1..Len(log) : log'[i] = log[i]
  BY <1>1, <1>2, AppendProperties
<1>4. QED
  BY <1>1, <1>3 DEF e

(* The first frame of a run                                                *)
LEMMA HeadFacts ==
    ASSUME TypeOK, NEW r \in Runtimes, run[r].frames # <<>>
    PROVE  /\ Head(run[r].frames) = run[r].frames[1] /\ run[r].frames[1] \in Frames
           /\ Len(run[r].frames) \in Nat /\ 1 \in 1..Len(run[r].frames)
           /\ Tail(run[r].frames) \in Seq(Frames)
           /\ Len(Tail(run[r].frames)) = Len(run[r].frames) - 1
           /\ \A i \in 1..(Len(run[r].frames) - 1) : Tail(run[r].frames)[i] = run[r].frames[i + 1]
<1> DEFINE f == run[r].frames
<1>1. f \in Seq(Frames)
  BY DEF TypeOK, Runs
<1> HIDE DEF f
<1>2. Len(f) \in Nat \ {0} /\ Head(f) = f[1]
  BY <1>1, EmptySeq DEF f
<1>3. f[1] \in Frames
  BY <1>1, <1>2, ElementOfSeq
<1>4. /\ Tail(f) \in Seq(Frames) /\ Len(Tail(f)) = Len(f) - 1
      /\ \A i \in 1..Len(Tail(f)) : Tail(f)[i] = f[i + 1]
  BY <1>1, HeadTailProperties DEF f
<1>5. QED
  BY <1>2, <1>3, <1>4 DEF f

(* Other lines and other handled events are only added, but for a power    *)
(* loss.                                                                   *)
Grows ==
    /\ Len(log) <= Len(log') /\ \A i \in 1..Len(log) : log'[i] = log[i]
    /\ synced <= synced' /\ \A m \in Members : handled[m] \subseteq handled'[m]

Idles(r) == run' = [run EXCEPT ![r] = Idle]

(* A run at rest has the type of a run, and nothing to prove.              *)
LEMMA IdleRun ==
    /\ Idle \in Runs /\ Idle.step = "idle"
    /\ NoCursor \in Cursors /\ NoCursor.offset = 0
    /\ Mixed \in Cursors /\ Mixed.offset = 0 /\ Mixed # NoCursor
<1>1. /\ NoCursor \in Cursors /\ NoCursor.offset = 0
      /\ Mixed \in Cursors /\ Mixed.offset = 0 /\ Mixed # NoCursor
  BY DEF NoCursor, Mixed, Cursors
<1>2. <<>> \in Seq(Frames)
  BY EmptySeq
<1>3. QED
  BY <1>1, <1>2 DEF Idle, Runs, Steps

(* A run that goes on to another step keeps what it holds.                 *)
LEMMA GotoFacts ==
    ASSUME TypeOK, NEW r \in Runtimes, NEW s \in Steps, Goto(r, s)
    PROVE  /\ run' \in [Runtimes -> Runs] /\ run'[r].step = s
           /\ run'[r].since = run[r].since /\ run'[r].start = run[r].start
           /\ run'[r].frames = run[r].frames /\ run'[r].live = run[r].live
           /\ \A q \in Runtimes \ {r} : run'[q] = run[q]
<1> DEFINE e == [run[r] EXCEPT !.step = s]
<1>1. run[r] \in Runs /\ run \in [Runtimes -> Runs]
  BY DEF TypeOK
<1>2. /\ e \in Runs /\ e.step = s /\ e.since = run[r].since /\ e.start = run[r].start
      /\ e.frames = run[r].frames /\ e.live = run[r].live
  BY <1>1 DEF Runs
<1>3. run' = [run EXCEPT ![r] = e]
  BY <1>1 DEF Goto
<1> HIDE DEF e
<1>4. run'[r] = e /\ run' \in [Runtimes -> Runs] /\ \A q \in Runtimes \ {r} : run'[q] = run[q]
  BY <1>1, <1>2, <1>3
<1>5. QED
  BY <1>2, <1>4

(* A run that is given up leaves the others alone.                         *)
LEMMA IdlesFacts ==
    ASSUME TypeOK, NEW r \in Runtimes, Idles(r)
    PROVE  /\ run' \in [Runtimes -> Runs] /\ run'[r].step = "idle"
           /\ \A q \in Runtimes \ {r} : run'[q] = run[q]
  BY IdleRun DEF Idles, TypeOK

(* A saved cursor is the one of the first frame, and the run goes on with  *)
(* the rest.                                                               *)
LEMMA SaveFacts ==
    ASSUME TypeOK, NEW r \in Runtimes, run[r].frames # <<>>, Save(r)
    PROVE  /\ run' \in [Runtimes -> Runs] /\ run'[r].step = "handle"
           /\ run'[r].since = run[r].frames[1].cursor
           /\ run'[r].frames = Tail(run[r].frames)
           /\ run'[r].live <=> run[r].live \/ ~run[r].frames[1].replay
           /\ \E content \in {run[r].frames[1].cursor, Mixed} :
                 cursor' = [cursor EXCEPT ![Owner[r]] = content]
           /\ \A q \in Runtimes \ {r} : run'[q] = run[q]
<1> DEFINE f == run[r].frames[1]
           t == Tail(run[r].frames)
           l == run[r].live \/ ~f.replay
           e == [run[r] EXCEPT !.step = "handle", !.since = f.cursor, !.frames = t, !.live = l]
<1>1. /\ run[r] \in Runs /\ run \in [Runtimes -> Runs] /\ f \in Frames /\ t \in Seq(Frames)
      /\ Head(run[r].frames) = f
  BY HeadFacts DEF TypeOK
<1>2. f.cursor \in Cursors /\ l \in BOOLEAN
  BY <1>1 DEF Frames, Runs
<1>3. /\ run' = [run EXCEPT ![r] = e]
      /\ \E content \in {f.cursor, Mixed} : cursor' = [cursor EXCEPT ![Owner[r]] = content]
  BY <1>1 DEF Save, Written
<1> HIDE DEF l, f, t
<1>4. e \in Runs /\ e.step = "handle" /\ e.since = f.cursor /\ e.frames = t /\ e.live = l
  BY <1>1, <1>2 DEF Runs, Steps
<1> HIDE DEF e
<1>5. run'[r] = e /\ run' \in [Runtimes -> Runs] /\ \A q \in Runtimes \ {r} : run'[q] = run[q]
  BY <1>1, <1>3, <1>4
<1>6. QED
  BY <1>3, <1>4, <1>5 DEF l, f, t

(* Every action keeps the types and, but for a power loss, only adds.      *)
LEMMA TypeStep ==
    TypeOK /\ RunsOK /\ [Next]_vars => TypeOK' /\ (Grows \/ PowerLoss)
<1> SUFFICES ASSUME TypeOK, RunsOK, [Next]_vars PROVE TypeOK' /\ (Grows \/ PowerLoss)
  OBVIOUS
<1>0. /\ Len(log) \in Nat /\ synced \in Nat /\ synced <= Len(log)
      /\ Idle \in Runs /\ NoCursor \in Cursors
  BY LogFacts, IdleRun
<1> USE DEF TypeOK, Grows
<1>1. ASSUME NEW from \in Members \cup {Moderator}, Send(from) PROVE TypeOK' /\ Grows
  <2>1. /\ log' \in Seq(Events) /\ ids' \in Nat /\ Len(log') = Len(log) + 1
        /\ \A i \in 1..Len(log) : log'[i] = log[i]
    BY <1>0, <1>1, AppendFacts DEF Send
  <2>2. QED
    BY <1>0, <1>1, <2>1 DEF Send
<1>2. CASE SendSyncs
  BY <1>0, <1>2 DEF SendSyncs
<1>3. ASSUME NEW r \in Runtimes, Load(r) PROVE TypeOK' /\ Grows
  <2>1. [Idle EXCEPT !.step = "heartbeat", !.since = cursor[Owner[r]]] \in Runs
    BY <1>0 DEF Runs, Steps
  <2>2. run' \in [Runtimes -> Runs]
    BY <1>3, <2>1 DEF Load
  <2>3. QED
    BY <1>0, <1>3, <2>2 DEF Load
<1>4. ASSUME NEW r \in Runtimes, Heartbeat(r) PROVE TypeOK' /\ Grows
  <2>1. CASE Full
    BY <1>0, <1>4, <2>1 DEF Heartbeat
  <2>2. CASE ~Full
    <3>1. /\ log' \in Seq(Events) /\ ids' \in Nat /\ Len(log') = Len(log) + 1
          /\ \A i \in 1..Len(log) : log'[i] = log[i]
      BY <1>0, <1>4, <2>2, AppendFacts DEF Heartbeat
    <3>2. run' \in [Runtimes -> Runs] /\ synced' = Len(log) + 1
      BY <1>4, <2>2, GotoFacts DEF Heartbeat, Steps
    <3>3. QED
      BY <1>0, <1>4, <3>1, <3>2 DEF Heartbeat
  <2>3. QED
    BY <2>1, <2>2
<1>5. ASSUME NEW r \in Runtimes, Replay(r) PROVE TypeOK' /\ Grows
  <2>1. CASE run[r].since # NoCursor /\ ~Matches(run[r].since)
    BY <1>0, <1>5, <2>1 DEF Replay
  <2>2. CASE ~(run[r].since # NoCursor /\ ~Matches(run[r].since))
    <3> DEFINE f == framesFrom(run[r].since.offset, TRUE)
    <3>1. run[r].since.offset \in 0..Len(log)
      BY <1>0, <2>2, IdleRun DEF Matches
    <3>2. f \in Seq(Frames)
      BY <3>1, FramesFrom
    <3> HIDE DEF f
    <3>3. [run[r] EXCEPT !.step = "follow", !.start = Len(log), !.frames = f] \in Runs
      BY <1>0, <3>2 DEF Runs, Steps
    <3>4. run' = [run EXCEPT ![r] =
                     [run[r] EXCEPT !.step = "follow", !.start = Len(log), !.frames = f]]
      BY <1>5, <2>2 DEF Replay, f
    <3>5. QED
      BY <1>0, <1>5, <3>3, <3>4 DEF Replay
  <2>3. QED
    BY <2>1, <2>2
<1>6. ASSUME NEW r \in Runtimes, Follow(r) PROVE TypeOK' /\ Grows
  <2> DEFINE f == framesFrom(run[r].start, FALSE)
  <2>1. run[r].start \in 0..Len(log)
    BY <1>0, <1>6 DEF Follow, RunsOK, RunOK, ReplayEnds, Runs
  <2>2. f \in Seq(Frames) /\ run[r].frames \in Seq(Frames)
    BY <2>1, FramesFrom DEF Runs
  <2> HIDE DEF f
  <2>3. run[r].frames \o f \in Seq(Frames)
    BY <2>2, ConcatProperties
  <2>4. run' = [run EXCEPT ![r].step = "handle", ![r].frames = run[r].frames \o f]
    BY <1>6 DEF Follow, f
  <2>5. run' \in [Runtimes -> Runs]
    BY <2>3, <2>4 DEF Runs, Steps
  <2>6. QED
    BY <1>0, <1>6, <2>5 DEF Follow
<1>7. ASSUME NEW r \in Runtimes, Handle(r) PROVE TypeOK' /\ Grows
  <2> DEFINE f == Head(run[r].frames)
  <2>1. f \in Frames
    BY <1>7, HeadFacts DEF Handle
  <2>2. f.cursor.id \in Nat /\ Owner[r] \in Members
    BY <2>1 DEF Frames, Cursors
  <2>3. \/ broken' = TRUE /\ Idles(r) /\ handled' = handled
        \/ /\ handled' \in {handled, [handled EXCEPT ![Owner[r]] = @ \cup {f.cursor.id}]}
           /\ Goto(r, "ack") /\ broken' = broken
    BY <1>7 DEF Handle, Idles
  <2>4. run' \in [Runtimes -> Runs]
    BY <2>3, GotoFacts, IdlesFacts DEF Steps
  <2>5. /\ handled' \in [Members -> SUBSET Nat]
        /\ \A m \in Members : handled[m] \subseteq handled'[m]
    BY <2>2, <2>3
  <2>6. broken' \in BOOLEAN
    BY <2>3
  <2>7. QED
    BY <1>0, <1>7, <2>4, <2>5, <2>6 DEF Handle
<1>8. ASSUME NEW r \in Runtimes, Ack(r) PROVE TypeOK' /\ Grows
  <2>1. CASE Full \/ ~Matches(Head(run[r].frames).cursor)
    BY <1>0, <1>8, <2>1 DEF Ack
  <2>2. CASE ~(Full \/ ~Matches(Head(run[r].frames).cursor))
    <3>1. Head(run[r].frames).cursor \in Cursors
      BY <1>8, HeadFacts DEF Ack, RunsOK, RunOK, FrameInHand, Frames
    <3>2. /\ log' \in Seq(Events) /\ ids' \in Nat /\ Len(log') = Len(log) + 1
          /\ \A i \in 1..Len(log) : log'[i] = log[i]
      BY <1>0, <1>8, <2>2, <3>1, AppendFacts DEF Ack
    <3>3. run' \in [Runtimes -> Runs]
      BY <1>8, <2>2, GotoFacts DEF Ack, Steps
    <3>4. QED
      BY <1>0, <1>8, <3>2, <3>3 DEF Ack
  <2>3. QED
    BY <2>1, <2>2
<1>9. ASSUME NEW r \in Runtimes, AckSync(r) PROVE TypeOK' /\ Grows
  <2>1. run' \in [Runtimes -> Runs]
    BY <1>9, GotoFacts DEF AckSync, Steps
  <2>2. QED
    BY <1>0, <1>9, <2>1 DEF AckSync
<1>10. ASSUME NEW r \in Runtimes, Truncate(r) PROVE TypeOK' /\ Grows
  <2>1. run' \in [Runtimes -> Runs]
    BY <1>10, GotoFacts DEF Truncate, Steps
  <2>2. QED
    BY <1>0, <1>10, <2>1 DEF Truncate
<1>11. ASSUME NEW r \in Runtimes, Save(r) PROVE TypeOK' /\ Grows
  <2>1. run[r].frames # <<>>
    BY <1>11 DEF Save, RunsOK, RunOK, FrameInHand
  <2>2. run[r].frames[1].cursor \in Cursors
    BY <2>1, HeadFacts DEF Frames
  <2>3. /\ run' \in [Runtimes -> Runs]
        /\ \E content \in {run[r].frames[1].cursor, Mixed} :
              cursor' = [cursor EXCEPT ![Owner[r]] = content]
    BY <1>11, <2>1, SaveFacts
  <2>4. QED
    BY <1>0, <1>11, <2>2, <2>3, IdleRun DEF Save
<1>12. ASSUME NEW r \in Runtimes, Done(r) \/ RunFails(r) PROVE TypeOK' /\ Grows
  BY <1>0, <1>12 DEF Done, RunFails
<1>13. CASE PowerLoss
  <2>1. PICK n \in synced..Len(log) : log' = SubSeq(log, 1, n) /\ synced' = n
    BY <1>13 DEF PowerLoss
  <2>2. n \in Nat /\ n <= Len(log)
    BY <1>0
  <2>3. log' \in Seq(Events) /\ Len(log') = n
    BY <1>0, <2>1, <2>2, LogFacts, SubSeqProperties
  <2>4. cursor' \in [Members -> Cursors] /\ run' \in [Runtimes -> Runs]
    BY <1>0, <1>13 DEF PowerLoss
  <2>5. synced' \in 0..Len(log') /\ faults' \in Nat
    BY <1>13, <2>1, <2>2, <2>3 DEF PowerLoss
  <2>6. QED
    BY <1>13, <2>3, <2>4, <2>5 DEF PowerLoss
<1>14. CASE UNCHANGED vars
  BY <1>0, <1>14 DEF vars
<1>15. QED
  BY <1>1, <1>2, <1>3, <1>4, <1>5, <1>6, <1>7, <1>8, <1>9, <1>10, <1>11, <1>12, <1>13,
     <1>14 DEF Next, RunOnce

-----------------------------------------------------------------------------
(* What a member has handled of the first n lines stays handled.           *)
LEMMA KeepPrefix ==
    ASSUME TypeOK, TypeOK', Grows, NEW m \in Members, NEW n, Prefix(m, n)
    PROVE  /\ n \in 0..Len(log')
           /\ \A i \in 1..n : shouldAct(m, log'[i]) => log'[i].id \in handled'[m]
<1>1. Len(log) \in Nat /\ Len(log') \in Nat
  BY LenProperties DEF TypeOK
<1>2. n \in Nat /\ n <= Len(log)
  BY <1>1 DEF Prefix
<1>3. QED
  BY <1>1, <1>2 DEF Prefix, Grows

(* A cursor that names a line keeps naming it.                             *)
LEMMA KeepMatches ==
    ASSUME TypeOK, TypeOK', Grows, NEW c, Matches(c)
    PROVE  c.offset \in 1..Len(log') /\ log'[c.offset].id = c.id
<1>1. Len(log) \in Nat /\ Len(log') \in Nat
  BY LenProperties DEF TypeOK
<1>2. QED
  BY <1>1 DEF Matches, Grows

(* The runs of the runtimes that do not step stay as they should be.       *)
LEMMA KeepRun ==
    ASSUME TypeOK, TypeOK', Grows, NEW r \in Runtimes, RunOK(r), run'[r] = run[r]
    PROVE  RunOK(r)'
<1>1. Len(log) \in Nat /\ Len(log') \in Nat /\ synced \in Nat /\ synced' \in Nat
  BY LenProperties DEF TypeOK
<1>2. Owner[r] \in Members /\ run[r] \in Runs
  BY DEF TypeOK
<1>3. AtCursor(r)'
  BY <1>2, KeepPrefix, KeepMatches DEF RunOK, AtCursor, Prefix, Matches
<1>4. FramesFollow(r)'
  BY KeepMatches DEF RunOK, FramesFollow, Matches
<1>5. ReplayEnds(r)'
  BY <1>1, <1>2 DEF RunOK, ReplayEnds, Grows, Runs
<1>6. FrameInHand(r)'
  <2>1. CASE run[r].step \in {"ack", "ackSync", "truncate", "save"}
    <3>1. run[r].frames # <<>> /\ Prefix(Owner[r], run[r].frames[1].cursor.offset)
      BY <2>1 DEF RunOK, FrameInHand
    <3>2. run[r].frames[1].cursor.offset \in Nat
      BY <3>1, HeadFacts DEF Frames, Cursors
    <3>3. Prefix(Owner[r], run[r].frames[1].cursor.offset)'
      BY <1>2, <3>1, KeepPrefix DEF Prefix
    <3>4. QED
      BY <1>1, <3>1, <3>2, <3>3 DEF RunOK, FrameInHand, Grows
  <2>2. CASE run[r].step \notin {"ack", "ackSync", "truncate", "save"}
    BY <2>2 DEF FrameInHand
  <2>3. QED
    BY <2>1, <2>2
<1>7. QED
  BY <1>3, <1>4, <1>5, <1>6 DEF RunOK

(* When one runtime steps, its own run is all there is to look at.         *)
LEMMA OneRun ==
    ASSUME TypeOK, TypeOK', Grows, RunsOK, NEW r \in Runtimes,
           \A q \in Runtimes \ {r} : run'[q] = run[q], RunOK(r)'
    PROVE  RunsOK'
<1>1. SUFFICES ASSUME NEW q \in Runtimes PROVE RunOK(q)'
  BY DEF RunsOK
<1>2. CASE q = r
  BY <1>2
<1>3. CASE q # r
  BY <1>3, KeepRun DEF RunsOK
<1>4. QED
  BY <1>2, <1>3

(* A cursor file that is not written stays as it should be.                *)
LEMMA KeepCursor ==
    ASSUME TypeOK, TypeOK', Grows, CursorsDurable, NEW m \in Members, cursor'[m] = cursor[m]
    PROVE  /\ cursor'[m] \in {NoCursor, Mixed} \/ Matches(cursor[m])'
           /\ cursor'[m].offset <= synced' /\ Prefix(m, cursor[m].offset)'
<1>1. synced \in Nat /\ synced' \in Nat /\ cursor[m].offset \in Nat
  BY LogFacts, LenProperties DEF TypeOK, Cursors
<1>2. cursor'[m] \in {NoCursor, Mixed} \/ Matches(cursor[m])'
  BY KeepMatches DEF CursorsDurable, Matches
<1>3. Prefix(m, cursor[m].offset)'
  BY KeepPrefix DEF CursorsDurable, Prefix
<1>4. QED
  BY <1>1, <1>2, <1>3 DEF CursorsDurable, Grows

(* Acknowledgements written before stay as they should be.                 *)
LEMMA KeepAck ==
    ASSUME TypeOK, TypeOK', Grows, AcksHandled, NEW i \in 1..Len(log), NEW m \in Members,
           log'[i].type = "ack", log'[i].member = m
    PROVE  log'[i].cursor.offset < i /\ Prefix(m, log[i].cursor.offset)'
<1>1. log'[i] = log[i]
  BY DEF Grows
<1>2. log[i].cursor.offset < i /\ Prefix(m, log[i].cursor.offset)
  BY <1>1 DEF AcksHandled
<1>3. QED
  BY <1>1, <1>2, KeepPrefix DEF Prefix

(* A step that writes no acknowledgement has none to account for.          *)
LEMMA KeepAcks ==
    ASSUME TypeOK, TypeOK', Grows, AcksHandled,
           \A i \in 1..Len(log') : i \in 1..Len(log) \/ log'[i].type # "ack"
    PROVE  AcksHandled'
  BY KeepAck DEF AcksHandled
-----------------------------------------------------------------------------
(* The invariant holds of an empty log and runtimes at rest.               *)
LEMMA InitInv == Init => IndInv
<1> SUFFICES ASSUME Init PROVE IndInv
  OBVIOUS
<1>1. log = <<>> /\ log \in Seq(Events) /\ Len(log) = 0
  BY EmptySeq DEF Init
<1>0. /\ cursor = [m \in Members |-> NoCursor] /\ run = [r \in Runtimes |-> Idle]
      /\ handled = [m \in Members |-> {}] /\ synced = 0 /\ ids = 0
      /\ broken = FALSE /\ work = 0 /\ faults = 0
  BY DEF Init
<1>2. TypeOK
  <2>1. synced \in 0..Len(log) /\ ids \in Nat /\ work \in Nat /\ faults \in Nat
    BY <1>0, <1>1
  <2>2. cursor \in [Members -> Cursors] /\ run \in [Runtimes -> Runs]
    BY <1>0, IdleRun
  <2>3. handled \in [Members -> SUBSET Nat] /\ broken \in BOOLEAN
    BY <1>0
  <2>4. QED
    BY <1>1, <2>1, <2>2, <2>3 DEF TypeOK
<1>3. CursorsDurable
  <2>1. ASSUME NEW m \in Members PROVE cursor[m] = NoCursor /\ cursor[m].offset = 0
    BY <1>0, IdleRun
  <2>2. ASSUME NEW m \in Members PROVE Prefix(m, cursor[m].offset)
    BY <1>1, <2>1 DEF Prefix
  <2>3. ASSUME NEW m \in Members PROVE cursor[m].offset <= synced
    BY <1>0, <2>1
  <2>4. QED
    BY <2>1, <2>2, <2>3 DEF CursorsDurable
<1>4. RunsOK
  BY IdleRun DEF Init, RunsOK, RunOK, AtCursor, FramesFollow, ReplayEnds, FrameInHand
<1>5. AcksHandled
  BY <1>1 DEF AcksHandled
<1>6. QED
  BY <1>2, <1>3, <1>4, <1>5 DEF Init, IndInv, FramesInOrder

(* A run that ends leaves nothing behind but what it wrote.                *)
LEMMA IdleKeepsRuns ==
    ASSUME TypeOK, TypeOK', Grows, RunsOK, NEW r \in Runtimes, Idles(r)
    PROVE  RunsOK'
<1>1. RunOK(r)'
  BY IdlesFacts DEF RunOK, AtCursor, FramesFollow, ReplayEnds, FrameInHand
<1>2. QED
  BY <1>1, IdlesFacts, OneRun

(* The steps that write neither a cursor nor an acknowledgement keep what  *)
(* is said about both.                                                     *)
LEMMA Bystander ==
    ASSUME TypeOK, TypeOK', Grows, CursorsDurable, AcksHandled, cursor' = cursor,
           \A i \in 1..Len(log') : i \in 1..Len(log) \/ log'[i].type # "ack"
    PROVE  CursorsDurable' /\ AcksHandled'
<1>1. CursorsDurable'
  BY KeepCursor DEF CursorsDurable
<1>2. QED
  BY <1>1, KeepAcks

(* Sending, syncing and the end of a run keep the invariant, but for the   *)
(* types.                                                                  *)
LEMMA QuietSteps ==
    ASSUME IndInv, TypeOK', Grows,
           \/ \E from \in Members \cup {Moderator} : Send(from)
           \/ SendSyncs
           \/ \E r \in Runtimes : Done(r) \/ RunFails(r)
           \/ UNCHANGED vars
    PROVE  IndInv'
<1> USE DEF IndInv
<1>1. CASE \E from \in Members \cup {Moderator} : Send(from)
  <2>1. PICK from \in Members \cup {Moderator} : Send(from)
    BY <1>1
  <2>2. /\ Len(log) \in Nat /\ Len(log') = Len(log) + 1
        /\ log'[Len(log) + 1].type = "work"
    <3>1. log'[Len(log) + 1] = [id |-> ids + 1, type |-> "work", from |-> from,
                                member |-> from, cursor |-> NoCursor]
      BY <2>1, AppendFacts, IdleRun DEF Send
    <3>2. Len(log') = Len(log) + 1
      BY <2>1, AppendFacts, IdleRun DEF Send
    <3>3. QED
      BY <3>1, <3>2, LogFacts
  <2>3. run' = run /\ cursor' = cursor /\ broken' = broken
    BY <2>1 DEF Send
  <2>4. RunsOK'
    BY <2>3, KeepRun DEF RunsOK
  <2>5. CursorsDurable' /\ AcksHandled'
    BY <2>2, <2>3, Bystander
  <2>6. QED
    BY <2>3, <2>4, <2>5 DEF FramesInOrder
<1>2. CASE SendSyncs \/ UNCHANGED vars
  <2>1. log' = log /\ run' = run /\ cursor' = cursor /\ broken' = broken
    BY <1>2 DEF SendSyncs, vars
  <2>2. RunsOK'
    BY <2>1, KeepRun DEF RunsOK
  <2>3. CursorsDurable' /\ AcksHandled'
    BY <2>1, Bystander
  <2>4. QED
    BY <2>1, <2>2, <2>3 DEF FramesInOrder
<1>3. CASE \E r \in Runtimes : Done(r) \/ RunFails(r)
  <2>1. PICK r \in Runtimes : Done(r) \/ RunFails(r)
    BY <1>3
  <2>2. log' = log /\ Idles(r) /\ cursor' = cursor /\ broken' = broken
    BY <2>1 DEF Done, RunFails, Idles
  <2>3. RunsOK'
    BY <2>2, IdleKeepsRuns
  <2>4. CursorsDurable' /\ AcksHandled'
    BY <2>2, Bystander
  <2>5. QED
    BY <2>2, <2>3, <2>4 DEF FramesInOrder
<1>4. QED
  BY <1>1, <1>2, <1>3

(* Reading the log: a run begins at its cursor, and its frames follow it.  *)
LEMMA ReadSteps ==
    ASSUME IndInv, TypeOK', Grows, NEW r \in Runtimes,
           Load(r) \/ Heartbeat(r) \/ Replay(r) \/ Follow(r)
    PROVE  IndInv'
<1> USE DEF IndInv
<1>0. /\ Len(log) \in Nat /\ Len(log') \in Nat /\ synced \in Nat /\ Owner[r] \in Members
      /\ run[r] \in Runs /\ run'[r] \in Runs /\ RunOK(r)
      /\ NoCursor \in Cursors /\ NoCursor.offset = 0
  BY LogFacts, IdleRun, LenProperties DEF TypeOK, RunsOK
<1>1. CASE Load(r)
  <2>1. log' = log /\ handled' = handled /\ cursor' = cursor /\ broken' = broken
    BY <1>1 DEF Load
  <2>2. /\ run'[r].step = "heartbeat" /\ run'[r].since = cursor[Owner[r]] /\ ~run'[r].live
        /\ \A q \in Runtimes \ {r} : run'[q] = run[q]
    BY <1>1 DEF Load, Idle, TypeOK
  <2>7. cursor[Owner[r]] # Mixed
    BY <1>1 DEF Load
  <2>3. RunOK(r)'
    <3>1. AtCursor(r)'
      BY <1>0, <2>1, <2>2, <2>7 DEF AtCursor, CursorsDurable, Matches, Prefix
    <3>2. QED
      BY <2>2, <3>1 DEF RunOK, FramesFollow, ReplayEnds, FrameInHand
  <2>4. RunsOK'
    BY <2>2, <2>3, OneRun
  <2>5. CursorsDurable' /\ AcksHandled'
    BY <2>1, Bystander
  <2>6. QED
    BY <2>1, <2>4, <2>5 DEF FramesInOrder
<1>2. CASE Heartbeat(r)
  <2>1. cursor' = cursor /\ broken' = broken
    BY <1>2 DEF Heartbeat
  <2>2. CASE Full
    <3>1. log' = log /\ Idles(r)
      BY <1>2, <2>2 DEF Heartbeat, Idles
    <3>2. RunsOK' /\ CursorsDurable' /\ AcksHandled'
      BY <2>1, <3>1, IdleKeepsRuns, Bystander
    <3>3. QED
      BY <2>1, <3>2 DEF FramesInOrder
  <2>3. CASE ~Full
    <3>1. Len(log') = Len(log) + 1 /\ log'[Len(log) + 1].type = "heartbeat"
      <4>1. log'[Len(log) + 1] = [id |-> ids + 1, type |-> "heartbeat", from |-> Owner[r],
                                  member |-> Owner[r], cursor |-> NoCursor]
        BY <1>0, <1>2, <2>3, AppendFacts DEF Heartbeat
      <4>2. Len(log') = Len(log) + 1
        BY <1>0, <1>2, <2>3, AppendFacts DEF Heartbeat
      <4>3. QED
        BY <4>1, <4>2
    <3>2. /\ run'[r].step = "replay" /\ run'[r].since = run[r].since
          /\ run'[r].live = run[r].live /\ \A q \in Runtimes \ {r} : run'[q] = run[q]
      BY <1>2, <2>3, GotoFacts DEF Heartbeat, Steps
    <3>3. AtCursor(r)'
      BY <1>0, <1>2, <3>2, KeepPrefix, KeepMatches
         DEF Heartbeat, RunOK, AtCursor, Prefix, Matches
    <3>4. RunOK(r)'
      BY <1>0, <1>2, <3>2, <3>3
         DEF Heartbeat, RunOK, FramesFollow, ReplayEnds, FrameInHand
    <3>5. RunsOK'
      BY <3>2, <3>4, OneRun
    <3>6. CursorsDurable' /\ AcksHandled'
      BY <1>0, <2>1, <3>1, Bystander
    <3>7. QED
      BY <2>1, <3>5, <3>6 DEF FramesInOrder
  <2>4. QED
    BY <2>2, <2>3
<1>3. CASE Replay(r)
  <2>1. /\ log' = log /\ handled' = handled /\ cursor' = cursor /\ broken' = broken
        /\ synced' = synced
    BY <1>3 DEF Replay
  <2>2. CursorsDurable' /\ AcksHandled'
    BY <2>1, Bystander
  <2>3. CASE run[r].since # NoCursor /\ ~Matches(run[r].since)
    <3>1. Idles(r)
      BY <1>3, <2>3 DEF Replay, Idles
    <3>2. QED
      BY <2>1, <2>2, <3>1, IdleKeepsRuns DEF FramesInOrder
  <2>4. CASE ~(run[r].since # NoCursor /\ ~Matches(run[r].since))
    <3> DEFINE n == run[r].since.offset
               f == framesFrom(n, TRUE)
    <3>1. n \in 0..Len(log)
      BY <1>0, <2>4 DEF Matches
    <3>2. /\ Len(f) = Len(log) - n
          /\ \A j \in 1..(Len(log) - n) :
                f[j] = [cursor |-> CursorFor(n + j), replay |-> TRUE]
      BY <3>1, FramesFrom
    <3>3. /\ run'[r].step = "follow" /\ run'[r].since = run[r].since
          /\ run'[r].start = Len(log) /\ run'[r].frames = f /\ run'[r].live = run[r].live
          /\ \A q \in Runtimes \ {r} : run'[q] = run[q]
      <4> HIDE DEF f
      <4>1. run' = [run EXCEPT ![r] =
                       [run[r] EXCEPT !.step = "follow", !.start = Len(log), !.frames = f]]
        BY <1>3, <2>4 DEF Replay, f
      <4>2. QED
        BY <1>0, <4>1 DEF TypeOK, Runs
    <3> HIDE DEF f
    <3>4. AtCursor(r)'
      BY <1>3, <1>0, <2>1, <3>3 DEF Replay, RunOK, AtCursor, Matches, Prefix
    <3>5. \A j \in 1..Len(f) : /\ f[j].cursor.offset = n + j /\ f[j].replay
                               /\ f[j].cursor.offset \in 1..Len(log)
                               /\ log[f[j].cursor.offset].id = f[j].cursor.id
      <4> SUFFICES ASSUME NEW j \in 1..Len(f)
                   PROVE  /\ f[j].cursor.offset = n + j /\ f[j].replay
                          /\ f[j].cursor.offset \in 1..Len(log)
                          /\ log[f[j].cursor.offset].id = f[j].cursor.id
        OBVIOUS
      <4> HIDE DEF n
      <4>1. j \in 1..(Len(log) - n) /\ n + j \in 1..Len(log)
        BY <1>0, <3>1, <3>2
      <4>2. f[j] = [cursor |-> CursorFor(n + j), replay |-> TRUE]
        BY <3>2, <4>1
      <4>3. QED
        BY <4>1, <4>2 DEF CursorFor
    <3>6. ~run[r].live
      BY <1>0, <1>3 DEF Replay, RunOK, ReplayEnds
    <3>7. FramesFollow(r)'
      BY <2>1, <3>3, <3>5, <3>6 DEF FramesFollow, Matches
    <3>8. ReplayEnds(r)'
      <4>1. Len(log) = n + Len(f)
        BY <1>0, <3>1, <3>2
      <4>2. QED
        BY <1>0, <2>1, <3>3, <3>5, <3>6, <4>1 DEF ReplayEnds
    <3>9. RunsOK'
      BY <3>3, <3>4, <3>7, <3>8, OneRun DEF RunOK, FrameInHand
    <3>10. QED
      BY <2>1, <2>2, <3>9 DEF FramesInOrder
  <2>5. QED
    BY <2>3, <2>4
<1>4. CASE Follow(r)
  <2>1. /\ log' = log /\ handled' = handled /\ cursor' = cursor /\ broken' = broken
        /\ synced' = synced
    BY <1>4 DEF Follow
  <2>2. CursorsDurable' /\ AcksHandled'
    BY <2>1, Bystander
  <2> DEFINE a == run[r].frames
             n == run[r].start
             f == framesFrom(n, FALSE)
  <2>3. /\ a \in Seq(Frames) /\ n \in 0..Len(log) /\ Len(a) \in Nat
        /\ run[r].since.offset \in Nat /\ n = run[r].since.offset + Len(a)
    BY <1>0, <1>4, LenProperties DEF Follow, RunOK, ReplayEnds, Runs, Cursors
  <2>4. /\ f \in Seq(Frames) /\ Len(f) = Len(log) - n
        /\ \A j \in 1..(Len(log) - n) : f[j] = [cursor |-> CursorFor(n + j), replay |-> FALSE]
    BY <2>3, FramesFrom
  <2> HIDE DEF f
  <2>5. /\ Len(a \o f) = Len(a) + Len(f)
        /\ \A j \in 1..(Len(a) + Len(f)) :
              (a \o f)[j] = IF j <= Len(a) THEN a[j] ELSE f[j - Len(a)]
    <3>1. a \in Seq(Frames) /\ f \in Seq(Frames)
      BY <2>3, <2>4
    <3> HIDE DEF a
    <3>2. QED
      BY <3>1, ConcatProperties, Zenon
  <2>6. /\ run'[r].step = "handle" /\ run'[r].since = run[r].since
        /\ run'[r].frames = a \o f /\ run'[r].live = run[r].live
        /\ \A q \in Runtimes \ {r} : run'[q] = run[q]
    <3>1. run' = [run EXCEPT ![r].step = "handle", ![r].frames = a \o f]
      BY <1>4 DEF Follow, f
    <3>2. QED
      BY <1>0, <3>1 DEF TypeOK, Runs
  <2>7. AtCursor(r)'
    BY <1>4, <1>0, <2>1, <2>6 DEF Follow, RunOK, AtCursor, Matches, Prefix
  <2>8. ~run[r].live
    BY <1>0, <1>4 DEF Follow, RunOK, ReplayEnds
  <2>9. \A j \in 1..Len(a) : /\ (a \o f)[j].cursor.offset = run[r].since.offset + j
                             /\ Matches((a \o f)[j].cursor) /\ (a \o f)[j].replay
    <3>1. \A j \in 1..Len(a) : (a \o f)[j] = a[j]
      BY <1>0, <2>3, <2>4, <2>5
    <3>2. QED
      BY <1>0, <1>4, <3>1 DEF Follow, RunOK, FramesFollow, ReplayEnds
  <2>10. \A j \in 1..Len(a \o f) : ~(j <= Len(a)) =>
            /\ (a \o f)[j].cursor.offset = run[r].since.offset + j
            /\ Matches((a \o f)[j].cursor) /\ ~(a \o f)[j].replay
    <3> SUFFICES ASSUME NEW j \in 1..Len(a \o f), ~(j <= Len(a))
                 PROVE  /\ (a \o f)[j].cursor.offset = run[r].since.offset + j
                        /\ Matches((a \o f)[j].cursor) /\ ~(a \o f)[j].replay
      OBVIOUS
    <3>1. (a \o f)[j] = f[j - Len(a)] /\ j - Len(a) \in 1..(Len(log) - n)
      BY <1>0, <2>3, <2>4, <2>5
    <3>2. /\ n + (j - Len(a)) = run[r].since.offset + j
          /\ run[r].since.offset + j \in 1..Len(log)
      <4> DEFINE s == run[r].since.offset
      <4>1. s \in Nat /\ Len(a) \in Nat /\ n = s + Len(a) /\ n \in 0..Len(log)
        BY <2>3
      <4> HIDE DEF a, n, s
      <4>2. n + (j - Len(a)) = s + j /\ s + j \in 1..Len(log)
        BY <1>0, <3>1, <4>1
      <4>3. QED
        BY <4>2 DEF s
    <3>3. (a \o f)[j] = [cursor |-> CursorFor(run[r].since.offset + j), replay |-> FALSE]
      BY <2>4, <3>1, <3>2
    <3>4. QED
      BY <3>2, <3>3 DEF CursorFor, Matches
  <2>11. \A j \in 1..Len(a \o f) :
            /\ (a \o f)[j].cursor.offset = run[r].since.offset + j
            /\ Matches((a \o f)[j].cursor)
    BY <2>3, <2>9, <2>10
  <2>12. \A j, k \in 1..Len(a \o f) :
            j < k /\ (a \o f)[k].replay => (a \o f)[j].replay
    BY <2>3, <2>9, <2>10
  <2>13. FramesFollow(r)'
    BY <2>1, <2>6, <2>8, <2>11, <2>12 DEF FramesFollow, Matches
  <2>14. RunsOK'
    BY <2>6, <2>7, <2>13, OneRun DEF RunOK, ReplayEnds, FrameInHand
  <2>15. QED
    BY <2>1, <2>2, <2>14 DEF FramesInOrder
<1>5. QED
  BY <1>1, <1>2, <1>3, <1>4
(* A frame is handled, acknowledged and saved, in this order.              *)
LEMMA FrameSteps ==
    ASSUME IndInv, TypeOK', Grows, NEW r \in Runtimes,
           Handle(r) \/ Ack(r) \/ AckSync(r) \/ Truncate(r) \/ Save(r)
    PROVE  IndInv'
<1> USE DEF IndInv
<1> DEFINE f == run[r].frames[1]
<1>0. /\ Len(log) \in Nat /\ Len(log') \in Nat /\ synced \in Nat /\ synced' \in Nat
      /\ synced <= Len(log) /\ Owner[r] \in Members
      /\ run[r] \in Runs /\ run'[r] \in Runs /\ RunOK(r)
  BY LogFacts, LenProperties DEF TypeOK, RunsOK
<1>1. run[r].frames # <<>>
  BY <1>0 DEF Handle, Ack, AckSync, Truncate, Save, RunOK, FrameInHand
<1>2. /\ f \in Frames /\ f.cursor \in Cursors /\ f.cursor.offset \in Nat
      /\ Head(run[r].frames) = f
      /\ 1 \in 1..Len(run[r].frames) /\ Len(run[r].frames) \in Nat
  BY <1>1, HeadFacts DEF Frames, Cursors
<1>3. /\ f.cursor.offset = run[r].since.offset + 1 /\ run[r].since.offset \in Nat
      /\ Matches(f.cursor) /\ (run[r].live => ~f.replay)
  BY <1>0, <1>2 DEF Handle, Ack, AckSync, Truncate, Save, RunOK, FramesFollow, Runs, Cursors
<1>4. AtCursor(r) /\ FramesFollow(r) /\ run[r].step \notin {"idle", "heartbeat", "replay"}
  BY <1>0 DEF RunOK, Handle, Ack, AckSync, Truncate, Save
<1>5. ASSUME NEW s \in Steps, Goto(r, s), s \notin {"idle", "heartbeat", "replay", "follow"}
      PROVE  /\ AtCursor(r)' /\ FramesFollow(r)' /\ ReplayEnds(r)'
             /\ run'[r].step = s /\ run'[r].frames = run[r].frames
             /\ \A q \in Runtimes \ {r} : run'[q] = run[q]
  <2>1. /\ run'[r].step = s /\ run'[r].since = run[r].since
        /\ run'[r].frames = run[r].frames /\ run'[r].live = run[r].live
        /\ \A q \in Runtimes \ {r} : run'[q] = run[q]
    BY <1>5, GotoFacts
  <2>2. AtCursor(r)'
    BY <1>0, <1>4, <2>1, KeepPrefix, KeepMatches DEF AtCursor, Prefix, Matches
  <2>3. FramesFollow(r)'
    <3> DEFINE a == run[r].frames
    <3>1. /\ \A j \in 1..Len(a) :
                /\ a[j].cursor.offset = run[r].since.offset + j
                /\ Matches(a[j].cursor)
                /\ run[r].live => ~a[j].replay
          /\ \A j, k \in 1..Len(a) : j < k /\ a[k].replay => a[j].replay
      BY <1>4 DEF FramesFollow
    <3>2. \A j \in 1..Len(a) : /\ a[j].cursor.offset \in 1..Len(log')
                               /\ log'[a[j].cursor.offset].id = a[j].cursor.id
      BY <3>1, KeepMatches
    <3>3. QED
      BY <2>1, <3>1, <3>2 DEF FramesFollow, Matches
  <2>4. ReplayEnds(r)'
    BY <1>5, <2>1 DEF ReplayEnds
  <2>5. QED
    BY <2>1, <2>2, <2>3, <2>4
<1> HIDE DEF f
<1>6. CASE Handle(r)
  <2>1. log' = log /\ cursor' = cursor /\ synced' = synced
    BY <1>6 DEF Handle
  <2>2. InOrder(r)
    BY <1>2, <1>3 DEF InOrder
  <2>3. /\ Goto(r, "ack") /\ broken' = broken
        /\ shouldAct(Owner[r], log[f.cursor.offset]) =>
              f.cursor.id \in handled'[Owner[r]]
    BY <1>0, <1>2, <1>6, <2>2 DEF Handle, TypeOK
  <2>4. /\ AtCursor(r)' /\ FramesFollow(r)' /\ ReplayEnds(r)'
        /\ run'[r].step = "ack" /\ run'[r].frames = run[r].frames
        /\ \A q \in Runtimes \ {r} : run'[q] = run[q]
    BY <1>5, <2>3 DEF Steps
  <2>5. /\ run[r].since.offset \in 0..Len(log')
        /\ \A i \in 1..run[r].since.offset :
              shouldAct(Owner[r], log'[i]) => log'[i].id \in handled'[Owner[r]]
    BY <1>0, <1>4, KeepPrefix DEF AtCursor
  <2>6. shouldAct(Owner[r], log'[f.cursor.offset]) =>
           log'[f.cursor.offset].id \in handled'[Owner[r]]
    BY <1>3, <2>1, <2>3 DEF Matches
  <2>7. /\ f.cursor.offset \in 0..Len(log')
        /\ \A i \in 1..f.cursor.offset :
              shouldAct(Owner[r], log'[i]) => log'[i].id \in handled'[Owner[r]]
    BY <1>0, <1>2, <1>3, <2>1, <2>5, <2>6 DEF Matches
  <2>8. FrameInHand(r)'
    BY <1>1, <2>4, <2>7 DEF FrameInHand, Prefix, f
  <2>9. RunsOK'
    BY <2>4, <2>8, OneRun DEF RunOK
  <2>10. CursorsDurable' /\ AcksHandled'
    BY <2>1, Bystander
  <2>11. QED
    BY <2>3, <2>9, <2>10 DEF FramesInOrder
<1>7. ASSUME ~Handle(r) PROVE Prefix(Owner[r], f.cursor.offset)
  BY <1>0, <1>7 DEF RunOK, FrameInHand, Ack, AckSync, Truncate, Save, f
<1>8. ASSUME ~Handle(r)
      PROVE  /\ f.cursor.offset \in 0..Len(log')
             /\ \A i \in 1..f.cursor.offset :
                   shouldAct(Owner[r], log'[i]) => log'[i].id \in handled'[Owner[r]]
  BY <1>0, <1>7, <1>8, KeepPrefix
<1>9. CASE Ack(r)
  <2>0. ~Handle(r)
    BY <1>9 DEF Ack, Handle
  <2>1. cursor' = cursor /\ broken' = broken /\ synced' = synced
    BY <1>9 DEF Ack
  <2>2. CASE Full
    <3>1. log' = log /\ Idles(r)
      BY <1>9, <2>2 DEF Ack, Idles
    <3>2. RunsOK' /\ CursorsDurable' /\ AcksHandled'
      BY <2>1, <3>1, IdleKeepsRuns, Bystander
    <3>3. QED
      BY <2>1, <3>2 DEF FramesInOrder
  <2>3. CASE ~Full
    <3>1. Append1("ack", "atn-controld", Owner[r], f.cursor) /\ Goto(r, "ackSync")
      BY <1>2, <1>3, <1>9, <2>3 DEF Ack
    <3>2. log'[Len(log) + 1] = [id |-> ids + 1, type |-> "ack", from |-> "atn-controld",
                                member |-> Owner[r], cursor |-> f.cursor]
      BY <1>0, <1>2, <3>1, AppendFacts
    <3>3. Len(log') = Len(log) + 1
      BY <1>0, <1>2, <3>1, AppendFacts
    <3>4. /\ AtCursor(r)' /\ FramesFollow(r)' /\ ReplayEnds(r)'
          /\ run'[r].step = "ackSync" /\ run'[r].frames = run[r].frames
          /\ \A q \in Runtimes \ {r} : run'[q] = run[q]
      BY <1>5, <3>1 DEF Steps
    <3>5. FrameInHand(r)'
      BY <1>1, <1>8, <2>0, <3>4 DEF FrameInHand, Prefix, f
    <3>6. RunsOK'
      BY <3>4, <3>5, OneRun DEF RunOK
    <3>7. CursorsDurable'
      BY <2>1, KeepCursor DEF CursorsDurable
    <3>8. AcksHandled'
      <4>1. SUFFICES ASSUME NEW i \in 1..Len(log'), NEW m \in Members,
                            log'[i].type = "ack", log'[i].member = m
                     PROVE  log'[i].cursor.offset < i /\ Prefix(m, log[i].cursor.offset)'
        BY DEF AcksHandled
      <4>2. CASE i \in 1..Len(log)
        BY <4>1, <4>2, KeepAck
      <4>3. CASE i = Len(log) + 1
        <5>1. log'[i].cursor = f.cursor /\ m = Owner[r]
          BY <3>2, <4>1, <4>3
        <5>2. f.cursor.offset < i
          BY <1>0, <1>2, <1>3, <4>3 DEF Matches
        <5>3. QED
          BY <1>8, <2>0, <5>1, <5>2 DEF Prefix
      <4>4. QED
        BY <1>0, <3>3, <4>2, <4>3
    <3>9. QED
      BY <2>1, <3>6, <3>7, <3>8 DEF FramesInOrder
  <2>4. QED
    BY <2>2, <2>3
<1>10. CASE AckSync(r)
  <2>1. log' = log /\ cursor' = cursor /\ broken' = broken /\ synced' = Len(log)
    BY <1>10 DEF AckSync
  <2>2. /\ AtCursor(r)' /\ FramesFollow(r)' /\ ReplayEnds(r)'
        /\ run'[r].step = "truncate" /\ run'[r].frames = run[r].frames
        /\ \A q \in Runtimes \ {r} : run'[q] = run[q]
    BY <1>5, <1>10 DEF AckSync, Steps
  <2>3. f.cursor.offset <= synced' /\ ~Handle(r)
    BY <1>3, <1>10, <2>1 DEF Matches, AckSync, Handle
  <2>4. FrameInHand(r)'
    BY <1>1, <1>8, <2>2, <2>3 DEF FrameInHand, Prefix, f
  <2>5. RunsOK'
    BY <2>2, <2>4, OneRun DEF RunOK
  <2>6. CursorsDurable' /\ AcksHandled'
    BY <2>1, Bystander
  <2>7. QED
    BY <2>1, <2>5, <2>6 DEF FramesInOrder
<1>11. CASE Truncate(r)
  <2>1. /\ log' = log /\ cursor' = [cursor EXCEPT ![Owner[r]] = NoCursor]
        /\ broken' = broken /\ synced' = synced
    BY <1>11 DEF Truncate
  <2>2. /\ AtCursor(r)' /\ FramesFollow(r)' /\ ReplayEnds(r)'
        /\ run'[r].step = "save" /\ run'[r].frames = run[r].frames
        /\ \A q \in Runtimes \ {r} : run'[q] = run[q]
    BY <1>5, <1>11 DEF Truncate, Steps
  <2>3. f.cursor.offset <= synced' /\ ~Handle(r)
    BY <1>0, <1>11, <2>1 DEF RunOK, FrameInHand, Truncate, Handle, f
  <2>4. FrameInHand(r)'
    BY <1>1, <1>8, <2>2, <2>3 DEF FrameInHand, Prefix, f
  <2>5. RunsOK'
    BY <2>2, <2>4, OneRun DEF RunOK
  <2>6. AcksHandled'
    BY <2>1, KeepAcks
  <2>7. CursorsDurable'
    <3>1. SUFFICES ASSUME NEW m \in Members
                   PROVE  /\ cursor'[m] \in {NoCursor, Mixed} \/ Matches(cursor[m])'
                          /\ cursor'[m].offset <= synced' /\ Prefix(m, cursor[m].offset)'
      BY DEF CursorsDurable
    <3>2. CASE m = Owner[r]
      <4>1. cursor'[m] = NoCursor /\ cursor'[m].offset = 0
        BY <2>1, <3>2, IdleRun DEF TypeOK
      <4>2. QED
        BY <1>0, <4>1 DEF Prefix
    <3>3. CASE m # Owner[r]
      <4>1. cursor'[m] = cursor[m]
        BY <2>1, <3>3 DEF TypeOK
      <4>2. QED
        BY <4>1, KeepCursor
    <3>4. QED
      BY <3>2, <3>3
  <2>8. QED
    BY <2>1, <2>5, <2>6, <2>7 DEF FramesInOrder
<1>12. CASE Save(r)
  <2>0. ~Handle(r)
    BY <1>12 DEF Save, Handle
  <2>1. log' = log /\ broken' = broken /\ synced' = synced
    BY <1>12 DEF Save
  <2>2. /\ run'[r].step = "handle" /\ run'[r].since = f.cursor
        /\ run'[r].frames = Tail(run[r].frames)
        /\ run'[r].live <=> run[r].live \/ ~f.replay
        /\ \E content \in {f.cursor, Mixed} :
              cursor' = [cursor EXCEPT ![Owner[r]] = content]
        /\ \A q \in Runtimes \ {r} : run'[q] = run[q]
    BY <1>1, <1>12, SaveFacts DEF f
  <2>3. f.cursor.offset <= synced
    BY <1>0, <1>12 DEF RunOK, FrameInHand, Save, f
  <2>4. AtCursor(r)'
    BY <1>3, <1>8, <2>0, <2>1, <2>2 DEF AtCursor, Prefix, Matches
  <2>5. FramesFollow(r)'
    <3> DEFINE a == run[r].frames
               t == Tail(run[r].frames)
    <3>1. /\ Len(t) = Len(a) - 1 /\ \A j \in 1..Len(t) : t[j] = a[j + 1]
      BY <1>1, HeadFacts
    <3>2. \A j \in 1..Len(t) : j + 1 \in 1..Len(a) /\ 1 < j + 1
      BY <1>2, <3>1
    <3>3. \A j \in 1..Len(a) :
             /\ a[j].cursor.offset = run[r].since.offset + j
             /\ Matches(a[j].cursor)
             /\ run[r].live => ~a[j].replay
      BY <1>4 DEF FramesFollow
    <3>4. \A j, k \in 1..Len(a) : j < k /\ a[k].replay => a[j].replay
      BY <1>4 DEF FramesFollow
    <3> HIDE DEF t
    <3>5. ASSUME NEW j \in 1..Len(t)
          PROVE  /\ t[j].cursor.offset = f.cursor.offset + j
                 /\ Matches(t[j].cursor)
                 /\ run'[r].live => ~t[j].replay
      <4>1. t[j] = a[j + 1] /\ j + 1 \in 1..Len(a) /\ 1 < j + 1
        BY <3>1, <3>2
      <4>2. /\ t[j].cursor.offset = run[r].since.offset + (j + 1)
            /\ Matches(t[j].cursor)
            /\ run[r].live => ~t[j].replay
        BY <3>3, <4>1
      <4>3. ~f.replay => ~t[j].replay
        BY <1>2, <3>4, <4>1 DEF f
      <4>4. t[j].cursor.offset = f.cursor.offset + j
        <5> DEFINE s == run[r].since.offset
        <5>1. s \in Nat /\ f.cursor.offset = s + 1 /\ t[j].cursor.offset = s + (j + 1)
          BY <1>3, <4>2
        <5>2. j \in Nat
          BY <1>2, <3>1
        <5> HIDE DEF s
        <5>3. QED
          BY <5>1, <5>2
      <4>5. QED
        BY <2>2, <4>2, <4>3, <4>4
    <3>6. ASSUME NEW j \in 1..Len(t), NEW k \in 1..Len(t), j < k, t[k].replay
          PROVE  t[j].replay
      BY <3>1, <3>2, <3>4, <3>6
    <3>7. QED
      BY <2>1, <2>2, <3>5, <3>6 DEF FramesFollow, Matches, t
  <2>6. RunsOK'
    BY <2>2, <2>4, <2>5, OneRun DEF RunOK, ReplayEnds, FrameInHand
  <2>7. AcksHandled'
    BY <2>1, KeepAcks
  <2>8. CursorsDurable'
    <3>1. SUFFICES ASSUME NEW m \in Members
                   PROVE  /\ cursor'[m] \in {NoCursor, Mixed} \/ Matches(cursor[m])'
                          /\ cursor'[m].offset <= synced' /\ Prefix(m, cursor[m].offset)'
      BY DEF CursorsDurable
    <3>2. CASE m = Owner[r]
      <4>1. cursor'[m] \in {f.cursor, Mixed}
        BY <2>2, <3>2 DEF TypeOK
      <4>2. CASE cursor'[m] = f.cursor
        BY <1>3, <1>8, <2>0, <2>1, <2>3, <3>2, <4>2 DEF Prefix, Matches
      <4>3. CASE cursor'[m] = Mixed
        <5>1. cursor'[m].offset = 0
          BY <4>3, IdleRun
        <5>2. QED
          BY <1>0, <4>3, <5>1 DEF Prefix
      <4>4. QED
        BY <4>1, <4>2, <4>3
    <3>3. CASE m # Owner[r]
      <4>1. cursor'[m] = cursor[m]
        BY <2>2, <3>3 DEF TypeOK
      <4>2. QED
        BY <4>1, KeepCursor
    <3>4. QED
      BY <3>2, <3>3
  <2>9. QED
    BY <2>1, <2>6, <2>7, <2>8 DEF FramesInOrder
<1>13. QED
  BY <1>6, <1>9, <1>10, <1>11, <1>12
(* A power loss takes back lines, but none before a saved cursor, and ends *)
(* every run.                                                              *)
LEMMA PowerLossKeeps ==
    ASSUME IndInv, TypeOK', PowerLoss
    PROVE  IndInv'
<1> USE DEF IndInv
<1>0. Len(log) \in Nat /\ synced \in Nat /\ synced <= Len(log)
  BY LogFacts
<1>1. PICK n \in synced..Len(log) : log' = SubSeq(log, 1, n) /\ synced' = n
  BY DEF PowerLoss
<1>2. n \in Nat /\ synced <= n /\ n <= Len(log)
  BY <1>0
<1>3. Len(log') = n /\ \A i \in 1..n : log'[i] = log[i]
  BY <1>0, <1>1, <1>2, SubSeqProperties DEF TypeOK
<1>4. handled' = handled /\ broken' = broken /\ run' = [r \in Runtimes |-> Idle]
  BY DEF PowerLoss
<1>5. RunsOK'
  BY <1>4, IdleRun DEF RunsOK, RunOK, AtCursor, FramesFollow, ReplayEnds, FrameInHand
<1>6. ASSUME NEW m \in Members, NEW k, Prefix(m, k), k <= n
      PROVE  /\ k \in 0..Len(log')
             /\ \A i \in 1..k : shouldAct(m, log'[i]) => log'[i].id \in handled'[m]
  <2>1. k \in Nat /\ \A i \in 1..k : i \in 1..n
    BY <1>0, <1>2, <1>6 DEF Prefix
  <2>2. QED
    BY <1>2, <1>3, <1>4, <1>6, <2>1 DEF Prefix
<1>7. CursorsDurable'
  <2>1. SUFFICES ASSUME NEW m \in Members
                 PROVE  /\ cursor'[m] \in {NoCursor, Mixed} \/ Matches(cursor[m])'
                        /\ cursor'[m].offset <= synced' /\ Prefix(m, cursor[m].offset)'
    BY DEF CursorsDurable
  <2>2. cursor'[m] = NoCursor \/ cursor'[m] = cursor[m]
    BY DEF PowerLoss
  <2>3. CASE cursor'[m] = NoCursor
    <3>1. cursor'[m].offset = 0
      BY <2>3, IdleRun
    <3>2. QED
      BY <1>1, <1>2, <1>3, <2>3, <3>1 DEF Prefix
  <2>4. CASE cursor'[m] = cursor[m]
    <3>1. /\ cursor[m] \in {NoCursor, Mixed} \/ Matches(cursor[m])
          /\ cursor[m].offset <= synced /\ Prefix(m, cursor[m].offset)
          /\ cursor[m].offset \in Nat
      BY DEF CursorsDurable, TypeOK, Cursors
    <3>2. cursor[m].offset <= n
      BY <1>0, <1>2, <3>1
    <3>3. Prefix(m, cursor[m].offset)'
      BY <1>6, <2>4, <3>1, <3>2 DEF Prefix
    <3>4. cursor'[m] \in {NoCursor, Mixed} \/ Matches(cursor[m])'
      BY <1>2, <1>3, <2>4, <3>1, <3>2 DEF Matches
    <3>5. QED
      BY <1>1, <2>4, <3>2, <3>3, <3>4
  <2>5. QED
    BY <2>2, <2>3, <2>4
<1>8. AcksHandled'
  <2>1. SUFFICES ASSUME NEW i \in 1..Len(log'), NEW m \in Members,
                        log'[i].type = "ack", log'[i].member = m
                 PROVE  log'[i].cursor.offset < i /\ Prefix(m, log[i].cursor.offset)'
    BY DEF AcksHandled
  <2>2. i \in 1..n /\ i \in 1..Len(log) /\ log'[i] = log[i]
    BY <1>0, <1>2, <1>3
  <2>3. log[i].cursor.offset < i /\ Prefix(m, log[i].cursor.offset)
    BY <2>1, <2>2 DEF AcksHandled
  <2>4. log[i].cursor.offset <= n
    BY <1>0, <1>2, <2>2, <2>3 DEF Prefix
  <2>5. QED
    BY <1>6, <2>2, <2>3, <2>4 DEF Prefix
<1>9. QED
  BY <1>4, <1>5, <1>7, <1>8 DEF FramesInOrder

(* Every step of the specification keeps the invariant.                    *)
LEMMA Inductive == IndInv /\ [Next]_vars => IndInv'
<1> SUFFICES ASSUME IndInv, [Next]_vars PROVE IndInv'
  OBVIOUS
<1>1. TypeOK' /\ (Grows \/ PowerLoss)
  BY TypeStep DEF IndInv
<1>2. CASE PowerLoss
  BY <1>1, <1>2, PowerLossKeeps
<1>3. CASE Grows /\ ~PowerLoss
  <2>1. CASE \/ \E from \in Members \cup {Moderator} : Send(from)
             \/ SendSyncs
             \/ \E r \in Runtimes : Done(r) \/ RunFails(r)
             \/ UNCHANGED vars
    BY <1>1, <1>3, <2>1, QuietSteps
  <2>2. ASSUME NEW r \in Runtimes, Load(r) \/ Heartbeat(r) \/ Replay(r) \/ Follow(r)
        PROVE  IndInv'
    BY <1>1, <1>3, <2>2, ReadSteps
  <2>3. ASSUME NEW r \in Runtimes,
               Handle(r) \/ Ack(r) \/ AckSync(r) \/ Truncate(r) \/ Save(r)
        PROVE  IndInv'
    BY <1>1, <1>3, <2>3, FrameSteps
  <2>4. QED
    BY <1>3, <2>1, <2>2, <2>3 DEF Next, RunOnce
<1>4. QED
  BY <1>1, <1>2, <1>3

(* The acknowledged cursor that stream.status shows for a member: what     *)
(* lies before it has been handled too.                                    *)
LEMMA StatusIsHandled ==
    ASSUME IndInv, NEW m \in Members
    PROVE  Prefix(m, StatusCursor(m).offset)
<1> DEFINE acks == {i \in 1..Len(log) : log[i].type = "ack" /\ log[i].member = m}
           last == CHOOSE i \in acks : \A j \in acks : j <= i
<1>1. Len(log) \in Nat
  BY LogFacts DEF IndInv
<1>2. CASE acks = {}
  <2>1. StatusCursor(m) = NoCursor
    BY <1>2 DEF StatusCursor
  <2>2. QED
    BY <1>1, <2>1, IdleRun DEF Prefix
<1>3. CASE acks # {}
  <2>1. acks \in SUBSET (1..Len(log))
    OBVIOUS
  <2>2. \E i \in acks : \A j \in acks : j <= i
    <3> HIDE DEF acks
    <3> QED
      BY <1>1, <1>3, <2>1, Greatest
  <2>3. last \in acks
    BY <2>2
  <2>4. StatusCursor(m) = log[last].cursor
    BY <1>3 DEF StatusCursor
  <2>5. QED
    BY <2>3, <2>4 DEF IndInv, AcksHandled
<1>4. QED
  BY <1>2, <1>3

(* The invariant gives the properties that are checked.                    *)
LEMMA Consequences == IndInv => TypeOK /\ SavedIsHandled /\ FramesInOrder
<1> SUFFICES ASSUME IndInv PROVE SavedIsHandled
  BY DEF IndInv
<1>1. SavedIsHandled
  <2>1. SUFFICES ASSUME NEW m \in Members, NEW c \in {cursor[m], StatusCursor(m)},
                        NEW i \in 1..c.offset, shouldAct(m, log[i])
                 PROVE  log[i].id \in handled[m]
    BY DEF SavedIsHandled
  <2>2. Prefix(m, c.offset)
    BY StatusIsHandled DEF IndInv, CursorsDurable
  <2>3. QED
    BY <2>1, <2>2 DEF Prefix
<1>2. QED
  BY <1>1

(* A file that is refused after a step and was not before is mixed, and    *)
(* only Save mixes a file, with what another runtime left in it.           *)
LEMMA MixedBySave ==
    ASSUME IndInv, IndInv', [Next]_vars, NEW m \in Members, Refused(m)', ~Refused(m)
    PROVE  \E r \in Runtimes : /\ Owner[r] = m /\ run[r].step = "save"
                               /\ cursor[m] # NoCursor
<1>1. cursor'[m] = Mixed
  BY DEF IndInv, CursorsDurable, Refused
<1>2. cursor[m] # Mixed
  BY IdleRun DEF Refused, Matches
<1>3. cursor \in [Members -> Cursors]
  BY DEF IndInv, TypeOK
<1>4. ASSUME NEW r \in Runtimes, Save(r)
      PROVE  Owner[r] = m /\ run[r].step = "save" /\ cursor[m] # NoCursor
  <2>1. run[r].frames # <<>>
    BY <1>4 DEF Save, IndInv, RunsOK, RunOK, FrameInHand
  <2> DEFINE c == Head(run[r].frames).cursor
  <2>2. c # Mixed
    <3>1. c = run[r].frames[1].cursor /\ 1 \in 1..Len(run[r].frames)
      BY <2>1, HeadFacts DEF IndInv
    <3>2. Matches(c)
      BY <1>4, <3>1 DEF Save, IndInv, RunsOK, RunOK, FramesFollow
    <3>3. QED
      BY <3>2, IdleRun DEF Matches
  <2> HIDE DEF c
  <2>3. PICK content \in Written(Owner[r], c) :
             cursor' = [cursor EXCEPT ![Owner[r]] = content]
    BY <1>4 DEF Save, c
  <2>4. Owner[r] = m /\ content = Mixed
    BY <1>1, <1>2, <1>3, <2>3
  <2>5. cursor[m] # NoCursor
    BY <2>2, <2>4 DEF Written
  <2>6. QED
    BY <1>4, <2>4, <2>5 DEF Save
<1>5. CASE \E r \in Runtimes : Save(r)
  BY <1>4, <1>5
<1>6. ASSUME NEW r \in Runtimes, Truncate(r) PROVE FALSE
  BY <1>1, <1>2, <1>3, <1>6, IdleRun DEF Truncate
<1>7. CASE PowerLoss
  BY <1>1, <1>2, <1>7, IdleRun DEF PowerLoss
<1>8. CASE cursor' = cursor
  BY <1>1, <1>2, <1>8
<1>9. \/ \E r \in Runtimes : Save(r) \/ Truncate(r)
      \/ PowerLoss \/ cursor' = cursor
  BY DEF Next, RunOnce, vars, Send, SendSyncs, Load, Heartbeat, Replay, Follow, Handle,
         Ack, AckSync, Done, RunFails
<1>10. QED
  BY <1>5, <1>6, <1>7, <1>8, <1>9

-----------------------------------------------------------------------------
(* The invariant holds in every reachable state.                           *)
THEOREM InvariantHolds == Spec => []IndInv
  BY InitInv, Inductive, PTL DEF Spec

(* Every variable of the stream keeps its type, and the synced lines are   *)
(* lines of the log.                                                       *)
THEOREM TypeCorrect == Spec => []TypeOK
  BY InvariantHolds, Consequences, PTL

(* No event a member should act on is skipped: whatever lies before its    *)
(* saved cursor, or before the one stream.status shows, has been handled,  *)
(* with any number of runtimes of one member, failed runs, cursor files    *)
(* cut short and power losses.                                             *)
THEOREM NothingIsSkipped == Spec => []SavedIsHandled
  BY InvariantHolds, Consequences, PTL

(* A cursor file goes bad only when two runtimes of one member write it at *)
(* once: replayStartOffset refuses no other, since the line a cursor names *)
(* is synced before FileCursorStore.Save writes it.                        *)
THEOREM SavedCursorsStayKnown == Spec => SavedIsKnown
<1> DEFINE Step == \A m \in Members : Refused(m)' /\ ~Refused(m) =>
                      \E r \in Runtimes : /\ Owner[r] = m /\ run[r].step = "save"
                                           /\ cursor[m] # NoCursor
<1>1. IndInv /\ IndInv' /\ [Next]_vars => [Step]_vars
  BY MixedBySave
<1>2. QED
  BY <1>1, InvariantHolds, PTL DEF Spec, SavedIsKnown

(* RunOnce's checks for gaps and for replayed frames behind live ones      *)
(* never fire on what the daemon sends.                                    *)
THEOREM FramesArriveInOrder == Spec => []FramesInOrder
  BY InvariantHolds, Consequences, PTL
=============================================================================
