----------------------- MODULE SpeakerDispatchProofs -----------------------
(***************************************************************************)
(* SpeakerDispatch, and the verdict RunnerAccounting derives from it, for  *)
(* any number of grants, handlers, requests, retries, crashes and failed   *)
(* appends.                                                                *)
(***************************************************************************)
EXTENDS RunnerAccounting, FiniteSetTheorems, TLAPS

(* A handler that dispatches: it goes from the readiness checks to the     *)
(* speech, the failure or the discard of its grant.                        *)
Dispatching(h) == pc[h] \in Steps \ {"idle", "record", "check", "diagnose", "byhand"}

(* Attempts are counted from the request; a retry had one and has one left. *)
AttemptsLeft ==
    \A h \in Handlers :
        /\ pc[h] \in {"record", "check", "prepare", "prepared"} => attempt[h] = 0
        /\ pc[h] \in {"start", "retry"} => attempt[h] <= MaxRetries
        /\ pc[h] \in {"run", "retry"} => attempt[h] > 0

(* Only the first attempt has no runner_invocation_started event behind it.*)
StartedFirst ==
    /\ \A h \in Handlers :
          Dispatching(h) /\ ~Launching(h) => started[job[h]] > 0
    /\ \A g \in Grants : posted[g] > 0 \/ spoken[g] > 0 => started[g] > 0

(* A grant that is not raced has at most one dispatch under way, and one   *)
(* that has not called its runner yet finds nothing started.               *)
OneDispatch ==
    /\ \A h, k \in Handlers :
          Dispatching(h) /\ Dispatching(k) /\ job[h] = job[k] /\ job[h] \notin raced
              => h = k
    /\ \A h \in Handlers : Launching(h) /\ job[h] \notin raced => started[job[h]] = 0

(* Before its delivery a dispatch finds no message; it never finds a       *)
(* speech on record.                                                       *)
NothingYet ==
    \A h \in Handlers : Dispatching(h) /\ job[h] \notin raced =>
        /\ pc[h] \in {"prepare", "prepared", "start", "run", "retry", "validate", "deliver"}
              => posted[job[h]] = 0
        /\ spoken[job[h]] = 0

IndInv == TypeOK /\ AttemptsLeft /\ StartedFirst /\ OneDispatch /\ NothingYet /\ SpeaksOnce

(* Initially no handler works and nothing is recorded.                     *)
LEMMA InitInv == Init => IndInv
  BY DispatchConstants DEF Init, IndInv, TypeOK, StartedFirst, OneDispatch,
     NothingYet, SpeaksOnce, AttemptsLeft, Dispatching, Launching, Steps

USE DEF Goto, Answer, Count, Outcome, Written, Launch, events, marks

(* Every step preserves the type invariant.                                *)
LEMMA TypeStep ==
    TypeOK /\ AttemptsLeft /\ [Next]_vars => (TypeOK /\ AttemptsLeft)'
<1> DEFINE Typed == TypeOK /\ AttemptsLeft
<1> SUFFICES ASSUME Typed, [Next]_vars PROVE Typed'
  OBVIOUS
<1> USE DispatchConstants DEF TypeOK, AttemptsLeft, Steps
<1>1. ASSUME NEW h \in Handlers, CheckGrant(h) PROVE Typed'
  BY <1>1 DEF CheckGrant
<1>2. ASSUME NEW h \in Handlers, RunnerReturns(h) PROVE Typed'
  BY <1>2 DEF RunnerReturns
<1>3. ASSUME NEW h \in Handlers, Validate(h) PROVE Typed'
  BY <1>3 DEF Validate
<1>4. ASSUME NEW h \in Handlers, NEW w \in BOOLEAN, NEW ok \in BOOLEAN, RecordGrant(h, w, ok)
      PROVE  Typed'
  BY <1>4 DEF RecordGrant
<1>5. ASSUME NEW h \in Handlers, NEW w \in BOOLEAN, NEW ok \in BOOLEAN, Prepare(h, w, ok)
      PROVE  Typed'
  BY <1>5 DEF Prepare
<1>6. ASSUME NEW h \in Handlers, NEW w \in BOOLEAN, NEW ok \in BOOLEAN, Start(h, w, ok)
      PROVE  Typed'
  BY <1>6 DEF Start
<1>7. ASSUME NEW h \in Handlers, NEW w \in BOOLEAN, NEW ok \in BOOLEAN, Retry(h, w, ok)
      PROVE  Typed'
  BY <1>7 DEF Retry
<1>8. ASSUME NEW h \in Handlers, NEW w \in BOOLEAN, NEW ok \in BOOLEAN, Deliver(h, w, ok)
      PROVE  Typed'
  BY <1>8 DEF Deliver
<1>9. ASSUME NEW h \in Handlers, NEW w \in BOOLEAN, NEW ok \in BOOLEAN, Succeed(h, w, ok)
      PROVE  Typed'
  BY <1>9 DEF Succeed
<1>10. ASSUME NEW h \in Handlers, NEW w \in BOOLEAN, NEW ok \in BOOLEAN, Speak(h, w, ok)
      PROVE  Typed'
  BY <1>10 DEF Speak
<1>11. ASSUME NEW h \in Handlers, NEW w \in BOOLEAN, NEW ok \in BOOLEAN, Fail(h, w, ok)
      PROVE  Typed'
  BY <1>11 DEF Fail
<1>12. ASSUME NEW h \in Handlers, NEW w \in BOOLEAN, NEW ok \in BOOLEAN, Diagnose(h, w, ok)
      PROVE  Typed'
  BY <1>12 DEF Diagnose
<1>13. ASSUME NEW h \in Handlers, NEW g \in Grants, Receive(h, g) PROVE Typed'
  BY <1>13 DEF Receive
<1>14. CASE ChangePhase
  BY <1>14 DEF ChangePhase
<1>15. CASE Crash
  BY <1>15 DEF Crash
<1>16. CASE UNCHANGED vars
  BY <1>16 DEF vars
<1>17. ASSUME NEW h \in Handlers, NEW g \in Grants, CheckSpeech(h, g) PROVE Typed'
  BY <1>17 DEF CheckSpeech
<1>18. ASSUME NEW h \in Handlers, NEW w \in BOOLEAN, NEW ok \in BOOLEAN, RecordSpeech(h, w, ok)
      PROVE  Typed'
  BY <1>18 DEF RecordSpeech
<1>19. QED
  BY <1>1, <1>2, <1>3, <1>4, <1>5, <1>6, <1>7, <1>8, <1>9, <1>10, <1>11, <1>12, <1>13, <1>14,
     <1>15, <1>16, <1>17, <1>18 DEF Next, Step, AppendStep

(* Every step preserves the rest of the invariant.                         *)
LEMMA DispatchStep ==
    IndInv /\ [Next]_vars => (StartedFirst /\ OneDispatch /\ NothingYet /\ SpeaksOnce)'
<1> DEFINE Rest == StartedFirst /\ OneDispatch /\ NothingYet /\ SpeaksOnce
<1> SUFFICES ASSUME IndInv, [Next]_vars PROVE Rest'
  OBVIOUS
<1> USE DispatchConstants DEF IndInv, TypeOK, Steps, AttemptsLeft, StartedFirst,
        OneDispatch, NothingYet, SpeaksOnce, Dispatching, Launching
<1>1. ASSUME NEW h \in Handlers, CheckGrant(h) PROVE Rest'
  <2> USE <1>1
  <2>1. CASE ~Launch(h)
    BY <2>1 DEF CheckGrant
  <2>2. CASE Launch(h)
    <3>1. /\ started[job[h]] = 0 /\ attempt[h] = 0
          /\ UNCHANGED <<events, job, attempt>>
          /\ raced \subseteq raced' /\ raced' \subseteq raced \cup {job[h]}
      BY <2>2 DEF CheckGrant
    <3>2. posted[job[h]] = 0 /\ spoken[job[h]] = 0
      BY <3>1
    <3>3. job[h] \notin raced' =>
            \A k \in Handlers : job[k] = job[h] => ~Dispatching(k)
      BY <2>2, <3>1 DEF CheckGrant
    <3>4. QED
      BY <2>2, <3>1, <3>2, <3>3
  <2>3. QED
    BY <2>1, <2>2
<1>2. ASSUME NEW h \in Handlers, RunnerReturns(h) PROVE Rest'
  BY <1>2 DEF RunnerReturns
<1>3. ASSUME NEW h \in Handlers, Validate(h) PROVE Rest'
  BY <1>3 DEF Validate
<1>4. ASSUME NEW h \in Handlers, NEW w \in BOOLEAN, NEW ok \in BOOLEAN, RecordGrant(h, w, ok)
      PROVE  Rest'
  BY <1>4 DEF RecordGrant
<1>5. ASSUME NEW h \in Handlers, NEW w \in BOOLEAN, NEW ok \in BOOLEAN, Prepare(h, w, ok)
      PROVE  Rest'
  BY <1>5 DEF Prepare
<1>6. ASSUME NEW h \in Handlers, NEW w \in BOOLEAN, NEW ok \in BOOLEAN, Start(h, w, ok)
      PROVE  Rest'
  <2> USE <1>6
  <2>1. CASE UNCHANGED <<started, attempt>> /\ pc' = [pc EXCEPT ![h] = "diagnose"]
    BY <2>1 DEF Start
  <2>2. CASE attempt' = [attempt EXCEPT ![h] = @ + 1]
    <3>1. /\ pc[h] = "start" /\ attempt'[h] > 0
          /\ pc' = [pc EXCEPT ![h] = IF ok THEN "run" ELSE "diagnose"]
          /\ UNCHANGED <<job, raced, posted, spoken>>
          /\ \A g \in Grants : g # job[h] => started'[g] = started[g]
      BY <2>2 DEF Start
    <3>2. /\ \A g \in Grants : started'[g] >= started[g] /\ started'[g] \in Nat
          /\ ok => started'[job[h]] > 0
      BY <2>2 DEF Start
    <3>3. StartedFirst'
      BY <2>2, <3>1, <3>2
    <3>4. OneDispatch'
      BY <2>2, <3>1
    <3>5. (NothingYet /\ SpeaksOnce)'
      BY <2>2, <3>1
    <3>6. QED
      BY <3>3, <3>4, <3>5
  <2>3. QED
    BY <2>1, <2>2 DEF Start
<1>7. ASSUME NEW h \in Handlers, NEW w \in BOOLEAN, NEW ok \in BOOLEAN, Retry(h, w, ok)
      PROVE  Rest'
  BY <1>7 DEF Retry
<1>8. ASSUME NEW h \in Handlers, NEW w \in BOOLEAN, NEW ok \in BOOLEAN, Deliver(h, w, ok)
      PROVE  Rest'
  BY <1>8 DEF Deliver
<1>9. ASSUME NEW h \in Handlers, NEW w \in BOOLEAN, NEW ok \in BOOLEAN, Succeed(h, w, ok)
      PROVE  Rest'
  BY <1>9 DEF Succeed
<1>10. ASSUME NEW h \in Handlers, NEW w \in BOOLEAN, NEW ok \in BOOLEAN, Speak(h, w, ok)
      PROVE  Rest'
  BY <1>10 DEF Speak
<1>11. ASSUME NEW h \in Handlers, NEW w \in BOOLEAN, NEW ok \in BOOLEAN, Fail(h, w, ok)
      PROVE  Rest'
  BY <1>11 DEF Fail
<1>12. ASSUME NEW h \in Handlers, NEW w \in BOOLEAN, NEW ok \in BOOLEAN, Diagnose(h, w, ok)
      PROVE  Rest'
  BY <1>12 DEF Diagnose
<1>13. ASSUME NEW h \in Handlers, NEW g \in Grants, Receive(h, g) PROVE Rest'
  BY <1>13 DEF Receive
<1>14. CASE ChangePhase
  BY <1>14 DEF ChangePhase
<1>15. CASE Crash
  BY <1>15 DEF Crash
<1>16. CASE UNCHANGED vars
  BY <1>16 DEF vars
<1>17. ASSUME NEW h \in Handlers, NEW g \in Grants, CheckSpeech(h, g) PROVE Rest'
  BY <1>17 DEF CheckSpeech
<1>18. ASSUME NEW h \in Handlers, NEW w \in BOOLEAN, NEW ok \in BOOLEAN, RecordSpeech(h, w, ok)
      PROVE  Rest'
  BY <1>18 DEF RecordSpeech
<1>19. QED
  BY <1>1, <1>2, <1>3, <1>4, <1>5, <1>6, <1>7, <1>8, <1>9, <1>10, <1>11, <1>12, <1>13, <1>14,
     <1>15, <1>16, <1>17, <1>18 DEF Next, Step, AppendStep

(* The inductive invariant holds in every state.                           *)
THEOREM Inductive == Spec => []IndInv
<1>1. IndInv /\ [Next]_vars => IndInv'
  BY TypeStep, DispatchStep DEF IndInv
<1>2. QED
  BY InitInv, <1>1, PTL DEF Spec

(* Every field keeps its type; no dispatch runs more attempts than the     *)
(* retry limit allows.                                                     *)
THEOREM TypeCorrect == Spec => []TypeOK
<1>1. IndInv => TypeOK
  BY DEF IndInv
<1>2. QED
  BY <1>1, Inductive, PTL

(* The member of a grant that two handlers do not set out to dispatch      *)
(* together posts and speaks at most once, over every number of retried    *)
(* requests, crashes and failed appends.                                   *)
THEOREM SpeaksAtMostOnce == Spec => []SpeaksOnce
<1>1. IndInv => SpeaksOnce
  BY DEF IndInv
<1>2. QED
  BY <1>1, Inductive, PTL

(* A grant answered with success has its outcome on record.                *)
THEOREM AnsweredSettled == Spec => []AnsweredIsSettled
<1> DEFINE Inv == TypeOK /\ AttemptsLeft /\ AnsweredIsSettled
<1>1. Init => Inv
  BY InitInv DEF IndInv, Init, AnsweredIsSettled
<1>2. Inv /\ [Next]_vars => Inv'
  <2> SUFFICES ASSUME Inv, [Next]_vars PROVE AnsweredIsSettled'
    BY TypeStep
  <2> USE DEF AnsweredIsSettled, Recorded, TypeOK
  <2>1. ASSUME NEW h \in Handlers, CheckGrant(h) PROVE AnsweredIsSettled'
    BY <2>1 DEF CheckGrant
  <2>2. ASSUME NEW h \in Handlers, RunnerReturns(h) PROVE AnsweredIsSettled'
    BY <2>2 DEF RunnerReturns
  <2>3. ASSUME NEW h \in Handlers, Validate(h) PROVE AnsweredIsSettled'
    BY <2>3 DEF Validate
  <2>4. ASSUME NEW h \in Handlers, NEW w \in BOOLEAN, NEW ok \in BOOLEAN, RecordGrant(h, w, ok)
        PROVE  AnsweredIsSettled'
    BY <2>4 DEF RecordGrant
  <2>5. ASSUME NEW h \in Handlers, NEW w \in BOOLEAN, NEW ok \in BOOLEAN, Prepare(h, w, ok)
        PROVE  AnsweredIsSettled'
    BY <2>5 DEF Prepare
  <2>6. ASSUME NEW h \in Handlers, NEW w \in BOOLEAN, NEW ok \in BOOLEAN, Start(h, w, ok)
        PROVE  AnsweredIsSettled'
    BY <2>6 DEF Start
  <2>7. ASSUME NEW h \in Handlers, NEW w \in BOOLEAN, NEW ok \in BOOLEAN, Retry(h, w, ok)
        PROVE  AnsweredIsSettled'
    BY <2>7 DEF Retry
  <2>8. ASSUME NEW h \in Handlers, NEW w \in BOOLEAN, NEW ok \in BOOLEAN, Deliver(h, w, ok)
        PROVE  AnsweredIsSettled'
    BY <2>8 DEF Deliver
  <2>9. ASSUME NEW h \in Handlers, NEW w \in BOOLEAN, NEW ok \in BOOLEAN, Succeed(h, w, ok)
        PROVE  AnsweredIsSettled'
    BY <2>9 DEF Succeed
  <2>10. ASSUME NEW h \in Handlers, NEW w \in BOOLEAN, NEW ok \in BOOLEAN, Speak(h, w, ok)
        PROVE  AnsweredIsSettled'
    BY <2>10 DEF Speak
  <2>11. ASSUME NEW h \in Handlers, NEW w \in BOOLEAN, NEW ok \in BOOLEAN, Fail(h, w, ok)
        PROVE  AnsweredIsSettled'
    BY <2>11 DEF Fail
  <2>12. ASSUME NEW h \in Handlers, NEW w \in BOOLEAN, NEW ok \in BOOLEAN, Diagnose(h, w, ok)
        PROVE  AnsweredIsSettled'
    BY <2>12 DEF Diagnose
  <2>13. ASSUME NEW h \in Handlers, NEW g \in Grants, Receive(h, g)
        PROVE  AnsweredIsSettled'
    BY <2>13 DEF Receive
  <2>14. CASE ChangePhase \/ Crash \/ UNCHANGED vars
    BY <2>14 DEF ChangePhase, Crash, vars
  <2>15. ASSUME NEW h \in Handlers, NEW g \in Grants, CheckSpeech(h, g)
        PROVE  AnsweredIsSettled'
    BY <2>15 DEF CheckSpeech
  <2>16. ASSUME NEW h \in Handlers, NEW w \in BOOLEAN, NEW ok \in BOOLEAN, RecordSpeech(h, w, ok)
        PROVE  AnsweredIsSettled'
    BY <2>16 DEF RecordSpeech
  <2>17. QED
    BY <2>1, <2>2, <2>3, <2>4, <2>5, <2>6, <2>7, <2>8, <2>9, <2>10, <2>11, <2>12, <2>13, <2>14,
       <2>15, <2>16 DEF Next, Step, AppendStep
<1>3. QED
  BY <1>1, <1>2, PTL DEF Spec
-----------------------------------------------------------------------------
(* The handlers that work for a grant and are at one of the given steps    *)
At(g, S) == {h \in Handlers : job[h] = g /\ pc[h] \in S}
Busy == {h \in Handlers : pc[h] # "idle"}

(* A handler owes the log one success from its runner's start until the    *)
(* success is appended, and one speech from there until it is appended; in *)
(* a thread council its message has been posted before the success.        *)
Running == {"run", "validate", "deliver", "succeed"}
Posting == {"succeed"}
Speaking == {"speak"}
Number(g, S) == Cardinality(At(g, S))
Covered(g) ==
    /\ spoken[g] + Number(g, Speaking) <= succeeded[g]
    /\ succeeded[g] + Number(g, Running) <= started[g]
    /\ Visible => succeeded[g] + Number(g, Posting) <= posted[g]

CoveredInv == TypeOK /\ AttemptsLeft /\ IsFiniteSet(Busy) /\ \A g \in Grants : Covered(g)

(* Only finitely many handlers work, so those at a step can be counted.    *)
LEMMA AtIsFinite ==
    ASSUME IsFiniteSet(Busy), NEW g, NEW S, "idle" \notin S
    PROVE  IsFiniteSet(At(g, S)) /\ Cardinality(At(g, S)) \in Nat
<1>1. At(g, S) \subseteq Busy
  BY DEF At, Busy
<1>2. QED
  BY <1>1, FS_Subset, FS_CardinalityType

(* The count when one handler moves: by one more if it comes to one of the *)
(* steps, by one less if it leaves them.                                   *)
LEMMA Moves ==
    ASSUME TypeOK, IsFiniteSet(Busy), NEW h \in Handlers, NEW s, Goto(h, s),
           \/ job' = job
           \/ pc[h] = "idle" /\ \A k \in Handlers \ {h} : job'[k] = job[k],
           NEW g, NEW S, "idle" \notin S
    PROVE  /\ Cardinality(At(g, S)) \in Nat /\ Cardinality(At(g, S))' \in Nat
           /\ Cardinality(At(g, S))' <= Cardinality(At(g, S)) + 1
           /\ s \notin S \/ pc[h] \in S \/ g # job'[h]
                 => Cardinality(At(g, S))' <= Cardinality(At(g, S))
           /\ s \notin S /\ pc[h] \in S /\ g = job[h]
                 => Cardinality(At(g, S))' + 1 <= Cardinality(At(g, S))
<1> DEFINE X == At(g, S)
           Y == At(g, S)'
<1>0. IsFiniteSet(X) /\ Cardinality(X) \in Nat
  BY AtIsFinite
<1>1. \A k \in Handlers : k # h => (k \in Y <=> k \in X)
  BY DEF At, TypeOK, Goto
<1>2. /\ h \in Y <=> s \in S /\ g = job'[h]
      /\ h \in X <=> pc[h] \in S /\ g = job[h]
  BY DEF At, TypeOK, Goto
<1>3. X \subseteq Handlers /\ Y \subseteq Handlers
  BY DEF At
<1> HIDE DEF X, Y
<1>4. Y \subseteq X \cup {h}
  BY <1>1, <1>3
<1>5. /\ IsFiniteSet(X \cup {h}) /\ Cardinality(X \cup {h}) \in Nat
      /\ Cardinality(X \cup {h}) <= Cardinality(X) + 1
  <2>1. /\ IsFiniteSet(X \cup {h})
        /\ Cardinality(X \cup {h}) = IF h \in X THEN Cardinality(X) ELSE Cardinality(X) + 1
    BY <1>0, FS_AddElement
  <2>2. QED
    BY <1>0, <2>1
<1>6. IsFiniteSet(Y) /\ Cardinality(Y) \in Nat /\ Cardinality(Y) <= Cardinality(X \cup {h})
  BY <1>4, <1>5, FS_Subset, FS_CardinalityType
<1>7. ASSUME s \notin S \/ pc[h] \in S \/ g # job'[h] PROVE Cardinality(Y) <= Cardinality(X)
  <2>1. Y \subseteq X
    BY <1>1, <1>2, <1>3, <1>7
  <2>2. QED
    BY <1>0, <2>1, FS_Subset
<1>8. ASSUME s \notin S, pc[h] \in S, g = job[h] PROVE Cardinality(Y) + 1 <= Cardinality(X)
  <2>1. h \in X /\ Y \subseteq X \ {h}
    BY <1>1, <1>2, <1>3, <1>8
  <2>2. /\ IsFiniteSet(X \ {h}) /\ Cardinality(X \ {h}) \in Nat
        /\ Cardinality(X \ {h}) = Cardinality(X) - 1
    BY <1>0, <2>1, FS_RemoveElement, FS_CardinalityType
  <2>3. Cardinality(Y) <= Cardinality(X \ {h})
    BY <2>1, <2>2, FS_Subset
  <2>4. QED
    BY <1>0, <1>6, <2>2, <2>3
<1>9. QED
  BY <1>0, <1>5, <1>6, <1>7, <1>8 DEF X, Y
(* The three counts of Covered when one handler moves                       *)
LEMMA Counts ==
    ASSUME TypeOK, IsFiniteSet(Busy), NEW h \in Handlers, NEW s, Goto(h, s),
           \/ job' = job
           \/ pc[h] = "idle" /\ \A k \in Handlers \ {h} : job'[k] = job[k],
           NEW g \in Grants, NEW S \in {Running, Posting, Speaking}
    PROVE  /\ Number(g, S) \in Nat /\ Number(g, S)' \in Nat
           /\ Number(g, S)' <= Number(g, S) + 1
           /\ s \notin S \/ pc[h] \in S \/ g # job'[h] => Number(g, S)' <= Number(g, S)
           /\ s \notin S /\ pc[h] \in S /\ g = job[h] => Number(g, S)' + 1 <= Number(g, S)
<1>1. "idle" \notin S
  BY DEF Running, Posting, Speaking
<1>2. QED
  BY <1>1, Moves DEF Number

(* The handlers that work stay finitely many.                              *)
LEMMA BusyStaysFinite ==
    ASSUME TypeOK, IsFiniteSet(Busy), NEW h \in Handlers, NEW s, Goto(h, s)
    PROVE  IsFiniteSet(Busy')
<1>1. Busy' \subseteq Busy \cup {h}
  BY DEF Busy, Goto, TypeOK
<1>2. IsFiniteSet(Busy \cup {h})
  BY FS_AddElement
<1>3. QED
  BY <1>1, <1>2, FS_Subset

(* Handlers that neither come to a counted step nor append a counted event *)
(* keep every grant backed.                                                *)
LEMMA QuietMove ==
    ASSUME CoveredInv, TypeOK', NEW h \in Handlers, NEW s, Goto(h, s),
           \/ job' = job
           \/ pc[h] = "idle" /\ \A k \in Handlers \ {h} : job'[k] = job[k],
           s \in Running => pc[h] \in Running,
           s \notin Speaking, Visible => s \notin Posting,
           UNCHANGED <<started, succeeded, posted, spoken>>, NEW g \in Grants
    PROVE  Covered(g)'
<1>1. TypeOK /\ IsFiniteSet(Busy) /\ Covered(g)
  BY DEF CoveredInv
<1>2. /\ Number(g, Running) \in Nat /\ Number(g, Running)' \in Nat
      /\ Number(g, Running)' <= Number(g, Running)
  BY <1>1, Counts
<1>3. /\ Number(g, Speaking) \in Nat /\ Number(g, Speaking)' \in Nat
      /\ Number(g, Speaking)' <= Number(g, Speaking)
  BY <1>1, Counts
<1>4. /\ Number(g, Posting) \in Nat /\ Number(g, Posting)' \in Nat
      /\ Visible => Number(g, Posting)' <= Number(g, Posting)
  BY <1>1, Counts
<1>5. /\ started[g] \in Nat /\ succeeded[g] \in Nat /\ posted[g] \in Nat /\ spoken[g] \in Nat
  BY <1>1 DEF TypeOK
<1>6. QED
  BY <1>1, <1>2, <1>3, <1>4, <1>5 DEF Covered
(* Every step of a handler keeps every grant backed.                       *)
LEMMA CoveredStep ==
    ASSUME CoveredInv, TypeOK', NEW h \in Handlers,
           Step(h) \/ \E g \in Grants : Receive(h, g) \/ CheckSpeech(h, g)
    PROVE  IsFiniteSet(Busy') /\ \A g \in Grants : Covered(g)'
<1>0. /\ TypeOK /\ IsFiniteSet(Busy) /\ job[h] \in Grants
      /\ \A g \in Grants : Covered(g)
  BY DEF CoveredInv, TypeOK
<1>1. /\ \E s \in Steps : Goto(h, s)
      /\ \/ job' = job
         \/ pc[h] = "idle" /\ \A k \in Handlers \ {h} : job'[k] = job[k]
  BY <1>0 DEF Step, AppendStep, CheckGrant, RunnerReturns, Validate, RecordGrant, Prepare, Start,
     Retry, Deliver, Succeed, Speak, Fail, Diagnose, RecordSpeech, Receive, CheckSpeech, Steps,
     TypeOK
<1>2. IsFiniteSet(Busy')
  BY <1>0, <1>1, BusyStaysFinite
<1> SUFFICES ASSUME NEW g \in Grants PROVE Covered(g)'
  BY <1>2
<1>3. /\ started[g] \in Nat /\ succeeded[g] \in Nat /\ posted[g] \in Nat /\ spoken[g] \in Nat
      /\ started'[g] \in Nat /\ succeeded'[g] \in Nat /\ posted'[g] \in Nat /\ spoken'[g] \in Nat
  BY <1>0 DEF TypeOK
<1> USE DEF Running, Posting, Speaking
<1>4. CASE \/ CheckGrant(h) \/ RunnerReturns(h) \/ Validate(h)
           \/ \E q \in Grants : Receive(h, q) \/ CheckSpeech(h, q)
  <2>1. \E s \in Steps : /\ Goto(h, s) /\ s \notin {"speak", "run"}
                         /\ s \in Running => pc[h] \in Running
                         /\ Visible => s # "succeed"
    BY <1>4 DEF CheckGrant, RunnerReturns, Validate, Receive, CheckSpeech, Steps
  <2>2. UNCHANGED <<started, succeeded, posted, spoken>>
    BY <1>4 DEF CheckGrant, RunnerReturns, Validate, Receive, CheckSpeech
  <2>3. QED
    BY <1>1, <2>1, <2>2, QuietMove
<1>5. ASSUME NEW w \in BOOLEAN, NEW ok \in BOOLEAN,
             \/ RecordGrant(h, w, ok) \/ Prepare(h, w, ok) \/ Retry(h, w, ok)
             \/ Fail(h, w, ok) \/ Diagnose(h, w, ok) \/ RecordSpeech(h, w, ok)
      PROVE  Covered(g)'
  <2>1. \E s \in Steps \ (Running \cup Posting \cup Speaking) : Goto(h, s)
    BY <1>5 DEF RecordGrant, Prepare, Retry, Fail, Diagnose, RecordSpeech, Steps
  <2>2. UNCHANGED <<started, succeeded, posted, spoken>>
    BY <1>5 DEF RecordGrant, Prepare, Retry, Fail, Diagnose, RecordSpeech
  <2>3. QED
    BY <1>1, <2>1, <2>2, QuietMove
<1> DEFINE a == Number(g, Running)
           b == Number(g, Posting)
           c == Number(g, Speaking)
<1>6. ASSUME NEW s, Goto(h, s), job' = job
      PROVE  /\ a \in Nat /\ a' \in Nat /\ a' <= a + 1
             /\ s \notin Running \/ pc[h] \in Running \/ g # job[h] => a' <= a
             /\ s \notin Running /\ pc[h] \in Running /\ g = job[h] => a' + 1 <= a
             /\ b \in Nat /\ b' \in Nat /\ b' <= b + 1
             /\ s \notin Posting \/ pc[h] \in Posting \/ g # job[h] => b' <= b
             /\ s \notin Posting /\ pc[h] \in Posting /\ g = job[h] => b' + 1 <= b
             /\ c \in Nat /\ c' \in Nat /\ c' <= c + 1
             /\ s \notin Speaking \/ pc[h] \in Speaking \/ g # job[h] => c' <= c
             /\ s \notin Speaking /\ pc[h] \in Speaking /\ g = job[h] => c' + 1 <= c
  <2> USE <1>0, <1>6
  <2> HIDE DEF Running, Posting, Speaking
  <2>1. /\ a \in Nat /\ a' \in Nat /\ a' <= a + 1
        /\ s \notin Running \/ pc[h] \in Running \/ g # job[h] => a' <= a
        /\ s \notin Running /\ pc[h] \in Running /\ g = job[h] => a' + 1 <= a
    BY Counts
  <2>2. /\ b \in Nat /\ b' \in Nat /\ b' <= b + 1
        /\ s \notin Posting \/ pc[h] \in Posting \/ g # job[h] => b' <= b
        /\ s \notin Posting /\ pc[h] \in Posting /\ g = job[h] => b' + 1 <= b
    BY Counts
  <2>3. /\ c \in Nat /\ c' \in Nat /\ c' <= c + 1
        /\ s \notin Speaking \/ pc[h] \in Speaking \/ g # job[h] => c' <= c
        /\ s \notin Speaking /\ pc[h] \in Speaking /\ g = job[h] => c' + 1 <= c
    BY Counts
  <2>4. QED
    BY <2>1, <2>2, <2>3
<1>7. /\ spoken[g] + c <= succeeded[g] /\ succeeded[g] + a <= started[g]
      /\ Visible => succeeded[g] + b <= posted[g]
  BY <1>0 DEF Covered
<1>8. SUFFICES /\ spoken'[g] + c' <= succeeded'[g] /\ succeeded'[g] + a' <= started'[g]
               /\ Visible => succeeded'[g] + b' <= posted'[g]
  BY DEF Covered
<1> HIDE DEF a, b, c, Goto
<1>9. ASSUME NEW w \in BOOLEAN, NEW ok \in BOOLEAN, Start(h, w, ok)
      PROVE  /\ spoken'[g] + c' <= succeeded'[g] /\ succeeded'[g] + a' <= started'[g]
             /\ Visible => succeeded'[g] + b' <= posted'[g]
  <2>1. /\ pc[h] = "start" /\ job' = job /\ UNCHANGED <<succeeded, posted, spoken>>
        /\ \/ Goto(h, "diagnose") /\ started'[g] >= started[g]
           \/ /\ Goto(h, "run") /\ started' = [started EXCEPT ![job[h]] = @ + 1]
    BY <1>9 DEF Start, TypeOK, CoveredInv
  <2>2. \/ started'[g] >= started[g] /\ (Goto(h, "diagnose") \/ (Goto(h, "run") /\ g # job[h]))
        \/ started'[g] = started[g] + 1 /\ Goto(h, "run")
    BY <1>0, <1>3, <2>1 DEF TypeOK
  <2>3. CASE started'[g] >= started[g] /\ (Goto(h, "diagnose") \/ (Goto(h, "run") /\ g # job[h]))
    BY <1>3, <1>6, <1>7, <2>1, <2>3
  <2>4. CASE started'[g] = started[g] + 1 /\ Goto(h, "run")
    <3>1. a \in Nat /\ a' <= a + 1 /\ b' <= b /\ c' <= c
      BY <1>6, <2>1, <2>4
    <3>2. QED
      BY <1>3, <1>6, <1>7, <2>1, <2>4, <3>1
  <2>5. QED
    BY <2>2, <2>3, <2>4
<1>10. ASSUME NEW w \in BOOLEAN, NEW ok \in BOOLEAN, Deliver(h, w, ok)
      PROVE  /\ spoken'[g] + c' <= succeeded'[g] /\ succeeded'[g] + a' <= started'[g]
             /\ Visible => succeeded'[g] + b' <= posted'[g]
  <2>1. /\ pc[h] = "deliver" /\ job' = job /\ UNCHANGED <<started, succeeded, spoken>>
        /\ \/ Goto(h, "discard") /\ posted'[g] >= posted[g]
           \/ Goto(h, "succeed") /\ posted' = [posted EXCEPT ![job[h]] = @ + 1]
    <3>1. posted'[g] >= posted[g]
      BY <1>0, <1>3, <1>10 DEF Deliver, TypeOK
    <3>2. QED
      BY <1>10, <3>1 DEF Deliver
  <2>2. \/ posted'[g] >= posted[g] /\ (Goto(h, "discard") \/ (Goto(h, "succeed") /\ g # job[h]))
        \/ posted'[g] = posted[g] + 1 /\ Goto(h, "succeed")
    BY <1>0, <1>3, <2>1 DEF TypeOK
  <2>3. CASE posted'[g] >= posted[g] /\ (Goto(h, "discard") \/ (Goto(h, "succeed") /\ g # job[h]))
    <3>1. /\ a \in Nat /\ a' \in Nat /\ b \in Nat /\ b' \in Nat /\ c \in Nat /\ c' \in Nat
          /\ a' <= a /\ b' <= b /\ c' <= c
      BY <1>6, <2>1, <2>3
    <3>2. QED
      BY <1>3, <1>7, <2>1, <2>3, <3>1
  <2>4. CASE posted'[g] = posted[g] + 1 /\ Goto(h, "succeed")
    <3>1. /\ a \in Nat /\ a' \in Nat /\ b \in Nat /\ b' \in Nat /\ c \in Nat /\ c' \in Nat
          /\ a' <= a /\ b' <= b + 1 /\ c' <= c
      BY <1>6, <2>1, <2>4
    <3>2. QED
      BY <1>3, <1>7, <2>1, <2>4, <3>1
  <2>5. QED
    BY <2>2, <2>3, <2>4
<1>11. ASSUME NEW w \in BOOLEAN, NEW ok \in BOOLEAN, Succeed(h, w, ok)
      PROVE  /\ spoken'[g] + c' <= succeeded'[g] /\ succeeded'[g] + a' <= started'[g]
             /\ Visible => succeeded'[g] + b' <= posted'[g]
  <2>1. /\ pc[h] = "succeed" /\ job' = job /\ UNCHANGED <<started, posted, spoken>>
        /\ \/ /\ Goto(h, "diagnose")
              /\ succeeded' \in {succeeded, [succeeded EXCEPT ![job[h]] = @ + 1]}
           \/ Goto(h, "speak") /\ succeeded' = [succeeded EXCEPT ![job[h]] = @ + 1]
    BY <1>11 DEF Succeed
  <2>2. CASE g = job[h]
    <3>1. \/ Goto(h, "diagnose") /\ succeeded'[g] \in {succeeded[g], succeeded[g] + 1}
          \/ Goto(h, "speak") /\ succeeded'[g] = succeeded[g] + 1
      BY <1>0, <2>1, <2>2 DEF TypeOK
    <3>2. CASE Goto(h, "diagnose") /\ succeeded'[g] \in {succeeded[g], succeeded[g] + 1}
      <4>1. /\ a \in Nat /\ a' \in Nat /\ b \in Nat /\ b' \in Nat /\ c \in Nat /\ c' \in Nat
            /\ a' + 1 <= a /\ b' + 1 <= b /\ c' <= c
        BY <1>6, <2>1, <2>2, <3>2
      <4>2. QED
        BY <1>3, <1>7, <2>1, <3>2, <4>1
    <3>3. CASE Goto(h, "speak") /\ succeeded'[g] = succeeded[g] + 1
      <4>1. /\ a \in Nat /\ a' \in Nat /\ b \in Nat /\ b' \in Nat /\ c \in Nat /\ c' \in Nat
            /\ a' + 1 <= a /\ b' + 1 <= b /\ c' <= c + 1
        BY <1>6, <2>1, <2>2, <3>3
      <4>2. QED
        BY <1>3, <1>7, <2>1, <3>3, <4>1
    <3>4. QED
      BY <3>1, <3>2, <3>3
  <2>3. CASE g # job[h]
    <3>1. succeeded'[g] = succeeded[g] /\ (Goto(h, "diagnose") \/ Goto(h, "speak"))
      BY <1>0, <2>1, <2>3 DEF TypeOK
    <3>2. QED
      BY <1>3, <1>6, <1>7, <2>1, <2>3, <3>1
  <2>4. QED
    BY <2>2, <2>3
<1>12. ASSUME NEW w \in BOOLEAN, NEW ok \in BOOLEAN, Speak(h, w, ok)
      PROVE  /\ spoken'[g] + c' <= succeeded'[g] /\ succeeded'[g] + a' <= started'[g]
             /\ Visible => succeeded'[g] + b' <= posted'[g]
  <2>1. /\ pc[h] = "speak" /\ job' = job /\ UNCHANGED <<started, posted, succeeded>>
        /\ Goto(h, "diagnose") \/ Goto(h, "idle")
        /\ spoken' \in {spoken, [spoken EXCEPT ![job[h]] = @ + 1]}
    BY <1>12 DEF Speak
  <2>2. spoken'[g] = spoken[g] \/ (g = job[h] /\ spoken'[g] = spoken[g] + 1)
    BY <1>0, <2>1 DEF TypeOK
  <2>3. /\ a \in Nat /\ a' \in Nat /\ b \in Nat /\ b' \in Nat /\ c \in Nat /\ c' \in Nat
        /\ a' <= a /\ b' <= b /\ c' <= c
        /\ g = job[h] => c' + 1 <= c
    BY <1>6, <2>1
  <2>4. started'[g] = started[g] /\ posted'[g] = posted[g] /\ succeeded'[g] = succeeded[g]
    BY <2>1
  <2>5. CASE spoken'[g] = spoken[g]
    BY <1>3, <1>7, <2>3, <2>4, <2>5
  <2>6. CASE g = job[h] /\ spoken'[g] = spoken[g] + 1
    <3>1. c' + 1 <= c /\ spoken'[g] = spoken[g] + 1
      BY <2>3, <2>6
    <3>2. a' \in Nat /\ b' \in Nat /\ c' \in Nat /\ a \in Nat /\ b \in Nat /\ c \in Nat
      BY <2>3
    <3>3. a' <= a /\ b' <= b
      BY <2>3
    <3>4. /\ succeeded'[g] + a' <= started'[g]
          /\ Visible => succeeded'[g] + b' <= posted'[g]
      BY <1>3, <1>7, <2>4, <3>2, <3>3
    <3>5. spoken'[g] + c' <= succeeded'[g]
      <4>1. \A x, y, z, v \in Nat : x + y <= z /\ v + 1 <= y => (x + 1) + v <= z
        OBVIOUS
      <4>2. spoken[g] + c <= succeeded[g]
        BY <1>7
      <4>3. (spoken[g] + 1) + c' <= succeeded[g]
        BY <1>3, <3>1, <3>2, <4>1, <4>2
      <4>4. QED
        BY <2>4, <3>1, <4>3
    <3>6. QED
      BY <3>4, <3>5
  <2>7. QED
    BY <2>2, <2>5, <2>6
<1>13. QED
  BY <1>4, <1>5, <1>9, <1>10, <1>11, <1>12 DEF Step, AppendStep, Covered, a, b, c

(* A speech in the log has a successful invocation behind it, a success    *)
(* has its start, and in a thread council its posted message, for any      *)
(* number of handlers that dispatch the same grant.                        *)
THEOREM SpeechHasBacking == Spec => []SpeechIsBacked
<1>1. Init => CoveredInv
  <2> SUFFICES ASSUME Init PROVE CoveredInv
    OBVIOUS
  <2>1. TypeOK /\ AttemptsLeft
    BY InitInv DEF IndInv
  <2>2. Busy = {} /\ \A g, S : "idle" \notin S => At(g, S) = {}
    BY DEF Busy, At, Init
  <2>3. \A g \in Grants : /\ Number(g, Running) = 0 /\ Number(g, Posting) = 0
                          /\ Number(g, Speaking) = 0
    BY <2>2, FS_EmptySet DEF Number, Running, Posting, Speaking
  <2>4. \A g \in Grants : spoken[g] = 0 /\ succeeded[g] = 0 /\ started[g] = 0 /\ posted[g] = 0
    BY DEF Init
  <2>5. QED
    BY <2>1, <2>2, <2>3, <2>4, FS_EmptySet DEF CoveredInv, Covered
<1>2. CoveredInv /\ [Next]_vars => CoveredInv'
  <2> SUFFICES ASSUME CoveredInv, [Next]_vars PROVE CoveredInv'
    OBVIOUS
  <2>1. TypeOK /\ IsFiniteSet(Busy) /\ (TypeOK /\ AttemptsLeft)'
    BY TypeStep DEF CoveredInv
  <2>2. CASE \E h \in Handlers :
                Step(h) \/ \E g \in Grants : Receive(h, g) \/ CheckSpeech(h, g)
    BY <2>1, <2>2, CoveredStep DEF CoveredInv
  <2>3. CASE Crash
    <3>1. Busy' = {} /\ \A g \in Grants, S \in {Running, Posting, Speaking} : At(g, S)' = {}
      BY <2>3 DEF Crash, Busy, At, Running, Posting, Speaking
    <3>2. \A g \in Grants : /\ Number(g, Running)' = 0 /\ Number(g, Posting)' = 0
                            /\ Number(g, Speaking)' = 0
      BY <3>1, FS_EmptySet DEF Number
    <3>3. \A g \in Grants : /\ Number(g, Running) \in Nat /\ Number(g, Posting) \in Nat
                            /\ Number(g, Speaking) \in Nat
      BY <2>1, AtIsFinite DEF Number, Running, Posting, Speaking
    <3>4. UNCHANGED <<started, succeeded, posted, spoken>>
      BY <2>3 DEF Crash
    <3>5. \A g \in Grants : Covered(g)'
      BY <2>1, <3>2, <3>3, <3>4 DEF CoveredInv, Covered, TypeOK
    <3>6. QED
      BY <2>1, <3>1, <3>5, FS_EmptySet DEF CoveredInv
  <2>4. CASE ChangePhase \/ UNCHANGED vars
    <3>1. UNCHANGED <<started, succeeded, posted, spoken, pc, job>>
      BY <2>4 DEF ChangePhase, vars
    <3>2. QED
      BY <2>1, <3>1 DEF CoveredInv, Busy, Covered, Number, At
  <2>5. QED
    BY <2>2, <2>3, <2>4 DEF Next
<1>3. CoveredInv => SpeechIsBacked
  <2> SUFFICES ASSUME CoveredInv, NEW g \in Grants
               PROVE  /\ spoken[g] <= succeeded[g] /\ succeeded[g] <= started[g]
                      /\ Visible => succeeded[g] <= posted[g]
    BY DEF SpeechIsBacked
  <2>1. /\ Number(g, Running) \in Nat /\ Number(g, Posting) \in Nat /\ Number(g, Speaking) \in Nat
    BY AtIsFinite DEF CoveredInv, Number, Running, Posting, Speaking
  <2>2. QED
    BY <2>1 DEF CoveredInv, Covered, TypeOK
<1>4. QED
  BY <1>1, <1>2, <1>3, PTL DEF Spec
-----------------------------------------------------------------------------
(* A successful answer is never about an open outcome: the verdict is a    *)
(* pass or a failure, unless a speech recorded by hand cites the grant.    *)
THEOREM AnsweredAccounted == Spec => []AnsweredIsAccounted
<1>1. TypeOK /\ SpeechIsBacked /\ AnsweredIsSettled => AnsweredIsAccounted
  <2> SUFFICES ASSUME TypeOK, SpeechIsBacked, AnsweredIsSettled, NEW g \in answered \ cited
               PROVE  Status(g) \in {"selected_runner_pass", "runner_terminal_failure"}
    BY DEF AnsweredIsAccounted
  <2>1. g \in Grants /\ (g \in failed \/ spoken[g] > 0)
    BY DEF TypeOK, AnsweredIsSettled, Recorded
  <2>2. CASE g \in failed
    BY <2>2 DEF Status, Scan, Terminal
  <2>3. CASE g \notin failed
    <3>1. started[g] > 0 /\ succeeded[g] > 0 /\ spoken[g] > 0 /\ (Visible => posted[g] > 0)
      BY <2>1, <2>3 DEF TypeOK, SpeechIsBacked
    <3>2. Linked(g) /\ Delivered(g)
      BY <3>1 DEF Linked, Delivered
    <3>3. QED
      BY <2>3, <3>1, <3>2 DEF Status, Scan, Terminal
  <2>4. QED
    BY <2>2, <2>3
<1>2. QED
  BY <1>1, TypeCorrect, SpeechHasBacking, AnsweredSettled, PTL

(* What the log holds is never taken back: counts do not fall, failures    *)
(* stay, and a new failure is one of a handler that works for the grant.   *)
LEMMA Monotone ==
    ASSUME TypeOK, [Next]_vars, NEW g \in Grants
    PROVE  /\ started'[g] >= started[g] /\ succeeded'[g] >= succeeded[g]
           /\ posted'[g] >= posted[g] /\ spoken'[g] >= spoken[g]
           /\ started'[g] \in Nat /\ succeeded'[g] \in Nat
           /\ posted'[g] \in Nat /\ spoken'[g] \in Nat
           /\ failed \subseteq failed'
           /\ g \in failed' \ failed =>
                \E h \in Handlers : job[h] = g /\ pc[h] \in {"fail", "discard", "diagnose"}
<1> USE DEF TypeOK
<1>1. ASSUME NEW h \in Handlers, CheckGrant(h) \/ RunnerReturns(h) \/ Validate(h)
      PROVE  UNCHANGED events
  BY <1>1 DEF CheckGrant, RunnerReturns, Validate
<1>2. ASSUME NEW h \in Handlers, NEW w \in BOOLEAN, NEW ok \in BOOLEAN,
             RecordGrant(h, w, ok) \/ Prepare(h, w, ok) \/ Retry(h, w, ok) \/ RecordSpeech(h, w, ok)
      PROVE  UNCHANGED <<started, succeeded, posted, spoken, failed>>
  BY <1>2 DEF RecordGrant, Prepare, Retry, RecordSpeech
<1>3. ASSUME NEW h \in Handlers, NEW w \in BOOLEAN, NEW ok \in BOOLEAN,
             Start(h, w, ok) \/ Deliver(h, w, ok) \/ Succeed(h, w, ok) \/ Speak(h, w, ok)
      PROVE  /\ started'[g] \in Nat /\ succeeded'[g] \in Nat
             /\ posted'[g] \in Nat /\ spoken'[g] \in Nat
             /\ started'[g] >= started[g] /\ succeeded'[g] >= succeeded[g]
             /\ posted'[g] >= posted[g] /\ spoken'[g] >= spoken[g]
             /\ UNCHANGED failed
  BY <1>3 DEF Start, Deliver, Succeed, Speak
<1>4. ASSUME NEW h \in Handlers, NEW w \in BOOLEAN, NEW ok \in BOOLEAN,
             Fail(h, w, ok) \/ Diagnose(h, w, ok)
      PROVE  /\ UNCHANGED <<started, succeeded, posted, spoken>>
             /\ failed \subseteq failed' /\ failed' \subseteq failed \cup {job[h]}
             /\ pc[h] \in {"fail", "discard", "diagnose"}
  BY <1>4 DEF Fail, Diagnose
<1>5. ASSUME NEW h \in Handlers, NEW f \in Grants, Receive(h, f) \/ CheckSpeech(h, f)
      PROVE  UNCHANGED events
  BY <1>5 DEF Receive, CheckSpeech
<1>6. CASE ChangePhase \/ Crash \/ UNCHANGED vars
  BY <1>6 DEF ChangePhase, Crash, vars
<1>7. QED
  BY <1>1, <1>2, <1>3, <1>4, <1>5, <1>6 DEF Next, Step, AppendStep

(* No later event repairs a recorded failure.                              *)
THEOREM FailuresStay == Spec => FailureIsFinal
<1>1. TypeOK /\ [Next]_vars
        => [\A g \in Grants : Status(g) = "runner_terminal_failure"
                              => Status(g)' = "runner_terminal_failure"]_vars
  BY Monotone DEF Status, Scan, Terminal
<1>2. QED
  BY <1>1, TypeCorrect, PTL DEF Spec, FailureIsFinal

(* Outside a raced dispatch, a pass is lost only to the diagnostic of a    *)
(* handler that works for the same grant.                                  *)
THEOREM PassLostToDiagnosis == Spec => PassIsLostToDiagnosis
<1> DEFINE Lost == \A g \in Grants : Pass(g) /\ ~Pass(g)' =>
          \E h \in Handlers : /\ job[h] = g
                              /\ pc[h] = "diagnose" \/ (g \in raced /\ pc[h] \in {"fail", "discard"})
<1>1. IndInv /\ [Next]_vars => Lost
  <2> SUFFICES ASSUME IndInv, [Next]_vars PROVE Lost
    OBVIOUS
  <2> TAKE g \in Grants
  <2> HAVE Pass(g) /\ ~Pass(g)'
  <2>1. TypeOK
    BY DEF IndInv
  <2>2. /\ g \notin failed /\ started[g] > 0 /\ succeeded[g] > 0 /\ spoken[g] > 0
        /\ Visible => posted[g] > 0
    BY <2>1 DEF Pass, Status, Scan, Terminal, Linked, Delivered,
       TypeOK
  <2>3. /\ started'[g] > 0 /\ succeeded'[g] > 0 /\ spoken'[g] > 0
        /\ Visible => posted'[g] > 0
    BY <2>1, <2>2, Monotone DEF TypeOK
  <2>4. g \in failed' \ failed
    BY <2>2, <2>3 DEF Pass, Status, Scan, Terminal, Linked, Delivered
  <2>5. PICK h \in Handlers : job[h] = g /\ pc[h] \in {"fail", "discard", "diagnose"}
    BY <2>1, <2>4, Monotone
  <2>6. pc[h] \in {"fail", "discard"} => g \in raced
    BY <2>2, <2>5 DEF IndInv, TypeOK, NothingYet, Dispatching, Steps
  <2>7. QED
    BY <2>5, <2>6
<1>2. QED
  BY <1>1, Inductive, PTL DEF Spec, PassIsLostToDiagnosis
=============================================================================
