-------------------------- MODULE ProjectionProofs --------------------------
(***************************************************************************)
(* The projection for any number of sessions, members, invocations and     *)
(* batches, and logs of any length.                                        *)
(***************************************************************************)
EXTENDS Projection, FiniteSetTheorems, NaturalsInduction, TLAPS

-----------------------------------------------------------------------------
(* Induction, for a predicate that is given as a set of numbers            *)
LEMMA Induction ==
    ASSUME NEW S, 0 \in S, \A n \in Nat : n \in S => n + 1 \in S
    PROVE  \A n \in Nat : n \in S
<1> DEFINE R == OpToRel(<, Nat)
           T == Nat \ S
<1> SUFFICES ASSUME T # {} PROVE FALSE
  OBVIOUS
<1>1. IsWellFoundedOn(R, Nat)
  BY NatLessThanWellFounded, Zenon
<1>2. \A x, y \in Nat : <<y, x>> \in R <=> y < x
  BY DEF OpToRel
<1> HIDE DEF R
<1>3. \E x \in T : \A y \in T : ~(<<y, x>> \in R)
  <2>1. T \subseteq Nat
    OBVIOUS
  <2> HIDE DEF T
  <2>2. QED
    BY <1>1, <2>1, WFMin
<1>4. PICK x \in T : \A y \in T : ~(y < x)
  BY <1>2, <1>3
<1>5. x \in Nat /\ x # 0 /\ x - 1 \in Nat /\ x - 1 \notin T
  BY <1>4
<1>6. QED
  BY <1>5

(* The fold of a session is what its recursion says.                       *)
LEMMA ReplayUnfolds ==
    ASSUME NEW db, NEW s, NEW speaker, NEW events, Len(events) \in Nat
    PROVE  \E f : /\ f[0] = initSession(db, s, speaker)
                  /\ \A n \in 1..Len(events) : f[n] = applyEvent(f[n - 1], s, events[n])
                  /\ replaySession(db, s, speaker, events) = f[Len(events)]
<1> DEFINE L == Len(events)
           Body(f, n) == IF n = 0 THEN initSession(db, s, speaker)
                         ELSE applyEvent(f[n - 1], s, events[n])
           Fills(f, k) == f = [n \in 0..k |-> Body(f, n)]
           S == {k \in Nat : \E f : Fills(f, k)}
<1>1. 0 \in S
  <2>1. Fills([n \in 0..0 |-> initSession(db, s, speaker)], 0)
    OBVIOUS
  <2>2. QED
    BY <2>1
<1>2. ASSUME NEW k \in Nat, k \in S PROVE k + 1 \in S
  <2>1. PICK f : Fills(f, k)
    BY <1>2
  <2> DEFINE g == [n \in 0..(k + 1) |-> IF n = k + 1 THEN applyEvent(f[k], s, events[n]) ELSE f[n]]
  <2>2. \A n \in 0..k : f[n] = Body(f, n)
    BY <2>1
  <2>3. ASSUME NEW n \in 0..(k + 1) PROVE g[n] = Body(g, n)
    <3>1. CASE n = k + 1
      BY <3>1
    <3>2. CASE n # k + 1
      <4>1. n \in 0..k /\ g[n] = f[n] /\ (n # 0 => g[n - 1] = f[n - 1])
        BY <3>2
      <4>2. QED
        BY <2>2, <4>1
    <3>3. QED
      BY <3>1, <3>2
  <2>4. Fills(g, k + 1)
    <3>1. g = [n \in 0..(k + 1) |-> g[n]]
      OBVIOUS
    <3> HIDE DEF g, Body
    <3>2. QED
      BY <2>3, <3>1
  <2>5. QED
    <3> HIDE DEF g, Fills
    <3> QED
      BY <2>4
<1>3. \E f : Fills(f, L)
  <2> HIDE DEF S
  <2>1. \A n \in Nat : n \in S
    BY <1>1, <1>2, Induction
  <2>2. QED
    BY <2>1 DEF S
<1> DEFINE F == CHOOSE f : Fills(f, L)
<1>4. Fills(F, L)
  BY <1>3, Zenon
<1>5. replaySession(db, s, speaker, events) = F[L]
  BY Zenon DEF replaySession
<1>6. /\ F[0] = initSession(db, s, speaker)
      /\ \A n \in 1..L : F[n] = applyEvent(F[n - 1], s, events[n])
  <2> HIDE DEF F
  <2>1. \A n \in 0..L : F[n] = Body(F, n)
    BY <1>4
  <2>2. QED
    BY <2>1
<1>7. QED
  <2> HIDE DEF F
  <2> QED
    BY <1>5, <1>6

-----------------------------------------------------------------------------
(* Sums over finite sets.  Taken is the element a fold takes first; f adds *)
(* up the weights w over the subsets of S in that order.                   *)
Taken(s) == CHOOSE x \in s : TRUE
Folds(f, w, S) ==
    f = [s \in SUBSET S |-> IF s = {} THEN 0 ELSE w[Taken(s)] + f[s \ {Taken(s)}]]
Adds(f, w, S) ==
    /\ f \in [SUBSET S -> Nat] /\ f[{}] = 0
    /\ \A s \in SUBSET S : \A x \in s : f[s] = w[x] + f[s \ {x}]

(* The first element is one of the set.                                    *)
LEMMA TakenFacts ==
    ASSUME NEW s, s # {}
    PROVE  Taken(s) \in s
  BY DEF Taken

(* Removing an element of a set of n + 1 elements leaves n.                *)
LEMMA OneLess ==
    ASSUME NEW s, IsFiniteSet(s), NEW n \in Nat, Cardinality(s) <= n + 1, NEW x \in s
    PROVE  IsFiniteSet(s \ {x}) /\ Cardinality(s \ {x}) <= n
<1>1. /\ IsFiniteSet(s \ {x}) /\ Cardinality(s \ {x}) = Cardinality(s) - 1
      /\ Cardinality(s) \in Nat
  BY FS_RemoveElement, FS_CardinalityType
<1>2. QED
  BY <1>1

(* Over a finite set there is such a fold.                                 *)
LEMMA FoldExists ==
    ASSUME NEW S, IsFiniteSet(S), NEW w \in [S -> Nat]
    PROVE  \E f : Folds(f, w, S)
<1> DEFINE Small(n) == {s \in SUBSET S : Cardinality(s) <= n}
           Body(f, s) == IF s = {} THEN 0 ELSE w[Taken(s)] + f[s \ {Taken(s)}]
           Fills(f, n) == f = [s \in Small(n) |-> Body(f, s)]
           N == {n \in Nat : \E f : Fills(f, n)}
<1>0. \A s \in SUBSET S : IsFiniteSet(s) /\ Cardinality(s) \in Nat
  BY FS_Subset, FS_CardinalityType
<1>1. 0 \in N
  <2>1. \A s \in Small(0) : s = {}
    <3> SUFFICES ASSUME NEW s \in SUBSET S, Cardinality(s) <= 0 PROVE s = {}
      OBVIOUS
    <3>1. Cardinality(s) = 0 /\ IsFiniteSet(s)
      BY <1>0
    <3>2. QED
      BY <3>1, FS_EmptySet
  <2> DEFINE g == [s \in Small(0) |-> 0]
  <2>2. \A s \in Small(0) : g[s] = Body(g, s)
    BY <2>1
  <2>3. Fills(g, 0)
    <3>1. g = [s \in Small(0) |-> g[s]]
      OBVIOUS
    <3> HIDE DEF g, Body, Small
    <3>2. QED
      BY <2>2, <3>1
  <2>4. QED
    <3> HIDE DEF g, Fills
    <3> QED
      BY <2>3
<1>2. ASSUME NEW n \in Nat, n \in N PROVE n + 1 \in N
  <2>1. PICK f : Fills(f, n)
    BY <1>2
  <2> DEFINE g == [s \in Small(n + 1) |-> Body(f, s)]
  <2>2. \A s \in Small(n) : f[s] = Body(f, s)
    <3> HIDE DEF Body, Small
    <3> QED
      BY <2>1
  <2>3. \A s \in Small(n) : s \in Small(n + 1) /\ g[s] = f[s]
    <3>1. Small(n) \subseteq Small(n + 1)
      BY <1>0
    <3> HIDE DEF Body, Small
    <3>2. QED
      BY <2>2, <3>1
  <2>4. ASSUME NEW s \in Small(n + 1) PROVE g[s] = Body(g, s)
    <3>1. g[s] = Body(f, s)
      <4> HIDE DEF Body, Small
      <4> QED
        OBVIOUS
    <3>2. CASE s = {}
      BY <3>1, <3>2
    <3>3. CASE s # {}
      <4>1. Taken(s) \in s /\ s \ {Taken(s)} \in Small(n)
        <5>1. Taken(s) \in s
          BY <3>3, TakenFacts
        <5>2. IsFiniteSet(s) /\ Cardinality(s) <= n + 1 /\ s \ {Taken(s)} \in SUBSET S
          BY <1>0
        <5>3. Cardinality(s \ {Taken(s)}) <= n
          BY <5>1, <5>2, OneLess
        <5>4. QED
          BY <5>1, <5>2, <5>3
      <4>2. g[s \ {Taken(s)}] = f[s \ {Taken(s)}]
        <5> HIDE DEF g, Small
        <5> QED
          BY <2>3, <4>1
      <4> HIDE DEF g, Small
      <4>3. QED
        BY <3>1, <3>3, <4>2
    <3>4. QED
      BY <3>2, <3>3
  <2>5. Fills(g, n + 1)
    <3>1. g = [s \in Small(n + 1) |-> g[s]]
      <4> HIDE DEF Body, Small
      <4> QED
        OBVIOUS
    <3> HIDE DEF g, Body, Small
    <3>2. QED
      BY <2>4, <3>1
  <2>6. QED
    <3> HIDE DEF g, Fills
    <3> QED
      BY <2>5
<1>3. \A n \in Nat : n \in N
  <2> HIDE DEF N
  <2> QED
    BY <1>1, <1>2, Induction
<1>4. Cardinality(S) \in Nat /\ Small(Cardinality(S)) = SUBSET S
  BY <1>0, FS_Subset
<1>5. PICK f : Fills(f, Cardinality(S))
  BY <1>3, <1>4
<1>6. Folds(f, w, S)
  <2> HIDE DEF Small
  <2> QED
    BY <1>4, <1>5 DEF Folds
<1>7. QED
  BY <1>6

(* The order does not matter.                                              *)
LEMMA FoldAdds ==
    ASSUME NEW S, IsFiniteSet(S), NEW w \in [S -> Nat], NEW f, Folds(f, w, S)
    PROVE  Adds(f, w, S)
<1>0. \A s \in SUBSET S : IsFiniteSet(s) /\ Cardinality(s) \in Nat
  BY FS_Subset, FS_CardinalityType
<1>1. /\ {} \in SUBSET S /\ f[{}] = 0
      /\ \A s \in SUBSET S : s # {} => /\ f[s] = w[Taken(s)] + f[s \ {Taken(s)}]
                                       /\ Taken(s) \in s /\ s \ {Taken(s)} \in SUBSET S
  <2>1. \A s \in SUBSET S : f[s] = IF s = {} THEN 0 ELSE w[Taken(s)] + f[s \ {Taken(s)}]
    BY DEF Folds
  <2>2. QED
    BY <2>1, TakenFacts
<1>2. f = [s \in SUBSET S |-> f[s]]
  BY DEF Folds
<1> DEFINE Good(s) == f[s] \in Nat /\ \A x \in s : f[s] = w[x] + f[s \ {x}]
           N == {n \in Nat : \A s \in SUBSET S : Cardinality(s) <= n => Good(s)}
<1>3. 0 \in N
  <2> SUFFICES ASSUME NEW s \in SUBSET S, Cardinality(s) <= 0 PROVE Good(s)
    OBVIOUS
  <2>1. s = {}
    BY <1>0, FS_EmptySet
  <2>2. QED
    BY <1>1, <2>1
<1>4. ASSUME NEW n \in Nat, n \in N PROVE n + 1 \in N
  <2>0. Good({})
    BY <1>1
  <2> SUFFICES ASSUME NEW s \in SUBSET S, Cardinality(s) <= n + 1, s # {} PROVE Good(s)
    <3> HIDE DEF Good
    <3> QED
      BY <2>0
  <2> DEFINE y == Taken(s)
  <2>1. /\ y \in s /\ w[y] \in Nat /\ f[s] = w[y] + f[s \ {y}]
    BY <1>1
  <2> HIDE DEF y
  <2>2. ASSUME NEW x \in s PROVE s \ {x} \in SUBSET S /\ Good(s \ {x})
    <3>1. s \ {x} \in SUBSET S /\ Cardinality(s \ {x}) <= n
      BY <1>0, OneLess
    <3>2. QED
      BY <1>4, <3>1
  <2>3. f[s] \in Nat
    BY <2>1, <2>2
  <2>4. ASSUME NEW x \in s PROVE f[s] = w[x] + f[s \ {x}]
    <3>1. CASE x = y
      BY <2>1, <3>1
    <3>2. CASE x # y
      <4>1. x \in s \ {y} /\ y \in s \ {x} /\ (s \ {y}) \ {x} = (s \ {x}) \ {y}
        BY <2>1, <3>2
      <4>2. f[s \ {y}] = w[x] + f[(s \ {x}) \ {y}] /\ f[s \ {x}] = w[y] + f[(s \ {x}) \ {y}]
        BY <2>1, <2>2, <4>1
      <4>3. w[x] \in Nat /\ f[(s \ {x}) \ {y}] \in Nat
        <5>1. /\ s \ {x} \in SUBSET S /\ Cardinality(s \ {x}) <= n
          BY <1>0, OneLess
        <5>2. (s \ {x}) \ {y} \in SUBSET S /\ Cardinality((s \ {x}) \ {y}) <= n
          <6>1. IsFiniteSet(s \ {x})
            BY <1>0, <5>1
          <6>2. Cardinality((s \ {x}) \ {y}) = Cardinality(s \ {x}) - 1
            BY <4>1, <6>1, FS_RemoveElement
          <6>3. QED
            BY <1>0, <5>1, <6>2
        <5>3. QED
          BY <1>4, <5>2
      <4>4. QED
        BY <2>1, <4>2, <4>3
    <3>3. QED
      BY <3>1, <3>2
  <2>5. QED
    BY <2>3, <2>4
<1>5. \A n \in Nat : n \in N
  <2> HIDE DEF N
  <2> QED
    BY <1>3, <1>4, Induction
<1>6. \A s \in SUBSET S : Good(s)
  <2> HIDE DEF Good
  <2> QED
    BY <1>0, <1>5
<1>7. QED
  BY <1>1, <1>2, <1>6 DEF Adds

(* Two sums are equal if their weights agree, and are zero where only one  *)
(* of the sets reaches.                                                    *)
LEMMA SumsAgree ==
    ASSUME NEW T, IsFiniteSet(T), NEW S \in SUBSET T, NEW v, NEW w, NEW f, NEW g,
           Adds(f, v, S), Adds(g, w, T), \A x \in S : v[x] = w[x], \A x \in T \ S : w[x] = 0
    PROVE  f[S] = g[T]
<1>0. \A s \in SUBSET T : IsFiniteSet(s) /\ Cardinality(s) \in Nat
  BY FS_Subset, FS_CardinalityType
<1> DEFINE N == {n \in Nat : \A s \in SUBSET T : Cardinality(s) <= n => g[s] = f[s \cap S]}
<1>1. 0 \in N
  <2> SUFFICES ASSUME NEW s \in SUBSET T, Cardinality(s) <= 0 PROVE g[s] = f[s \cap S]
    OBVIOUS
  <2>1. s = {} /\ s \cap S = {}
    BY <1>0, FS_EmptySet
  <2>2. QED
    BY <2>1 DEF Adds
<1>2. ASSUME NEW n \in Nat, n \in N PROVE n + 1 \in N
  <2> SUFFICES ASSUME NEW s \in SUBSET T, Cardinality(s) <= n + 1 PROVE g[s] = f[s \cap S]
    OBVIOUS
  <2>1. CASE s = {}
    <3>1. s \cap S = {}
      BY <2>1
    <3>2. QED
      BY <2>1, <3>1 DEF Adds
  <2>2. CASE s # {}
    <3>1. PICK x : x \in s
      BY <2>2
    <3> DEFINE r == s \ {x}
    <3>2. r \in SUBSET T /\ Cardinality(r) <= n
      BY <1>0, <3>1, OneLess
    <3>3. g[s] = w[x] + f[r \cap S]
      <4>1. g[r] = f[r \cap S]
        BY <1>2, <3>2
      <4>2. g[s] = w[x] + g[r]
        BY <3>1 DEF Adds
      <4>3. QED
        BY <4>1, <4>2
    <3>4. r \cap S \in SUBSET S /\ f[r \cap S] \in Nat
      BY DEF Adds
    <3>5. CASE x \in S
      <4>1. x \in s \cap S /\ s \cap S \in SUBSET S /\ (s \cap S) \ {x} = r \cap S
        BY <3>1, <3>5
      <4>2. f[s \cap S] = v[x] + f[(s \cap S) \ {x}]
        BY <4>1 DEF Adds
      <4>3. QED
        BY <3>3, <3>5, <4>1, <4>2
    <3>6. CASE x \notin S
      <4>1. s \cap S = r \cap S /\ w[x] = 0
        BY <3>1, <3>6
      <4>2. QED
        BY <3>3, <3>4, <4>1
    <3>7. QED
      BY <3>5, <3>6
  <2>3. QED
    BY <2>1, <2>2
<1>3. Cardinality(T) \in N
  <2>1. Cardinality(T) \in Nat
    BY <1>0
  <2> HIDE DEF N
  <2>2. QED
    BY <1>1, <1>2, <2>1, Induction
<1>4. T \cap S = S
  OBVIOUS
<1>5. QED
  BY <1>0, <1>3, <1>4

-----------------------------------------------------------------------------
(* The values of events and of the rows                                    *)
Phases == {"open", "blocked", "terminal"}
Started == {"runner_invocation_started"}
OfMember == {"hand_raise", "stream_cursor_acknowledged", "review_submitted", "member_attended"}
Events == [type : CouncilTypes \cup DelegationTypes,
           key : Members \cup Invocations \cup Batches \cup {None}, phase : Phases,
           payload : Payload]
Fits(s, e) ==
    /\ e.type \in OfMember => e.key \in Members
    /\ e.type \in Started \cup RunnerTerminal => e.key \in Invocations /\ s \in Councils
    /\ e.type \in {"escalation_batched", "user_escalation_requested"} => e.key \in Batches
    /\ e.type = "attendance_requested" => e.key = None
    /\ e.type = "member_attended" => e.payload.status \in Statuses

BatchRows == [status : {"none", "pending", "flushed"}, session : Sessions \cup {None},
              count : Nat]
RunnerRows == [status : {"none", "started", "failed", "discarded", "succeeded"},
               costAggregated : BOOLEAN]
Pending == {0} \cup {countPending(batches, s) : batches \in [Batches -> BatchRows], s \in Sessions}
RowPhases == Phases \cup {"none"}
Speakers == Members \cup {None}
Raises == [Members -> {"none", "recent_speaker", "eligible"}]
Attendances == [Members -> {"none", "requested"} \cup Statuses]
Latest == [Members -> Nat]
Rows == [phase : RowPhases, blockedBy : Nat, calls : Nat, cost : Nat, pending : Pending,
         lastSpeaker : Speakers, raises : Raises, attendance : Attendances, latest : Latest,
         events : Nat]
States == [rows : [Sessions -> Rows], runners : [Invocations -> RunnerRows],
           batches : [Batches -> BatchRows]]

(* The invocations whose cost is in a sum                                  *)
Paid(db) == {i \in Invocations : db.runners[i].costAggregated = TRUE}

(* d differs from db in the row of s, in the runners and in the batches.   *)
Within(d, db, s) == d \in States /\ \A t \in Sessions \ {s} : d.rows[t] = db.rows[t]

(* One row of a state is replaced.                                         *)
LEMMA RowChange ==
    ASSUME NEW db \in States, NEW s \in Sessions, NEW r \in Rows
    PROVE  LET d == [db EXCEPT !.rows[s] = r]
           IN  /\ Within(d, db, s) /\ d.rows[s] = r
               /\ d.runners = db.runners /\ d.batches = db.batches
  BY DEF Within, States

(* One runner row of a state is replaced.                                  *)
LEMMA RunnerChange ==
    ASSUME NEW db \in States, NEW i \in Invocations, NEW r \in RunnerRows
    PROVE  LET d == [db EXCEPT !.runners[i] = r]
           IN  /\ d \in States /\ d.rows = db.rows
               /\ \A j \in Invocations : d.runners[j] = IF j = i THEN r ELSE db.runners[j]
  BY DEF States

(* The row of the session                                                  *)
LEMMA SessionStage ==
    ASSUME NEW db \in States, NEW s \in Sessions, NEW e \in Events
    PROVE  LET d == applySession(db, s, e)
           IN  /\ Within(d, db, s)
               /\ d.runners = db.runners
               /\ d.rows[s].events = db.rows[s].events + 1
               /\ d.rows[s].phase = e.phase
               /\ d.rows[s].calls = db.rows[s].calls
               /\ d.rows[s].cost = db.rows[s].cost
               /\ d.rows[s].attendance = db.rows[s].attendance
<1> DEFINE old == db.rows[s]
           n == old.events + 1
           blocked == CASE e.phase = "blocked" -> n
                        [] e.type = "session_resumed" -> 0
                        [] OTHER -> old.blockedBy
           row == [old EXCEPT !.phase = e.phase, !.events = n, !.blockedBy = blocked]
<1>1. old \in Rows /\ e.phase \in RowPhases
  BY DEF States, Events, RowPhases
<1>2. n \in Nat /\ blocked \in Nat
  <2> HIDE DEF old
  <2> QED
    BY <1>1 DEF Rows
<1>3. applySession(db, s, e) = [db EXCEPT !.rows[s] = row]
  <2>1. applySession(db, s, e) =
          [db EXCEPT !.rows[s].phase = e.phase, !.rows[s].events = n,
                     !.rows[s].blockedBy = blocked]
    BY DEF applySession, States, Rows
  <2>2. QED
    <3> HIDE DEF blocked
    <3> QED
      BY <2>1 DEF States
<1>4. /\ row \in Rows /\ row.events = n /\ row.phase = e.phase /\ row.calls = old.calls
      /\ row.cost = old.cost /\ row.attendance = old.attendance
  <2> HIDE DEF old, n, blocked
  <2> QED
    BY <1>1, <1>2 DEF Rows
<1>5. QED
  <2> HIDE DEF row
  <2> QED
    BY <1>3, <1>4, RowChange

(* The runner rows and the sums of the session                             *)
LEMMA RunnerStage ==
    ASSUME NEW db \in States, NEW s \in Sessions, NEW e \in Events, Fits(s, e)
    PROVE  LET d == applyRunnerEvent(db, s, e)
           IN  /\ Within(d, db, s)
               /\ d.rows[s].events = db.rows[s].events
               /\ d.rows[s].phase = db.rows[s].phase
               /\ d.rows[s].attendance = db.rows[s].attendance
               /\ d.rows[s].calls = db.rows[s].calls + (IF e.type \in Started THEN 1 ELSE 0)
               /\ d.rows[s].cost = db.rows[s].cost +
                      (IF e.type \in RunnerTerminal /\ e.key \notin Paid(db) THEN 1 ELSE 0)
               /\ e.type \in Started => Paid(d) = Paid(db) \ {e.key}
               /\ e.type \in RunnerTerminal => Paid(d) = Paid(db) \cup {e.key}
               /\ e.type \notin Started \cup RunnerTerminal => Paid(d) = Paid(db)
<1> DEFINE d == applyRunnerEvent(db, s, e)
           old == db.rows[s]
<1> SUFFICES /\ Within(d, db, s)
             /\ d.rows[s].events = old.events /\ d.rows[s].phase = old.phase
             /\ d.rows[s].attendance = old.attendance
             /\ d.rows[s].calls = old.calls + (IF e.type \in Started THEN 1 ELSE 0)
             /\ d.rows[s].cost = old.cost +
                    (IF e.type \in RunnerTerminal /\ e.key \notin Paid(db) THEN 1 ELSE 0)
             /\ e.type \in Started => Paid(d) = Paid(db) \ {e.key}
             /\ e.type \in RunnerTerminal => Paid(d) = Paid(db) \cup {e.key}
             /\ e.type \notin Started \cup RunnerTerminal => Paid(d) = Paid(db)
  BY Zenon
<1>0. old \in Rows /\ old.calls \in Nat /\ old.cost \in Nat
  BY DEF States, Rows
<1>1. CASE e.type \in Started
  <2> DEFINE n == old.calls + 1
             row == [old EXCEPT !.calls = n]
             new == [status |-> "started", costAggregated |-> FALSE]
             mid == [db EXCEPT !.runners[e.key] = new]
  <2>1. d = [mid EXCEPT !.rows[s] = row]
    <3>1. e.type = "runner_invocation_started"
      BY <1>1 DEF Started
    <3>2. d = [db EXCEPT !.runners[e.key] = new, !.rows[s].calls = @ + 1]
      BY <3>1 DEF applyRunnerEvent, RunnerTerminal, Outcomes
    <3>3. @ = [db EXCEPT !.runners[e.key] = new, !.rows[s].calls = n]
      BY DEF States
    <3>4. QED
      BY <3>2, <3>3 DEF States
  <2>2. /\ row \in Rows /\ row.events = old.events /\ row.phase = old.phase /\ row.calls = n
        /\ row.cost = old.cost /\ row.attendance = old.attendance
    <3>1. n \in Nat
      BY <1>0
    <3> HIDE DEF old, n
    <3>2. QED
      BY <1>0, <3>1 DEF Rows
  <2>3. /\ mid \in States /\ mid.rows = db.rows /\ e.key \in Invocations
        /\ \A j \in Invocations : mid.runners[j] = IF j = e.key THEN new ELSE db.runners[j]
    <3>1. e.key \in Invocations /\ new \in RunnerRows
      BY <1>1 DEF Fits, RunnerRows
    <3>2. QED
      BY <3>1, RunnerChange
  <2>4. Within(d, mid, s) /\ d.rows[s] = row /\ d.runners = mid.runners
    <3> HIDE DEF mid, row, d
    <3> QED
      BY <2>1, <2>2, <2>3, RowChange
  <2>5. Within(d, db, s)
    BY <2>3, <2>4 DEF Within
  <2>6. e.type \notin RunnerTerminal
    BY <1>1 DEF Started, RunnerTerminal, Outcomes
  <2>7. Paid(d) = Paid(db) \ {e.key}
    <3>1. new.costAggregated = FALSE
      OBVIOUS
    <3> HIDE DEF mid, row, d, new
    <3>2. QED
      BY <2>3, <2>4, <3>1 DEF Paid
  <2>8. QED
    <3> HIDE DEF mid, row, d, new, old
    <3> QED
      BY <1>0, <1>1, <2>2, <2>4, <2>5, <2>6, <2>7
<1>2. CASE e.type \in RunnerTerminal
  <2> DEFINE paid == db.runners[e.key].costAggregated
             n == IF paid THEN old.cost ELSE old.cost + 1
             row == [old EXCEPT !.cost = n]
             new == [status |-> CASE e.type = "runner_invocation_failed" -> "failed"
                                  [] e.type = "runner_result_discarded" -> "discarded"
                                  [] OTHER -> "succeeded",
                     costAggregated |-> TRUE]
             mid == [db EXCEPT !.runners[e.key] = new]
  <2>1. d = [mid EXCEPT !.rows[s] = row]
    <3>1. e.type # "runner_invocation_started"
      BY <1>2 DEF RunnerTerminal, Outcomes
    <3>2. d = [db EXCEPT !.runners[e.key] = new, !.rows[s].cost = IF paid THEN @ ELSE @ + 1]
      BY <1>2, <3>1 DEF applyRunnerEvent
    <3>3. @ = [db EXCEPT !.runners[e.key] = new, !.rows[s].cost = n]
      BY DEF States
    <3>4. QED
      <4> HIDE DEF n, new
      <4> QED
        BY <3>2, <3>3 DEF States
  <2>2. /\ row \in Rows /\ row.events = old.events /\ row.phase = old.phase
        /\ row.calls = old.calls /\ row.cost = n /\ row.attendance = old.attendance
    <3>1. n \in Nat
      BY <1>0
    <3> HIDE DEF old, n
    <3>2. QED
      BY <1>0, <3>1 DEF Rows
  <2>3. /\ mid \in States /\ mid.rows = db.rows /\ e.key \in Invocations
        /\ \A j \in Invocations : mid.runners[j] = IF j = e.key THEN new ELSE db.runners[j]
    <3>1. e.key \in Invocations /\ new \in RunnerRows
      BY <1>2 DEF Fits, RunnerRows
    <3>2. QED
      <4> HIDE DEF new
      <4> QED
        BY <3>1, RunnerChange
  <2>4. Within(d, mid, s) /\ d.rows[s] = row /\ d.runners = mid.runners
    <3> HIDE DEF mid, row, d
    <3> QED
      BY <2>1, <2>2, <2>3, RowChange
  <2>5. Within(d, db, s)
    BY <2>3, <2>4 DEF Within
  <2>6. e.type \notin Started
    BY <1>2 DEF Started, RunnerTerminal, Outcomes
  <2>7. Paid(d) = Paid(db) \cup {e.key}
    <3>1. new.costAggregated = TRUE
      OBVIOUS
    <3> HIDE DEF mid, row, d, new
    <3>2. QED
      BY <2>3, <2>4, <3>1 DEF Paid
  <2>8. n = old.cost + (IF e.key \notin Paid(db) THEN 1 ELSE 0)
    <3>1. paid \in BOOLEAN /\ (e.key \in Paid(db) <=> paid = TRUE)
      BY <2>3 DEF Paid, States, RunnerRows
    <3> HIDE DEF paid
    <3>2. QED
      BY <1>0, <3>1
  <2>9. QED
    <3> HIDE DEF mid, row, d, new, old, n
    <3> QED
      BY <1>0, <1>2, <2>2, <2>4, <2>5, <2>6, <2>7, <2>8
<1>3. CASE e.type \notin Started \cup RunnerTerminal
  <2>1. d = db
    BY <1>3 DEF applyRunnerEvent, Started
  <2>2. Within(d, db, s)
    BY <2>1 DEF Within
  <2>3. QED
    <3> HIDE DEF d, old
    <3> QED
      BY <1>0, <1>3, <2>1, <2>2 DEF old
<1>4. QED
  BY <1>1, <1>2, <1>3

(* The other stages leave the phase, the sums and the number of events.    *)
Beside(d, db, s) ==
    /\ Within(d, db, s) /\ Paid(d) = Paid(db)
    /\ d.rows[s].events = db.rows[s].events /\ d.rows[s].phase = db.rows[s].phase
    /\ d.rows[s].calls = db.rows[s].calls /\ d.rows[s].cost = db.rows[s].cost

(* The batches of an escalation                                            *)
LEMMA BatchesTyped ==
    ASSUME NEW b \in [Batches -> BatchRows], NEW s \in Sessions, NEW e \in Events, Fits(s, e)
    PROVE  applyBatch(b, s, e) \in [Batches -> BatchRows]
<1>1. CASE e.type = "escalation_batched"
  <2>1. e.key \in Batches
    BY <1>1 DEF Fits
  <2>2. CASE b[e.key].status # "none"
    <3> DEFINE n == b[e.key].count + 1
    <3>1. applyBatch(b, s, e) = [b EXCEPT ![e.key].count = n]
      BY <1>1, <2>2 DEF applyBatch
    <3>2. b[e.key] \in BatchRows /\ n \in Nat
      BY <2>1 DEF BatchRows
    <3>3. QED
      <4> HIDE DEF n
      <4> QED
        BY <2>1, <3>1, <3>2 DEF BatchRows
  <2>3. CASE b[e.key].status = "none"
    <3> DEFINE new == [status |-> "pending", session |-> s, count |-> 1]
    <3>1. applyBatch(b, s, e) = [b EXCEPT ![e.key] = new]
      BY <1>1, <2>3 DEF applyBatch
    <3>2. new \in BatchRows
      BY DEF BatchRows
    <3>3. QED
      <4> HIDE DEF new
      <4> QED
        BY <2>1, <3>1, <3>2
  <2>4. QED
    BY <2>2, <2>3
<1>2. CASE /\ e.type = "user_escalation_requested" /\ e.payload.batch
           /\ b[e.key].status # "none"
  <2>1. e.key \in Batches
    BY <1>2 DEF Fits
  <2>2. applyBatch(b, s, e) = [b EXCEPT ![e.key].status = "flushed", ![e.key].count = 0]
    BY <1>2 DEF applyBatch
  <2>3. QED
    BY <2>1, <2>2 DEF BatchRows
<1>3. CASE /\ e.type # "escalation_batched"
           /\ ~(/\ e.type = "user_escalation_requested" /\ e.payload.batch
                /\ b[e.key].status # "none")
  BY <1>3 DEF applyBatch
<1>4. QED
  BY <1>1, <1>2, <1>3

(* The batches and the pending count                                       *)
LEMMA EscalationStage ==
    ASSUME NEW db \in States, NEW s \in Sessions, NEW e \in Events, Fits(s, e)
    PROVE  /\ Beside(applyEscalationEvent(db, s, e), db, s)
           /\ applyEscalationEvent(db, s, e).rows[s].attendance = db.rows[s].attendance
<1> DEFINE old == db.rows[s]
           b == applyBatch(db.batches, s, e)
           n == countPending(b, s)
           row == [old EXCEPT !.pending = n]
           mid == [db EXCEPT !.batches = b]
           d == applyEscalationEvent(db, s, e)
<1>1. old \in Rows /\ b \in [Batches -> BatchRows]
  BY BatchesTyped DEF States
<1>2. n \in Pending
  <2> HIDE DEF b
  <2> QED
    BY <1>1 DEF Pending
<1>3. mid \in States /\ mid.rows = db.rows /\ mid.runners = db.runners
  <2> HIDE DEF b
  <2> QED
    BY <1>1 DEF States
<1>4. d = [mid EXCEPT !.rows[s] = row]
  <2>1. d = [db EXCEPT !.batches = b, !.rows[s].pending = n]
    BY DEF applyEscalationEvent
  <2> HIDE DEF b, n
  <2>2. QED
    BY <2>1 DEF States
<1>5. /\ row \in Rows /\ row.events = old.events /\ row.phase = old.phase
      /\ row.calls = old.calls /\ row.cost = old.cost /\ row.attendance = old.attendance
  <2> HIDE DEF old, n
  <2> QED
    BY <1>1, <1>2 DEF Rows
<1>6. Within(d, mid, s) /\ d.rows[s] = row /\ d.runners = mid.runners
  <2> HIDE DEF mid, row, d
  <2> QED
    BY <1>3, <1>4, <1>5, RowChange
<1>7. QED
  <2> HIDE DEF mid, row, d
  <2> QED
    BY <1>3, <1>5, <1>6 DEF Beside, Within, Paid, d

(* The hand raises and the attendance                                      *)
LEMMA CouncilStage ==
    ASSUME NEW db \in States, NEW s \in Sessions, NEW e \in Events, Fits(s, e)
    PROVE  LET d == applyCouncilEvent(db, s, e)
           IN  /\ Beside(d, db, s)
               /\ d.rows[s].attendance =
                     IF e.type = "attendance_requested" THEN [m \in Members |-> "requested"]
                     ELSE IF e.type = "member_attended"
                     THEN [db.rows[s].attendance EXCEPT ![e.key] = Shown(e)]
                     ELSE db.rows[s].attendance
<1> DEFINE old == db.rows[s]
           d == applyCouncilEvent(db, s, e)
           new == IF e.type = "attendance_requested" THEN [m \in Members |-> "requested"]
                  ELSE IF e.type = "member_attended"
                  THEN [old.attendance EXCEPT ![e.key] = Shown(e)]
                  ELSE old.attendance
           hand == IF e.type = "hand_raise"
                   THEN [old.raises EXCEPT ![e.key] =
                            IF old.lastSpeaker = e.key THEN "recent_speaker" ELSE "eligible"]
                   ELSE old.raises
           row == [old EXCEPT !.raises = hand, !.attendance = new]
<1>1. old \in Rows /\ old.raises \in Raises /\ old.attendance \in Attendances
  BY DEF States, Rows
<1>2. hand \in Raises
  <2> HIDE DEF old
  <2> QED
    BY <1>1 DEF Raises, Fits, OfMember
<1>3. new \in Attendances
  <2>1. e.type = "member_attended" => Shown(e) \in Statuses /\ e.key \in Members
    BY DEF Shown, Fits, OfMember, Events, Payload
  <2> HIDE DEF old
  <2>2. QED
    BY <1>1, <2>1 DEF Attendances
<1>4. d = [db EXCEPT !.rows[s] = row]
  <2>1. CASE e.type = "hand_raise"
    <3>1. new = old.attendance
      BY <2>1
    <3>2. row = [old EXCEPT !.raises = hand]
      <4> HIDE DEF old, hand, new
      <4> QED
        BY <1>1, <3>1 DEF Rows
    <3>3. d = [db EXCEPT !.rows[s].raises[e.key] =
                IF db.rows[s].lastSpeaker = e.key THEN "recent_speaker" ELSE "eligible"]
      BY <2>1 DEF applyCouncilEvent
    <3>4. hand = [old.raises EXCEPT ![e.key] =
                            IF old.lastSpeaker = e.key THEN "recent_speaker" ELSE "eligible"]
      BY <2>1
    <3>5. QED
      <4> HIDE DEF row, d, hand, new
      <4> QED
        BY <3>2, <3>3, <3>4 DEF States
  <2>2. CASE e.type = "attendance_requested"
    <3>1. hand = old.raises /\ new = [m \in Members |-> "requested"]
      BY <2>2
    <3>2. row = [old EXCEPT !.attendance = new]
      <4> HIDE DEF old, hand, new
      <4> QED
        BY <1>1, <3>1 DEF Rows
    <3>3. d = [db EXCEPT !.rows[s].attendance = new]
      BY <2>2 DEF applyCouncilEvent
    <3>4. QED
      <4> HIDE DEF row, d, hand, new
      <4> QED
        BY <3>2, <3>3 DEF States
  <2>3. CASE e.type = "member_attended"
    <3>1. hand = old.raises /\ new = [old.attendance EXCEPT ![e.key] = Shown(e)]
      BY <2>3
    <3>2. row = [old EXCEPT !.attendance = new]
      <4> HIDE DEF old, hand, new
      <4> QED
        BY <1>1, <3>1 DEF Rows
    <3>3. d = [db EXCEPT !.rows[s].attendance[e.key] = Shown(e)]
      BY <2>3 DEF applyCouncilEvent
    <3>4. QED
      <4> HIDE DEF row, d, hand, new
      <4> QED
        BY <3>1, <3>2, <3>3 DEF States
  <2>4. CASE e.type \notin {"hand_raise", "attendance_requested", "member_attended"}
    <3>1. hand = old.raises /\ new = old.attendance /\ d = db
      BY <2>4 DEF applyCouncilEvent
    <3>2. row = old
      <4> HIDE DEF old, hand, new
      <4> QED
        BY <1>1, <3>1 DEF Rows
    <3>3. QED
      <4> HIDE DEF row, d, hand, new
      <4> QED
        BY <3>1, <3>2 DEF States
  <2>5. QED
    BY <2>1, <2>2, <2>3, <2>4
<1>5. /\ row \in Rows /\ row.events = old.events /\ row.phase = old.phase
      /\ row.calls = old.calls /\ row.cost = old.cost /\ row.attendance = new
  <2> HIDE DEF old, hand, new
  <2> QED
    BY <1>1, <1>2, <1>3 DEF Rows
<1>6. Within(d, db, s) /\ d.rows[s] = row /\ d.runners = db.runners
  <2> HIDE DEF row, d
  <2> QED
    BY <1>4, <1>5, RowChange
<1>7. Beside(d, db, s) /\ d.rows[s].attendance = new
  <2> HIDE DEF row, d, new
  <2> QED
    BY <1>5, <1>6 DEF Beside, Within, Paid
<1>8. QED
  BY <1>7, Zenon

(* The tables that keep the last event of a key                            *)
LEMMA LatestStage ==
    ASSUME NEW db \in States, NEW s \in Sessions, NEW e \in Events, Fits(s, e),
           NEW d \in {applyStreamEvent(db, s, e), applyReviewEvent(db, s, e)}
    PROVE  Beside(d, db, s) /\ d.rows[s].attendance = db.rows[s].attendance
<1> DEFINE old == db.rows[s]
           n == old.events
           new == [old.latest EXCEPT ![e.key] = n]
           row == [old EXCEPT !.latest = new]
<1>1. CASE d = db
  BY <1>1 DEF Beside, Within
<1>2. CASE d # db
  <2>1. e.type \in OfMember /\ d = [db EXCEPT !.rows[s].latest[e.key] = n]
    BY <1>2 DEF applyStreamEvent, applyReviewEvent, OfMember
  <2>2. old \in Rows /\ new \in Latest
    BY <2>1 DEF States, Rows, Latest, Fits
  <2>3. d = [db EXCEPT !.rows[s] = row]
    <3> HIDE DEF n
    <3> QED
      BY <2>1 DEF States
  <2>4. /\ row \in Rows /\ row.events = old.events /\ row.phase = old.phase
        /\ row.calls = old.calls /\ row.cost = old.cost /\ row.attendance = old.attendance
    <3> HIDE DEF old, new
    <3> QED
      BY <2>2 DEF Rows
  <2>5. Within(d, db, s) /\ d.rows[s] = row /\ d.runners = db.runners
    <3> HIDE DEF row
    <3> QED
      BY <2>3, <2>4, RowChange
  <2>6. QED
    <3> HIDE DEF row
    <3> QED
      BY <2>4, <2>5 DEF Beside, Within, Paid
<1>3. QED
  BY <1>1, <1>2

(* What one event does to a state                                          *)
LEMMA EventEffect ==
    ASSUME NEW db \in States, NEW s \in Sessions, NEW e \in Events, Fits(s, e)
    PROVE  LET d == applyEvent(db, s, e)
           IN  /\ Within(d, db, s)
               /\ d.rows[s].events = db.rows[s].events + 1
               /\ d.rows[s].phase = e.phase
               /\ d.rows[s].calls = db.rows[s].calls + (IF e.type \in Started THEN 1 ELSE 0)
               /\ d.rows[s].cost = db.rows[s].cost +
                      (IF e.type \in RunnerTerminal /\ e.key \notin Paid(db) THEN 1 ELSE 0)
               /\ e.type \in Started => Paid(d) = Paid(db) \ {e.key}
               /\ e.type \in RunnerTerminal => Paid(d) = Paid(db) \cup {e.key}
               /\ e.type \notin Started \cup RunnerTerminal => Paid(d) = Paid(db)
               /\ d.rows[s].attendance =
                     IF e.type = "attendance_requested" THEN [m \in Members |-> "requested"]
                     ELSE IF e.type = "member_attended"
                     THEN [db.rows[s].attendance EXCEPT ![e.key] = Shown(e)]
                     ELSE db.rows[s].attendance
<1> DEFINE row     == applySession(db, s, e)
           runner  == applyRunnerEvent(row, s, e)
           batched == applyEscalationEvent(runner, s, e)
           council == applyCouncilEvent(batched, s, e)
           stream  == applyStreamEvent(council, s, e)
           d       == applyReviewEvent(stream, s, e)
<1>1. /\ Within(row, db, s) /\ Paid(row) = Paid(db)
      /\ row.rows[s].events = db.rows[s].events + 1 /\ row.rows[s].phase = e.phase
      /\ row.rows[s].calls = db.rows[s].calls /\ row.rows[s].cost = db.rows[s].cost
      /\ row.rows[s].attendance = db.rows[s].attendance
  BY SessionStage, Zenon DEF Paid
<1>2. /\ Within(runner, row, s)
      /\ runner.rows[s].events = row.rows[s].events /\ runner.rows[s].phase = row.rows[s].phase
      /\ runner.rows[s].attendance = row.rows[s].attendance
      /\ runner.rows[s].calls = row.rows[s].calls + (IF e.type \in Started THEN 1 ELSE 0)
      /\ runner.rows[s].cost = row.rows[s].cost +
             (IF e.type \in RunnerTerminal /\ e.key \notin Paid(row) THEN 1 ELSE 0)
      /\ e.type \in Started => Paid(runner) = Paid(row) \ {e.key}
      /\ e.type \in RunnerTerminal => Paid(runner) = Paid(row) \cup {e.key}
      /\ e.type \notin Started \cup RunnerTerminal => Paid(runner) = Paid(row)
  <2>1. row \in States
    BY <1>1 DEF Within
  <2> HIDE DEF row
  <2>2. QED
    BY <2>1, RunnerStage
<1>3. Beside(batched, runner, s) /\ batched.rows[s].attendance = runner.rows[s].attendance
  <2>1. runner \in States
    BY <1>2 DEF Within
  <2> HIDE DEF runner
  <2>2. QED
    BY <2>1, EscalationStage
<1>4. /\ Beside(council, batched, s)
      /\ council.rows[s].attendance =
             IF e.type = "attendance_requested" THEN [m \in Members |-> "requested"]
             ELSE IF e.type = "member_attended"
             THEN [batched.rows[s].attendance EXCEPT ![e.key] = Shown(e)]
             ELSE batched.rows[s].attendance
  <2>1. batched \in States
    BY <1>3 DEF Beside, Within
  <2> HIDE DEF batched
  <2>2. QED
    BY <2>1, CouncilStage
<1>5. Beside(stream, council, s) /\ stream.rows[s].attendance = council.rows[s].attendance
  <2>1. council \in States
    BY <1>4 DEF Beside, Within
  <2> HIDE DEF council
  <2>2. QED
    BY <2>1, LatestStage
<1>6. Beside(d, stream, s) /\ d.rows[s].attendance = stream.rows[s].attendance
  <2>1. stream \in States
    BY <1>5 DEF Beside, Within
  <2> HIDE DEF stream
  <2>2. QED
    BY <2>1, LatestStage
<1>7. applyEvent(db, s, e) = d
  BY Zenon DEF applyEvent
<1>8. Within(d, db, s)
  <2> HIDE DEF row, runner, batched, council, stream, d
  <2> QED
    BY <1>1, <1>2, <1>3, <1>4, <1>5, <1>6 DEF Beside, Within
<1>9. /\ d.rows[s].events = db.rows[s].events + 1 /\ d.rows[s].phase = e.phase
      /\ d.rows[s].calls = db.rows[s].calls + (IF e.type \in Started THEN 1 ELSE 0)
      /\ d.rows[s].cost = db.rows[s].cost +
             (IF e.type \in RunnerTerminal /\ e.key \notin Paid(db) THEN 1 ELSE 0)
      /\ e.type \in Started => Paid(d) = Paid(db) \ {e.key}
      /\ e.type \in RunnerTerminal => Paid(d) = Paid(db) \cup {e.key}
      /\ e.type \notin Started \cup RunnerTerminal => Paid(d) = Paid(db)
      /\ d.rows[s].attendance =
             IF e.type = "attendance_requested" THEN [m \in Members |-> "requested"]
             ELSE IF e.type = "member_attended"
             THEN [db.rows[s].attendance EXCEPT ![e.key] = Shown(e)]
             ELSE db.rows[s].attendance
  <2> HIDE DEF row, runner, batched, council, stream, d
  <2> QED
    BY <1>1, <1>2, <1>3, <1>4, <1>5, <1>6 DEF Beside
<1>10. QED
  <2> HIDE DEF d
  <2> QED
    BY <1>7, <1>8, <1>9, Zenon

-----------------------------------------------------------------------------
(* The logs: an invocation is started once, before its result.             *)
LogTyped ==
    /\ log \in [Sessions -> Seq(Events)]
    /\ \A s \in Sessions : \A k \in 1..Len(log[s]) : Fits(s, log[s][k])
StartsOnce ==
    \A s, t \in Sessions : \A j \in 1..Len(log[s]), k \in 1..Len(log[t]) :
        /\ log[s][j].type \in Started /\ log[t][k].type \in Started
        /\ log[s][j].key = log[t][k].key
        => s = t /\ j = k
StartFirst ==
    \A s \in Sessions : \A k \in 1..Len(log[s]) : log[s][k].type \in RunnerTerminal =>
        \E j \in 1..(k - 1) : log[s][j].type \in Started /\ log[s][j].key = log[s][k].key
YamlTyped ==
    /\ yaml \in [Sessions -> Speakers]
    /\ \A s \in behind : s \in Sessions /\ log[s] # <<>> /\ log[s][Len(log[s])].type = "speech"
LogInv == LogTyped /\ StartsOnce /\ StartFirst /\ YamlTyped

(* An append leaves the events before it where they are.                   *)
LEMMA AppendFacts ==
    ASSUME LogTyped, NEW s \in Sessions, NEW e \in Events,
           log' = [log EXCEPT ![s] = Append(@, e)]
    PROVE  /\ log' \in [Sessions -> Seq(Events)]
           /\ \A t \in Sessions : /\ Len(log[t]) \in Nat /\ Len(log'[t]) \in Nat
                                  /\ Len(log'[t]) = IF t = s THEN Len(log[t]) + 1 ELSE Len(log[t])
                                  /\ \A k \in 1..Len(log[t]) : log'[t][k] = log[t][k]
           /\ log'[s][Len(log[s]) + 1] = e
<1>1. log \in [Sessions -> Seq(Events)]
  BY DEF LogTyped
<1>2. log'[s] = Append(log[s], e) /\ \A t \in Sessions \ {s} : log'[t] = log[t]
  BY <1>1
<1>3. Append(log[s], e) \in Seq(Events)
  BY <1>1
<1>4. log' \in [Sessions -> Seq(Events)]
  BY <1>1, <1>3
<1>5. ASSUME NEW q \in Seq(Events)
      PROVE  /\ Len(q) \in Nat /\ Len(Append(q, e)) = Len(q) + 1
             /\ \A k \in 1..Len(q) : Append(q, e)[k] = q[k]
             /\ Append(q, e)[Len(q) + 1] = e
  OBVIOUS
<1>6. QED
  BY <1>1, <1>2, <1>4, <1>5

(* The keys of an event fit its type.                                      *)
LEMMA KeysFit ==
    ASSUME NEW s \in Sessions, NEW type \in CouncilTypes \cup DelegationTypes,
           type \in Started \cup RunnerTerminal => s \in Councils,
           NEW key \in Keys(s, type), NEW payload \in Payloads(type), NEW phase \in Phases
    PROVE  LET e == [type |-> type, key |-> key, payload |-> payload, phase |-> phase]
           IN  e \in Events /\ Fits(s, e)
<1>1. type \in OfMember => key \in Members
  BY DEF Keys, OfMember, Outcomes
<1>2. type \in Started \cup RunnerTerminal => key \in Invocations
  BY DEF Keys, Started, RunnerTerminal, Outcomes
<1>3. type \in {"escalation_batched", "user_escalation_requested"} => key \in Batches
  BY DEF Keys
<1>4. type \in {"attendance_requested", "session_blocked", "session_resumed", "work_accepted"}
        => key = None
  BY DEF Keys, Outcomes
<1>5. key \in Members \cup Invocations \cup Batches \cup {None}
  BY <1>1, <1>2, <1>3, <1>4 DEF CouncilTypes, DelegationTypes, OfMember, Started, RunnerTerminal, Outcomes
<1>6. payload \in Payload /\ (type = "member_attended" => payload.status \in Statuses)
  <2>1. Plain \in Payload /\ \A b \in BOOLEAN : [Plain EXCEPT !.batch = b] \in Payload
    BY DEF Payload, Plain
  <2>2. CASE type = "member_attended"
    <3>1. payload \in Payload /\ payload.status # None
      BY <2>2 DEF Payloads
    <3>2. QED
      BY <3>1 DEF Payload
  <2>3. CASE type = "user_escalation_requested"
    BY <2>1, <2>3 DEF Payloads
  <2>4. CASE type \notin {"member_attended", "user_escalation_requested"}
    BY <2>1, <2>4 DEF Payloads
  <2>5. QED
    BY <2>2, <2>3, <2>4
<1>7. QED
  BY <1>1, <1>2, <1>3, <1>4, <1>5, <1>6 DEF Events, Fits

(* A write appends an event that fits.                                     *)
Writes(s, type, key, payload) ==
    /\ \/ s \in Councils /\ type \in CouncilTypes
       \/ s \in Delegations /\ type \in DelegationTypes
    /\ key \in Keys(s, type) /\ payload \in Payloads(type)
    /\ WriteEvent(s, type, key, payload)

(* The event a write appends                                               *)
LEMMA WriteFacts ==
    ASSUME LogInv, NEW s, NEW type, NEW key, NEW payload, Writes(s, type, key, payload)
    PROVE  /\ s \in Sessions
           /\ \E e \in Events : /\ e.type = type /\ e.key = key /\ Fits(s, e)
                                /\ log' = [log EXCEPT ![s] = Append(@, e)]
<1>1. /\ s \in Sessions /\ type \in CouncilTypes \cup DelegationTypes
      /\ key \in Keys(s, type) /\ payload \in Payloads(type)
  BY DEF Writes, Sessions
<1>2. type \in Started \cup RunnerTerminal => s \in Councils
  BY DEF Writes, Started, RunnerTerminal, Outcomes, DelegationTypes
<1>3. PhaseOf(s) \in Phases
  <2>1. log[s] \in Seq(Events)
    BY <1>1 DEF LogInv, LogTyped
  <2>2. log[s] # <<>> => log[s][Len(log[s])] \in Events
    BY <2>1
  <2>3. QED
    BY <2>2 DEF PhaseOf, Events, Phases
<1> DEFINE phase == CASE type = "session_blocked" -> "blocked"
                      [] type = "session_resumed" -> "open"
                      [] type = "work_accepted" -> "terminal"
                      [] OTHER -> PhaseOf(s)
           e == [type |-> type, key |-> key, payload |-> payload, phase |-> phase]
<1>4. phase \in Phases
  BY <1>3 DEF Phases
<1>5. log' = [log EXCEPT ![s] = Append(@, e)]
  BY DEF Writes, WriteEvent
<1>6. e \in Events /\ Fits(s, e) /\ e.type = type /\ e.key = key
  <2> HIDE DEF phase
  <2> QED
    BY <1>1, <1>2, <1>4, KeysFit
<1>7. QED
  <2> HIDE DEF e
  <2> QED
    BY <1>1, <1>5, <1>6

(* A write keeps the order of the events of an invocation.                 *)
LEMMA WriteKeepsLog ==
    ASSUME LogInv, NEW s, NEW type, NEW key, NEW payload, Writes(s, type, key, payload)
    PROVE  LogInv'
<1>1. s \in Sessions
  BY WriteFacts
<1>2. PICK e \in Events : /\ e.type = type /\ e.key = key /\ Fits(s, e)
                          /\ log' = [log EXCEPT ![s] = Append(@, e)]
  BY WriteFacts
<1> DEFINE L == Len(log[s])
<1>3. LogTyped
  BY DEF LogInv
<1>4. /\ log' \in [Sessions -> Seq(Events)] /\ log'[s][L + 1] = e /\ L \in Nat
      /\ \A t \in Sessions : /\ Len(log[t]) \in Nat /\ Len(log'[t]) \in Nat
                             /\ Len(log'[t]) = IF t = s THEN Len(log[t]) + 1 ELSE Len(log[t])
                             /\ \A k \in 1..Len(log[t]) : log'[t][k] = log[t][k]
  BY <1>1, <1>2, <1>3, AppendFacts
<1>5. \A t \in Sessions : \A k \in 1..Len(log'[t]) :
          \/ k \in 1..Len(log[t]) /\ log'[t][k] = log[t][k]
          \/ t = s /\ k = L + 1 /\ log'[t][k] = e
  BY <1>4
<1>6. LogTyped'
  BY <1>2, <1>3, <1>4, <1>5 DEF LogTyped
<1>7. StartsOnce'
  <2>1. type \in Started => \A t \in Sessions, k \in Nat :
            k \in 1..Len(log[t]) /\ log[t][k].type \in Started => log[t][k].key # key
    <3> SUFFICES ASSUME type \in Started, NEW t \in Sessions, NEW k \in 1..Len(log[t]),
                        log[t][k].type \in Started
                 PROVE  log[t][k].key # key
      OBVIOUS
    <3>1. t \in Councils
      BY <1>3 DEF LogTyped, Fits
    <3>2. ~Has(t, type, key)
      BY <3>1 DEF Writes, Keys, Started
    <3>3. QED
      BY <3>2 DEF Has, Started
  <2>2. SUFFICES ASSUME NEW t \in Sessions, NEW u \in Sessions,
                        NEW j \in 1..Len(log'[t]), NEW k \in 1..Len(log'[u]),
                        log'[t][j].type \in Started, log'[u][k].type \in Started,
                        log'[t][j].key = log'[u][k].key
                 PROVE  t = u /\ j = k
    BY DEF StartsOnce
  <2>3. CASE j \in 1..Len(log[t]) /\ k \in 1..Len(log[u])
    BY <1>4, <2>2, <2>3 DEF LogInv, StartsOnce
  <2>4. CASE j \in 1..Len(log[t]) /\ u = s /\ k = L + 1 /\ log'[u][k] = e
    BY <1>2, <1>4, <2>1, <2>2, <2>4
  <2>5. CASE k \in 1..Len(log[u]) /\ t = s /\ j = L + 1 /\ log'[t][j] = e
    BY <1>2, <1>4, <2>1, <2>2, <2>5
  <2>6. CASE t = s /\ j = L + 1 /\ u = s /\ k = L + 1
    BY <2>6
  <2>7. QED
    BY <1>5, <2>3, <2>4, <2>5, <2>6
<1>8. StartFirst'
  <2> SUFFICES ASSUME NEW t \in Sessions, NEW k \in 1..Len(log'[t]),
                      log'[t][k].type \in RunnerTerminal
               PROVE  \E j \in 1..(k - 1) : /\ log'[t][j].type \in Started
                                            /\ log'[t][j].key = log'[t][k].key
    BY DEF StartFirst
  <2>1. CASE k \in 1..Len(log[t]) /\ log'[t][k] = log[t][k]
    <3>1. PICK j \in 1..(k - 1) : log[t][j].type \in Started /\ log[t][j].key = log[t][k].key
      BY <2>1 DEF LogInv, StartFirst
    <3>2. j \in 1..Len(log[t])
      BY <1>4, <2>1
    <3>3. QED
      BY <1>4, <2>1, <3>1, <3>2
  <2>2. CASE t = s /\ k = L + 1 /\ log'[t][k] = e
    <3>1. \E j \in 1..L : log[s][j].type \in Started /\ log[s][j].key = key
      <4>1. CASE type \in Outcomes
        <5>1. Has(s, "runner_invocation_started", key)
          BY <4>1 DEF Writes, Keys, Outcomes
        <5>2. QED
          BY <5>1 DEF Has, Started
      <4>2. CASE type = "speech"
        <5>1. Has(s, "runner_invocation_succeeded", key)
          BY <4>2 DEF Writes, Keys
        <5>2. PICK i \in 1..L : log[s][i].type \in RunnerTerminal /\ log[s][i].key = key
          BY <5>1 DEF Has, RunnerTerminal, Outcomes
        <5>3. PICK j \in 1..(i - 1) : log[s][j].type \in Started /\ log[s][j].key = key
          BY <1>1, <5>2 DEF LogInv, StartFirst
        <5>4. QED
          BY <1>4, <5>2, <5>3
      <4>3. QED
        BY <1>2, <2>2, <4>1, <4>2 DEF RunnerTerminal, Outcomes
    <3>2. QED
      BY <1>1, <1>2, <1>4, <2>2, <3>1
  <2>3. QED
    BY <1>5, <2>1, <2>2
<1>9. YamlTyped'
  <2>1. /\ yaml' = yaml /\ s \notin behind
        /\ behind' = IF type = "speech" THEN behind \cup {s} ELSE behind
    BY DEF Writes, WriteEvent
  <2>2. ASSUME NEW t \in Sessions, t \in behind'
        PROVE  log'[t] # <<>> /\ log'[t][Len(log'[t])].type = "speech"
    <3>1. log[t] \in Seq(Events) /\ log'[t] \in Seq(Events)
      BY <1>3, <1>4 DEF LogTyped
    <3>2. CASE t = s
      <4>1. type = "speech" /\ Len(log'[t]) = L + 1
        BY <1>4, <2>1, <2>2, <3>2
      <4>2. log'[t] # <<>>
        BY <1>4, <3>1, <4>1
      <4>3. QED
        BY <1>2, <1>4, <3>2, <4>1, <4>2
    <3>3. CASE t # s
      <4>1. t \in behind /\ log'[t] = log[t]
        BY <1>2, <1>3, <2>1, <2>2, <3>3 DEF LogTyped
      <4>2. QED
        BY <4>1 DEF LogInv, YamlTyped
    <3>4. QED
      BY <3>2, <3>3
  <2>3. behind' \subseteq Sessions
    BY <1>1, <2>1 DEF LogInv, YamlTyped
  <2>4. QED
    BY <2>1, <2>2, <2>3 DEF LogInv, YamlTyped
<1>10. QED
  BY <1>6, <1>7, <1>8, <1>9 DEF LogInv

(* session.yaml gets a member for its last speaker.                        *)
LEMMA YamlKeepsLog ==
    ASSUME LogInv, NEW s \in Sessions, WriteYaml(s)
    PROVE  LogInv'
<1>1. log' = log /\ s \in behind /\ behind' = behind \ {s}
  BY DEF WriteYaml
<1>2. /\ log[s] # <<>> /\ log[s] \in Seq(Events) /\ yaml \in [Sessions -> Speakers]
      /\ log[s][Len(log[s])].type = "speech"
  BY <1>1 DEF LogInv, LogTyped, YamlTyped
<1>3. Len(log[s]) \in 1..Len(log[s])
  BY <1>2
<1>4. Fits(s, log[s][Len(log[s])])
  BY <1>3 DEF LogInv, LogTyped
<1>5. yaml' \in [Sessions -> Speakers]
  <2>1. \A i \in Invocations : Speaker[i] \in Speakers
    BY ProjectionConstants DEF Speakers
  <2>2. QED
    BY <1>2, <1>4, <2>1 DEF WriteYaml, Fits, RunnerTerminal
<1>6. QED
  BY <1>1, <1>5 DEF LogInv, LogTyped, StartsOnce, StartFirst, YamlTyped

-----------------------------------------------------------------------------
(* What the first n events of a log say: the invocations with an event of  *)
(* a type, and the attendance of a member.                                 *)
Of(q, n, types) ==
    {i \in Invocations : \E k \in 1..n : q[k].type \in types /\ q[k].key = i}
Marks(e, m) == e.type = "attendance_requested" \/ (e.type = "member_attended" /\ e.key = m)
Mark(e) == IF e.type = "attendance_requested" THEN "requested" ELSE Shown(e)
View(q, n, m, v) ==
    \/ v = "none" /\ \A k \in 1..n : ~Marks(q[k], m)
    \/ \E k \in 1..n : /\ Marks(q[k], m) /\ v = Mark(q[k])
                        /\ \A j \in (k + 1)..n : ~Marks(q[j], m)

(* A state shows a prefix of every log.                                    *)
ShowsRow(q, r) ==
    /\ r.events <= Len(q)
    /\ r.events > 0 => r.phase = q[r.events].phase
    /\ IsFiniteSet(Of(q, r.events, Started))
    /\ r.calls = Cardinality(Of(q, r.events, Started))
    /\ IsFiniteSet(Of(q, r.events, RunnerTerminal))
    /\ r.cost = Cardinality(Of(q, r.events, RunnerTerminal))
    /\ \A m \in Members : View(q, r.events, m, r.attendance[m])
Settled(lg, db) == {i \in Invocations :
                       \E s \in Sessions : i \in Of(lg[s], db.rows[s].events, RunnerTerminal)}
Shows(lg, db) ==
    /\ db \in States
    /\ \A s \in Sessions : ShowsRow(lg[s], db.rows[s])
    /\ Paid(db) = Settled(lg, db)

(* One more event                                                          *)
LEMMA OfNext ==
    ASSUME NEW q, NEW n \in Nat, NEW types
    PROVE  /\ q[n + 1].type \in types /\ q[n + 1].key \in Invocations
                => Of(q, n + 1, types) = Of(q, n, types) \cup {q[n + 1].key}
           /\ q[n + 1].type \notin types => Of(q, n + 1, types) = Of(q, n, types)
<1>1. \A k \in 1..(n + 1) : k \in 1..n \/ k = n + 1
  OBVIOUS
<1>2. n + 1 \in 1..(n + 1) /\ \A k \in 1..n : k \in 1..(n + 1)
  OBVIOUS
<1>3. QED
  BY <1>1, <1>2 DEF Of

(* One more event, for the attendance of a member                          *)
LEMMA ViewNext ==
    ASSUME NEW q, NEW n \in Nat, NEW m, NEW v, View(q, n, m, v)
    PROVE  /\ Marks(q[n + 1], m) => View(q, n + 1, m, Mark(q[n + 1]))
           /\ ~Marks(q[n + 1], m) => View(q, n + 1, m, v)
<1>1. n + 1 \in 1..(n + 1) /\ (n + 1 + 1)..(n + 1) = {} /\ \A k \in 1..n : k \in 1..(n + 1)
  OBVIOUS
<1>2. Marks(q[n + 1], m) => View(q, n + 1, m, Mark(q[n + 1]))
  BY <1>1 DEF View
<1>3. ASSUME ~Marks(q[n + 1], m) PROVE View(q, n + 1, m, v)
  <2>1. \A k \in 1..(n + 1) : k \in 1..n \/ k = n + 1
    OBVIOUS
  <2>2. CASE v = "none" /\ \A k \in 1..n : ~Marks(q[k], m)
    BY <1>3, <2>1, <2>2 DEF View
  <2>3. ASSUME NEW k \in 1..n, Marks(q[k], m), v = Mark(q[k]),
               \A j \in (k + 1)..n : ~Marks(q[j], m)
        PROVE  View(q, n + 1, m, v)
    <3>1. \A j \in (k + 1)..(n + 1) : j \in (k + 1)..n \/ j = n + 1
      OBVIOUS
    <3>2. \A j \in (k + 1)..(n + 1) : ~Marks(q[j], m)
      BY <1>3, <2>3, <3>1
    <3>3. QED
      BY <1>1, <2>3, <3>2 DEF View
  <2>4. QED
    BY <2>2, <2>3 DEF View
<1>4. QED
  BY <1>2, <1>3

(* Appends leave what a state shows.                                       *)
LEMMA ShowsGrows ==
    ASSUME NEW lg, NEW lg2, NEW db, Shows(lg, db),
           \A s \in Sessions : /\ Len(lg[s]) \in Nat /\ Len(lg2[s]) \in Nat
                               /\ Len(lg[s]) <= Len(lg2[s])
                               /\ \A k \in 1..Len(lg[s]) : lg2[s][k] = lg[s][k]
    PROVE  Shows(lg2, db)
<1>1. ASSUME NEW s \in Sessions
      PROVE  /\ \A k \in 1..db.rows[s].events : lg2[s][k] = lg[s][k]
             /\ db.rows[s].events \in Nat
  BY DEF Shows, ShowsRow, States, Rows
<1>2. ASSUME NEW s \in Sessions, NEW types
      PROVE  Of(lg2[s], db.rows[s].events, types) = Of(lg[s], db.rows[s].events, types)
  BY <1>1 DEF Of
<1>3. ASSUME NEW s \in Sessions, NEW m \in Members, NEW v, View(lg[s], db.rows[s].events, m, v)
      PROVE  View(lg2[s], db.rows[s].events, m, v)
  <2> DEFINE n == db.rows[s].events
  <2>1. n \in Nat /\ \A k \in 1..n : lg2[s][k] = lg[s][k]
    BY <1>1
  <2>2. View(lg[s], n, m, v)
    BY <1>3
  <2> HIDE DEF n
  <2>3. \A j \in 1..n : \A k \in (j + 1)..n : k \in 1..n
    BY <2>1
  <2>4. View(lg2[s], n, m, v)
    BY <2>1, <2>2, <2>3 DEF View
  <2>5. QED
    BY <2>4 DEF n
<1>4. ASSUME NEW s \in Sessions PROVE ShowsRow(lg2[s], db.rows[s])
  <2>1. ShowsRow(lg[s], db.rows[s])
    BY DEF Shows
  <2>2. db.rows[s].events <= Len(lg2[s])
    BY <1>1, <2>1 DEF ShowsRow
  <2>3. db.rows[s].events > 0 =>
            lg2[s][db.rows[s].events].phase = lg[s][db.rows[s].events].phase
    BY <1>1
  <2>4. QED
    BY <1>2, <1>3, <2>1, <2>2, <2>3 DEF ShowsRow
<1>5. Settled(lg2, db) = Settled(lg, db)
  BY <1>2 DEF Settled
<1>6. QED
  BY <1>4, <1>5 DEF Shows

(* One more event of a session                                             *)
LEMMA ShowsNext ==
    ASSUME LogInv, NEW db, Shows(log, db), NEW s \in Sessions,
           db.rows[s].events < Len(log[s])
    PROVE  LET d == applyEvent(db, s, log[s][db.rows[s].events + 1])
           IN  /\ Shows(log, d) /\ Within(d, db, s)
               /\ d.rows[s].events = db.rows[s].events + 1
<1> DEFINE q == log[s]
           n == db.rows[s].events
           e == q[n + 1]
           d == applyEvent(db, s, e)
<1>1. /\ db \in States /\ n \in Nat /\ n + 1 \in 1..Len(q) /\ q \in Seq(Events)
      /\ db.rows[s].calls \in Nat /\ db.rows[s].cost \in Nat
      /\ db.rows[s].attendance \in [Members -> {"none", "requested"} \cup Statuses]
  BY DEF Shows, States, Rows, LogInv, LogTyped, Attendances
<1>2. e \in Events /\ Fits(s, e)
  BY <1>1 DEF LogInv, LogTyped
<1>3. /\ Within(d, db, s)
      /\ d.rows[s].events = n + 1
      /\ d.rows[s].phase = e.phase
      /\ d.rows[s].calls = db.rows[s].calls + (IF e.type \in Started THEN 1 ELSE 0)
      /\ d.rows[s].cost = db.rows[s].cost +
             (IF e.type \in RunnerTerminal /\ e.key \notin Paid(db) THEN 1 ELSE 0)
      /\ e.type \in Started => Paid(d) = Paid(db) \ {e.key}
      /\ e.type \in RunnerTerminal => Paid(d) = Paid(db) \cup {e.key}
      /\ e.type \notin Started \cup RunnerTerminal => Paid(d) = Paid(db)
      /\ d.rows[s].attendance =
             IF e.type = "attendance_requested" THEN [m \in Members |-> "requested"]
             ELSE IF e.type = "member_attended"
             THEN [db.rows[s].attendance EXCEPT ![e.key] = Shown(e)]
             ELSE db.rows[s].attendance
  <2> HIDE DEF e
  <2> QED
    BY <1>1, <1>2, EventEffect
<1>4. ShowsRow(q, db.rows[s])
  BY DEF Shows
<1>5. e.type \in Started \cup RunnerTerminal => e.key \in Invocations
  BY <1>2 DEF Fits
<1> DEFINE S == Of(q, n, Started)
           T == Of(q, n, RunnerTerminal)
           S2 == Of(q, n + 1, Started)
           T2 == Of(q, n + 1, RunnerTerminal)
<1>6. /\ e.type \in Started => S2 = S \cup {e.key}
      /\ e.type \notin Started => S2 = S
      /\ e.type \in RunnerTerminal => T2 = T \cup {e.key}
      /\ e.type \notin RunnerTerminal => T2 = T
  BY <1>1, <1>5, OfNext
<1>7. /\ IsFiniteSet(S) /\ IsFiniteSet(T) /\ Cardinality(S) \in Nat /\ Cardinality(T) \in Nat
      /\ db.rows[s].calls = Cardinality(S) /\ db.rows[s].cost = Cardinality(T)
  BY <1>4, FS_CardinalityType DEF ShowsRow
<1> HIDE DEF e, d, S, T, S2, T2
<1>8. e.type \in Started => e.key \notin S
  <2>1. SUFFICES ASSUME e.type \in Started, NEW k \in 1..n, q[k].type \in Started, q[k].key = e.key
                 PROVE  FALSE
    BY DEF S, Of
  <2>2. k \in 1..Len(q) /\ k # n + 1
    BY <1>1
  <2>3. QED
    BY <1>1, <2>1, <2>2 DEF LogInv, StartsOnce, e
<1>9. IsFiniteSet(S2) /\ d.rows[s].calls = Cardinality(S2)
  <2>1. CASE e.type \in Started
    <3>1. IsFiniteSet(S \cup {e.key}) /\ Cardinality(S \cup {e.key}) = Cardinality(S) + 1
      BY <1>7, <1>8, <2>1, FS_AddElement
    <3>2. QED
      BY <1>3, <1>6, <1>7, <2>1, <3>1
  <2>2. CASE e.type \notin Started
    BY <1>1, <1>3, <1>6, <1>7, <2>2
  <2>3. QED
    BY <2>1, <2>2
<1>10. e.type \in RunnerTerminal => (e.key \in Paid(db) <=> e.key \in T)
  <2> SUFFICES ASSUME e.type \in RunnerTerminal PROVE e.key \in Settled(log, db) <=> e.key \in T
    BY DEF Shows
  <2>1. e.key \in T => e.key \in Settled(log, db)
    BY <1>5 DEF Settled, T
  <2>2. e.key \in Settled(log, db) => e.key \in T
    <3> SUFFICES ASSUME NEW t \in Sessions, e.key \in Of(log[t], db.rows[t].events, RunnerTerminal)
                 PROVE  e.key \in T
      BY DEF Settled
    <3>1. PICK k \in 1..db.rows[t].events : log[t][k].type \in RunnerTerminal /\ log[t][k].key = e.key
      BY DEF Of
    <3>2. db.rows[t].events \in Nat /\ db.rows[t].events <= Len(log[t]) /\ Len(log[t]) \in Nat
      BY DEF Shows, ShowsRow, States, Rows, LogInv, LogTyped
    <3>3. PICK j \in 1..(k - 1) : log[t][j].type \in Started /\ log[t][j].key = e.key
      BY <3>1, <3>2 DEF LogInv, StartFirst
    <3>4. PICK i \in 1..n : q[i].type \in Started /\ q[i].key = e.key
      BY <1>1 DEF LogInv, StartFirst, e
    <3>5. j \in 1..Len(log[t]) /\ i \in 1..Len(log[s])
      <4>1. n \in Nat /\ n < Len(log[s]) /\ Len(log[s]) \in Nat
        BY <1>1
      <4> HIDE DEF n, q
      <4>2. j \in 1..Len(log[t])
        BY <3>2
      <4>3. i \in 1..Len(log[s])
        BY <4>1
      <4>4. QED
        BY <4>2, <4>3
    <3>6. t = s
      BY <3>3, <3>4, <3>5 DEF LogInv, StartsOnce
    <3>7. QED
      BY <3>6 DEF T
  <2>3. QED
    BY <2>1, <2>2
<1>11. IsFiniteSet(T2) /\ d.rows[s].cost = Cardinality(T2)
  BY <1>3, <1>6, <1>7, <1>10, FS_AddElement
<1>12. \A m \in Members : View(q, n + 1, m, d.rows[s].attendance[m])
  <2> TAKE m \in Members
  <2>1. View(q, n, m, db.rows[s].attendance[m])
    BY <1>4 DEF ShowsRow
  <2>2. /\ Marks(e, m) => View(q, n + 1, m, Mark(e))
        /\ ~Marks(e, m) => View(q, n + 1, m, db.rows[s].attendance[m])
    BY <1>1, <2>1, ViewNext DEF e
  <2>3. d.rows[s].attendance[m] = IF Marks(e, m) THEN Mark(e) ELSE db.rows[s].attendance[m]
    BY <1>1, <1>3 DEF Marks, Mark
  <2>4. QED
    BY <2>2, <2>3
<1>13. ShowsRow(q, d.rows[s])
  <2>1. n + 1 > 0 /\ n + 1 <= Len(q)
    BY <1>1
  <2>2. QED
    BY <1>3, <1>9, <1>11, <1>12, <2>1 DEF ShowsRow, S2, T2, e
<1>14. \A t \in Sessions : ShowsRow(log[t], d.rows[t])
  BY <1>3, <1>13 DEF Shows, Within
<1>15. Paid(d) = Settled(log, d)
  <2>1. \A t \in Sessions \ {s} : d.rows[t] = db.rows[t]
    BY <1>3 DEF Within
  <2>2. ASSUME NEW i \in Invocations
        PROVE  i \in Settled(log, d) <=> (\/ i \in T2
                 \/ \E t \in Sessions \ {s} : i \in Of(log[t], db.rows[t].events, RunnerTerminal))
    BY <1>3, <2>1 DEF Settled, T2
  <2>3. ASSUME NEW i \in Invocations
        PROVE  i \in Paid(db) <=> (\/ i \in T
                 \/ \E t \in Sessions \ {s} : i \in Of(log[t], db.rows[t].events, RunnerTerminal))
    BY DEF Shows, Settled, T
  <2>4. Paid(d) \subseteq Invocations /\ Settled(log, d) \subseteq Invocations
    BY DEF Paid, Settled
  <2>5. CASE e.type \in Started
    <3>1. e.type \notin RunnerTerminal
      BY <2>5 DEF Started, RunnerTerminal, Outcomes
    <3>2. e.key \notin Settled(log, db)
      <4> SUFFICES ASSUME NEW t \in Sessions,
                          e.key \in Of(log[t], db.rows[t].events, RunnerTerminal)
                   PROVE  FALSE
        BY DEF Settled
      <4>1. PICK k \in 1..db.rows[t].events :
                log[t][k].type \in RunnerTerminal /\ log[t][k].key = e.key
        BY DEF Of
      <4>2. /\ db.rows[t].events \in Nat /\ db.rows[t].events <= Len(log[t])
            /\ Len(log[t]) \in Nat
        BY DEF Shows, ShowsRow, States, Rows, LogInv, LogTyped
      <4>3. PICK j \in 1..(k - 1) : log[t][j].type \in Started /\ log[t][j].key = e.key
        <5>1. k \in 1..Len(log[t])
          BY <4>2
        <5>2. QED
          BY <4>1, <5>1 DEF LogInv, StartFirst
      <4>4. j \in 1..Len(log[t]) /\ n + 1 \in 1..Len(log[s])
        BY <1>1, <4>2
      <4>5. t = s /\ j = n + 1
        BY <2>5, <4>3, <4>4 DEF LogInv, StartsOnce, e
      <4>6. QED
        BY <1>1, <4>5
    <3>3. Paid(d) = Paid(db)
      BY <1>3, <2>5, <3>2 DEF Shows
    <3>4. QED
      BY <1>6, <2>2, <2>3, <2>4, <3>1, <3>3
  <2>6. CASE e.type \in RunnerTerminal
    BY <1>3, <1>5, <1>6, <2>2, <2>3, <2>4, <2>6
  <2>7. CASE e.type \notin Started \cup RunnerTerminal
    BY <1>3, <1>6, <2>2, <2>3, <2>4, <2>7
  <2>8. QED
    BY <2>5, <2>6, <2>7
<1>16. QED
  <2>1. Shows(log, d)
    BY <1>3, <1>14, <1>15 DEF Shows, Within
  <2>2. QED
    BY <1>3, <2>1 DEF d, e

(* The fold of a session shows one event more at every step.               *)
LEMMA ReplaySteps ==
    ASSUME LogInv, NEW db, Shows(log, db), NEW s \in Sessions, db.rows[s].events = 0,
           NEW speaker \in Speakers
    PROVE  \E f : /\ f[0] = initSession(db, s, speaker)
                  /\ \A n \in 1..Len(log[s]) : f[n] = applyEvent(f[n - 1], s, log[s][n])
                  /\ replaySession(db, s, speaker, log[s]) = f[Len(log[s])]
                  /\ \A n \in 0..Len(log[s]) : /\ Shows(log, f[n]) /\ Within(f[n], db, s)
                                               /\ f[n].rows[s].events = n
<1> DEFINE L == Len(log[s])
           start == initSession(db, s, speaker)
<1>1. L \in Nat /\ db \in States
  BY DEF LogInv, LogTyped, Shows
<1>2. PICK f : /\ f[0] = start
               /\ \A n \in 1..L : f[n] = applyEvent(f[n - 1], s, log[s][n])
               /\ replaySession(db, s, speaker, log[s]) = f[L]
  BY <1>1, ReplayUnfolds
<1>3. Shows(log, start) /\ Within(start, db, s) /\ start.rows[s].events = 0
  <2> DEFINE old == db.rows[s]
             row == [old EXCEPT !.lastSpeaker = speaker]
  <2>1. old \in Rows
    BY <1>1 DEF States
  <2>2. /\ row \in Rows /\ row.events = old.events /\ row.phase = old.phase
        /\ row.calls = old.calls /\ row.cost = old.cost /\ row.attendance = old.attendance
    <3> HIDE DEF old
    <3> QED
      BY <2>1 DEF Rows
  <2>3. start = [db EXCEPT !.rows[s] = row]
    BY <1>1 DEF initSession, States
  <2>4. Within(start, db, s) /\ start.rows[s] = row /\ start.runners = db.runners
    <3> HIDE DEF row, start
    <3> QED
      BY <1>1, <2>2, <2>3, RowChange
  <2> HIDE DEF row, start
  <2>5. \A t \in Sessions : /\ ShowsRow(log[t], start.rows[t])
                            /\ start.rows[t].events = db.rows[t].events
    <3>1. ShowsRow(log[s], old)
      BY DEF Shows
    <3>2. ShowsRow(log[s], row)
      BY <2>2, <3>1 DEF ShowsRow
    <3>3. QED
      BY <2>2, <2>4, <3>2 DEF Shows, Within
  <2>6. Paid(start) = Settled(log, start)
    <3>1. Paid(start) = Paid(db)
      BY <2>4 DEF Paid
    <3>2. Settled(log, start) = Settled(log, db)
      BY <2>5 DEF Settled
    <3>3. QED
      BY <3>1, <3>2 DEF Shows
  <2>7. QED
    BY <2>2, <2>4, <2>5, <2>6 DEF Shows, Within
<1> HIDE DEF start
<1> DEFINE S == {n \in Nat : n <= L => /\ Shows(log, f[n]) /\ Within(f[n], db, s)
                                       /\ f[n].rows[s].events = n}
<1>4. 0 \in S
  BY <1>2, <1>3
<1>5. ASSUME NEW n \in Nat, n \in S PROVE n + 1 \in S
  <2> SUFFICES ASSUME n + 1 <= L
               PROVE  /\ Shows(log, f[n + 1]) /\ Within(f[n + 1], db, s)
                      /\ f[n + 1].rows[s].events = n + 1
    OBVIOUS
  <2>1. Shows(log, f[n]) /\ Within(f[n], db, s) /\ f[n].rows[s].events = n /\ n < L
    BY <1>1, <1>5
  <2>2. f[n + 1] = applyEvent(f[n], s, log[s][f[n].rows[s].events + 1])
    <3>1. n + 1 \in 1..L /\ (n + 1) - 1 = n
      BY <1>1
    <3>2. f[n + 1] = applyEvent(f[(n + 1) - 1], s, log[s][n + 1])
      BY <1>2, <3>1
    <3>3. QED
      BY <2>1, <3>1, <3>2
  <2>3. /\ Shows(log, f[n + 1]) /\ Within(f[n + 1], f[n], s)
        /\ f[n + 1].rows[s].events = f[n].rows[s].events + 1
    BY <2>1, <2>2, ShowsNext
  <2>4. Within(f[n + 1], db, s)
    BY <2>1, <2>3 DEF Within
  <2>5. QED
    BY <2>1, <2>3, <2>4
<1>6. \A n \in Nat : n \in S
  <2> HIDE DEF S
  <2> QED
    BY <1>4, <1>5, Induction
<1>7. \A n \in 0..L : Shows(log, f[n]) /\ Within(f[n], db, s) /\ f[n].rows[s].events = n
  BY <1>1, <1>6
<1>8. QED
  BY <1>2, <1>7 DEF start

(* The fold of a session shows its whole log.                              *)
LEMMA ReplayShows ==
    ASSUME LogInv, NEW db, Shows(log, db), NEW s \in Sessions, db.rows[s].events = 0,
           NEW speaker \in Speakers
    PROVE  LET d == replaySession(db, s, speaker, log[s])
           IN  Shows(log, d) /\ Within(d, db, s) /\ d.rows[s].events = Len(log[s])
<1>1. Len(log[s]) \in 0..Len(log[s])
  BY DEF LogInv, LogTyped
<1>2. QED
  BY <1>1, ReplaySteps

-----------------------------------------------------------------------------
(* The escalations of a batch among the first n events of a log that no    *)
(* flush follows, and their number for every batch                         *)
Unflushed(q, n, b) ==
    {k \in 1..n : Adding(q[k], b) /\ \A j \in 1..n : Flushing(q[j], b) => j < k}
Weights(q, n) == [b \in Batches |-> Cardinality(Unflushed(q, n, b))]
IsTotal(q, n, x) == \E f : Adds(f, Weights(q, n), Batches) /\ x = f[Batches]

(* A batch id used again, in the events a state shows                      *)
ReusedIn(lg, db, b) ==
    \E s \in Sessions : \E k \in 1..db.rows[s].events :
        /\ Adding(lg[s][k], b)
        /\ \/ db.batches[b].session # s
           \/ \E j \in 1..(k - 1) : /\ Flushing(lg[s][j], b)
                                    /\ \E i \in 1..(j - 1) : Adding(lg[s][i], b)
Clean(lg, db) == \A b \in Batches : ~ReusedIn(lg, db, b)

(* A batch row is there once an escalation of the batch is shown, and      *)
(* belongs to a session that shows one.  The pending counts are those of   *)
(* the daemon's list, unless a batch id was used again.                    *)
Known(lg, db) ==
    \A b \in Batches :
        /\ db.batches[b].status # "none" =>
               \E s \in Sessions : /\ db.batches[b].session = s
                                   /\ \E k \in 1..db.rows[s].events : Adding(lg[s][k], b)
        /\ \A s \in Sessions : \A k \in 1..db.rows[s].events :
               Adding(lg[s][k], b) => db.batches[b].status # "none"
Totals(lg, db) ==
    Clean(lg, db) => \A s \in Sessions :
        IsTotal(lg[s], db.rows[s].events, db.rows[s].pending)
Batched(lg, db) == Known(lg, db) /\ Totals(lg, db)

(* While session s is read, its batches stand as its own events left them: *)
(* those of the sessions before it cannot be flushed any more.             *)
OwnFlushed(q, n, r, s, b) ==
    r.session = s /\ r.status = "flushed" =>
        \E j \in 1..n : Flushing(q[j], b) /\ \E i \in 1..(j - 1) : Adding(q[i], b)
OwnCounted(q, n, r, s, b) ==
    IF r.session = s /\ r.status = "pending"
    THEN r.count = Cardinality(Unflushed(q, n, b))
    ELSE Unflushed(q, n, b) = {}
Own(lg, db, s) ==
    \A b \in Batches :
        /\ OwnFlushed(lg[s], db.rows[s].events, db.batches[b], s, b)
        /\ ~ReusedIn(lg, db, b) =>
               OwnCounted(lg[s], db.rows[s].events, db.batches[b], s, b)

(* Among finitely many events                                              *)
LEMMA UnflushedFinite ==
    ASSUME NEW q, NEW n \in Nat, NEW b
    PROVE  IsFiniteSet(Unflushed(q, n, b)) /\ Cardinality(Unflushed(q, n, b)) \in Nat
<1>1. IsFiniteSet(1..n)
  BY FS_Interval
<1>2. Unflushed(q, n, b) \subseteq 1..n
  BY DEF Unflushed
<1>3. QED
  BY <1>1, <1>2, FS_Subset, FS_CardinalityType

(* One more event                                                          *)
LEMMA UnflushedNext ==
    ASSUME NEW q, NEW n \in Nat, NEW b
    PROVE  /\ Adding(q[n + 1], b) => Unflushed(q, n + 1, b) = Unflushed(q, n, b) \cup {n + 1}
           /\ Flushing(q[n + 1], b) => Unflushed(q, n + 1, b) = {}
           /\ ~Adding(q[n + 1], b) /\ ~Flushing(q[n + 1], b) =>
                  Unflushed(q, n + 1, b) = Unflushed(q, n, b)
           /\ n + 1 \notin Unflushed(q, n, b)
<1>1. \A k \in 1..(n + 1) : k \in 1..n \/ k = n + 1
  OBVIOUS
<1>2. n + 1 \in 1..(n + 1) /\ n + 1 \notin 1..n /\ \A k \in 1..n : k \in 1..(n + 1) /\ k < n + 1
  OBVIOUS
<1>3. ~(Adding(q[n + 1], b) /\ Flushing(q[n + 1], b))
  BY DEF Adding, Flushing
<1>4. CASE Adding(q[n + 1], b)
  BY <1>1, <1>2, <1>3, <1>4 DEF Unflushed
<1>5. CASE Flushing(q[n + 1], b)
  <2>1. \A k \in 1..(n + 1) : ~(n + 1 < k)
    OBVIOUS
  <2>2. QED
    BY <1>2, <1>3, <1>5, <2>1 DEF Unflushed
<1>6. CASE ~Adding(q[n + 1], b) /\ ~Flushing(q[n + 1], b)
  BY <1>1, <1>2, <1>6 DEF Unflushed
<1>7. n + 1 \notin Unflushed(q, n, b)
  BY <1>2 DEF Unflushed
<1>8. QED
  BY <1>3, <1>4, <1>5, <1>6, <1>7

(* countPendingBatchItems adds up the pending batches of a session.        *)
LEMMA PendingAdds ==
    ASSUME NEW batches \in [Batches -> BatchRows], NEW s
    PROVE  LET S == {b \in Batches : batches[b].session = s /\ batches[b].status = "pending"}
           IN  \E f : /\ Adds(f, [b \in S |-> batches[b].count], S)
                      /\ countPending(batches, s) = f[S]
<1> DEFINE S == {b \in Batches : batches[b].session = s /\ batches[b].status = "pending"}
           w == [b \in S |-> batches[b].count]
           Iter(f) == f = [t \in SUBSET S |->
                              IF t = {} THEN 0
                              ELSE batches[Taken(t)].count + f[t \ {Taken(t)}]]
           F == CHOOSE f : Iter(f)
<1>1. countPending(batches, s) = F[S]
  BY Zenon DEF countPending, MapThenSumSet, MapThenFoldSet, Taken
<1>2. IsFiniteSet(S) /\ w \in [S -> Nat]
  <2>1. \A b \in S : batches[b].count \in Nat
    BY DEF BatchRows
  <2>2. S \subseteq Batches
    OBVIOUS
  <2>3. QED
    <3> HIDE DEF S
    <3> QED
      BY <2>1, <2>2, FS_Subset, ProjectionConstants
<1>3. ASSUME NEW f PROVE Iter(f) <=> Folds(f, w, S)
  <2>1. \A t \in SUBSET S : t # {} => w[Taken(t)] = batches[Taken(t)].count
    BY TakenFacts
  <2> HIDE DEF w, S
  <2>2. QED
    BY <2>1 DEF Folds
<1>4. Folds(F, w, S)
  <2> HIDE DEF w, S
  <2>1. PICK f : Folds(f, w, S)
    BY <1>2, FoldExists
  <2>2. Iter(f)
    BY <1>3, <2>1
  <2> HIDE DEF Iter
  <2>3. Iter(F)
    BY <2>2, Zenon
  <2>4. QED
    BY <1>3, <2>3
<1>5. Adds(F, w, S)
  <2> HIDE DEF w, S, F
  <2> QED
    BY <1>2, <1>4, FoldAdds
<1>6. QED
  <2> HIDE DEF F
  <2> QED
    BY <1>1, <1>5

(* What one event does to the batches and to the pending count             *)
LEMMA EventBatches ==
    ASSUME NEW db \in States, NEW s \in Sessions, NEW e \in Events, Fits(s, e)
    PROVE  LET d == applyEvent(db, s, e)
           IN  /\ d.batches = applyBatch(db.batches, s, e)
               /\ d.rows[s].pending = countPending(d.batches, s)
<1> DEFINE row     == applySession(db, s, e)
           runner  == applyRunnerEvent(row, s, e)
           batched == applyEscalationEvent(runner, s, e)
           council == applyCouncilEvent(batched, s, e)
           stream  == applyStreamEvent(council, s, e)
           d       == applyReviewEvent(stream, s, e)
           Same(a, b) == a.batches = b.batches /\ a.rows[s].pending = b.rows[s].pending
<1>1. row \in States /\ row.batches = db.batches
  <2>1. row \in States
    BY SessionStage DEF Within
  <2>2. row.batches = db.batches
    BY DEF applySession, States
  <2>3. QED
    BY <2>1, <2>2
<1>2. runner \in States /\ runner.batches = row.batches
  <2> HIDE DEF row
  <2>1. runner \in States
    BY <1>1, RunnerStage DEF Within
  <2>2. runner.batches = row.batches
    BY <1>1 DEF applyRunnerEvent, States
  <2>3. QED
    BY <2>1, <2>2
<1>3. /\ batched \in States /\ batched.batches = applyBatch(runner.batches, s, e)
      /\ batched.rows[s].pending = countPending(batched.batches, s)
  <2> HIDE DEF runner
  <2>1. batched \in States
    BY <1>2, EscalationStage DEF Beside, Within
  <2> DEFINE new == applyBatch(runner.batches, s, e)
  <2>2. batched = [runner EXCEPT !.batches = new, !.rows[s].pending = countPending(new, s)]
    BY DEF applyEscalationEvent
  <2> HIDE DEF new, batched
  <2>3. batched.batches = new /\ batched.rows[s].pending = countPending(new, s)
    BY <1>2, <2>2 DEF States, Rows
  <2>4. QED
    BY <2>1, <2>3 DEF new
<1>4. council \in States /\ Same(council, batched)
  <2> HIDE DEF batched
  <2>1. council \in States
    BY <1>3, CouncilStage DEF Beside, Within
  <2>2. Same(council, batched)
    BY <1>3 DEF applyCouncilEvent, States, Rows
  <2>3. QED
    BY <2>1, <2>2
<1>5. stream \in States /\ Same(stream, council)
  <2> HIDE DEF council
  <2>1. stream \in States
    BY <1>4, LatestStage DEF Beside, Within
  <2>2. Same(stream, council)
    BY <1>4 DEF applyStreamEvent, States, Rows
  <2>3. QED
    BY <2>1, <2>2
<1>6. Same(d, stream)
  <2> HIDE DEF stream
  <2> QED
    BY <1>5 DEF applyReviewEvent, States, Rows
<1>7. applyEvent(db, s, e) = d
  BY Zenon DEF applyEvent
<1>8. QED
  <2> HIDE DEF row, runner, batched, council, stream, d
  <2> QED
    BY <1>1, <1>2, <1>3, <1>4, <1>5, <1>6, <1>7

(* What one event does to one batch                                        *)
LEMMA BatchEffect ==
    ASSUME NEW batches \in [Batches -> BatchRows], NEW s \in Sessions, NEW e \in Events,
           Fits(s, e), NEW b \in Batches
    PROVE  LET r == batches[b]
               r2 == applyBatch(batches, s, e)[b]
           IN  /\ Adding(e, b) /\ r.status = "none" =>
                      r2.status = "pending" /\ r2.session = s /\ r2.count = 1
               /\ Adding(e, b) /\ r.status # "none" =>
                      /\ r2.status = r.status /\ r2.session = r.session
                      /\ r2.count = r.count + 1
               /\ Flushing(e, b) /\ r.status # "none" =>
                      r2.status = "flushed" /\ r2.session = r.session
               /\ Flushing(e, b) /\ r.status = "none" => r2 = r
               /\ ~Adding(e, b) /\ ~Flushing(e, b) => r2 = r
<1> DEFINE new == applyBatch(batches, s, e)
<1>1. CASE e.type = "escalation_batched"
  <2>1. e.key \in Batches
    BY <1>1 DEF Fits
  <2>2. CASE batches[e.key].status # "none"
    <3> DEFINE n == batches[e.key].count + 1
    <3>1. new = [batches EXCEPT ![e.key].count = n]
      BY <1>1, <2>2 DEF applyBatch
    <3>2. QED
      <4> HIDE DEF new
      <4> QED
        BY <1>1, <2>1, <2>2, <3>1 DEF BatchRows, Adding, Flushing, new
  <2>3. CASE batches[e.key].status = "none"
    <3>1. new = [batches EXCEPT ![e.key] = [status |-> "pending", session |-> s, count |-> 1]]
      BY <1>1, <2>3 DEF applyBatch
    <3>2. QED
      BY <1>1, <2>1, <2>3, <3>1 DEF Adding, Flushing
  <2>4. QED
    BY <2>2, <2>3
<1>2. CASE /\ e.type = "user_escalation_requested" /\ e.payload.batch
           /\ batches[e.key].status # "none"
  <2>1. e.key \in Batches
    BY <1>2 DEF Fits
  <2>2. new = [batches EXCEPT ![e.key].status = "flushed", ![e.key].count = 0]
    BY <1>2 DEF applyBatch
  <2>3. QED
    BY <1>2, <2>1, <2>2 DEF BatchRows, Adding, Flushing
<1>3. CASE /\ e.type # "escalation_batched"
           /\ ~(/\ e.type = "user_escalation_requested" /\ e.payload.batch
                /\ batches[e.key].status # "none")
  <2>1. new = batches
    BY <1>3 DEF applyBatch
  <2>2. QED
    BY <1>3, <2>1 DEF Adding, Flushing
<1>4. QED
  BY <1>1, <1>2, <1>3

(* A state whose pending batches of s stand as OwnCounted says has the     *)
(* total of the daemon's list.                                             *)
LEMMA CountIsTotal ==
    ASSUME NEW batches \in [Batches -> BatchRows], NEW s, NEW q, NEW n \in Nat,
           \A b \in Batches : OwnCounted(q, n, batches[b], s, b)
    PROVE  IsTotal(q, n, countPending(batches, s))
<1> DEFINE S == {b \in Batches : batches[b].session = s /\ batches[b].status = "pending"}
           v == [b \in S |-> batches[b].count]
           w == Weights(q, n)
<1>1. IsFiniteSet(Batches) /\ S \in SUBSET Batches
  BY ProjectionConstants
<1>2. w \in [Batches -> Nat]
  BY UnflushedFinite DEF Weights
<1>3. \A b \in S : v[b] = w[b]
  BY DEF OwnCounted, Weights
<1>4. \A b \in Batches \ S : w[b] = 0
  <2>1. Cardinality({}) = 0
    BY FS_EmptySet
  <2>2. \A b \in Batches \ S : Unflushed(q, n, b) = {}
    BY DEF OwnCounted
  <2>3. QED
    BY <2>1, <2>2 DEF Weights
<1>5. PICK f : Adds(f, v, S) /\ countPending(batches, s) = f[S]
  BY PendingAdds
<1> HIDE DEF S, v, w
<1>6. PICK g : Folds(g, w, Batches)
  BY <1>1, <1>2, FoldExists
<1>7. Adds(g, w, Batches)
  BY <1>1, <1>2, <1>6, FoldAdds
<1>8. f[S] = g[Batches]
  BY <1>1, <1>3, <1>4, <1>5, <1>7, SumsAgree
<1>9. QED
  BY <1>5, <1>7, <1>8 DEF IsTotal, w

(* One more event of the session being read                                *)
LEMMA BatchedNext ==
    ASSUME LogInv, NEW db, Shows(log, db), NEW s \in Sessions,
           db.rows[s].events < Len(log[s]), Batched(log, db), Own(log, db, s)
    PROVE  LET d == applyEvent(db, s, log[s][db.rows[s].events + 1])
           IN  Batched(log, d) /\ Own(log, d, s)
<1> DEFINE q == log[s]
           n == db.rows[s].events
           e == q[n + 1]
           d == applyEvent(db, s, e)
<1>1. /\ db \in States /\ n \in Nat /\ n + 1 \in 1..Len(q) /\ q \in Seq(Events)
      /\ db.batches \in [Batches -> BatchRows]
      /\ \A t \in Sessions : db.rows[t].events \in Nat
  BY DEF Shows, States, Rows, LogInv, LogTyped
<1>2. e \in Events /\ Fits(s, e)
  BY <1>1 DEF LogInv, LogTyped
<1>3. /\ d \in States /\ d.rows[s].events = n + 1
      /\ \A t \in Sessions \ {s} : d.rows[t] = db.rows[t]
  BY ShowsNext DEF Within
<1>4. /\ d.batches = applyBatch(db.batches, s, e)
      /\ d.rows[s].pending = countPending(d.batches, s)
  <2> HIDE DEF e
  <2> QED
    BY <1>1, <1>2, EventBatches
<1>5. /\ d.batches \in [Batches -> BatchRows]
      /\ \A b \in Batches : db.batches[b] \in BatchRows /\ d.batches[b] \in BatchRows
  BY <1>1, <1>3 DEF States
<1>6. \A b \in Batches : LET r == db.batches[b]
                             r2 == d.batches[b]
          IN  /\ Adding(e, b) /\ r.status = "none" =>
                     r2.status = "pending" /\ r2.session = s /\ r2.count = 1
              /\ Adding(e, b) /\ r.status # "none" =>
                     r2.status = r.status /\ r2.session = r.session /\ r2.count = r.count + 1
              /\ Flushing(e, b) /\ r.status # "none" =>
                     r2.status = "flushed" /\ r2.session = r.session
              /\ Flushing(e, b) /\ r.status = "none" => r2 = r
              /\ ~Adding(e, b) /\ ~Flushing(e, b) => r2 = r
              /\ ~(Adding(e, b) /\ Flushing(e, b))
  <2>1. \A b : ~(Adding(e, b) /\ Flushing(e, b))
    BY DEF Adding, Flushing
  <2> HIDE DEF e, d
  <2>2. QED
    BY <1>1, <1>2, <1>4, <2>1, BatchEffect
<1>7. /\ n + 1 \in 1..(n + 1) /\ q[n + 1] = e
      /\ \A k \in 1..(n + 1) : k \in 1..n \/ k = n + 1
      /\ \A k \in 1..n : k \in 1..(n + 1)
      /\ \A t \in Sessions : \A k \in 1..db.rows[t].events : k \in 1..d.rows[t].events
      /\ \A t \in Sessions : \A k \in 1..d.rows[t].events :
             k \in 1..db.rows[t].events \/ (t = s /\ k = n + 1)
  <2> HIDE DEF d, e
  <2>1. \A k \in 1..(n + 1) : k \in 1..n \/ k = n + 1
    BY <1>1
  <2>2. \A k \in 1..n : k \in 1..(n + 1)
    BY <1>1
  <2>3. QED
    BY <1>1, <1>3, <2>1, <2>2 DEF e
<1> HIDE DEF d, e, n, q
<1>8. \A b \in Batches : ReusedIn(log, db, b) => ReusedIn(log, d, b)
  <2> SUFFICES ASSUME NEW b \in Batches, NEW t \in Sessions, NEW k \in 1..db.rows[t].events,
                      Adding(log[t][k], b),
                      \/ db.batches[b].session # t
                      \/ \E j \in 1..(k - 1) : /\ Flushing(log[t][j], b)
                                               /\ \E i \in 1..(j - 1) : Adding(log[t][i], b)
               PROVE  ReusedIn(log, d, b)
    BY DEF ReusedIn
  <2>1. db.batches[b].status # "none"
    BY DEF Batched, Known
  <2>2. d.batches[b].session = db.batches[b].session
    BY <1>6, <2>1
  <2>3. QED
    BY <1>7, <2>2 DEF ReusedIn
<1>9. Known(log, d)
  <2> SUFFICES ASSUME NEW b \in Batches
               PROVE  /\ d.batches[b].status # "none" =>
                             \E t \in Sessions :
                                 /\ d.batches[b].session = t
                                 /\ \E k \in 1..d.rows[t].events : Adding(log[t][k], b)
                      /\ \A t \in Sessions : \A k \in 1..d.rows[t].events :
                             Adding(log[t][k], b) => d.batches[b].status # "none"
    BY DEF Known
  <2>1. db.batches[b].status # "none" =>
            /\ d.batches[b].status # "none" /\ d.batches[b].session = db.batches[b].session
    BY <1>6
  <2>2. ASSUME d.batches[b].status # "none"
        PROVE  \E t \in Sessions : /\ d.batches[b].session = t
                                   /\ \E k \in 1..d.rows[t].events : Adding(log[t][k], b)
    <3>1. CASE db.batches[b].status # "none"
      BY <1>7, <2>1, <3>1 DEF Batched, Known
    <3>2. CASE db.batches[b].status = "none"
      <4>1. Adding(e, b) /\ d.batches[b].session = s
        BY <1>6, <2>2, <3>2
      <4>2. n + 1 \in 1..d.rows[s].events /\ Adding(log[s][n + 1], b)
        BY <1>3, <1>7, <4>1 DEF q
      <4>3. QED
        BY <4>1, <4>2
    <3>3. QED
      BY <3>1, <3>2
  <2>3. ASSUME NEW t \in Sessions, NEW k \in 1..d.rows[t].events, Adding(log[t][k], b)
        PROVE  d.batches[b].status # "none"
    <3>1. CASE k \in 1..db.rows[t].events
      BY <2>1, <2>3, <3>1 DEF Batched, Known
    <3>2. CASE t = s /\ k = n + 1
      <4>1. Adding(e, b)
        BY <1>7, <2>3, <3>2 DEF q
      <4>2. QED
        BY <1>6, <2>1, <4>1
    <3>3. QED
      BY <1>7, <3>1, <3>2
  <2>4. QED
    BY <2>2, <2>3
<1>10. ASSUME NEW b \in Batches PROVE OwnFlushed(q, n + 1, d.batches[b], s, b)
  <2> SUFFICES ASSUME d.batches[b].session = s, d.batches[b].status = "flushed"
               PROVE  \E j \in 1..(n + 1) : /\ Flushing(q[j], b)
                                            /\ \E i \in 1..(j - 1) : Adding(q[i], b)
    BY DEF OwnFlushed
  <2>1. CASE Flushing(e, b) /\ db.batches[b].status # "none"
    <3>1. db.batches[b].session = s
      BY <1>6, <2>1
    <3>2. PICK k \in 1..n : Adding(q[k], b)
      BY <2>1, <3>1 DEF Batched, Known, n, q
    <3>3. k \in 1..((n + 1) - 1) /\ Adding(q[k], b)
      BY <1>1, <3>2
    <3>4. QED
      BY <1>7, <2>1, <3>3
  <2>2. CASE ~(Flushing(e, b) /\ db.batches[b].status # "none")
    <3>1. db.batches[b].session = s /\ db.batches[b].status = "flushed"
      BY <1>6, <2>2
    <3>2. OwnFlushed(q, n, db.batches[b], s, b)
      BY DEF Own, q, n
    <3>3. QED
      BY <1>7, <3>1, <3>2 DEF OwnFlushed
  <2>3. QED
    BY <2>1, <2>2
<1>11. ASSUME NEW b \in Batches, ~ReusedIn(log, d, b)
       PROVE  OwnCounted(q, n + 1, d.batches[b], s, b)
  <2> DEFINE r == db.batches[b]
             r2 == d.batches[b]
             U == Unflushed(q, n, b)
             U2 == Unflushed(q, n + 1, b)
  <2>1. IF r.session = s /\ r.status = "pending" THEN r.count = Cardinality(U) ELSE U = {}
    <3>1. OwnCounted(q, n, r, s, b)
      BY <1>8, <1>11 DEF Own, q, n
    <3>2. QED
      BY <3>1 DEF OwnCounted
  <2>2. /\ Adding(e, b) => U2 = U \cup {n + 1}
        /\ Flushing(e, b) => U2 = {}
        /\ ~Adding(e, b) /\ ~Flushing(e, b) => U2 = U
        /\ n + 1 \notin U
    BY <1>1, <1>7, UnflushedNext
  <2>3. IsFiniteSet(U) /\ Cardinality(U) \in Nat
    BY <1>1, UnflushedFinite
  <2>4. Cardinality(U \cup {n + 1}) = Cardinality(U) + 1
    BY <2>2, <2>3, FS_AddElement
  <2>5. Cardinality({}) = 0
    BY FS_EmptySet
  <2>6. r.status \in {"none", "pending", "flushed"}
    BY <1>5 DEF BatchRows
  <2>7. Adding(e, b) /\ r.status # "none" => r.session = s /\ r.status = "pending"
    <3> SUFFICES ASSUME Adding(e, b), r.status # "none"
                 PROVE  r.session = s /\ r.status # "flushed"
      BY <2>6
    <3>1. r2.session = r.session
      BY <1>6
    <3>2. n + 1 \in 1..d.rows[s].events /\ Adding(log[s][n + 1], b) /\ (n + 1) - 1 = n
      BY <1>1, <1>3, <1>7 DEF q
    <3>3. /\ r2.session = s
          /\ ~\E j \in 1..n : Flushing(log[s][j], b) /\ \E i \in 1..(j - 1) : Adding(log[s][i], b)
      BY <1>11, <3>2 DEF ReusedIn
    <3>4. OwnFlushed(log[s], n, r, s, b)
      BY DEF Own, n
    <3>5. QED
      BY <3>1, <3>3, <3>4 DEF OwnFlushed
  <2>8. IF r2.session = s /\ r2.status = "pending" THEN r2.count = Cardinality(U2) ELSE U2 = {}
    <3>1. CASE Adding(e, b) /\ r.status = "none"
      <4>1. U = {} /\ r2.status = "pending" /\ r2.session = s /\ r2.count = 1
        BY <1>6, <2>1, <3>1
      <4>2. U2 = U \cup {n + 1} /\ Cardinality(U) = 0
        BY <2>2, <2>5, <3>1, <4>1
      <4> HIDE DEF r2, U, U2
      <4>3. QED
        BY <2>4, <4>1, <4>2
    <3>2. CASE Adding(e, b) /\ r.status # "none"
      <4>1. r2.status = "pending" /\ r2.session = s /\ r2.count = r.count + 1
        BY <1>6, <2>7, <3>2
      <4>2. r.count = Cardinality(U)
        BY <2>1, <2>7, <3>2
      <4>3. QED
        BY <2>2, <2>4, <3>2, <4>1, <4>2
    <3>3. CASE Flushing(e, b)
      <4>1. r2.status # "pending"
        <5>1. CASE r.status # "none"
          BY <1>6, <3>3, <5>1
        <5>2. CASE r.status = "none"
          BY <1>6, <3>3, <5>2
        <5>3. QED
          BY <5>1, <5>2
      <4>2. QED
        BY <2>2, <3>3, <4>1
    <3>4. CASE ~Adding(e, b) /\ ~Flushing(e, b)
      <4>1. r2 = r /\ U2 = U
        BY <1>6, <2>2, <3>4
      <4> HIDE DEF r, r2, U, U2
      <4>2. QED
        BY <2>1, <4>1
    <3>5. QED
      BY <3>1, <3>2, <3>3, <3>4
  <2>9. QED
    BY <2>8 DEF OwnCounted
<1>12. Totals(log, d)
  <2> SUFFICES ASSUME Clean(log, d), NEW t \in Sessions
               PROVE  IsTotal(log[t], d.rows[t].events, d.rows[t].pending)
    BY DEF Totals
  <2>1. CASE t = s
    <3>1. \A b \in Batches : OwnCounted(q, n + 1, d.batches[b], s, b)
      BY <1>11 DEF Clean
    <3>2. n + 1 \in Nat
      BY <1>1
    <3>3. IsTotal(q, n + 1, countPending(d.batches, s))
      BY <1>5, <3>1, <3>2, CountIsTotal
    <3>4. QED
      BY <1>3, <1>4, <2>1, <3>3 DEF q
  <2>2. CASE t # s
    <3>1. Clean(log, db)
      BY <1>8 DEF Clean
    <3>2. IsTotal(log[t], db.rows[t].events, db.rows[t].pending)
      BY <3>1 DEF Batched, Totals
    <3>3. QED
      BY <1>3, <2>2, <3>2
  <2>3. QED
    BY <2>1, <2>2
<1>13. Own(log, d, s)
  BY <1>3, <1>10, <1>11 DEF Own, q
<1>14. QED
  BY <1>9, <1>12, <1>13 DEF Batched, d, e, n, q

(* The fold of a session keeps the batches and the counts right.           *)
LEMMA ReplayBatched ==
    ASSUME LogInv, NEW db, Shows(log, db), NEW s \in Sessions, db.rows[s].events = 0,
           NEW speaker \in Speakers, Batched(log, db)
    PROVE  Batched(log, replaySession(db, s, speaker, log[s]))
<1> DEFINE L == Len(log[s])
           start == initSession(db, s, speaker)
<1>1. L \in Nat /\ db \in States
  BY DEF LogInv, LogTyped, Shows
<1>2. PICK f : /\ f[0] = start
               /\ \A n \in 1..L : f[n] = applyEvent(f[n - 1], s, log[s][n])
               /\ replaySession(db, s, speaker, log[s]) = f[L]
               /\ \A n \in 0..L : Shows(log, f[n]) /\ f[n].rows[s].events = n
  BY ReplaySteps
<1>3. /\ start.batches = db.batches
      /\ \A t \in Sessions : /\ start.rows[t].events = db.rows[t].events
                             /\ start.rows[t].pending = db.rows[t].pending
  BY <1>1 DEF initSession, States, Rows
<1> HIDE DEF start
<1>4. Batched(log, start)
  <2>1. Known(log, start)
    BY <1>3 DEF Batched, Known
  <2>2. \A b \in Batches : ReusedIn(log, start, b) <=> ReusedIn(log, db, b)
    BY <1>3 DEF ReusedIn
  <2>3. QED
    BY <1>3, <2>1, <2>2 DEF Batched, Totals, Clean
<1>5. Own(log, start, s)
  <2> SUFFICES ASSUME NEW b \in Batches
               PROVE  /\ OwnFlushed(log[s], 0, start.batches[b], s, b)
                      /\ OwnCounted(log[s], 0, start.batches[b], s, b)
    BY <1>3 DEF Own
  <2>1. start.batches[b].status # "none" => start.batches[b].session # s
    BY <1>3, <1>4 DEF Batched, Known
  <2>2. Unflushed(log[s], 0, b) = {}
    BY DEF Unflushed
  <2>3. QED
    BY <2>1, <2>2 DEF OwnFlushed, OwnCounted
<1> DEFINE S == {n \in Nat : n <= L => Batched(log, f[n]) /\ Own(log, f[n], s)}
<1>6. 0 \in S
  BY <1>2, <1>4, <1>5
<1>7. ASSUME NEW n \in Nat, n \in S PROVE n + 1 \in S
  <2> SUFFICES ASSUME n + 1 <= L PROVE Batched(log, f[n + 1]) /\ Own(log, f[n + 1], s)
    OBVIOUS
  <2>1. n \in 0..L /\ n < L /\ n + 1 \in 1..L /\ (n + 1) - 1 = n
    BY <1>1
  <2>2. /\ Shows(log, f[n]) /\ f[n].rows[s].events = n
        /\ Batched(log, f[n]) /\ Own(log, f[n], s)
    BY <1>2, <1>7, <2>1
  <2>3. f[n + 1] = applyEvent(f[n], s, log[s][n + 1])
    BY <1>2, <2>1
  <2>4. QED
    BY <2>1, <2>2, <2>3, BatchedNext
<1>8. L \in S
  <2> HIDE DEF S
  <2> QED
    BY <1>1, <1>6, <1>7, Induction
<1>9. QED
  BY <1>1, <1>2, <1>8

(* Appends leave the batches and the counts a state shows.                 *)
LEMMA BatchedGrows ==
    ASSUME NEW lg, NEW lg2, NEW db, Shows(lg, db), Batched(lg, db),
           \A s \in Sessions : /\ Len(lg[s]) \in Nat
                               /\ \A k \in 1..Len(lg[s]) : lg2[s][k] = lg[s][k]
    PROVE  Batched(lg2, db)
<1>1. \A s \in Sessions : /\ db.rows[s].events \in Nat
                          /\ \A k \in 1..db.rows[s].events : lg2[s][k] = lg[s][k]
  BY DEF Shows, ShowsRow, States, Rows
<1>2. Known(lg2, db)
  BY <1>1 DEF Batched, Known
<1>3. \A b \in Batches : ReusedIn(lg, db, b) => ReusedIn(lg2, db, b)
  <2> SUFFICES ASSUME NEW b \in Batches, NEW s \in Sessions, NEW k \in 1..db.rows[s].events,
                      Adding(lg[s][k], b),
                      \/ db.batches[b].session # s
                      \/ \E j \in 1..(k - 1) : /\ Flushing(lg[s][j], b)
                                               /\ \E i \in 1..(j - 1) : Adding(lg[s][i], b)
               PROVE  ReusedIn(lg2, db, b)
    BY DEF ReusedIn
  <2>1. \A j \in 1..(k - 1) : /\ j \in 1..db.rows[s].events
                              /\ \A i \in 1..(j - 1) : i \in 1..db.rows[s].events
    BY <1>1
  <2>2. QED
    BY <1>1, <2>1 DEF ReusedIn
<1>4. ASSUME NEW s \in Sessions
      PROVE  Weights(lg2[s], db.rows[s].events) = Weights(lg[s], db.rows[s].events)
  <2>1. \A b \in Batches :
            Unflushed(lg2[s], db.rows[s].events, b) = Unflushed(lg[s], db.rows[s].events, b)
    BY <1>1 DEF Unflushed
  <2>2. QED
    BY <2>1 DEF Weights
<1>5. Totals(lg2, db)
  BY <1>3, <1>4 DEF Batched, Totals, Clean, IsTotal
<1>6. QED
  BY <1>2, <1>5 DEF Batched

(* The empty state has no batches and nothing pending.                     *)
LEMMA EmptyBatched ==
    ASSUME NEW lg
    PROVE  Batched(lg, EmptyState)
<1>1. /\ \A b \in Batches : EmptyState.batches[b].status = "none"
      /\ \A s \in Sessions : EmptyState.rows[s].events = 0 /\ EmptyState.rows[s].pending = 0
  BY DEF EmptyState, NoRow
<1>2. Known(lg, EmptyState)
  BY <1>1 DEF Known
<1>3. ASSUME NEW s \in Sessions PROVE IsTotal(lg[s], 0, 0)
  <2> DEFINE w == Weights(lg[s], 0)
             v == [b \in {} |-> 0]
             h == [x \in {{}} |-> 0]
  <2>1. \A b \in Batches : w[b] = 0
    <3>1. \A b \in Batches : Unflushed(lg[s], 0, b) = {}
      BY DEF Unflushed
    <3>2. QED
      BY <3>1, FS_EmptySet DEF Weights
  <2>2. w \in [Batches -> Nat] /\ IsFiniteSet(Batches)
    BY <2>1, ProjectionConstants DEF Weights
  <2> HIDE DEF w
  <2>3. PICK g : Folds(g, w, Batches)
    BY <2>2, FoldExists
  <2>4. Adds(g, w, Batches)
    BY <2>2, <2>3, FoldAdds
  <2>5. Adds(h, v, {}) /\ h[{}] = 0
    <3>1. SUBSET {} = {{}}
      OBVIOUS
    <3>2. QED
      BY <3>1 DEF Adds
  <2> HIDE DEF h, v
  <2>6. h[{}] = g[Batches]
    BY <2>1, <2>2, <2>4, <2>5, SumsAgree
  <2>7. QED
    BY <2>4, <2>5, <2>6 DEF IsTotal, w
<1>4. QED
  BY <1>1, <1>2, <1>3 DEF Batched, Totals

-----------------------------------------------------------------------------
ReaderTyped ==
    reader \in [step : {"idle", "load", "read"}, mode : {"rebuild", "verify"},
                next : 1..(Len(Order) + 1), speaker : Speakers, db : States,
                begun : [Sessions -> Nat]]
FileTyped == file \in [exists : BOOLEAN, db : States]

(* A reader has read the sessions before the next one, at least the events *)
(* there were when it began, and none of the others.                       *)
Progress ==
    /\ reader.step = "read" => reader.next <= Len(Order)
    /\ reader.step # "idle" => \A j \in reader.next..Len(Order) :
           reader.db.rows[Order[j]].events = 0
    /\ reader.step # "idle" => \A j \in 1..(reader.next - 1) :
           reader.db.rows[Order[j]].events >= reader.begun[Order[j]]
    /\ \A s \in Sessions : reader.begun[s] <= Len(log[s])

IndInv ==
    /\ LogInv /\ ReaderTyped /\ FileTyped
    /\ Shows(log, reader.db) /\ Shows(log, file.db)
    /\ Progress

(* The order lists every session once.                                     *)
LEMMA OrderFacts ==
    /\ Len(Order) \in Nat /\ \A i \in 1..Len(Order) : Order[i] \in Sessions
    /\ \A s \in Sessions : \E i \in 1..Len(Order) : Order[i] = s
    /\ \A i, j \in 1..Len(Order) : Order[i] = Order[j] => i = j
  BY ProjectionConstants DEF ToSet

(* The empty state shows nothing of any log.                               *)
LEMMA EmptyShows ==
    ASSUME NEW lg, \A s \in Sessions : Len(lg[s]) \in Nat
    PROVE  /\ EmptyState \in States /\ Shows(lg, EmptyState)
           /\ \A s \in Sessions : EmptyState.rows[s].events = 0
<1>1. NoRow \in Rows
  <2>1. /\ "none" \in RowPhases /\ 0 \in Pending /\ None \in Speakers
        /\ [m \in Members |-> "none"] \in Raises /\ [m \in Members |-> "none"] \in Attendances
        /\ [m \in Members |-> 0] \in Latest
    BY DEF RowPhases, Pending, Speakers, Raises, Attendances, Latest
  <2>2. QED
    BY <2>1 DEF NoRow, Rows
<1>2. EmptyState \in States
  <2>1. [status |-> "none", costAggregated |-> FALSE] \in RunnerRows
    BY DEF RunnerRows
  <2>2. [status |-> "none", session |-> None, count |-> 0] \in BatchRows
    BY DEF BatchRows
  <2>3. QED
    BY <1>1, <2>1, <2>2 DEF EmptyState, States
<1>3. /\ \A s \in Sessions : EmptyState.rows[s] = NoRow
      /\ NoRow.events = 0 /\ NoRow.calls = 0 /\ NoRow.cost = 0
      /\ \A m \in Members : NoRow.attendance[m] = "none"
  BY DEF EmptyState, NoRow
<1>4. Paid(EmptyState) = {}
  BY DEF EmptyState, Paid
<1>5. \A q, types, m : Of(q, 0, types) = {} /\ View(q, 0, m, "none")
  BY DEF Of, View
<1>6. \A s \in Sessions : ShowsRow(lg[s], EmptyState.rows[s])
  <2> SUFFICES ASSUME NEW s \in Sessions PROVE ShowsRow(lg[s], NoRow)
    BY <1>3
  <2>1. /\ Of(lg[s], NoRow.events, Started) = {} /\ Of(lg[s], NoRow.events, RunnerTerminal) = {}
        /\ \A m \in Members : View(lg[s], NoRow.events, m, NoRow.attendance[m])
    BY <1>3, <1>5
  <2>2. IsFiniteSet({}) /\ Cardinality({}) = 0
    BY FS_EmptySet
  <2>3. NoRow.events <= Len(lg[s]) /\ ~(NoRow.events > 0)
    BY <1>3
  <2>4. QED
    BY <1>3, <2>1, <2>2, <2>3 DEF ShowsRow
<1>7. Settled(lg, EmptyState) = {}
  BY <1>3, <1>5 DEF Settled
<1>8. QED
  BY <1>2, <1>3, <1>4, <1>6, <1>7 DEF Shows

(* Initially the logs are empty and there is no file.                      *)
LEMMA InitInv == Init => IndInv
<1> SUFFICES ASSUME Init PROVE IndInv
  OBVIOUS
<1>1. \A s \in Sessions : log[s] = <<>> /\ Len(log[s]) = 0
  BY DEF Init
<1>2. LogInv
  <2>1. log \in [Sessions -> Seq(Events)]
    BY DEF Init
  <2>2. LogTyped /\ StartsOnce /\ StartFirst
    BY <1>1, <2>1 DEF LogTyped, StartsOnce, StartFirst
  <2>3. YamlTyped
    BY DEF Init, YamlTyped, Speakers
  <2>4. QED
    BY <2>2, <2>3 DEF LogInv
<1>3. EmptyState \in States /\ Shows(log, EmptyState)
  BY <1>1, EmptyShows
<1>4. reader = Idle /\ file = NoFile
  BY DEF Init
<1>5. ReaderTyped /\ FileTyped
  BY <1>3, <1>4, OrderFacts DEF Idle, NoFile, ReaderTyped, FileTyped, Speakers
<1>6. Shows(log, reader.db) /\ Shows(log, file.db)
  BY <1>3, <1>4 DEF Idle, NoFile
<1>7. Progress
  BY <1>1, <1>4 DEF Idle, Progress
<1>8. QED
  BY <1>2, <1>5, <1>6, <1>7 DEF IndInv

(* A write of the daemon                                                   *)
LEMMA MoveKeeps ==
    ASSUME IndInv, LogInv', UNCHANGED <<reader, file>>,
           \A s \in Sessions : /\ Len(log[s]) \in Nat /\ Len(log'[s]) \in Nat
                               /\ Len(log[s]) <= Len(log'[s])
                               /\ \A k \in 1..Len(log[s]) : log'[s][k] = log[s][k]
    PROVE  IndInv'
<1>1. ReaderTyped' /\ FileTyped'
  BY DEF IndInv, ReaderTyped, FileTyped
<1>2. Shows(log', reader.db) /\ Shows(log', file.db)
  BY ShowsGrows DEF IndInv
<1>3. Progress'
  <2>1. \A s \in Sessions : reader.begun[s] \in Nat
    BY DEF IndInv, ReaderTyped
  <2>2. \A s \in Sessions : reader.begun[s] <= Len(log'[s])
    BY <2>1 DEF IndInv, Progress
  <2>3. QED
    BY <2>2 DEF IndInv, Progress
<1>4. QED
  BY <1>1, <1>2, <1>3 DEF IndInv

(* The reader becomes idle.                                                *)
LEMMA StopKeeps ==
    ASSUME IndInv, reader' = Idle, UNCHANGED <<log, yaml, behind>>,
           FileTyped', Shows(log, file'.db)
    PROVE  IndInv'
<1>1. \A s \in Sessions : Len(log[s]) \in Nat
  BY DEF IndInv, LogInv, LogTyped
<1>2. EmptyState \in States /\ Shows(log, EmptyState)
  BY <1>1, EmptyShows
<1>3. LogInv'
  BY DEF IndInv, LogInv, LogTyped, StartsOnce, StartFirst, YamlTyped
<1>4. ReaderTyped'
  BY <1>2, OrderFacts DEF Idle, ReaderTyped, Speakers
<1>5. Progress' /\ reader'.db = EmptyState
  BY <1>1 DEF Idle, Progress
<1>6. QED
  BY <1>2, <1>3, <1>4, <1>5 DEF IndInv

(* A step of the reader                                                    *)
LEMMA ReadKeeps ==
    ASSUME IndInv, \/ Start("rebuild") \/ Start("verify") \/ Load \/ Read \/ Fails
                   \/ Install \/ Compare
    PROVE  IndInv'
<1>0. UNCHANGED <<log, yaml, behind>>
  BY DEF Start, Load, Read, Fails, Install, Compare
<1>1. \A s \in Sessions : Len(log[s]) \in Nat
  BY DEF IndInv, LogInv, LogTyped
<1>2. /\ EmptyState \in States /\ Shows(log, EmptyState)
      /\ \A s \in Sessions : EmptyState.rows[s].events = 0
  BY <1>1, EmptyShows
<1>3. LogInv'
  BY <1>0 DEF IndInv, LogInv, LogTyped, StartsOnce, StartFirst, YamlTyped
<1> DEFINE N == Len(Order)
<1>4. N \in Nat /\ \A i \in 1..N : Order[i] \in Sessions
  BY OrderFacts
<1>5. /\ reader.step \in {"idle", "load", "read"} /\ reader.next \in 1..(N + 1)
      /\ reader.speaker \in Speakers /\ reader.db \in States
  BY DEF IndInv, ReaderTyped
<1>6. ASSUME NEW mode \in {"rebuild", "verify"}, Start(mode) PROVE IndInv'
  <2> DEFINE lens == [s \in Sessions |-> Len(log[s])]
  <2>1. lens \in [Sessions -> Nat] /\ \A s \in Sessions : lens[s] <= Len(log[s])
    BY <1>1
  <2>2. reader' = [step |-> "load", mode |-> mode, next |-> 1, speaker |-> None,
                   db |-> EmptyState, begun |-> lens]
    BY <1>6 DEF Start, Idle
  <2> HIDE DEF lens
  <2>3. /\ reader'.step = "load" /\ reader'.next = 1 /\ reader'.db = EmptyState
        /\ reader'.begun = lens /\ file' = file
    <3>1. file' = file
      BY <1>6 DEF Start
    <3>2. QED
      BY <2>2, <3>1
  <2>4. ReaderTyped'
    <3>1. 1 \in 1..(N + 1) /\ None \in Speakers
      BY <1>4 DEF Speakers
    <3>2. QED
      BY <1>2, <1>6, <2>1, <2>2, <3>1 DEF ReaderTyped
  <2>5. Progress'
    BY <1>0, <1>2, <1>4, <2>1, <2>3 DEF Progress
  <2>6. QED
    BY <1>0, <1>2, <1>3, <2>3, <2>4, <2>5 DEF IndInv, FileTyped
<1>7. CASE Load
  <2>1. /\ reader' = [reader EXCEPT !.step = "read", !.speaker = yaml[Order[reader.next]]]
        /\ reader.step = "load" /\ ~(reader.next > N) /\ file' = file
    BY <1>7 DEF Load, AllRead
  <2>2. reader.next \in 1..N /\ yaml[Order[reader.next]] \in Speakers
    BY <1>4, <1>5, <2>1 DEF IndInv, LogInv, YamlTyped
  <2>3. /\ ReaderTyped' /\ reader'.step = "read" /\ reader'.next = reader.next
        /\ reader'.db = reader.db /\ reader'.begun = reader.begun
    BY <2>1, <2>2 DEF IndInv, ReaderTyped
  <2>4. Progress'
    BY <1>0, <2>1, <2>2, <2>3 DEF IndInv, Progress
  <2>5. QED
    BY <1>0, <1>3, <2>1, <2>3, <2>4 DEF IndInv, FileTyped
<1>8. CASE Read
  <2> DEFINE s == Order[reader.next]
             d == replaySession(reader.db, s, reader.speaker, log[s])
  <2>1. /\ reader' = [reader EXCEPT !.step = "load", !.next = reader.next + 1, !.speaker = None,
                                    !.db = d]
        /\ reader.step = "read" /\ file' = file
    BY <1>8 DEF Read
  <2>2. reader.next \in 1..N /\ s \in Sessions /\ reader.next + 1 \in 1..(N + 1)
    BY <1>4, <1>5, <2>1 DEF IndInv, Progress
  <2>3. Shows(log, d) /\ Within(d, reader.db, s) /\ d.rows[s].events = Len(log[s])
    <3>1. reader.db.rows[s].events = 0
      BY <1>4, <2>1, <2>2 DEF IndInv, Progress
    <3>2. QED
      BY <1>5, <2>2, <3>1, ReplayShows DEF IndInv
  <2>4. d \in States
    BY <2>3 DEF Within
  <2> HIDE DEF d
  <2>5. /\ ReaderTyped' /\ reader'.step = "load" /\ reader'.next = reader.next + 1
        /\ reader'.db = d /\ reader'.begun = reader.begun
    BY <2>1, <2>2, <2>4 DEF IndInv, ReaderTyped, Speakers
  <2>6. \A j \in 1..N : j # reader.next =>
            Order[j] # s /\ d.rows[Order[j]].events = reader.db.rows[Order[j]].events
    <3>1. \A j \in 1..N : j # reader.next => Order[j] # s
      BY <2>2, OrderFacts
    <3>2. QED
      BY <1>4, <2>3, <3>1 DEF Within
  <2>7. Progress'
    <3>1. \A j \in (reader.next + 1)..N : d.rows[Order[j]].events = 0
      BY <1>4, <2>1, <2>2, <2>6 DEF IndInv, Progress
    <3>2. \A j \in 1..reader.next : d.rows[Order[j]].events >= reader.begun[Order[j]]
      <4> TAKE j \in 1..reader.next
      <4>1. j \in 1..N /\ Order[j] \in Sessions /\ reader.begun[Order[j]] \in Nat
        BY <1>4, <2>2 DEF IndInv, ReaderTyped
      <4>2. CASE j = reader.next
        BY <1>1, <2>2, <2>3, <4>1, <4>2 DEF IndInv, Progress
      <4>3. CASE j # reader.next
        <5>1. j \in 1..(reader.next - 1)
          BY <2>2, <4>3
        <5>2. QED
          BY <2>1, <2>6, <4>1, <4>3, <5>1 DEF IndInv, Progress
      <4>4. QED
        BY <4>2, <4>3
    <3>3. (reader.next + 1) - 1 = reader.next
      BY <2>2
    <3>4. QED
      BY <1>0, <2>5, <3>1, <3>2, <3>3 DEF IndInv, Progress
  <2>8. QED
    BY <1>0, <1>3, <2>1, <2>3, <2>5, <2>7 DEF IndInv, FileTyped
<1>9. CASE Install
  <2>1. reader' = Idle /\ file' = [exists |-> TRUE, db |-> reader.db]
    BY <1>9 DEF Install
  <2>2. FileTyped' /\ Shows(log, file'.db)
    BY <1>5, <2>1 DEF IndInv, FileTyped
  <2>3. QED
    BY <1>0, <2>1, <2>2, StopKeeps
<1>10. CASE Compare \/ Fails
  <2>1. reader' = Idle /\ file' = file
    BY <1>10 DEF Compare, Fails
  <2>2. FileTyped'
    BY <2>1 DEF IndInv, FileTyped
  <2>3. QED
    BY <1>0, <2>1, <2>2, StopKeeps DEF IndInv
<1>11. QED
  BY <1>6, <1>7, <1>8, <1>9, <1>10

(* Every step preserves the invariant.                                     *)
LEMMA StepInv == IndInv /\ [Next]_vars => IndInv'
<1> SUFFICES ASSUME IndInv, [Next]_vars PROVE IndInv'
  OBVIOUS
<1>1. \A s \in Sessions : Len(log[s]) \in Nat
  BY DEF IndInv, LogInv, LogTyped
<1>2. ASSUME NEW s, NEW type, NEW key, NEW payload, Writes(s, type, key, payload) PROVE IndInv'
  <2>1. LogInv' /\ UNCHANGED <<reader, file>>
    BY <1>2, WriteKeepsLog DEF IndInv, Writes, WriteEvent
  <2>2. s \in Sessions /\ LogTyped
    BY <1>2, WriteFacts DEF IndInv, LogInv
  <2>3. PICK e \in Events : log' = [log EXCEPT ![s] = Append(@, e)]
    BY <1>2, WriteFacts DEF IndInv
  <2>4. \A t \in Sessions : /\ Len(log[t]) \in Nat /\ Len(log'[t]) \in Nat
                            /\ Len(log[t]) <= Len(log'[t])
                            /\ \A k \in 1..Len(log[t]) : log'[t][k] = log[t][k]
    BY <2>2, <2>3, AppendFacts
  <2>5. QED
    BY <2>1, <2>4, MoveKeeps
<1>3. ASSUME NEW s \in Sessions, WriteYaml(s) PROVE IndInv'
  <2>1. LogInv' /\ UNCHANGED <<reader, file, log>>
    BY <1>3, YamlKeepsLog DEF IndInv, WriteYaml
  <2>2. QED
    BY <1>1, <2>1, MoveKeeps
<1>4. CASE UNCHANGED vars
  BY <1>4 DEF vars, IndInv, LogInv, LogTyped, StartsOnce, StartFirst, YamlTyped,
     ReaderTyped, FileTyped, Progress
<1>5. QED
  BY <1>2, <1>3, <1>4, ReadKeeps DEF Next, Writes

(* The invariant holds in every reachable state.                           *)
THEOREM Inductive == Spec => []IndInv
  BY InitInv, StepInv, PTL DEF Spec

-----------------------------------------------------------------------------
(* The events an installed projection was built from                       *)
LEMMA SourceFacts ==
    ASSUME IndInv, NEW s \in Sessions
    PROVE  LET n == file.db.rows[s].events
           IN  /\ n \in Nat /\ n <= Len(log[s]) /\ Len(Source(s)) = n
               /\ \A k \in 1..n : Source(s)[k] = log[s][k] /\ k \in 1..Len(log[s])
               /\ ShowsRow(log[s], file.db.rows[s])
<1>1. /\ file.db \in States /\ log[s] \in Seq(Events) /\ ShowsRow(log[s], file.db.rows[s])
  BY DEF IndInv, Shows, LogInv, LogTyped
<1> DEFINE n == file.db.rows[s].events
<1>2. n \in Nat /\ n <= Len(log[s]) /\ Len(log[s]) \in Nat
  BY <1>1 DEF States, Rows, ShowsRow
<1> HIDE DEF n
<1>3. ASSUME NEW q \in Seq(Events), n <= Len(q)
      PROVE  Len(SubSeq(q, 1, n)) = n /\ \A k \in 1..n : SubSeq(q, 1, n)[k] = q[k]
  BY <1>2, <1>3
<1>4. QED
  BY <1>1, <1>2, <1>3 DEF Source, n

(* Every variable has its type, and every session of an installed          *)
(* projection shows a prefix of its log and the phase of its last event.   *)
THEOREM TypeCorrect == Spec => []TypeOK
<1> DEFINE V == verdict \in {"none", "missing", "valid", "mismatch"}
<1>1. Init => V
  BY DEF Init
<1>2. V /\ [Next]_vars => V'
  <2> SUFFICES ASSUME V, [Next]_vars PROVE V'
    OBVIOUS
  <2>1. ASSUME NEW s, NEW t, NEW k, NEW p, WriteEvent(s, t, k, p) PROVE V'
    BY <2>1 DEF WriteEvent
  <2>2. ASSUME NEW s, WriteYaml(s) PROVE V'
    BY <2>2 DEF WriteYaml
  <2>3. CASE \/ Start("rebuild") \/ Start("verify") \/ Load \/ Read \/ Fails
             \/ Install \/ Compare \/ UNCHANGED vars
    BY <2>3 DEF Start, Load, Read, Fails, Install, Compare, vars
  <2>4. QED
    BY <2>1, <2>2, <2>3 DEF Next
<1>3. IndInv /\ V => TypeOK
  <2> SUFFICES ASSUME IndInv, V PROVE TypeOK
    OBVIOUS
  <2>1. \A s \in Sessions :
            LET n == file.db.rows[s].events
            IN  n <= Len(log[s]) /\ (n > 0 => file.db.rows[s].phase = log[s][n].phase)
    BY DEF IndInv, Shows, ShowsRow
  <2>2. QED
    BY <2>1 DEF TypeOK, IndInv, LogInv, YamlTyped, Speakers, ReaderTyped
<1> HIDE DEF V
<1>4. QED
  BY <1>1, <1>2, <1>3, Inductive, PTL DEF Spec

(* A reader that has read all sessions covers what there was when it began. *)
LEMMA AllReadCovers ==
    ASSUME IndInv, AllRead
    PROVE  Covers(reader.db)
<1>1. /\ reader.step = "load" /\ reader.next - 1 = Len(Order)
  BY OrderFacts DEF AllRead, IndInv, ReaderTyped
<1>2. \A j \in 1..Len(Order) : reader.db.rows[Order[j]].events >= reader.begun[Order[j]]
  BY <1>1 DEF IndInv, Progress
<1>3. QED
  BY <1>2, OrderFacts DEF Covers

(* A rebuild installs every event there was when it began.                 *)
THEOREM RebuildsAreComplete == Spec => RebuildIsComplete
<1>1. IndInv /\ [Next]_vars => [file' # file => Covers(file'.db)]_vars
  <2> SUFFICES ASSUME IndInv, Next, file' # file PROVE Covers(file'.db)
    OBVIOUS
  <2>1. Install
    <3>1. ASSUME NEW s, NEW t, NEW k, NEW p, WriteEvent(s, t, k, p) PROVE FALSE
      BY <3>1 DEF WriteEvent
    <3>2. ASSUME NEW s, WriteYaml(s) PROVE FALSE
      BY <3>2 DEF WriteYaml
    <3>3. CASE Start("rebuild") \/ Start("verify") \/ Load \/ Read \/ Fails \/ Compare
      BY <3>3 DEF Start, Load, Read, Fails, Compare
    <3>4. QED
      BY <3>1, <3>2, <3>3 DEF Next
  <2>2. AllRead /\ file'.db = reader.db
    BY <2>1 DEF Install
  <2>3. QED
    BY <2>2, AllReadCovers
<1>2. QED
  BY <1>1, Inductive, PTL DEF Spec, RebuildIsComplete

(* verify calls no projection valid that lacks an event written before it  *)
(* began.                                                                  *)
THEOREM ValidIsNotStale == Spec => ValidIsCurrent
<1>1. IndInv /\ [Next]_vars =>
          [verdict' # verdict /\ verdict' = "valid" => Covers(file.db)]_vars
  <2> SUFFICES ASSUME IndInv, Next, verdict' # verdict, verdict' = "valid"
               PROVE  Covers(file.db)
    OBVIOUS
  <2>1. Compare
    <3>1. ASSUME NEW s, NEW t, NEW k, NEW p, WriteEvent(s, t, k, p) PROVE FALSE
      BY <3>1 DEF WriteEvent
    <3>2. ASSUME NEW s, WriteYaml(s) PROVE FALSE
      BY <3>2 DEF WriteYaml
    <3>3. CASE Start("rebuild") \/ Start("verify") \/ Load \/ Read \/ Fails \/ Install
      BY <3>3 DEF Start, Load, Read, Fails, Install
    <3>4. QED
      BY <3>1, <3>2, <3>3 DEF Next
  <2>2. AllRead /\ file.db = reader.db
    BY <2>1 DEF Compare, sameContent
  <2>3. QED
    BY <2>2, AllReadCovers
<1>2. QED
  BY <1>1, Inductive, PTL DEF Spec, ValidIsCurrent

(* An invocation is one call and is paid once.                             *)
THEOREM InvocationsArePaidOnce == Spec => []PaidOnce
<1>1. IndInv => PaidOnce
  <2> SUFFICES ASSUME IndInv, NEW s \in Sessions
               PROVE  LET From(types) == {i \in Invocations :
                              \E k \in 1..Len(Source(s)) : Source(s)[k].type \in types
                                                           /\ Source(s)[k].key = i}
                      IN  /\ file.db.rows[s].calls = Cardinality(From({"runner_invocation_started"}))
                          /\ file.db.rows[s].cost = Cardinality(From(RunnerTerminal))
    BY Zenon DEF PaidOnce
  <2> DEFINE n == file.db.rows[s].events
             From(types) == {i \in Invocations :
                 \E k \in 1..Len(Source(s)) : Source(s)[k].type \in types
                                              /\ Source(s)[k].key = i}
  <2>1. /\ Len(Source(s)) = n /\ \A k \in 1..n : Source(s)[k] = log[s][k]
        /\ ShowsRow(log[s], file.db.rows[s])
    BY SourceFacts
  <2>2. ASSUME NEW types PROVE From(types) = Of(log[s], n, types)
    BY <2>1 DEF Of
  <2>3. QED
    BY <2>1, <2>2 DEF ShowsRow, Started
<1>2. QED
  BY <1>1, Inductive, PTL

(* A set of numbers up to n has a greatest one, or is empty.               *)
LEMMA MaxFacts ==
    ASSUME NEW n \in Nat, NEW P \in SUBSET (1..n)
    PROVE  LET x == Max({0} \cup P) IN (x = 0 \/ x \in P) /\ \A y \in P : y <= x
<1> DEFINE Top(Q) == \E x \in {0} \cup Q : \A y \in {0} \cup Q : x >= y
           S == {k \in Nat : \A Q \in SUBSET (1..k) : Top(Q)}
<1>1. 0 \in S
  OBVIOUS
<1>2. ASSUME NEW k \in Nat, k \in S PROVE k + 1 \in S
  <2> SUFFICES ASSUME NEW Q \in SUBSET (1..(k + 1)) PROVE Top(Q)
    OBVIOUS
  <2>1. CASE k + 1 \in Q
    BY <2>1
  <2>2. CASE k + 1 \notin Q
    <3>1. Q \in SUBSET (1..k)
      BY <2>2
    <3>2. QED
      BY <1>2, <3>1
  <2>3. QED
    BY <2>1, <2>2
<1>3. Top(P)
  <2> HIDE DEF S
  <2>1. n \in S
    BY <1>1, <1>2, Induction
  <2>2. QED
    BY <2>1 DEF S
<1> DEFINE x == Max({0} \cup P)
<1>4. x \in {0} \cup P /\ \A y \in {0} \cup P : x >= y
  BY <1>3, Zenon DEF Max
<1>5. QED
  <2> HIDE DEF x
  <2>1. (x = 0 \/ x \in P) /\ \A y \in P : y <= x
    BY <1>4
  <2>2. QED
    BY <2>1 DEF x

(* The attendance table shows what the readiness report takes for          *)
(* evidence, unless the last answer is disputed.                           *)
THEOREM AttendanceAgrees == Spec => []AttendanceViewsAgree
<1>1. IndInv => AttendanceViewsAgree
  <2> SUFFICES ASSUME IndInv, NEW s \in Councils, NEW m \in Members, ~Disputed(Source(s), m)
               PROVE  file.db.rows[s].attendance[m] = Evidence(Source(s), m)
    BY DEF AttendanceViewsAgree
  <2> DEFINE n == file.db.rows[s].events
             q == log[s]
             v == file.db.rows[s].attendance[m]
             src == Source(s)
             R == {k \in 1..n : q[k].type = "attendance_requested" /\ q[k].key = None}
             A == {k \in 1..n : q[k].type = "member_attended" /\ q[k].key = m}
             r == Max({0} \cup R)
             a == Max({0} \cup A)
  <2>1. s \in Sessions
    BY DEF Sessions
  <2>2. /\ n \in Nat /\ Len(src) = n
        /\ \A k \in 1..n : src[k] = q[k] /\ k \in 1..Len(q)
        /\ ShowsRow(q, file.db.rows[s])
    BY <2>1, SourceFacts
  <2>3. View(q, n, m, v)
    BY <2>2 DEF ShowsRow
  <2>4. Position(src, "attendance_requested", None) = r /\ Position(src, "member_attended", m) = a
    <3>1. /\ {k \in 1..Len(src) : src[k].type = "attendance_requested" /\ src[k].key = None} = R
          /\ {k \in 1..Len(src) : src[k].type = "member_attended" /\ src[k].key = m} = A
      BY <2>2
    <3> HIDE DEF R, A
    <3>2. QED
      BY <3>1, Zenon DEF Position
  <2>5. /\ r = 0 \/ r \in R
        /\ \A y \in R : y <= r
        /\ a = 0 \/ a \in A
        /\ \A y \in A : y <= a
    <3>1. R \in SUBSET (1..n) /\ A \in SUBSET (1..n)
      OBVIOUS
    <3> HIDE DEF R, A
    <3>2. QED
      BY <2>2, <3>1, MaxFacts
  <2>6. /\ Evidence(src, m) = CASE r = 0 -> "none"
                                [] r > 0 /\ a > r -> src[a].payload.status
                                [] OTHER -> "requested"
        /\ ~(a > r /\ (r = 0 \/ Shown(src[a]) # src[a].payload.status))
    <3> HIDE DEF r, a, src
    <3> QED
      BY <2>4 DEF Evidence, Disputed, src
  <2> HIDE DEF r, a, src, v
  <2>7. \A k \in 1..n : Marks(q[k], m) <=> k \in R \cup A
    BY <2>1, <2>2 DEF Marks, IndInv, LogInv, LogTyped, Fits
  <2>8. CASE v = "none" /\ \A k \in 1..n : ~Marks(q[k], m)
    <3>1. r = 0
      BY <2>5, <2>7, <2>8
    <3>2. QED
      BY <2>6, <2>8, <3>1 DEF v, src
  <2>9. ASSUME NEW k \in 1..n, Marks(q[k], m), v = Mark(q[k]),
               \A j \in (k + 1)..n : ~Marks(q[j], m)
        PROVE  v = Evidence(src, m)
    <3>1. \A j \in R \cup A : j <= k
      <4> SUFFICES ASSUME NEW j \in R \cup A, ~(j <= k) PROVE FALSE
        OBVIOUS
      <4>1. j \in 1..n /\ j \in (k + 1)..n
        BY <2>2
      <4>2. QED
        BY <2>7, <2>9, <4>1
    <3>2. CASE k \in R
      <4>1. k = r /\ r > 0 /\ q[k].type = "attendance_requested"
        BY <2>2, <2>5, <3>1, <3>2
      <4>2. ~(a > r)
        BY <2>2, <2>5, <3>1, <4>1
      <4>3. QED
        BY <2>6, <2>9, <4>1, <4>2 DEF Mark
    <3>3. CASE k \in A
      <4>1. k = a /\ q[k].type = "member_attended" /\ k \notin R
        BY <2>2, <2>5, <3>1, <3>3
      <4>2. a > r /\ r \in Nat
        BY <2>2, <2>5, <3>1, <4>1
      <4>3. r > 0 /\ Shown(src[a]) = src[a].payload.status /\ src[a] = q[k]
        BY <2>2, <2>6, <4>1, <4>2
      <4>4. QED
        BY <2>6, <2>9, <4>1, <4>2, <4>3 DEF Mark
    <3>4. QED
      BY <2>7, <2>9, <3>2, <3>3
  <2>10. QED
    BY <2>3, <2>8, <2>9 DEF View, v, src
<1>2. QED
  BY <1>1, Inductive, PTL

-----------------------------------------------------------------------------
(* The batches and the counts of the reader and of the installed file      *)
BatchInv == Batched(log, reader.db) /\ Batched(log, file.db)

(* A write of the daemon                                                   *)
LEMMA MoveKeepsBatches ==
    ASSUME IndInv, BatchInv, UNCHANGED <<reader, file>>,
           \A s \in Sessions : \A k \in 1..Len(log[s]) : log'[s][k] = log[s][k]
    PROVE  BatchInv'
<1>1. \A s \in Sessions : Len(log[s]) \in Nat
  BY DEF IndInv, LogInv, LogTyped
<1>2. Batched(log', reader.db) /\ Batched(log', file.db)
  BY <1>1, BatchedGrows DEF IndInv, BatchInv
<1>3. QED
  BY <1>2 DEF BatchInv

(* Every step keeps the batches and the counts.                            *)
LEMMA StepKeepsBatches == IndInv /\ BatchInv /\ [Next]_vars => BatchInv'
<1> SUFFICES ASSUME IndInv, BatchInv, [Next]_vars PROVE BatchInv'
  OBVIOUS
<1>1. ASSUME NEW s, NEW type, NEW key, NEW payload, Writes(s, type, key, payload) PROVE BatchInv'
  <2>1. s \in Sessions /\ LogTyped /\ UNCHANGED <<reader, file>>
    BY <1>1, WriteFacts DEF IndInv, LogInv, Writes, WriteEvent
  <2>2. PICK e \in Events : log' = [log EXCEPT ![s] = Append(@, e)]
    BY <1>1, WriteFacts DEF IndInv
  <2>3. \A t \in Sessions : \A k \in 1..Len(log[t]) : log'[t][k] = log[t][k]
    BY <2>1, <2>2, AppendFacts
  <2>4. QED
    BY <2>1, <2>3, MoveKeepsBatches
<1>2. ASSUME NEW s \in Sessions, WriteYaml(s) PROVE BatchInv'
  BY <1>2, MoveKeepsBatches DEF WriteYaml
<1>3. ASSUME NEW mode, Start(mode) PROVE BatchInv'
  <2>1. reader'.db = EmptyState /\ UNCHANGED <<log, file>>
    BY <1>3 DEF Start, Idle
  <2>2. QED
    BY <2>1, EmptyBatched DEF BatchInv
<1>4. CASE Load
  <2>1. reader'.db = reader.db /\ UNCHANGED <<log, file>>
    BY <1>4 DEF Load, IndInv, ReaderTyped
  <2>2. QED
    BY <2>1 DEF BatchInv
<1>5. CASE Read
  <2> DEFINE s == Order[reader.next]
             d == replaySession(reader.db, s, reader.speaker, log[s])
  <2>1. reader.step = "read" /\ reader'.db = d /\ UNCHANGED <<log, file>>
    BY <1>5 DEF Read, IndInv, ReaderTyped
  <2>2. reader.next \in 1..Len(Order) /\ reader.speaker \in Speakers
    BY <2>1, OrderFacts DEF IndInv, Progress, ReaderTyped
  <2>3. s \in Sessions /\ reader.db.rows[s].events = 0
    BY <2>1, <2>2, OrderFacts DEF IndInv, Progress
  <2>4. Batched(log, d)
    BY <2>2, <2>3, ReplayBatched DEF IndInv, BatchInv
  <2>5. QED
    <3> HIDE DEF d
    <3> QED
      BY <2>1, <2>4 DEF BatchInv
<1>6. CASE Install \/ Compare \/ Fails
  <2>1. reader'.db = EmptyState /\ log' = log /\ file'.db \in {file.db, reader.db}
    BY <1>6 DEF Install, Compare, Fails, Idle
  <2>2. QED
    BY <2>1, EmptyBatched DEF BatchInv
<1>7. CASE UNCHANGED vars
  BY <1>7 DEF vars, BatchInv
<1>8. QED
  BY <1>1, <1>2, <1>3, <1>4, <1>5, <1>6, <1>7 DEF Next, Writes

(* The sum of the daemon's list                                            *)
ListedTotal(events) == MapThenSumSet(LAMBDA b : Listed(events, b), Batches)

(* No escalation that is waiting was passed by an immediate one.           *)
Straight(q, n, b) ==
    \A k \in 1..n : Adding(q[k], b) =>
        \/ \A j \in (k + 1)..n : ~Bypassing(q[j], b)
        \/ \E j \in (k + 1)..n : Flushing(q[j], b)

(* The sum of the daemon's list is then the total of the events that no    *)
(* flush follows.                                                          *)
LEMMA ListedAdds ==
    ASSUME NEW q, NEW n \in Nat, NEW events, Len(events) = n, \A k \in 1..n : events[k] = q[k],
           \A b \in Batches : Straight(q, n, b)
    PROVE  IsTotal(q, n, ListedTotal(events))
<1> DEFINE w == Weights(q, n)
           Iter(f) == f = [t \in SUBSET Batches |->
                              IF t = {} THEN 0
                              ELSE Listed(events, Taken(t)) + f[t \ {Taken(t)}]]
           F == CHOOSE f : Iter(f)
<1>1. ListedTotal(events) = F[Batches]
  BY Zenon DEF ListedTotal, MapThenSumSet, MapThenFoldSet, Taken
<1>2. w \in [Batches -> Nat] /\ IsFiniteSet(Batches)
  BY UnflushedFinite, ProjectionConstants DEF Weights
<1>3. \A b \in Batches : w[b] = Listed(events, b)
  <2> TAKE b \in Batches
  <2> DEFINE flushes == {k \in 1..Len(events) :
                 events[k].type = "user_escalation_requested" /\ events[k].key = b}
             Open == {k \in 1..Len(events) :
                 /\ events[k].type = "escalation_batched" /\ events[k].key = b
                 /\ \A x \in flushes : x < k}
  <2>1. Open = Unflushed(q, n, b)
    <3>1. ASSUME NEW k \in 1..n
          PROVE  k \in Open <=> /\ Adding(q[k], b)
                                /\ \A j \in 1..n : Flushing(q[j], b) => j < k
                                /\ \A j \in 1..n : Bypassing(q[j], b) => j < k
      BY DEF Adding, Flushing, Bypassing
    <3>2. ASSUME NEW k \in 1..n, k \in Unflushed(q, n, b), NEW j \in 1..n, Bypassing(q[j], b)
          PROVE  j < k
      <4>1. Adding(q[k], b) /\ \A i \in (k + 1)..n : ~Flushing(q[i], b)
        BY <3>2 DEF Unflushed
      <4>2. j \notin (k + 1)..n
        BY <3>2, <4>1 DEF Straight
      <4>3. j # k
        BY <3>2, <4>1 DEF Adding, Bypassing
      <4>4. QED
        BY <4>2, <4>3
    <3> HIDE DEF Open
    <3>3. Open \subseteq 1..n
      BY DEF Open
    <3>4. QED
      BY <3>1, <3>2, <3>3 DEF Unflushed
  <2>2. Listed(events, b) = Cardinality(Open)
    BY Zenon DEF Listed
  <2>3. QED
    BY <2>1, <2>2 DEF Weights
<1>4. ASSUME NEW f PROVE Iter(f) <=> Folds(f, w, Batches)
  <2>1. \A t \in SUBSET Batches : t # {} => w[Taken(t)] = Listed(events, Taken(t))
    BY <1>3, TakenFacts
  <2> HIDE DEF w
  <2>2. QED
    BY <2>1 DEF Folds
<1>5. Folds(F, w, Batches)
  <2> HIDE DEF w
  <2>1. PICK f : Folds(f, w, Batches)
    BY <1>2, FoldExists
  <2>2. Iter(f)
    BY <1>4, <2>1
  <2> HIDE DEF Iter
  <2>3. Iter(F)
    BY <2>2, Zenon
  <2>4. QED
    BY <1>4, <2>3
<1>6. Adds(F, w, Batches)
  <2> HIDE DEF w, F
  <2> QED
    BY <1>2, <1>5, FoldAdds
<1>7. IsTotal(q, n, F[Batches])
  <2> HIDE DEF F
  <2> QED
    BY <1>6 DEF IsTotal
<1>8. QED
  BY <1>1, <1>7

(* The projection counts the escalations pending in a session as the       *)
(* daemon's list does, unless a batch id is used again or an immediate     *)
(* escalation passed a waiting one.                                        *)
THEOREM BatchesAgree == Spec => []BatchViewsAgree
<1>1. Init => BatchInv
  BY EmptyBatched DEF Init, Idle, NoFile, BatchInv
<1>2. IndInv /\ BatchInv => BatchViewsAgree
  <2> SUFFICES ASSUME IndInv, BatchInv, \A b \in Batches : ~Reused(b) /\ ~Bypassed(b),
                      NEW s \in Sessions
               PROVE  file.db.rows[s].pending = ListedTotal(Source(s))
    BY Zenon DEF BatchViewsAgree, ListedTotal
  <2> DEFINE n == file.db.rows[s].events
             total == ListedTotal(Source(s))
  <2>1. ASSUME NEW b \in Batches, ReusedIn(log, file.db, b) PROVE Reused(b)
    <3>1. PICK t \in Sessions : \E k \in 1..file.db.rows[t].events :
              /\ Adding(log[t][k], b)
              /\ \/ file.db.batches[b].session # t
                 \/ \E j \in 1..(k - 1) : /\ Flushing(log[t][j], b)
                                          /\ \E i \in 1..(j - 1) : Adding(log[t][i], b)
      BY <2>1 DEF ReusedIn
    <3> DEFINE m == file.db.rows[t].events
    <3>2. m \in Nat /\ Len(Source(t)) = m /\ \A k \in 1..m : Source(t)[k] = log[t][k]
      BY SourceFacts
    <3> HIDE DEF m
    <3>3. PICK k \in 1..m :
              /\ Adding(log[t][k], b)
              /\ \/ file.db.batches[b].session # t
                 \/ \E j \in 1..(k - 1) : /\ Flushing(log[t][j], b)
                                          /\ \E i \in 1..(j - 1) : Adding(log[t][i], b)
      BY <3>1 DEF m
    <3>4. \A j \in 1..(k - 1) : j \in 1..m /\ \A i \in 1..(j - 1) : i \in 1..m
      BY <3>2
    <3>5. QED
      BY <3>2, <3>3, <3>4 DEF Reused
  <2>2. IsTotal(log[s], n, file.db.rows[s].pending)
    BY <2>1 DEF BatchInv, Batched, Totals, Clean
  <2>3. n \in Nat /\ Len(Source(s)) = n /\ \A k \in 1..n : Source(s)[k] = log[s][k]
    BY SourceFacts
  <2>4. IsTotal(log[s], n, total)
    <3> HIDE DEF n
    <3>1. ASSUME NEW b \in Batches PROVE Straight(log[s], n, b)
      <4>1. \A k \in 1..n : \A j \in (k + 1)..n : j \in 1..n
        BY <2>3
      <4>2. ~Bypassed(b)
        OBVIOUS
      <4>3. QED
        BY <2>3, <4>1, <4>2 DEF Bypassed, Straight
    <3>2. QED
      BY <2>3, <3>1, ListedAdds
  <2> HIDE DEF total
  <2>5. PICK f : Adds(f, Weights(log[s], n), Batches) /\ file.db.rows[s].pending = f[Batches]
    BY <2>2 DEF IsTotal
  <2>6. PICK g : Adds(g, Weights(log[s], n), Batches) /\ total = g[Batches]
    BY <2>4 DEF IsTotal
  <2>7. f[Batches] = g[Batches]
    BY <2>5, <2>6, SumsAgree, ProjectionConstants
  <2>8. QED
    BY <2>5, <2>6, <2>7 DEF total
<1>3. QED
  BY <1>1, <1>2, StepKeepsBatches, Inductive, PTL DEF Spec
=============================================================================
