------------------------ MODULE SessionCreationProofs ------------------------
(***************************************************************************)
(* Theorems about the creation of sessions, for any number of requests,    *)
(* sessions, principals, crashes, damaged logs and registry edits.         *)
(***************************************************************************)
EXTENDS SessionCreation, TLAPS

Sessions == [exists : BOOLEAN, kind : {"none", "delegation", "council"}, body : Nat,
             roster : SUBSET Principals, second : {"none", "task", "other"},
             assigned : BOOLEAN, open : BOOLEAN, reopened : BOOLEAN,
             readable : BOOLEAN, snapshot : Registries]
Creators == [step : Steps, req : Requests \cup {NoRequest}, loaded : Registries]

(* A handler that holds sessionMu works on a request.                      *)
CreatorTyped == creator \in Creators /\ (creator.step # "idle" => req \in Requests)

(* The types the proofs need: those of sessions, registry and creator.     *)
Types ==
    /\ sessions \in [Ids -> Sessions] /\ registry \in Registries
    /\ answered \subseteq Requests
    /\ CreatorTyped

(* The fields of the creator after a step                                  *)
Rests == creator'.step = "idle"
MovesTo(step, reg) ==
    creator'.step = step /\ creator'.req = creator.req /\ creator'.loaded = reg

(* From the look for an active session to the rename every active session  *)
(* is a reopened one; after it there is the creator's own besides.         *)
FirstActive ==
    /\ creator.step \in {"stage", "publish"} => \A i \in Active : sessions[i].reopened
    /\ creator.step = "assign" => \A i \in Active \ {req.id} : sessions[i].reopened
OneActive == FirstActive /\ SecondActiveWasReopened

(* The creator's session does not exist before the rename, and is the one  *)
(* that was asked for after it.                                            *)
OwnSession ==
    /\ creator.step \in {"find", "stage", "publish"} => ~sessions[req.id].exists
    /\ creator.step = "assign" =>
          /\ sessions[req.id].exists
          /\ sessions[req.id].kind = req.kind /\ sessions[req.id].body = req.body
TaskIsAssigned == \A i \in Ids : sessions[i].second = "task" => sessions[i].assigned
Complete == OwnSession /\ AnsweredIsComplete /\ TaskIsAssigned

(* The registry that goes into the snapshot knows the roster.              *)
Known ==
    /\ creator.step \in {"stage", "publish"} => ValidSpec
    /\ SnapshotKnowsRoster

(* The reconciler writes what it has compared, unless it was raced.        *)
Compared == creator.step = "write" /\ ~raced => registry = creator.loaded

IndInv == Types /\ OneActive /\ Complete /\ Known /\ Compared

USE CreationConstants DEF req, others, Existing, Active

(* A handler that answers leaves a creator at rest.                        *)
LEMMA ToIdle ==
    ASSUME creator' = Idle
    PROVE  CreatorTyped' /\ Rests
<1>1. Idle \in Creators
  BY DEF Idle, Creators, Steps, Registries, NoRegistry
<1>2. Idle.step = "idle"
  BY DEF Idle
<1>3. QED
  BY <1>1, <1>2 DEF CreatorTyped, Rests

(* A handler that goes on keeps its request.                               *)
LEMMA ToStep ==
    ASSUME CreatorTyped, creator.step # "idle", NEW s \in Steps, Goto(s)
    PROVE  CreatorTyped' /\ MovesTo(s, creator.loaded)
  BY DEF CreatorTyped, Creators, Goto, MovesTo

(* So does one that loads the registry.                                    *)
LEMMA ToLoaded ==
    ASSUME CreatorTyped, creator.step # "idle", NEW s \in Steps, registry \in Registries,
           creator' = [creator EXCEPT !.loaded = registry, !.step = s]
    PROVE  CreatorTyped' /\ MovesTo(s, registry)
  BY DEF CreatorTyped, Creators, MovesTo

(* Where Load leads                                                        *)
LEMMA LoadMoves ==
    ASSUME CreatorTyped, registry \in Registries, Load
    PROVE  /\ CreatorTyped'
           /\ MovesTo("principals", registry) \/ MovesTo("existing", registry)
<1>1. creator.step # "idle"
  BY DEF Load
<1>2. \E s \in {"principals", "existing"} :
         creator' = [creator EXCEPT !.loaded = registry, !.step = s]
  BY DEF Load
<1>3. QED
  BY <1>1, <1>2, ToLoaded DEF Steps

(* Where Reload leads                                                      *)
LEMMA ReloadMoves ==
    ASSUME CreatorTyped, registry \in Registries, Reload
    PROVE  /\ CreatorTyped'
           /\ MovesTo("existing", registry)
  BY ToLoaded DEF Reload, Steps

(* Where Reconcile leads                                                   *)
LEMMA ReconcileMoves ==
    ASSUME CreatorTyped, registry \in Registries, Reconcile
    PROVE  /\ CreatorTyped'
           /\ Rests \/ MovesTo("existing", registry) \/ MovesTo("check", registry)
<1>1. creator.step # "idle"
  BY DEF Reconcile
<1>2. \/ creator' = Idle
      \/ \E s \in {"existing", "check"} :
            creator' = [creator EXCEPT !.loaded = registry, !.step = s]
  BY DEF Reconcile
<1>3. QED
  BY <1>1, <1>2, ToLoaded, ToIdle DEF Steps

(* Where ReconcilePrincipals leads                                         *)
LEMMA ReconcilePrincipalsMoves ==
    ASSUME CreatorTyped, registry \in Registries, ReconcilePrincipals
    PROVE  /\ CreatorTyped'
           /\ Rests \/ MovesTo("existing", creator.loaded) \/ MovesTo("reconcile", creator.loaded)
<1>1. creator.step # "idle"
  BY DEF ReconcilePrincipals
<1>2. creator' = Idle \/ Goto("existing") \/ Goto("reconcile")
  BY DEF ReconcilePrincipals, Refuse, Succeed
<1>3. QED
  BY <1>1, <1>2, ToStep, ToIdle DEF Steps

(* Where Check leads                                                       *)
LEMMA CheckMoves ==
    ASSUME CreatorTyped, registry \in Registries, Check
    PROVE  /\ CreatorTyped'
           /\ Rests \/ MovesTo("write", creator.loaded)
<1>1. creator.step # "idle"
  BY DEF Check
<1>2. creator' = Idle \/ Goto("write")
  BY DEF Check, Refuse, Succeed
<1>3. QED
  BY <1>1, <1>2, ToStep, ToIdle DEF Steps

(* Where Write leads                                                       *)
LEMMA WriteMoves ==
    ASSUME CreatorTyped, registry \in Registries, Write
    PROVE  /\ CreatorTyped'
           /\ MovesTo("reload", creator.loaded)
<1>1. creator.step # "idle"
  BY DEF Write
<1>2. Goto("reload")
  BY DEF Write, Refuse, Succeed
<1>3. QED
  BY <1>1, <1>2, ToStep, ToIdle DEF Steps

(* Where CheckExisting leads                                               *)
LEMMA CheckExistingMoves ==
    ASSUME CreatorTyped, registry \in Registries, CheckExisting
    PROVE  /\ CreatorTyped'
           /\ Rests \/ MovesTo("find", creator.loaded)
<1>1. creator.step # "idle"
  BY DEF CheckExisting
<1>2. creator' = Idle \/ Goto("find")
  BY DEF CheckExisting, Refuse, Succeed
<1>3. QED
  BY <1>1, <1>2, ToStep, ToIdle DEF Steps

(* Where FindActive leads                                                  *)
LEMMA FindActiveMoves ==
    ASSUME CreatorTyped, registry \in Registries, FindActive
    PROVE  /\ CreatorTyped'
           /\ Rests \/ MovesTo("stage", creator.loaded)
<1>1. creator.step # "idle"
  BY DEF FindActive
<1>2. creator' = Idle \/ Goto("stage")
  BY DEF FindActive, Refuse, Succeed
<1>3. QED
  BY <1>1, <1>2, ToStep, ToIdle DEF Steps

(* Where Stage leads                                                       *)
LEMMA StageMoves ==
    ASSUME CreatorTyped, registry \in Registries, Stage
    PROVE  /\ CreatorTyped'
           /\ Rests \/ MovesTo("publish", creator.loaded)
<1>1. creator.step # "idle"
  BY DEF Stage
<1>2. creator' = Idle \/ Goto("publish")
  BY DEF Stage, Refuse, Succeed
<1>3. QED
  BY <1>1, <1>2, ToStep, ToIdle DEF Steps

(* Where Publish leads                                                     *)
LEMMA PublishMoves ==
    ASSUME CreatorTyped, registry \in Registries, Publish
    PROVE  /\ CreatorTyped'
           /\ Rests \/ MovesTo("assign", creator.loaded)
<1>1. creator.step # "idle"
  BY DEF Publish
<1>2. creator' = Idle \/ Goto("assign")
  BY DEF Publish, Refuse, Succeed
<1>3. QED
  BY <1>1, <1>2, ToStep, ToIdle DEF Steps

(* Where Assign leads                                                      *)
LEMMA AssignMoves ==
    ASSUME CreatorTyped, registry \in Registries, Assign
    PROVE  /\ CreatorTyped'
           /\ Rests
<1>1. creator.step # "idle"
  BY DEF Assign
<1>2. creator' = Idle
  BY DEF Assign, Refuse, Succeed
<1>3. QED
  BY <1>1, <1>2, ToStep, ToIdle DEF Steps

(* What an event of another handler changes                                *)
LEMMA Evented ==
    ASSUME sessions \in [Ids -> Sessions], NEW i \in Ids, NEW o \in BOOLEAN,
           sessions' = [sessions EXCEPT ![i] = WithEvent(@, o)]
    PROVE  /\ sessions' \in [Ids -> Sessions]
           /\ \A j \in Ids \ {i} : sessions'[j] = sessions[j]
           /\ sessions'[i].open = o
           /\ sessions'[i].reopened = (sessions[i].reopened \/ (o /\ ~sessions[i].open))
           /\ sessions'[i].exists = sessions[i].exists
           /\ sessions'[i].kind = sessions[i].kind
           /\ sessions'[i].body = sessions[i].body
           /\ sessions'[i].roster = sessions[i].roster
           /\ sessions'[i].snapshot = sessions[i].snapshot
           /\ sessions'[i].assigned = sessions[i].assigned
           /\ sessions'[i].second = "task" => sessions[i].second = "task"
<1>1. PICK s \in Sessions : s = sessions[i]
  OBVIOUS
<1>2. Appended(s, "other") \in {"none", "task", "other"}
  BY DEF Appended, Sessions
<1>3. /\ WithEvent(s, o) \in Sessions
      /\ WithEvent(s, o).open = o
      /\ WithEvent(s, o).reopened = (s.reopened \/ (o /\ ~s.open))
      /\ WithEvent(s, o).exists = s.exists /\ WithEvent(s, o).kind = s.kind
      /\ WithEvent(s, o).body = s.body /\ WithEvent(s, o).roster = s.roster
      /\ WithEvent(s, o).snapshot = s.snapshot /\ WithEvent(s, o).assigned = s.assigned
      /\ WithEvent(s, o).second = Appended(s, "other")
  BY <1>2 DEF WithEvent, Sessions
<1>4. Appended(s, "other") = "task" => s.second = "task"
  BY DEF Appended
<1>5. sessions'[i] = WithEvent(s, o)
  BY <1>1
<1>6. QED
  BY <1>1, <1>3, <1>4, <1>5

(* What the handlers of other commands leave alone                         *)
LEMMA OthersStep ==
    ASSUME Types, NEW i \in Ids, Note(i) \/ End(i) \/ Reopen(i)
    PROVE  /\ Types' /\ UNCHANGED <<creator, registry, answered, raced>>
           /\ \A j \in Ids :
                /\ sessions'[j].exists = sessions[j].exists
                /\ sessions'[j].kind = sessions[j].kind
                /\ sessions'[j].body = sessions[j].body
                /\ sessions'[j].roster = sessions[j].roster
                /\ sessions'[j].snapshot = sessions[j].snapshot
                /\ sessions'[j].assigned = sessions[j].assigned
                /\ sessions'[j].second = "task" => sessions[j].second = "task"
                /\ sessions[j].reopened => sessions'[j].reopened
                /\ sessions'[j].open /\ ~sessions'[j].reopened => sessions[j].open
<1>1. PICK o \in BOOLEAN : sessions' = [sessions EXCEPT ![i] = WithEvent(@, o)]
  BY DEF Note, End, Reopen
<1>2. UNCHANGED <<creator, registry, answered, raced>>
  BY DEF Note, End, Reopen
<1>3. sessions \in [Ids -> Sessions]
  BY DEF Types
<1>4. Types'
  BY <1>1, <1>2, <1>3, Evented DEF Types, CreatorTyped
<1>5. /\ \A j \in Ids \ {i} : sessions'[j] = sessions[j]
      /\ sessions'[i].open = o
      /\ sessions'[i].reopened = (sessions[i].reopened \/ (o /\ ~sessions[i].open))
  BY <1>1, <1>3, Evented
<1>6. \A j \in Ids :
          /\ sessions[j].reopened => sessions'[j].reopened
          /\ sessions'[j].open /\ ~sessions'[j].reopened => sessions[j].open
  BY <1>5
<1>7. \A j \in Ids :
          /\ sessions'[j].exists = sessions[j].exists
          /\ sessions'[j].kind = sessions[j].kind
          /\ sessions'[j].body = sessions[j].body
          /\ sessions'[j].roster = sessions[j].roster
          /\ sessions'[j].snapshot = sessions[j].snapshot
          /\ sessions'[j].assigned = sessions[j].assigned
          /\ sessions'[j].second = "task" => sessions[j].second = "task"
  BY <1>1, <1>3, Evented
<1>8. QED
  BY <1>2, <1>4, <1>6, <1>7

(* Every action keeps the types.                                           *)
LEMMA TypesStep == Types /\ [Next]_vars => Types'
<1> SUFFICES ASSUME Types, [Next]_vars PROVE Types'
  OBVIOUS
<1> USE DEF Types, CreatorTyped
<1>1. ASSUME NEW q \in Requests, Receive(q) PROVE Types'
  <2>1. [Idle EXCEPT !.step = "load", !.req = q] \in Creators
    BY DEF Idle, Creators, Steps, Registries, NoRegistry
  <2>2. /\ creator' = [Idle EXCEPT !.step = "load", !.req = q]
        /\ UNCHANGED <<sessions, registry, answered>>
    BY <1>1 DEF Receive
  <2>3. creator'.req = q
    BY <2>2 DEF Idle
  <2>4. QED
    BY <2>1, <2>2, <2>3
<1>2. ASSUME Load PROVE Types'
  BY <1>2, LoadMoves DEF Load
<1>3. ASSUME ReconcilePrincipals PROVE Types'
  BY <1>3, ReconcilePrincipalsMoves DEF ReconcilePrincipals
<1>4. ASSUME Reconcile PROVE Types'
  BY <1>4, ReconcileMoves DEF Reconcile
<1>5. ASSUME Check PROVE Types'
  BY <1>5, CheckMoves DEF Check
<1>6. ASSUME Write PROVE Types'
  <2>1. registry' \in Registries
    BY <1>6 DEF Write, Registries, Creators
  <2>2. QED
    BY <1>6, <2>1, WriteMoves DEF Write
<1>7. ASSUME Reload PROVE Types'
  BY <1>7, ReloadMoves DEF Reload
<1>8. ASSUME CheckExisting PROVE Types'
  <2>1. /\ UNCHANGED <<sessions, registry>>
        /\ (answered' = answered \/ answered' = answered \cup {req})
    BY <1>8 DEF CheckExisting, Succeed
  <2>2. creator.step # "idle"
    BY <1>8 DEF CheckExisting
  <2>3. CreatorTyped'
    BY <1>8, CheckExistingMoves
  <2>4. QED
    BY <2>1, <2>2, <2>3
<1>9. ASSUME FindActive PROVE Types'
  BY <1>9, FindActiveMoves DEF FindActive
<1>10. ASSUME Stage PROVE Types'
  BY <1>10, StageMoves DEF Stage
<1>11. ASSUME Publish PROVE Types'
  <2>1. NewSession \in Sessions
    BY <1>11 DEF Publish, NewSession, Sessions, Creators
  <2>2. sessions' \in [Ids -> Sessions]
    BY <1>11, <2>1 DEF Publish
  <2>3. registry' = registry /\ (answered' = answered \/ answered' = answered \cup {req})
    BY <1>11 DEF Publish, Succeed
  <2>4. CreatorTyped' /\ req \in Requests
    BY <1>11, PublishMoves DEF Publish
  <2>5. QED
    BY <2>2, <2>3, <2>4
<1>12. ASSUME Assign PROVE Types'
  <2>1. req.id \in Ids
    BY <1>12 DEF Assign
  <2>2. \A s \in Sessions : WithTask(s) \in Sessions
    BY DEF WithTask, Appended, Sessions
  <2>3. sessions' = sessions \/ sessions' = [sessions EXCEPT ![req.id] = WithTask(@)]
    BY <1>12 DEF Assign
  <2>4. sessions' \in [Ids -> Sessions]
    BY <2>1, <2>2, <2>3
  <2>5. registry' = registry /\ (answered' = answered \/ answered' = answered \cup {req})
    BY <1>12 DEF Assign, Succeed
  <2>6. CreatorTyped' /\ req \in Requests
    BY <1>12, AssignMoves DEF Assign
  <2>7. QED
    BY <2>4, <2>5, <2>6
<1>13. ASSUME Crash PROVE Types'
  BY <1>13, ToIdle DEF Crash
<1>14. ASSUME NEW i \in Ids, Note(i) \/ End(i) PROVE Types'
  BY <1>14, OthersStep
<1>15. ASSUME NEW i \in Ids, Reopen(i) PROVE Types'
  BY <1>15, OthersStep
<1>16. ASSUME NEW i \in Ids, Damage(i) PROVE Types'
  <2>1. [sessions[i] EXCEPT !.readable = FALSE] \in Sessions
    BY DEF Sessions
  <2>2. sessions' = [sessions EXCEPT ![i] = [sessions[i] EXCEPT !.readable = FALSE]]
    BY <1>16 DEF Damage
  <2>3. QED
    BY <1>16, <2>1, <2>2 DEF Damage
<1>17. ASSUME NEW i \in Ids, Repair(i) PROVE Types'
  <2>1. [sessions[i] EXCEPT !.readable = TRUE] \in Sessions
    BY DEF Sessions
  <2>2. sessions' = [sessions EXCEPT ![i] = [sessions[i] EXCEPT !.readable = TRUE]]
    BY <1>17 DEF Repair
  <2>3. QED
    BY <1>17, <2>1, <2>2 DEF Repair
<1>18. ASSUME NEW p \in Principals, NEW v \in {"absent", "enabled", "disabled"}, Edit(p, v)
       PROVE  Types'
  <2>1. registry' \in Registries
    BY <1>18 DEF Edit, Registries
  <2>2. QED
    BY <1>18, <2>1 DEF Edit
<1>19. ASSUME UNCHANGED vars PROVE Types'
  BY <1>19 DEF vars
<1>20. QED
  BY <1>1, <1>2, <1>3, <1>4, <1>5, <1>6, <1>7, <1>8, <1>9, <1>10, <1>11,
     <1>12, <1>13, <1>14, <1>15, <1>16, <1>17, <1>18, <1>19
  DEF Next, CreatorStep

(* The rename puts the requested session in place and touches no other.    *)
LEMMA Published ==
    ASSUME Types, Publish
    PROVE  /\ req \in Requests /\ req.id \in Ids /\ registry' = registry
           /\ \A j \in Ids \ {req.id} : sessions'[j] = sessions[j]
           /\ sessions'[req.id] = NewSession
           /\ answered' = answered \/ (req.kind = "council" /\ answered' = answered \cup {req})
<1>1. req \in Requests /\ req.id \in Ids
  BY DEF Types, CreatorTyped, Publish
<1>2. QED
  BY <1>1 DEF Types, Publish, Succeed

(* The fields of a new session                                             *)
LEMMA NewFields ==
    /\ NewSession.exists /\ NewSession.kind = req.kind /\ NewSession.body = req.body
    /\ NewSession.roster = req.roster /\ NewSession.snapshot = creator.loaded
    /\ NewSession.second = "none"
  BY DEF NewSession

(* The second event only completes the session and keeps it open.          *)
LEMMA Assigned ==
    ASSUME Types, Assign
    PROVE  /\ req \in Requests /\ req.id \in Ids /\ registry' = registry
           /\ \A j \in Ids : /\ sessions'[j].exists = sessions[j].exists
                             /\ sessions'[j].kind = sessions[j].kind
                             /\ sessions'[j].body = sessions[j].body
                             /\ sessions'[j].roster = sessions[j].roster
                             /\ sessions'[j].snapshot = sessions[j].snapshot
                             /\ sessions[j].assigned => sessions'[j].assigned
                             /\ \/ sessions'[j].second = sessions[j].second
                                \/ sessions'[j].assigned
           /\ \/ answered' = answered
              \/ answered' = answered \cup {req} /\ sessions'[req.id].assigned
<1>1. req \in Requests /\ req.id \in Ids
  BY DEF Types, CreatorTyped, Assign
<1>2. registry' = registry
  BY DEF Assign
<1>3. CASE AllReadable
  <2>1. /\ sessions' = [sessions EXCEPT ![req.id] = WithTask(@)]
        /\ answered' = answered \cup {req}
    BY <1>3 DEF Assign, Succeed
  <2>2. QED
    BY <1>1, <1>2, <2>1 DEF Types, Sessions, WithTask
<1>4. CASE ~AllReadable
  BY <1>1, <1>2, <1>4 DEF Assign
<1>5. QED
  BY <1>3, <1>4

(* A creator only publishes where nothing but reopened sessions is active. *)
LEMMA OneActiveStep == Types /\ OneActive /\ Complete /\ [Next]_vars => OneActive'
<1> SUFFICES ASSUME Types, OneActive, Complete, [Next]_vars PROVE OneActive'
  OBVIOUS
<1> USE DEF Types, CreatorTyped, OneActive, FirstActive, SecondActiveWasReopened,
            Rests, MovesTo
<1>1. ASSUME NEW q \in Requests, Receive(q) PROVE OneActive'
  BY <1>1 DEF Receive, Idle
<1>2. ASSUME Load PROVE OneActive'
  BY <1>2, LoadMoves DEF Load
<1>3. ASSUME ReconcilePrincipals PROVE OneActive'
  BY <1>3, ReconcilePrincipalsMoves DEF ReconcilePrincipals
<1>4. ASSUME Reconcile PROVE OneActive'
  BY <1>4, ReconcileMoves DEF Reconcile
<1>5. ASSUME Check PROVE OneActive'
  BY <1>5, CheckMoves DEF Check
<1>6. ASSUME Write PROVE OneActive'
  BY <1>6, WriteMoves DEF Write
<1>7. ASSUME Reload PROVE OneActive'
  BY <1>7, ReloadMoves DEF Reload
<1>8. ASSUME CheckExisting PROVE OneActive'
  BY <1>8, CheckExistingMoves DEF CheckExisting
<1>9. ASSUME FindActive PROVE OneActive'
  <2>1. ~(ValidSpec /\ NoActiveSession) => creator' = Idle
    BY <1>9 DEF FindActive, Refuse
  <2>2. UNCHANGED sessions
    BY <1>9 DEF FindActive
  <2>3. CASE ValidSpec /\ NoActiveSession
    BY <1>9, <2>2, <2>3, FindActiveMoves DEF NoActiveSession, FindActive
  <2>4. QED
    BY <1>9, <2>1, <2>2, <2>3, ToIdle
<1>10. ASSUME Stage PROVE OneActive'
  BY <1>10, StageMoves DEF Stage
<1>11. ASSUME Publish PROVE OneActive'
  BY <1>11, PublishMoves DEF Publish
<1>12. ASSUME Assign PROVE OneActive'
  BY <1>12, AssignMoves DEF Assign
<1>13. ASSUME Crash PROVE OneActive'
  BY <1>13, ToIdle DEF Crash
<1>14. ASSUME NEW i \in Ids, Note(i) \/ End(i) PROVE OneActive'
  BY <1>14, OthersStep
<1>15. ASSUME NEW i \in Ids, Reopen(i) PROVE OneActive'
  BY <1>15, OthersStep
<1>16. ASSUME NEW i \in Ids, Damage(i) PROVE OneActive'
  BY <1>16 DEF Damage
<1>17. ASSUME NEW i \in Ids, Repair(i) PROVE OneActive'
  BY <1>17 DEF Repair
<1>18. ASSUME NEW p \in Principals, NEW v \in {"absent", "enabled", "disabled"}, Edit(p, v)
       PROVE  OneActive'
  BY <1>18 DEF Edit
<1>19. ASSUME UNCHANGED vars PROVE OneActive'
  BY <1>19 DEF vars
<1>20. QED
  BY <1>1, <1>2, <1>3, <1>4, <1>5, <1>6, <1>7, <1>8, <1>9, <1>10, <1>11,
     <1>12, <1>13, <1>14, <1>15, <1>16, <1>17, <1>18, <1>19
  DEF Next, CreatorStep

(* A published session keeps its command and its second event.             *)
LEMMA CompleteStep == Types /\ Complete /\ [Next]_vars => Complete'
<1> SUFFICES ASSUME Types, Complete, [Next]_vars PROVE Complete'
  OBVIOUS
<1> USE DEF Types, CreatorTyped, Complete, OwnSession, AnsweredIsComplete,
            TaskIsAssigned, SameCommand, Rests, MovesTo
<1>1. ASSUME NEW q \in Requests, Receive(q) PROVE Complete'
  BY <1>1 DEF Receive, Idle
<1>2. ASSUME Load PROVE Complete'
  BY <1>2, LoadMoves DEF Load
<1>3. ASSUME ReconcilePrincipals PROVE Complete'
  BY <1>3, ReconcilePrincipalsMoves DEF ReconcilePrincipals
<1>4. ASSUME Reconcile PROVE Complete'
  BY <1>4, ReconcileMoves DEF Reconcile
<1>5. ASSUME Check PROVE Complete'
  BY <1>5, CheckMoves DEF Check
<1>6. ASSUME Write PROVE Complete'
  BY <1>6, WriteMoves DEF Write
<1>7. ASSUME Reload PROVE Complete'
  BY <1>7, ReloadMoves DEF Reload
<1>8. ASSUME CheckExisting PROVE Complete'
  <2>1. UNCHANGED <<sessions, registry>> /\ req \in Requests /\ req.id \in Ids
    BY <1>8 DEF CheckExisting
  <2>2. \/ answered' = answered
        \/ /\ answered' = answered \cup {req}
           /\ sessions[req.id].exists /\ SameCommand(sessions[req.id], req)
    BY <1>8 DEF CheckExisting, Succeed
  <2>3. sessions[req.id].exists => creator' = Idle
    BY <1>8 DEF CheckExisting, Refuse, Succeed
  <2>4. AnsweredIsComplete'
    BY <2>1, <2>2
  <2>5. OwnSession'
    BY <1>8, <2>1, <2>3, ToIdle, CheckExistingMoves
  <2>6. TaskIsAssigned'
    BY <2>1
  <2>7. QED
    BY <2>4, <2>5, <2>6
<1>9. ASSUME FindActive PROVE Complete'
  BY <1>9, FindActiveMoves DEF FindActive
<1>10. ASSUME Stage PROVE Complete'
  BY <1>10, StageMoves DEF Stage
<1>11. ASSUME Publish PROVE Complete'
  <2>1. AnsweredIsComplete'
    BY <1>11, Published, NewFields DEF Publish
  <2>2. OwnSession'
    BY <1>11, Published, NewFields, PublishMoves
  <2>3. TaskIsAssigned'
    BY <1>11, Published, NewFields
  <2>4. QED
    BY <2>1, <2>2, <2>3
<1>12. ASSUME Assign PROVE Complete'
  <2>1. AnsweredIsComplete'
    BY <1>12, Assigned DEF Assign
  <2>2. OwnSession'
    BY <1>12, AssignMoves
  <2>3. TaskIsAssigned'
    BY <1>12, Assigned
  <2>4. QED
    BY <2>1, <2>2, <2>3
<1>13. ASSUME Crash PROVE Complete'
  BY <1>13, ToIdle DEF Crash
<1>14. ASSUME NEW i \in Ids, Note(i) \/ End(i) PROVE Complete'
  BY <1>14, OthersStep
<1>15. ASSUME NEW i \in Ids, Reopen(i) PROVE Complete'
  BY <1>15, OthersStep
<1>16. ASSUME NEW i \in Ids, Damage(i) PROVE Complete'
  BY <1>16 DEF Damage
<1>17. ASSUME NEW i \in Ids, Repair(i) PROVE Complete'
  BY <1>17 DEF Repair
<1>18. ASSUME NEW p \in Principals, NEW v \in {"absent", "enabled", "disabled"}, Edit(p, v)
       PROVE  Complete'
  BY <1>18 DEF Edit
<1>19. ASSUME UNCHANGED vars PROVE Complete'
  BY <1>19 DEF vars
<1>20. QED
  BY <1>1, <1>2, <1>3, <1>4, <1>5, <1>6, <1>7, <1>8, <1>9, <1>10, <1>11,
     <1>12, <1>13, <1>14, <1>15, <1>16, <1>17, <1>18, <1>19
  DEF Next, CreatorStep

(* What was validated is what is written.                                  *)
LEMMA KnownStep == Types /\ Known /\ [Next]_vars => Known'
<1> SUFFICES ASSUME Types, Known, [Next]_vars PROVE Known'
  OBVIOUS
<1> USE DEF Types, CreatorTyped, Known, SnapshotKnowsRoster, ValidSpec, Rests, MovesTo
<1>1. ASSUME NEW q \in Requests, Receive(q) PROVE Known'
  BY <1>1 DEF Receive, Idle
<1>2. ASSUME Load PROVE Known'
  BY <1>2, LoadMoves DEF Load
<1>3. ASSUME ReconcilePrincipals PROVE Known'
  BY <1>3, ReconcilePrincipalsMoves DEF ReconcilePrincipals
<1>4. ASSUME Reconcile PROVE Known'
  BY <1>4, ReconcileMoves DEF Reconcile
<1>5. ASSUME Check PROVE Known'
  BY <1>5, CheckMoves DEF Check
<1>6. ASSUME Write PROVE Known'
  BY <1>6, WriteMoves DEF Write
<1>7. ASSUME Reload PROVE Known'
  BY <1>7, ReloadMoves DEF Reload
<1>8. ASSUME CheckExisting PROVE Known'
  BY <1>8, CheckExistingMoves DEF CheckExisting
<1>9. ASSUME FindActive PROVE Known'
  <2>1. ~(ValidSpec /\ NoActiveSession) => creator' = Idle
    BY <1>9 DEF FindActive, Refuse
  <2>2. UNCHANGED sessions
    BY <1>9 DEF FindActive
  <2>3. CASE ValidSpec /\ NoActiveSession
    BY <1>9, <2>2, <2>3, FindActiveMoves DEF NoActiveSession, FindActive
  <2>4. QED
    BY <1>9, <2>1, <2>2, <2>3, ToIdle
<1>10. ASSUME Stage PROVE Known'
  BY <1>10, StageMoves DEF Stage
<1>11. ASSUME Publish PROVE Known'
  <2>1. SnapshotKnowsRoster'
    BY <1>11, Published, NewFields DEF Publish
  <2>2. QED
    BY <1>11, <2>1, PublishMoves
<1>12. ASSUME Assign PROVE Known'
  <2>1. SnapshotKnowsRoster'
    BY <1>12, Assigned
  <2>2. QED
    BY <1>12, <2>1, AssignMoves
<1>13. ASSUME Crash PROVE Known'
  BY <1>13, ToIdle DEF Crash
<1>14. ASSUME NEW i \in Ids, Note(i) \/ End(i) PROVE Known'
  BY <1>14, OthersStep
<1>15. ASSUME NEW i \in Ids, Reopen(i) PROVE Known'
  BY <1>15, OthersStep
<1>16. ASSUME NEW i \in Ids, Damage(i) PROVE Known'
  BY <1>16 DEF Damage
<1>17. ASSUME NEW i \in Ids, Repair(i) PROVE Known'
  BY <1>17 DEF Repair
<1>18. ASSUME NEW p \in Principals, NEW v \in {"absent", "enabled", "disabled"}, Edit(p, v)
       PROVE  Known'
  BY <1>18 DEF Edit
<1>19. ASSUME UNCHANGED vars PROVE Known'
  BY <1>19 DEF vars
<1>20. QED
  BY <1>1, <1>2, <1>3, <1>4, <1>5, <1>6, <1>7, <1>8, <1>9, <1>10, <1>11,
     <1>12, <1>13, <1>14, <1>15, <1>16, <1>17, <1>18, <1>19
  DEF Next, CreatorStep

(* Only an edit changes the registry under the reconciler.                 *)
LEMMA ComparedStep == Types /\ Compared /\ [Next]_vars => Compared'
<1> SUFFICES ASSUME Types, Compared, [Next]_vars PROVE Compared'
  OBVIOUS
<1> USE DEF Types, CreatorTyped, Compared, Rests, MovesTo
<1>1. ASSUME NEW q \in Requests, Receive(q) PROVE Compared'
  BY <1>1 DEF Receive, Idle
<1>2. ASSUME Load PROVE Compared'
  BY <1>2, LoadMoves DEF Load
<1>3. ASSUME ReconcilePrincipals PROVE Compared'
  BY <1>3, ReconcilePrincipalsMoves DEF ReconcilePrincipals
<1>4. ASSUME Reconcile PROVE Compared'
  BY <1>4, ReconcileMoves DEF Reconcile
<1>5. ASSUME Check PROVE Compared'
  <2>1. registry # creator.loaded => creator' = Idle
    BY <1>5 DEF Check, Refuse
  <2>2. UNCHANGED registry
    BY <1>5 DEF Check
  <2>3. QED
    BY <1>5, <2>1, <2>2, ToIdle, CheckMoves
<1>6. ASSUME Write PROVE Compared'
  BY <1>6, WriteMoves DEF Write
<1>7. ASSUME Reload PROVE Compared'
  BY <1>7, ReloadMoves DEF Reload
<1>8. ASSUME CheckExisting PROVE Compared'
  BY <1>8, CheckExistingMoves DEF CheckExisting
<1>9. ASSUME FindActive PROVE Compared'
  BY <1>9, FindActiveMoves DEF FindActive
<1>10. ASSUME Stage PROVE Compared'
  BY <1>10, StageMoves DEF Stage
<1>11. ASSUME Publish PROVE Compared'
  BY <1>11, PublishMoves DEF Publish
<1>12. ASSUME Assign PROVE Compared'
  BY <1>12, AssignMoves DEF Assign
<1>13. ASSUME Crash PROVE Compared'
  BY <1>13, ToIdle DEF Crash
<1>14. ASSUME NEW i \in Ids, Note(i) \/ End(i) PROVE Compared'
  BY <1>14 DEF Note, End
<1>15. ASSUME NEW i \in Ids, Reopen(i) PROVE Compared'
  BY <1>15 DEF Reopen
<1>16. ASSUME NEW i \in Ids, Damage(i) PROVE Compared'
  BY <1>16 DEF Damage
<1>17. ASSUME NEW i \in Ids, Repair(i) PROVE Compared'
  BY <1>17 DEF Repair
<1>18. ASSUME NEW p \in Principals, NEW v \in {"absent", "enabled", "disabled"}, Edit(p, v)
       PROVE  Compared'
  BY <1>18 DEF Edit
<1>19. ASSUME UNCHANGED vars PROVE Compared'
  BY <1>19 DEF vars
<1>20. QED
  BY <1>1, <1>2, <1>3, <1>4, <1>5, <1>6, <1>7, <1>8, <1>9, <1>10, <1>11,
     <1>12, <1>13, <1>14, <1>15, <1>16, <1>17, <1>18, <1>19
  DEF Next, CreatorStep

(* The empty sessions directory satisfies the invariant.                   *)
LEMMA InitInd == Init => IndInv
<1> SUFFICES ASSUME Init PROVE IndInv
  OBVIOUS
<1>1. Idle \in Creators /\ Idle.step = "idle"
  BY DEF Idle, Creators, Steps, Registries, NoRegistry
<1>2. Absent \in Sessions /\ ~Absent.exists /\ Absent.second = "none"
  BY DEF Absent, Sessions, Registries, NoRegistry
<1>3. Types
  BY <1>1, <1>2 DEF Init, Types, CreatorTyped
<1>4. OneActive /\ Complete /\ Known /\ Compared
  BY <1>1, <1>2 DEF Init, OneActive, FirstActive, SecondActiveWasReopened, Complete,
     OwnSession, AnsweredIsComplete, TaskIsAssigned, Known, SnapshotKnowsRoster, Compared
<1>5. QED
  BY <1>3, <1>4 DEF IndInv

(* The parts of the invariant hold together in every reachable state.      *)
LEMMA Inductive == Spec => []IndInv
<1>1. IndInv /\ [Next]_vars => IndInv'
  BY TypesStep, OneActiveStep, CompleteStep, KnownStep, ComparedStep DEF IndInv
<1>2. QED
  BY InitInd, <1>1, PTL DEF Spec

(* The sessions, the registry, the creator, the history and the bounded    *)
(* counters have their types.                                              *)
THEOREM TypeCorrect == Spec => []TypeOK
<1> DEFINE Counters == requests \in Nat /\ faults \in Nat /\ edits \in Nat
           Flag == raced \in BOOLEAN
<1>1. Init => Counters /\ Flag
  <2>1. Init => Counters
    BY DEF Init
  <2>2. Init => Flag
    BY Zenon DEF Init
  <2>3. QED
    BY <2>1, <2>2
<1>2. Counters /\ [Next]_vars => Counters'
  <2>1. [Next]_vars => requests' = requests \/ requests' = requests + 1
    BY Zenon DEF Next, CreatorStep, vars, Receive, Load, ReconcilePrincipals, Reconcile, Check, Write,
       Reload, CheckExisting, FindActive, Stage, Publish, Assign, Crash, Note, End, Reopen, Damage,
       Repair, Edit, others, Goto, Refuse, Succeed
  <2>2. [Next]_vars => faults' = faults \/ faults' = faults + 1
    BY Zenon DEF Next, CreatorStep, vars, Receive, Load, ReconcilePrincipals, Reconcile, Check, Write,
       Reload, CheckExisting, FindActive, Stage, Publish, Assign, Crash, Note, End, Reopen, Damage,
       Repair, Edit, others, Goto, Refuse, Succeed
  <2>3. [Next]_vars => edits' = edits \/ edits' = edits + 1
    BY Zenon DEF Next, CreatorStep, vars, Receive, Load, ReconcilePrincipals, Reconcile, Check, Write,
       Reload, CheckExisting, FindActive, Stage, Publish, Assign, Crash, Note, End, Reopen, Damage,
       Repair, Edit, others, Goto, Refuse, Succeed
  <2> HIDE DEF others
  <2>4. QED
    BY <2>1, <2>2, <2>3
<1>3. Flag /\ [Next]_vars => Flag'
  BY Zenon DEF Next, CreatorStep, vars, Receive, Load, ReconcilePrincipals, Reconcile, Check, Write,
     Reload, CheckExisting, FindActive, Stage, Publish, Assign, Crash, Note, End, Reopen, Damage,
     Repair, Edit, others, Goto, Refuse, Succeed
<1>4. IndInv /\ Counters /\ Flag => TypeOK
  BY DEF IndInv, Types, CreatorTyped, Creators, Sessions, TypeOK
<1>5. QED
  <2> HIDE DEF Counters, Flag
  <2> QED
    BY <1>1, <1>2, <1>3, <1>4, Inductive, PTL DEF Spec

(* delegate.new and council.new never create a session beside one that is  *)
(* active, whatever crashes and damaged logs come between: two active      *)
(* sessions need an append that reopens a terminal one.                    *)
THEOREM OnlyReopeningMakesTwo == Spec => []SecondActiveWasReopened
<1>1. IndInv => SecondActiveWasReopened
  BY DEF IndInv, OneActive
<1>2. QED
  BY Inductive, <1>1, PTL

(* A creation request is answered with success only where its session is   *)
(* complete, and stays so.                                                 *)
THEOREM SuccessMeansComplete == Spec => []AnsweredIsComplete
<1>1. IndInv => AnsweredIsComplete
  BY DEF IndInv, Complete
<1>2. QED
  BY Inductive, <1>1, PTL

(* Every snapshot in session.yaml knows the participants of its session.   *)
THEOREM SnapshotsKnowRosters == Spec => []SnapshotKnowsRoster
<1>1. IndInv => SnapshotKnowsRoster
  BY DEF IndInv, Known
<1>2. QED
  BY Inductive, <1>1, PTL

(* The reconciler loses no edit but one made between its comparison,       *)
(* ensureRegistryUnchanged, and its write, writeRegistryAtomic.            *)
THEOREM EditsAreKept == Spec => EditsSurvive
<1>1. IndInv /\ [Next]_vars =>
        [creator.step = "write" /\ creator'.step = "reload" /\ ~raced
         => \A p \in Principals : registry[p] # "absent" => registry'[p] = registry[p]]_vars
  <2> SUFFICES ASSUME IndInv, Next, creator.step = "write", creator'.step = "reload", ~raced,
                      NEW p \in Principals, registry[p] # "absent"
               PROVE  registry'[p] = registry[p]
    OBVIOUS
  <2>1. registry = creator.loaded
    BY DEF IndInv, Compared
  <2>2. CASE Write
    BY <2>1, <2>2 DEF Write, missingCouncilPrincipals
  <2>3. CASE \E i \in Ids : Note(i) \/ End(i) \/ Reopen(i) \/ Damage(i) \/ Repair(i)
    BY <2>3 DEF Note, End, Reopen, Damage, Repair
  <2>4. CASE \E r \in Principals, v \in {"absent", "enabled", "disabled"} : Edit(r, v)
    BY <2>4 DEF Edit
  <2>5. CASE Crash
    BY <2>5, ToIdle DEF Crash, Rests
  <2>6. QED
    BY <2>2, <2>3, <2>4, <2>5 DEF Next, CreatorStep, Receive, Load, ReconcilePrincipals,
       Reconcile, Check, Reload, CheckExisting, FindActive, Stage, Publish, Assign
<1>2. QED
  BY Inductive, <1>1, PTL DEF Spec, EditsSurvive
==============================================================================
