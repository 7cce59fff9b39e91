-------------------------- MODULE SessionCreation --------------------------
(***************************************************************************)
(* The sessions directory and the registry: delegate.new and council.new,  *)
(* one at a time under sessionMu, against handlers that end or reopen      *)
(* sessions, an operator who edits the registry, logs damaged by crashes,  *)
(* and restarts between any two steps.  council.new first adds the         *)
(* principals of its roster that the registry does not know.  A session is *)
(* built in a staging directory nobody looks at and published by a rename; *)
(* a delegation gets its second event only after that.                     *)
(***************************************************************************)
EXTENDS Naturals, FiniteSets

CONSTANTS Ids,          \* session ids
          Principals,
          Wrappers,     \* principals with one resolvable Hermes wrapper
          Requests,     \* creation requests: id, kind, body, roster
          MaxRequests, MaxFaults, MaxEdits   \* bounds

ASSUME CreationConstants ==
    /\ Wrappers \subseteq Principals
    /\ Requests \subseteq [id : Ids, kind : {"delegation", "council"}, body : Nat,
                           roster : SUBSET Principals]
    /\ MaxRequests \in Nat /\ MaxFaults \in Nat /\ MaxEdits \in Nat

VARIABLES
    sessions,   \* id -> the published session, or Absent
    registry,   \* registry.yaml: principal -> absent, enabled or disabled
    creator,    \* the handler that holds sessionMu
    answered,   \* requests answered with success (history)
    raced,      \* an edit fell between the reconciler's check and its write
    requests, faults, edits

vars == <<sessions, registry, creator, answered, raced, requests, faults, edits>>

Registries == [Principals -> {"absent", "enabled", "disabled"}]
NoRegistry == [p \in Principals |-> "absent"]
Absent == [exists |-> FALSE, kind |-> "none", body |-> 0, roster |-> {},
           second |-> "none", assigned |-> FALSE, open |-> FALSE, reopened |-> FALSE,
           readable |-> TRUE, snapshot |-> NoRegistry]
Steps == {"idle", "load", "principals", "reconcile", "check", "write", "reload",
          "existing", "find", "stage", "publish", "assign"}
NoRequest == [id |-> CHOOSE i \in Ids : TRUE, kind |-> "council", body |-> 0, roster |-> {}]
Idle == [step |-> "idle", req |-> NoRequest, loaded |-> NoRegistry]

-----------------------------------------------------------------------------
req == creator.req
Existing == {i \in Ids : sessions[i].exists}

(* Every scan of the directory reads every log, and fails on the first one *)
(* it cannot read.                                                         *)
AllReadable == \A i \in Existing : sessions[i].readable

(* commandEquivalent against Events[0] of a council and Events[1] of a     *)
(* delegation: what another handler appended between the rename and        *)
(* task_assigned is Events[1], and the request is refused from then on.    *)
SameCommand(s, q) ==
    s.kind = q.kind /\ s.body = q.body /\ (q.kind = "delegation" => s.second = "task")

(* The second event of a log to which one of this type is appended         *)
Appended(s, type) == IF s.second = "none" THEN type ELSE s.second

Active == {i \in Existing : sessions[i].open}

(* Mutant of NoActiveSession: sessions that cannot be read are skipped.    *)
NoActiveSkips == \A i \in Existing : sessions[i].readable => ~sessions[i].open

(* FindActiveSession returns neither a session nor an error.               *)
NoActiveSession == AllReadable /\ Active = {}

Init ==
    /\ sessions = [i \in Ids |-> Absent]
    /\ registry \in Registries
    /\ \A p \in Principals \ Wrappers : registry[p] # "enabled"
    /\ creator = Idle /\ answered = {} /\ raced = FALSE
    /\ requests = 0 /\ faults = 0 /\ edits = 0

others == <<answered, raced, requests, faults, edits>>
Goto(step) == creator' = [creator EXCEPT !.step = step]
Refuse == creator' = Idle
Succeed == creator' = Idle /\ answered' = answered \cup {req}

(* A creation request, the first or a retry, gets sessionMu.               *)
Receive(q) ==
    /\ creator.step = "idle" /\ requests < MaxRequests
    /\ creator' = [Idle EXCEPT !.step = "load", !.req = q]
    /\ requests' = requests + 1
    /\ UNCHANGED <<sessions, registry, answered, raced, faults, edits>>

(* registry.Load                                                           *)
Load ==
    /\ creator.step = "load"
    /\ creator' = [creator EXCEPT !.loaded = registry,
           !.step = IF req.kind = "council" THEN "principals" ELSE "existing"]
    /\ UNCHANGED <<sessions, registry, others>>

(* CouncilReconcilePrincipals: nothing to reconcile for a retry            *)
ReconcilePrincipals ==
    /\ creator.step = "principals"
    /\ CASE sessions[req.id].exists ->
                IF sessions[req.id].readable /\ SameCommand(sessions[req.id], req)
                THEN Goto("existing") ELSE Refuse
         [] ~sessions[req.id].exists /\ NoActiveSession -> Goto("reconcile")
         [] OTHER -> Refuse
    /\ UNCHANGED <<sessions, registry, others>>

missingCouncilPrincipals(reg) == {p \in req.roster : reg[p] = "absent"}

(* ReconcileCouncilMembers up to the new content: disabled principals and  *)
(* principals without a wrapper are refused.                               *)
Reconcile ==
    /\ creator.step = "reconcile"
    /\ LET missing == missingCouncilPrincipals(registry)
       IN  creator' =
               IF \/ \E p \in req.roster : registry[p] = "disabled"
                  \/ ~(missing \subseteq Wrappers)
               THEN Idle
               ELSE [creator EXCEPT !.loaded = registry,
                        !.step = IF missing = {} THEN "existing" ELSE "check"]
    /\ UNCHANGED <<sessions, registry, others>>

(* Mutant of Check: the registry is not loaded again.                      *)
CheckNothing ==
    /\ creator.step = "check"
    /\ raced' = FALSE
    /\ Goto("write")
    /\ UNCHANGED <<sessions, registry, answered, requests, faults, edits>>

(* ensureRegistryUnchanged                                                 *)
Check ==
    /\ creator.step = "check"
    /\ raced' = FALSE
    /\ IF registry = creator.loaded THEN Goto("write") ELSE Refuse
    /\ UNCHANGED <<sessions, registry, answered, requests, faults, edits>>

(* writeRegistryAtomic: what was loaded, with the missing principals       *)
Write ==
    /\ creator.step = "write"
    /\ registry' = [p \in Principals |->
           IF p \in missingCouncilPrincipals(creator.loaded) THEN "enabled"
           ELSE creator.loaded[p]]
    /\ Goto("reload")
    /\ UNCHANGED <<sessions, others>>

Reload ==
    /\ creator.step = "reload"
    /\ creator' = [creator EXCEPT !.loaded = registry, !.step = "existing"]
    /\ UNCHANGED <<sessions, registry, others>>

(* Mutant of CheckExisting: a delegation is compared by its first event.   *)
CheckExistingFirst ==
    /\ creator.step = "existing"
    /\ LET s == sessions[req.id]
       IN  CASE ~s.exists -> Goto("find") /\ UNCHANGED answered
             [] s.exists /\ s.readable /\ s.kind = req.kind /\ s.body = req.body -> Succeed
             [] OTHER -> Refuse /\ UNCHANGED answered
    /\ UNCHANGED <<sessions, registry, raced, requests, faults, edits>>

(* The lookup at the start of CreateDelegation and CreateCouncil           *)
CheckExisting ==
    /\ creator.step = "existing"
    /\ LET s == sessions[req.id]
       IN  CASE ~s.exists -> Goto("find") /\ UNCHANGED answered
             [] s.exists /\ s.readable /\ SameCommand(s, req) -> Succeed
             [] OTHER -> Refuse /\ UNCHANGED answered
    /\ UNCHANGED <<sessions, registry, raced, requests, faults, edits>>

(* validateSessionSpec: every participant is in the loaded registry,       *)
(* enabled or not.                                                         *)
ValidSpec == \A p \in req.roster : creator.loaded[p] # "absent"

(* Mutant of FindActive: the specification is not validated again.         *)
FindActiveOnly ==
    /\ creator.step = "find"
    /\ IF NoActiveSession THEN Goto("stage") ELSE Refuse
    /\ UNCHANGED <<sessions, registry, others>>

(* CreateSession up to FindActiveSession                                   *)
FindActive ==
    /\ creator.step = "find"
    /\ IF ValidSpec /\ NoActiveSession THEN Goto("stage") ELSE Refuse
    /\ UNCHANGED <<sessions, registry, others>>

(* The staging directory: snapshot, session.yaml and session_created, whose*)
(* append looks for the command id in every other session.  What fails is  *)
(* removed; what a crash leaves has a name that every scan skips.          *)
Stage ==
    /\ creator.step = "stage"
    /\ IF AllReadable THEN Goto("publish") ELSE Refuse
    /\ UNCHANGED <<sessions, registry, others>>

(* session.yaml with the registry snapshot, and session_created            *)
NewSession ==
    [exists |-> TRUE, kind |-> req.kind, body |-> req.body, roster |-> req.roster,
     second |-> "none", assigned |-> FALSE, open |-> TRUE, reopened |-> FALSE, readable |-> TRUE,
     snapshot |-> creator.loaded]

(* The rename                                                              *)
Publish ==
    /\ creator.step = "publish"
    /\ sessions' = [sessions EXCEPT ![req.id] = NewSession]
    /\ IF req.kind = "council" THEN Succeed ELSE Goto("assign") /\ UNCHANGED answered
    /\ UNCHANGED <<registry, raced, requests, faults, edits>>

WithTask(s) ==
    [s EXCEPT !.second = Appended(s, "task"), !.assigned = TRUE, !.open = TRUE]

(* task_assigned, in the published directory                               *)
Assign ==
    /\ creator.step = "assign"
    /\ IF AllReadable
       THEN /\ sessions' = [sessions EXCEPT ![req.id] = WithTask(@)]
            /\ Succeed
       ELSE Refuse /\ UNCHANGED <<sessions, answered>>
    /\ UNCHANGED <<registry, raced, requests, faults, edits>>

CreatorStep ==
    \/ Load \/ ReconcilePrincipals \/ Reconcile \/ Check \/ Write \/ Reload
    \/ CheckExisting \/ FindActive \/ Stage \/ Publish \/ Assign

WithEvent(s, open) ==
    [s EXCEPT !.second = Appended(s, "other"), !.open = open,
              !.reopened = @ \/ (open /\ ~s.open)]

(* Another handler appends an event that leaves the session open; only the *)
(* place of the second event matters here.                                 *)
Note(i) ==
    /\ i \in Active /\ AllReadable /\ sessions[i].second = "none"
    /\ sessions' = [sessions EXCEPT ![i] = WithEvent(@, TRUE)]
    /\ UNCHANGED <<registry, creator, others>>

(* Another handler appends a terminal event.                               *)
End(i) ==
    /\ i \in Active /\ AllReadable
    /\ sessions' = [sessions EXCEPT ![i] = WithEvent(@, FALSE)]
    /\ UNCHANGED <<registry, creator, others>>

(* Delivery evidence of a delegation, or a late runner of a council, is    *)
(* appended with an open phase behind a terminal one.                      *)
Reopen(i) ==
    /\ i \in Existing \ Active /\ AllReadable
    /\ sessions' = [sessions EXCEPT ![i] = WithEvent(@, TRUE)]
    /\ UNCHANGED <<registry, creator, others>>

(* A short write leaves a fragment in a log; the operator repairs it.      *)
Damage(i) ==
    /\ i \in Existing /\ sessions[i].readable /\ faults < MaxFaults
    /\ sessions' = [sessions EXCEPT ![i].readable = FALSE]
    /\ faults' = faults + 1
    /\ UNCHANGED <<registry, creator, answered, raced, requests, edits>>

Repair(i) ==
    /\ i \in Existing /\ ~sessions[i].readable
    /\ sessions' = [sessions EXCEPT ![i].readable = TRUE]
    /\ UNCHANGED <<registry, creator, others>>

(* The operator edits registry.yaml.                                       *)
Edit(p, value) ==
    /\ edits < MaxEdits /\ registry[p] # value
    /\ value = "enabled" => p \in Wrappers
    /\ registry' = [registry EXCEPT ![p] = value]
    /\ raced' = TRUE /\ edits' = edits + 1
    /\ UNCHANGED <<sessions, creator, answered, requests, faults>>

Crash ==
    /\ creator.step # "idle" /\ faults < MaxFaults
    /\ creator' = Idle /\ faults' = faults + 1
    /\ UNCHANGED <<sessions, registry, answered, raced, requests, edits>>

Next ==
    \/ \E q \in Requests : Receive(q)
    \/ CreatorStep \/ Crash
    \/ \E i \in Ids : Note(i) \/ End(i) \/ Reopen(i) \/ Damage(i) \/ Repair(i)
    \/ \E p \in Principals, v \in {"absent", "enabled", "disabled"} : Edit(p, v)

Spec == Init /\ [][Next]_vars

-----------------------------------------------------------------------------
(* Every variable has its type.                                            *)
TypeOK ==
    /\ sessions \in [Ids -> [exists : BOOLEAN, kind : {"none", "delegation", "council"},
                             body : Nat, roster : SUBSET Principals,
                             second : {"none", "task", "other"},
                             assigned : BOOLEAN, open : BOOLEAN, reopened : BOOLEAN,
                             readable : BOOLEAN, snapshot : Registries]]
    /\ registry \in Registries
    /\ creator.step \in Steps /\ creator.loaded \in Registries
    /\ creator.req \in Requests \cup {NoRequest}
    /\ answered \subseteq Requests
    /\ raced \in BOOLEAN /\ requests \in Nat /\ faults \in Nat /\ edits \in Nat

(* Creation alone never makes a second active session: of two sessions     *)
(* that are active one was ended and reopened.  A session whose log cannot *)
(* be read may be active and must not be passed over.                      *)
SecondActiveWasReopened ==
    \A i, j \in Active : i # j => sessions[i].reopened \/ sessions[j].reopened

(* A request answered with success left a complete session of its own:     *)
(* a delegation that stopped between its two events is never reported as   *)
(* created, however often the request is retried and whatever else was     *)
(* appended to its log.                                                    *)
AnsweredIsComplete ==
    \A q \in answered :
        /\ sessions[q.id].exists
        /\ sessions[q.id].kind = q.kind /\ sessions[q.id].body = q.body
        /\ q.kind = "delegation" => sessions[q.id].assigned

(* The snapshot of a session knows every participant, whatever the         *)
(* operator does to the registry while the session is created: dispatch    *)
(* reads the snapshot for as long as the session lives.                    *)
SnapshotKnowsRoster ==
    \A i \in Existing : \A p \in sessions[i].roster : sessions[i].snapshot[p] # "absent"

(* The reconciler undoes an edit of the operator only if the edit fell     *)
(* between its last look at the registry and its write.                    *)
EditsSurvive ==
    [][creator.step = "write" /\ creator'.step = "reload" /\ ~raced
       => \A p \in Principals : registry[p] # "absent" => registry'[p] = registry[p]]_vars
=============================================================================
