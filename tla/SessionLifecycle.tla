-------------------------- MODULE SessionLifecycle --------------------------
(***************************************************************************)
(* What a session promises its clients, without files, handlers or         *)
(* crashes: an append-only history of events, one event per command, each  *)
(* taken from a phase its kind is allowed in.  SessionStore is the         *)
(* detailed specification that is compared with it.                        *)
(***************************************************************************)
EXTENDS Naturals, Sequences

CONSTANTS Requests,    \* <<command id, kind>> pairs clients may send
          From,        \* From[k]: the phases in which kind k is accepted
          To,          \* To[k]: the phase its event records, or Keep
          Keep,        \* "the phase the session is already in"
          First        \* the session_created event

VARIABLES events,      \* the history, a sequence of event records
          confirmed    \* how much of it no failure can take back

vars == <<events, confirmed>>

(* Mutant of EventPhase: an event without a phase of its own gets none.    *)
EventPhaseRaw(k, p) == To[k]

(* The phase a request's event records when the session is in phase p.     *)
EventPhase(k, p) == IF To[k] = Keep THEN p ELSE To[k]

Event(r, p) == [cmd |-> r[1], kind |-> r[2], phase |-> EventPhase(r[2], p)]

CurrentPhase == events[Len(events)].phase

Init == events = <<First>> /\ confirmed = 1

Execute(r) ==
    /\ \A i \in 1..Len(events) : events[i].cmd # r[1]
    /\ CurrentPhase \in From[r[2]]
    /\ events' = Append(events, Event(r, CurrentPhase))
    /\ UNCHANGED confirmed

Confirm == confirmed' = Len(events) /\ UNCHANGED events

(* A failure may take back what was not confirmed.                         *)
Forget(n) == events' = SubSeq(events, 1, n) /\ UNCHANGED confirmed

Next ==
    \/ \E r \in Requests : Execute(r)
    \/ Confirm
    \/ \E n \in confirmed..Len(events) : Forget(n)

Spec == Init /\ [][Next]_vars
=============================================================================
