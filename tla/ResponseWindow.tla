--------------------------- MODULE ResponseWindow ---------------------------
(***************************************************************************)
(* The response windows of one council against the clock.  The moderator   *)
(* polls a turn, which opens its window, and members answer, all through   *)
(* handlers that note the time when the request arrives, read the log      *)
(* later, and append later still, with no lock in between.  The daemon's   *)
(* sweeper records a drop for every member that is missing when the window *)
(* is over: it reads the log to find the expired window, again to list the *)
(* missing members, and once more for each drop before it appends it.  A   *)
(* request has a command id of its own; a retry finds the recorded event   *)
(* and changes nothing.                                                    *)
(***************************************************************************)
EXTENDS Naturals

CONSTANTS Members,
          Moderator,
          Handlers,
          Window,      \* length of a window, in ticks
          MaxTurn,     \* bound: turns
          MaxPolls,    \* bound: polls of one turn
          MaxRequests, \* bound: requests
          MaxTime,     \* bound: ticks
          MaxCrashes   \* bound: daemon restarts

ASSUME WindowConstants ==
    /\ Window \in Nat /\ MaxTurn \in Nat /\ MaxPolls \in Nat
    /\ MaxRequests \in Nat /\ MaxTime \in Nat /\ MaxCrashes \in Nat

VARIABLES
    now,
    phase,     \* discussion or another one, perhaps for good
    turn,      \* current turn: the highest one that an event names
    window,    \* windows opened so far for each turn
    deadline,  \* deadline of the latest window of each turn
    raised, dropped, auto,   \* <<member, turn>> of the responses, by kind
    request,   \* handler -> the request it works on
    sweep,     \* where the sweeper is, and from which window it set out
    onTime,    \* responses recorded before their window was over (history)
    received,  \* requests received
    crashes

log == <<phase, turn, window, deadline, raised, dropped, auto>>
vars == <<now, log, request, sweep, onTime, received, crashes>>

Turns == 1..MaxTurn
Slots == Members \X Turns
Inputs == [kind : {"raise", "drop"}, from : Members, turn : Turns]
          \cup [kind : {"poll"}, from : {Moderator}, turn : Turns]
Steps == {"none", "received", "checked"}
None == [step |-> "none", kind |-> "poll", from |-> Moderator, turn |-> 0, at |-> 0]
Rest == [step |-> "rest", turn |-> 0, window |-> 0, missing |-> {}, who |-> Moderator]

-----------------------------------------------------------------------------
(* responseWindowAccountingFromIndex                                       *)
Missing(t) == {m \in Members : <<m, t>> \notin raised \cup dropped \cup auto}

(* validateResponseWindowAccepts for a response received at time at; a     *)
(* turn that was never polled has no window to be late for.                *)
Accepts(t, at) == window[t] = 0 \/ (at <= deadline[t] /\ Missing(t) # {})

(* validateCouncilRaiseOrDropUnique: the responses the member sent itself. *)
Conflict(m, t, kind) ==
    \/ <<m, t>> \in dropped
    \/ kind = "drop" /\ <<m, t>> \in raised

(* councilTransition: a poll may name any turn, and so may a hand raise; a *)
(* drop names the event of a poll of its turn.                             *)
Allowed(r) ==
    /\ phase = "discussion"
    /\ r.kind # "poll" => Accepts(r.turn, r.at) /\ ~Conflict(r.from, r.turn, r.kind)
    /\ r.kind = "drop" => window[r.turn] > 0

Later(t) == IF t > turn THEN t ELSE turn

-----------------------------------------------------------------------------
Init ==
    /\ now = 0 /\ phase = "discussion" /\ turn = 0
    /\ window = [t \in Turns |-> 0] /\ deadline = [t \in Turns |-> 0]
    /\ raised = {} /\ dropped = {} /\ auto = {}
    /\ request = [h \in Handlers |-> None]
    /\ sweep = Rest /\ onTime = {} /\ received = 0 /\ crashes = 0

Tick ==
    /\ now < MaxTime
    /\ now' = now + 1
    /\ UNCHANGED <<log, request, sweep, onTime, received, crashes>>

(* The handler of council.poll, council.hand-raise or council.drop takes   *)
(* the time.                                                               *)
Receive(h, r) ==
    /\ request[h].step = "none" /\ received < MaxRequests
    /\ r.kind = "poll" => now + Window < MaxTime /\ window[r.turn] < MaxPolls
    /\ request' = [request EXCEPT ![h] = [step |-> "received", kind |-> r.kind,
           from |-> r.from, turn |-> r.turn, at |-> now]]
    /\ received' = received + 1
    /\ UNCHANGED <<now, log, sweep, onTime, crashes>>

(* ... later reads the log and refuses the request or goes on with it      *)
Check(h) ==
    /\ request[h].step = "received"
    /\ request' = [request EXCEPT ![h] =
           IF Allowed(request[h]) THEN [request[h] EXCEPT !.step = "checked"] ELSE None]
    /\ UNCHANGED <<now, log, sweep, onTime, received, crashes>>

(* ... and appends the event, whatever others have appended since.  Every  *)
(* event of this kind carries the phase discussion.                        *)
Write(h) ==
    LET r == request[h]
        slot == {<<r.from, r.turn>>}
    IN  /\ r.step = "checked"
        /\ phase' = "discussion" /\ turn' = Later(r.turn)
        /\ IF r.kind = "poll"
           THEN /\ window' = [window EXCEPT ![r.turn] = @ + 1]
                /\ deadline' = [deadline EXCEPT ![r.turn] = r.at + Window]
                /\ UNCHANGED <<raised, dropped, onTime>>
           ELSE /\ raised' = IF r.kind = "raise" THEN raised \cup slot ELSE raised
                /\ dropped' = IF r.kind = "drop" THEN dropped \cup slot ELSE dropped
                /\ onTime' = IF window[r.turn] = 0 \/ now <= deadline[r.turn]
                             THEN onTime \cup slot ELSE onTime
                /\ UNCHANGED <<window, deadline>>
        /\ request' = [request EXCEPT ![h] = None]
        /\ UNCHANGED <<now, auto, sweep, received, crashes>>

-----------------------------------------------------------------------------
(* Mutant of SweepStatus: the deadline itself counts as late.              *)
SweepEarly ==
    /\ sweep = Rest /\ turn > 0 /\ window[turn] > 0
    /\ now >= deadline[turn] /\ Missing(turn) # {}
    /\ sweep' = [Rest EXCEPT !.step = "list", !.turn = turn, !.window = window[turn]]
    /\ UNCHANGED <<now, log, request, onTime, received, crashes>>

(* Mutant of SweepStatus: a turn with an automatic drop counts as swept.   *)
SweepOnce ==
    /\ sweep = Rest /\ turn > 0 /\ window[turn] > 0
    /\ now > deadline[turn] /\ Missing(turn) # {}
    /\ \A m \in Members : <<m, turn>> \notin auto
    /\ sweep' = [Rest EXCEPT !.step = "list", !.turn = turn, !.window = window[turn]]
    /\ UNCHANGED <<now, log, request, onTime, received, crashes>>

(* sweepCouncilResponseWindowTimeouts: only the current turn is looked at. *)
SweepStatus ==
    /\ sweep = Rest /\ turn > 0 /\ window[turn] > 0
    /\ now > deadline[turn] /\ Missing(turn) # {}
    /\ sweep' = [Rest EXCEPT !.step = "list", !.turn = turn, !.window = window[turn]]
    /\ UNCHANGED <<now, log, request, onTime, received, crashes>>

(* RecordCouncilResponseWindowTimeout: the missing members are listed once *)
SweepList ==
    /\ sweep.step = "list"
    /\ sweep' = IF now < deadline[sweep.turn] \/ Missing(sweep.turn) = {}
                THEN Rest
                ELSE [sweep EXCEPT !.step = "drop", !.missing = Missing(sweep.turn)]
    /\ UNCHANGED <<now, log, request, onTime, received, crashes>>

(* ... and dropped one by one: the log is read for each, and the first     *)
(* refusal ends the sweep                                                  *)
SweepCheck(m) ==
    /\ sweep.step = "drop" /\ m \in sweep.missing
    /\ sweep' = IF phase = "discussion" /\ ~Conflict(m, sweep.turn, "drop")
                THEN [sweep EXCEPT !.step = "write", !.who = m]
                ELSE Rest
    /\ UNCHANGED <<now, log, request, onTime, received, crashes>>

(* ... and appended, whatever others have appended since.                  *)
SweepWrite ==
    LET left == sweep.missing \ {sweep.who}
    IN  /\ sweep.step = "write"
        /\ auto' = auto \cup {<<sweep.who, sweep.turn>>}
        /\ phase' = "discussion"
        /\ sweep' = IF left = {} THEN Rest ELSE [sweep EXCEPT !.step = "drop", !.missing = left]
        /\ UNCHANGED <<now, turn, window, deadline, raised, dropped, request, onTime, received, crashes>>

(* block, resume, and the commands that end the discussion; a council that *)
(* stays in another phase for ever covers the terminal ones                *)
ChangePhase ==
    /\ phase' = IF phase = "discussion" THEN "other" ELSE "discussion"
    /\ UNCHANGED <<now, turn, window, deadline, raised, dropped, auto, request, sweep, onTime,
                   received, crashes>>

Crash ==
    /\ crashes < MaxCrashes
    /\ crashes' = crashes + 1
    /\ request' = [h \in Handlers |-> None]
    /\ sweep' = Rest
    /\ UNCHANGED <<now, log, onTime, received>>

Sweep == SweepStatus \/ SweepList \/ (\E m \in Members : SweepCheck(m)) \/ SweepWrite

Next ==
    \/ Tick \/ Sweep \/ ChangePhase \/ Crash
    \/ \E h \in Handlers :
          \/ \E r \in Inputs : Receive(h, r)
          \/ Check(h)
          \/ Write(h)

Spec == Init /\ [][Next]_vars

(* Time passes, the sweeper's ticker fires, handlers come to their end.    *)
Fairness ==
    /\ WF_vars(Tick) /\ WF_vars(Sweep)
    /\ \A h \in Handlers : WF_vars(Check(h)) /\ WF_vars(Write(h))
FairSpec == Spec /\ Fairness

-----------------------------------------------------------------------------
TypeOK ==
    /\ now \in Nat /\ turn \in 0..MaxTurn /\ received \in Nat /\ crashes \in Nat
    /\ phase \in {"discussion", "other"}
    /\ window \in [Turns -> Nat] /\ deadline \in [Turns -> Nat]
    /\ raised \subseteq Slots /\ dropped \subseteq Slots /\ auto \subseteq Slots
    /\ onTime \subseteq raised \cup dropped
    /\ request \in [Handlers -> [step : Steps, kind : {"poll", "raise", "drop"},
           from : Members \cup {Moderator}, turn : 0..MaxTurn, at : Nat]]
    /\ sweep \in [step : {"rest", "list", "drop", "write"}, turn : 0..MaxTurn,
                  window : Nat, missing : SUBSET Members, who : Members \cup {Moderator}]

(* A member whose answer was recorded before the window was over is not    *)
(* dropped for being silent, although the sweeper appends after reads that *)
(* may be older than the answer, and the current window may be another one *)
(* than the expired one it set out from.  Only a poll of the same turn     *)
(* meanwhile can bring that about: the sweeper then drops a member that    *)
(* answers in the new window.                                              *)
RespondersAreNotDropped ==
    [][\A m \in Members, t \in Turns :
          <<m, t>> \in (auto' \ auto) \cap onTime => window[t] # sweep.window]_vars

(* The window of the turn under discussion comes to an end: every member   *)
(* has answered or was dropped, unless the council moved on.  Restarts and *)
(* answers that arrive during a sweep end that sweep, not the sweeping.    *)
Settled(t) == Missing(t) = {}
CurrentWindowSettles ==
    \A t \in Turns :
        (phase = "discussion" /\ turn = t /\ window[t] > 0)
            ~> (Settled(t) \/ turn # t \/ phase # "discussion")
=============================================================================
