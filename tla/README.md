# A verification project for atn-control

`atn-control` is the control plane of the Agent Turn Network: a daemon
(`atn-controld`) that receives commands on a Unix socket and records every
session as an append-only event log, `channel.jsonl`, next to a small summary,
`session.yaml`.  Delegations (one moderator, one assignee, a review) and councils
(one moderator, several members, discussion turns, a draft, a vote) are state
machines whose state is *read back from the log* by every command.  The modules
here model that log, the two state machines, and what runs next to them: several
request handlers, the response-window sweeper, the runners of selected speakers,
the runtimes of members that follow the log, and the commands that rebuild a read
model from it.

Paths below are relative to the repository; `st` is `internal/storage`, `da` is
`internal/daemon`.

## Inventory

| Component | State | Operations | Hard behaviour | What makes it correct |
|---|---|---|---|---|
| Session log and metadata (`st/events.go`, `session_yaml.go`, `stream.go`) | `channel.jsonl`, `session.yaml`, `session.yaml.tmp` | `AppendEvent`, `ReadLogIndex`, `appendIdempotentEvent`, `WriteSessionYAMLAtomic` | no lock, five file steps per append, crash at any of them, short writes | what was answered is durable; the log stays readable; no cursor passes its event; a retry returns the recorded result |
| Request handling (`da/server.go`, `daemn002.go`, `delegation_handlers.go`) | one goroutine per connection, metadata loaded at the start | load, gate, deduplicate, append, reply | two requests, or a request and its retry, at the same time; metadata that is old when written | requests end; `session.yaml` shows only phases of durable events |
| Delegation (`st/delegation.go`) | phase of the last event, recorded resume phases | `delegate.*`, cancel, block, resume, delivery evidence | phases that come back from blocks and escalations, nested and stale ones, or given by a client and not checked | accepted work was submitted; nobody is stranded in `waiting_user` or `blocked`; terminal phases stay |
| Council (`st/council.go`, `council_discussion_lifecycle.go`) | turn, responses, grants, speeches, draft version, consensus round, votes | `council.*`, cancel, block, resume | votes of old rounds and drafts, revisions, resumes to earlier phases | finalization is unanimous on the last draft; a draft follows the whole discussion |
| Response windows and sweeper (`st/council.go`, `da/response_window_sweeper.go`) | deadline and responses per turn | poll, hand-raise, drop, sweep | a late answer against the timeout; handlers and sweeper append after reads that are older than the log; restart during a sweep | a window settles; an answer in time is not overruled |
| Selected-speaker dispatch (`da/council_handlers.go`, `selected_speaker.go`, `runrt.go`) | runner attempts, copied metadata, dispatch locks that `NewServer` leaves unset | preflight, prompt evidence, attempts, delivery, speech, discard, diagnostic | a runner result of an earlier state of the council; retried grants; crash while a runner runs | one speech per grant, only while the council discusses |
| Session creation and the active session (`st/session.go`, `stream.go`, `registry/reconcile.go`) | the sessions directory, the registry | `CreateSession`, `FindActiveSession`, `ReconcileCouncilMembers` | a crash between directory steps or between the two events of `delegate.new`, sessions reopened while another is created (`sessionMu` serializes the creators only), a registry edited meanwhile | a second active session was reopened, not created; an answered creation is complete |
| Runtime readiness (`st/runtime_readiness.go`, `participant_runtime_evidence.go`) | attendance, preparation and runtime evidence in the log | readiness report, attendance and preparation gates, block and resume | timeouts recorded from an old list, a report older than the record it allows, phases that come back | the discussion starts with members that said they are there and prepared |
| Stream (`st/stream.go`, `da/daemn002.go`, `memberruntime/`) | subscriber cursors, heartbeats | replay, follow, ack, status | appends during a follow, two runtimes that write one cursor file, lost cursor files and lost lines | no event is skipped; what spoils a cursor file; runs end |
| Argument graph and quality (`st/council_argument_graph.go`, `argument_graph_projection.go`) | links between speeches | validation, scores | - | links name earlier speeches |
| SQLite projection (`st/projection*.go`) | tables derived from the log | rebuild, verify | logs that grow while they are read, a rebuild that dies | the tables agree with what the daemon reads from the same events; a stale projection is not called valid |
| Reports (`st/transcript.go`, accounting, prompt evidence, limits) | none | verdict on a grant, rendering | retries, diagnoses and speeches recorded by hand in one log | an answered grant has a final verdict |
| Runner adapter (`runner/`), registry loading (`registry/`), transport, protocol, CLI | configuration and I/O | - | - | - |

Interactions: the CLI and the member runtime send commands over the socket; each
handler calls one storage function that reads the whole log, decides, and
appends.  `council.grant` additionally starts a dispatch that appends events for
as long as its runner runs; the member's dispatch lock is not shared between
dispatches, because the server has none to hand out.  The sweeper is
one goroutine with a ticker that calls the same storage functions.  All of them
meet only in the two files of the session directory.

`PROJECT.json` lists the hazards line by line, with the property that would catch
each of them, or the reason why there is none.

## Modules

| Module | Models | Used by |
|---|---|---|
| `SessionLifecycle` | abstract: a history, one event per command, each from an admissible phase, unconfirmed events may be lost | `SessionStore` (refinement) |
| `SessionStore`, `MCSessionStore` | the files of one session and concurrent handlers, step by step, with crashes and short writes | runs `store_*` |
| `SessionStoreProofs` | theorems about `SessionStore` | |
| `Delegation`, `MCDelegation` | the delegation state machine, one action per command | run `delegation` |
| `DelegationProofs` | theorems about `Delegation` | |
| `Council`, `MCCouncil` | the council state machine, window deadlines, and dispatches under way | runs `council_*` |
| `CouncilProofs` | theorems about `Council` | |
| `ResponseWindow` | the windows of a council against the clock, handlers and the sweeper | run `response_window` |
| `SpeakerDispatch` | a grant from its request to the recorded outcome | `RunnerAccounting` |
| `RunnerAccounting` | the verdict reported about a grant, a function of the state of `SpeakerDispatch` | run `speaker_dispatch` |
| `SpeakerDispatchProofs` | theorems about the two | |
| `Stream`, `MCStream` | replay, follow and acknowledgement, and the member runtimes that use them | run `stream` |
| `StreamProofs` | theorems about `Stream` | |
| `SessionCreation`, `MCSessionCreation` | `delegate.new` and `council.new`, the sessions directory and the registry | run `session_creation` |
| `SessionCreationProofs` | theorems about `SessionCreation` | |
| `Readiness`, `MCReadiness` | the attendance, preparation and runtime gates of a thread council | run `readiness` |
| `ReadinessProofs` | theorems about `Readiness`, and about `ResponseWindow` | |
| `Projection`, `MCProjection` | rebuild and verification of `network.sqlite`, and the fold from events to rows | run `projection` |
| `ProjectionProofs` | theorems about `Projection` | |

How they fit together: `SessionStore` takes one append apart.  `Delegation` and `Council`
are the state machines of one session, in which a command is one step on the log;
`session.yaml` is `SessionStore`'s alone.  `ResponseWindow`, `Readiness` and
`SpeakerDispatch` take apart the council commands that are more than one step: every read
and every append of a handler is a step of its own there.  `SessionCreation` is about
several sessions, and uses what `OnlyDeliveryReopens` and `OnlyDispatchReopens` state: how
a finished session becomes active again.  `Stream` and `Projection` are readers of the log
that see it between the steps of an append.

### SessionStore

A handler (`pc[h]`) goes through `Load` (`loadSession`), `Read` (`ReadLogIndex`,
the phase gate and the command-id lookup, in the order the handler has them:
`GateFirst` lists those that look at the phase first), `AppendRead`
(`AppendEvent` reads the log again, for the event id only), `Write`, `Sync`,
`CreateTmp` and `Rename`.  Each is a step of its own because nothing is locked.
`WriteFails` leaves part of a line (`ShortWrites` says whether writes can be short),
`SyncFails` a whole line whose request is refused (chmod, sync or close failed), and
`MetaFails` a `session.yaml.tmp` or an old `session.yaml` behind a durable event; `Crash`
may drop or cut lines that were not synced, and may leave `session.yaml.tmp`, which no
start-up code removes.  An event is a command id, a kind and a phase; what a kind does is
given by `From` and `To`.  Three sets describe how a kind looks its command id up:
`GateFirst` before or after the phase gate, `Replayed` compared in the phase it recorded,
`Stamped` never equal to its record, since artifacts are ingested anew
(`replayExistingDelegationCommand` returns at once for them).  The `MC` module
instantiates them with a slice of the commands that has one of each sort: `submit` and
`accept` (replayed), `attach` (a submit with artifacts), `block` (gate first), `cancel`
(lookup first, terminal), `ack` (no gate, keeps the phase), and a command id sent with two
kinds.

Left out: envelope validation (all events are valid), the scan of *other* sessions
for the command id, and the metadata fields that are no phase.

### Delegation

A command is one step here; the interleavings inside it are the subject of
`SessionStore`.  The log is represented by what later commands read: the phase and
type of the last event, whether a clarification was requested, and the resume
phases recorded by escalations and blocks.  Since a command may name any earlier
event, sets of phases lose nothing; `submitted` is a history variable for a
property.  A resume may name any earlier block, as in the code.  `limits.extend` has no action: it requires a
`session_budget_exceeded` event and no code appends one.  `ResumeOverrides` stands
for a client-supplied `resume_phase`, which `escalate` stores unchecked (the CLI never
sends one): any phase, or what is no phase.  `overrides` remembers those in the log, and the
properties name them as the exception they are.

### Council

As `Delegation`, for councils without a Discord thread.  `grants` is the sequence of
`speaker_selected` events with the state of each dispatch: queued, running (with its
attempt), valid, succeeded, done.  A result is validated in one step (`RunnerValidates`),
and its two events are appended in two more, whatever was recorded since
(`RunnerSucceeds`, `RunnerSpeaks`).  Dispatch events carry the phase of the grant; this is
`AppendDispatchEvent`.  `expired` abstracts the clock to "the deadline of the turn's
latest window has passed".

### ResponseWindow

Time is a counter.  A handler of poll, hand-raise or drop notes the time when the request
arrives (`Receive`), reads the log later (`Check`), and appends later still (`Write`).  The
sweeper looks at the status of the current turn (`SweepStatus`), lists the missing members
in a second read (`SweepList`), and for each of them reads once more (`SweepCheck`) and
appends (`SweepWrite`).  Nothing is locked, so anything may come between.  The discussion
may be blocked, resumed or left, the turn may be polled again, and a restart forgets
handlers and sweeper.  `onTime` is a history variable: the answers recorded before their
window was over.

### SpeakerDispatch

A handler of `council.grant` goes through the steps of the code: readiness preflight
and `RecordCouncilEvent` (`RecordGrant`), the look at the log that decides between
dispatching, answering and diagnosing a stale dispatch (`CheckGrant`), readiness,
snapshot, adapter and prompt evidence (`Prepare`), `runner_invocation_started`
(`Start`), the runner (`RunnerReturns`, `Retry`), `validateCanonicalSpeechTerminal`
(`Validate`), the Discord message (`Deliver`), `runner_invocation_succeeded` and the
speech (`Succeed`, `Speak`), or a failure, discard or diagnostic (`Fail`, `Diagnose`).
Every append has three outcomes: written, not written, written but reported as failed.
Events carry the phase of the grant, so an append puts the log back in discussion.
`raced` is a history variable: the grants that two handlers set out to dispatch before
either had appended `runner_invocation_started`.  Nothing prevents that, so
`SpeaksOnce` is stated for the others and `SpeechIsBacked` for all.

A client may also record the member's speech with `council.speak` (`CheckSpeech`,
`RecordSpeech`).  If it gives the grant as its cause (`cited`), every later look at the
log takes it for the outcome of the dispatch.

Left out: the reasons for which readiness, snapshot, adapter, prompt and payload are
refused (a choice), and the duplicate `speaker_selected` of two concurrent first
requests, which is `store_retry_race`.

### RunnerAccounting

`SelectedRunnerAccountingFromIndex` scans the log once and gives each grant a verdict;
answers, status, transcript and export show it.  `Status` is that verdict: a terminal
failure first, then what is missing, in the order of the code.  The module adds no
variable, so its properties compare what the client was told by the dispatch with what
it reads later.  A posted message counts as delivery evidence of every speech of the
grant.  Left out: the counting of visible echoes over all grants, which only sums.

### Stream

A runtime (`RunOnce`) loads its cursor file, asks for a bounded follow, handles each
frame its policy selects, acknowledges it and saves the cursor.  The daemon appends a
heartbeat for the request and an event for every acknowledgement, so the log grows under
the reader.  Replay and follow are two reads (`Replay`, `Follow`).  A line is written and
synced in two steps where that can be seen; the cursor file is truncated and written in
two and never synced.  A runtime that writes over what another one wrote since the
truncation may leave that one's tail behind its own cursor (`Mixed`), which `ParseCursor`
refuses.  `RunFails` ends a run anywhere; `PowerLoss` takes back lines that
are not synced and the content of cursor files.  `Owner` may give several runtimes to
one member.  Handled events are a history variable.  Left out: the syntax of cursors, the
limit on frames, and what a handler does.

### SessionCreation

One creator at a time, because `delegate.new` and `council.new` hold `sessionMu` from the
load of the registry to the answer; a crash ends it anywhere.  Each look at the sessions
directory and at the registry is a step: the scan for an active session
(`NoActiveSession`, which refuses when it cannot read a log), the reconciler's load,
comparison and write, the staging directory, the rename and, for a delegation, the second
event.  Meanwhile other handlers append, sessions end and reopen, a log is damaged and
repaired, and the operator edits the registry.  `second` is the type of the second event,
which a retried `delegate.new` is compared with: an event of another handler may have taken
that place.  The staging directory itself is not a session: its name is skipped by
every scan.  `raced` notes an edit that falls between the reconciler's last look and its
write.

### Readiness

Every handler reads the log, decides, and appends in a later step, so that an event
carries the phase its handler has read.  The commands without a preflight (attendance
requests and answers, the agenda, preparation answers, block, resume) take two steps,
`Decide` and `AppendEvent`.  A handler of prepare, poll or grant lists the silent members
if the deadline has passed (`Receive`), records one timeout after the other
(`CheckTimeout`, which looks at the phase again and not at the member, and
`AppendTimeout`), makes the report (`Report`), and records the command or, for a refused
grant, the diagnostic (`Check`, `AppendEvent`).  A resume may name any block on record
(`blocks`); `last` is the latest one's.  Attendance counts behind the latest request in the
report and behind any request in the guard of prepare, as in the code.  Fresh heartbeats
and acknowledgements are a choice made at every report.  All statuses that block are one
value.  The history variables `raced` and `older` note the two ways in which a preparation
loses its attendance.  Two appends of one timeout that pass `AppendEvent`'s look at the
event ids together make the log unreadable (`store_retry_race`), which ends every
behaviour here.

### Projection

The rows are a fold over the events (`applyEvent`), one operator per function of
`projection_rows.go`; columns that copy a field of an event are left out.  A reader loads
`session.yaml` and then the log of one session after the other while both are written;
`Install` and `Compare` end a rebuild and a verification.  `begun` notes what the logs held
when the reader began, and `Covers` compares a database with it.  A payload has what the
two readers of an event look at differently: the flag `batch` of an escalation, and the two
keys of an attendance, which may come before any request.  `Listed` and `Evidence` are the
daemon's own definitions, which the tables are compared with; `Reused`, `Bypassed` and
`Disputed` say where they differ.  `escalation_rate_limited`, which both readers know, is
written by no command.

## Runs

| Run | Result |
|---|---|
| `store_serial` | one handler, five requests, two crashes, one fault: refinement of `SessionLifecycle`, and when a retry may be refused |
| `store_concurrent` | two handlers, three requests, a crash and a fault: durability, append-only log, `session.yaml` behind the log, cursors that do not pass their event, every request ends |
| `delegation` | all command sequences with at most two distinct recorded resume phases of each kind, some of them given by clients |
| `council_discussion` | two members, one discussion turn and the closeouts above it, three grants: a draft follows the discussion |
| `council_conclusion` | two drafts, two rounds, three vote values, blocks, one runner with a retry: unanimous finalization, who may reopen |
| `response_window` | two members, two handlers with three requests, a turn polled up to twice, one restart: no answer in time overruled by the sweep of its window, the window settles |
| `speaker_dispatch` | one grant, two handlers, four requests or speeches by hand, one runner retry, a restart, two failed appends: one speech, an accounted outcome per answered grant, requests end |
| `stream` | two runtimes of one member, up to five events of which one is work, one failed run or power loss: nothing skipped, what spoils a cursor file, frames in order, runs end |
| `session_creation` | a delegation, a council and a council with the same id and another payload, crashes, damaged logs, registry edits: one active session, complete answers, usable snapshots |
| `readiness` | two members, two handlers, logs of up to eight events: consent, and a preparation that can be polled |
| `projection` | a council and two delegations, two batches, up to three events, readers between any two of them: costs once, tables that agree with the daemon's views, complete rebuilds, no stale projection called valid |
| `store_retry_race` | expects a violation: a request and its concurrent retry both append the event; `ReadLogIndex` then refuses the log, although `docs/spec/testing-and-tooling.md:213` promises that a retry returns the first result |

Some passing properties state exceptions exactly, because the plain sentence would be
false:

* `OnlyDeliveryReopens` and `OnlyDispatchReopens`: what leaves a terminal phase.
* `AcceptedWorkWasSubmitted` and `NobodyStranded`: resume phases a client gave by hand.
* `SecondActiveWasReopened`: how two sessions come to be active.
* `PreparationIsPollable` and `EditsSurvive`: which step in between spoils them.
* `RespondersAreNotDropped`: the turn was polled again while the sweeper was on its way.
* `SavedIsKnown`: two runtimes of one member write the cursor file at once.
* `CursorNamesEvent`: the cursor of an append may lie before its event, never behind it.
* `SpeaksOnce` (raced grants), `PassIsLostToDiagnosis` (what takes a pass back),
  `AnsweredIsAccounted` (speeches by hand).
* `BatchViewsAgree` and `AttendanceViewsAgree`: batch ids used again or named by an
  immediate escalation; attendance nobody asked for, or with two statuses.
* `RetryFirstReturnsRecorded`: handlers that look at the phase before they look the
  command id up (a retried block is refused for the phase its first execution produced, a
  retried submit with artifacts likewise), and events that record the phase they find (a
  retried acknowledgement is a conflict once the phase has moved).

`TypeOK` is checked by the runs of `SessionStore`, `Delegation` and `SpeakerDispatch`; it is
proved for every module that has one.

**Bounds.**  Two handlers suffice for every race listed: each is between one read and
one write of another handler.  Five serial requests allow every kind, a retry and a
conflict after both crashes.  Two members make unanimity, missing votes and a mixed
window possible; two drafts and two rounds make old votes possible; one turn with
`max_discussion_turns = 1` and a second one for closeouts cover the limit and the
turn after it.  `MaxDispatches` and `MaxResponses` only cut the number of
simultaneous runners and of responses per council.  In `speaker_dispatch`
four requests on two handlers give a retry next to its original, a later one and a
speech by hand, and two failed appends a failing diagnostic after a failed append.  In
`stream`, five events hold a heartbeat of each runtime, the work and its two
acknowledgements; a full log is an append that fails.  In `session_creation` the faults
and edits come between any two steps of a creation and of its retry.  Eight events in `readiness`
hold the shortest way to a discussion, or a block, a resume by an older one and what follows
it.  Three requests in `response_window` are a poll, a second one and an answer next to
either.  Three events in `projection` hold a started, successful and spoken invocation, a
batch that is used, flushed and used again, two batches of two sessions and a flush, and an
attendance that is requested, given and requested again.
`CHECK_DEADLOCK FALSE` is used where bounded clients stop sending (`store_*`, `stream`,
`session_creation`) and where time ends and the discussion may be over (`response_window`).

**Symmetry.**  Council members, the handlers of `readiness` and batch ids are
interchangeable; symmetry is used only in runs without liveness properties.

**Fairness.**  `SessionStore`: a handler that can take its next step eventually takes it
(a goroutine; no step waits for another handler).  `ResponseWindow`: time passes, the
sweeper's ticker fires and handlers finish.  `SpeakerDispatch`: handlers go on, and
runner and delivery end, since both run under the dispatch timeout.  `Stream`: a run that
was begun goes on, since the follow has a deadline; nothing obliges anyone to start one.
Clients, members, crashes and the
moderator are never assumed to act.

## Proofs

`SessionStoreProofs`, for every set of handlers, requests, kinds and every bound:

* `TypeCorrect` and `DurableLinesAreKept` need no condition.
* `AckedEventsSurvive` and `YamlNeverAhead` assume `SafeWrites` (writes are never
  short, or requests are served one at a time): otherwise one handler's fragment
  spoils another's line after that one has checked the log.  The inductive invariant
  `IndInv` adds to the two properties that a torn log stops every handler at its
  first read (`TornStops`), that a handler past its write finds its line in the log
  and past its fsync in the durable part (`WrittenThenSynced`), and that the phase it
  loaded is that of a durable event (`LoadedFromLog`); without the last,
  `YamlFollowsLog` is not inductive, since a handler may write back a terminal phase
  it read long ago.
* `SerialStoreImplements`: with one handler the store implements `SessionLifecycle`.
  `GateStillHolds` carries the gate and the lookup from the first read to the write.
* `CursorsNameEvents`, under `SafeWrites` and for any number of handlers: the offset is
  noted before the line is written, so `WrittenThenSynced` follows the line from the write
  to the answer: it stands at the offset or, if others wrote meanwhile, behind it.
* `RetriesReturnTheEvent`, with one handler: what the refinement says of single steps
  becomes an invariant of the whole log, in which every event was admitted by the phase
  before it and no command id occurs twice (`History`); the lookup then finds the one line
  of the command, and the comparison fails only in the two ways the property names.

`DelegationProofs`, for every `ResumeOverrides`: `TypeCorrect`, `AcceptedOnlySubmitted`,
`NeverStranded` and `ReopenedOnlyByDelivery`.  The phase alone is not inductive, because
phases come back: the invariant says what *recorded* phases stand for (`SubmittedPhases`,
`RecordedPhases`), each unless a client gave it.

`SpeakerDispatchProofs`, for any number of grants, handlers, retries, crashes and failed
appends: `TypeCorrect`, `AnsweredSettled` and `SpeaksAtMostOnce`.  For the last, the
invariant says that a grant that is not raced has at most one dispatch under way and
that one without a runner finds nothing started (`OneDispatch`), that every later step
has a `runner_invocation_started` event behind it (`StartedFirst`), which is what sends
a retry to the diagnosis, and what a dispatch has not done yet (`NothingYet`).

`SpeechHasBacking` is about raced grants too, where several handlers append successes and
speeches for one grant.  The bare counts are not inductive: a handler owes the log a
success from the start of its runner on, and a speech from that success on.  `Covered`
adds the number of handlers at those steps to the counts, and each step moves one handler
between two of them; the set of busy handlers is finite because each step adds at most one.

About `RunnerAccounting`, in the same module: `AnsweredAccounted`, `FailuresStay` and
`PassLostToDiagnosis`.  `SpeechIsBacked` and `AnsweredIsSettled` together turn "some outcome
is on record" into "the verdict is final".

`StreamProofs`, for any number of runtimes, members and events, any limits and any number
of failed runs and power losses: `TypeCorrect`, `NothingIsSkipped`, `SavedCursorsStayKnown`
and `FramesArriveInOrder`.  The invariant says of a run where it is: its position
names a line behind everything handled (`AtCursor`), its frames are the lines that follow,
replayed ones before live ones (`FramesFollow`, `ReplayEnds`), and the frame in hand is
handled before it is acknowledged and synced before its cursor is saved (`FrameInHand`).
`AcksHandled` and `CursorsDurable` say the same of the acknowledgements in the log and of the
cursor files, so that it does not matter which of two runtimes wrote last; a saved cursor
lies in the synced part of the log, which a power loss does not take back, and `MixedBySave`
finds the one step that leaves a file which is no cursor.

`ProjectionProofs`, for any number of sessions, members, invocations and batches and logs of
any length: `TypeCorrect`, `RebuildsAreComplete`, `InvocationsArePaidOnce`,
`AttendanceAgrees`, `BatchesAgree` and `ValidIsNotStale`.  `EventEffect` says what one event does to a
state, stage by stage; `ShowsNext` that a state which shows a prefix of every log shows one
event more of one of them.  For the costs this needs `StartsOnce` and `StartFirst` of the
logs: a second start, or a result before its start, would clear the mark that a cost is in
the sum, and the runner rows are shared by all sessions.  The reader's `Progress` says that
of the sessions it has read it shows at least the events there were when it began; what it
installs covers them, and so does a file whose content is the same.

`BatchesAgree` compares two sums over sets of batches: the projection adds up the rows that
belong to a session, the daemon what the log of the session says of each batch.  It needs a
theory of such sums, since `MapThenSumSet` takes the elements in an order nobody knows:
`FoldExists` shows that the fold over a finite set is defined (hence the assumption
`IsFiniteSet(Batches)`), `FoldAdds` that the order does not matter, and `SumsAgree` that two
sums are equal if their weights agree and are zero where only one of the sets reaches.  The
rows of the batches are shared by all sessions: `Own` says that while a session is read its
batches stand as its own events left them, `Known` that a row exists just for the batches
whose escalations were shown, and in a session that shows one.  The property excuses ids used
again in the logs, the invariant those used again in what was read so far (`ReusedIn`), which
are fewer; likewise for the batches an immediate escalation named.

The fold is a recursive function.  The library's induction theorems cannot be used here,
so `Induction` derives induction from the existence of least elements (`WFMin`), for a
predicate given as a set of numbers; `ReplayUnfolds` shows with it that the recursive
function exists.  `Greatest` and `MaxFacts` get greatest elements in the same way.

`CouncilProofs`, for every set of members, every limit, and any number of turns, grants,
runners, drafts and rounds: `TypeCorrect`, `FinalizedUnanimously`,
`DraftsFollowDiscussion`, `ConclusionsHaveDraft` and `ReopenedOnlyByDispatch`.  The order of discussion and draft needs `HandsFirst`: a grant
rests on a raised hand, and nobody who raised one is dropped from the turn, so that what
the gate of `propose` counted stays true.  The phases of the conclusion come back with a
resume, so `BlocksHaveDraft` says what a recorded block stands for.

`ReadinessProofs`, for every set of members and handlers and logs of any length:
`TypeCorrect`, `DiscussionWithConsent` and `PreparationsArePollable`.  A phase comes from a
read that may be old, or from a block, so the invariant says of everything that can lead to
a discussion that it has the consent: the evidence (`Answered`), the log and its blocks
(`Agreed`), and the handlers past their read (`Carried`).  `Counted` says that a prepare
with a report has its attendance complete unless it was overtaken, `Closed` that the way
back to `created` is closed, also through the latest block.

About `ResponseWindow`, in the same module: `RespondersStay`.  When the sweeper sets out, its
window is over (`Expired`), so an answer that is recorded after the sweeper's last read is
late in that window (`SilentInWindow`); only a poll of the same turn opens another one.

`SessionCreationProofs`, for any number of sessions, requests, principals, crashes, damaged
logs and edits: `TypeCorrect`, `OnlyReopeningMakesTwo`, `SuccessMeansComplete`,
`SnapshotsKnowRosters` and `EditsAreKept`.  The scan for an active session and the rename are several steps apart:
`FirstActive` says that in between everything active is a reopened session, which rests
on `sessionMu` (one creator) and on a scan that fails on a log it cannot read; `OwnSession`
says which session the creator stands before, `TaskIsAssigned` that a second event which
is `task_assigned` completes a delegation, and `Known` that the registry it loaded is
the one it validated.

Only model-checked: the liveness properties `RequestsEnd`, `CurrentWindowSettles` and
`RunsEnd`, which rest on fairness and which the prover does not handle.  Every safety
property of the passing runs is stated by a theorem.

## Observations

What the models show about the code and the documents next to it, besides the run that
expects a violation:

* Two commands that have passed their gates are both appended, so that a terminal event
  can be followed by an open one (`da/server.go:93`); `docs/spec/operations.md:421` speaks of
  a single worker thread.
* A late runner event returns a council that has a draft to discussion
  (`da/selected_speaker.go:64`), where `propose` is refused because there is a draft and
  `revise` because of the phase.
* The sweeper looks at the current turn only (`da/response_window_sweeper.go:66`): a
  window whose turn is over when its deadline passes is never swept
  (`docs/spec/testing-and-tooling.md:87` says its silent members are dropped).
* `NewServer` sets no `DispatchLocks`, so dispatches of one member are not serialized
  (`da/council_handlers.go:839`), which
  `docs/spec/operations.md:420` says they are.
* A finished session that delivery evidence or a late runner reopens makes a second active
  session; `docs/spec/operations.md:419` says there is exactly one.
* A retried `prepare` is refused: the phase gate of `councilTransition` comes before the
  lookup of the command id.
* A retried submit with artifacts is refused by the phase gate, although
  `docs/spec/testing-and-tooling.md:213` promises the prior result: the lookup skips commands
  with artifacts (`st/delegation.go:216`).  A retried `stream.ack` is a conflict once the
  phase of the session has moved, because the phase is part of the comparison.
* `escalate` keeps a client's `resume_phase` unchecked (`st/delegation.go:661`): with
  `submitted` the work may be accepted unsubmitted, with `blocked` or `waiting_user` the
  session may have no way out.
* A grant refused by the preflight has its command id used up by the diagnostic.
* A resume may name a block before the latest one (`st/delegation.go:354`) and so return to
  `created`, where attendance is open again.
* Every event carries the phase its handler read: an append that was overtaken puts the
  session back into that phase.
* A member that answers in a second window of a turn is dropped by a sweep that set out
  from the first one.  A raise and a drop of one member, sent at once, are both recorded.  A
  hand raise that names a later turn makes that turn the current one, and the window of the
  turn before is not swept.
* Two runtimes of one member that save their cursors at once may leave a file that `Load`
  refuses from then on (`memberruntime/runtime.go:226`).
* A crash between `session_created` and `task_assigned` leaves an active delegation that
  no retry completes; it has to be cancelled.  So does another handler's event between the
  two: the retry then finds that event in the second place.
* Attendance that moves between the report of `prepare` and its record leaves a council
  in preparation that can never be polled.
* A retry of a grant while its runner runs records a diagnosis, and the speech that
  follows no longer counts as a pass.  A speech by hand that cites the grant ends the
  dispatch for later retries, while the verdict goes on to say that something is missing.
* The projection reads `attendance_status` before `status`, the readiness report the other
  way round.  A heartbeat while the session is blocked overwrites `blocked_by_event_id`.
  An attendance before any request has a row in the projection and is no evidence.
* A batch id that is used again after its flush counts for the daemon's list and not for
  the projection's total.  An immediate escalation that names a waiting batch flushes it
  for the daemon's list (`st/delegation.go:487`) and not for the projection
  (`st/projection_rows.go:423`).

## Plan

Done: `SessionLifecycle`, `SessionStore`, `Delegation`, `Council`, `ResponseWindow`,
`SpeakerDispatch`, `RunnerAccounting`, `Stream`, `SessionCreation`, `Readiness`,
`Projection`; proofs for all of them.

Next: the sweep over several councils, one of which returns an error, as an extension of
`ResponseWindow`.

## Not modelled

* Encoding, command-line parsing, socket set-up, file permissions and the parsing of the
  registry: they keep no protocol state.
* The argument graph and the discussion quality scores: checks of links in a payload and
  sums over the log; to the modelled state it matters only that a speech may be refused.
* Transcripts, exports, prompt evidence, effective limits and the counting of visible
  echoes: text and sums derived from the log.
* The runner's subprocess: an actor that succeeds, fails or is late.
* The visible-closeout gate of thread councils, a further condition of `finalize`.
* Two rebuilds of the projection at the same time: the one that read less may be renamed
  last; a later verify reports it.
* A sweep over several councils: an error in one of them ends the sweep of those behind it.
