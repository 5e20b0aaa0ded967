# A verification project for the RouteCodex hooks daemon

TLA+ modules, TLC configurations and TLAPS proofs kept beside the code of
`codex-hooks`. Everything here is translated from `src/src/*.js`; documents and
tests are quoted only where the code disagrees with them.

## 1. The system and its parts

`hooksd` is one Node.js process. Codex hooks, timers and reviews ask it to get a
message into a *target session*; it decides from the session's state whether to
send, to defer or to refuse, keeps a durable record of every intent, and hands
the message to a *bridge* process, which talks to the native app server.

| Part | Source | State | Operations | Interacts with |
|---|---|---|---|---|
| daemon send path | `daemon.js` | outbox records; `inflightIntents`, `inflightSends` | dispatch, flush, send, resume, recover | bridge (await), timer, hooks, reviews |
| delivery reconciler | `daemon.js`, `daemon-entry.js` | the same records | interval run, HTTP reconcile | bridge (await) |
| hook intake | `daemon.js`, `hook-entry.js` | events, `inflightEvents`, stop suppression | handleHook, processHook | send path, goal review |
| timer operator | `timer.js` | the map of schedules, read whole and written whole | tick | send path (await), control operations |
| control plane: schedules | `control.js` | schedules, session bindings | upsert, update, pause, resume, stop, remove, wait | timer |
| control plane: goals | `control.js`, `daemon-entry.js` | goals and periodic records, their schedules, operator switches | register, activate, pause, stop, remove, reconcile at the start | timer, goal review |
| control plane: subagents | `control.js` | the registry, read whole and written whole | create, register, stop | bridge (await), timer, goal review |
| goal review | `goal-review.js` | reviews, goals | onStop, runReview | control plane, bridge, send path |
| bridge | `codexapp-entry.js` | messages with their evidence (memory), targets (file) | send, steer, status, create, interrupt | app server over a WebSocket |
| bridge port | `codexapp-port.js` | none | one short connection per call, with a timeout | bridge |
| native connection | `codexapp-entry.js` | pending calls, handshake | connect, call, close | app server |
| HTTP server, daemon entry | `server.js`, `daemon-entry.js` | the running flags of two intervals | routes, intervals, shutdown | all of hooksd |
| persistence | `persistence.js` | the state file | whole-file replacement by rename | all of hooksd |
| supervisor, plugin runtime | `supervisor.js`, `supervisor-entry.js`, `orchestrator.js` | the runtime state, two children | start, stop, degrade, crash | hooksd, bridge |
| recovery script, installer, command line, MCP | others | files | sequential | |

What is hard here:

* **awaits**: what the daemon reads before an await may have changed after it;
  dispatches, flushes, ticks, control requests and reconcilers interleave there;
* **lost answers**: a send that timed out may be queued by the native server
  later, so neither retrying nor forgetting is right;
* **crashes** between two writes, or between a write and the call it reserves;
* **whole maps** of schedules (and subagents) written back after an await;
* **liveness**: one flush, record or schedule that never ends holds up others.

What makes each part right, in a line: the *send path* never duplicates a
message and never writes a record that lies about it; the *reconciler* climbs
the evidence ladder one rung at a time, on evidence only; the *timer* reports
what became of its occurrences, coalesces missed ones, obeys a stop and serves
every due schedule; *goals*, their schedules and the operator switches follow
one another, also after a death in the middle of an operation; the *registry*
creates one child for a purpose and forgets none; *reviews* keep their budget,
respect an interruption, have a task while they are pending and end; the *bridge*
tells the daemon nothing that turns false and leaves no message where nobody
starts it; the *connection* carries no call before its server is initialized and
ends every request; the *supervisor* leaves no child behind.

## 2. The modules

| Module | Models | Lines |
|---|---|---|
| `Protocol` | session states, send modes, delivery states, the evidence ladder | `protocol.js`, tables of `daemon.js` |
| `Delivery` | the send path | `daemon.js` 209-380, 457-588 |
| `Outbox` | what the send path promises (abstract) | |
| `Transport` | what daemon and bridge agree on about a send (abstract) | `codexapp-port.js` 28-38, 326-374 |
| `Reconcile` | the reconciler | `daemon.js` 382-455, `codexapp-port.js` 246-289 |
| `Timer` | the tick and the schedule operations | `timer.js` 65-329, `control.js` 139-291 |
| `LongHorizon` | goals, periodic records, switches, the start of the daemon | `control.js` 418-682 |
| `Subagents` | the registry of children | `control.js` 293-416, `timer.js` 206-263 |
| `GoalReview` | Stop and Interrupt hooks and the reviews they start; extends `Subagents` | `goal-review.js`, hook intake of `daemon.js` |
| `Bridge` | messages and evidence of the bridge | `codexapp-entry.js` 183-287, 513-657 |
| `NativeApp` | the connection to the app server, children and their results | `codexapp-entry.js` 463-482, 534-589, 659-831 |
| `Supervisor` | the supervisor program and its two children | `supervisor.js`, `supervisor-entry.js` |
| `MCDelivery`, `MCTimer`, `MCLongHorizon`, `MCGoalReview`, `MCBridge`, `MCNativeApp` | small instances for TLC | |
| `DeliveryProofs`, `ReconcileProofs`, `TimerProofs`, `LongHorizonProofs`, `BridgeProofs`, `NativeAppProofs`, `SupervisorProofs` | theorems about the module each is named after | |
| `GoalReviewProofs` | theorems about `Subagents` and about `GoalReview`, which extends it | |

How they meet: `Delivery` takes the bridge as an external `native` that answers,
refuses or is never heard; `Bridge` is the program behind those answers. What they
agree on is `Transport`: `Bridge` is shown to provide it, and `Delivery`, with what
it assumes of `native`, to assume no more than it. `Bridge` in turn takes each
native call as one that ends in an answer or an error, which `NativeApp` shows of
its connection (`RequestEnds`), but for one that waits for the upgrade. `Timer`
takes the outcomes of a send from `Delivery`; `LongHorizon` takes of the tick that
it writes whole maps back. `GoalReview` is composed with `Subagents` in earnest:
its reviewers are creations of the registry.

**One action is what runs between two awaits.** JavaScript runs to the next
await without interruption, so a handler's guard, its writes and the call it
starts are one action, and a *phase* variable (`dispatching`, `flushPc`,
`asking`, `tick.at`) names what a task awaits. Where a handler writes the store
twice before its await, a crash may fall between the writes; actions of their
own (`CrashReserving`, `CrashSettling`, `CrashRecovering`, the choice in
`CrashAndRestart`) leave the first write behind.

### Delivery

`store` is the outbox record (state, decision, attempt); `dispatching` is
`inflightIntents`; a flush in phase `send` with its intent is `inflightSends`.
The attempt identities `<intent>` and `<intent>:resume:n` are the numbers 1 and
n + 1, and 0 stands for evidence without one. `native` is external: an attempt
that crossed is on the `wire`, then `queued` or `gone`, also after the daemon
stopped waiting; the daemon sees it only through the answers `Possible` allows:
an acceptance implies that the message is queued, a refusal or a busy answer
that it is not and will not be, and a timeout says nothing. A conforming bridge
is assumed: an acceptance names the attempt it was asked for, and a receipt that
says delivered comes with a valid target receipt. The transitions log is left
out, since nothing reads it. Intents with equal ids and different content
(`assertSameIntent`) are left out too.

`FlushReply` resumes the flushes that joined the send in the same action as the
one that sent: they wait for the same promise and do nothing but record the
result.

### Transport

For each send, what became of its message (`unsent`, `crossing`, `taken`, `lost`)
and what the daemon was told (`nothing`, `accepted`, `refused`, `uncertain`). A
refusal loses the message, an acceptance follows its taking, anything may be given
up on, and what was told stays. Its sends are the requests of `Bridge` and the
attempts of `Delivery`, whose records say what was told: of the attempt on record by
their state, of an earlier one that it was refused, since only then is there another.
`Transport` is about one request at a time; that the bridge refuses an id it knows,
so that a repeated one does not cross again, is `AnswerIsTrue`, and `FreshAttempt`
keeps the daemon from relying on it.

### Reconcile

A record enters when its send has ended. `older` keeps the order of
`evidence.at`, which every write renews. A task (the interval or an HTTP
request) remembers the state it read before its await (`asking`), and
`Answered` looks at the record again, as `#recordDeliveryEvidence` does.
`unreadable` are the records of which the port has nothing but an error that is
not among the skip codes: a timeout, a scope that is not registered, an attempt
that does not match, a thread that cannot be read. Any record may become so at any
time, and stay so for ever.

### Timer

The `tick` record holds what the code keeps in local variables across its awaits:
the map it read, the schedule and occurrence it serves, and the current occurrence
that schedule had. `Serves` is the synchronous run to the next await: it claims the
next due schedule and *writes the whole map the tick read*. `FinishDb` is
`finishOccurrence`, with its second look at the stored map for stopped, cancelled
and disabled schedules. The states `due` and `claimed` are written one after the
other with nothing in between that anybody tells apart and are one state here. The
timer operator is enabled throughout (switched off in `LongHorizon`), and the
subagent action is in `Subagents`; the sends of an occurrence and of a flush have
the outcomes `Delivery` gives them. The status read of a flush may fail at every
tick and ends the tick when it does (`ResumeThrows`). `fate` and `fired` are
history, for properties.

### LongHorizon

An operation of the control plane is one synchronous run of up to three writes
(goal, schedule, switches), so it is given as the *sequence of stores it writes*:
`Completes` leaves the last of them, `Dies` any earlier one. An exception ends
the sequence early: pausing or stopping a periodic record whose schedule cannot
be changed leaves the goal written and the rest undone. `Reconciled` is the
start of the daemon: a new generation of the schedule for every active goal
without a live one. `tampered`, `switched` and `armed` are history: what a
schedule operation, a tick under way or a death has interfered with, so that the
properties speak of goals the control plane alone has handled. Registering an id
that is on record returns it unchanged, also a stopped one.

### Subagents and GoalReview

A creation is `making` while it awaits the native server, and the answer may be an
error although the child was `born`. Users ask once, reviews once; one-shot
schedules are claimed by ticks. A `tick` keeps the map it read at its start and
writes all of it back whenever it changes a schedule in it (`Stored`), be it a
schedule of another kind (`OtherServed`); only `finishOccurrence` of a schedule
turned off meanwhile writes nothing (`Finished`). Operations on a schedule turn it
off (stop, pause, remove) or make it due again (resume, an update with its time, an
upsert) whatever became of it: a resumption refuses only what is cancelled, stopped
or missing its session, and a removed schedule may be put anew. They are one action,
`Touches`, which allows a little more than the operations themselves. A stop keeps
the registry it read (`stop[k].read`) and writes it back. `RegistryForgets` states
precisely what that costs: nothing but such a write-back loses a child or revives a
released one.

`StopHook` is `handleHook`, `processHook` and `onStop` in one synchronous run; as in
`LongHorizon` its writes are a sequence, and the daemon may die after each. `run` is
what a review awaits in memory: its reviewer, its result, a sleep, the dispatch of
feedback, which may throw and then overwrites the completed review with a failed one
(`FeedbackDispatched`). An Interrupt hook writes the suppression and then its event,
and the daemon may die between the two. A shutdown clears the timers of sleeping
reviews, which never wake (phase `stuck`). `Reports` are all combinations of the
fields the judgement looks at; `torn`, `left` and `told` are history.

### Bridge

`call[c].at` is what a send or steer awaits, one phase for each native call:
the baseline and status, the resume of a thread not loaded, the add to the
queue, the status, the turns, the queue, the start. Any of them may fail, and the
port may give up on any of them while the bridge goes on. The native thread is
external and does what the code counts on: it takes the next queued message when
a turn ends. `blind` and `overheard` name the two cases the code knowingly or
unknowingly takes at their word: a server that cannot list its turns, and a
message steered into a turn in which the agent had already spoken (any agent
message of that turn counts as its reply, `codexapp-entry.js:252`).

### NativeApp

One socket, whose state is never reset (`if (this.socket) return`): a second
caller passes `connect` while the first still shakes hands, its frame goes out
before the upgrade (`early`) and spoils it, and after a close every call waits
for its timeout. Rejection on close reaches the calls that wait for an answer,
and not the caller that waits for the upgrade. Above it, `initialize` and the
creation of a child with the notification of its result.

### Supervisor

`pc` is what `start`, `stop` or the cleanup of a failed start awaits; a child may
exit at any time. A signal that comes before the handlers are registered, or a
second one of a kind, ends the program (`exit = "signal"`).

## 3. The runs

Passing runs:

* **delivery** (`MCDelivery.cfg`, 89 thousand states). Two intents of one session:
  one waits for an idle target, the other may disturb it, may expire and is skipped
  when busy; one flush at a time; two crashes; three attempts. Checks `AtMostOnce`,
  `NotSentIsTrue`, `AnswerHonoured`, `FreshAttempt`, and that the send path
  implements `Outbox` (`ImplementsOutbox`), where what is settled stays settled, and
  `Transport` (`ImplementsTransport`), attempt by attempt. Two intents suffice
  because records only meet in the list of a flush; two crashes let a recovery be
  interrupted; three attempts let a retried intent be retried again.
* **flushers** (`MCFlushers.cfg`). One intent, its dispatch and two flushes of its
  target, two crashes, with fairness: `OneSender`, `UnresolvedEnds`, `FlushEnds`. The
  daemon as shipped flushes from its one serial tick; two flushes at once are for
  those who use `HooksDaemon` directly (`test/framework.test.js:387`).
* **reconcile** (`MCReconcile.cfg`, 154 thousand states). Two records, the interval
  and one HTTP request, records that cannot be read for a while or for ever, one
  restart of bridge or daemon.
* **timer** (`MCTimer.cfg`, 1.3 million states). An interval schedule that waits
  for its target and a one-shot that skips it, on one session, over two units of
  time, one control operation at any await, one crash and any number of failed status
  reads.
* **progress** (`MCProgress.cfg`, 70 thousand states). The same with one unit of
  time, under fairness. The exception both properties make (`NeighbourThrows`) is a
  deferred schedule with a smaller id whose status read fails in tick after tick:
  without it TLC finds them violated.
* **horizon** (`MCLongHorizon.cfg`, 1.3 million states). A goal, a periodic record
  and a schedule of a user; four operations, enough to register two records, stop
  one and disturb the other; two restarts, so that a start may die and be
  repeated and a schedule reach its third generation.
* **registry** (`MCSubagents.cfg`, 358 thousand states). A user's creation, a
  schedule whose children ticks create, two stops at once, one crash, one operation
  on the schedule at any await: the least in which a stop writes back over both a
  creation and another stop, and in which a schedule comes to three children, which
  is all `OneChild` allows it then.
* **reviews** (`MCGoalReview.cfg`, 114 thousand states). Two goals, of which one at
  a time is found, with a budget of one review; two turns, one interrupted with
  and without its turn id; one goal operation, two crashes or shutdowns.
* **bridge** (`MCBridge.cfg`, 1.5 million states). Two requests, two status
  requests, one restart: two requests let one start the message of the other, two
  status requests race for one record's evidence. Beside the invariants it checks
  that the bridge implements `Transport` (`ImplementsTransport`): a late answer to a
  call the port gave up on, for one, changes nothing the daemon was told.
* **rpc** (`MCNativeApp.cfg`, 13 thousand states). An ephemeral child and one with
  a history, a read of each, two faults: the four requests overlap in `connect`.
* **supervisor** (`MCSupervisor.cfg`, 864 states). Two signals and both children;
  nothing is bounded.

One run shows a disagreement between code and documents, with the shortest
counterexample of TLC: **stopped** (section 4). The configurations `MCInterrupt`,
`MCUnreserved` (on `MCDelivery`), `MCBlocked` (on `Reconcile`), `MCSkip`,
`MCStuck` (on `MCTimer`) and `MCUnstopped` (on `MCLongHorizon`) do the same for
the other findings of section 4; run them as, say,
`tlc -config MCStuck.cfg MCTimer`. Each ends in a violation of its one property.

Deadlock is not checked: every run stops when its bounded counters (attempts,
crashes, time, operations) are used up and nothing is left to do, the
daemon itself is idle when nobody asks for anything, and the supervisor ends.

Bounds: `MaxAttempt` (the native server answers busy fewer times than that),
`MaxCrashes`, `MaxRestarts`, `MaxTime`, `MaxOps`, `MaxFaults` (crashes; in
`NativeApp` lost connections and refusals too), `MaxTouched` (operations on each
schedule of a subagent), and `MaxBorn` (children born for one purpose; larger than
what `OneChild` allows, so that it could be violated).

Each run checks one question of the code; the types of `Delivery` and `Bridge`,
proved for all constants (`TypeCorrect`), are not checked again in their runs.

Fairness. An await on the bridge ends, because `UnixControlClient.call` settles
within its timeout: the actions that end an await are weakly fair, each taken
together with the failure that may end it instead (in `Timer`, `Await \/
ResumeThrows`), so no *successful* answer is assumed. `setInterval` keeps firing
(`TickStarts`, `IntervalStarts`). A daemon that died is started again (`Restart`). A
review's sleeps end, and its deadline passes: `GivesUp`, possible at each sleep, is
strongly fair, which is the deadline without a clock. In `NativeApp` a call has a
timer and a local socket connects or fails; nothing bounds the wait for the upgrade,
and no fairness is assumed of it. Nothing is assumed of the native server, of
callers or of crashes.

## 4. Findings

The listed one:

* **stopped**: a schedule stopped while the tick serves an earlier one is claimed
  from the stale map and sent (`timer.js:68`; `README.md:194`). A stop that
  arrives while the tick is sending that very schedule is not counted.

Refuted by a configuration run by hand:

* `MCInterrupt`: an `idle_only` interrupt intent for a working session is deferred
  before its operation is tested, and a flush later sends its body as an ordinary
  message (`daemon.js:253`; `test/framework.test.js:289`).
* `MCUnreserved`: neither the event nor the intent is on record while the status is
  read (`daemon.js:240`; `docs/design/hooks-framework.md:72`).
* `MCBlocked`: a record that reached `read` stays a candidate, fails with a code
  that is not skipped and, once it is the oldest, keeps the interval from every
  newer record (`daemon.js:445`; `test/framework.test.js:545`).
* `MCSkip`: after a crash a `skip` schedule is reported skipped although its
  deferred intent is still in the outbox (`timer.js:107`;
  `docs/design/rccs-framework-closeout.md:297`).
* `MCStuck`: of two deferred schedules of one session, the second stays
  `deferred_while_working` for ever once the first one's flush has sent both
  intents (`timer.js:79`; `docs/design/rccs-framework-closeout.md:296`).
* `MCUnstopped`: a periodic record is stopped while its schedule is claimed; the
  stop of the schedule throws after the record was written, and the schedule goes
  on firing (`control.js:641`; `docs/design/rccs-framework-lifecycle.md:199`).

Known limits the models keep, as exceptions that their properties name:

* a review that sleeps when the daemon shuts down stays `reviewing`
  (`goal-review.js:67`); one left by a crash is never resumed;
* a crash after a child was created leaves a child nobody knows (`timer.js:206`);
* the occurrence of a schedule creates another child when the daemon died during the
  creation, when the schedule is resumed, updated with the same time or put again
  after it was sent or failed (`control.js:219-268`), and when it is stopped while
  its child is created, since the next write of the tick's map says `send_pending`
  again (`timer.js:268-276`, `:326`): nothing compares the attempts of creations;
* a record whose evidence cannot be read, for a reason that lasts, keeps the
  interval from every newer record once it is the oldest (`daemon.js:445`);
* a deferred schedule whose status read keeps failing ends every tick before any
  schedule with a greater id is served (`timer.js:79`; `daemon.js:278`);
* a frame may go out before its connection was upgraded; it is never answered
  (`codexapp-entry.js:719`). `InitializedFirst` speaks of awaited calls on a live
  connection and does not rule it out;
* a stop of a child writes back a stale registry (`control.js:413`);
* a server that cannot list its turns may leave a message in the queue of an idle
  thread; a steered message may be called replied before it was answered;
* a request that waits for the upgrade of a connection waits for ever when the
  socket closes (`codexapp-entry.js:740`);
* a signal during the start of the supervisor, or a second one of a kind, leaves
  its children behind (`supervisor-entry.js:24`, `:44`).

## 5. What is proved

Every safety invariant, every action property and every refinement a passing run
checks is a theorem of its specification, for every value of the constants. The
assumptions are the `ASSUME`s of the modules and nothing else. All
proofs have the same shape: an inductive invariant `Inv`, checked by TLC on the
instances of the runs before it was proved; one lemma for the initial states; one
lemma for each action or family of actions; and short temporal steps that draw the
theorems from `Invariance`.

**`DeliveryProofs`**, for every set of intents, sessions and flushes, every target,
mode and policy, and every bound:

* `TypeCorrect`: `Spec => []TypeOK`, by `TypeInv`, which adds to the types that a
  record is in state deferred exactly when its decision says so and that a
  deferred record has an attempt left;
* `QueuedAtMostOnce`, `NotSentTrue`, `SendersAlone`: `Spec => []AtMostOnce`,
  `[]NotSentIsTrue`, `[]OneSender`, all from one inductive invariant `Inv`;
* `FreshIdentities` (`Spec => FreshAttempt`), `AnswersStand`
  (`Spec => []AnswerHonoured`) and `OutboxImplemented` (`Spec => ImplementsOutbox`,
  the refinement of the abstract outbox), from `PastInv`;
* `TransportAssumed` (`Spec => ImplementsTransport`), the refinement of the abstract
  transport, from `PastInv` and `RefusedGone`.

`AtMostOnce` says nothing about the daemon's own state and is far from inductive.
`Inv` ties both sides together: `LiveOnRecord` (only the attempt on record can be
queued or on its way, and none can when the record says not sent), which needs
that a send starts from a record that was not sent (`StatusUnrecorded`: a dispatch
that awaits the status has no record yet) and that whoever rewrites a record in
flight is its only sender (`OneSender`); `OneSender` in turn needs that a flush
serves one intent at a time (`OneIntent`) and that a restart finds no task of the
dead process (`DownIdle`). The lemmas `CrossLive`, `AnswerLive`, `QuietLive`
(effects on `native`) and `DispatchStep`, `FlushStep`, `ForgetStep` (effects on
tasks) carry what the actions share.

What relates a step to earlier ones needs more: `PastInv` adds that a record that
says sent has its attempt in the queue (`BelievedQueued`) and that no identity above
the one on record was ever used (`AboveUnused`). Every step of the program is then
shown to be one of seven `Moves` of records and native server (drop, postpone,
reserve, start, settle, reply, doubt); freshness, the truth of answers and the
steps of `Outbox` and of `Transport` are each read off these seven instead of the
twenty-one actions. For `Transport` a record must say enough about attempts it no
longer names: `RefusedGone` adds that the attempt a deferred or dropped record names
is out of the native server's reach, so that it still counts as refused when the
next one takes its place on record.

Daemon and bridge fit together through `Transport`: `TransportProvided` (in
`BridgeProofs`) shows that the bridge keeps it, `TransportAssumed` that what
`Delivery` lets bridge and native server do is within it, and the lemma
`AnswersForeseen` that of an attempt that crossed the daemon is ready for every
answer it allows. So nothing `Delivery` proves rests on a behaviour of the bridge
that `Bridge` does not have, as far as one send is concerned. The one thing that
remains between the two is a modelling decision: `Delivery` has an attempt on the
wire from the call on, where the bridge may still refuse it before anything crosses.

**`ReconcileProofs`**: `EvidenceTrue` (`Spec => []NothingInvented`) and
`LadderClimbed` (`Spec => OneRungUp`), from no assumption, and `TypeCorrect`. With
the types of `store` and `shown`, `NothingInvented` is inductive as it stands:
whatever a task read before its await, it writes a rung only if the record is still
one below it and the thread showed the evidence when it was read. `TypeCorrect`
(`Spec => []TypeOK`) says more than its name: the ages of the records stay a strict
total order, and what the interval works through is a sequence of distinct intents.
It needs that the queue a task builds, the records oldest first, exists at all
(`OldestFirst` chooses it): `Sortable` shows that a finite set can be sorted by any
strict order by numbering its elements with their ranks, which takes cardinalities
and no induction. The records are finitely many because every one of them was
written by a step (`Ages`), whatever the set of intents.

**`TimerProofs`**, for every number of schedules, every interval, policy, target and
clock of at least one unit (`MaxTime` is not 0, since a schedule starts at time 1):
`TypeCorrect`, `TellsTruth` (`Spec => []ScheduleTellsTruth`), `QuietStopsStick`
(`Spec => []QuietStopSticks`) and `MissedCoalesced` (`Spec => NoBacklog`). The stored
map tells the truth only if the map a tick will write back over it does, so `Inv`
states it of both (`Truth`), and adds that the two differ at most where a control
operation wrote meanwhile (`TickHolds`), that nothing is being sent but what the
tick awaits (`InFlight`), that a flush noted of the tick's occurrence what the
outbox has (`Noted`), that only a `skip` schedule has an intent skipped
(`SkipsOnlySkip`), and that a quietly stopped schedule is stopped in the tick's map
too and is not the one it serves (`QuietIsOver`). For `NoBacklog`, `Coalesced` adds
where a schedule stands in time: its next occurrence is later than its last message
or is on record already, no other occurrence of it waits, and the tick knows that
time; `NextAtLater` is the arithmetic of `finishOccurrence`.

**`LongHorizonProofs`**, for every set of goals and bound: `TypeCorrect`,
`ScheduleFollows` (`Spec => []CheckFollowsGoal`), `OperatorsFollow`
(`Spec => []SwitchesFollow`) and `StartsWatch` (`Spec => RestartWatches`).
`CheckFollowsGoal` does not tell paused from stopped goals, or which schedule on
record a resumption will find; `Inv` has `Watched`, which says in what states the
schedule on record may be for each state of the goal and that no other schedule of
it is alive, `TickHolds` (a tick's map is right about every goal no operation
has touched meanwhile) and `DownIsLeft` (a daemon that is down has a start left and
no tick). An operation is reasoned about as the sequence of its writes (`Writes`:
each touches one goal, the last leaves it `Checked`).

**`GoalReviewProofs`**, for every set of goals, turns, requests and stops and every
budget; first of the registry alone (`RegistrySpec`), then of the reviews over it:

* `ChildOnce` (`RegistrySpec => []OneChild`) and `OnlyStopsForget`
  (`RegistrySpec => RegistryForgets`). `RegistryInv` says that the next child of the
  server is new to the registry and to every copy of it a stop holds
  (`RegistriesBorn`: what a stop writes back was born before). `ChildrenCounted` counts
  the children of a request or review by how far it came, and gives each schedule its
  `Chances`: the children it may still have without anything more happening to it,
  which are the creation awaited, a claim to come from what is stored or from the map
  the tick read, and both when it was turned off during the creation. Children and
  chances together are at most one more than deaths and operations on the schedule,
  and no step adds a chance but those two. That a schedule turned off has at most two
  chances needs that a tick serves one schedule at a time (`ServesOne`);
* `TypeCorrect`, `WithinBudget` (`Spec => []BudgetKept`), `TasksMatch`
  (`[]PendingHasTask`), `ReviewerOnce` (`[]OneChild`), `InterruptedNotReviewed`
  (`Spec => InterruptHonoured`) and `ToldOnce` (`Spec => FeedbackOnce`). `Inv` adds
  that the charged reviews of a goal are finitely many and no more than its counter
  (`CountHolds`; the theorems on cardinalities), that the record of an interruption
  is still there until the Stop of its turn (`InterruptWaits`), that feedback was
  told of completed reviews (`ToldCompleted`) and that no reviewer was asked for
  before its review was claimed (`Unasked`). It needs that no turn has the id `"*"`,
  under which the code keeps an interruption without a turn
  (`GoalReviewAssumption`). A Stop is cut into the store it writes (`Written`) and
  what becomes of it: done or torn by a death (`StopDone`, `StopTorn`).

**`BridgeProofs`**, for every set of requests, status requests and messages:
`TypeCorrect`, `AnswersAreTrue` (`Spec => []AnswerIsTrue`), `NoneStranded`
(`Spec => []NotStranded`), `EvidenceIsHonest` (`Spec => []EvidenceHonest`) and
`TransportProvided` (`Spec => ImplementsTransport`). `Inv`
relates what a request awaits to what has crossed (`Wires`, `ToldTrue`, `TurnTook`),
gives a message id to one request at all before a restart and to one that is still
going on after it (`OneRequest`, `OneAwaits`), and says that what a status request
saw before its await is still shown when it answers (`StillShown`). It needs that
`"none"` is not the id of a message, since it marks a request without one
(`BridgeAssumption`). For the refinement each step is one of five things that can
happen to one request (`Crossed`, `Taken`, `Accepted`, `Refused`, `GivenUp`), or gives
up many at once (`GivenUpTogether`, for a restart).

**`NativeAppProofs`**: `NothingBeforeInitialize` (`Spec => []InitializedFirst`) and
`ResultsKept` (`Spec => []ResultReaches`). `Inv` adds that a connection counted as
initialized was greeted or has lost its socket (`Greeted`), since the answer that
counts it may come after the close.

**`SupervisorProofs`**, from no assumption: `TypeCorrect`, `ChildrenKept`
(`Spec => []NoOrphans`) and `StopOrder` (`Spec => []HooksdFirst`). `HooksdFirst` is
not inductive: `Inv` adds where the supervisor stands in a stop or in a failed
start (`StartUnasked`: no child was told to end while a start is under way;
`CodexappFirst`: hooksd begins only under a codexapp; `HooksdOver`: past the wait
for hooksd nothing of hooksd is left to tell).

### Only model-checked

* The liveness properties (`UnresolvedEnds`, `FlushEnds`, `UnresolvedDoesNotBlock`,
  `ClaimEnds`, `DueIsServed`, `ReviewEnds`, `RequestEnds`): fairness and ENABLED
  are out of the prover's reach.
* The disagreements of section 4, which are violations.

Trying to prove `NoBacklog` showed where it had to stop. Of a schedule with
`busy_policy: skip` it is false beyond the bounds of the run: such a schedule is
deferred by the gate, the user resumes it, its next claim finds the target working
and reports the occurrence skipped, and a flush of a neighbour on the same session
then sends the intent that was deferred, at the moment its next occurrence is due
and sent too. This is the behaviour `MCSkip` shows, reached without a crash, so
`NoBacklog` speaks of schedules that wait for their target, of which it is proved.

## 6. Not modelled, and the plan

Still to model, in this order:

1. `Intake`: in-flight events and the intents of hooks, composed with the timer
   that alone flushes them;
2. the wait operation and the session bindings (`control.js`, `server.js`);
3. `register_target`, `unregister_target` and `interrupt_turn` of the bridge, and
   the schedule states of a subagent occurrence;
4. the restore and rollback order of `rccs-recover.sh`, if at all.

Still to prove, if the models grow: the invariants of what is added, and the
composition of `Timer` with `Delivery` (that the outcomes `Timer` takes of a send
are those `Delivery` gives). What the prover cannot reach is listed at the end of
section 5.

Left out within modelled parts: recurring schedules that create subagents (each of
their occurrences is a purpose of its own); a failing write of the state file, which
ends the operation with an exception; the verification of receipts and capabilities
by the port; the frame codec of the connection; degrading, crashing and restarting
the supervisor, which nothing calls outside the tests.

Not planned: the plugin runtime (a small state machine around a library), the
installer, the command line, the MCP server and configuration (sequential input
and output), and the content of messages, receipts and reports.
