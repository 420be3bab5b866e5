# Formal models of the fcode server

fcode is a local server that runs coding agents (Codex, Claude, Pi and others) for chat
threads and keeps everything it knows in an event-sourced store. These modules model the
parts of `src/apps/server/src` in which several fibers, a database and a process that may
die meet, and say what those parts guarantee.

Run `tlc -config <run>.cfg <MC module>.tla` for a run of `PROJECT.json`, and
`tlapm <module>Proofs.tla` for the proofs. `PROJECT.json` maps every definition that models
code to the lines it models, and lists the findings and the hazards at their lines.

## 1. The system

    client --command--> OrchestrationEngine --events--> ProviderCommandReactor --> provider
       ^                  |  decider, receipts,                                      |
       |                  |  projections (SQLite)  <--session.set-- ProviderRuntime  |
       +---- events ------+                                         Ingestion  <-----+

| Component | State | Operations | Hard behaviours | What makes it correct |
|---|---|---|---|---|
| Orchestration engine (`orchestration/Layers/OrchestrationEngine.ts`) | event log, receipts (SQLite); command queue, read model, flags (memory) | `dispatch`, `processEnvelope`, deferred catch-up, `repairState`, boot | 45 s deadline that may strike anywhere, failing transactions, defects, crash, repair in between | a command runs at most once and is answered truthfully; model, stream and projections follow the log |
| Projection pipeline (`ProjectionPipeline.ts`, `ProjectionSnapshotQuery.ts`, event store) | projection rows, one cursor per projector | hot, deferred and metadata projection, `bootstrap` | replay over rows that are there, bounded reads, partial replays | rows show each event once; no cursor passes what it has not projected |
| Decider and projector (`decider.ts`, `projector.ts`) | none | command -> events; events -> model | validates against memory only | existence rules hold on the log |
| Provider command reactor (`ProviderCommandReactor.ts`) | queue of turns, draining flag, handled keys (memory) | start, queue, steer, promote, interrupt, stop, edit and resend | two fibers on one queue, republished events, a provider that dies, restarts | every message reaches the provider once and in order, or its failure is known |
| Provider runtime ingestion (`ProviderRuntimeIngestion.ts`) | text buffers | provider event -> commands | reads the session, sets it in a later command | the session shows what the provider does |
| Startup reconciliation (`startupTurnReconciliation.ts`) | none | closes what a dead process left running | crash in the middle of a start | no thread works for ever |
| Automation scheduler (`automation/Layers/AutomationService.ts`, `AutomationRepository.ts`) | definitions, runs, a lease (SQLite); fibers, stop checks (memory) | scheduled passes, run now, cancel, edit, recovery, reconciliation, timeouts, stop checks | two servers and a user claim one occurrence; a crash between the run's row and the schedule; a settlement that comes late | each occurrence runs once, a thread has one run at a time, what is settled stays settled |
| Keyed single-flight cache (`pullRequests/KeyedSingleFlightCache.ts`) | entries, loads in flight, generations | get, invalidate, expiry, interruption of a caller | a load that outlives its invalidation; the last waiter leaves as another joins | nothing stale is published or awaited; one load at a time; a load is cut off only where nobody waits |
| Drainable worker (`packages/shared/src/DrainableWorker.ts`) | a queue, a count and a deferred | enqueue, drain, end of the scope | items counted before they are offered; a failing item | a drain returns when all that came before it is over, and is never forgotten |
| Thread subscription (`wsRpc.ts`, `wsTransport.ts`, `routes/__root.tsx`, `store.ts`) | live buffer (server); fence, pending and queued events, view (client) | subscribe, replay, poll, reconnect | the snapshot read races the stream; a slow subscriber; a lost connection | no event between snapshot and stream is skipped; the view catches up |
| Checkpoints (`CheckpointReactor.ts`, `CheckpointStore.ts`, with `ProviderCommandReactor.ts` and `ProviderRuntimeIngestion.ts`) | git refs and the workspace; rows of `projection_turns`; tracked placeholders (memory) | capture before, at the start and at the end of a turn; live diffs; revert | three fibers write refs and rows of one turn; the reactor may be behind the provider; a revert is four writes in four places | one checkpoint with the right count for each turn the provider remembers; the diff of a turn is its own |
| Terminal manager, credentials, retention | see `PROJECT.json` | | kill escalation, one-time tokens | |
| Adapters, git, pull request queries, settings | external processes and files | | | formats and I/O; not for a model checker |

Components call the engine (`dispatch`) and listen to two streams: the engine's stored
events and the providers' runtime events. Every listener has a queue of its own, so two
listeners see the same history at different times; that is where most hazards lie.

## 2. Modules

| Module | Models |
|---|---|
| `ProjectionPipeline` | cursors, replay and rows, as operators over the log |
| `OrchestrationEngine` | the engine: EXTENDS the pipeline; one action per step between two points where the worker's fiber can be interrupted, fail or be overtaken |
| `CommandLedger` | the abstract promise: a command is settled at most once, answers agree with it |
| `OrchestrationEngineProperties`, `MCOrchestrationEngine` | what the engine should guarantee; small instances |
| `OrchestrationEngineProofs`, `CommandLedgerProofs` | types, the flag, and that model, creations, stream and summaries follow the log; receipts, answers and the refinement |
| `QueuedTurns` | one thread's turns: decider rule, reactor worker, drain fiber, ingestion, provider, crash and restart |
| `MessageOutbox` | the abstract promise: an accepted message is given once and in line, or its end is known |
| `QueuedTurnsProperties`, `MCQueuedTurns` | what becomes of messages and of the session; small instances |
| `QueuedTurnsProofs` | lemmas about sequences, the inbox and the steps of the reactor; what a message, a pair of messages and the session may rely on; the theorems; the refinement |
| `AutomationRuns` | one automation on servers that share a database: passes, dispatch, calls, recovery, reconciliation, stop checks |
| `AutomationRunsProperties`, `MCAutomationRuns` | what happens to its occurrences and runs; the automations that are considered |
| `AutomationRunsProofs` | what steps do to the table of runs; what a fiber may rely on where it is; where its steps lead and what they write; the theorems |
| `KeyedSingleFlightCache` | the cache, one action per section under its lock |
| `DrainableWorker` | the worker queue, one action per step between two yields |
| `ThreadView` | one thread from the commit of an event to the client's view of it |
| `Checkpoints` | one thread's checkpoints: provider, command reactor, ingestion, checkpoint reactor, the rows they write and the user who reverts |
| `MCServerParts` | instances of the last four, which share no state: `part` says which of them moves |
| `KeyedSingleFlightCacheProofs`, `DrainableWorkerProofs`, `ThreadViewProofs`, `CheckpointsProofs` | their inductive invariants and theorems |

### The engine

State in SQLite (`log`, `receipts`, `cursors`, `rows`, `summaryAt`) survives `Crash`; all
else is reset. `phase` says where the worker is in `processEnvelope`. `rows[i]` and
`commandReadModel[i]` count how often event `i` shows in the tables and in the in-memory
model: streaming text is appended, so an event applied twice shows twice; every other write
replaces. `Decision` fixes the events the decider makes of a command it accepts, and the
existence invariants (`requireThread`, `requireThreadAbsent`) decide whether it does.

`Interrupt` (deadline), `Defect`, and `FailBeforeCommit` lead to `Reconcile`, which reads the
log from the sequence sampled before the lock and applies and publishes what it finds. The
deadline may strike after the commit, when part of that has been done: this is what the
`late` disturbance records, and the properties that do not survive it say so, next to a
violation run that shows what happens.

Abstractions: the ten projectors form three groups (project rows, chat rows, the deferred
thread summaries); turn and approval cursors are left out because nothing resets them.
`repairState` holds the lock from `BeginRepair` to `RepairSucceeds` or `RepairFails`, and its
replay is one step. A replay stops part of the way only where it fails.

### Queued turns

`TurnStart` is the decider's rule: start, or queue while the projected session runs. Events
go through `inbox` to the reactor's worker; the worker fills `queue`, starts turns in the
steps marking, ensuring, binding, sending, and reports failures. The provider's events go to
two listeners: `runtime` to ingestion, which reads the session (`TakeRuntime`) and sets it in
another step (`SetSession`), and `terminal` to the fiber that promotes a queued message when
a turn ends. A promotion is two steps: the message leaves the queue (`BeginDrain`), then the
command is dispatched (`Promote`). That fiber reads nothing of a notice but that a turn ended, so
`terminal` is how many such notices it has still to take.

The provider is external: it ends turns, exits, and reports its end with or without the end of
its turn, as the adapters do (`Closings`). Over an active turn it closes the old one (Claude)
or refuses the new one (Pi). A turn is named by the message it carries. The session states
ready, error and interrupted are one ("settled"), as no guard tells them apart. The engine
publishes the events of a command once, or, as `OrchestrationEngine` shows, partly and then
all again (`Publish`). Not modelled here: edit and resend, rollback, approvals, changes of
model or runtime mode, several threads (no state is shared between them), the expiry of
handled keys (30 minutes). `troubles` records what went wrong and bounds it: a kind of trouble
happens once, unless it is in `Recurring`. TLC's instances have no recurring trouble; in the
theorems `Recurring` is any set of kinds.

### Automations

`def` is the row of the definition, `runs` the rows of its runs, `fiber` what each fiber of each
server has read and where it is: the scheduler's pass, the caller of a user's request, the
watcher (recovery at boot, reconciliation, timeouts) and the evaluator of stop checks. A statement
of SQL is an action, and so is a command to the engine. `CreateRun` is `createPendingRun`'s
INSERT OR IGNORE with the two unique indexes of the migrations; `Mark` is an UPDATE with a
condition on the status. `turn` and `tree` stand for what the engine and git know of a run.

Abstractions: `StartPass` takes the lease and lists what is due in one step, because nothing
that happens between the two statements matters to either. An interrupt changes no row: the
turn it asks to end moves by itself (`TurnMoves`). The reload of a definition and the write
that depends on it are one step where the write repeats the condition in SQL. Every write of the
definition moves `updated_at`, which makes an open stop check stale. There is one evaluator per
server. The limits of the listings are not reached, and the fallback of a worktree on "auto"
is left out. An automation is a `Plan`: what users cannot change here, and its bounds.

### Cache, worker, thread view

In the cache a value is the number of invalidations that came before its load. That is the one
thing about a value that can be wrong; which entry is least recently used and when one expires
are open choices.

In the worker an item is its number in the order of counting, and a deferred is the item that
made it. Counting, offering, processing, discounting and resolving are steps other fibers run
between, and an enqueuer, the loop or the scope may end between any two of them.

`ThreadView` counts the events of one thread only, and streams one message: "delta" appends to
it, "refresh" is any other event and the only kind that moves the cursor of the thread summaries
(`shouldRefreshThreadShellSummary`). The view's text is the sequence of deltas that were appended,
so that one shown twice is seen. `ReadSnapshot` waits for `LiveStarts`: both sides of
`Stream.merge` are forked in one turn and the read takes many. The buffer of pending events is
not bounded (512 in the code), and a bound allows one replay at a time. `strayed` records that an
event was taken ahead of a snapshot that was still to come, or shown twice: see section 5.

### Checkpoints

A turn is named by its number, and so is its message. What matters of a tree is whose edits it
holds: a tree is a set of turns, and `ByUser` for an edit of the user. A diff is the symmetric
difference of two trees. `refs` has the refs of counts, messages and turn starts. The commit
that HEAD names is the empty tree.

The reactor has one worker (`inbox`, `work`), and between two of its writes all others may go on:
the turn of the message whose start it backs up may begin to edit (`CaptureBackup`), the next turn
may edit before the last one is captured (`CaptureTurn`). Ingestion has another (`ingest`, `live`):
`ReadDiff` reads the thread's checkpoints, `DispatchPlaceholder` writes what was concluded from them.
`DiffCompleted` is the projector of both sorts of checkpoint, with the conflict rule of the table;
`Visible` is what `getThreadDetailById` shows of it. The checks of the handlers read the tables
when their input is taken, as the code does, and the steps that follow use what was read.
A revert is `TakeRevert`, `Restore`, `RollBack`, `DeleteStale`, `CompleteRevert`, and may fail
between any two (`ReactorFails`).

Abstractions: the thread exists and is in a git workspace. `pendingMessageStartByThread` and the
pending row name the message of the turn that starts, because the worker takes the input of a
message before that of its turn. A capture is one step, although a tree is read file by file.
`Restore` is one step. The user asks for a revert only when the client shows no turn at work, and
sends no message until it is done: the client enforces the first, and a user waits for the second
(section 5). `mishaps` records the races and failures the code itself does not rule out, so that a
property names what it excepts.

## 3. Runs

| Run | Shows | Bounds |
|---|---|---|
| `engine_safety` | at-most-once, truthful answers, model, stream and summaries that follow the log, flag and catch-up agree, no caller is forgotten, refinement of the ledger | 2 dispatches of 4 commands (a fork with two events, a write with streamed text, two that are refused), 2 faults, 1 crash, 1 repair |
| `engine_liveness` | every dispatch is answered | 2 dispatches of 2 commands, 1 fault, 1 crash, 1 repair |
| `engine_repair_chat` | a violation of what a comment says (section 5) | no faults |
| `turns_safety` | each message in one place, given once, in order; the session settles; `MessageOutbox` is implemented | 3 messages, one urgent, codex or not, 2 kinds of trouble out of 6 |
| `turns_liveness` | a message queued behind a running turn is promoted in the end | 3 messages (1 urgent), 1 fault |
| `turns_overlap`, `turns_stranded` | violations of what a comment and a test say (section 5) | no trouble |
| `automation_safety` | an occurrence is run once; one unsettled run per thread; what is settled stays; no worktree is left behind; nothing settled is launched; stop checks hold back, stop conditions stand | 14 automations: heartbeats and standalone, intervals and one moment, each misfire policy, 1 or 2 servers, 1 or 2 intervals of time, and for each the troubles that concern it |
| `automation_liveness` | a due schedule moves on; a run is settled in the end | 4 automations, with a crash or a run-now |
| `automation_once` | a violation of what a plan says (section 5) | 1 automation, 2 servers |
| `server_parts` | the cache, the worker, the thread view and the checkpoints: freshness, sharing, cancellation; drains complete and are owed an answer; nothing skipped, and all that was published shows once the live buffer is drained; drains end and views catch up; conversation, rows and workspace agree, diffs are of their turn, captured checkpoints stay | cache: 2 keys, 2 callers, 2 loads, 1 entry, 1 invalidation per key; worker: 2 enqueuers, 1 drainer, 3 items; view: a buffer of 1, and at most 3 events, 1 replay at a time, 1 trouble (four combinations); checkpoints: 3 turns and a revert, or 2 turns with a live diff each and a revert, or 1 turn that may be interrupted with an edit of the user, a failure and a revert |
| `view_twice` | a violation of what a test says (section 5) | the same view |

Why the bounds are enough. Two dispatches make a retry, a concurrent command and a refusal
after an acceptance possible; a two-event command lets every interruption fall between two
events; with two faults a recovery can fail as well as the step it recovers from. A third
dispatch only repeats the worker's loop, which starts from the same idle state. Three
messages are the fewest for one that runs and two whose order can go wrong. `ReadLimit` is
100, which no instance reaches: what a log of more than 1000 events changes is listed in section 5.
Two loads are the fewest that an invalidation can come between; one entry forces eviction with
two keys. Three items are the fewest for a busy time that ends while the next begins and an item
of each is on its way. A buffer of one overflows with the second event; each hard case of the view
needs one trouble. Two servers are the fewest that can hold different views of one lease.
Three turns are the fewest for a revert that keeps one turn and drops another before a count is
given again, and two for a live diff that meets the capture of another turn. (Larger budgets of the
view, about a million states, and of the checkpoints, with more diffs and reverts, about a million
and a half, were checked once and changed nothing.)

Symmetry is used over dispatches, and over the messages that are not urgent, and never in a
run with a temporal property other than a step property. Deadlock is checked in
`engine_safety`, with a stuttering step only where all work is done and all are answered; the
other runs end when their finite workload does.

### Fairness

`WF(Work)`: the worker's fiber is resumed by the runtime, and every wait in it ends, because the
lock is released by whoever holds it (`WF` on the end of a repair). `SF(Background)`: the catch-up
asks a semaphore whose waiters are served in order, while the worker takes and releases it again and
again, so its turn comes although it is not enabled all the time. No caller has to dispatch, nothing
has to crash, and a crashed process need not restart. For turns: the worker, the drain fiber and
ingestion are fibers that are resumed; the provider ends its turns (an assumption about an external
program, bounded in the code only by the user, who can interrupt). For automations: fibers that are
at work go on, a server that stopped is started again, time passes, a turn that begins ends. The
scheduler's pass is strongly fair, because the lease it wants is free again and again, not always;
so is the reactor's look at a run, which the events of turns and a sweep both bring about. For the
worker: fibers that are running are resumed and items end; nobody has to enqueue or to close the
scope. (The cache and the checkpoints have safety properties only.) For the view: the server's
fibers and the client's callbacks run, and the connection comes back; the snapshot is strongly fair,
because an event or a poll that finds no fence starts it anew.

## 4. Proofs

Each theorem holds for every value of the constants, under the assumptions named in the modules
(that bounds are numbers, that sets of callers and keys are finite, that decisions are not empty).

**The engine**, for every set of commands and dispatches, every decision and history, any number
of faults, crashes and repairs:

* `TypeCorrect` (`Spec => []TypeOK`): no cursor or summary points past the log, the model covers
  it, the worker has an envelope exactly when it is not idle.
* `FlagIsRight`: the flag of the deferred catch-up is set exactly while one is about to be forked
  or forked. Inductive with: after a commit the worker knows what it committed (so a deadline
  there counts as late), and no catch-up is forked while one is about to be.
* `ModelIsTheLog`, `NothingCreatedTwice`, `StreamIsTheLog`, `NoSummarySkipped`: the model, the
  created aggregates, what subscribers got and the deferred summaries agree with the log
  (`ModelFollowsLog`, `CreatedOnce`, `PublishedOnce`, `SummariesNotSkipped`). See below.
* `ReceiptsCorrect` (`Spec => []ReceiptsMatchLog`): a command's events are one block of the log,
  as decided, that ends at its accepted receipt; without one there are none.
* `AnswersAreFinal`: nothing is stored for a dispatch that has its answer.
* `NoDispatchIsForgotten` (`AnswerIsOwed`): the envelope of an unanswered dispatch is in the queue
  or with the worker, and what the worker drops its caller has given up. Inductive together with
  `Inv`; it is the safety half of `EveryDispatchAnswered`, whose fairness half stays with TLC.
* `ImplementsLedger`: the engine refines `CommandLedger`.

`ReceiptsMatchLog` is not inductive: that a commit finds no receipt depends on where the worker
is, and that no abandoned dispatch runs depends on the state its caller left. The invariant is
`Inv == Typed /\ QueueOK /\ EnvelopeOK /\ ReceiptOK /\ VerdictOK /\ ReceiptsMatchLog`: a queued
dispatch is waited for and no two entries are the same; the envelope in hand is in no other
place and unanswered once it is in flight; between the lookup and the commit the command has no
receipt; the verdict about to be given agrees with the receipts. Each conjunct has a lemma
`...Step` with one step per group of actions; `Typed` rests on lemmas about the replay operators
of the pipeline.

The four theorems about the log have the form `Spec /\ []WithinOnePage => []P`: in a behaviour in
which no projector is ever further behind the log than one `readFromSequence` call returns. The code
needs that: with a `ReadLimit` of 1 TLC finds counterexamples to all four, for a replay, and so a
boot, a repair or a reconciliation, then ends before the log does. A log of any length satisfies it
as long as its cursors are close to the end; a repair, which sets two of them to zero, does not for
a log of more than a page. They rest on `CreationAssumption` and `CreatedPastAssumption` too: a
command is about one aggregate and creates it, if at all, with its first event (read off
`decider.ts`), and the events stored earlier were decided like that. `EngineInv` is their invariant:

* `PositionInv`, `FlagInv`: an envelope has a first event exactly from its commit on, and one that is
  being recovered has none unless the interruption was late.
* `CursorsInv`, `RowsInv`: the project and chat cursors are at the end of the log, or will be put back
  there by a repair that fails; rows hold what the cursors have passed, and the backup of a repair
  goes with the cursors it keeps. So a load after a boot or a repair has every event (`LoadsAll`).
* `ModelInv`: the model has every event, except from a commit to the step that advances it or to the
  reconciliation; there the sequence the worker took before it had the lock is where the model
  stands, so that a reconciliation adds what is missing and, before a commit, nothing. This holds
  through late interruptions, which is why `CreatedOnce` does; `TextInv` and `StreamInv` add, short of
  those, that no text is applied twice and that the stream ends where the worker is in publishing.
* `PrecededInv`: every event follows the creation of its aggregate. With `ModelInv` it makes a creation
  find no event of its aggregate (`CreatesAnew`), which `CreatedOnce` needs, and `SummaryInv`: the
  commit of a creation empties a summary. `SummaryInv` says that while nothing is dirty the summaries
  have every event but those still to be deferred; `ChatInv`, that a replay creates no thread again.

`EngineInv` was checked by TLC, with read limits of 1, 2, 3 and 100, before it was proved.

**The cache**, for any number of keys, callers, loads, entries and invalidations:

* `CacheFresh`, `AnswersFresh`: what is cached, and what a caller is made to wait for, was loaded
  after the last invalidation before the call.
* `LoadsShared`: two loads of a key that are waited for have an invalidation between them.
* `GenerationsReleased`: the map of generations holds no key without an entry or an open load.
* `NotCut`: a load is cut off only when nobody waits for it.
* `CacheTypeCorrect`: among others, no count of waiters falls below zero.

`CacheInv` says why generations work: they are handed out by one counter (`Allocated`), each to
one load (`OwnGeneration`); an open load has its key's generation exactly while nothing has
invalidated the key since it began (`CurrentIsFresh`, `FreshIsCurrent`), and so two open loads of
a key have different values (`OpenDiffer`). `NotCut` and `CacheTypeCorrect` need that the count of
waiters is the number of callers that hold the load (`CountedRight`), and `NotCut` that a load that
is ending is closed and held by nobody (`EndingIsUnheld`).

**The worker**, for any number of enqueuers, drainers and items:

* `WorkerTypeCorrect`: among others, no item ends twice.
* `DrainIsComplete`: a drain that returns has seen the end of everything counted before it began.
* `NoDrainIsForgotten`: the deferred a drain waits for is resolved, or of the busy time that goes on,
  or in the hands of the fiber that will resolve it; and a busy time goes on only while an item is
  with somebody, unless an enqueuer was interrupted or the scope closed (`DrainIsOwed`). It is what
  of `DrainEnds` needs no fairness.

`WorkerInv` says that an item that is not over is in one place (with its enqueuer, in the queue,
or with the loop), so that what is over is counted right and a count of zero means that all is
over; that a deferred that is resolved, or about to be, belongs to a busy time that is past; and
that a drain that waits for an older deferred has nothing left to wait for. `Owing` adds that the deferred in the state is always
owed too, for that is the one a drain takes: no step makes a deferred unowed (`StaysOwed`), the end
of the last item of a busy time because it leaves its fiber with the deferred of that busy time.

**Automations**, for any plan, any number of servers on the database, any number of runs and any
order of passes, calls, crashes and failures:

* `NoOccurrenceTwice` (`Spec => []OncePerOccurrence`): no occurrence is run twice, also where passes
  overlap; under `run-latest`, unless passes overlapped or a user's edit put an old time back.
* `ThreadIsExclusive`, `SettledStays`: one unsettled run on a thread; a settled run stays settled.
* `SuccessIsShown`: a success is never shown with a result that came too late.
* `NoLateLaunch`: a run that is settled before the last check of its dispatch is not launched.
* `NoTreeIsLost`: a worktree is attached or removed, unless a server died.
* `TypeCorrect` (`Spec => []TypeOK`).
* `StopsStand`: once a stop condition is noted as met the automation is off, unless a user turned it
  on or wrote back what was read before.
* `ChecksComeFirst` (`Spec => HeartbeatWaitsForCheck`): while a stop check is open no pass starts
  another run of the heartbeat.

`ThreadIsExclusive`, `SettledStays` and `NoOccurrenceTwice` for the other misfire policies
(`NamedOnce`) need the table of runs alone: `RowsStep`
lists all that any statement does to a row, with the guards of its WHERE clause, and `TableMoves`
says that every step of the system is one of these. The next three need `FiberInv`, which says what
a fiber may rely on where it is, whatever all others do in the meantime: a dispatch has a run that
nobody has launched (`Claim`) and that no other dispatch has (`Alone`); what is about to be marked
as succeeded or failed has a turn that ended that way; and a run that succeeded had a turn that was
completed (`SuccessStands`). `Hop` is all a step of a fiber does to this, and `HopKeeps` shows once
that such a step leaves every fiber's claim true; the lemmas `...Hops` show, action by action, that
it is one. `World` is the same for turns, time and crashes.

The other three theorems are about what a step writes to the definition and to a row's columns, and
about which fiber may be where. `Path` is all of that for a step of a fiber, and the lemmas
`...Paths` show it action by action; `Stays` and `Falls` are the steps of no fiber. From it follow,
each in one lemma: `Typed`; `Courses` (a caller is about to create a run only where a user asked for
one, and there is one pass at a time unless `overlapped`); `Stopped` (the worker that will write a
match has switched the automation off before it does so, and only an edit or a restart of a loop
switches it on); and `Waiting`. `Waiting` is what makes the three reads of `heartbeatThreadRunState`
safe: once a pass has found the thread free it stays so until that pass creates its row, because no
other pass is at work (`Courses`) and no settled run becomes active; so no run can succeed in
between, and the stop checks that the pass did not find it did not miss.

Under `run-latest` a late run is named for the time of its pass, so the unique index does not see
that two runs are for one occurrence, and only the order in which a pass works keeps them apart.
`Orderly` is that order. Nothing is planned for a time after the pass at work (`Timely`), nor after the
moment a user asked a loop at its cap to start over, which puts the schedule at a later time
(`Restarts`). A run is handed on when a fiber takes it towards its launch or it was launched. While
a pass is at an occurrence no run of it has been handed on (`NotYet`), for there is no other pass;
once one has, the pass that holds it moves the schedule past the occurrence before it launches
(`Moved`); a crash in between leaves a row that nothing launches any more (`LostInAdvance`), and the
next pass hands on one of its own. `ScheduleMove` is all a step does to the schedule, and the
lemmas `...Schedules` show it action by action. `HandedOnce` follows.

**Queued turns**, for any number of messages, any set of urgent ones, any adapter, and any number of
crashes, stops, faults and republished events:

* `TypeCorrect` (`Spec => []TypeOK`).
* `GivesOnce`: a message is given to the provider once, however often its events are published, the
  reactor fails or the server restarts, unless the event that queued it was published again (`requeued`).
* `NothingDropped`: a message that was sent is given, its failure is known, or it is in one place
  that still leads on.
* `GivesInOrder`: messages queued behind a turn are given in that order.
* `SettlesAtRest`: when all is quiet, the session shows no turn at work, unless a fault kept an event
  from being applied or a provider ended in silence.
* `ImplementsOutbox`: the model refines `MessageOutbox`.

`GivesOnce` and `NothingDropped` come from `Living`: a message is in exactly one place on its way
(`OnePlace`: an event to come, the queue, the hands of one fiber, the work of the worker, or given),
once in that place (`OneEach`), and a key is handled only when its message was sent (`Fresh`).
`OnePlace` is about events that are still to be acted on: a start that is published again stands in
the inbox a second time, and only the handled keys tell it from the first. `GivesInOrder` needs
`LinedUp`: of two messages in line the second is never at a later stage than the first, where the
stages are a queueing event, the queue, a fiber's hands or a start event, the worker, given. It
holds while no session was stopped, because a stop empties the queue while its messages' events are
on the way; and no second turn is on the way while the first is promoted (`Calm`). `SettlesAtRest`
needs `Settling`: whatever turn the session shows, or a command is about to show, is one the
provider still has or whose end is still to be taken from `runtime`.

`MessageOutbox` is the promise of the whole to the user: a pending message is given, reported as
failed, cleared by a stop, or lost to a failing step (one message) or a crash (all that are
pending), and none of this is undone. It asks more of the order than `GivenInOrder`: when a message
in line is given, no earlier one is still pending. A requeued message is excepted, and a stop and any
requeued message suspend the order. `ImplementsOutbox` needs no new invariant: the message in the
worker's hands is pending by `Living`, and by `LinedUp` and `OnePlace` one that waits before it is
nowhere on its way.

**Checkpoints**, for any number of turns, live diffs, reverts, edits and failing steps:

* `TypeCorrect` (`CheckpointsSpec => []CheckpointsTypeOK`).
* `DiffsStayOwn`: the diff of a captured checkpoint is what its turn did, unless a mishap that the
  property names came between.
* `CapturesStay`: a captured checkpoint stays captured until a revert removes it, unless a live diff
  was overtaken.
* `ThreadStaysInStep`: at rest, and unless a step failed, a capture was skipped or a live diff was
  overtaken, the k-th turn the provider remembers has the checkpoint with count k, no other turn has
  one, and (unless the reactor was behind the provider's edits) the workspace holds the edits of
  exactly these turns (`ThreadAgrees`).

All rest on `Ordered`, which puts the actors on one line: what the refs, the inbox, the worker and
the rows speak of is never ahead of the provider, the inputs of a turn come in the order start, end,
next start, and a revert is asked for only when nothing else is on the way. `DiffsStayOwn` adds
`Owning`: while nothing went wrong, every turn that began to edit has the tree from before in its
refs (`StartsCaptured`), and what the worker holds and the tables show of a turn's files is that
turn's edits (`StartsOwn`, `WorkOwn`, `RowsOwn`). `CapturesStay` adds `Staying`: the counts of the
captured checkpoints are different (`OneCount`), what is about to be captured has a count no other
turn has for good (`WorkFree`), and a live diff in the hands of ingestion, or a tracked placeholder,
is of a turn that has no captured checkpoint yet (`Overtakes`), which is exactly what an overtaken
live diff breaks.

`ThreadStaysInStep` is about moments at rest, and what keeps it true in between is the order of the
turns. A turn is pending from its sending to its checkpoint (`Pending`); its place is its position
in the conversation while no turn before it is pending (`Place`). `RowsAgree` says that the turns
that are not pending come first (`PendingLast`) and have their position as their count
(`OthersRecorded`), and that every count there is, in a row, in the hands of the worker or of
ingestion, or tracked, is the place of its turn (`CountsPlaced`, `WorkPlaced`, `LivePlaced`,
`TrackedPlaced`). So the largest visible count plus one is the right one for the first pending turn
(`MaxBefore`, `NextIsPlace`), which is what three fibers compute apart from each other, and `max - n`
is the number of turns a revert takes back. While a revert is half done the rows still show turns the
provider has forgotten (`RolledBack`). `TreesAgree` is the same for the refs: the one with count k
holds the edits of the first k turns (`RefsAgree`), for which a baseline must be taken before a later
turn edits (`EditsBehind`, `BaselinePlaced`), and a revert deletes every ref beyond the one it
restores (`RestoreKnown`). `TurnTreeKept` shows that no step changes what the first k turns have
edited while they are remembered. Both invariants were checked by TLC, with plans of up to three
turns, two reverts and a failing step, before they were proved.

**Thread view**, for any number of events, lost and overflown streams, closings, polls and replays:

* `TypeCorrect` (`ViewSpec => []ViewTypeOK`).
* `FenceIsShown`: whatever the fence keeps out is in the view or in the queue of events to flush,
  unless the view strayed (`NothingSkipped`).
* `ViewIsComplete`: once the snapshot is in and the live buffer drained, all that was published is
  in the view, unless it strayed (`ShowsAllPublished`).

`Typed` says of the live buffer that it holds the last of the published events without a gap
(`Streamed`), so the next one is number `Delivered + 1`. `Following` adds what holds while the view
has not strayed. All up to the fence is shown (`FenceShown`), and so is all that the live side has
delivered once the snapshot is in (`LiveShown`): this is why the fence may jump to the next live event.
A snapshot on its way covers the fence, the events kept and queued, and what was delivered
(`SnapshotCovers`), because it is read after the live side began. A snapshot does not always
replace the text: the longer text stays. So the text must be that of the first deltas without a gap,
each once (`TextStraight`); then longer means more. A flush keeps this if the queue goes on where the
text ends (`QueueStraight`, `QueueBehind`); where it holds a delta the text has (`Doomed`), the next
flush shows one twice, which is how a view strays. A snapshot that overtakes the queue
leaves it so. TLC checked both invariants, with up to 4 events, 2 replays and 2 troubles and a
buffer of 2, before they were proved. Complete the view is by `LiveShown` where there is a fence. A
snapshot of an empty log leaves none: then all that was published since waits in the live buffer
(`Unfenced`), because an event that finds no fence begins the stream anew, and a fence once taken
is given up only with the stream (`FenceGivenUp`); the handler of the welcome does so because a
thread that is closed has no stream (`Unwatched`).

Every invariant and action property of a passing run is a theorem. Only proved, and not checked by a
run of their own: the types of the four parts of `server_parts` and `NoGenerationLeak`, and
`GivenOnce` and `GivenInOrder`, which `MessagesMeetTheirFate` implies. Only model-checked: liveness.
Liveness under fairness and ENABLED are out of the prover's reach, as is induction over data with the
library's theorems. Where a proof needs induction on a number it takes the least element of a set
of numbers (`Least`, from `NatLessThanWellFounded` and `WFMin`); what a recursive definition
computes for every input stays out of reach.

## 5. Findings

Each has a violation run and an entry in `PROJECT.json` with the lines.

* `engine_repair_chat`: a repair replays streamed messages over rows it keeps and doubles text.
* `turns_overlap`: a queued message is promoted while a turn started meanwhile is active.
* `turns_stranded`: a message queued just as the turn ends stays in the queue.
* `automation_once`: a "once" automation with the misfire policy run-latest that is picked up late
  by two servers is launched twice, because each names the run for the time of its own pass, and
  the unique index on occurrences does not see that they are the same.
* `view_twice`: a delta in the snapshot and in the live backlog is appended twice, because the
  snapshot's fence is the minimum of the cursors and one of them stands still while text streams.

Seen while modelling, and left to the guards of the properties (no comment, document or test says
otherwise):

* Engine. After a deadline between commit and answer the recovery publishes the command's events
  again, and the deferred summary of an event in that window is never computed (`late`). A
  reconciliation that fails leaves the model behind the log (`unreconciled`). With a log of more
  than 1000 events, one replay or reconciliation reads the first 1000 only, so a repair leaves later
  project rows deleted until the next boot.
* Automations. A heartbeat whose message the queue drops or the provider refuses leaves its run
  active, which blocks its thread (`drop`, `start`). `reconcileThread` writes the result whatever
  the status has become. A definition written back from a stale read can enable what was stopped,
  or un-archive what was deleted (`rename`). A pass that listed an automation before its stop
  condition matched can launch one more run. A skipped run can be called interrupted by a recovery.
  A cancellation between the last check and the turn's start does not stop it. A crash before
  `thread.create` leaves a worktree behind.
* Thread view. A live event, or a replay, can be taken ahead of a snapshot that is still to come,
  whose fence then falls behind it (`strayed`); and a poll starts a snapshot anew that takes longer
  than its interval.
* Checkpoints. A live diff that is read before the capture of its turn and dispatched after it
  replaces the captured checkpoint in the tables, although the comment in ingestion says that a
  captured one stays: the in-memory projector has a guard against it (`projector.ts:931`), the
  projector of the tables has none. One of the next turn that is read while the last turn is not yet
  captured is given the count of that turn, and the tracked placeholder later takes it from the
  captured checkpoint (`overtaken`). A capture is skipped where the next turn is already active, or
  fails; a later revert then rolls the conversation back one turn too few (`skipped`, `fault`). The
  backup of a message's start may be captured over the first one after the provider has begun to
  edit (`backup late`), and the end of a turn after the next has (`capture late`); nothing orders the
  reactor and the provider. A revert that fails in its last step and is asked for again rolls the
  conversation back twice. A message that is sent during a revert is not held back.

## 6. Not modelled, and what could follow

* Terminal manager, credentials, thread retention: each has
  concurrency worth a module (their hazards are in `PROJECT.json`).
* `QueuedTurns`: edit and resend, rollback, approvals, changes of model.
* `Checkpoints`: the diff queries, restores of edit and resend, crashes of the server, threads without a
  git workspace.
* `ThreadView`: the shell, terminal and settings streams; the bound of the pending buffer; several
  threads at once.
* The in-memory projector's turn lifecycle against the pipeline's turn projector.

Adapters, git, pull request parsing, settings and the rendering of the web client are I/O and
formats and are left out; `PROJECT.json` lists them with the reason. They are most of the
repository's lines: the modules are about the parts in which order and failure decide.
