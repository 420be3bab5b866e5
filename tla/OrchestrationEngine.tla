--------------------------- MODULE OrchestrationEngine ---------------------------
(***************************************************************************)
(* The command engine of the server, OrchestrationEngine.ts: callers       *)
(* dispatch commands into one queue, one worker decides and commits them   *)
(* one at a time, and each caller waits for its answer with a deadline.    *)
(*                                                                         *)
(* A step is what runs between two points where the worker's fiber can be  *)
(* interrupted, fail, or let another fiber in.  Log, receipts, cursors and *)
(* rows are in SQLite and survive a crash; everything else is in memory.   *)
(***************************************************************************)
EXTENDS ProjectionPipeline, FiniteSets

CONSTANTS
    Commands,       \* command ids; a retry dispatches the same id again
    Dispatches,     \* calls of dispatch, each with an envelope of its own
    Decision,       \* the events the decider makes of a command it accepts
    Past,           \* the author of the events already stored at the first boot
    History,        \* those events
    MaxFaults,      \* bound: SQL failures and defects in a behaviour
    MaxCrashes,     \* bound: process crashes
    MaxRepairs      \* bound: calls of repairState

ASSUME DecisionAssumption ==
    /\ Decision \in [Commands -> Seq(EventBody)]
    /\ \A c \in Commands : Len(Decision[c]) > 0
ASSUME DispatchesAssumption == "none" \notin Dispatches
ASSUME PastAssumption == Past \notin Commands
ASSUME HistoryAssumption == History \in Seq([cmd: {Past}, kind: Kinds, of: Aggregates])
\* A command is about one aggregate, and one that creates it does so with its first event
\* (project.create, which may delete a stale project beforehand, is taken without that).
ASSUME CreationAssumption ==
    \A c \in Commands : \A i \in 1..Len(Decision[c]) :
        /\ Decision[c][i].of = Decision[c][1].of
        /\ i > 1 => Decision[c][i].kind \notin Creations
\* The events stored before were decided in the same way.
ASSUME CreatedPastAssumption ==
    \A i \in 1..Len(History) :
        /\ \E j \in 1..i : History[j].of = History[i].of /\ History[j].kind \in Creations
        /\ \A j \in 1..Len(History) :
              {History[i].kind, History[j].kind} \subseteq Creations
                 /\ History[i].of = History[j].of => i = j
ASSUME BoundsAssumption == MaxFaults \in Nat /\ MaxCrashes \in Nat /\ MaxRepairs \in Nat

VARIABLES
    log,              \* orchestration_events, by sequence
    receipts,         \* orchestration_command_receipts
    cursors,          \* projection_state
    rows,             \* how often each event shows in the projection rows
    summaryAt,        \* the log length each thread's shell summary was computed at
    commandQueue,     \* envelopes offered and not taken
    commandOf,        \* the command of each dispatch
    executionState,   \* of each envelope
    expired,          \* dispatches whose 45 s are over
    reply,            \* what each dispatch returned
    phase,            \* where the worker is
    current,          \* the envelope it works on
    startSequence,    \* dispatchStartSequence
    exhausted,        \* remainingBudgetMs = 0
    next,             \* the committed event it defers or publishes next; 0: none
    first,            \* the first event it committed for current; 0: none
    failure,          \* the error it recovers from
    verdict,          \* the answer it is about to give
    maintenanceLock,  \* who holds the semaphore
    commandReadModel, \* how often each event shows in the in-memory model
    snapshotSequence, \* commandReadModel.snapshotSequence
    dirty,            \* deferredProjectionDirty
    inFlight,         \* deferredProjectionCatchUpInFlight
    catchUp,          \* a forked catch-up waits for the lock
    published,        \* what eventPubSub delivered since the boot
    backup,           \* the temp tables of repairState
    up,               \* the process runs
    disturbed,        \* history: what has upset the in-memory state or the rows
    budget            \* what the bounds leave

stored == <<log, receipts, cursors, rows, summaryAt>>
callers == <<commandQueue, commandOf, executionState, expired, reply>>
position == <<phase, current, startSequence, exhausted, next, first, failure, verdict>>
model == <<commandReadModel, snapshotSequence>>
deferral == <<dirty, inFlight, catchUp>>
vars == <<stored, callers, position, maintenanceLock, model, deferral, published, backup,
          up, disturbed, budget>>

-----------------------------------------------------------------------------------
\* Values.

None == "none"
Event == [cmd: Commands \cup {Past}, kind: Kinds, of: Aggregates]
Receipt == [status: {"none", "accepted", "rejected"}, sequence: Nat]
Outcome == [tag: {"none", "success", "timeout", "rejected", "failed"}, sequence: Nat]
ExecutionStates == {"unused", "queued", "in-flight", "abandoned", "lost"}
Phases == {"idle", "waiting", "lookup", "decide", "committed", "deferring", "scheduling",
           "forking", "publishing", "answering", "failing", "resolving", "replying"}
InterruptiblePhases == {"lookup", "decide", "committed", "deferring", "scheduling",
                        "forking", "publishing", "answering"}
Disturbances == {"late", "unreconciled", "repaired"}

NoReceipt == [status |-> "none", sequence |-> 0]
Plain(tag) == [tag |-> tag, sequence |-> 0]
Success(n) == [tag |-> "success", sequence |-> n]

EventsOf(c) ==
    [i \in 1..Len(Decision[c]) |->
        [cmd |-> c, kind |-> Decision[c][i].kind, of |-> Decision[c][i].of]]

\* The decider's requireThread and requireThreadAbsent (and those of projects), on the
\* in-memory model.
Exists(a) == \E i \in 1..Len(log) :
                /\ commandReadModel[i] > 0
                /\ log[i].of = a
                /\ log[i].kind \in Creations

\* Mutant of Admissible: requireThreadAbsent is missing.
AdmissibleAgain(c) == Exists(Decision[c][1].of) \/ Decision[c][1].kind \in Creations

Admissible(c) == Exists(Decision[c][1].of) = (Decision[c][1].kind \notin Creations)

\* The temp tables outside a repair.
NoBackup == [cursors |-> [p \in Projectors |-> 0], rows |-> <<>>]

UpToDate == [p \in Projectors |-> Len(log)]

\* One SQL failure or defect out of the budget.
Fault == budget.faults > 0 /\ budget' = [budget EXCEPT !.faults = @ - 1]

Init ==
    /\ log = History
    /\ receipts = [c \in Commands |-> NoReceipt]
    /\ cursors = UpToDate
    /\ rows = [i \in 1..Len(log) |-> 1]
    /\ summaryAt = [t \in Aggregates |-> Len(log)]
    /\ commandQueue = <<>>
    /\ commandOf \in [Dispatches -> Commands]
    /\ executionState = [d \in Dispatches |-> "unused"]
    /\ expired = {}
    /\ reply = [d \in Dispatches |-> Plain(None)]
    /\ phase = "idle" /\ current = None /\ startSequence = 0 /\ exhausted = FALSE
    /\ next = 0 /\ first = 0 /\ failure = None /\ verdict = Plain(None)
    /\ maintenanceLock = "free"
    /\ commandReadModel = LoadedModel(log, rows) /\ snapshotSequence = Len(log)
    /\ dirty = FALSE /\ inFlight = FALSE /\ catchUp = FALSE
    /\ published = <<>> /\ backup = NoBackup /\ up = TRUE
    /\ disturbed = {}
    /\ budget = [faults |-> MaxFaults, crashes |-> MaxCrashes, repairs |-> MaxRepairs]

-----------------------------------------------------------------------------------
\* Callers: dispatch and its deadline.

Dispatch(d) ==
    /\ up /\ executionState[d] = "unused"
    /\ commandQueue' = Append(commandQueue, d)
    /\ executionState' = [executionState EXCEPT ![d] = "queued"]
    /\ UNCHANGED <<stored, commandOf, expired, reply, position, maintenanceLock, model,
                   deferral, published, backup, up, disturbed, budget>>

\* 45 s have passed since d was dispatched and nobody has answered it.
Expire(d) ==
    /\ up /\ executionState[d] \in {"queued", "in-flight"}
    /\ reply[d].tag = None /\ d \notin expired
    /\ expired' = expired \cup {d}
    /\ UNCHANGED <<stored, commandQueue, commandOf, executionState, reply, position,
                   maintenanceLock, model, deferral, published, backup, up, disturbed, budget>>

\* The caller's timeout: an envelope nobody started is abandoned, a started one is
\* waited for without a deadline (no step).
Abandon(d) ==
    /\ up /\ d \in expired /\ executionState[d] = "queued"
    /\ executionState' = [executionState EXCEPT ![d] = "abandoned"]
    /\ reply' = [reply EXCEPT ![d] = Plain("timeout")]
    /\ UNCHANGED <<stored, commandQueue, commandOf, expired, position, maintenanceLock,
                   model, deferral, published, backup, up, disturbed, budget>>

-----------------------------------------------------------------------------------
\* The worker: processEnvelope.

\* The start sequence and the budget are sampled before the lock is asked for.
Take ==
    /\ up /\ phase = "idle" /\ commandQueue # <<>>
    /\ current' = Head(commandQueue) /\ commandQueue' = Tail(commandQueue)
    /\ startSequence' = snapshotSequence
    /\ exhausted' = (Head(commandQueue) \in expired)
    /\ phase' = "waiting"
    /\ UNCHANGED <<stored, commandOf, executionState, expired, reply, next, first, failure,
                   verdict, maintenanceLock, model, deferral, published, backup, up,
                   disturbed, budget>>

\* Mutants of Finish: the envelope is not let go; the lock is not released.
FinishWithEnvelope ==
    /\ phase' = "idle" /\ current' = current /\ next' = 0 /\ first' = 0
    /\ failure' = None /\ verdict' = Plain(None) /\ maintenanceLock' = "free"
    /\ startSequence' = 0 /\ exhausted' = FALSE
FinishWithLock ==
    /\ phase' = "idle" /\ current' = None /\ next' = 0 /\ first' = 0
    /\ failure' = None /\ verdict' = Plain(None)
    /\ maintenanceLock' = IF maintenanceLock = "worker" THEN "worker" ELSE "free"
    /\ startSequence' = 0 /\ exhausted' = FALSE

\* Back to the queue, with the lock released.
Finish ==
    /\ phase' = "idle" /\ current' = None /\ next' = 0 /\ first' = 0
    /\ failure' = None /\ verdict' = Plain(None) /\ maintenanceLock' = "free"
    /\ startSequence' = 0 /\ exhausted' = FALSE

\* Mutant of ShouldSkip: the worker does not look at the state the caller left.
NeverSkip(d) == FALSE

ShouldSkip(d) == executionState[d] = "abandoned"

Skip ==
    /\ up /\ phase = "waiting" /\ maintenanceLock = "free" /\ ShouldSkip(current)
    /\ Finish
    /\ UNCHANGED <<stored, callers, model, deferral, published, backup, up, disturbed, budget>>

Start ==
    /\ up /\ phase = "waiting" /\ maintenanceLock = "free" /\ ~ShouldSkip(current)
    /\ maintenanceLock' = "worker"
    /\ executionState' = [executionState EXCEPT ![current] = "in-flight"]
    /\ IF exhausted THEN phase' = "failing" /\ failure' = "timeout"
                    ELSE phase' = "lookup" /\ failure' = None
    /\ UNCHANGED <<stored, commandQueue, commandOf, expired, reply, current, startSequence,
                   exhausted, next, first, verdict, model, deferral, published, backup, up,
                   disturbed, budget>>

\* Mutant of Stored: any receipt is a success.
StoredAsSuccess(receipt) == Success(receipt.sequence)

\* What a command with a receipt is answered.
Stored(receipt) == IF receipt.status = "accepted" THEN Success(receipt.sequence)
                                                  ELSE Plain("rejected")

\* Mutant of Known: only a rejection stops a retry.
KnownRejection(receipt) == receipt.status = "rejected"

Known(receipt) == receipt.status # "none"

Lookup ==
    /\ up /\ phase = "lookup"
    /\ LET receipt == receipts[commandOf[current]]
       IN  IF Known(receipt) THEN phase' = "answering" /\ verdict' = Stored(receipt)
                             ELSE phase' = "decide" /\ UNCHANGED verdict
    /\ UNCHANGED <<stored, callers, current, startSequence, exhausted, next, first, failure,
                   maintenanceLock, model, deferral, published, backup, up, disturbed, budget>>

\* A receipt read, a detail read or the whole transaction fails: nothing is stored.
FailBeforeCommit ==
    /\ up /\ phase \in {"lookup", "decide"} /\ Fault
    /\ phase' = "failing" /\ failure' = "failed"
    /\ UNCHANGED <<stored, callers, current, startSequence, exhausted, next, first, verdict,
                   maintenanceLock, model, deferral, published, backup, up, disturbed>>

Reject ==
    /\ up /\ phase = "decide" /\ ~Admissible(commandOf[current])
    /\ phase' = "failing" /\ failure' = "rejected"
    /\ UNCHANGED <<stored, callers, current, startSequence, exhausted, next, first, verdict,
                   maintenanceLock, model, deferral, published, backup, up, disturbed, budget>>

Accepted(n) == [status |-> "accepted", sequence |-> n]

\* One transaction: the events, their hot projections and the receipt.
Commit ==
    /\ up /\ phase = "decide" /\ Admissible(commandOf[current])
    /\ LET c == commandOf[current]
           end == Len(log) + Len(Decision[c])
           grown(f, n) == [i \in 1..end |-> IF i <= Len(log) THEN f[i] ELSE n]
       IN  /\ log' = log \o EventsOf(c)
           /\ receipts' = [receipts EXCEPT ![c] = Accepted(end)]
           /\ cursors' = [cursors EXCEPT !["projects"] = end, !["chat"] = end]
           /\ rows' = grown(rows, 1)
           /\ summaryAt' = [t \in Aggregates |->
                               IF [kind |-> "created", of |-> t] \in
                                     {Decision[c][i] : i \in 1..Len(Decision[c])}
                               THEN 0 ELSE summaryAt[t]]
           /\ commandReadModel' = grown(commandReadModel, 0)
    /\ first' = Len(log) + 1 /\ phase' = "committed"
    /\ UNCHANGED <<callers, current, startSequence, exhausted, next, failure, verdict,
                   maintenanceLock, snapshotSequence, deferral, published, backup, up,
                   disturbed, budget>>

AdvanceModel ==
    /\ up /\ phase = "committed"
    /\ commandReadModel' = ProjectedModel(log, commandReadModel, first, Len(log))
    /\ snapshotSequence' = Len(log)
    /\ next' = first /\ phase' = "deferring"
    /\ UNCHANGED <<stored, callers, current, startSequence, exhausted, first, failure, verdict,
                   maintenanceLock, deferral, published, backup, up, disturbed, budget>>

\* Mutant of NextDeferred: publishing starts where deferring stopped.
NextDeferredInPlace ==
    IF next < Len(log) THEN phase' = "deferring" /\ next' = next + 1
                       ELSE phase' = "publishing" /\ next' = next

\* To the next committed event, or on to publishing them.
NextDeferred ==
    IF next < Len(log) THEN phase' = "deferring" /\ next' = next + 1
                       ELSE phase' = "publishing" /\ next' = first

\* Mutant of NeedsCatchUp: a dirty projection is projected inline all the same.
IgnoreDirty == FALSE

NeedsCatchUp == dirty /\ log[next].kind # "project"

Defer ==
    /\ up /\ phase = "deferring" /\ ~NeedsCatchUp
    /\ IF ShouldRefreshSummary(log[next])
       THEN /\ summaryAt' = [summaryAt EXCEPT ![log[next].of] = Len(log)]
            /\ cursors' = [cursors EXCEPT !["summaries"] = next]
       ELSE UNCHANGED <<summaryAt, cursors>>
    /\ NextDeferred
    /\ UNCHANGED <<log, receipts, rows, callers, current, startSequence, exhausted, first,
                   failure, verdict, maintenanceLock, model, deferral, published, backup, up,
                   disturbed, budget>>

DeferFails ==
    /\ up /\ phase = "deferring" /\ ~NeedsCatchUp /\ ShouldRefreshSummary(log[next]) /\ Fault
    /\ dirty' = TRUE /\ phase' = "scheduling"
    /\ UNCHANGED <<stored, callers, current, startSequence, exhausted, next, first, failure,
                   verdict, maintenanceLock, model, inFlight, catchUp, published, backup, up,
                   disturbed>>

DeferDirty ==
    /\ up /\ phase = "deferring" /\ NeedsCatchUp
    /\ phase' = "scheduling"
    /\ UNCHANGED <<stored, callers, current, startSequence, exhausted, next, first, failure,
                   verdict, maintenanceLock, model, deferral, published, backup, up,
                   disturbed, budget>>

\* scheduleDeferredProjectionCatchUp: test and set the flag, then fork.
Schedule ==
    /\ up /\ phase = "scheduling"
    /\ inFlight' = TRUE
    /\ IF inFlight THEN NextDeferred ELSE phase' = "forking" /\ UNCHANGED next
    /\ UNCHANGED <<stored, callers, current, startSequence, exhausted, first, failure, verdict,
                   maintenanceLock, model, dirty, catchUp, published, backup, up, disturbed,
                   budget>>

Fork ==
    /\ up /\ phase = "forking"
    /\ catchUp' = TRUE
    /\ NextDeferred
    /\ UNCHANGED <<stored, callers, current, startSequence, exhausted, first, failure, verdict,
                   maintenanceLock, model, dirty, inFlight, published, backup, up, disturbed,
                   budget>>

Publish ==
    /\ up /\ phase = "publishing"
    /\ published' = Append(published, next)
    /\ IF next < Len(log)
       THEN next' = next + 1 /\ UNCHANGED <<phase, verdict>>
       ELSE next' = 0 /\ phase' = "answering" /\ verdict' = Success(Len(log))
    /\ UNCHANGED <<stored, callers, current, startSequence, exhausted, first, failure,
                   maintenanceLock, model, deferral, backup, up, disturbed, budget>>

Answer ==
    /\ up /\ phase \in {"answering", "replying"}
    /\ reply' = [reply EXCEPT ![current] = verdict]
    /\ Finish
    /\ UNCHANGED <<stored, commandQueue, commandOf, executionState, expired, model, deferral,
                   published, backup, up, disturbed, budget>>

-----------------------------------------------------------------------------------
\* Recovery inside processEnvelope: the deadline, a defect, a typed failure.

Cut(kind) ==
    /\ up /\ phase \in InterruptiblePhases
    /\ phase' = "failing" /\ failure' = kind /\ next' = 0 /\ verdict' = Plain(None)
    /\ disturbed' = IF first # 0 THEN disturbed \cup {"late"} ELSE disturbed
    /\ UNCHANGED <<stored, callers, current, startSequence, exhausted, first, maintenanceLock,
                   model, deferral, published, backup, up>>

\* timeoutOption interrupts the fiber; a transaction it was in rolls back.
Interrupt == current \in expired /\ Cut("timeout") /\ UNCHANGED budget

Defect == Cut("defect") /\ Fault

\* Mutant of ReconcileFrom: the start sequence is read as inclusive.
ReconcileInclusive == startSequence

ReconcileFrom == startSequence + 1
ReconcileTo == IF startSequence + ReadLimit < Len(log) THEN startSequence + ReadLimit
                                                       ELSE Len(log)

\* reconcileCommandReadModelAfterDispatchFailure, with every stored event since the start.
Reconcile ==
    /\ up /\ phase = "failing"
    /\ phase' = "resolving"
    /\ commandReadModel' = ProjectedModel(log, commandReadModel, ReconcileFrom, ReconcileTo)
    /\ snapshotSequence' = IF ReconcileFrom <= ReconcileTo THEN ReconcileTo ELSE snapshotSequence
    /\ published' = IF ReconcileFrom <= ReconcileTo
                    THEN published \o [i \in 1..(ReconcileTo - startSequence) |-> startSequence + i]
                    ELSE published
    /\ UNCHANGED <<stored, callers, current, startSequence, exhausted, next, first, failure,
                   verdict, maintenanceLock, deferral, backup, up, disturbed, budget>>

ReconcileFails ==
    /\ up /\ phase = "failing" /\ Fault
    /\ phase' = "resolving"
    /\ disturbed' = IF snapshotSequence < Len(log) THEN disturbed \cup {"unreconciled"}
                                                   ELSE disturbed
    /\ UNCHANGED <<stored, callers, current, startSequence, exhausted, next, first, failure,
                   verdict, maintenanceLock, model, deferral, published, backup, up>>

\* Mutant of Unresolved: nobody completes the result when there is no receipt.
NoAnswer == Plain(None)

\* The answer when no receipt is found, or none can be read.
Unresolved == Plain(IF failure = "timeout" THEN "timeout" ELSE "failed")

\* resolveStoredCommandOutcome after a timeout or a defect; a typed failure is the answer.
Resolve ==
    /\ up /\ phase = "resolving" /\ failure \in {"timeout", "defect", "failed"}
    /\ phase' = "replying"
    /\ \/ /\ verdict' = LET receipt == receipts[commandOf[current]]
                        IN  IF failure = "failed" \/ receipt.status = "none" THEN Unresolved
                                                                             ELSE Stored(receipt)
          /\ UNCHANGED budget
       \/ Fault /\ failure # "failed" /\ verdict' = Unresolved
    /\ UNCHANGED <<stored, callers, current, startSequence, exhausted, next, first, failure,
                   maintenanceLock, model, deferral, published, backup, up, disturbed>>

Rejected == [status |-> "rejected", sequence |-> snapshotSequence]

\* An invariant error is stored as a rejection; that write may fail unnoticed.
RecordRejection ==
    /\ up /\ phase = "resolving" /\ failure = "rejected"
    /\ phase' = "replying" /\ verdict' = Plain("rejected")
    /\ \/ receipts' = [receipts EXCEPT ![commandOf[current]] = Rejected] /\ UNCHANGED budget
       \/ Fault /\ UNCHANGED receipts
    /\ UNCHANGED <<log, cursors, rows, summaryAt, callers, current, startSequence, exhausted,
                   next, first, failure, maintenanceLock, model, deferral, published, backup,
                   up, disturbed>>

-----------------------------------------------------------------------------------
\* What runs under the lock beside the worker, and the process itself.

\* bootstrap leaves the cursors at `to`.
Replay(to) ==
    /\ cursors' = to
    /\ rows' = ReplayedRows(log, rows, cursors, to)
    /\ summaryAt' = ReplayedSummaries(log, summaryAt, cursors, to)

\* Mutant of CatchUpOver: nothing resets the flag.
CatchUpForgotten == inFlight' = inFlight /\ catchUp' = FALSE

CatchUpOver == inFlight' = FALSE /\ catchUp' = FALSE

\* The forked catch-up; dirty is cleared only when the bootstrap succeeds.
CatchUp ==
    /\ up /\ catchUp /\ maintenanceLock = "free"
    /\ Replay(FullReplay(log, cursors))
    /\ dirty' = FALSE /\ CatchUpOver
    /\ UNCHANGED <<log, receipts, callers, position, maintenanceLock, model, published,
                   backup, up, disturbed, budget>>

CatchUpFails ==
    /\ up /\ catchUp /\ maintenanceLock = "free" /\ Fault
    /\ \E to \in PartialReplays(log, cursors) : Replay(to)
    /\ CatchUpOver
    /\ UNCHANGED <<log, receipts, callers, position, maintenanceLock, model, dirty, published,
                   backup, up, disturbed>>

\* The project rows, gone or put back.
WithProjectRows(shown) ==
    [i \in 1..Len(log) |-> IF log[i].kind = "project" THEN shown[i] ELSE rows[i]]

\* repairState: back up, then delete the project rows and the snapshot cursors.
BeginRepair ==
    /\ up /\ maintenanceLock = "free" /\ budget.repairs > 0
    /\ maintenanceLock' = "repair"
    /\ backup' = [cursors |-> cursors, rows |-> rows]
    /\ rows' = WithProjectRows([i \in 1..Len(log) |-> 0])
    /\ cursors' = [cursors EXCEPT !["projects"] = 0, !["chat"] = 0]
    /\ disturbed' = disturbed \cup {"repaired"}
    /\ budget' = [budget EXCEPT !.repairs = @ - 1]
    /\ UNCHANGED <<log, receipts, summaryAt, callers, position, model, deferral, published, up>>

EndRepair ==
    /\ up /\ maintenanceLock = "repair"
    /\ maintenanceLock' = "free" /\ backup' = NoBackup
    /\ UNCHANGED <<log, receipts, callers, position, deferral, published, up, disturbed>>

\* The replay succeeds; the model is loaded again, unless that read fails.
RepairSucceeds ==
    /\ EndRepair
    /\ Replay(FullReplay(log, cursors))
    /\ \/ /\ commandReadModel' = LoadedModel(log, rows')
          /\ snapshotSequence' = ComputeSnapshotSequence(cursors')
          /\ UNCHANGED budget
       \/ Fault /\ UNCHANGED model

\* The replay fails part of the way; project rows and cursors are restored.
RepairFails ==
    /\ EndRepair /\ Fault
    /\ \E to \in PartialReplays(log, cursors) :
          /\ rows' = [i \in 1..Len(log) |-> IF log[i].kind = "project" THEN backup.rows[i]
                                            ELSE ReplayedRows(log, rows, cursors, to)[i]]
          /\ summaryAt' = ReplayedSummaries(log, summaryAt, cursors, to)
    /\ cursors' = backup.cursors
    /\ UNCHANGED model

\* The process dies, at any point; the callers it had not answered hear nothing more.
Crash ==
    /\ up /\ budget.crashes > 0
    /\ budget' = [budget EXCEPT !.crashes = @ - 1]
    /\ up' = FALSE
    /\ commandQueue' = <<>>
    /\ executionState' = [d \in Dispatches |->
                             IF executionState[d] # "unused" /\ reply[d].tag = None
                             THEN "lost" ELSE executionState[d]]
    /\ Finish
    /\ dirty' = FALSE /\ inFlight' = FALSE /\ catchUp' = FALSE
    /\ published' = <<>> /\ backup' = NoBackup
    /\ UNCHANGED <<stored, commandOf, expired, reply, model, disturbed>>

\* Boot: replay what the cursors lack, then load the model.
Restart ==
    /\ ~up
    /\ up' = TRUE
    /\ Replay(FullReplay(log, cursors))
    /\ commandReadModel' = LoadedModel(log, rows')
    /\ snapshotSequence' = ComputeSnapshotSequence(cursors')
    /\ UNCHANGED <<log, receipts, callers, position, maintenanceLock, deferral, published,
                   backup, disturbed, budget>>

RestartFails ==
    /\ ~up /\ Fault
    /\ \E to \in PartialReplays(log, cursors) : Replay(to)
    /\ UNCHANGED <<log, receipts, callers, position, maintenanceLock, model, deferral,
                   published, backup, up, disturbed>>

-----------------------------------------------------------------------------------

Recovery == Interrupt \/ Defect \/ Reconcile \/ ReconcileFails \/ Resolve \/ RecordRejection

Work ==
    \/ Take \/ Skip \/ Start \/ Lookup \/ FailBeforeCommit \/ Reject \/ Commit
    \/ AdvanceModel \/ Defer \/ DeferFails \/ DeferDirty \/ Schedule \/ Fork
    \/ Publish \/ Answer \/ Recovery

Background == CatchUp \/ CatchUpFails

Maintenance == BeginRepair \/ RepairSucceeds \/ RepairFails

Process == Crash \/ Restart \/ RestartFails

Callers == \E d \in Dispatches : Dispatch(d) \/ Expire(d) \/ Abandon(d)

Next == Callers \/ Work \/ Background \/ Maintenance \/ Process

Spec == Init /\ [][Next]_vars

(***************************************************************************)
(* The worker fiber and a forked catch-up are always resumed, and a repair *)
(* under way goes on; nobody has to dispatch, to repair or to restart.     *)
(***************************************************************************)
FairSpec ==
    /\ Spec
    /\ WF_vars(Work)
    /\ WF_vars(RepairSucceeds \/ RepairFails)
    /\ SF_vars(Background)
===================================================================================
