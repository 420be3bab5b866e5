------------------------------- MODULE QueuedTurns -------------------------------
(***************************************************************************)
(* How the messages of one thread become turns of its provider.  The       *)
(* decider starts or queues a turn by what the projected session says; the *)
(* worker of ProviderCommandReactor.ts keeps the queue and talks to the    *)
(* provider; ProviderRuntimeIngestion.ts projects what the provider emits  *)
(* onto the session; and a third fiber, of the reactor, promotes a queued  *)
(* message whenever the provider says a turn is over.                      *)
(*                                                                         *)
(* A command to the engine is one step: it commits and publishes in order  *)
(* (OrchestrationEngine).  The queue, the flag and the workers' inputs are *)
(* in memory; the session is projected and survives a crash.  Editing a    *)
(* message and sending it again, and rollbacks, are not modelled.          *)
(***************************************************************************)
EXTENDS Naturals, Sequences, FiniteSets

CONSTANTS
    Messages,       \* user messages, each sent by one thread.turn.start
    Urgent,         \* those with dispatchMode "steer"
    Possible,       \* bound: the kinds of trouble that may come,
    MaxTroubles,    \* how many of them in one behaviour,
    Recurring       \* and those that may come more than once

ASSUME UrgentAssumption == Urgent \subseteq Messages
ASSUME MessagesAssumption == "none" \notin Messages

VARIABLES
    session,        \* the projected session: status and activeTurnId
    inbox,          \* domain events the reactor's worker has not taken
    queue,          \* queuedTurnStartsByThread
    draining,       \* drainingQueuedTurns has the thread
    holding,        \* the message a fiber has dequeued and not yet promoted
    handled,        \* handledTurnStartKeys
    work,           \* where the reactor's worker is
    codex,          \* the thread's provider is codex, whose turns can be steered
    provider,       \* the provider's session and its active turn
    runtime,        \* provider events ingestion has not taken
    terminal,       \* how many turn ends the drain fiber has not taken
    ingest,         \* the session ingestion is about to set
    up,             \* the server runs
    fate,           \* history: what became of each message
    given,          \* history: the messages handed to the provider
    lined,          \* history: the messages queued in "queue" mode, in order
    requeued,       \* history: the messages whose thread.turn-queued was published again
    promotions,     \* history: how often each message was promoted
    troubles        \* history: what has gone wrong, or was stopped

host == <<codex, up>>
inputs == <<inbox, runtime, terminal>>
drains == <<queue, draining, holding>>
reactor == <<drains, handled, work>>
lineage == <<lined, promotions, requeued>>
history == <<fate, given, lineage>>
vars == <<session, inputs, reactor, host, provider, ingest, history, troubles>>

-----------------------------------------------------------------------------------
\* Values.

None == "none"
Fibers == {"worker", "events"}
\* "settled" stands for ready, error and interrupted: nothing here tells them apart.
Statuses == {"none", "starting", "running", "settled", "stopped"}
Session == [status: Statuses, turn: Messages \cup {None}]
\* `id` tells the commands of one message apart: 0 is the user's, n its n-th promotion.
DomainEvent == [kind: {"queued", "start", "interrupt", "stop"},
                msg: Messages \cup {None}, id: Nat]
RuntimeEvent == [kind: {"opened", "started", "ended", "exited"}, turn: Messages \cup {None}]
Positions == {"idle", "marking", "ensuring", "binding", "sending", "failing", "draining",
              "stopping", "stopped"}
Work == [at: Positions, msg: Messages \cup {None}]
Fates == {"unsent", "pending", "given", "failed", "cleared", "lost"}

NoSession == [status |-> "none", turn |-> None]
Idle == [at |-> "idle", msg |-> None]
Opened == [kind |-> "opened", turn |-> None]
Started(m) == [kind |-> "started", turn |-> m]
Ended(m) == [kind |-> "ended", turn |-> m]
Exited == [kind |-> "exited", turn |-> None]

TurnEndsIn(events) == Cardinality({i \in 1..Len(events) : events[i].kind = "ended"})

\* A dispatch, a session start or a send that fails; a command whose events the engine publishes
\* again; a provider that exits; a thread.session.stop; a crash of the server; a session written
\* over, of which the provider says nothing more.
Troubles == {"fault", "late", "exit", "stop", "crash", "silent"}
ASSUME BoundsAssumption == MaxTroubles \in Nat /\ Possible \subseteq Troubles

Trouble(kind) ==
    /\ kind \in IF kind \in troubles THEN Possible \cap Recurring ELSE Possible
    /\ troubles' = troubles \cup {kind} /\ Cardinality(troubles') <= MaxTroubles

Fault == Trouble("fault")

\* A message that is still on its way gets its fate.
Settle(ms, how) ==
    fate' = [m \in Messages |-> IF m \in ms /\ fate[m] = "pending" THEN how ELSE fate[m]]

\* providerService.streamEvents: ingestion gets every event, the drain fiber the turn ends.
Emit(events) ==
    /\ runtime' = runtime \o events
    /\ terminal' = terminal + TurnEndsIn(events)

\* How a provider that goes may report it: most end the turn first, codex only exits.
Closings == {<<Exited>>} \cup {<<Ended(m), Exited>> : m \in {provider.turn} \ {None}}

\* The engine publishes the events of a command.  Where its deadline strikes after the
\* commit it publishes some of them, and then all of them (again).
Publish(events) ==
    \/ inbox' = inbox \o events /\ UNCHANGED <<requeued, troubles>>
    \/ /\ Trouble("late")
       /\ \E k \in 1..Len(events) : inbox' = inbox \o SubSeq(events, 1, k) \o events
       /\ requeued' = requeued \cup {events[i].msg : i \in {j \in 1..Len(events) :
                                                              events[j].kind = "queued"}}

Init ==
    /\ session = NoSession
    /\ inbox = <<>> /\ runtime = <<>> /\ terminal = 0
    /\ queue = <<>> /\ draining = FALSE /\ holding = [f \in Fibers |-> None]
    /\ handled = {} /\ work = Idle /\ ingest = NoSession
    /\ codex \in BOOLEAN /\ provider = [live |-> FALSE, turn |-> None]
    /\ up = TRUE
    /\ fate = [m \in Messages |-> "unsent"] /\ given = <<>> /\ lined = <<>> /\ requeued = {}
    /\ promotions = [m \in Messages |-> 0]
    /\ troubles = {}

-----------------------------------------------------------------------------------
\* Commands of the user, as the decider answers them.

IsThreadRunning == session.status = "running" /\ session.turn # None

ShouldQueue(m) == IsThreadRunning /\ (m \notin Urgent \/ ~codex)

Event(kind, m) == [kind |-> kind, msg |-> m, id |-> 0]

\* thread.turn.start; a message that steers a provider which cannot be steered goes to the
\* head of the queue and interrupts the turn.
TurnStart(m) ==
    /\ up /\ fate[m] = "unsent"
    /\ Publish(IF ~ShouldQueue(m) THEN <<Event("start", m)>>
               ELSE IF m \in Urgent THEN <<Event("queued", m), Event("interrupt", None)>>
               ELSE <<Event("queued", m)>>)
    /\ fate' = [fate EXCEPT ![m] = "pending"]
    /\ lined' = IF ShouldQueue(m) /\ m \notin Urgent THEN Append(lined, m) ELSE lined
    /\ UNCHANGED <<session, runtime, terminal, reactor, provider, ingest, host, given,
                   promotions>>

SessionStop ==
    /\ up /\ Trouble("stop")
    /\ inbox' = Append(inbox, Event("stop", None))
    /\ UNCHANGED <<session, runtime, terminal, reactor, provider, ingest, host, history>>

-----------------------------------------------------------------------------------
\* drainQueuedTurnsForThread, on either fiber.

\* The message leaves the queue before the command that starts its turn is dispatched.
BeginDrain(f) ==
    IF draining \/ queue = <<>>
    THEN UNCHANGED drains
    ELSE /\ draining' = TRUE /\ queue' = Tail(queue)
         /\ holding' = [holding EXCEPT ![f] = Head(queue)]

Promoted(m) == [kind |-> "start", msg |-> m, id |-> promotions[m] + 1]

Promote(f) ==
    /\ up /\ holding[f] # None
    /\ Publish(<<Promoted(holding[f])>>)
    /\ promotions' = [promotions EXCEPT ![holding[f]] = @ + 1]
    /\ draining' = FALSE /\ holding' = [holding EXCEPT ![f] = None]
    /\ UNCHANGED <<session, runtime, terminal, queue, handled, work, provider, ingest, host,
                   fate, given, lined>>

\* thread.turn.dispatch-queued fails: the message is in nobody's hands.  Whether the finally
\* of an abandoned generator runs is up to the effect library: the flag may stay.
PromoteFails(f) ==
    /\ up /\ holding[f] # None /\ Fault
    /\ Settle({holding[f]}, "lost")
    /\ draining' \in BOOLEAN /\ holding' = [holding EXCEPT ![f] = None]
    /\ UNCHANGED <<session, inputs, queue, handled, work, provider, ingest, host, given,
                   lineage>>

\* The fiber that listens to the provider for turns that end.
TakeTerminal ==
    /\ up /\ terminal > 0 /\ holding["events"] = None
    /\ terminal' = terminal - 1
    /\ BeginDrain("events")
    /\ UNCHANGED <<session, inbox, runtime, handled, work, provider, ingest, host, history,
                   troubles>>

-----------------------------------------------------------------------------------
\* The worker of the reactor: processDomainEvent.

\* The next event is of this kind, and the worker is free to take it.
Takes(kind) ==
    /\ up /\ work.at = "idle" /\ holding["worker"] = None
    /\ inbox # <<>> /\ Head(inbox).kind = kind
    /\ inbox' = Tail(inbox)

\* Mutant of Enqueued: the list is made anew.
EnqueuedAlone(m) == <<m>>

Enqueued(m) == IF m \in Urgent THEN <<m>> \o queue ELSE Append(queue, m)

TakeQueued ==
    /\ Takes("queued")
    /\ queue' = Enqueued(Head(inbox).msg)
    /\ UNCHANGED <<session, runtime, terminal, draining, holding, handled, work, provider,
                   ingest, host, history, troubles>>

\* interruptTurn asks the provider to end the turn (TurnEnds).
TakeInterrupt ==
    /\ Takes("interrupt")
    /\ UNCHANGED <<session, runtime, terminal, reactor, provider, ingest, host, history, troubles>>

Live == session.status \in {"running", "starting"}

\* Mutant of HasHandled: no start is recognised.
NeverHandled(event) == FALSE

HasHandled(event) == <<event.msg, event.id>> \in handled

\* A start already handled is dropped; otherwise a thread without a live session is to be
\* marked as starting.
TakeStart ==
    /\ Takes("start")
    /\ LET event == Head(inbox)
       IN  IF HasHandled(event)
           THEN UNCHANGED <<handled, work>>
           ELSE /\ handled' = handled \cup {<<event.msg, event.id>>}
                /\ work' = [at |-> IF Live THEN "ensuring" ELSE "marking",
                            msg |-> event.msg]
    /\ UNCHANGED <<session, runtime, terminal, drains, provider, ingest, host, history, troubles>>

At(position) == up /\ work.at = position

MarkStarting ==
    /\ At("marking")
    /\ session' = [status |-> "starting", turn |-> None]
    /\ work' = [work EXCEPT !.at = "ensuring"]
    /\ UNCHANGED <<inputs, drains, handled, provider, ingest, host, history, troubles>>

\* A failure here is only logged: the message is not sent and nobody is told.
MarkingFails ==
    /\ At("marking") /\ Fault
    /\ work' = Idle /\ Settle({work.msg}, "lost")
    /\ UNCHANGED <<session, inputs, drains, handled, provider, ingest, host, given, lineage>>

\* ensureSessionForThread: the live session of the provider is used again, or one is started;
\* one that is live all the same is closed (codex), dropped (Pi) or written over (Claude).
EnsureSession ==
    /\ At("ensuring")
    /\ IF session.status \notin {"none", "stopped"} /\ provider.live
       THEN work' = [work EXCEPT !.at = "sending"] /\ UNCHANGED <<runtime, terminal, provider, troubles>>
       ELSE /\ work' = [work EXCEPT !.at = "binding"]
            /\ provider' = [live |-> TRUE, turn |-> None]
            /\ \/ /\ provider.live
                  /\ \E closing \in Closings : Emit(Append(closing, Opened))
                  /\ UNCHANGED troubles
               \/ /\ Emit(<<Opened>>)
                  /\ IF provider.live THEN Trouble("silent") ELSE UNCHANGED troubles
    /\ UNCHANGED <<session, inbox, drains, handled, ingest, host, history>>

BindSession ==
    /\ At("binding")
    /\ session' = [status |-> "settled", turn |-> None]
    /\ work' = [work EXCEPT !.at = "sending"]
    /\ UNCHANGED <<inputs, drains, handled, provider, ingest, host, history, troubles>>

\* Mutant of Give: the worker keeps the message.
GiveAndKeep ==
    /\ given' = Append(given, work.msg) /\ Settle({work.msg}, "given")
    /\ work' = [work EXCEPT !.at = "idle"]

Give ==
    /\ given' = Append(given, work.msg) /\ Settle({work.msg}, "given")
    /\ work' = Idle

\* A steer that reaches codex while it has a turn joins that turn.
Steers == codex /\ work.msg \in Urgent /\ provider.turn # None

SteerTurn ==
    /\ At("sending") /\ Steers
    /\ Give
    /\ UNCHANGED <<session, inputs, drains, handled, provider, ingest, host, lineage, troubles>>

\* sendTurn; a session that is gone is recovered.  A turn that is active is closed (Claude).
SendTurn ==
    /\ At("sending") /\ ~Steers
    /\ Give
    /\ provider' = [live |-> TRUE, turn |-> work.msg]
    /\ Emit((IF provider.turn # None THEN <<Ended(provider.turn)>> ELSE <<>>)
            \o <<Started(work.msg)>>)
    /\ UNCHANGED <<session, inbox, drains, handled, ingest, host, lineage, troubles>>

\* Starting a session, binding it or sending fails; or the provider (Pi) refuses a second turn.
StartFails ==
    /\ up /\ work.at \in {"ensuring", "binding", "sending"}
    /\ Fault \/ (work.at = "sending" /\ provider.turn # None /\ ~Steers /\ UNCHANGED troubles)
    /\ work' = [work EXCEPT !.at = "failing"]
    /\ UNCHANGED <<session, inputs, drains, handled, provider, ingest, host, history>>

\* The failure is reported and the session shows it; then the queue goes on.
ReportFailure ==
    /\ At("failing")
    /\ session' = [status |-> "settled", turn |-> None]
    /\ Settle({work.msg}, "failed")
    /\ work' = [work EXCEPT !.at = "draining"]
    /\ UNCHANGED <<inputs, drains, handled, provider, ingest, host, given, lineage, troubles>>

ReportingFails ==
    /\ At("failing") /\ Fault
    /\ work' = Idle /\ Settle({work.msg}, "lost")
    /\ UNCHANGED <<session, inputs, drains, handled, provider, ingest, host, given, lineage>>

\* Mutant of DrainAfterFailure: the queue waits for a turn to end.
NoDrain == UNCHANGED drains

DrainAfterFailure == BeginDrain("worker")

WorkerDrains ==
    /\ At("draining")
    /\ DrainAfterFailure
    /\ work' = Idle
    /\ UNCHANGED <<session, inputs, handled, provider, ingest, host, history, troubles>>

\* processSessionStopRequested: what is queued is forgotten, the provider stopped, and then the
\* session shows it.
TakeStop ==
    /\ Takes("stop")
    /\ Settle({queue[i] : i \in 1..Len(queue)}, "cleared")
    /\ queue' = <<>> /\ draining' = FALSE
    /\ work' = [Idle EXCEPT !.at = "stopping"]
    /\ UNCHANGED <<session, runtime, terminal, holding, handled, provider, ingest, host, given,
                   lineage, troubles>>

StopProvider ==
    /\ At("stopping")
    /\ work' = [work EXCEPT !.at = "stopped"]
    /\ IF provider.live /\ session.status \notin {"none", "stopped"}
       THEN /\ provider' = [live |-> FALSE, turn |-> None]
            /\ \E closing \in Closings : Emit(closing)
       ELSE UNCHANGED <<provider, runtime, terminal>>
    /\ UNCHANGED <<session, inbox, drains, handled, ingest, host, history, troubles>>

SetStopped ==
    /\ At("stopped")
    /\ session' = [status |-> "stopped", turn |-> None]
    /\ work' = Idle
    /\ UNCHANGED <<inputs, drains, handled, provider, ingest, host, history, troubles>>

\* A failure is only logged: the queue stays cleared.
StoppingFails ==
    /\ up /\ work.at \in {"stopping", "stopped"} /\ Fault
    /\ work' = Idle
    /\ UNCHANGED <<session, inputs, drains, handled, provider, ingest, host, history>>

-----------------------------------------------------------------------------------
\* Ingestion: processRuntimeEvent reads the session, then sets it.

\* shouldApplyThreadLifecycle: only the active turn starts or ends over an active turn.
Applies(event) ==
    event.kind \in {"started", "ended"} /\ session.turn # None => event.turn = session.turn

Projected(event) ==
    CASE event.kind = "opened" ->
            [status |-> IF session.turn # None THEN "running" ELSE "settled", turn |-> session.turn]
      [] event.kind = "started" -> [status |-> "running", turn |-> event.turn]
      [] event.kind = "ended" -> [status |-> "settled", turn |-> None]
      [] event.kind = "exited" -> [status |-> "stopped", turn |-> None]

TakeRuntime ==
    /\ up /\ ingest = NoSession /\ runtime # <<>>
    /\ runtime' = Tail(runtime)
    /\ ingest' = IF Applies(Head(runtime)) THEN Projected(Head(runtime)) ELSE NoSession
    /\ UNCHANGED <<session, inbox, terminal, reactor, provider, host, history, troubles>>

SetSession ==
    /\ up /\ ingest # NoSession
    /\ session' = ingest /\ ingest' = NoSession
    /\ UNCHANGED <<inputs, reactor, provider, host, history, troubles>>

\* A failure is only logged.
SetSessionFails ==
    /\ up /\ ingest # NoSession /\ Fault
    /\ ingest' = NoSession
    /\ UNCHANGED <<session, inputs, reactor, provider, host, history>>

-----------------------------------------------------------------------------------
\* The provider and the process.

TurnEnds ==
    /\ up /\ provider.turn # None
    /\ Emit(<<Ended(provider.turn)>>)
    /\ provider' = [provider EXCEPT !.turn = None]
    /\ UNCHANGED <<session, inbox, reactor, ingest, host, history, troubles>>

\* The provider's process exits: Codex says no more than that.
SessionExits ==
    /\ up /\ provider.live /\ Trouble("exit")
    /\ provider' = [live |-> FALSE, turn |-> None]
    /\ \E closing \in Closings : Emit(closing)
    /\ UNCHANGED <<session, inbox, reactor, ingest, host, history>>

\* The queue, the inputs and the provider go; what was on its way is lost.
Crash ==
    /\ up /\ Trouble("crash")
    /\ up' = FALSE
    /\ inbox' = <<>> /\ runtime' = <<>> /\ terminal' = 0
    /\ queue' = <<>> /\ draining' = FALSE /\ holding' = [f \in Fibers |-> None]
    /\ handled' = {} /\ work' = Idle /\ ingest' = NoSession
    /\ provider' = [live |-> FALSE, turn |-> None]
    /\ Settle(Messages, "lost")
    /\ UNCHANGED <<codex, session, given, lineage>>

\* Mutant of NeedsReconciliation: only a running session is looked at.
NeedsReconciliationIfRunning == session.status = "running"

NeedsReconciliation == session.turn # None \/ Live

\* reconcileRestartStuckTurns; a failure is only logged.
Restart ==
    /\ ~up
    /\ up' = TRUE
    /\ \/ /\ session' = IF NeedsReconciliation THEN [status |-> "settled", turn |-> None]
                                               ELSE session
          /\ UNCHANGED troubles
       \/ Fault /\ UNCHANGED session
    /\ UNCHANGED <<codex, inputs, reactor, provider, ingest, history>>

-----------------------------------------------------------------------------------

User == (\E m \in Messages : TurnStart(m)) \/ SessionStop

Worker ==
    \/ TakeQueued \/ TakeInterrupt \/ TakeStart \/ TakeStop
    \/ StopProvider \/ SetStopped \/ StoppingFails
    \/ MarkStarting \/ MarkingFails \/ EnsureSession \/ BindSession
    \/ SteerTurn \/ SendTurn \/ StartFails \/ ReportFailure \/ ReportingFails
    \/ WorkerDrains
    \/ Promote("worker") \/ PromoteFails("worker")

Drainer == TakeTerminal \/ Promote("events") \/ PromoteFails("events")

Ingestion == TakeRuntime \/ SetSession \/ SetSessionFails

Next == User \/ Worker \/ Drainer \/ Ingestion \/ TurnEnds \/ SessionExits \/ Crash \/ Restart

Spec == Init /\ [][Next]_vars

(***************************************************************************)
(* The three fibers are always resumed and the provider ends its turns;    *)
(* nobody has to send, to stop, to crash or to restart.                    *)
(***************************************************************************)
FairSpec == Spec /\ WF_vars(Worker) /\ WF_vars(Drainer) /\ WF_vars(Ingestion) /\ WF_vars(TurnEnds)
==================================================================================
