----------------------- MODULE OrchestrationEngineProperties -----------------------
(***************************************************************************)
(* What OrchestrationEngine.ts should guarantee, and what its own comments *)
(* say of it.                                                              *)
(***************************************************************************)
EXTENDS OrchestrationEngine

StoredOK ==
    /\ log \in Seq(Event)
    /\ receipts \in [Commands -> Receipt]
    /\ cursors \in [Projectors -> 0..Len(log)]
    /\ rows \in [1..Len(log) -> Nat]
    /\ summaryAt \in [Aggregates -> 0..Len(log)]

CallersOK ==
    /\ commandQueue \in Seq(Dispatches)
    /\ commandOf \in [Dispatches -> Commands]
    /\ executionState \in [Dispatches -> ExecutionStates]
    /\ expired \subseteq Dispatches
    /\ reply \in [Dispatches -> Outcome]

PositionOK ==
    /\ phase \in Phases
    /\ current \in Dispatches \cup {None} /\ (current = None <=> phase = "idle")
    /\ startSequence \in 0..Len(log)
    /\ exhausted \in BOOLEAN
    /\ next \in 0..Len(log) /\ first \in 0..Len(log)
    /\ failure \in {None, "timeout", "defect", "failed", "rejected"}
    /\ verdict \in Outcome

ModelOK ==
    /\ commandReadModel \in [1..Len(log) -> Nat]
    /\ snapshotSequence \in 0..Len(log)
    /\ published \in Seq(Nat)

ControlOK ==
    /\ maintenanceLock \in {"free", "worker", "repair"}
    /\ maintenanceLock = "repair" =>
          backup \in [cursors: [Projectors -> 0..Len(log)], rows: [1..Len(log) -> Nat]]
    /\ dirty \in BOOLEAN /\ inFlight \in BOOLEAN /\ catchUp \in BOOLEAN /\ up \in BOOLEAN
    /\ disturbed \subseteq Disturbances
    /\ budget \in [faults: Nat, crashes: Nat, repairs: Nat]

TypeOK == StoredOK /\ CallersOK /\ PositionOK /\ ModelOK /\ ControlOK

\* The events of a command are one block of the log, as decided, that ends at its accepted
\* receipt; a command without one has left no event.  Receipt and events are written in one
\* transaction (processEnvelope), and the lookup before it stops a retry.
ExecutedOnce(c) ==
    /\ receipts[c].status = "accepted" =>
          LET end == receipts[c].sequence
              begin == end - Len(Decision[c])
          IN  /\ begin >= 0 /\ end <= Len(log)
              /\ \A i \in 1..Len(log) : log[i].cmd = c <=> begin < i /\ i <= end
              /\ \A i \in 1..Len(Decision[c]) : log[begin + i] = EventsOf(c)[i]
    /\ receipts[c].status # "accepted" => \A i \in 1..Len(log) : log[i].cmd # c
ReceiptsMatchLog == \A c \in Commands : ExecutedOnce(c)

\* No event is ever stored for a dispatch that has its answer: a caller told "timed out"
\* because its command had not started can dispatch something else without the abandoned
\* command running behind its back (the executionState handshake of dispatch and the worker).
NothingRunsAfterItsAnswer ==
    [][log' # log => current # None /\ reply[current].tag = None]_vars

\* The engine implements the promise of its service interface.
Ledger == INSTANCE CommandLedger WITH
    settled <- receipts,
    high <- Len(log),
    answered <- [d \in Dispatches |-> [cmd |-> commandOf[d], outcome |-> reply[d]]]
DispatchIsDeduplicated == Ledger!Spec

Quiet == up /\ maintenanceLock = "free"

\* Whenever the lock is free, what the decider validates the next command against has every
\* stored event exactly once and no message text twice, whatever failed or was cut short before
\* its commit, through crashes and repairs alike.  A deadline that strikes after the commit, and
\* a reconciliation that fails then, are the exceptions (see the violations).
ModelFollowsLog ==
    Quiet /\ disturbed \cap {"late", "unreconciled"} = {} =>
        /\ snapshotSequence = Len(log)
        /\ \A i \in 1..Len(log) : IF log[i].kind = "delta" THEN commandReadModel[i] <= 1
                                                           ELSE commandReadModel[i] = 1

\* A thread or project is created at most once, though the decider checks only the in-memory
\* model and never the tables, and though that model may have seen an event twice.
CreatedOnce ==
    "unreconciled" \notin disturbed =>
        \A i, j \in 1..Len(log) :
            log[i].of = log[j].of /\ log[i].kind \in Creations
                                  /\ log[j].kind \in Creations => i = j

\* Subscribers get the stored events in order, each once, none left out between two, and all of
\* them before the caller is answered, as long as no deadline strikes after a commit.
PublishedOnce ==
    /\ \A i \in 1..Len(published) : published[i] <= Len(log)
    /\ "late" \notin disturbed =>
          /\ \A i \in 1..Len(published) - 1 : published[i + 1] = published[i] + 1
          /\ phase = "idle" /\ published # <<>> => published[Len(published)] = Len(log)

Summarised(t) == \A i \in 1..cursors["summaries"] :
                    log[i].of = t /\ ShouldRefreshSummary(log[i]) => i <= summaryAt[t]

\* The deferred cursor never passes an event its thread's summary does not include: a failed
\* deferred projection is not jumped over by a later event, through catch-ups and crashes.
SummariesNotSkipped ==
    disturbed \cap {"late", "repaired"} = {} => \A t \in Aggregates : Summarised(t)

\* The in-flight flag of scheduleDeferredProjectionCatchUp is set exactly while a catch-up is
\* about to be forked, or forked and not over: set too long, no catch-up ever runs again; reset
\* too early, two run side by side.
FlagHasCatchUp == "late" \notin disturbed => (inFlight <=> catchUp \/ phase = "forking")

\* No caller waits for an answer that nobody will give: the envelope of an unanswered dispatch is
\* in the queue or with the worker, whatever failed, expired or was cut short; one that its caller
\* abandoned has its answer, so the worker may drop it.
AnswerIsOwed ==
    \A d \in Dispatches :
        /\ executionState[d] \in {"queued", "in-flight"} /\ reply[d].tag = None =>
              current = d \/ \E i \in DOMAIN commandQueue : commandQueue[i] = d
        /\ executionState[d] = "abandoned" => reply[d].tag # None

\* Every dispatch is answered, unless the process dies first.
EveryDispatchAnswered ==
    \A d \in Dispatches :
        executionState[d] = "queued" ~> reply[d].tag # None \/ executionState[d] = "lost"

-----------------------------------------------------------------------------------
\* What comments of the repository say, and the code does not do.

\* The comment above resetDerivedProjectionState: "Existing thread/chat projection rows stay in
\* place".  A repair leaves the text of every message as it was.
RepairKeepsChat ==
    \A i \in 1..Len(log) : log[i].kind = "delta" => rows[i] <= 1
=====================================================================================
