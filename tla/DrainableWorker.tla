------------------------------ MODULE DrainableWorker ------------------------------
(***************************************************************************)
(* packages/shared/src/DrainableWorker.ts: the unbounded queue behind the  *)
(* reactors and the ingestion.  `drain` waits for the deferred `idle`,     *)
(* which is kept apart from the queue: an item is counted before it is     *)
(* offered and discounted after it was processed, in steps that other      *)
(* fibers run between.  An item is its number in the order of counting;    *)
(* so is a deferred, by the item that made it.                             *)
(***************************************************************************)
EXTENDS Naturals, Sequences, FiniteSets

CONSTANTS
    Enqueuers,
    Drainers,
    MaxItems            \* bound: items

VARIABLES
    outstanding,        \* state: how many items are counted ...
    idle,               \* ... and the deferred that resolves when none is
    resolved,           \* the deferreds that are done
    queue,              \* what was offered; open until the scope closes
    worker,             \* the forked loop
    enqueuer,           \* where each caller of enqueue is
    drainer,            \* where each caller of drain is, and what it must wait for
    ended               \* history: the items that are over, in the order they ended

workerVars == <<outstanding, idle, resolved, queue, worker, enqueuer, drainer, ended>>

ASSUME WorkerAssumption == MaxItems \in Nat

-----------------------------------------------------------------------------------
Nobody == [at |-> "away", item |-> 0, signal |-> 0, fails |-> FALSE]

\* Items are numbered as they are counted: what was counted, and what is over.
Counted == 1 .. outstanding + Len(ended)
Over == {ended[n] : n \in DOMAIN ended}

WorkerInit ==
    /\ outstanding = 0 /\ idle = 0 /\ resolved = {0}
    /\ queue = [items |-> <<>>, open |-> TRUE]
    /\ worker = [Nobody EXCEPT !.at = "taking"]
    /\ enqueuer = [e \in Enqueuers |-> Nobody]
    /\ drainer = [d \in Drainers |-> [at |-> "away", signal |-> 0, before |-> {}]]
    /\ ended = <<>>

\* Mutants of IdleOfNext: the deferred stays, though it may be done; it changes with every item.
KeptIdle(item) == idle
OwnIdle(item) == item

\* The first item of a busy time brings the deferred for its end.
IdleOfNext(item) == IF outstanding = 0 THEN item ELSE idle

\* enqueue counts the item ...
Count(e) ==
    LET item == outstanding + Len(ended) + 1
    IN  /\ enqueuer[e].at = "away" /\ item <= MaxItems
        /\ outstanding' = outstanding + 1 /\ idle' = IdleOfNext(item)
        /\ enqueuer' = [enqueuer EXCEPT ![e] = [Nobody EXCEPT !.at = "offering", !.item = item]]
        /\ UNCHANGED <<resolved, queue, worker, drainer, ended>>

\* ... then offers it, which a queue that was shut down does not accept.
Offer(e) ==
    /\ enqueuer[e].at = "offering"
    /\ IF queue.open
       THEN /\ queue' = [queue EXCEPT !.items = Append(@, enqueuer[e].item)]
            /\ enqueuer' = [enqueuer EXCEPT ![e] = Nobody]
       ELSE enqueuer' = [enqueuer EXCEPT ![e].at = "refused"] /\ UNCHANGED queue
    /\ UNCHANGED <<outstanding, idle, resolved, worker, drainer, ended>>

\* The caller is interrupted between the two: its item stays counted.
EnqueuerInterrupted(e) ==
    /\ enqueuer[e].at = "offering"
    /\ enqueuer' = [enqueuer EXCEPT ![e].at = "gone"]
    /\ UNCHANGED <<outstanding, idle, resolved, queue, worker, drainer, ended>>

-----------------------------------------------------------------------------------
\* finishOne, by the loop or by an enqueuer that was refused, in two steps.

Remaining == outstanding - 1

\* The first step of `fiber`; only the last of a busy time holds a deferred to resolve.
Discount(item) == outstanding' = outstanding - 1 /\ ended' = Append(ended, item)

Discounted(fiber) == [fiber EXCEPT !.at = IF Remaining = 0 THEN "resolving" ELSE "done",
                                   !.signal = idle]

\* Deferred.succeed
Resolve(fiber) == resolved' = IF fiber.at = "resolving" THEN resolved \cup {fiber.signal} ELSE resolved

Refused(e) ==
    /\ enqueuer[e].at = "refused"
    /\ Discount(enqueuer[e].item)
    /\ enqueuer' = [enqueuer EXCEPT ![e] = Discounted(@)]
    /\ UNCHANGED <<idle, resolved, queue, worker, drainer>>

EnqueueReturns(e) ==
    /\ enqueuer[e].at \in {"resolving", "done"}
    /\ Resolve(enqueuer[e])
    /\ enqueuer' = [enqueuer EXCEPT ![e] = Nobody]
    /\ UNCHANGED <<outstanding, idle, queue, worker, drainer, ended>>

-----------------------------------------------------------------------------------
\* The forked loop.
Take ==
    /\ worker.at = "taking" /\ queue.items # <<>>
    /\ worker' = [worker EXCEPT !.at = "processing", !.item = Head(queue.items)]
    /\ queue' = [queue EXCEPT !.items = Tail(@)]
    /\ UNCHANGED <<outstanding, idle, resolved, enqueuer, drainer, ended>>

\* The effect of the item is over, and finishOne begins; a failure is remembered.
ProcessEnds(fails) ==
    /\ worker.at = "processing"
    /\ Discount(worker.item)
    /\ worker' = [Discounted(worker) EXCEPT !.fails = fails]
    /\ UNCHANGED <<idle, resolved, queue, enqueuer, drainer>>

\* finishOne ends, and the loop goes on; a failure leaves Effect.forever for good.
LoopGoesOn ==
    /\ worker.at \in {"resolving", "done"}
    /\ Resolve(worker)
    /\ worker' = [Nobody EXCEPT !.at = IF worker.fails THEN "dead" ELSE "taking"]
    /\ UNCHANGED <<outstanding, idle, queue, enqueuer, drainer, ended>>

\* The scope closes: the loop is interrupted (finishOne still runs), the queue shut down.
CloseScope ==
    /\ queue.open
    /\ queue' = [items |-> <<>>, open |-> FALSE]
    /\ CASE worker.at = "processing" ->
              Discount(worker.item) /\ worker' = [Discounted(worker) EXCEPT !.fails = TRUE]
         [] worker.at \in {"taking", "dead"} ->
              worker' = [worker EXCEPT !.at = "dead"] /\ UNCHANGED <<outstanding, ended>>
         [] OTHER -> worker' = [worker EXCEPT !.fails = TRUE] /\ UNCHANGED <<outstanding, ended>>
    /\ UNCHANGED <<idle, resolved, enqueuer, drainer>>

-----------------------------------------------------------------------------------
\* drain: it reads the deferred, and waits for that one.
Drain(d) ==
    /\ drainer[d].at = "away"
    /\ drainer' = [drainer EXCEPT ![d] = [at |-> "waiting", signal |-> idle, before |-> Counted]]
    /\ UNCHANGED <<outstanding, idle, resolved, queue, worker, enqueuer, ended>>

DrainReturns(d) ==
    /\ drainer[d].at = "waiting" /\ drainer[d].signal \in resolved
    /\ drainer' = [drainer EXCEPT ![d].at = "drained"]
    /\ UNCHANGED <<outstanding, idle, resolved, queue, worker, enqueuer, ended>>

WorkerNext ==
    \/ \E e \in Enqueuers :
        Count(e) \/ Offer(e) \/ EnqueuerInterrupted(e) \/ Refused(e) \/ EnqueueReturns(e)
    \/ Take \/ (\E fails \in BOOLEAN : ProcessEnds(fails)) \/ LoopGoesOn \/ CloseScope
    \/ \E d \in Drainers : Drain(d) \/ DrainReturns(d)

WorkerSpec == WorkerInit /\ [][WorkerNext]_workerVars

\* Fibers that are running are resumed; the effect of an item ends.
WorkerFairness ==
    /\ \A e \in Enqueuers : WF_workerVars(Offer(e) \/ Refused(e) \/ EnqueueReturns(e))
    /\ WF_workerVars(Take \/ (\E fails \in BOOLEAN : ProcessEnds(fails)) \/ LoopGoesOn)
    /\ \A d \in Drainers : WF_workerVars(DrainReturns(d))

-----------------------------------------------------------------------------------
Fibers == [at: {"away", "offering", "refused", "resolving", "done", "gone", "taking", "processing",
                "dead"}, item: Nat, signal: Nat, fails: BOOLEAN]

\* The type of every variable; no item is counted twice or ends twice.
WorkerTypeOK ==
    /\ outstanding \in Nat /\ idle \in Nat /\ resolved \subseteq Nat
    /\ queue \in [items: Seq(Nat), open: BOOLEAN]
    /\ worker \in Fibers /\ enqueuer \in [Enqueuers -> Fibers]
    /\ drainer \in [Drainers -> [at: {"away", "waiting", "drained"}, signal: Nat,
                                 before: SUBSET Nat]]
    /\ ended \in Seq(Nat) /\ Cardinality(Over) = Len(ended)

\* A drain that returns has seen the end of everything that was counted before it began:
\* "Resolves when the queue is empty and the worker is idle (not processing)".
DrainCoversEarlier ==
    \A d \in Drainers : drainer[d].at = "drained" => drainer[d].before \subseteq Over

\* A deferred is done, or a fiber is at its Deferred.succeed, or its busy time is not over.
Owed(signal) ==
    \/ signal \in resolved
    \/ signal = idle /\ outstanding > 0
    \/ \E fiber \in {worker} \cup {enqueuer[e] : e \in Enqueuers} :
          fiber.at = "resolving" /\ fiber.signal = signal

InHands(item) ==
    \/ \E e \in Enqueuers : enqueuer[e].at \in {"offering", "refused"} /\ enqueuer[e].item = item
    \/ \E i \in DOMAIN queue.items : queue.items[i] = item
    \/ worker.at = "processing" /\ worker.item = item

\* No drain waits for what nobody will do: the deferred it read is still owed, though others have
\* replaced it and two fibers may discount at once; and a busy time goes on only while an item is
\* with somebody, unless a caller of enqueue was interrupted or the scope has closed.
DrainIsOwed ==
    /\ \A d \in Drainers : drainer[d].at = "waiting" => Owed(drainer[d].signal)
    /\ queue.open /\ (\A e \in Enqueuers : enqueuer[e].at # "gone") =>
          \A item \in Counted \ Over : InHands(item)

\* Unless an item fails, a caller of enqueue is interrupted or the scope closes, a drain returns.
DrainEnds ==
    \A d \in Drainers : drainer[d].at = "waiting" ~>
        \/ drainer[d].at = "drained"
        \/ worker.at = "dead" \/ ~queue.open \/ \E e \in Enqueuers : enqueuer[e].at = "gone"
=============================================================================
