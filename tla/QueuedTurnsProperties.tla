-------------------------- MODULE QueuedTurnsProperties --------------------------
(***************************************************************************)
(* What becomes of the messages of a thread, and what its session shows.   *)
(***************************************************************************)
EXTENDS QueuedTurns

TypeOK ==
    /\ session \in Session /\ ingest \in Session
    /\ inbox \in Seq(DomainEvent) /\ runtime \in Seq(RuntimeEvent) /\ terminal \in Nat
    /\ queue \in Seq(Messages)
    /\ draining \in BOOLEAN
    /\ holding \in [Fibers -> Messages \cup {None}]
    /\ handled \subseteq Messages \X Nat
    /\ work \in Work /\ (work.msg = None <=> work.at \in {"idle", "stopping", "stopped"})
    /\ provider \in [live: BOOLEAN, turn: Messages \cup {None}]
    /\ provider.turn # None => provider.live
    /\ codex \in BOOLEAN /\ up \in BOOLEAN
    /\ fate \in [Messages -> Fates]
    /\ given \in Seq(Messages) /\ lined \in Seq(Messages)
    /\ requeued \subseteq Messages
    /\ promotions \in [Messages -> Nat]
    /\ troubles \subseteq Troubles

Entries(s, m) == Cardinality({i \in 1..Len(s) : s[i] = m})
\* The events of m the worker will act on; an event published again counts once.
Coming(m) == {<<e.kind, e.id>> : e \in {inbox[i] : i \in 1..Len(inbox)}
                                 \cap [kind: {"queued", "start"}, msg: {m}, id: 0..promotions[m]]}
Acted(m) == {<<"start", n>> : n \in {n \in 0..promotions[m] : <<m, n>> \in handled}}
Held(m) == Cardinality({f \in Fibers : holding[f] = m})
AtWork(m) == IF work.msg = m /\ work.at # "draining" THEN 1 ELSE 0

\* Every message that was accepted and has no fate yet is in exactly one place: an event on its
\* way to the worker, the queue, a fiber that promotes it, or the worker that starts its turn;
\* one that has its fate is nowhere.  It is handed from fiber to fiber through inputs and a
\* queue, with failures, stops and republished starts in between, and no step of them may drop
\* or double it.  (An event that queues a message, published again, does double it.)
Accounted ==
    \A m \in Messages \ requeued :
        Cardinality(Coming(m) \ Acted(m)) + Entries(queue, m) + Held(m) + AtWork(m)
            = IF fate[m] = "pending" THEN 1 ELSE 0

\* No message is given to the provider twice, even where the engine publishes its start again
\* and although a promotion starts it under another command id (handledTurnStartKeys).
GivenOnce == \A m \in Messages \ requeued : Entries(given, m) <= 1

\* Together the reactor's fibers keep the promise of an outbox: a message that was accepted is
\* given to the provider once, after those that waited in line before it, or its failure is
\* reported, or a stop, a failing step or a crash that happened took it, and none of that is ever
\* taken back.  The message passes through two inputs, a queue and three fibers on its way.
Outbox == INSTANCE MessageOutbox WITH
    line <- lined,
    again <- requeued,
    mishaps <- troubles
MessagesMeetTheirFate == Outbox!Spec

\* Where m stands in a sequence of different messages; 0: nowhere.
Place(s, m) == IF Entries(s, m) = 0 THEN 0 ELSE CHOOSE i \in 1..Len(s) : s[i] = m

\* Messages queued one after the other reach the provider in that order, though two fibers
\* promote them and some fail on the way.  A stop that clears drainingQueuedTurns under a promotion
\* is the exception.
GivenInOrder ==
    "stop" \notin troubles /\ requeued = {} =>
        \A i, j \in 1..Len(lined) :
            i < j /\ fate[lined[j]] = "given" /\ fate[lined[i]] = "given"
                => Place(given, lined[i]) < Place(given, lined[j])

\* Nothing is on its way: what the session says now it says until somebody acts.
Quiet ==
    /\ up /\ inbox = <<>> /\ runtime = <<>> /\ terminal = 0
    /\ work = Idle /\ ingest = NoSession /\ \A f \in Fibers : holding[f] = None

\* Once all is quiet and the provider has no turn, the thread does not read as working: three
\* writers (the worker, ingestion and the reconciliation of a restart) set the session from what
\* they read earlier, and the last of them may not leave it "starting" or "running".
SessionSettles ==
    Quiet /\ provider.turn = None /\ troubles \cap {"fault", "silent"} = {} =>
        session.turn = None /\ session.status \notin {"starting", "running"}

\* A message queued behind a turn that runs is promoted in the end, through failing starts and
\* whoever promotes it, unless something was lost or the process or the provider died.
QueueAdvances ==
    \A m \in Messages :
        (Entries(queue, m) > 0 /\ provider.turn # None)
            ~> (Entries(queue, m) = 0 \/ ~up \/ "exit" \in troubles
                \/ \E x \in Messages : fate[x] = "lost")

-----------------------------------------------------------------------------------
\* What comments of the repository say, and the code does not do.

\* The comment above drainQueuedTurnsForThread: "Promote the next queued message only after the
\* active provider turn settles."
PromotedWhenSettled ==
    [][\A m \in Messages : promotions'[m] > promotions[m] => provider.turn = None]_vars

\* It is promoted then, too: once all is quiet and no turn is active, nothing is left queued.
NothingStranded == Quiet /\ provider.turn = None => queue = <<>>
=================================================================================
