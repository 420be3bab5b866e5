-------------------------------- MODULE ThreadView --------------------------------
(***************************************************************************)
(* How a client's view of one thread follows the server: subscribeThread   *)
(* of wsRpc.ts merges a snapshot with the live events, wsTransport.ts      *)
(* keeps the stream up, and routes/__root.tsx puts the two together with   *)
(* a fence, the sequence up to which the view is thought to be complete,   *)
(* and fills gaps by replays.  Only the events of the thread are counted,  *)
(* and one message is streamed: "delta" appends to its text, "refresh"     *)
(* changes anything else and moves the cursor of the thread summaries.     *)
(***************************************************************************)
EXTENDS Integers, Sequences, FiniteSets, SequencesExt

CONSTANTS
    Capacity,       \* of the live buffer of a subscription (1024)
    Budgets         \* bounds: of events, of replays at a time, and of troubles: lost streams,
                    \* failed replays, times the thread is closed

VARIABLES
    log,            \* the thread's events, all in the tables a snapshot reads
    summarized,     \* the cursor of the thread summaries
    published,      \* how many events the engine has published
    stream,         \* the subscription: live buffer, snapshot that was read, what was delivered
    wanted,         \* is the thread in subscribedThreadIds
    greeted,        \* was the welcome of this connection handled
    fence,          \* threadSnapshotSequenceById, NoFence where it has no entry
    pending,        \* pendingThreadEventsById
    queued,         \* pendingDomainEvents, until the throttler flushes them
    view,           \* the thread in the store: streamed text, and other events that show
    replays,        \* replayEvents requests on their way
    replaying,      \* threadReplayRequestInFlight
    shell,          \* the last event the shell stream told of
    strayed,        \* history: was an event taken ahead of its snapshot, or shown twice
    budget

server == <<log, summarized, published>>
client == <<fence, pending, queued, view, replays, replaying, shell, strayed>>
viewVars == <<server, stream, wanted, greeted, client, budget>>

Budget == [events: Nat, replays: Nat, troubles: Nat]

ASSUME ViewAssumption == Capacity \in Nat \ {0} /\ Budgets \subseteq Budget

NoFence == -1
NoStream == [open |-> FALSE, live |-> FALSE, backlog |-> <<>>, read |-> FALSE, due |-> FALSE,
             content |-> 0, fence |-> 0]
NewStream == [NoStream EXCEPT !.open = TRUE]

Trouble == budget.troubles > 0 /\ budget' = [budget EXCEPT !.troubles = @ - 1]

ViewInit ==
    /\ log = <<>> /\ summarized = 0 /\ published = 0
    /\ stream = NoStream /\ wanted = FALSE /\ greeted = TRUE
    /\ fence = NoFence /\ pending = <<>> /\ queued = <<>>
    /\ view = [text |-> <<>>, shown |-> {}]
    /\ replays = {} /\ replaying = FALSE /\ shell = 0 /\ strayed = FALSE /\ budget \in Budgets

-----------------------------------------------------------------------------------
\* The server.

\* The engine's worker commits an event with its rows, summarizes, then publishes it.
Commit(kind) ==
    /\ published = Len(log) /\ Len(log) < budget.events
    /\ log' = Append(log, kind)
    /\ UNCHANGED <<summarized, published, stream, wanted, greeted, client, budget>>

Summarize ==
    /\ published < Len(log) /\ log[Len(log)] = "refresh" /\ summarized < Len(log)
    /\ summarized' = Len(log)
    /\ UNCHANGED <<log, published, stream, wanted, greeted, client, budget>>

\* Mutant of Overflown: the window slides, and nobody is told.
NeverOverflown == FALSE

\* failLiveUiStreamForSnapshotResync: a subscriber that is too slow loses its stream.
Overflown == Len(stream.backlog) >= Capacity

Publish ==
    LET i == published + 1
        kept == IF Len(stream.backlog) >= Capacity THEN Tail(stream.backlog) ELSE stream.backlog
    IN  /\ published < Len(log) /\ (log[i] = "refresh" => summarized = i)
        /\ published' = i
        /\ stream' = IF ~stream.live THEN stream
                     ELSE IF Overflown THEN NoStream
                     ELSE [stream EXCEPT !.backlog = Append(kept, i)]
        /\ UNCHANGED <<log, summarized, wanted, greeted, client, budget>>

\* The two sides of Stream.merge: the one subscribes to the published events ...
LiveStarts ==
    /\ stream.open /\ ~stream.live
    /\ stream' = [stream EXCEPT !.live = TRUE]
    /\ UNCHANGED <<server, wanted, greeted, client, budget>>

\* Mutant of MayRead: the snapshot comes first, as where the streams are concatenated.
ReadsFirst == stream.open /\ ~stream.read

\* ... while the other reads; both are forked in one turn, and a read takes many.
MayRead == stream.open /\ stream.live /\ ~stream.read

\* getThreadDetailSnapshotById: rows and cursors of one transaction, none without a thread.
ReadSnapshot ==
    /\ MayRead
    /\ stream' = IF log = <<>> THEN [stream EXCEPT !.read = TRUE]
                 ELSE [stream EXCEPT !.read = TRUE, !.due = TRUE, !.content = Len(log),
                                     !.fence = summarized]
    /\ UNCHANGED <<server, wanted, greeted, client, budget>>

-----------------------------------------------------------------------------------
\* The client's transport.

\* The connection is lost, or the stream of another subscription fails.
StreamFails ==
    /\ stream.open /\ Trouble
    /\ stream' = NoStream
    /\ UNCHANGED <<server, wanted, greeted, client>>

\* reconnect: the streams of the threads start again, with the fences as they are.
Reconnect ==
    /\ wanted /\ ~stream.open
    /\ stream' = NewStream /\ greeted' = FALSE
    /\ UNCHANGED <<server, wanted, client, budget>>

\* beginThreadSubscription and subscribeThread
Begin == fence' = NoFence /\ pending' = <<>> /\ stream' = NewStream

\* onServerWelcome: ensureScopedSubscriptions forgets the fences and subscribes once more.
Welcome ==
    /\ ~greeted /\ stream.open
    /\ greeted' = TRUE
    /\ IF wanted THEN Begin ELSE fence' = NoFence /\ pending' = <<>> /\ UNCHANGED stream
    /\ replaying' = FALSE
    /\ UNCHANGED <<server, wanted, queued, view, replays, shell, strayed, budget>>

\* reconcileThreadSubscriptions: a thread is opened, or closed and forgotten.
OpenThread ==
    /\ ~wanted
    /\ wanted' = TRUE /\ Begin
    /\ UNCHANGED <<server, greeted, queued, view, replays, replaying, shell, strayed, budget>>

CloseThread ==
    /\ wanted /\ Trouble
    /\ wanted' = FALSE /\ fence' = NoFence /\ pending' = <<>> /\ replaying' = FALSE
    /\ stream' = NoStream
    /\ UNCHANGED <<server, greeted, queued, view, replays, shell, strayed>>

-----------------------------------------------------------------------------------
\* onThreadEvent and the store

\* The events of a set in their order, and the members of a sequence that are in a set; both by
\* places, for operators that take a condition are beyond the proofs.
InOrder(S) == [k \in 1 .. Cardinality(S) |->
                  CHOOSE i \in S : Cardinality({j \in S : j < i}) = k - 1]
Only(s, S) ==
    LET places == InOrder({k \in DOMAIN s : s[k] \in S})
    IN  [k \in DOMAIN places |-> s[places[k]]]

Deltas(n) == {i \in 1 .. n : log[i] = "delta"}
Refreshes(n) == {i \in 1 .. n : log[i] = "refresh"}

\* mergeReadModelThreadDetailWithLiveHotPath: of a message the longer text stays, of all
\* else what the snapshot says.
Merged(n) == [text |-> IF Len(view.text) > Cardinality(Deltas(n)) THEN view.text
                                                              ELSE InOrder(Deltas(n)),
              shown |-> Refreshes(n)]

\* flushThreadBuffer: what came before the snapshot and is past its fence.
Pending == InOrder({i \in ToSet(pending) : i > stream.fence})

DeliverSnapshot ==
    /\ stream.open /\ stream.due
    /\ stream' = [stream EXCEPT !.due = FALSE, !.content = 0, !.fence = 0]
    /\ view' = Merged(stream.content)
    /\ queued' = queued \o Pending /\ pending' = <<>>
    /\ fence' = IF Pending = <<>> THEN stream.fence ELSE Last(Pending)
    /\ UNCHANGED <<server, wanted, greeted, replays, replaying, shell, strayed, budget>>

\* Is the snapshot of the stream still to come, while there is a fence for its events?
SnapshotToCome == stream.open /\ (~stream.read \/ stream.due)

PastFence(i, limit) == i > limit

\* The next live event: kept, with a new request for the snapshot, where there is no fence.
DeliverEvent ==
    LET i == Head(stream.backlog)
        rest == [stream EXCEPT !.backlog = Tail(@)]
    IN  /\ stream.open /\ stream.backlog # <<>>
        /\ CASE fence = NoFence ->
                  pending' = Append(pending, i) /\ stream' = NewStream
                  /\ UNCHANGED <<fence, queued, strayed>>
             [] fence # NoFence /\ PastFence(i, fence) ->
                  fence' = i /\ queued' = Append(queued, i) /\ stream' = rest
                  /\ strayed' = (strayed \/ SnapshotToCome) /\ UNCHANGED pending
             [] OTHER -> stream' = rest /\ UNCHANGED <<fence, pending, queued, strayed>>
        /\ UNCHANGED <<server, wanted, greeted, view, replays, replaying, shell, budget>>

\* flushPendingDomainEvents
Flush ==
    /\ queued # <<>> /\ queued' = <<>>
    /\ strayed' = (strayed \/ \E i \in ToSet(queued) : i \in ToSet(view.text))
    /\ view' = [text |-> view.text \o Only(queued, Deltas(Len(log))),
                shown |-> view.shown \cup (ToSet(queued) \cap Refreshes(Len(log)))]
    /\ UNCHANGED <<server, stream, wanted, greeted, fence, pending, replays, replaying, shell,
                   budget>>

-----------------------------------------------------------------------------------
\* Gaps are filled when the shell stream, or a timer while the thread runs, gives occasion.

\* replayThreadEvents asks for what is past the fence, up to `target`.
AskReplay(target) ==
    IF ~replaying /\ fence < target /\ Cardinality(replays) < budget.replays
    THEN /\ replays' = replays \cup {[from |-> fence, target |-> target, upTo |-> NoFence]}
         /\ replaying' = TRUE
    ELSE UNCHANGED <<replays, replaying>>

\* Without a fence a snapshot is requested instead, by subscribing again.
CatchUp(target) ==
    IF ~wanted THEN UNCHANGED <<stream, replays, replaying>>
    ELSE IF fence = NoFence THEN stream' = NewStream /\ UNCHANGED <<replays, replaying>>
    ELSE AskReplay(target) /\ UNCHANGED stream

\* thread-upserted, in order; a reconnection may leave some out.
ShellEvent(i) ==
    /\ i \in shell + 1 .. published
    /\ shell' = i /\ CatchUp(i)
    /\ UNCHANGED <<server, wanted, greeted, fence, pending, queued, view, strayed, budget>>

Poll ==
    /\ CatchUp(budget.events + 1)
    /\ UNCHANGED <<server, wanted, greeted, fence, pending, queued, view, shell, strayed, budget>>

\* The server reads the event store for the request ...
AnswerReplay(r) ==
    /\ r \in replays /\ r.upTo = NoFence
    /\ replays' = (replays \ {r}) \cup
                    {[r EXCEPT !.upTo = IF r.target < Len(log) THEN r.target ELSE Len(log)]}
    /\ UNCHANGED <<server, stream, wanted, greeted, fence, pending, queued, view, replaying, shell,
                   strayed, budget>>

\* ... and the client takes what is past its fence by then, or past the request's if it has none.
TakeReplay(r) ==
    LET latest == IF fence = NoFence THEN r.from ELSE fence
        new == InOrder(latest + 1 .. r.upTo)
    IN  /\ r \in replays /\ r.upTo # NoFence
        /\ replays' = replays \ {r} /\ replaying' = FALSE
        /\ queued' = queued \o new
        /\ fence' = IF new = <<>> THEN fence ELSE r.upTo
        /\ strayed' = (strayed \/ (new # <<>> /\ (SnapshotToCome \/ fence = NoFence)))
        /\ UNCHANGED <<server, stream, wanted, greeted, pending, view, shell, budget>>

ReplayFails(r) ==
    /\ r \in replays /\ Trouble
    /\ replays' = replays \ {r} /\ replaying' = FALSE
    /\ UNCHANGED <<server, stream, wanted, greeted, fence, pending, queued, view, shell, strayed>>

ViewNext ==
    \/ (\E kind \in {"delta", "refresh"} : Commit(kind)) \/ Summarize \/ Publish
    \/ LiveStarts \/ ReadSnapshot \/ StreamFails \/ Reconnect \/ Welcome
    \/ OpenThread \/ CloseThread
    \/ DeliverSnapshot \/ DeliverEvent \/ Flush
    \/ (\E i \in DOMAIN log : ShellEvent(i)) \/ Poll
    \/ \E r \in replays : AnswerReplay(r) \/ TakeReplay(r) \/ ReplayFails(r)

ViewSpec == ViewInit /\ [][ViewNext]_viewVars

\* Fibers are resumed and the connection comes back.  The snapshot needs strong fairness: each
\* event, and every poll, that finds no fence starts it anew.
ViewFairness ==
    /\ WF_viewVars(Summarize \/ Publish) /\ WF_viewVars(LiveStarts)
    /\ SF_viewVars(ReadSnapshot) /\ SF_viewVars(DeliverSnapshot)
    /\ WF_viewVars(Reconnect) /\ WF_viewVars(Welcome) /\ WF_viewVars(DeliverEvent)
    /\ WF_viewVars(Flush) /\ WF_viewVars(\E i \in DOMAIN log : ShellEvent(i))

-----------------------------------------------------------------------------------
\* What the view shows, and what it will as soon as the throttler lets it.
InView(i) == i \in view.shown \/ i \in ToSet(view.text) \/ i \in ToSet(queued)

\* The type of every variable.
ViewTypeOK ==
    /\ log \in Seq({"delta", "refresh"}) /\ summarized \in 0 .. Len(log)
    /\ published \in 0 .. Len(log) /\ {wanted, greeted, replaying, strayed} \subseteq BOOLEAN
    /\ stream \in [open: BOOLEAN, live: BOOLEAN, backlog: Seq(Nat), read: BOOLEAN, due: BOOLEAN,
                   content: 0 .. Len(log), fence: 0 .. Len(log)]
    /\ fence \in NoFence .. Len(log) /\ pending \in Seq(1 .. Len(log))
    /\ queued \in Seq(1 .. Len(log)) /\ shell \in 0 .. published /\ budget \in Budget
    /\ view.text \in Seq(1 .. Len(log)) /\ view.shown \subseteq 1 .. Len(log)

\* Whatever the fence keeps out is in the view: no event falls between the snapshot and the
\* live events, unless one was taken ahead of a snapshot that was still to come.
NothingSkipped ==
    wanted /\ fence # NoFence /\ ~strayed => \A i \in 1 .. fence : InView(i)

\* Once the snapshot is in and the live stream is drained the view has all that was published:
\* nothing that the fence, the buffer, a lost stream or a replay kept from it stays out.
ShowsAllPublished ==
    ~strayed /\ stream.open /\ ~SnapshotToCome /\ stream.backlog = <<>> =>
        \A i \in 1 .. published : InView(i)

\* A thread that stays open shows everything in the end.
ViewCatchesUp ==
    <>[](wanted /\ ~strayed) => <>[](\A i \in 1 .. Len(log) : InView(i))

\* "drops duplicate thread events after the thread snapshot sequence advances"
AppliedOnce == \A i, j \in DOMAIN view.text : i # j => view.text[i] # view.text[j]
=============================================================================
