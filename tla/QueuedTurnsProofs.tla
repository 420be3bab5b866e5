----------------------------- MODULE QueuedTurnsProofs -----------------------------
(***************************************************************************)
(* What becomes of the messages of a thread, for any number of messages    *)
(* and of troubles: TypeOK, Accounted, GivenOnce, GivenInOrder and         *)
(* SessionSettles of QueuedTurnsProperties; and that QueuedTurns           *)
(* implements MessageOutbox.                                               *)
(***************************************************************************)
EXTENDS QueuedTurnsProperties, FiniteSetTheorems, TLAPS

-----------------------------------------------------------------------------------
\* Sequences.

Has(s, x) == \E i \in DOMAIN s : s[i] = x
Once(s, x) == \A i, j \in DOMAIN s : s[i] = x /\ s[j] = x => i = j

LEMMA AppendFacts ==
    ASSUME NEW S, NEW s \in Seq(S), NEW e \in S
    PROVE  /\ Append(s, e) \in Seq(S) /\ Len(s) \in Nat
           /\ DOMAIN s = 1 .. Len(s) /\ DOMAIN Append(s, e) = 1 .. Len(s) + 1
           /\ Append(s, e)[Len(s) + 1] = e
           /\ \A j \in 1 .. Len(s) : Append(s, e)[j] = s[j]
OBVIOUS

LEMMA TailFacts ==
    ASSUME NEW S, NEW s \in Seq(S), s # <<>>
    PROVE  /\ Head(s) \in S /\ Tail(s) \in Seq(S) /\ 1 \in DOMAIN s /\ s[1] = Head(s)
           /\ Len(s) \in Nat \ {0} /\ DOMAIN s = 1 .. Len(s) /\ DOMAIN Tail(s) = 1 .. Len(s) - 1
           /\ \A j \in 1 .. Len(s) - 1 : Tail(s)[j] = s[j + 1]
OBVIOUS

LEMMA ConcatFacts ==
    ASSUME NEW S, NEW s \in Seq(S), NEW t \in Seq(S)
    PROVE  /\ s \o t \in Seq(S) /\ Len(s) \in Nat /\ Len(t) \in Nat
           /\ DOMAIN s = 1 .. Len(s) /\ DOMAIN t = 1 .. Len(t)
           /\ DOMAIN (s \o t) = 1 .. Len(s) + Len(t)
           /\ \A j \in 1 .. Len(s) : (s \o t)[j] = s[j]
           /\ \A j \in 1 .. Len(t) : (s \o t)[Len(s) + j] = t[j]
OBVIOUS

\* How often a message stands in a sequence.
LEMMA EntriesAre ==
    ASSUME NEW S, NEW s \in Seq(S), NEW x, Once(s, x)
    PROVE  Entries(s, x) = IF Has(s, x) THEN 1 ELSE 0
<1> DEFINE where == {i \in 1 .. Len(s) : s[i] = x}
<1>1. DOMAIN s = 1 .. Len(s)
  OBVIOUS
<1>2. CASE Has(s, x)
  <2>1. PICK i \in DOMAIN s : s[i] = x
    BY <1>2 DEF Has
  <2>2. where = {i}
    BY <1>1, <2>1 DEF Once
  <2> QED
    BY <1>2, <2>2, FS_Singleton DEF Entries
<1>3. CASE ~Has(s, x)
  <2>1. where = {}
    BY <1>1, <1>3 DEF Has
  <2> QED
    BY <1>3, <2>1, FS_EmptySet DEF Entries
<1> QED
  BY <1>2, <1>3

LEMMA PlaceIs ==
    ASSUME NEW S, NEW s \in Seq(S), NEW x, Once(s, x), NEW i \in DOMAIN s, s[i] = x
    PROVE  Place(s, x) = i
<1>1. Entries(s, x) = 1
  BY EntriesAre DEF Has
<1>2. \A j \in 1 .. Len(s) : s[j] = x => j = i
  BY DEF Once
<1>3. i \in 1 .. Len(s)
  OBVIOUS
<1> QED
  BY <1>1, <1>2, <1>3 DEF Place

LEMMA TurnEndsCounted ==
    ASSUME NEW S, NEW events \in Seq(S)
    PROVE  TurnEndsIn(events) \in Nat
<1>1. Len(events) \in Int /\ 1 \in Int
  OBVIOUS
<1>2. IsFiniteSet(1 .. Len(events))
  BY <1>1, FS_Interval
<1>3. IsFiniteSet({i \in 1..Len(events) : events[i].kind = "ended"})
  BY <1>2, FS_Subset
<1> QED
  BY <1>3, FS_CardinalityType DEF TurnEndsIn

-----------------------------------------------------------------------------------
\* What is published.

\* `more` are the events of a command as the engine publishes them: as they are, or some of them
\* again.
Publishes(events, more) ==
    /\ more \in Seq(DomainEvent) /\ inbox' = inbox \o more
    /\ \A i \in DOMAIN more : Has(events, more[i])
    /\ \A j \in DOMAIN events : Has(more, events[j])
    /\ requeued \subseteq requeued' /\ troubles \subseteq troubles'
    /\ troubles' \subseteq troubles \cup Troubles
    /\ \A m \in requeued' \ requeued : \E j \in DOMAIN events : m = events[j].msg /\ events[j].kind = "queued"
    /\ \/ more = events /\ requeued' = requeued
       \/ \A j \in DOMAIN events : events[j].kind = "queued" => events[j].msg \in requeued'

LEMMA PublishFacts ==
    ASSUME inbox \in Seq(DomainEvent), NEW events \in Seq(DomainEvent), Publish(events)
    PROVE  \E more : Publishes(events, more)
<1> DEFINE again == {events[i].msg : i \in {j \in 1..Len(events) : events[j].kind = "queued"}}
<1>1. DOMAIN events = 1 .. Len(events)
  OBVIOUS
<1>2. CASE inbox' = inbox \o events /\ UNCHANGED <<requeued, troubles>>
  <2>1. Publishes(events, events)
    BY <1>2 DEF Publishes, Has
  <2> QED
    BY <2>1
<1>3. CASE /\ Trouble("late") /\ requeued' = requeued \cup again
           /\ \E k \in 1..Len(events) : inbox' = inbox \o SubSeq(events, 1, k) \o events
  <2>1. PICK k \in 1..Len(events) : inbox' = inbox \o SubSeq(events, 1, k) \o events
    BY <1>3
  <2> DEFINE first == SubSeq(events, 1, k)
             more == first \o events
  <2>2. first \in Seq(DomainEvent) /\ Len(first) = k /\ \A i \in 1 .. k : first[i] = events[i]
    OBVIOUS
  <2> HIDE DEF first
  <2>3. /\ more \in Seq(DomainEvent) /\ DOMAIN more = 1 .. k + Len(events)
        /\ \A i \in 1 .. k : more[i] = events[i]
        /\ \A i \in 1 .. Len(events) : more[k + i] = events[i]
    <3>1. PICK s \in Seq(DomainEvent) : s = first
      BY <2>2
    <3>2. more = s \o events /\ Len(s) = k
      BY <2>2, <3>1
    <3>3. /\ s \o events \in Seq(DomainEvent)
          /\ DOMAIN (s \o events) = 1 .. Len(s) + Len(events)
          /\ \A l \in 1 .. Len(s) : (s \o events)[l] = s[l]
          /\ \A l \in 1 .. Len(events) : (s \o events)[Len(s) + l] = events[l]
      BY ConcatFacts
    <3> HIDE DEF more
    <3> QED
      BY <2>2, <3>1, <3>2, <3>3
  <2> HIDE DEF more
  <2>4. inbox' = inbox \o more
    BY <2>1, <2>2 DEF first, more
  <2>5. ASSUME NEW i \in DOMAIN more
        PROVE  Has(events, more[i])
    <3>1. CASE i <= k
      BY <1>1, <2>3, <3>1 DEF Has
    <3>2. CASE i > k
      <4>1. i - k \in 1 .. Len(events) /\ i = k + (i - k)
        BY <2>3, <3>2
      <4> QED
        BY <1>1, <2>3, <4>1 DEF Has
    <3> QED
      BY <2>3, <3>1, <3>2
  <2>6. ASSUME NEW j \in DOMAIN events
        PROVE  Has(more, events[j])
    <3>1. k + j \in DOMAIN more /\ more[k + j] = events[j]
      BY <1>1, <2>3
    <3> QED
      BY <3>1 DEF Has
  <2>7. \A j \in DOMAIN events : events[j].kind = "queued" => events[j].msg \in requeued'
    BY <1>1, <1>3
  <2>8. \A m \in requeued' \ requeued : \E j \in DOMAIN events : m = events[j].msg /\ events[j].kind = "queued"
    BY <1>1, <1>3
  <2>9. troubles \subseteq troubles' /\ troubles' \subseteq troubles \cup Troubles
    BY <1>3 DEF Trouble, Troubles
  <2> QED
    BY <1>3, <2>3, <2>4, <2>5, <2>6, <2>7, <2>8, <2>9 DEF Publishes
<1> QED
  BY <1>2, <1>3 DEF Publish

-----------------------------------------------------------------------------------
\* Types.

Named == \A i \in DOMAIN inbox : inbox[i].kind \in {"queued", "start"} => inbox[i].msg \in Messages
Typed == TypeOK /\ Named

EventsOf(m) == {e \in DomainEvent : e.msg = m /\ e.kind \in {"queued", "start"}}

\* The worker takes an event.
LEMMA TakesFacts ==
    ASSUME Typed, NEW kind, Takes(kind)
    PROVE  /\ inbox' \in Seq(DomainEvent) /\ Named' /\ Head(inbox) \in DomainEvent
           /\ Head(inbox).kind = kind /\ inbox # <<>> /\ inbox' = Tail(inbox)
           /\ kind \in {"queued", "start"} => Head(inbox).msg \in Messages
           /\ up /\ work.at = "idle" /\ work.msg = None /\ holding["worker"] = None
<1>1. inbox \in Seq(DomainEvent) /\ inbox # <<>> /\ inbox' = Tail(inbox)
  BY DEF Typed, TypeOK, Takes
<1>2. /\ Head(inbox) \in DomainEvent /\ inbox' \in Seq(DomainEvent)
      /\ 1 \in DOMAIN inbox /\ inbox[1] = Head(inbox)
      /\ \A j \in DOMAIN inbox' : j + 1 \in DOMAIN inbox /\ inbox'[j] = inbox[j + 1]
  BY <1>1, TailFacts
<1>3. Named' /\ (Head(inbox).kind \in {"queued", "start"} => Head(inbox).msg \in Messages)
  BY <1>2 DEF Typed, Named
<1> QED
  BY <1>1, <1>2, <1>3 DEF Takes, Typed, TypeOK

LEMMA BeginDrainFacts ==
    ASSUME TypeOK, NEW f \in Fibers, BeginDrain(f)
    PROVE  /\ queue' \in Seq(Messages) /\ draining' \in BOOLEAN
           /\ holding' \in [Fibers -> Messages \cup {None}]
           /\ \/ UNCHANGED drains
              \/ /\ ~draining /\ draining' /\ queue # <<>> /\ Head(queue) \in Messages
                 /\ queue' = Tail(queue) /\ holding' = [holding EXCEPT ![f] = Head(queue)]
<1>1. queue \in Seq(Messages)
  BY DEF TypeOK
<1>2. CASE draining \/ queue = <<>>
  BY <1>2 DEF TypeOK, BeginDrain, drains
<1>3. CASE ~(draining \/ queue = <<>>)
  <2>1. Head(queue) \in Messages /\ Tail(queue) \in Seq(Messages)
    BY <1>1, <1>3, TailFacts
  <2> QED
    BY <1>3, <2>1 DEF TypeOK, BeginDrain
<1> QED
  BY <1>2, <1>3

LEMMA EmitFacts ==
    ASSUME TypeOK, NEW events \in Seq(RuntimeEvent), Emit(events)
    PROVE  runtime' \in Seq(RuntimeEvent) /\ terminal' \in Nat /\ runtime' = runtime \o events
<1>1. TurnEndsIn(events) \in Nat
  BY TurnEndsCounted
<1> QED
  BY <1>1, ConcatFacts DEF TypeOK, Emit

LEMMA ClosingsTyped ==
    ASSUME TypeOK, NEW closing \in Closings
    PROVE  closing \in Seq(RuntimeEvent) /\ Append(closing, Opened) \in Seq(RuntimeEvent)
<1>1. Exited \in RuntimeEvent /\ Opened \in RuntimeEvent /\ \A m \in Messages : Ended(m) \in RuntimeEvent
  BY DEF Exited, Opened, Ended, RuntimeEvent
<1>2. closing \in Seq(RuntimeEvent)
  <2>1. CASE closing = <<Exited>>
    BY <1>1, <2>1
  <2>2. CASE closing # <<Exited>>
    <3>1. PICK m \in {provider.turn} \ {None} : closing = <<Ended(m), Exited>>
      BY <2>2 DEF Closings
    <3>2. m \in Messages
      BY DEF TypeOK
    <3> QED
      BY <1>1, <3>1, <3>2
  <2> QED
    BY <2>1, <2>2
<1> QED
  BY <1>1, <1>2, AppendFacts

LEMMA SettleTyped ==
    ASSUME TypeOK, NEW ms, NEW how \in Fates, Settle(ms, how)
    PROVE  fate' \in [Messages -> Fates]
BY DEF TypeOK, Settle

LEMMA Faults ==
    ASSUME TypeOK, NEW kind, Trouble(kind)
    PROVE  troubles' \subseteq Troubles /\ troubles' = troubles \cup {kind} /\ kind \in Troubles
BY BoundsAssumption DEF TypeOK, Trouble

LEMMA PublishTyped ==
    ASSUME Typed, NEW events \in Seq(DomainEvent), Publish(events),
           \A i \in DOMAIN events : events[i].kind \in {"queued", "start"} => events[i].msg \in Messages
    PROVE  /\ inbox' \in Seq(DomainEvent) /\ Named' /\ requeued' \subseteq Messages
           /\ troubles' \subseteq Troubles
<1>1. PICK more : Publishes(events, more)
  BY PublishFacts DEF Typed, TypeOK
<1>2. /\ inbox \in Seq(DomainEvent) /\ more \in Seq(DomainEvent) /\ inbox' = inbox \o more
      /\ \A i \in DOMAIN more : more[i].kind \in {"queued", "start"} => more[i].msg \in Messages
  BY <1>1 DEF Publishes, Has, Typed, TypeOK
<1>3. /\ inbox' \in Seq(DomainEvent) /\ Len(inbox) \in Nat /\ Len(more) \in Nat
      /\ DOMAIN inbox = 1 .. Len(inbox) /\ DOMAIN more = 1 .. Len(more)
      /\ DOMAIN inbox' = 1 .. Len(inbox) + Len(more)
      /\ \A j \in 1 .. Len(inbox) : inbox'[j] = inbox[j]
      /\ \A j \in 1 .. Len(more) : inbox'[Len(inbox) + j] = more[j]
  BY <1>2, ConcatFacts
<1>4. Named'
  <2> SUFFICES ASSUME NEW i \in DOMAIN inbox', inbox'[i].kind \in {"queued", "start"}
               PROVE  inbox'[i].msg \in Messages
    BY DEF Named
  <2>1. CASE i \in 1 .. Len(inbox)
    BY <1>3, <2>1 DEF Typed, Named
  <2>2. CASE i \notin 1 .. Len(inbox)
    <3>1. i - Len(inbox) \in 1 .. Len(more) /\ i = Len(inbox) + (i - Len(inbox))
      BY <1>3, <2>2
    <3> QED
      BY <1>2, <1>3, <3>1
  <2> QED
    BY <2>1, <2>2
<1>5. ASSUME NEW m \in requeued', m \notin requeued
      PROVE  m \in Messages
  <2>1. PICK j \in DOMAIN events : m = events[j].msg /\ events[j].kind = "queued"
    BY <1>1, <1>5 DEF Publishes
  <2> QED
    BY <2>1
<1>6. requeued' \subseteq Messages
  BY <1>5 DEF Typed, TypeOK
<1> QED
  BY <1>1, <1>3, <1>4, <1>6 DEF Publishes, Typed, TypeOK

LEMMA InitTyped == Init => Typed
<1> SUFFICES ASSUME Init
             PROVE  Typed
  OBVIOUS
<1>1. inbox = <<>> /\ runtime = <<>> /\ queue = <<>> /\ given = <<>> /\ lined = <<>>
  BY DEF Init
<1>2. Named
  BY <1>1 DEF Named
<1>3. inbox \in Seq(DomainEvent) /\ runtime \in Seq(RuntimeEvent) /\ terminal \in Nat
  BY <1>1 DEF Init
<1>4. queue \in Seq(Messages) /\ given \in Seq(Messages) /\ lined \in Seq(Messages)
  BY <1>1
<1>5. session \in Session /\ ingest \in Session
  BY DEF Init, Session, Statuses, NoSession
<1>6. work \in Work /\ (work.msg = None <=> work.at \in {"idle", "stopping", "stopped"})
  BY DEF Init, Work, Positions, Idle
<1>7. /\ provider \in [live: BOOLEAN, turn: Messages \cup {None}]
      /\ provider.turn # None => provider.live
  BY DEF Init
<1>8. /\ holding \in [Fibers -> Messages \cup {None}] /\ fate \in [Messages -> Fates]
      /\ promotions \in [Messages -> Nat]
  BY DEF Init, Fates
<1>9. /\ draining \in BOOLEAN /\ handled \subseteq Messages \X Nat /\ codex \in BOOLEAN
      /\ up \in BOOLEAN /\ requeued \subseteq Messages /\ troubles \subseteq Troubles
  BY DEF Init
<1>10. TypeOK
  BY <1>3, <1>4, <1>5, <1>6, <1>7, <1>8, <1>9 DEF TypeOK
<1> QED
  BY <1>2, <1>10 DEF Typed

LEMMA UserTyped ==
    ASSUME Typed, User
    PROVE  Typed'
<1>1. ASSUME NEW m \in Messages, TurnStart(m)
      PROVE  Typed'
  <2> DEFINE events == IF ~ShouldQueue(m) THEN <<Event("start", m)>>
                       ELSE IF m \in Urgent THEN <<Event("queued", m), Event("interrupt", None)>>
                       ELSE <<Event("queued", m)>>
  <2>1. /\ Event("start", m) \in DomainEvent /\ Event("queued", m) \in DomainEvent
        /\ Event("interrupt", None) \in DomainEvent
    BY DEF Event, DomainEvent
  <2>2. events \in Seq(DomainEvent)
    BY <2>1
  <2>3. \A i \in DOMAIN events : events[i].kind \in {"queued", "start"} => events[i].msg \in Messages
    BY DEF Event
  <2>4. Publish(events)
    BY <1>1 DEF TurnStart
  <2> HIDE DEF events
  <2>5. /\ inbox' \in Seq(DomainEvent) /\ Named' /\ requeued' \subseteq Messages
        /\ troubles' \subseteq Troubles
    BY <2>2, <2>3, <2>4, PublishTyped
  <2>6. fate' \in [Messages -> Fates] /\ lined' \in Seq(Messages)
    BY <1>1, AppendFacts DEF TurnStart, Typed, TypeOK, Fates
  <2> QED
    BY <1>1, <2>5, <2>6 DEF TurnStart, Typed, TypeOK, reactor, drains, host
<1>2. ASSUME SessionStop
      PROVE  Typed'
  <2>1. Event("stop", None) \in DomainEvent /\ Event("stop", None).kind = "stop"
    BY DEF Event, DomainEvent
  <2>2. /\ inbox' \in Seq(DomainEvent) /\ DOMAIN inbox' = 1 .. Len(inbox) + 1
        /\ DOMAIN inbox = 1 .. Len(inbox) /\ Len(inbox) \in Nat
        /\ inbox'[Len(inbox) + 1] = Event("stop", None)
        /\ \A j \in 1 .. Len(inbox) : inbox'[j] = inbox[j]
    BY <1>2, <2>1, AppendFacts DEF SessionStop, Typed, TypeOK
  <2>3. Named'
    BY <2>1, <2>2 DEF Typed, Named
  <2> QED
    BY <1>2, <2>2, <2>3, Faults
       DEF SessionStop, Typed, TypeOK, reactor, drains, host, history, lineage
<1> QED
  BY <1>1, <1>2 DEF User
\* Where a step leaves the inbox and the turn ends alone.
LEMMA SameInbox == Typed /\ inbox' = inbox => Named' /\ inbox' \in Seq(DomainEvent)
BY DEF Typed, TypeOK, Named

LEMMA DrainTyped ==
    ASSUME Typed, NEW f \in Fibers, Promote(f) \/ PromoteFails(f)
    PROVE  Typed'
<1> DEFINE m == holding[f]
<1>1. m \in Messages /\ f \in Fibers
  BY DEF Promote, PromoteFails, Typed, TypeOK
<1>2. ASSUME Promote(f)
      PROVE  Typed'
  <2>1. promotions[m] + 1 \in Nat
    BY <1>1 DEF Typed, TypeOK
  <2>2. Promoted(m) \in DomainEvent /\ Promoted(m).msg \in Messages
    BY <1>1, <2>1 DEF Promoted, DomainEvent
  <2> DEFINE events == <<Promoted(m)>>
  <2>3. events \in Seq(DomainEvent)
    BY <2>2
  <2>4. \A i \in DOMAIN events : events[i].kind \in {"queued", "start"} => events[i].msg \in Messages
    BY <2>2
  <2>5. Publish(events)
    BY <1>2 DEF Promote
  <2> HIDE DEF events
  <2>6. /\ inbox' \in Seq(DomainEvent) /\ Named' /\ requeued' \subseteq Messages
        /\ troubles' \subseteq Troubles
    BY <2>3, <2>4, <2>5, PublishTyped
  <2>7. promotions' \in [Messages -> Nat] /\ holding' \in [Fibers -> Messages \cup {None}]
    BY <1>1, <1>2, <2>1 DEF Promote, Typed, TypeOK
  <2> QED
    BY <1>2, <2>6, <2>7 DEF Promote, Typed, TypeOK, host
<1>3. ASSUME PromoteFails(f)
      PROVE  Typed'
  <2>1. fate' \in [Messages -> Fates] /\ troubles' \subseteq Troubles
    BY <1>3, SettleTyped, Faults DEF PromoteFails, Fault, Fates, Typed
  <2>2. holding' \in [Fibers -> Messages \cup {None}]
    BY <1>3 DEF PromoteFails, Typed, TypeOK
  <2> QED
    BY <1>3, <2>1, <2>2, SameInbox DEF PromoteFails, Typed, TypeOK, inputs, lineage, host
<1> QED
  BY <1>2, <1>3

LEMMA DrainerTyped ==
    ASSUME Typed, Drainer
    PROVE  Typed'
<1>1. "events" \in Fibers
  BY DEF Fibers
<1>2. ASSUME TakeTerminal
      PROVE  Typed'
  <2>1. terminal' \in Nat
    BY <1>2 DEF TakeTerminal, Typed, TypeOK
  <2>2. /\ queue' \in Seq(Messages) /\ draining' \in BOOLEAN
        /\ holding' \in [Fibers -> Messages \cup {None}]
    BY <1>1, <1>2, BeginDrainFacts DEF TakeTerminal, Typed
  <2> QED
    BY <1>2, <2>1, <2>2, SameInbox DEF TakeTerminal, Typed, TypeOK, host, history, lineage
<1> QED
  BY <1>1, <1>2, DrainTyped DEF Drainer

LEMMA IngestionTyped ==
    ASSUME Typed, Ingestion
    PROVE  Typed'
<1>1. ASSUME TakeRuntime
      PROVE  Typed'
  <2>1. runtime \in Seq(RuntimeEvent) /\ runtime # <<>>
    BY <1>1 DEF TakeRuntime, Typed, TypeOK
  <2>2. Head(runtime) \in RuntimeEvent /\ Tail(runtime) \in Seq(RuntimeEvent)
    BY <2>1, TailFacts
  <2>3. /\ Head(runtime).kind \in {"opened", "started", "ended", "exited"}
        /\ Head(runtime).turn \in Messages \cup {None}
    BY <2>2 DEF RuntimeEvent
  <2>4. Projected(Head(runtime)) \in Session
    BY <2>3 DEF Projected, Session, Statuses, Typed, TypeOK
  <2>5. NoSession \in Session
    BY DEF NoSession, Session, Statuses
  <2>6. ingest' \in Session
    BY <1>1, <2>4, <2>5 DEF TakeRuntime
  <2> QED
    BY <1>1, <2>2, <2>6, SameInbox
       DEF TakeRuntime, Typed, TypeOK, host, reactor, drains, history, lineage
<1>2. ASSUME SetSession \/ SetSessionFails
      PROVE  Typed'
  <2>1. NoSession \in Session
    BY DEF NoSession, Session, Statuses
  <2>2. session' \in Session /\ ingest' \in Session
    BY <1>2, <2>1 DEF SetSession, SetSessionFails, Typed, TypeOK
  <2>3. troubles' \subseteq Troubles
    BY <1>2, Faults DEF SetSession, SetSessionFails, Fault, Typed, TypeOK
  <2> QED
    BY <1>2, <2>2, <2>3, SameInbox
       DEF SetSession, SetSessionFails, Typed, TypeOK, inputs, host, reactor, drains, history, lineage
<1> QED
  BY <1>1, <1>2 DEF Ingestion

LEMMA AroundTyped ==
    ASSUME Typed, TurnEnds \/ SessionExits \/ Crash \/ Restart
    PROVE  Typed'
<1>1. ASSUME TurnEnds
      PROVE  Typed'
  <2>1. provider.turn \in Messages
    BY <1>1 DEF TurnEnds, Typed, TypeOK
  <2>2. <<Ended(provider.turn)>> \in Seq(RuntimeEvent)
    BY <2>1 DEF Ended, RuntimeEvent
  <2>3. runtime' \in Seq(RuntimeEvent) /\ terminal' \in Nat
    BY <1>1, <2>2, EmitFacts DEF TurnEnds, Typed
  <2>4. /\ provider' \in [live: BOOLEAN, turn: Messages \cup {None}]
        /\ provider'.turn # None => provider'.live
    BY <1>1 DEF TurnEnds, Typed, TypeOK
  <2> QED
    BY <1>1, <2>3, <2>4, SameInbox
       DEF TurnEnds, Typed, TypeOK, host, reactor, drains, history, lineage
<1>2. ASSUME SessionExits
      PROVE  Typed'
  <2>1. PICK closing \in Closings : Emit(closing)
    BY <1>2 DEF SessionExits
  <2>2. runtime' \in Seq(RuntimeEvent) /\ terminal' \in Nat
    BY <2>1, ClosingsTyped, EmitFacts DEF Typed
  <2>3. troubles' \subseteq Troubles
    BY <1>2, Faults DEF SessionExits, Typed
  <2> QED
    BY <1>2, <2>2, <2>3, SameInbox
       DEF SessionExits, Typed, TypeOK, host, reactor, drains, history, lineage
<1>3. ASSUME Crash
      PROVE  Typed'
  <2>1. fate' \in [Messages -> Fates] /\ troubles' \subseteq Troubles
    BY <1>3, SettleTyped, Faults DEF Crash, Fates, Typed
  <2>2. /\ inbox' = <<>> /\ runtime' = <<>> /\ queue' = <<>>
        /\ inbox' \in Seq(DomainEvent) /\ runtime' \in Seq(RuntimeEvent) /\ queue' \in Seq(Messages)
    BY <1>3 DEF Crash
  <2>3. Named'
    BY <2>2 DEF Named
  <2>4. NoSession \in Session /\ Idle \in Work /\ Idle.msg = None /\ Idle.at = "idle"
    BY DEF NoSession, Session, Statuses, Idle, Work, Positions
  <2>5. holding' \in [Fibers -> Messages \cup {None}] /\ handled' \subseteq Messages \X Nat
    BY <1>3 DEF Crash
  <2> QED
    BY <1>3, <2>1, <2>2, <2>3, <2>4, <2>5 DEF Crash, Typed, TypeOK, lineage
<1>4. ASSUME Restart
      PROVE  Typed'
  <2>1. session' \in Session
    BY <1>4 DEF Restart, Session, Statuses, Typed, TypeOK
  <2>2. troubles' \subseteq Troubles
    BY <1>4, Faults DEF Restart, Fault, Typed, TypeOK
  <2> QED
    BY <1>4, <2>1, <2>2, SameInbox
       DEF Restart, Typed, TypeOK, inputs, reactor, drains, history, lineage
<1> QED
  BY <1>1, <1>2, <1>3, <1>4

LEMMA WorkerTyped ==
    ASSUME Typed, Worker
    PROVE  Typed'
<1> USE DEF Typed
<1>1. Idle \in Work /\ Idle.msg = None /\ Idle.at = "idle"
  BY DEF Idle, Work, Positions
<1>2. ASSUME TakeQueued
      PROVE  Typed'
  <2>1. /\ inbox' \in Seq(DomainEvent) /\ Named' /\ Head(inbox).msg \in Messages
    BY <1>2, TakesFacts DEF TakeQueued
  <2>2. Enqueued(Head(inbox).msg) \in Seq(Messages)
    <3>1. <<Head(inbox).msg>> \in Seq(Messages) /\ queue \in Seq(Messages)
      BY <2>1 DEF TypeOK
    <3> QED
      BY <2>1, <3>1, AppendFacts, ConcatFacts DEF Enqueued
  <2> QED
    BY <1>2, <2>1, <2>2 DEF TakeQueued, TypeOK, host, history, lineage
<1>3. ASSUME TakeInterrupt
      PROVE  Typed'
  BY <1>3, TakesFacts DEF TakeInterrupt, TypeOK, host, history, lineage, reactor, drains
<1>4. ASSUME TakeStart
      PROVE  Typed'
  <2>1. /\ inbox' \in Seq(DomainEvent) /\ Named' /\ Head(inbox).msg \in Messages
        /\ Head(inbox) \in DomainEvent
    BY <1>4, TakesFacts DEF TakeStart
  <2>2. Head(inbox).id \in Nat
    BY <2>1 DEF DomainEvent
  <2>3. handled' \subseteq Messages \X Nat
    BY <1>4, <2>1, <2>2 DEF TakeStart, TypeOK
  <2>4. work' \in Work /\ (work'.msg = None <=> work'.at \in {"idle", "stopping", "stopped"})
    BY <1>4, <2>1, MessagesAssumption DEF TakeStart, TypeOK, Work, Positions, None
  <2> QED
    BY <1>4, <2>1, <2>3, <2>4 DEF TakeStart, TypeOK, host, history, lineage, drains
<1>5. ASSUME TakeStop
      PROVE  Typed'
  <2>1. inbox' \in Seq(DomainEvent) /\ Named'
    BY <1>5, TakesFacts DEF TakeStop
  <2>2. fate' \in [Messages -> Fates]
    BY <1>5, SettleTyped DEF TakeStop, Fates
  <2>3. work' \in Work /\ work'.msg = None /\ work'.at = "stopping"
    BY <1>5 DEF TakeStop, Idle, Work, Positions
  <2>4. queue' \in Seq(Messages) /\ draining' \in BOOLEAN
    <3>1. queue' = <<>> /\ (draining' = FALSE)
      BY <1>5 DEF TakeStop
    <3>2. queue' \in Seq(Messages)
      BY <3>1
    <3>3. draining' \in BOOLEAN
      BY <3>1, Zenon
    <3> QED
      BY <3>2, <3>3
  <2> QED
    BY <1>5, <2>1, <2>2, <2>3, <2>4 DEF TakeStop, TypeOK, host, lineage
<1>6. ASSUME StopProvider
      PROVE  Typed'
  <2>1. work' \in Work /\ work'.msg = work.msg /\ work'.at = "stopped"
    BY <1>6 DEF StopProvider, TypeOK, Work, Positions
  <2>2. runtime' \in Seq(RuntimeEvent) /\ terminal' \in Nat
    <3>1. CASE \E closing \in Closings : Emit(closing)
      BY <3>1, ClosingsTyped, EmitFacts
    <3>2. CASE UNCHANGED <<provider, runtime, terminal>>
      BY <3>2 DEF TypeOK
    <3> QED
      BY <1>6, <3>1, <3>2 DEF StopProvider
  <2>3. /\ provider' \in [live: BOOLEAN, turn: Messages \cup {None}]
        /\ provider'.turn # None => provider'.live
    <3>1. \/ provider' = [live |-> FALSE, turn |-> None]
          \/ provider' = provider
      BY <1>6 DEF StopProvider
    <3>2. CASE provider' = [live |-> FALSE, turn |-> None]
      BY <3>2
    <3>3. CASE provider' = provider
      BY <3>3 DEF TypeOK
    <3> QED
      BY <3>1, <3>2, <3>3
  <2>4. work'.msg = None
    BY <1>6, <2>1 DEF StopProvider, At, TypeOK
  <2> QED
    BY <1>6, <2>1, <2>2, <2>3, <2>4, SameInbox DEF StopProvider, TypeOK, host, history, lineage, drains
<1>7. ASSUME SetStopped \/ BindSession \/ MarkStarting
      PROVE  Typed'
  <2>1. session' \in Session
    BY <1>7 DEF SetStopped, BindSession, MarkStarting, Session, Statuses
  <2>2. work' \in Work /\ (work'.msg = None <=> work'.at \in {"idle", "stopping", "stopped"})
    BY <1>1, <1>7 DEF SetStopped, BindSession, MarkStarting, At, TypeOK, Work, Positions
  <2> QED
    BY <1>7, <2>1, <2>2, SameInbox
       DEF SetStopped, BindSession, MarkStarting, TypeOK, inputs, drains, host, history, lineage
<1>8. ASSUME StoppingFails \/ StartFails
      PROVE  Typed'
  <2>1. troubles' \subseteq Troubles
    BY <1>8, Faults DEF StoppingFails, StartFails, Fault, TypeOK
  <2>2. work' \in Work /\ (work'.msg = None <=> work'.at \in {"idle", "stopping", "stopped"})
    BY <1>1, <1>8 DEF StoppingFails, StartFails, TypeOK, Work, Positions
  <2> QED
    BY <1>8, <2>1, <2>2, SameInbox
       DEF StoppingFails, StartFails, TypeOK, inputs, drains, host, history, lineage
<1>9. ASSUME MarkingFails \/ ReportingFails
      PROVE  Typed'
  <2>1. troubles' \subseteq Troubles /\ fate' \in [Messages -> Fates]
    BY <1>9, Faults, SettleTyped DEF MarkingFails, ReportingFails, Fault, Fates
  <2> QED
    BY <1>1, <1>9, <2>1, SameInbox
       DEF MarkingFails, ReportingFails, TypeOK, inputs, drains, host, lineage
<1>10. ASSUME EnsureSession
       PROVE  Typed'
  <2>1. work' \in Work /\ (work'.msg = None <=> work'.at \in {"idle", "stopping", "stopped"})
    BY <1>10 DEF EnsureSession, At, TypeOK, Work, Positions
  <2>2. <<Opened>> \in Seq(RuntimeEvent)
    BY DEF Opened, RuntimeEvent
  <2>3. CASE UNCHANGED <<runtime, terminal, provider, troubles>>
    BY <1>10, <2>1, <2>3, SameInbox
       DEF EnsureSession, TypeOK, drains, host, history, lineage
  <2>4. CASE /\ provider' = [live |-> TRUE, turn |-> None]
             /\ \/ /\ provider.live
                   /\ \E closing \in Closings : Emit(Append(closing, Opened))
                   /\ UNCHANGED troubles
                \/ /\ Emit(<<Opened>>)
                   /\ IF provider.live THEN Trouble("silent") ELSE UNCHANGED troubles
    <3>1. \E events \in Seq(RuntimeEvent) : Emit(events)
      BY <2>2, <2>4, ClosingsTyped
    <3>2. runtime' \in Seq(RuntimeEvent) /\ terminal' \in Nat
      BY <3>1, EmitFacts
    <3>3. troubles' \subseteq Troubles
      BY <2>4, Faults DEF TypeOK
    <3> QED
      BY <1>10, <2>1, <2>4, <3>2, <3>3, SameInbox
         DEF EnsureSession, TypeOK, drains, host, history, lineage
  <2> QED
    BY <1>10, <2>3, <2>4 DEF EnsureSession
<1>11. ASSUME SteerTurn \/ SendTurn
       PROVE  Typed'
  <2>1. work.msg \in Messages
    BY <1>11 DEF SteerTurn, SendTurn, At, TypeOK, Work
  <2>2. given' \in Seq(Messages)
    <3>1. given \in Seq(Messages) /\ given' = Append(given, work.msg)
      BY <1>11 DEF SteerTurn, SendTurn, Give, TypeOK
    <3> QED
      BY <2>1, <3>1, AppendFacts
  <2>3. fate' \in [Messages -> Fates] /\ work' = Idle
    BY <1>11, SettleTyped DEF SteerTurn, SendTurn, Give, Fates
  <2>4. /\ runtime' \in Seq(RuntimeEvent) /\ terminal' \in Nat
        /\ provider' \in [live: BOOLEAN, turn: Messages \cup {None}]
        /\ provider'.turn # None => provider'.live
    <3>1. CASE SteerTurn
      BY <3>1 DEF SteerTurn, TypeOK, inputs
    <3>2. CASE SendTurn
      <4>1. Started(work.msg) \in RuntimeEvent /\ \A m \in Messages : Ended(m) \in RuntimeEvent
        BY <2>1 DEF Started, Ended, RuntimeEvent
      <4>2. \E events \in Seq(RuntimeEvent) : Emit(events)
        <5>1. <<Started(work.msg)>> \in Seq(RuntimeEvent)
          BY <4>1
        <5>2. provider.turn # None => <<Ended(provider.turn)>> \in Seq(RuntimeEvent)
          BY <4>1 DEF TypeOK
        <5> DEFINE closed == IF provider.turn # None THEN <<Ended(provider.turn)>> ELSE <<>>
        <5>3. closed \in Seq(RuntimeEvent)
          BY <5>2
        <5>4. Emit(closed \o <<Started(work.msg)>>)
          BY <3>2 DEF SendTurn
        <5> HIDE DEF closed
        <5>5. closed \o <<Started(work.msg)>> \in Seq(RuntimeEvent)
          BY <5>1, <5>3, ConcatFacts
        <5> QED
          BY <5>4, <5>5
      <4>3. runtime' \in Seq(RuntimeEvent) /\ terminal' \in Nat
        BY <4>2, EmitFacts
      <4> QED
        BY <2>1, <3>2, <4>3 DEF SendTurn
    <3> QED
      BY <1>11, <3>1, <3>2
  <2> QED
    BY <1>1, <1>11, <2>2, <2>3, <2>4, SameInbox
       DEF SteerTurn, SendTurn, TypeOK, inputs, drains, host, lineage
<1>12. ASSUME ReportFailure
       PROVE  Typed'
  <2>1. session' \in Session
    BY <1>12 DEF ReportFailure, Session, Statuses
  <2>2. work' \in Work /\ (work'.msg = None <=> work'.at \in {"idle", "stopping", "stopped"})
    BY <1>12 DEF ReportFailure, At, TypeOK, Work, Positions
  <2>3. fate' \in [Messages -> Fates]
    BY <1>12, SettleTyped DEF ReportFailure, Fates
  <2> QED
    BY <1>12, <2>1, <2>2, <2>3, SameInbox
       DEF ReportFailure, TypeOK, inputs, drains, host, lineage
<1>13. ASSUME WorkerDrains
       PROVE  Typed'
  <2>1. /\ queue' \in Seq(Messages) /\ draining' \in BOOLEAN
        /\ holding' \in [Fibers -> Messages \cup {None}]
    BY <1>13, BeginDrainFacts DEF WorkerDrains, DrainAfterFailure, Fibers
  <2> QED
    BY <1>1, <1>13, <2>1, SameInbox
       DEF WorkerDrains, TypeOK, inputs, host, history, lineage
<1>14. "worker" \in Fibers
  BY DEF Fibers
<1> QED
  BY <1>2, <1>3, <1>4, <1>5, <1>6, <1>7, <1>8, <1>9, <1>10, <1>11, <1>12, <1>13, <1>14, DrainTyped
     DEF Worker

LEMMA TypedStep == Typed /\ [Next]_vars => Typed'
<1>1. Typed /\ UNCHANGED vars => Typed'
  BY DEF Typed, TypeOK, Named, vars, inputs, drains, reactor, host, lineage, history
<1> QED
  BY <1>1, UserTyped, WorkerTyped, DrainerTyped, IngestionTyped, AroundTyped DEF Next

\* Typed holds always: every variable has its type, and what is on its way names messages.
THEOREM AlwaysTyped == Spec => []Typed
BY InitTyped, TypedStep, PTL DEF Spec

\* Every variable keeps its type, whatever goes wrong and however often.
THEOREM TypeCorrect == Spec => []TypeOK
<1>1. Typed => TypeOK
  BY DEF Typed
<1> QED
  BY <1>1, AlwaysTyped, PTL
-----------------------------------------------------------------------------------
\* Where a message is.

QueuesAt(i, m) == inbox[i].kind = "queued" /\ inbox[i].msg = m
StartsAt(i, m) == inbox[i].kind = "start" /\ inbox[i].msg = m /\ <<m, inbox[i].id>> \notin handled

QueuedComing(m) == \E i \in DOMAIN inbox : QueuesAt(i, m)
StartComing(m) == \E i \in DOMAIN inbox : StartsAt(i, m)
IsHeld(m) == \E f \in Fibers : holding[f] = m
Working(m) == work.msg = m /\ work.at # "draining"

\* It is in at most one place, and in one just while it is pending.
OnePlace(m) ==
    /\ QueuedComing(m) => ~(StartComing(m) \/ Has(queue, m) \/ IsHeld(m) \/ Working(m))
    /\ StartComing(m) => ~(Has(queue, m) \/ IsHeld(m) \/ Working(m))
    /\ Has(queue, m) => ~(IsHeld(m) \/ Working(m))
    /\ IsHeld(m) => ~Working(m)
    /\ fate[m] = "pending" <=>
        QueuedComing(m) \/ StartComing(m) \/ Has(queue, m) \/ IsHeld(m) \/ Working(m)

\* And there it is only once; what is published again starts it under the same id.
OneQueued(m) == \A i, j \in DOMAIN inbox : QueuesAt(i, m) /\ QueuesAt(j, m) => i = j
OneStart(m) == \A i, j \in DOMAIN inbox : StartsAt(i, m) /\ StartsAt(j, m) => inbox[i].id = inbox[j].id
OneHolder(m) == \A f, g \in Fibers : holding[f] = m /\ holding[g] = m => f = g
OneEach(m) == OneQueued(m) /\ OneStart(m) /\ OneHolder(m) /\ Once(queue, m)

Fresh(m) == fate[m] = "unsent" => \A n \in Nat : <<m, n>> \notin handled
GivenFine(m) == Once(given, m) /\ (Has(given, m) <=> fate[m] = "given")

Lives(m) == OnePlace(m) /\ OneEach(m) /\ Fresh(m) /\ GivenFine(m)

\* The ids of a message's commands are at most the number of its promotions.
Ids ==
    /\ \A i \in DOMAIN inbox : inbox[i].kind \in {"queued", "start"}
            => inbox[i].id <= promotions[inbox[i].msg]
    /\ \A m \in Messages, n \in Nat : <<m, n>> \in handled => n <= promotions[m]

WorkerHolds == holding["worker"] # None => work.at = "idle"

Living == Typed /\ Ids /\ WorkerHolds /\ \A m \in Messages \ requeued : Lives(m)

-----------------------------------------------------------------------------------
\* What a step does to the inbox.

LEMMA PublishedAt ==
    ASSUME inbox \in Seq(DomainEvent), NEW events \in Seq(DomainEvent), NEW more, Publishes(events, more)
    PROVE  /\ Len(inbox) \in Nat /\ DOMAIN inbox = 1 .. Len(inbox)
           /\ \A i \in DOMAIN inbox : i \in DOMAIN inbox' /\ inbox'[i] = inbox[i]
           /\ \A i \in DOMAIN inbox' \ DOMAIN inbox :
                i \in Nat /\ i > Len(inbox) /\ \E j \in DOMAIN events : inbox'[i] = events[j]
           /\ \A j \in DOMAIN events : \E i \in DOMAIN inbox' \ DOMAIN inbox : inbox'[i] = events[j]
           /\ more = events => \A i \in DOMAIN inbox' \ DOMAIN inbox :
                i - Len(inbox) \in DOMAIN events /\ inbox'[i] = events[i - Len(inbox)]
<1>1. more \in Seq(DomainEvent) /\ inbox' = inbox \o more
  BY DEF Publishes
<1>2. /\ Len(inbox) \in Nat /\ Len(more) \in Nat
      /\ DOMAIN inbox = 1 .. Len(inbox) /\ DOMAIN more = 1 .. Len(more)
      /\ DOMAIN inbox' = 1 .. Len(inbox) + Len(more)
      /\ \A j \in 1 .. Len(inbox) : inbox'[j] = inbox[j]
      /\ \A j \in 1 .. Len(more) : inbox'[Len(inbox) + j] = more[j]
  BY <1>1, ConcatFacts
<1>3. ASSUME NEW i \in DOMAIN inbox' \ DOMAIN inbox
      PROVE  /\ i \in Nat /\ i > Len(inbox)
             /\ i - Len(inbox) \in DOMAIN more /\ inbox'[i] = more[i - Len(inbox)]
  <2>1. i - Len(inbox) \in 1 .. Len(more) /\ i = Len(inbox) + (i - Len(inbox)) /\ i \in Nat /\ i > Len(inbox)
    BY <1>2
  <2> QED
    BY <1>2, <2>1
<1>4. ASSUME NEW i \in DOMAIN inbox' \ DOMAIN inbox
      PROVE  i \in Nat /\ i > Len(inbox) /\ \E j \in DOMAIN events : inbox'[i] = events[j]
  BY <1>3 DEF Publishes, Has
<1>5. ASSUME NEW j \in DOMAIN events
      PROVE  \E i \in DOMAIN inbox' \ DOMAIN inbox : inbox'[i] = events[j]
  <2>1. PICK k \in DOMAIN more : more[k] = events[j]
    BY DEF Publishes, Has
  <2>2. Len(inbox) + k \in DOMAIN inbox' \ DOMAIN inbox /\ inbox'[Len(inbox) + k] = events[j]
    BY <1>2, <2>1
  <2> QED
    BY <2>2
<1>6. \A i \in DOMAIN inbox : i \in DOMAIN inbox' /\ inbox'[i] = inbox[i]
  BY <1>2
<1>7. more = events => \A i \in DOMAIN inbox' \ DOMAIN inbox :
          i - Len(inbox) \in DOMAIN events /\ inbox'[i] = events[i - Len(inbox)]
  BY <1>3
<1> QED
  BY <1>2, <1>4, <1>5, <1>6, <1>7

\* The events of a command join what is coming.
LEMMA PublishedComing ==
    ASSUME inbox \in Seq(DomainEvent), NEW events \in Seq(DomainEvent), NEW more, Publishes(events, more),
           handled' = handled, NEW m
    PROVE  /\ QueuedComing(m)' <=> \/ QueuedComing(m)
                                   \/ \E j \in DOMAIN events : events[j].kind = "queued" /\ events[j].msg = m
           /\ StartComing(m)' <=> \/ StartComing(m)
                                  \/ \E j \in DOMAIN events : /\ events[j].kind = "start" /\ events[j].msg = m
                                                              /\ <<m, events[j].id>> \notin handled
           /\ (\A j \in DOMAIN events : events[j].kind = "start" => events[j].msg # m)
                => (OneStart(m) => OneStart(m)')
           /\ (\A j \in DOMAIN events : events[j].kind = "queued" => events[j].msg # m)
                => (OneQueued(m) => OneQueued(m)')
<1> DEFINE fresh == DOMAIN inbox' \ DOMAIN inbox
<1>1. /\ \A i \in DOMAIN inbox : i \in DOMAIN inbox' /\ inbox'[i] = inbox[i]
      /\ \A i \in fresh : \E j \in DOMAIN events : inbox'[i] = events[j]
      /\ \A j \in DOMAIN events : \E i \in fresh : inbox'[i] = events[j]
  BY PublishedAt
<1> HIDE DEF fresh
<1>2. \A i \in DOMAIN inbox' : i \in DOMAIN inbox \/ i \in fresh
  BY DEF fresh
<1>3. fresh \subseteq DOMAIN inbox'
  BY DEF fresh
<1>4. QueuedComing(m)' <=> \/ QueuedComing(m)
                           \/ \E j \in DOMAIN events : events[j].kind = "queued" /\ events[j].msg = m
  BY <1>1, <1>2, <1>3 DEF QueuedComing, QueuesAt
<1> DEFINE starts(j) == events[j].kind = "start" /\ events[j].msg = m /\ <<m, events[j].id>> \notin handled
<1>8. \A i \in DOMAIN inbox : StartsAt(i, m)' <=> StartsAt(i, m)
  BY <1>1 DEF StartsAt
<1>9. ASSUME NEW i \in fresh, NEW j \in DOMAIN events, inbox'[i] = events[j]
      PROVE  StartsAt(i, m)' <=> starts(j)
  <2>1. inbox'[i].kind = events[j].kind /\ inbox'[i].msg = events[j].msg /\ inbox'[i].id = events[j].id
    BY <1>9
  <2> QED
    BY <2>1 DEF StartsAt
<1>5. StartComing(m)' <=> StartComing(m) \/ \E j \in DOMAIN events : starts(j)
  <2> HIDE DEF starts
  <2> QED
    BY <1>1, <1>2, <1>3, <1>8, <1>9 DEF StartComing
<1>6. (\A j \in DOMAIN events : events[j].kind = "start" => events[j].msg # m)
        => (OneStart(m) => OneStart(m)')
  <2> SUFFICES ASSUME \A j \in DOMAIN events : ~starts(j), OneStart(m)
               PROVE  OneStart(m)'
    OBVIOUS
  <2> HIDE DEF starts
  <2> QED
    BY <1>1, <1>2, <1>8, <1>9 DEF OneStart
<1>7. (\A j \in DOMAIN events : events[j].kind = "queued" => events[j].msg # m)
        => (OneQueued(m) => OneQueued(m)')
  BY <1>1, <1>2 DEF OneQueued, QueuesAt
<1> QED
  BY <1>4, <1>5, <1>6, <1>7

\* The one event of a command that queues m is the one that comes, unless it is published again.
LEMMA PublishedOnce ==
    ASSUME inbox \in Seq(DomainEvent), NEW events \in Seq(DomainEvent), NEW more, Publishes(events, more),
           NEW m, m \notin requeued', ~QueuedComing(m),
           \A i, j \in DOMAIN events :
                events[i].kind = "queued" /\ events[i].msg = m /\ events[j].kind = "queued" /\ events[j].msg = m
                    => i = j
    PROVE  OneQueued(m)'
<1>1. CASE \A j \in DOMAIN events : ~(events[j].kind = "queued" /\ events[j].msg = m)
  <2>1. \A i \in DOMAIN inbox' : ~(inbox'[i].kind = "queued" /\ inbox'[i].msg = m)
    <3> SUFFICES ASSUME NEW i \in DOMAIN inbox'
                 PROVE  ~(inbox'[i].kind = "queued" /\ inbox'[i].msg = m)
      OBVIOUS
    <3>1. CASE i \in DOMAIN inbox
      BY <3>1, PublishedAt DEF QueuedComing, QueuesAt
    <3>2. CASE i \notin DOMAIN inbox
      <4>1. PICK j \in DOMAIN events : inbox'[i] = events[j]
        BY <3>2, PublishedAt
      <4> QED
        BY <1>1, <4>1
    <3> QED
      BY <3>1, <3>2
  <2> QED
    BY <2>1 DEF OneQueued, QueuesAt
<1>2. CASE \E j \in DOMAIN events : events[j].kind = "queued" /\ events[j].msg = m
  <2>1. more = events
    BY <1>2 DEF Publishes
  <2>2. /\ Len(inbox) \in Nat /\ DOMAIN inbox = 1 .. Len(inbox)
        /\ \A i \in DOMAIN inbox : i \in DOMAIN inbox' /\ inbox'[i] = inbox[i]
        /\ \A i \in DOMAIN inbox' \ DOMAIN inbox :
             i \in Nat /\ i - Len(inbox) \in DOMAIN events /\ inbox'[i] = events[i - Len(inbox)]
    BY <2>1, PublishedAt
  <2>3. \A i \in DOMAIN inbox' : inbox'[i].kind = "queued" /\ inbox'[i].msg = m => i \notin DOMAIN inbox
    BY <2>2 DEF QueuedComing, QueuesAt
  <2>4. ASSUME NEW i \in DOMAIN inbox', NEW j \in DOMAIN inbox',
               inbox'[i].kind = "queued", inbox'[i].msg = m,
               inbox'[j].kind = "queued", inbox'[j].msg = m
        PROVE  i = j
    <3>1. i - Len(inbox) = j - Len(inbox) /\ i \in Nat /\ j \in Nat
      BY <2>2, <2>3, <2>4
    <3> QED
      BY <2>2, <3>1
  <2> QED
    BY <2>4 DEF OneQueued, QueuesAt
<1> QED
  BY <1>1, <1>2

\* The worker takes the first event.
LEMMA TakenQueued ==
    ASSUME Typed, NEW kind, Takes(kind), NEW m
    PROVE  /\ QueuedComing(m)' => QueuedComing(m)
           /\ QueuedComing(m) => QueuedComing(m)' \/ QueuesAt(1, m)
           /\ QueuesAt(1, m) => QueuedComing(m)
           /\ OneQueued(m) => OneQueued(m)'
           /\ OneQueued(m) /\ QueuesAt(1, m) => ~QueuedComing(m)'
<1>1. inbox \in Seq(DomainEvent) /\ inbox # <<>> /\ inbox' = Tail(inbox)
  BY DEF Takes, Typed, TypeOK
<1>2. /\ Len(inbox) \in Nat \ {0} /\ DOMAIN inbox = 1 .. Len(inbox)
      /\ DOMAIN inbox' = 1 .. Len(inbox) - 1
      /\ \A j \in 1 .. Len(inbox) - 1 : inbox'[j] = inbox[j + 1]
  BY <1>1, TailFacts
<1>3. \A j \in DOMAIN inbox' : j \in Nat /\ j + 1 \in DOMAIN inbox /\ j + 1 # 1 /\ inbox'[j] = inbox[j + 1]
  BY <1>2
<1>4. \A i \in DOMAIN inbox : i = 1 \/ (i - 1 \in DOMAIN inbox' /\ inbox'[i - 1] = inbox[i])
  <2> SUFFICES ASSUME NEW i \in DOMAIN inbox, i # 1
               PROVE  i - 1 \in DOMAIN inbox' /\ inbox'[i - 1] = inbox[i]
    OBVIOUS
  <2>1. i - 1 \in 1 .. Len(inbox) - 1 /\ (i - 1) + 1 = i
    BY <1>2
  <2> QED
    BY <1>2, <2>1
<1>5. 1 \in DOMAIN inbox
  BY <1>2
<1>6. (QueuedComing(m)' => QueuedComing(m)) /\ (QueuedComing(m) => QueuedComing(m)' \/ QueuesAt(1, m))
  BY <1>3, <1>4 DEF QueuedComing, QueuesAt
<1>7. OneQueued(m) => OneQueued(m)'
  <2> SUFFICES ASSUME OneQueued(m), NEW i \in DOMAIN inbox', NEW j \in DOMAIN inbox',
                      inbox'[i].kind = "queued", inbox'[i].msg = m,
                      inbox'[j].kind = "queued", inbox'[j].msg = m
               PROVE  i = j
    BY DEF OneQueued, QueuesAt
  <2>1. i + 1 = j + 1
    BY <1>3 DEF OneQueued, QueuesAt
  <2> QED
    BY <1>3, <2>1
<1>8. OneQueued(m) /\ QueuesAt(1, m) => ~QueuedComing(m)'
  BY <1>3, <1>5 DEF OneQueued, QueuedComing, QueuesAt
<1> QED
  BY <1>5, <1>6, <1>7, <1>8 DEF QueuedComing

LEMMA TakenStart ==
    ASSUME Typed, NEW kind, Takes(kind), NEW m
    PROVE  /\ StartsAt(1, m) => StartComing(m)
           /\ handled' = handled => /\ StartComing(m)' => StartComing(m)
                                    /\ StartComing(m) => StartComing(m)' \/ StartsAt(1, m)
                                    /\ OneStart(m) => OneStart(m)'
           /\ handled' = handled \cup {<<inbox[1].msg, inbox[1].id>>}
                => /\ StartComing(m)' => StartComing(m)
                   /\ OneStart(m) => OneStart(m)'
                   /\ OneStart(m) /\ StartsAt(1, m) => ~StartComing(m)'
                   /\ inbox[1].msg # m /\ StartComing(m) => StartComing(m)'
<1>1. inbox \in Seq(DomainEvent) /\ inbox # <<>> /\ inbox' = Tail(inbox)
  BY DEF Takes, Typed, TypeOK
<1>2. /\ Len(inbox) \in Nat \ {0} /\ DOMAIN inbox = 1 .. Len(inbox)
      /\ DOMAIN inbox' = 1 .. Len(inbox) - 1
      /\ \A j \in 1 .. Len(inbox) - 1 : inbox'[j] = inbox[j + 1]
  BY <1>1, TailFacts
<1>3. \A j \in DOMAIN inbox' : j + 1 \in DOMAIN inbox /\ inbox'[j] = inbox[j + 1]
  BY <1>2
<1>4. \A i \in DOMAIN inbox : i = 1 \/ (i - 1 \in DOMAIN inbox' /\ inbox'[i - 1] = inbox[i])
  <2> SUFFICES ASSUME NEW i \in DOMAIN inbox, i # 1
               PROVE  i - 1 \in DOMAIN inbox' /\ inbox'[i - 1] = inbox[i]
    OBVIOUS
  <2>1. i - 1 \in 1 .. Len(inbox) - 1 /\ (i - 1) + 1 = i
    BY <1>2
  <2> QED
    BY <1>2, <2>1
<1>5. 1 \in DOMAIN inbox
  BY <1>2
<1>6. handled' = handled => /\ StartComing(m)' => StartComing(m)
                            /\ StartComing(m) => StartComing(m)' \/ StartsAt(1, m)
                            /\ OneStart(m) => OneStart(m)'
  <2> SUFFICES ASSUME handled' = handled
               PROVE  /\ StartComing(m)' => StartComing(m)
                      /\ StartComing(m) => StartComing(m)' \/ StartsAt(1, m)
                      /\ OneStart(m) => OneStart(m)'
    OBVIOUS
  <2>1. \A j \in DOMAIN inbox' : StartsAt(j, m)' <=> StartsAt(j + 1, m)
    BY <1>3 DEF StartsAt
  <2>2. \A i \in DOMAIN inbox : i = 1 \/ (i - 1 \in DOMAIN inbox' /\ (StartsAt(i, m) => StartsAt(i - 1, m)'))
    BY <1>4 DEF StartsAt
  <2> QED
    BY <1>3, <2>1, <2>2 DEF StartComing, OneStart
<1>7. ASSUME handled' = handled \cup {<<inbox[1].msg, inbox[1].id>>}
      PROVE  /\ StartComing(m)' => StartComing(m)
             /\ OneStart(m) => OneStart(m)'
             /\ OneStart(m) /\ StartsAt(1, m) => ~StartComing(m)'
             /\ inbox[1].msg # m /\ StartComing(m) => StartComing(m)'
  <2>1. \A i \in DOMAIN inbox' : inbox'[i].kind = "start" /\ inbox'[i].msg = m
                                 /\ <<m, inbox'[i].id>> \notin handled' => StartsAt(i + 1, m)
    BY <1>3, <1>7 DEF StartsAt
  <2>2. StartComing(m)' => StartComing(m)
    BY <1>3, <2>1 DEF StartComing, StartsAt
  <2>3. OneStart(m) => OneStart(m)'
    BY <1>3, <2>1 DEF OneStart, StartsAt
  <2>4. OneStart(m) /\ StartsAt(1, m) => ~StartComing(m)'
    BY <1>3, <1>5, <1>7, <2>1 DEF OneStart, StartComing, StartsAt
  <2>5. inbox[1].msg # m /\ StartComing(m) => StartComing(m)'
    <3> SUFFICES ASSUME inbox[1].msg # m, NEW i \in DOMAIN inbox, StartsAt(i, m)
                 PROVE  StartComing(m)'
      BY DEF StartComing
    <3>1. i # 1 /\ i - 1 \in DOMAIN inbox' /\ inbox'[i - 1] = inbox[i]
      BY <1>4 DEF StartsAt
    <3>2. <<m, inbox[i].id>> \notin handled'
      BY <1>7 DEF StartsAt
    <3> QED
      BY <3>1, <3>2 DEF StartComing, StartsAt
  <2> QED
    BY <2>2, <2>3, <2>4, <2>5
<1> QED
  BY <1>5, <1>6, <1>7 DEF StartComing
-----------------------------------------------------------------------------------
\* A step moves a message from one place to the next.

LEMMA TailEntries ==
    ASSUME NEW S, NEW s \in Seq(S), s # <<>>, NEW x
    PROVE  /\ Has(s, Head(s)) /\ (Has(Tail(s), x) => Has(s, x))
           /\ Has(s, x) => Has(Tail(s), x) \/ x = Head(s)
           /\ Once(s, x) => Once(Tail(s), x) /\ (x = Head(s) => ~Has(Tail(s), x))
<1>1. /\ 1 \in DOMAIN s /\ s[1] = Head(s) /\ Len(s) \in Nat \ {0}
      /\ DOMAIN s = 1 .. Len(s) /\ DOMAIN Tail(s) = 1 .. Len(s) - 1
      /\ \A j \in 1 .. Len(s) - 1 : Tail(s)[j] = s[j + 1]
  BY TailFacts
<1>2. \A j \in DOMAIN Tail(s) : j \in Nat /\ j + 1 \in DOMAIN s /\ j + 1 # 1 /\ Tail(s)[j] = s[j + 1]
  BY <1>1
<1>3. \A i \in DOMAIN s : i = 1 \/ (i - 1 \in DOMAIN Tail(s) /\ Tail(s)[i - 1] = s[i])
  <2> SUFFICES ASSUME NEW i \in DOMAIN s, i # 1
               PROVE  i - 1 \in DOMAIN Tail(s) /\ Tail(s)[i - 1] = s[i]
    OBVIOUS
  <2>1. i - 1 \in 1 .. Len(s) - 1 /\ (i - 1) + 1 = i
    BY <1>1
  <2> QED
    BY <1>1, <2>1
<1>4. Has(s, Head(s)) /\ (Has(Tail(s), x) => Has(s, x))
  BY <1>1, <1>2 DEF Has
<1>5. Has(s, x) => Has(Tail(s), x) \/ x = Head(s)
  BY <1>1, <1>3 DEF Has
<1>6. ASSUME Once(s, x)
      PROVE  Once(Tail(s), x) /\ (x = Head(s) => ~Has(Tail(s), x))
  <2>1. Once(Tail(s), x)
    <3> SUFFICES ASSUME NEW i \in DOMAIN Tail(s), NEW j \in DOMAIN Tail(s), Tail(s)[i] = x, Tail(s)[j] = x
                 PROVE  i = j
      BY DEF Once
    <3>1. i + 1 = j + 1
      BY <1>2, <1>6 DEF Once
    <3> QED
      BY <1>2, <3>1
  <2>2. x = Head(s) => ~Has(Tail(s), x)
    BY <1>1, <1>2, <1>6 DEF Once, Has
  <2> QED
    BY <2>1, <2>2
<1> QED
  BY <1>4, <1>5, <1>6

LEMMA AppendEntries ==
    ASSUME NEW S, NEW s \in Seq(S), NEW e \in S, NEW x
    PROVE  /\ Has(Append(s, e), x) <=> Has(s, x) \/ x = e
           /\ Once(s, x) /\ (x # e \/ ~Has(s, x)) => Once(Append(s, e), x)
<1>1. /\ Len(s) \in Nat /\ DOMAIN s = 1 .. Len(s) /\ DOMAIN Append(s, e) = 1 .. Len(s) + 1
      /\ Append(s, e)[Len(s) + 1] = e /\ \A j \in 1 .. Len(s) : Append(s, e)[j] = s[j]
  BY AppendFacts
<1>2. \A j \in DOMAIN Append(s, e) : j \in DOMAIN s \/ j = Len(s) + 1
  BY <1>1
<1>3. DOMAIN s \subseteq DOMAIN Append(s, e) /\ Len(s) + 1 \in DOMAIN Append(s, e)
  BY <1>1
<1> QED
  BY <1>1, <1>2, <1>3 DEF Has, Once

LEMMA ConsEntries ==
    ASSUME NEW S, NEW s \in Seq(S), NEW e \in S, NEW x
    PROVE  /\ Has(<<e>> \o s, x) <=> Has(s, x) \/ x = e
           /\ Once(s, x) /\ (x # e \/ ~Has(s, x)) => Once(<<e>> \o s, x)
<1> DEFINE t == <<e>> \o s
<1>1. <<e>> \in Seq(S) /\ Len(<<e>>) = 1 /\ <<e>>[1] = e
  OBVIOUS
<1>2. /\ Len(s) \in Nat /\ DOMAIN s = 1 .. Len(s) /\ DOMAIN t = 1 .. 1 + Len(s)
      /\ t[1] = e /\ \A j \in 1 .. Len(s) : t[1 + j] = s[j]
  BY <1>1, ConcatFacts
<1> HIDE DEF t
<1>3. 1 \in DOMAIN t /\ \A j \in DOMAIN s : j \in Nat /\ 1 + j \in DOMAIN t /\ t[1 + j] = s[j] /\ 1 + j # 1
  BY <1>2
<1>4. \A i \in DOMAIN t : i = 1 \/ (i - 1 \in DOMAIN s /\ t[i] = s[i - 1] /\ i \in Nat)
  <2> SUFFICES ASSUME NEW i \in DOMAIN t, i # 1
               PROVE  i - 1 \in DOMAIN s /\ t[i] = s[i - 1] /\ i \in Nat
    OBVIOUS
  <2>1. i - 1 \in 1 .. Len(s) /\ 1 + (i - 1) = i /\ i \in Nat
    BY <1>2
  <2> QED
    BY <1>2, <2>1
<1>5. Has(t, x) <=> Has(s, x) \/ x = e
  <2>1. Has(t, x) => Has(s, x) \/ x = e
    BY <1>2, <1>4 DEF Has
  <2>2. Has(s, x) => Has(t, x)
    BY <1>3 DEF Has
  <2>3. Has(t, e)
    BY <1>2, <1>3 DEF Has
  <2> QED
    BY <2>1, <2>2, <2>3
<1>6. ASSUME Once(s, x), x # e \/ ~Has(s, x), NEW i \in DOMAIN t, NEW j \in DOMAIN t, t[i] = x, t[j] = x
      PROVE  i = j
  <2>1. CASE i = 1 \/ j = 1
    BY <1>2, <1>4, <1>6, <2>1 DEF Has
  <2>2. CASE i # 1 /\ j # 1
    <3>1. i - 1 = j - 1 /\ i \in Nat /\ j \in Nat
      BY <1>4, <1>6, <2>2 DEF Once
    <3> QED
      BY <3>1
  <2> QED
    BY <2>1, <2>2
<1> QED
  BY <1>5, <1>6 DEF t, Once

LEMMA SameEvents ==
    ASSUME inbox' = inbox, handled' = handled, NEW m
    PROVE  /\ QueuedComing(m)' <=> QueuedComing(m)
           /\ StartComing(m)' <=> StartComing(m)
           /\ OneQueued(m) => OneQueued(m)'
           /\ OneStart(m) => OneStart(m)'
BY DEF QueuedComing, StartComing, OneQueued, OneStart, QueuesAt, StartsAt

LEMMA Settled ==
    ASSUME TypeOK, NEW ms, NEW how, Settle(ms, how), NEW m \in Messages
    PROVE  fate'[m] = IF m \in ms /\ fate[m] = "pending" THEN how ELSE fate[m]
BY DEF Settle

LEMMA Released ==
    ASSUME TypeOK, NEW f \in Fibers, holding' = [holding EXCEPT ![f] = None], NEW m \in Messages
    PROVE  /\ m # holding[f] => (IsHeld(m)' <=> IsHeld(m))
           /\ OneHolder(m) => OneHolder(m)' /\ (m = holding[f] => ~IsHeld(m)')
<1>1. m # None
  BY MessagesAssumption DEF None
<1>2. \A g \in Fibers : holding'[g] = IF g = f THEN None ELSE holding[g]
  BY DEF TypeOK
<1> QED
  BY <1>1, <1>2 DEF IsHeld, OneHolder

\* Nothing of what Lives speaks about changes.
LEMMA ElsewhereLives ==
    ASSUME UNCHANGED <<inbox, handled, queue, holding, fate, given>>, NEW m \in Messages,
           Working(m)' <=> Working(m), Lives(m)
    PROVE  Lives(m)'
<1>1. /\ QueuedComing(m)' <=> QueuedComing(m)
      /\ StartComing(m)' <=> StartComing(m)
      /\ OneQueued(m)' /\ OneStart(m)'
  BY SameEvents DEF Lives, OneEach
<1>2. /\ IsHeld(m)' <=> IsHeld(m)
      /\ OneHolder(m)' /\ Once(queue, m)' /\ (Has(queue, m)' <=> Has(queue, m))
  BY DEF IsHeld, OneHolder, Once, Has, Lives, OneEach
<1>3. OnePlace(m)'
  BY <1>1, <1>2 DEF OnePlace, Lives
<1> QED
  BY <1>1, <1>2, <1>3 DEF Lives, OneEach, Fresh, GivenFine, Has, Once

\* The worker is done with its message, which has another fate than "given".
LEMMA DoneLives ==
    ASSUME Typed, UNCHANGED <<inbox, handled, queue, holding, given>>, NEW how \in {"failed", "lost"},
           Working(work.msg), Settle({work.msg}, how), work'.msg = None \/ work'.at = "draining",
           NEW m \in Messages, Lives(m)
    PROVE  Lives(m)'
<1>1. /\ QueuedComing(m)' <=> QueuedComing(m)
      /\ StartComing(m)' <=> StartComing(m)
      /\ OneQueued(m)' /\ OneStart(m)'
  BY SameEvents DEF Lives, OneEach
<1>2. /\ IsHeld(m)' <=> IsHeld(m)
      /\ OneHolder(m)' /\ Once(queue, m)' /\ (Has(queue, m)' <=> Has(queue, m))
  BY DEF IsHeld, OneHolder, Once, Has, Lives, OneEach
<1>3. ~Working(m)'
  BY MessagesAssumption DEF Working, None
<1>4. fate'[m] = IF m = work.msg /\ fate[m] = "pending" THEN how ELSE fate[m]
  BY Settled DEF Typed
<1>5. Working(m) <=> m = work.msg
  BY DEF Working
<1>6. OnePlace(m)'
  BY <1>1, <1>2, <1>3, <1>4, <1>5 DEF OnePlace, Lives
<1> QED
  BY <1>1, <1>2, <1>3, <1>4, <1>5, <1>6 DEF Lives, OneEach, Fresh, GivenFine, Has, Once, OnePlace

LEMMA GiveLives ==
    ASSUME Typed, UNCHANGED <<inbox, handled, queue, holding>>, Give, At("sending"),
           NEW m \in Messages, Lives(m)
    PROVE  Lives(m)'
<1>1. /\ QueuedComing(m)' <=> QueuedComing(m)
      /\ StartComing(m)' <=> StartComing(m)
      /\ OneQueued(m)' /\ OneStart(m)'
  BY SameEvents DEF Lives, OneEach
<1>2. /\ IsHeld(m)' <=> IsHeld(m)
      /\ OneHolder(m)' /\ Once(queue, m)' /\ (Has(queue, m)' <=> Has(queue, m))
  BY DEF IsHeld, OneHolder, Once, Has, Lives, OneEach
<1>3. ~Working(m)'
  BY MessagesAssumption DEF Working, None, Give, Idle
<1>4. fate'[m] = IF m = work.msg /\ fate[m] = "pending" THEN "given" ELSE fate[m]
  BY Settled DEF Typed, Give
<1>5. Working(m) <=> m = work.msg
  BY DEF Working, At
<1>6. OnePlace(m)'
  BY <1>1, <1>2, <1>3, <1>4, <1>5 DEF OnePlace, Lives
<1>7. given' = Append(given, work.msg) /\ given \in Seq(Messages)
  BY DEF Give, Typed, TypeOK
<1>8. work.msg \in Messages \/ work.msg = None
  BY DEF Typed, TypeOK, Work
<1>9. CASE work.msg \in Messages
  <2>1. (Has(given, m)' <=> Has(given, m) \/ m = work.msg)
        /\ (Once(given, m) /\ (m # work.msg \/ ~Has(given, m)) => Once(given, m)')
    BY <1>7, <1>9, AppendEntries DEF Has, Once
  <2>2. m = work.msg => fate[m] = "pending"
    BY <1>5 DEF Lives, OnePlace
  <2>3. GivenFine(m)'
    BY <1>4, <2>1, <2>2 DEF Lives, GivenFine
  <2>4. Fresh(m)'
    BY <1>4 DEF Lives, Fresh
  <2> QED
    BY <1>1, <1>2, <1>6, <2>3, <2>4 DEF Lives, OneEach
<1>10. work.msg # None
  BY DEF At, Typed, TypeOK
<1> QED
  BY <1>8, <1>9, <1>10
\* The events of thread.turn.start.
StartOf(m, events) ==
    /\ Publish(events)
    /\ \A j \in DOMAIN events : events[j].kind \in {"queued", "start"}
            => events[j].msg = m /\ events[j].id = 0
    /\ \A i, j \in DOMAIN events : events[i].kind = "queued" /\ events[j].kind = "queued" => i = j
    /\ ShouldQueue(m) => /\ \E j \in DOMAIN events : events[j].kind = "queued"
                         /\ \A j \in DOMAIN events : events[j].kind # "start"
    /\ ~ShouldQueue(m) => /\ \E j \in DOMAIN events : events[j].kind = "start"
                          /\ \A j \in DOMAIN events : events[j].kind # "queued"

LEMMA StartedWith ==
    ASSUME NEW m \in Messages, TurnStart(m)
    PROVE  \E events \in Seq(DomainEvent) : StartOf(m, events)
<1> DEFINE s == Event("start", m)
           q == Event("queued", m)
           i == Event("interrupt", None)
<1>1. /\ s \in DomainEvent /\ s.kind = "start" /\ s.msg = m /\ s.id = 0
      /\ q \in DomainEvent /\ q.kind = "queued" /\ q.msg = m /\ q.id = 0
      /\ i \in DomainEvent /\ i.kind = "interrupt"
  BY DEF Event, DomainEvent
<1>2. Publish(IF ~ShouldQueue(m) THEN <<s>> ELSE IF m \in Urgent THEN <<q, i>> ELSE <<q>>)
  BY DEF TurnStart
<1> HIDE DEF s, q, i
<1>3. CASE ~ShouldQueue(m)
  <2>1. <<s>> \in Seq(DomainEvent) /\ DOMAIN <<s>> = {1} /\ <<s>>[1] = s
    BY <1>1
  <2>2. Publish(<<s>>)
    BY <1>2, <1>3
  <2> QED
    BY <1>1, <1>3, <2>1, <2>2 DEF StartOf
<1>4. CASE ShouldQueue(m) /\ m \in Urgent
  <2>1. <<q, i>> \in Seq(DomainEvent) /\ DOMAIN <<q, i>> = {1, 2} /\ <<q, i>>[1] = q /\ <<q, i>>[2] = i
    BY <1>1
  <2>2. Publish(<<q, i>>)
    BY <1>2, <1>4
  <2> QED
    BY <1>1, <1>4, <2>1, <2>2 DEF StartOf
<1>5. CASE ShouldQueue(m) /\ m \notin Urgent
  <2>1. <<q>> \in Seq(DomainEvent) /\ DOMAIN <<q>> = {1} /\ <<q>>[1] = q
    BY <1>1
  <2>2. Publish(<<q>>)
    BY <1>2, <1>5
  <2> QED
    BY <1>1, <1>5, <2>1, <2>2 DEF StartOf
<1> QED
  BY <1>3, <1>4, <1>5

LEMMA TurnStartLives ==
    ASSUME Living, NEW x \in Messages, TurnStart(x), NEW m \in Messages \ requeued'
    PROVE  Lives(m)'
<1>1. PICK events \in Seq(DomainEvent) : StartOf(x, events)
  BY StartedWith
<1>2. PICK more : Publishes(events, more)
  BY <1>1, PublishFacts DEF Living, Typed, TypeOK, StartOf
<1>3. /\ Typed /\ Lives(m) /\ inbox \in Seq(DomainEvent) /\ m \notin requeued'
  BY <1>2 DEF Living, Typed, TypeOK, Publishes
<1>4. /\ UNCHANGED <<queue, holding, handled, work, given>>
      /\ fate[x] = "unsent" /\ fate' = [fate EXCEPT ![x] = "pending"]
  BY DEF TurnStart, reactor, drains
<1>5. /\ Working(m)' <=> Working(m)
      /\ IsHeld(m)' <=> IsHeld(m)
      /\ Has(queue, m)' <=> Has(queue, m)
      /\ OneHolder(m)' /\ Once(queue, m)'
      /\ Once(given, m)' /\ (Has(given, m)' <=> Has(given, m))
  BY <1>3, <1>4 DEF Working, IsHeld, Has, OneHolder, Once, Lives, OneEach, GivenFine
<1>6. /\ QueuedComing(m)' <=> \/ QueuedComing(m)
                              \/ \E j \in DOMAIN events : events[j].kind = "queued" /\ events[j].msg = m
      /\ StartComing(m)' <=> \/ StartComing(m)
                             \/ \E j \in DOMAIN events : /\ events[j].kind = "start" /\ events[j].msg = m
                                                         /\ <<m, events[j].id>> \notin handled
      /\ (\A j \in DOMAIN events : events[j].kind = "start" => events[j].msg # m)
           => (OneStart(m) => OneStart(m)')
      /\ (\A j \in DOMAIN events : events[j].kind = "queued" => events[j].msg # m)
           => (OneQueued(m) => OneQueued(m)')
  BY <1>2, <1>3, <1>4, PublishedComing
<1>7. CASE m # x
  <2>1. fate'[m] = fate[m]
    BY <1>3, <1>4, <1>7 DEF Typed, TypeOK
  <2>2. \A j \in DOMAIN events : events[j].kind \in {"queued", "start"} => events[j].msg # m
    BY <1>1, <1>7 DEF StartOf
  <2>3. /\ QueuedComing(m)' <=> QueuedComing(m)
        /\ StartComing(m)' <=> StartComing(m)
        /\ OneStart(m)' /\ OneQueued(m)'
    BY <1>3, <1>6, <2>2 DEF Lives, OneEach
  <2>4. OnePlace(m)'
    BY <1>3, <1>5, <2>1, <2>3 DEF OnePlace, Lives
  <2> QED
    BY <1>3, <1>4, <1>5, <2>1, <2>3, <2>4 DEF Lives, OneEach, Fresh, GivenFine
<1>8. CASE m = x
  <2>1. fate'[m] = "pending" /\ fate[m] = "unsent"
    BY <1>3, <1>4, <1>8 DEF Typed, TypeOK
  <2>2. ~(QueuedComing(m) \/ StartComing(m) \/ Has(queue, m) \/ IsHeld(m) \/ Working(m) \/ Has(given, m))
    BY <1>3, <2>1 DEF Lives, OnePlace, GivenFine
  <2>3. \A j \in DOMAIN events : events[j].kind = "start" => <<m, events[j].id>> \notin handled
    BY <1>1, <1>3, <2>1 DEF Lives, Fresh, StartOf
  <2>4. /\ QueuedComing(m)' <=> ShouldQueue(x)
        /\ StartComing(m)' <=> ~ShouldQueue(x)
    BY <1>1, <1>6, <1>8, <2>2, <2>3 DEF StartOf
  <2>5. OneQueued(m)'
    <3>1. \A i, j \in DOMAIN events :
            events[i].kind = "queued" /\ events[i].msg = m /\ events[j].kind = "queued" /\ events[j].msg = m
                => i = j
      BY <1>1 DEF StartOf
    <3> QED
      BY <1>2, <1>3, <2>2, <3>1, PublishedOnce
  <2>6. OneStart(m)'
    <3>1. \A i \in DOMAIN inbox' : StartsAt(i, m)' => inbox'[i].id = 0
      <4> SUFFICES ASSUME NEW i \in DOMAIN inbox', StartsAt(i, m)'
                   PROVE  inbox'[i].id = 0
        OBVIOUS
      <4>1. CASE i \in DOMAIN inbox
        <5>1. inbox'[i] = inbox[i]
          BY <1>2, <1>3, <4>1, PublishedAt
        <5>2. StartsAt(i, m)
          BY <1>4, <5>1 DEF StartsAt
        <5> QED
          BY <2>2, <4>1, <5>2 DEF StartComing
      <4>2. CASE i \notin DOMAIN inbox
        <5>1. PICK j \in DOMAIN events : inbox'[i] = events[j]
          BY <1>2, <1>3, <4>2, PublishedAt
        <5> QED
          BY <1>1, <5>1 DEF StartsAt, StartOf
      <4> QED
        BY <4>1, <4>2
    <3> QED
      BY <3>1 DEF OneStart
  <2>7. OnePlace(m)'
    BY <1>5, <2>1, <2>2, <2>4 DEF OnePlace
  <2> QED
    BY <1>5, <2>1, <2>2, <2>5, <2>6, <2>7 DEF Lives, OneEach, Fresh, GivenFine
<1> QED
  BY <1>7, <1>8

LEMMA StopLives ==
    ASSUME Living, SessionStop, NEW m \in Messages \ requeued'
    PROVE  Lives(m)'
<1> DEFINE events == <<Event("stop", None)>>
<1>1. Event("stop", None) \in DomainEvent /\ Event("stop", None).kind = "stop"
  BY DEF Event, DomainEvent
<1>2. events \in Seq(DomainEvent) /\ DOMAIN events = {1} /\ events[1].kind = "stop"
  BY <1>1
<1>3. inbox \in Seq(DomainEvent) /\ inbox' = inbox \o events
  BY <1>1 DEF SessionStop, Living, Typed, TypeOK
<1>4. Publishes(events, events)
  BY <1>2, <1>3, BoundsAssumption DEF Publishes, Has, SessionStop, Trouble, history, lineage
<1> HIDE DEF events
<1>5. /\ UNCHANGED <<queue, holding, handled, work, given, fate, requeued>>
  BY DEF SessionStop, reactor, drains, history, lineage
<1>6. Lives(m)
  BY <1>5 DEF Living
<1>7. /\ QueuedComing(m)' <=> QueuedComing(m)
      /\ StartComing(m)' <=> StartComing(m)
      /\ OneStart(m)' /\ OneQueued(m)'
  BY <1>2, <1>3, <1>4, <1>5, <1>6, PublishedComing DEF Lives, OneEach
<1>8. /\ Working(m)' <=> Working(m)
      /\ IsHeld(m)' <=> IsHeld(m)
      /\ Has(queue, m)' <=> Has(queue, m)
      /\ OneHolder(m)' /\ Once(queue, m)'
      /\ Once(given, m)' /\ (Has(given, m)' <=> Has(given, m))
  BY <1>5, <1>6 DEF Working, IsHeld, Has, OneHolder, Once, Lives, OneEach, GivenFine
<1>9. OnePlace(m)'
  BY <1>5, <1>6, <1>7, <1>8 DEF OnePlace, Lives
<1> QED
  BY <1>5, <1>6, <1>7, <1>8, <1>9 DEF Lives, OneEach, Fresh, GivenFine

\* The command that promotes a message has an id of its own.
LEMMA PromotedWith ==
    ASSUME Living, NEW f \in Fibers, Promote(f)
    PROVE  /\ holding[f] \in Messages
           /\ Promoted(holding[f]) \in DomainEvent
           /\ requeued' = requeued
           /\ \E more : Publishes(<<Promoted(holding[f])>>, more)
           /\ holding[f] \notin requeued => <<holding[f], promotions[holding[f]] + 1>> \notin handled
<1> DEFINE x == holding[f]
           events == <<Promoted(x)>>
<1>1. x \in Messages
  BY DEF Promote, Living, Typed, TypeOK
<1>2. promotions[x] \in Nat
  BY <1>1 DEF Living, Typed, TypeOK
<1>3. Promoted(x) \in DomainEvent /\ Promoted(x).kind = "start"
  BY <1>1, <1>2 DEF Promoted, DomainEvent
<1>4. events \in Seq(DomainEvent) /\ DOMAIN events = {1} /\ events[1].kind = "start"
  BY <1>3
<1>5. Publish(events)
  BY DEF Promote
<1> HIDE DEF events
<1>6. PICK more : Publishes(events, more)
  BY <1>4, <1>5, PublishFacts DEF Living, Typed, TypeOK
<1>7. requeued' = requeued
  BY <1>4, <1>6 DEF Publishes
<1>8. <<x, promotions[x] + 1>> \notin handled
  BY <1>1, <1>2 DEF Living, Ids
<1> QED
  BY <1>1, <1>3, <1>6, <1>7, <1>8 DEF events

LEMMA PromoteLives ==
    ASSUME Living, NEW f \in Fibers, Promote(f), NEW m \in Messages \ requeued'
    PROVE  Lives(m)'
<1> DEFINE x == holding[f]
           e == Promoted(x)
           events == <<e>>
<1>1. x \in Messages /\ e \in DomainEvent /\ requeued' = requeued
  BY PromotedWith
<1>2. PICK more : Publishes(events, more)
  BY PromotedWith
<1>3. e.kind = "start" /\ e.msg = x /\ e.id = promotions[x] + 1
  BY DEF Promoted
<1>4. events \in Seq(DomainEvent) /\ DOMAIN events = {1} /\ events[1] = e
  BY <1>1
<1> HIDE DEF events, e
<1>5. /\ Typed /\ TypeOK /\ Lives(m) /\ inbox \in Seq(DomainEvent)
  BY <1>1 DEF Living, Typed, TypeOK
<1>6. /\ UNCHANGED <<queue, handled, work, given, fate>>
      /\ holding' = [holding EXCEPT ![f] = None]
  BY DEF Promote
<1>7. /\ Working(m)' <=> Working(m)
      /\ Has(queue, m)' <=> Has(queue, m)
      /\ Once(queue, m)'
      /\ Once(given, m)' /\ (Has(given, m)' <=> Has(given, m))
  BY <1>5, <1>6 DEF Working, Has, Once, Lives, OneEach, GivenFine
<1>8. /\ m # x => (IsHeld(m)' <=> IsHeld(m))
      /\ OneHolder(m)' /\ (m = x => ~IsHeld(m)' /\ IsHeld(m))
  BY <1>5, <1>6, Released DEF Lives, OneEach, IsHeld
<1>9. /\ QueuedComing(m)' <=> QueuedComing(m)
      /\ StartComing(m)' <=> StartComing(m) \/ (m = x /\ <<m, promotions[m] + 1>> \notin handled)
      /\ m # x => OneStart(m)'
      /\ OneQueued(m)'
  <2>1. /\ QueuedComing(m)' <=> \/ QueuedComing(m)
                                \/ \E j \in DOMAIN events : events[j].kind = "queued" /\ events[j].msg = m
        /\ StartComing(m)' <=> \/ StartComing(m)
                               \/ \E j \in DOMAIN events : /\ events[j].kind = "start" /\ events[j].msg = m
                                                           /\ <<m, events[j].id>> \notin handled
        /\ (\A j \in DOMAIN events : events[j].kind = "start" => events[j].msg # m)
             => (OneStart(m) => OneStart(m)')
        /\ (\A j \in DOMAIN events : events[j].kind = "queued" => events[j].msg # m)
             => (OneQueued(m) => OneQueued(m)')
    BY <1>2, <1>4, <1>5, <1>6, PublishedComing
  <2>2. \A j \in DOMAIN events : events[j] = e
    BY <1>4
  <2>3. (\E j \in DOMAIN events : TRUE)
    BY <1>4
  <2>4. /\ (m # x => OneStart(m)') /\ OneQueued(m)' /\ (QueuedComing(m)' <=> QueuedComing(m))
    BY <1>3, <1>5, <2>1, <2>2 DEF Lives, OneEach
  <2>5. StartComing(m)' <=> StartComing(m) \/ (m = x /\ <<m, e.id>> \notin handled)
    BY <1>3, <2>1, <2>2, <2>3
  <2>6. m = x => <<m, e.id>> = <<m, promotions[m] + 1>>
    BY <1>3
  <2> QED
    BY <2>4, <2>5, <2>6
<1>10. CASE m # x
  <2>1. OnePlace(m)'
    BY <1>5, <1>6, <1>7, <1>8, <1>9, <1>10 DEF OnePlace, Lives
  <2> QED
    BY <1>5, <1>6, <1>7, <1>8, <1>9, <1>10, <2>1 DEF Lives, OneEach, Fresh, GivenFine
<1>11. CASE m = x
  <2>1. StartComing(m)' /\ ~IsHeld(m)' /\ IsHeld(m)
    BY <1>1, <1>8, <1>9, <1>11, PromotedWith
  <2>2. OnePlace(m)'
    BY <1>5, <1>6, <1>7, <1>9, <2>1 DEF OnePlace, Lives
  <2>3. ~StartComing(m)
    BY <1>5, <2>1 DEF OnePlace, Lives
  <2>4. \A i \in DOMAIN inbox' : StartsAt(i, m)' => inbox'[i].id = e.id
    <3> SUFFICES ASSUME NEW i \in DOMAIN inbox', StartsAt(i, m)'
                 PROVE  inbox'[i].id = e.id
      OBVIOUS
    <3>1. CASE i \in DOMAIN inbox
      <4>1. inbox'[i] = inbox[i]
        BY <1>2, <1>4, <1>5, <3>1, PublishedAt
      <4>2. StartsAt(i, m)
        BY <1>6, <4>1 DEF StartsAt
      <4> QED
        BY <2>3, <3>1, <4>2 DEF StartComing
    <3>2. CASE i \notin DOMAIN inbox
      <4>1. PICK j \in DOMAIN events : inbox'[i] = events[j]
        BY <1>2, <1>4, <1>5, <3>2, PublishedAt
      <4> QED
        BY <1>4, <4>1
    <3> QED
      BY <3>1, <3>2
  <2>5. OneStart(m)'
    BY <2>4 DEF OneStart
  <2> QED
    BY <1>5, <1>6, <1>7, <1>8, <1>9, <2>2, <2>5 DEF Lives, OneEach, Fresh, GivenFine
<1> QED
  BY <1>10, <1>11

LEMMA PromoteFailsLives ==
    ASSUME Living, NEW f \in Fibers, PromoteFails(f), NEW m \in Messages \ requeued'
    PROVE  Lives(m)'
<1>1. /\ UNCHANGED <<inbox, queue, handled, work, given, requeued>>
      /\ holding' = [holding EXCEPT ![f] = None]
  BY DEF PromoteFails, inputs, lineage
<1>2. Typed /\ TypeOK /\ Lives(m)
  BY <1>1 DEF Living, Typed
<1>3. fate'[m] = IF m = holding[f] /\ fate[m] = "pending" THEN "lost" ELSE fate[m]
  BY <1>2, Settled DEF PromoteFails
<1>4. /\ Working(m)' <=> Working(m)
      /\ Has(queue, m)' <=> Has(queue, m)
      /\ Once(queue, m)'
      /\ Once(given, m)' /\ (Has(given, m)' <=> Has(given, m))
  BY <1>1, <1>2 DEF Working, Has, Once, Lives, OneEach, GivenFine
<1>5. /\ QueuedComing(m)' <=> QueuedComing(m)
      /\ StartComing(m)' <=> StartComing(m)
      /\ OneQueued(m)' /\ OneStart(m)'
  BY <1>1, <1>2, SameEvents DEF Lives, OneEach
<1>6. /\ m # holding[f] => (IsHeld(m)' <=> IsHeld(m))
      /\ OneHolder(m)' /\ (m = holding[f] => ~IsHeld(m)' /\ IsHeld(m))
  BY <1>1, <1>2, Released DEF Lives, OneEach, IsHeld
<1>7. OnePlace(m)'
  BY <1>2, <1>3, <1>4, <1>5, <1>6 DEF OnePlace, Lives
<1> QED
  BY <1>1, <1>2, <1>3, <1>4, <1>5, <1>6, <1>7 DEF Lives, OneEach, OnePlace, Fresh, GivenFine

\* A fiber takes the head of the queue.
LEMMA DrainLives ==
    ASSUME Typed, NEW f \in Fibers, holding[f] = None, BeginDrain(f), NEW m \in Messages, Lives(m),
           UNCHANGED <<inbox, handled, fate, given>>, Working(m)' <=> Working(m)
    PROVE  Lives(m)'
<1>1. CASE UNCHANGED drains
  BY <1>1, ElsewhereLives DEF drains
<1>2. CASE /\ queue # <<>> /\ Head(queue) \in Messages
           /\ queue' = Tail(queue) /\ holding' = [holding EXCEPT ![f] = Head(queue)]
  <2>1. queue \in Seq(Messages)
    BY DEF Typed, TypeOK
  <2>2. /\ Has(queue, Head(queue)) /\ (Has(queue, m)' => Has(queue, m))
        /\ Has(queue, m) => Has(queue, m)' \/ m = Head(queue)
        /\ Once(queue, m)' /\ (m = Head(queue) => ~Has(queue, m)')
    <3>1. /\ Has(queue, Head(queue)) /\ (Has(Tail(queue), m) => Has(queue, m))
          /\ Has(queue, m) => Has(Tail(queue), m) \/ m = Head(queue)
          /\ Once(queue, m) => Once(Tail(queue), m) /\ (m = Head(queue) => ~Has(Tail(queue), m))
      BY <1>2, <2>1, TailEntries
    <3>2. (Has(queue, m)' <=> Has(Tail(queue), m)) /\ (Once(queue, m)' <=> Once(Tail(queue), m))
      BY <1>2 DEF Has, Once
    <3> QED
      BY <3>1, <3>2 DEF Lives, OneEach
  <2>3. m # None
    BY MessagesAssumption DEF None
  <2>4. \A g \in Fibers : holding'[g] = IF g = f THEN Head(queue) ELSE holding[g]
    BY <1>2 DEF Typed, TypeOK
  <2>5. IsHeld(m)' <=> IsHeld(m) \/ m = Head(queue)
    BY <2>3, <2>4 DEF IsHeld
  <2>6. OneHolder(m)'
    BY <2>2, <2>3, <2>4 DEF OneHolder, IsHeld, Lives, OneEach, OnePlace
  <2>7. /\ QueuedComing(m)' <=> QueuedComing(m)
        /\ StartComing(m)' <=> StartComing(m)
        /\ OneQueued(m)' /\ OneStart(m)'
    BY SameEvents DEF Lives, OneEach
  <2>8. OnePlace(m)'
    BY <2>2, <2>5, <2>7 DEF OnePlace, Lives
  <2> QED
    BY <2>2, <2>6, <2>7, <2>8 DEF Lives, OneEach, Fresh, GivenFine, Has, Once
<1> QED
  BY <1>1, <1>2, BeginDrainFacts DEF Typed

LEMMA TakeQueuedLives ==
    ASSUME Living, TakeQueued, NEW m \in Messages \ requeued'
    PROVE  Lives(m)'
<1> DEFINE x == Head(inbox).msg
<1>1. /\ UNCHANGED <<handled, holding, work, given, fate, requeued>>
      /\ queue' = Enqueued(x) /\ Takes("queued")
  BY DEF TakeQueued, history, lineage
<1>2. Typed /\ TypeOK /\ Lives(m) /\ queue \in Seq(Messages)
  BY <1>1 DEF Living, Typed, TypeOK
<1>3. x \in Messages /\ inbox[1] = Head(inbox) /\ Head(inbox).kind = "queued"
  BY <1>1, <1>2, TakesFacts, TailFacts DEF TypeOK
<1>4. QueuesAt(1, m) <=> m = x
  BY <1>3 DEF QueuesAt
<1>5. ~StartsAt(1, m)
  BY <1>3 DEF StartsAt
<1>6. /\ QueuedComing(m)' => QueuedComing(m)
      /\ QueuedComing(m) => QueuedComing(m)' \/ m = x
      /\ m = x => QueuedComing(m) /\ ~QueuedComing(m)'
      /\ OneQueued(m)'
  BY <1>1, <1>2, <1>4, TakenQueued DEF Lives, OneEach
<1>7. (StartComing(m)' <=> StartComing(m)) /\ OneStart(m)'
  BY <1>1, <1>2, <1>5, TakenStart DEF Lives, OneEach
<1>8. /\ Has(queue, m)' <=> Has(queue, m) \/ m = x
      /\ Once(queue, m) /\ (m # x \/ ~Has(queue, m)) => Once(queue, m)'
  <2>1. Enqueued(x) = <<x>> \o queue \/ Enqueued(x) = Append(queue, x)
    BY DEF Enqueued
  <2>2. /\ Has(Enqueued(x), m) <=> Has(queue, m) \/ m = x
        /\ Once(queue, m) /\ (m # x \/ ~Has(queue, m)) => Once(Enqueued(x), m)
    <3>1. /\ Has(<<x>> \o queue, m) <=> Has(queue, m) \/ m = x
          /\ Once(queue, m) /\ (m # x \/ ~Has(queue, m)) => Once(<<x>> \o queue, m)
      BY <1>2, <1>3, ConsEntries
    <3>2. /\ Has(Append(queue, x), m) <=> Has(queue, m) \/ m = x
          /\ Once(queue, m) /\ (m # x \/ ~Has(queue, m)) => Once(Append(queue, x), m)
      BY <1>2, <1>3, AppendEntries
    <3> QED
      BY <2>1, <3>1, <3>2
  <2>3. (Has(queue, m)' <=> Has(Enqueued(x), m)) /\ (Once(queue, m)' <=> Once(Enqueued(x), m))
    BY <1>1 DEF Has, Once
  <2> QED
    BY <2>2, <2>3
<1>9. Once(queue, m)'
  BY <1>2, <1>6, <1>8 DEF Lives, OneEach, OnePlace
<1>10. /\ Working(m)' <=> Working(m)
       /\ IsHeld(m)' <=> IsHeld(m)
       /\ OneHolder(m)'
       /\ Once(given, m)' /\ (Has(given, m)' <=> Has(given, m))
  BY <1>1, <1>2 DEF Working, IsHeld, Has, OneHolder, Once, Lives, OneEach, GivenFine
<1>11. OnePlace(m)'
  BY <1>1, <1>2, <1>6, <1>7, <1>8, <1>10 DEF OnePlace, Lives
<1> QED
  BY <1>1, <1>2, <1>6, <1>7, <1>9, <1>10, <1>11 DEF Lives, OneEach, Fresh, GivenFine

LEMMA TakeInterruptLives ==
    ASSUME Living, TakeInterrupt, NEW m \in Messages \ requeued'
    PROVE  Lives(m)'
<1>1. /\ UNCHANGED <<queue, handled, holding, work, given, fate, requeued>>
      /\ Takes("interrupt")
  BY DEF TakeInterrupt, history, lineage, reactor, drains
<1>2. Typed /\ TypeOK /\ Lives(m)
  BY <1>1 DEF Living, Typed, TypeOK
<1>3. inbox[1] = Head(inbox) /\ Head(inbox).kind = "interrupt"
  BY <1>1, <1>2, TakesFacts, TailFacts DEF TypeOK
<1>4. ~StartsAt(1, m) /\ ~QueuesAt(1, m)
  BY <1>3 DEF StartsAt, QueuesAt
<1>5. (QueuedComing(m)' <=> QueuedComing(m)) /\ OneQueued(m)'
  BY <1>1, <1>2, <1>4, TakenQueued DEF Lives, OneEach
<1>6. (StartComing(m)' <=> StartComing(m)) /\ OneStart(m)'
  BY <1>1, <1>2, <1>4, TakenStart DEF Lives, OneEach
<1>7. /\ Working(m)' <=> Working(m)
      /\ IsHeld(m)' <=> IsHeld(m)
      /\ Has(queue, m)' <=> Has(queue, m)
      /\ OneHolder(m)' /\ Once(queue, m)'
      /\ Once(given, m)' /\ (Has(given, m)' <=> Has(given, m))
  BY <1>1, <1>2 DEF Working, IsHeld, Has, OneHolder, Once, Lives, OneEach, GivenFine
<1>8. OnePlace(m)'
  BY <1>1, <1>2, <1>5, <1>6, <1>7 DEF OnePlace, Lives
<1> QED
  BY <1>1, <1>2, <1>5, <1>6, <1>7, <1>8 DEF Lives, OneEach, Fresh, GivenFine

LEMMA TakeStopLives ==
    ASSUME Living, TakeStop, NEW m \in Messages \ requeued'
    PROVE  Lives(m)'
<1> DEFINE cleared == {queue[i] : i \in 1..Len(queue)}
<1>1. /\ UNCHANGED <<handled, holding, given, requeued>>
      /\ Takes("stop") /\ queue' = <<>> /\ work'.msg = None /\ Settle(cleared, "cleared")
  BY DEF TakeStop, lineage, Idle
<1>2. Typed /\ TypeOK /\ Lives(m) /\ queue \in Seq(Messages)
  BY <1>1 DEF Living, Typed, TypeOK
<1>3. inbox[1] = Head(inbox) /\ Head(inbox).kind = "stop" /\ work.msg = None
  BY <1>1, <1>2, TakesFacts, TailFacts DEF TypeOK
<1>4. ~StartsAt(1, m) /\ ~QueuesAt(1, m)
  BY <1>3 DEF StartsAt, QueuesAt
<1>5. (QueuedComing(m)' <=> QueuedComing(m)) /\ OneQueued(m)'
  BY <1>1, <1>2, <1>4, TakenQueued DEF Lives, OneEach
<1>6. (StartComing(m)' <=> StartComing(m)) /\ OneStart(m)'
  BY <1>1, <1>2, <1>4, TakenStart DEF Lives, OneEach
<1>7. m \in cleared <=> Has(queue, m)
  BY <1>2 DEF Has
<1>8. fate'[m] = IF Has(queue, m) /\ fate[m] = "pending" THEN "cleared" ELSE fate[m]
  BY <1>1, <1>2, <1>7, Settled
<1>9. ~Has(queue, m)' /\ Once(queue, m)'
  BY <1>1 DEF Has, Once
<1>10. /\ ~Working(m)' /\ ~Working(m)
       /\ IsHeld(m)' <=> IsHeld(m)
       /\ OneHolder(m)'
       /\ Once(given, m)' /\ (Has(given, m)' <=> Has(given, m))
  BY <1>1, <1>2, <1>3, MessagesAssumption
     DEF Working, IsHeld, Has, OneHolder, Once, Lives, OneEach, GivenFine, None
<1>11. OnePlace(m)'
  BY <1>2, <1>5, <1>6, <1>8, <1>9, <1>10 DEF OnePlace, Lives
<1> QED
  BY <1>1, <1>2, <1>5, <1>6, <1>8, <1>9, <1>10, <1>11 DEF Lives, OneEach, OnePlace, Fresh, GivenFine

LEMMA TakeStartLives ==
    ASSUME Living, TakeStart, NEW m \in Messages \ requeued'
    PROVE  Lives(m)'
<1> DEFINE x == Head(inbox).msg
<1>1. UNCHANGED <<queue, holding, given, fate, requeued>> /\ Takes("start")
  BY DEF TakeStart, history, lineage, drains
<1>2. Typed /\ TypeOK /\ Lives(m)
  BY <1>1 DEF Living, Typed, TypeOK
<1>3. /\ inbox[1] = Head(inbox) /\ Head(inbox).kind = "start" /\ work.msg = None
      /\ x \in Messages /\ Head(inbox).id \in Nat
  <2>1. /\ inbox[1] = Head(inbox) /\ Head(inbox).kind = "start" /\ work.msg = None
        /\ x \in Messages /\ Head(inbox) \in DomainEvent
    BY <1>1, <1>2, TakesFacts, TailFacts DEF TypeOK
  <2> QED
    BY <2>1 DEF DomainEvent
<1>4. ~QueuesAt(1, m)
  BY <1>3 DEF QueuesAt
<1>5. (QueuedComing(m)' <=> QueuedComing(m)) /\ OneQueued(m)'
  BY <1>1, <1>2, <1>4, TakenQueued DEF Lives, OneEach
<1>6. ~Working(m)
  BY <1>3, MessagesAssumption DEF Working, None
<1>7. /\ IsHeld(m)' <=> IsHeld(m)
      /\ Has(queue, m)' <=> Has(queue, m)
      /\ OneHolder(m)' /\ Once(queue, m)'
      /\ Once(given, m)' /\ (Has(given, m)' <=> Has(given, m))
  BY <1>1, <1>2 DEF IsHeld, Has, OneHolder, Once, Lives, OneEach, GivenFine
<1>8. CASE HasHandled(Head(inbox))
  <2>1. handled' = handled /\ work' = work
    BY <1>8 DEF TakeStart
  <2>2. ~StartsAt(1, m)
    BY <1>3, <1>8 DEF StartsAt, HasHandled
  <2>3. (StartComing(m)' <=> StartComing(m)) /\ OneStart(m)'
    BY <1>1, <1>2, <2>1, <2>2, TakenStart DEF Lives, OneEach
  <2>4. OnePlace(m)'
    BY <1>1, <1>2, <1>5, <1>7, <2>1, <2>3 DEF OnePlace, Lives, Working
  <2> QED
    BY <1>1, <1>2, <1>5, <1>7, <2>1, <2>3, <2>4 DEF Lives, OneEach, Fresh, GivenFine
<1>9. CASE ~HasHandled(Head(inbox))
  <2>1. /\ handled' = handled \cup {<<inbox[1].msg, inbox[1].id>>}
        /\ work'.msg = x /\ work'.at # "draining"
    BY <1>3, <1>9 DEF TakeStart
  <2>2. StartsAt(1, m) <=> m = x
    BY <1>3, <1>9 DEF StartsAt, HasHandled
  <2>3. /\ StartComing(m)' => StartComing(m)
        /\ OneStart(m)'
        /\ m = x => ~StartComing(m)' /\ StartComing(m)
        /\ m # x /\ StartComing(m) => StartComing(m)'
    BY <1>1, <1>2, <1>3, <2>1, <2>2, TakenStart DEF Lives, OneEach
  <2>4. Working(m)' <=> m = x
    BY <2>1 DEF Working
  <2>5. OnePlace(m)'
    BY <1>1, <1>2, <1>5, <1>6, <1>7, <2>3, <2>4 DEF OnePlace, Lives
  <2>6. Fresh(m)'
    BY <1>1, <1>2, <1>3, <2>1, <2>3 DEF Fresh, Lives, OnePlace
  <2> QED
    BY <1>1, <1>2, <1>5, <1>7, <2>3, <2>5, <2>6 DEF Lives, OneEach, GivenFine
<1> QED
  BY <1>8, <1>9

LEMMA CrashLives ==
    ASSUME Living, Crash, NEW m \in Messages \ requeued'
    PROVE  Lives(m)'
<1>1. /\ inbox' = <<>> /\ queue' = <<>> /\ handled' = {} /\ work' = Idle
      /\ holding' = [f \in Fibers |-> None] /\ Settle(Messages, "lost")
      /\ given' = given /\ requeued' = requeued
  BY DEF Crash, lineage
<1>2. Typed /\ TypeOK /\ Lives(m)
  BY <1>1 DEF Living, Typed
<1>3. fate'[m] = IF fate[m] = "pending" THEN "lost" ELSE fate[m]
  BY <1>1, <1>2, Settled
<1>4. ~QueuedComing(m)' /\ ~StartComing(m)' /\ ~Has(queue, m)' /\ OneQueued(m)' /\ OneStart(m)'
      /\ Once(queue, m)'
  BY <1>1 DEF QueuedComing, StartComing, Has, OneQueued, OneStart, Once
<1>5. ~IsHeld(m)' /\ ~Working(m)' /\ OneHolder(m)'
  BY <1>1, MessagesAssumption DEF IsHeld, Working, OneHolder, None, Idle
<1>6. OnePlace(m)'
  BY <1>3, <1>4, <1>5 DEF OnePlace
<1>7. Fresh(m)' /\ GivenFine(m)'
  BY <1>1, <1>2, <1>3 DEF Fresh, GivenFine, Lives, Has, Once
<1> QED
  BY <1>4, <1>5, <1>6, <1>7 DEF Lives, OneEach
-----------------------------------------------------------------------------------
\* The inductive invariant, and what it says of the properties.

\* The worker's own steps and those of the others, which move no message.
LEMMA QuietLives ==
    ASSUME Living, NEW m \in Messages \ requeued',
           \/ MarkStarting \/ EnsureSession \/ BindSession \/ StartFails
           \/ StopProvider \/ SetStopped \/ StoppingFails
           \/ Ingestion \/ TurnEnds \/ SessionExits \/ Restart
    PROVE  Lives(m)'
<1>1. UNCHANGED <<inbox, handled, queue, holding, fate, given, requeued>>
  BY DEF MarkStarting, EnsureSession, BindSession, StartFails, StopProvider, SetStopped, StoppingFails,
         Ingestion, TakeRuntime, SetSession, SetSessionFails, TurnEnds, SessionExits, Restart,
         inputs, drains, reactor, history, lineage
<1>2. Typed /\ TypeOK /\ Lives(m) /\ m # None
  BY <1>1, MessagesAssumption DEF Living, Typed, None
<1>3. Working(m)' <=> Working(m)
  <2>1. CASE MarkStarting \/ EnsureSession \/ BindSession \/ StartFails
    <3>1. work'.msg = work.msg /\ work'.at # "draining" /\ work.at # "draining"
      BY <1>2, <2>1 DEF MarkStarting, EnsureSession, BindSession, StartFails, At, TypeOK, Work
    <3> QED
      BY <3>1 DEF Working
  <2>2. CASE StopProvider \/ SetStopped \/ StoppingFails
    <3>1. work'.msg = None /\ work.msg = None
      BY <1>2, <2>2 DEF StopProvider, SetStopped, StoppingFails, At, TypeOK, Work, Idle
    <3> QED
      BY <1>2, <3>1 DEF Working
  <2>3. CASE Ingestion \/ TurnEnds \/ SessionExits \/ Restart
    <3>1. work' = work
      BY <2>3 DEF Ingestion, TakeRuntime, SetSession, SetSessionFails, TurnEnds, SessionExits, Restart, reactor
    <3> QED
      BY <3>1 DEF Working
  <2> QED
    BY <2>1, <2>2, <2>3
<1> QED
  BY <1>1, <1>2, <1>3, ElsewhereLives

LEMMA StepLives ==
    ASSUME Living, Next, NEW m \in Messages \ requeued'
    PROVE  Lives(m)'
<1>1. "worker" \in Fibers /\ "events" \in Fibers
  BY DEF Fibers
<1>2. CASE User
  BY <1>2, TurnStartLives, StopLives DEF User
<1>3. CASE Drainer
  <2>1. CASE TakeTerminal
    <3>1. /\ UNCHANGED <<inbox, handled, fate, given, requeued, work>>
          /\ holding["events"] = None /\ BeginDrain("events")
      BY <2>1 DEF TakeTerminal, history, lineage
    <3>2. Typed /\ Lives(m) /\ (Working(m)' <=> Working(m))
      BY <3>1 DEF Living, Working
    <3> QED
      BY <1>1, <3>1, <3>2, DrainLives
  <2> QED
    BY <1>1, <1>3, <2>1, PromoteLives, PromoteFailsLives DEF Drainer
<1>4. CASE Worker
  <2>1. CASE WorkerDrains
    <3>1. /\ UNCHANGED <<inbox, handled, fate, given, requeued>>
          /\ work.at = "draining" /\ work' = Idle /\ BeginDrain("worker")
      BY <2>1 DEF WorkerDrains, DrainAfterFailure, At, inputs, history, lineage
    <3>2. Typed /\ Lives(m) /\ holding["worker"] = None
      BY <3>1 DEF Living, WorkerHolds
    <3>3. Working(m)' <=> Working(m)
      BY <3>1, MessagesAssumption DEF Working, Idle, None
    <3> QED
      BY <1>1, <3>1, <3>2, <3>3, DrainLives
  <2>2. CASE SteerTurn \/ SendTurn
    <3>1. UNCHANGED <<inbox, handled, queue, holding, requeued>> /\ Give /\ At("sending")
      BY <2>2 DEF SteerTurn, SendTurn, inputs, drains, lineage
    <3>2. Typed /\ Lives(m)
      BY <3>1 DEF Living
    <3> QED
      BY <3>1, <3>2, GiveLives
  <2>3. CASE MarkingFails \/ ReportingFails
    <3>1. /\ UNCHANGED <<inbox, handled, queue, holding, given, requeued>>
          /\ work.at # "draining" /\ Settle({work.msg}, "lost") /\ work' = Idle
      BY <2>3 DEF MarkingFails, ReportingFails, At, inputs, drains, lineage
    <3>2. Typed /\ Lives(m) /\ Working(work.msg) /\ work'.msg = None
      BY <3>1 DEF Living, Working, Idle
    <3> QED
      BY <3>1, <3>2, DoneLives
  <2>4. CASE ReportFailure
    <3>1. /\ UNCHANGED <<inbox, handled, queue, holding, given, requeued>>
          /\ work.at # "draining" /\ Settle({work.msg}, "failed")
          /\ work' = [work EXCEPT !.at = "draining"]
      BY <2>4 DEF ReportFailure, At, inputs, drains, lineage
    <3>2. Typed /\ Lives(m) /\ Working(work.msg) /\ work'.at = "draining"
      BY <3>1 DEF Living, Working, Typed, TypeOK, Work
    <3> QED
      BY <3>1, <3>2, DoneLives
  <2> QED
    BY <1>1, <1>4, <2>1, <2>2, <2>3, <2>4, PromoteLives, PromoteFailsLives, TakeQueuedLives,
       TakeInterruptLives, TakeStartLives, TakeStopLives, QuietLives DEF Worker
<1> QED
  BY <1>2, <1>3, <1>4, QuietLives, CrashLives DEF Next

LEMMA StepHolds ==
    ASSUME Living, Next
    PROVE  WorkerHolds'
<1>1. "worker" \in Fibers /\ "events" \in Fibers /\ "worker" # "events"
  BY DEF Fibers
<1>2. WorkerHolds /\ TypeOK
  BY DEF Living, Typed
<1>3. CASE holding' = holding /\ work' = work
  BY <1>2, <1>3 DEF WorkerHolds
<1>4. CASE holding' = holding /\ holding["worker"] = None
  BY <1>4 DEF WorkerHolds
<1>5. CASE work'.at = "idle"
  BY <1>5 DEF WorkerHolds
<1>6. CASE work' = work /\ (holding["worker"] = None => holding'["worker"] = None)
  BY <1>2, <1>6 DEF WorkerHolds
<1>7. ASSUME User \/ Ingestion \/ TurnEnds \/ SessionExits \/ Restart
      PROVE  WorkerHolds'
  <2>1. holding' = holding /\ work' = work
    BY <1>7 DEF User, TurnStart, SessionStop, Ingestion, TakeRuntime, SetSession, SetSessionFails,
                TurnEnds, SessionExits, Restart, reactor, drains
  <2> QED
    BY <1>3, <2>1
<1>8. ASSUME NEW f \in Fibers, Promote(f) \/ PromoteFails(f)
      PROVE  WorkerHolds'
  <2>1. work' = work /\ holding' = [holding EXCEPT ![f] = None]
    BY <1>8 DEF Promote, PromoteFails
  <2>2. holding["worker"] = None => holding'["worker"] = None
    BY <1>1, <1>2, <2>1 DEF TypeOK
  <2> QED
    BY <1>6, <2>1, <2>2
<1>9. ASSUME TakeTerminal
      PROVE  WorkerHolds'
  <2>1. work' = work /\ BeginDrain("events")
    BY <1>9 DEF TakeTerminal
  <2>2. holding'["worker"] = holding["worker"]
    BY <1>1, <1>2, <2>1 DEF BeginDrain, TypeOK, drains
  <2> QED
    BY <1>6, <2>1, <2>2
<1>10. ASSUME TakeQueued \/ TakeInterrupt \/ TakeStart \/ TakeStop
       PROVE  WorkerHolds'
  <2>1. holding' = holding /\ holding["worker"] = None
    BY <1>10 DEF TakeQueued, TakeInterrupt, TakeStart, TakeStop, Takes, reactor, drains
  <2> QED
    BY <1>4, <2>1
<1>11. ASSUME \/ StopProvider \/ SetStopped \/ StoppingFails \/ MarkStarting \/ MarkingFails
              \/ EnsureSession \/ BindSession \/ SteerTurn \/ SendTurn \/ StartFails
              \/ ReportFailure \/ ReportingFails
       PROVE  WorkerHolds'
  <2>1. holding' = holding /\ work.at # "idle"
    BY <1>11 DEF StopProvider, SetStopped, StoppingFails, MarkStarting, MarkingFails, EnsureSession,
                 BindSession, SteerTurn, SendTurn, StartFails, ReportFailure, ReportingFails, At, drains
  <2> QED
    BY <1>2, <1>4, <2>1 DEF WorkerHolds
<1>12. ASSUME WorkerDrains \/ Crash
       PROVE  WorkerHolds'
  <2>1. work'.at = "idle"
    BY <1>12 DEF WorkerDrains, Crash, Idle
  <2> QED
    BY <1>5, <2>1
<1> QED
  BY <1>1, <1>7, <1>8, <1>9, <1>10, <1>11, <1>12 DEF Next, Worker, Drainer

LEMMA StepIds ==
    ASSUME Living, Next
    PROVE  Ids'
<1>1. Typed /\ Typed' /\ Ids /\ inbox \in Seq(DomainEvent) /\ promotions \in [Messages -> Nat]
  BY TypedStep DEF Living, Typed, TypeOK
<1>2. \A i \in DOMAIN inbox : inbox[i].kind \in {"queued", "start"}
        => inbox[i].msg \in Messages /\ inbox[i].id <= promotions[inbox[i].msg]
  BY <1>1 DEF Typed, Named, Ids
<1>3. \A m \in Messages, n \in Nat : <<m, n>> \in handled => n <= promotions[m]
  BY <1>1 DEF Ids
<1>4. CASE UNCHANGED <<inbox, handled, promotions>>
  BY <1>1, <1>4 DEF Ids
<1>5. ASSUME NEW x \in Messages, TurnStart(x)
      PROVE  Ids'
  <2>1. PICK events \in Seq(DomainEvent) : StartOf(x, events)
    BY <1>5, StartedWith
  <2>2. PICK more : Publishes(events, more)
    BY <1>1, <2>1, PublishFacts DEF StartOf
  <2>3. handled' = handled /\ promotions' = promotions
    BY <1>5 DEF TurnStart, reactor
  <2>4. ASSUME NEW i \in DOMAIN inbox', inbox'[i].kind \in {"queued", "start"}
        PROVE  inbox'[i].id <= promotions'[inbox'[i].msg]
    <3>1. CASE i \in DOMAIN inbox
      <4>1. inbox'[i] = inbox[i]
        BY <1>1, <2>2, <3>1, PublishedAt
      <4> QED
        BY <1>2, <2>3, <2>4, <3>1, <4>1
    <3>2. CASE i \notin DOMAIN inbox
      <4>1. PICK j \in DOMAIN events : inbox'[i] = events[j]
        BY <1>1, <2>2, <3>2, PublishedAt
      <4>2. inbox'[i].msg = x /\ inbox'[i].id = 0
        BY <2>1, <2>4, <4>1 DEF StartOf
      <4> QED
        BY <1>1, <2>3, <4>2
    <3> QED
      BY <3>1, <3>2
  <2> QED
    BY <1>3, <2>3, <2>4 DEF Ids
<1>6. ASSUME NEW f \in Fibers, Promote(f)
      PROVE  Ids'
  <2> DEFINE x == holding[f]
             e == Promoted(x)
             events == <<e>>
  <2>1. x \in Messages /\ e \in DomainEvent
    BY <1>6, PromotedWith
  <2>2. PICK more : Publishes(events, more)
    BY <1>6, PromotedWith
  <2>3. e.msg = x /\ e.id = promotions[x] + 1
    BY DEF Promoted
  <2>4. events \in Seq(DomainEvent) /\ \A j \in DOMAIN events : events[j] = e
    BY <2>1
  <2> HIDE DEF events, e
  <2>5. handled' = handled /\ promotions' = [promotions EXCEPT ![x] = @ + 1]
    BY <1>6 DEF Promote
  <2>6. /\ promotions'[x] = promotions[x] + 1
        /\ \A m \in Messages : promotions[m] \in Nat /\ promotions'[m] \in Nat /\ promotions[m] <= promotions'[m]
    BY <1>1, <2>1, <2>5
  <2>7. ASSUME NEW i \in DOMAIN inbox', inbox'[i].kind \in {"queued", "start"}
        PROVE  inbox'[i].id <= promotions'[inbox'[i].msg]
    <3>1. CASE i \in DOMAIN inbox
      <4>1. inbox'[i] = inbox[i]
        BY <1>1, <2>2, <2>4, <3>1, PublishedAt
      <4>2. inbox[i].msg \in Messages /\ inbox[i].id <= promotions[inbox[i].msg] /\ inbox[i].id \in Nat
        <5>1. inbox[i] \in DomainEvent
          BY <1>1, <3>1
        <5>2. inbox[i].id \in Nat
          BY <5>1 DEF DomainEvent
        <5> QED
          BY <1>2, <2>7, <3>1, <4>1, <5>2
      <4> QED
        BY <2>6, <4>1, <4>2
    <3>2. CASE i \notin DOMAIN inbox
      <4>1. PICK j \in DOMAIN events : inbox'[i] = events[j]
        BY <1>1, <2>2, <2>4, <3>2, PublishedAt
      <4>2. inbox'[i] = e
        BY <2>4, <4>1
      <4> QED
        BY <2>1, <2>3, <2>6, <4>2
    <3> QED
      BY <3>1, <3>2
  <2>8. \A m \in Messages, n \in Nat : <<m, n>> \in handled' => n <= promotions'[m]
    BY <1>3, <2>5, <2>6
  <2> QED
    BY <2>7, <2>8 DEF Ids
<1>7. ASSUME NEW kind, Takes(kind), promotions' = promotions,
             handled' \in {handled, handled \cup {<<Head(inbox).msg, Head(inbox).id>>}},
             handled' # handled => kind = "start"
      PROVE  Ids'
  <2>1. /\ Len(inbox) \in Nat \ {0} /\ DOMAIN inbox = 1 .. Len(inbox) /\ inbox[1] = Head(inbox)
        /\ inbox' = Tail(inbox) /\ DOMAIN inbox' = 1 .. Len(inbox) - 1
        /\ \A j \in 1 .. Len(inbox) - 1 : inbox'[j] = inbox[j + 1]
    BY <1>1, <1>7, TailFacts DEF Takes
  <2>2. \A j \in DOMAIN inbox' : j + 1 \in DOMAIN inbox /\ inbox'[j] = inbox[j + 1]
    BY <2>1
  <2>3. \A j \in DOMAIN inbox' : inbox'[j].kind \in {"queued", "start"}
          => inbox'[j].id <= promotions'[inbox'[j].msg]
    BY <1>2, <1>7, <2>2
  <2>4. kind = "start" => Head(inbox).id <= promotions[Head(inbox).msg]
    BY <1>2, <1>7, <2>1 DEF Takes
  <2>5. \A m \in Messages, n \in Nat : <<m, n>> \in handled' => n <= promotions'[m]
    BY <1>3, <1>7, <2>4
  <2> QED
    BY <2>3, <2>5 DEF Ids
<1>8. ASSUME TakeQueued \/ TakeInterrupt \/ TakeStop
      PROVE  Ids'
  BY <1>7, <1>8 DEF TakeQueued, TakeInterrupt, TakeStop, reactor, history, lineage
<1>9. ASSUME TakeStart
      PROVE  Ids'
  BY <1>7, <1>9 DEF TakeStart, history, lineage
<1>10. ASSUME Crash
       PROVE  Ids'
  BY <1>10 DEF Crash, Ids
<1>11. ASSUME SessionStop
       PROVE  Ids'
  <2>1. Event("stop", None) \in DomainEvent /\ Event("stop", None).kind = "stop"
    BY DEF Event, DomainEvent
  <2>2. /\ DOMAIN inbox' = 1 .. Len(inbox) + 1
        /\ DOMAIN inbox = 1 .. Len(inbox) /\ Len(inbox) \in Nat
        /\ inbox'[Len(inbox) + 1] = Event("stop", None)
        /\ \A j \in 1 .. Len(inbox) : inbox'[j] = inbox[j]
    BY <1>1, <1>11, <2>1, AppendFacts DEF SessionStop
  <2>3. promotions' = promotions /\ handled' = handled
    BY <1>11 DEF SessionStop, reactor, history, lineage
  <2> QED
    BY <1>2, <1>3, <2>1, <2>2, <2>3 DEF Ids
<1>12. ASSUME \/ Ingestion \/ TurnEnds \/ SessionExits \/ Restart \/ TakeTerminal \/ WorkerDrains
              \/ StopProvider \/ SetStopped \/ StoppingFails \/ MarkStarting \/ MarkingFails
              \/ EnsureSession \/ BindSession \/ SteerTurn \/ SendTurn \/ StartFails
              \/ ReportFailure \/ ReportingFails \/ \E f \in Fibers : PromoteFails(f)
       PROVE  Ids'
  <2>1. UNCHANGED <<inbox, handled, promotions>>
    BY <1>12 DEF Ingestion, TakeRuntime, SetSession, SetSessionFails, TurnEnds, SessionExits, Restart,
                 TakeTerminal, WorkerDrains, StopProvider, SetStopped, StoppingFails, MarkStarting,
                 MarkingFails, EnsureSession, BindSession, SteerTurn, SendTurn, StartFails, ReportFailure,
                 ReportingFails, PromoteFails, inputs, reactor, history, lineage
  <2> QED
    BY <1>4, <2>1
<1>13. "worker" \in Fibers /\ "events" \in Fibers
  BY DEF Fibers
<1> QED
  BY <1>5, <1>6, <1>8, <1>9, <1>10, <1>11, <1>12, <1>13 DEF Next, User, Worker, Drainer

LEMMA InitLiving == Init => Living
<1> SUFFICES ASSUME Init
             PROVE  Living
  OBVIOUS
<1>1. Typed
  BY InitTyped
<1>2. inbox = <<>> /\ queue = <<>> /\ given = <<>> /\ handled = {}
  BY DEF Init
<1>3. Ids
  BY <1>2 DEF Ids
<1>4. WorkerHolds
  BY DEF WorkerHolds, Init, Idle
<1>5. ASSUME NEW m \in Messages
      PROVE  Lives(m)
  <2>1. m # None
    BY MessagesAssumption DEF None
  <2>2. fate[m] = "unsent" /\ \A f \in Fibers : holding[f] = None
    BY DEF Init
  <2>3. ~QueuedComing(m) /\ ~StartComing(m) /\ OneQueued(m) /\ OneStart(m)
    BY <1>2 DEF QueuedComing, StartComing, OneQueued, OneStart
  <2>4. ~Has(queue, m) /\ Once(queue, m) /\ ~Has(given, m) /\ Once(given, m)
    BY <1>2 DEF Has, Once
  <2>5. ~IsHeld(m) /\ OneHolder(m) /\ ~Working(m)
    BY <2>1, <2>2 DEF IsHeld, OneHolder, Working, Init, Idle
  <2> QED
    BY <1>2, <2>2, <2>3, <2>4, <2>5 DEF Lives, OnePlace, OneEach, Fresh, GivenFine
<1> QED
  BY <1>1, <1>3, <1>4, <1>5 DEF Living

LEMMA LivingStep == Living /\ [Next]_vars => Living'
<1>1. ASSUME Living, UNCHANGED vars
      PROVE  Living'
  <2>1. Typed' /\ requeued' = requeued
    BY <1>1, TypedStep DEF Living, vars, history, lineage
  <2>2. Ids' /\ WorkerHolds'
    BY <1>1 DEF Living, Ids, WorkerHolds, vars, inputs, reactor, drains, history, lineage
  <2>3. ASSUME NEW m \in Messages \ requeued'
        PROVE  Lives(m)'
    <3>1. UNCHANGED <<inbox, handled, queue, holding, fate, given, work>> /\ Lives(m)
      BY <1>1, <2>1 DEF Living, vars, inputs, reactor, drains, history, lineage
    <3> QED
      BY <3>1, ElsewhereLives DEF Working
  <2> QED
    BY <2>1, <2>2, <2>3 DEF Living
<1>2. ASSUME Living, Next
      PROVE  Living'
  <2>1. Typed' /\ Ids' /\ WorkerHolds'
    BY <1>2, TypedStep, StepIds, StepHolds DEF Living
  <2>2. \A m \in Messages \ requeued' : Lives(m)'
    BY <1>2, StepLives
  <2> QED
    BY <2>1, <2>2 DEF Living
<1> QED
  BY <1>1, <1>2

\* Living holds always: a message that has no fate yet is in one place, between any two steps.
THEOREM AlwaysLiving == Spec => []Living
BY InitLiving, LivingStep, PTL DEF Spec

\* No message is given to the provider twice.
THEOREM GivesOnce == Spec => []GivenOnce
<1>1. ASSUME Living
      PROVE  GivenOnce
  <2> SUFFICES ASSUME NEW m \in Messages \ requeued
               PROVE  Entries(given, m) <= 1
    BY DEF GivenOnce
  <2>1. given \in Seq(Messages) /\ Once(given, m)
    BY <1>1 DEF Living, Typed, TypeOK, Lives, GivenFine
  <2> QED
    BY <2>1, EntriesAre
<1> QED
  BY <1>1, AlwaysLiving, PTL
LEMMA ComingIs ==
    ASSUME Typed, Ids, NEW m \in Messages, NEW x
    PROVE  x \in Coming(m) \ Acted(m) <=>
             \E i \in DOMAIN inbox : (QueuesAt(i, m) \/ StartsAt(i, m)) /\ x = <<inbox[i].kind, inbox[i].id>>
<1>1. inbox \in Seq(DomainEvent) /\ promotions[m] \in Nat /\ DOMAIN inbox = 1 .. Len(inbox)
  BY DEF Typed, TypeOK
<1> DEFINE acts(i) == inbox[i].kind \in {"queued", "start"} /\ inbox[i].msg = m
           mine == [kind: {"queued", "start"}, msg: {m}, id: 0..promotions[m]]
<1>2. ASSUME NEW i \in DOMAIN inbox, acts(i)
      PROVE  inbox[i] \in mine /\ inbox[i].id \in 0..promotions[m]
  <2>1. inbox[i] \in DomainEvent
    BY <1>1
  <2>2. inbox[i].id \in Nat /\ inbox[i].id <= promotions[m]
    BY <1>2, <2>1 DEF Ids, DomainEvent
  <2> QED
    BY <1>1, <1>2, <2>1, <2>2 DEF DomainEvent
<1>3. ASSUME NEW i \in DOMAIN inbox, inbox[i] \in mine
      PROVE  acts(i)
  BY <1>3
<1> HIDE DEF acts, mine
<1>4. x \in Coming(m) <=> \E i \in DOMAIN inbox : acts(i) /\ x = <<inbox[i].kind, inbox[i].id>>
  BY <1>1, <1>2, <1>3 DEF Coming, mine
<1>5. ASSUME NEW i \in DOMAIN inbox, acts(i), x = <<inbox[i].kind, inbox[i].id>>
      PROVE  x \in Acted(m) <=> inbox[i].kind = "start" /\ <<m, inbox[i].id>> \in handled
  BY <1>2, <1>5 DEF Acted
<1>6. \A i \in DOMAIN inbox : acts(i) /\ ~(inbox[i].kind = "start" /\ <<m, inbox[i].id>> \in handled)
                              <=> QueuesAt(i, m) \/ StartsAt(i, m)
  BY DEF acts, QueuesAt, StartsAt
<1> QED
  BY <1>4, <1>5, <1>6

LEMMA EachAccounted ==
    ASSUME Living, NEW m \in Messages \ requeued
    PROVE  Cardinality(Coming(m) \ Acted(m)) + Entries(queue, m) + Held(m) + AtWork(m)
               = IF fate[m] = "pending" THEN 1 ELSE 0
<1>1. Typed /\ Ids /\ Lives(m) /\ OnePlace(m) /\ OneEach(m)
  BY DEF Living, Lives
<1>2. Entries(queue, m) = IF Has(queue, m) THEN 1 ELSE 0
  BY <1>1, EntriesAre DEF OneEach, Typed, TypeOK
<1>3. AtWork(m) = IF Working(m) THEN 1 ELSE 0
  BY DEF AtWork, Working
<1>4. Held(m) = IF IsHeld(m) THEN 1 ELSE 0
  <2>1. CASE IsHeld(m)
    <3>1. PICK f \in Fibers : holding[f] = m
      BY <2>1 DEF IsHeld
    <3>2. {g \in Fibers : holding[g] = m} = {f}
      BY <1>1, <3>1 DEF OneEach, OneHolder
    <3> QED
      BY <2>1, <3>2, FS_Singleton DEF Held
  <2>2. CASE ~IsHeld(m)
    <3>1. {g \in Fibers : holding[g] = m} = {}
      BY <2>2 DEF IsHeld
    <3> QED
      BY <2>2, <3>1, FS_EmptySet DEF Held
  <2> QED
    BY <2>1, <2>2
<1>5. Cardinality(Coming(m) \ Acted(m)) = IF QueuedComing(m) \/ StartComing(m) THEN 1 ELSE 0
  <2> DEFINE coming == Coming(m) \ Acted(m)
  <2>1. \A x : x \in coming <=>
           \E i \in DOMAIN inbox : (QueuesAt(i, m) \/ StartsAt(i, m)) /\ x = <<inbox[i].kind, inbox[i].id>>
    BY <1>1, ComingIs
  <2> HIDE DEF coming
  <2>2. CASE QueuedComing(m) \/ StartComing(m)
    <3>1. PICK i \in DOMAIN inbox : QueuesAt(i, m) \/ StartsAt(i, m)
      BY <2>2 DEF QueuedComing, StartComing
    <3>2. \A j \in DOMAIN inbox : QueuesAt(j, m) \/ StartsAt(j, m)
              => inbox[j].kind = inbox[i].kind /\ inbox[j].id = inbox[i].id
      <4> SUFFICES ASSUME NEW j \in DOMAIN inbox, QueuesAt(j, m) \/ StartsAt(j, m)
                   PROVE  inbox[j].kind = inbox[i].kind /\ inbox[j].id = inbox[i].id
        OBVIOUS
      <4>1. CASE QueuesAt(i, m)
        <5>1. QueuesAt(j, m)
          BY <1>1, <4>1 DEF OnePlace, QueuedComing, StartComing
        <5> QED
          BY <1>1, <4>1, <5>1 DEF OneEach, OneQueued
      <4>2. CASE StartsAt(i, m)
        <5>1. StartsAt(j, m)
          BY <1>1, <4>2 DEF OnePlace, QueuedComing, StartComing
        <5>2. inbox[j].id = inbox[i].id
          BY <1>1, <4>2, <5>1 DEF OneEach, OneStart
        <5>3. inbox[j].kind = inbox[i].kind
          BY <4>2, <5>1 DEF StartsAt
        <5> QED
          BY <5>2, <5>3
      <4> QED
        BY <3>1, <4>1, <4>2
    <3>3. coming = {<<inbox[i].kind, inbox[i].id>>}
      BY <2>1, <3>1, <3>2
    <3> QED
      BY <2>2, <3>3, FS_Singleton DEF coming
  <2>3. CASE ~(QueuedComing(m) \/ StartComing(m))
    <3>1. coming = {}
      BY <2>1, <2>3 DEF QueuedComing, StartComing
    <3> QED
      BY <2>3, <3>1, FS_EmptySet DEF coming
  <2> QED
    BY <2>2, <2>3
<1> QED
  BY <1>1, <1>2, <1>3, <1>4, <1>5 DEF OnePlace

\* A message that was accepted and has no fate yet is in exactly one place, and one that has its
\* fate is nowhere: nothing is dropped or doubled between the fibers.
THEOREM NothingDropped == Spec => []Accounted
<1>1. Living => Accounted
  BY EachAccounted DEF Accounted
<1> QED
  BY <1>1, AlwaysLiving, PTL
-----------------------------------------------------------------------------------
\* The order of the messages that are queued.

\* b, which was queued after a, is not ahead of it anywhere.
Follows(s, a, b) == \A i, j \in DOMAIN s : s[i] = a /\ s[j] = b => i < j
InboxOrder(a, b) ==
    \A i, j \in DOMAIN inbox :
        (QueuesAt(i, a) /\ QueuesAt(j, b)) \/ (StartsAt(i, a) /\ StartsAt(j, b)) => i < j
Stages(a, b) ==
    /\ QueuedComing(a) => QueuedComing(b)
    /\ Has(queue, a) \/ IsHeld(a) => QueuedComing(b) \/ Has(queue, b)
    /\ StartComing(a) => fate[b] = "pending" /\ ~Working(b)
    /\ Working(a) => fate[b] = "pending"
Behind(a, b) ==
    /\ InboxOrder(a, b) /\ Follows(queue, a, b) /\ Follows(given, a, b)
    /\ fate[b] \in {"pending", "given"} => Stages(a, b)

\* While nobody stops the session, a fiber that holds a message has the flag, and so it is alone.
Calm ==
    /\ \A i \in DOMAIN inbox : inbox[i].kind # "stop"
    /\ \A f \in Fibers : holding[f] # None => draining
    /\ \A f, g \in Fibers : holding[f] # None /\ holding[g] # None => f = g

Queued(a, b) == \E i, j \in DOMAIN lined : i < j /\ lined[i] = a /\ lined[j] = b

LinedUp ==
    /\ \A i \in DOMAIN lined : fate[lined[i]] # "unsent" /\ lined[i] \notin Urgent
    /\ \A i, j \in DOMAIN lined : i < j => lined[i] # lined[j]
    /\ "stop" \notin troubles => Calm
    /\ "stop" \notin troubles /\ requeued = {} =>
        \A a, b \in Messages : Queued(a, b) => Behind(a, b)

Pair(a, b) ==
    /\ a \in Messages \ requeued' /\ b \in Messages \ requeued' /\ a # b
    /\ fate[a] # "unsent" /\ fate[b] # "unsent" /\ a \notin Urgent /\ b \notin Urgent
    /\ Lives(a) /\ Lives(b) /\ Lives(a)' /\ Lives(b)'
    /\ Behind(a, b)

LEMMA SameOrder ==
    ASSUME inbox' = inbox, handled' = handled, NEW a, NEW b
    PROVE  InboxOrder(a, b) <=> InboxOrder(a, b)'
BY DEF InboxOrder, QueuesAt, StartsAt

LEMMA TakenOrder ==
    ASSUME Typed, NEW kind, Takes(kind), handled \subseteq handled', NEW a, NEW b, InboxOrder(a, b)
    PROVE  /\ InboxOrder(a, b)'
           /\ QueuesAt(1, b) => ~QueuedComing(a)
           /\ StartsAt(1, b) => ~StartComing(a)
<1>1. inbox \in Seq(DomainEvent) /\ inbox # <<>> /\ inbox' = Tail(inbox)
  BY DEF Takes, Typed, TypeOK
<1>2. /\ Len(inbox) \in Nat \ {0} /\ DOMAIN inbox = 1 .. Len(inbox)
      /\ DOMAIN inbox' = 1 .. Len(inbox) - 1
      /\ \A j \in 1 .. Len(inbox) - 1 : inbox'[j] = inbox[j + 1]
  BY <1>1, TailFacts
<1>3. \A j \in DOMAIN inbox' : j \in Nat /\ j + 1 \in DOMAIN inbox /\ inbox'[j] = inbox[j + 1]
  BY <1>2
<1>4. 1 \in DOMAIN inbox /\ \A i \in DOMAIN inbox : i \in Nat /\ ~(i < 1)
  BY <1>2
<1>6. ASSUME NEW m, NEW j \in DOMAIN inbox'
      PROVE  (QueuesAt(j, m)' => QueuesAt(j + 1, m)) /\ (StartsAt(j, m)' => StartsAt(j + 1, m))
  BY <1>3 DEF QueuesAt, StartsAt
<1>7. InboxOrder(a, b)'
  <2> SUFFICES ASSUME NEW i \in DOMAIN inbox', NEW j \in DOMAIN inbox',
                      (QueuesAt(i, a)' /\ QueuesAt(j, b)') \/ (StartsAt(i, a)' /\ StartsAt(j, b)')
               PROVE  i < j
    BY DEF InboxOrder
  <2>1. i + 1 < j + 1
    BY <1>3, <1>6 DEF InboxOrder
  <2> QED
    BY <1>3, <2>1
<1>8. (QueuesAt(1, b) => ~QueuedComing(a)) /\ (StartsAt(1, b) => ~StartComing(a))
  BY <1>4 DEF InboxOrder, QueuedComing, StartComing
<1> QED
  BY <1>7, <1>8

LEMMA PublishedOrder ==
    ASSUME inbox \in Seq(DomainEvent), NEW events \in Seq(DomainEvent), NEW more, Publishes(events, more),
           handled' = handled, NEW a, NEW b, InboxOrder(a, b),
           \/ \A j \in DOMAIN events : events[j].kind \in {"queued", "start"} => events[j].msg # a
           \/ /\ ~StartComing(b)
              /\ \A j \in DOMAIN events : /\ events[j].kind = "queued" => events[j].msg # a
                                          /\ events[j].kind = "start" => events[j].msg # b
    PROVE  InboxOrder(a, b)'
<1>1. /\ Len(inbox) \in Nat /\ DOMAIN inbox = 1 .. Len(inbox)
      /\ \A i \in DOMAIN inbox : i \in DOMAIN inbox' /\ inbox'[i] = inbox[i]
      /\ \A i \in DOMAIN inbox' \ DOMAIN inbox :
           i \in Nat /\ i > Len(inbox) /\ \E j \in DOMAIN events : inbox'[i] = events[j]
  BY PublishedAt
<1>2. ASSUME NEW m, NEW i \in DOMAIN inbox
      PROVE  (QueuesAt(i, m)' <=> QueuesAt(i, m)) /\ (StartsAt(i, m)' <=> StartsAt(i, m))
  BY <1>1 DEF QueuesAt, StartsAt
<1>3. ASSUME NEW m, NEW i \in DOMAIN inbox' \ DOMAIN inbox
      PROVE  /\ QueuesAt(i, m)' => \E j \in DOMAIN events : events[j].kind = "queued" /\ events[j].msg = m
             /\ StartsAt(i, m)' => \E j \in DOMAIN events : events[j].kind = "start" /\ events[j].msg = m
  BY <1>1 DEF QueuesAt, StartsAt
<1> SUFFICES ASSUME NEW i \in DOMAIN inbox', NEW j \in DOMAIN inbox',
                    (QueuesAt(i, a)' /\ QueuesAt(j, b)') \/ (StartsAt(i, a)' /\ StartsAt(j, b)')
             PROVE  i < j
  BY DEF InboxOrder
<1>4. CASE i \in DOMAIN inbox /\ j \in DOMAIN inbox
  BY <1>2, <1>4 DEF InboxOrder
<1>5. CASE i \in DOMAIN inbox /\ j \notin DOMAIN inbox
  BY <1>1, <1>5
<1>6. CASE i \notin DOMAIN inbox
  <2>1. /\ \E k \in DOMAIN events : events[k].kind \in {"queued", "start"} /\ events[k].msg = a
        /\ QueuesAt(i, a)' => \E k \in DOMAIN events : events[k].kind = "queued" /\ events[k].msg = a
    BY <1>3, <1>6
  <2>2. /\ ~StartComing(b)
        /\ \A k \in DOMAIN events : /\ events[k].kind = "queued" => events[k].msg # a
                                    /\ events[k].kind = "start" => events[k].msg # b
    BY <2>1
  <2>3. StartsAt(j, b)'
    BY <2>1, <2>2
  <2>4. j \notin DOMAIN inbox
    BY <1>2, <2>2, <2>3 DEF StartComing
  <2> QED
    BY <1>3, <2>2, <2>3, <2>4
<1> QED
  BY <1>4, <1>5, <1>6

LEMMA FollowsTail ==
    ASSUME NEW S, NEW s \in Seq(S), s # <<>>, NEW a, NEW b, Follows(s, a, b)
    PROVE  Follows(Tail(s), a, b) /\ (Head(s) = b => ~Has(s, a))
<1>1. /\ 1 \in DOMAIN s /\ s[1] = Head(s) /\ Len(s) \in Nat \ {0}
      /\ DOMAIN s = 1 .. Len(s) /\ DOMAIN Tail(s) = 1 .. Len(s) - 1
      /\ \A j \in 1 .. Len(s) - 1 : Tail(s)[j] = s[j + 1]
  BY TailFacts
<1>2. \A j \in DOMAIN Tail(s) : j \in Nat /\ j + 1 \in DOMAIN s /\ Tail(s)[j] = s[j + 1]
  BY <1>1
<1>3. \A i \in DOMAIN s : ~(i < 1)
  BY <1>1
<1>4. ASSUME NEW i \in DOMAIN Tail(s), NEW j \in DOMAIN Tail(s), Tail(s)[i] = a, Tail(s)[j] = b
      PROVE  i < j
  <2>1. i + 1 < j + 1
    BY <1>2, <1>4 DEF Follows
  <2> QED
    BY <1>2, <2>1
<1>5. Head(s) = b => ~Has(s, a)
  BY <1>1, <1>3 DEF Follows, Has
<1> QED
  BY <1>4, <1>5 DEF Follows

LEMMA FollowsAppend ==
    ASSUME NEW S, NEW s \in Seq(S), NEW e \in S, NEW a, NEW b, a # b, Follows(s, a, b),
           e = a => ~Has(s, b)
    PROVE  Follows(Append(s, e), a, b)
<1>1. /\ Len(s) \in Nat /\ DOMAIN s = 1 .. Len(s) /\ DOMAIN Append(s, e) = 1 .. Len(s) + 1
      /\ Append(s, e)[Len(s) + 1] = e /\ \A j \in 1 .. Len(s) : Append(s, e)[j] = s[j]
  BY AppendFacts
<1> SUFFICES ASSUME NEW i \in DOMAIN Append(s, e), NEW j \in DOMAIN Append(s, e),
                    Append(s, e)[i] = a, Append(s, e)[j] = b
             PROVE  i < j
  BY DEF Follows
<1>2. CASE i \in DOMAIN s /\ j \in DOMAIN s
  BY <1>1, <1>2 DEF Follows
<1>3. CASE i \in DOMAIN s /\ j \notin DOMAIN s
  BY <1>1, <1>3
<1>4. CASE i \notin DOMAIN s
  <2>1. i = Len(s) + 1 /\ e = a
    BY <1>1, <1>4
  <2>2. j # i
    BY <1>1
  <2>3. j \in DOMAIN s /\ s[j] = b
    BY <1>1, <2>1, <2>2
  <2> QED
    BY <2>1, <2>3 DEF Has
<1> QED
  BY <1>2, <1>3, <1>4

LEMMA FollowsCons ==
    ASSUME NEW S, NEW s \in Seq(S), NEW e \in S, NEW a, NEW b, Follows(s, a, b), e # a, e # b
    PROVE  Follows(<<e>> \o s, a, b)
<1> DEFINE t == <<e>> \o s
<1>1. <<e>> \in Seq(S) /\ Len(<<e>>) = 1 /\ <<e>>[1] = e
  OBVIOUS
<1>2. /\ Len(s) \in Nat /\ DOMAIN s = 1 .. Len(s) /\ DOMAIN t = 1 .. 1 + Len(s)
      /\ t[1] = e /\ \A j \in 1 .. Len(s) : t[1 + j] = s[j]
  BY <1>1, ConcatFacts
<1> HIDE DEF t
<1>3. ASSUME NEW i \in DOMAIN t, t[i] # e
      PROVE  i \in Nat /\ i - 1 \in DOMAIN s /\ t[i] = s[i - 1]
  <2>1. i - 1 \in 1 .. Len(s) /\ 1 + (i - 1) = i /\ i \in Nat
    BY <1>2, <1>3
  <2> QED
    BY <1>2, <2>1
<1>4. ASSUME NEW i \in DOMAIN t, NEW j \in DOMAIN t, t[i] = a, t[j] = b
      PROVE  i < j
  <2>1. /\ i \in Nat /\ i - 1 \in DOMAIN s /\ s[i - 1] = a
        /\ j \in Nat /\ j - 1 \in DOMAIN s /\ s[j - 1] = b
    BY <1>3, <1>4
  <2>2. i - 1 < j - 1
    BY <2>1 DEF Follows
  <2> QED
    BY <2>1, <2>2
<1> QED
  BY <1>4 DEF t, Follows
\* Nothing moves, or it only loses its place.
LEMMA StillBehind ==
    ASSUME UNCHANGED <<inbox, handled, queue, given>>, NEW a, NEW b, Pair(a, b),
           IsHeld(a)' => IsHeld(a), Working(a)' => Working(a), Working(b)' => Working(b),
           fate'[b] = fate[b] \/ fate'[b] \notin {"pending", "given"}
    PROVE  Behind(a, b)'
<1>1. InboxOrder(a, b)' /\ Follows(queue, a, b)' /\ Follows(given, a, b)'
  BY SameOrder DEF Pair, Behind, Follows
<1>2. /\ QueuedComing(a)' <=> QueuedComing(a)
      /\ QueuedComing(b)' <=> QueuedComing(b)
      /\ StartComing(a)' <=> StartComing(a)
  BY SameEvents
<1>3. /\ Has(queue, a)' <=> Has(queue, a)
      /\ Has(queue, b)' <=> Has(queue, b)
  BY DEF Has
<1>4. fate'[b] \in {"pending", "given"} => Stages(a, b)'
  BY <1>2, <1>3 DEF Pair, Behind, Stages
<1> QED
  BY <1>1, <1>4 DEF Behind

LEMMA GiveBehind ==
    ASSUME Living, UNCHANGED <<inbox, handled, queue, holding>>, Give, At("sending"),
           NEW a, NEW b, Pair(a, b)
    PROVE  Behind(a, b)'
<1> DEFINE x == work.msg
<1>1. /\ Typed /\ TypeOK /\ given \in Seq(Messages) /\ given' = Append(given, x)
      /\ a \in Messages /\ b \in Messages /\ a # b
  BY DEF Living, Typed, TypeOK, Give, Pair
<1>2. x \in Messages /\ \A m : Working(m) <=> m = x
  BY <1>1 DEF At, TypeOK, Work, Working
<1>3. ~Working(a)' /\ ~Working(b)'
  BY <1>1, MessagesAssumption DEF Give, Idle, Working, None
<1>4. fate'[b] = IF b = x /\ fate[b] = "pending" THEN "given" ELSE fate[b]
  BY <1>1, Settled DEF Give
<1>5. a = x => ~Has(given, b)
  BY <1>2 DEF Pair, Behind, Stages, Lives, GivenFine
<1>6. Follows(given, a, b)'
  <2>1. Follows(Append(given, x), a, b)
    BY <1>1, <1>2, <1>5, FollowsAppend DEF Pair, Behind
  <2> QED
    BY <1>1, <2>1 DEF Follows
<1>7. InboxOrder(a, b)' /\ Follows(queue, a, b)'
  BY SameOrder DEF Pair, Behind, Follows
<1>8. /\ QueuedComing(a)' <=> QueuedComing(a)
      /\ QueuedComing(b)' <=> QueuedComing(b)
      /\ StartComing(a)' <=> StartComing(a)
      /\ Has(queue, a)' <=> Has(queue, a)
      /\ Has(queue, b)' <=> Has(queue, b)
      /\ IsHeld(a)' <=> IsHeld(a)
  BY SameEvents DEF Has, IsHeld
<1>9. ASSUME fate'[b] \in {"pending", "given"}
      PROVE  Stages(a, b)'
  <2>1. fate[b] \in {"pending", "given"}
    BY <1>4, <1>9
  <2>2. Stages(a, b)
    BY <2>1 DEF Pair, Behind
  <2>3. CASE b = x
    <3>1. Working(b) /\ ~QueuedComing(b) /\ ~Has(queue, b)
      BY <1>2, <2>3 DEF Pair, Lives, OnePlace
    <3>2. ~QueuedComing(a) /\ ~Has(queue, a) /\ ~IsHeld(a) /\ ~StartComing(a)
      BY <2>2, <3>1 DEF Stages
    <3> QED
      BY <1>3, <1>8, <3>2 DEF Stages
  <2>4. CASE b # x
    <3>1. fate'[b] = fate[b]
      BY <1>4, <2>4
    <3> QED
      BY <1>3, <1>8, <2>2, <3>1 DEF Stages
  <2> QED
    BY <2>3, <2>4
<1> QED
  BY <1>6, <1>7, <1>9 DEF Behind

LEMMA DrainBehind ==
    ASSUME Living, Calm, NEW f \in Fibers, BeginDrain(f), NEW a, NEW b, Pair(a, b),
           UNCHANGED <<inbox, handled, fate, given>>, Working(a)' <=> Working(a), Working(b)' <=> Working(b)
    PROVE  Behind(a, b)'
<1>1. Typed /\ TypeOK /\ a \in Messages /\ b \in Messages /\ a # b
  BY DEF Living, Typed, Pair
<1>2. CASE UNCHANGED drains
  BY <1>2, StillBehind DEF drains, IsHeld
<1>3. CASE /\ ~draining /\ queue # <<>> /\ Head(queue) \in Messages
           /\ queue' = Tail(queue) /\ holding' = [holding EXCEPT ![f] = Head(queue)]
  <2> DEFINE x == Head(queue)
  <2>1. queue \in Seq(Messages)
    BY <1>1 DEF TypeOK
  <2>2. ~IsHeld(a)
    BY <1>1, <1>3, MessagesAssumption DEF Calm, IsHeld, None
  <2>3. IsHeld(a)' => a = x
    BY <1>1, <1>3, <2>2 DEF IsHeld, TypeOK
  <2>4. /\ Has(queue, x)
        /\ Has(queue, a)' => Has(queue, a)
        /\ Has(queue, b) => Has(queue, b)' \/ b = x
    <3>1. /\ Has(queue, x) /\ (Has(Tail(queue), a) => Has(queue, a))
          /\ Has(queue, b) => Has(Tail(queue), b) \/ b = x
      BY <1>3, <2>1, TailEntries
    <3>2. (Has(queue, a)' <=> Has(Tail(queue), a)) /\ (Has(queue, b)' <=> Has(Tail(queue), b))
      BY <1>3 DEF Has
    <3> QED
      BY <3>1, <3>2
  <2>5. Follows(queue, a, b)' /\ (b = x => ~Has(queue, a))
    <3>1. Follows(Tail(queue), a, b) /\ (x = b => ~Has(queue, a))
      BY <1>3, <2>1, FollowsTail DEF Pair, Behind
    <3> QED
      BY <1>3, <3>1 DEF Follows
  <2>6. InboxOrder(a, b)' /\ Follows(given, a, b)'
    BY SameOrder DEF Pair, Behind, Follows
  <2>7. /\ QueuedComing(a)' <=> QueuedComing(a)
        /\ QueuedComing(b)' <=> QueuedComing(b)
        /\ StartComing(a)' <=> StartComing(a)
    BY SameEvents
  <2>8. ASSUME fate'[b] \in {"pending", "given"}
        PROVE  Stages(a, b)'
    <3>1. Stages(a, b)
      BY <2>8 DEF Pair, Behind
    <3>2. Has(queue, a)' \/ IsHeld(a)' => QueuedComing(b)' \/ Has(queue, b)'
      BY <1>1, <2>3, <2>4, <2>5, <2>7, <3>1 DEF Stages
    <3> QED
      BY <2>7, <3>1, <3>2 DEF Stages
  <2> QED
    BY <2>5, <2>6, <2>8 DEF Behind
<1> QED
  BY <1>1, <1>2, <1>3, BeginDrainFacts

LEMMA PromoteBehind ==
    ASSUME Living, NEW f \in Fibers, Promote(f), NEW a, NEW b, Pair(a, b)
    PROVE  Behind(a, b)'
<1> DEFINE x == holding[f]
           e == Promoted(x)
           events == <<e>>
<1>1. x \in Messages /\ e \in DomainEvent
  BY PromotedWith
<1>2. PICK more : Publishes(events, more)
  BY PromotedWith
<1>3. e.kind = "start" /\ e.msg = x
  BY DEF Promoted
<1>4. events \in Seq(DomainEvent) /\ \A j \in DOMAIN events : events[j] = e
  BY <1>1
<1> HIDE DEF events, e
<1>5. /\ Typed /\ TypeOK /\ inbox \in Seq(DomainEvent) /\ a \in Messages /\ b \in Messages /\ a # b
  BY DEF Living, Typed, TypeOK, Pair
<1>6. /\ UNCHANGED <<queue, handled, work, given, fate>>
      /\ holding' = [holding EXCEPT ![f] = None]
  BY DEF Promote
<1>7. \A m : (m = a \/ m = b) => /\ Working(m)' <=> Working(m)
                                 /\ Has(queue, m)' <=> Has(queue, m)
  BY <1>6 DEF Working, Has
<1>8. IsHeld(x) /\ (IsHeld(a)' => IsHeld(a))
  BY <1>5, <1>6, Released DEF Pair, Lives, OneEach, IsHeld
<1>9. ASSUME NEW m
      PROVE  /\ QueuedComing(m)' <=> QueuedComing(m)
             /\ m # x => (StartComing(m)' <=> StartComing(m))
  <2>1. /\ QueuedComing(m)' <=> \/ QueuedComing(m)
                                \/ \E j \in DOMAIN events : events[j].kind = "queued" /\ events[j].msg = m
        /\ StartComing(m)' <=> \/ StartComing(m)
                               \/ \E j \in DOMAIN events : /\ events[j].kind = "start" /\ events[j].msg = m
                                                           /\ <<m, events[j].id>> \notin handled
    BY <1>2, <1>4, <1>5, <1>6, PublishedComing
  <2> QED
    BY <1>3, <1>4, <2>1
<1>10. Follows(queue, a, b)' /\ Follows(given, a, b)'
  BY <1>6 DEF Pair, Behind, Follows
<1>11. a = x /\ fate[b] \in {"pending", "given"} => QueuedComing(b) \/ Has(queue, b)
  BY <1>8 DEF Pair, Behind, Stages
<1>12. InboxOrder(a, b)'
  <2>1. \/ a # x
        \/ ~StartComing(b) /\ b # x
    <3>1. StartComing(b) => fate[b] = "pending"
      BY DEF Pair, Lives, OnePlace
    <3> QED
      BY <1>5, <1>11, <3>1 DEF Pair, Lives, OnePlace
  <2>2. CASE a # x
    <3>1. \A j \in DOMAIN events : events[j].kind \in {"queued", "start"} => events[j].msg # a
      BY <1>3, <1>4, <2>2
    <3> QED
      BY <1>2, <1>4, <1>5, <1>6, <3>1, PublishedOrder DEF Pair, Behind
  <2>3. CASE ~StartComing(b) /\ b # x
    <3>1. \A j \in DOMAIN events : /\ events[j].kind = "queued" => events[j].msg # a
                                   /\ events[j].kind = "start" => events[j].msg # b
      BY <1>3, <1>4, <2>3
    <3> QED
      BY <1>2, <1>4, <1>5, <1>6, <2>3, <3>1, PublishedOrder DEF Pair, Behind
  <2> QED
    BY <2>1, <2>2, <2>3
<1>13. ASSUME fate'[b] \in {"pending", "given"}
       PROVE  Stages(a, b)'
  <2>1. Stages(a, b) /\ fate'[b] = fate[b]
    BY <1>6, <1>13 DEF Pair, Behind
  <2>2. QueuedComing(a)' => QueuedComing(b)'
    BY <1>9, <2>1 DEF Stages
  <2>3. Has(queue, a)' \/ IsHeld(a)' => QueuedComing(b)' \/ Has(queue, b)'
    BY <1>7, <1>8, <1>9, <2>1 DEF Stages
  <2>4. Working(a)' => fate'[b] = "pending"
    BY <1>7, <2>1 DEF Stages
  <2>5. StartComing(a)' => fate'[b] = "pending" /\ ~Working(b)'
    <3>1. CASE a = x
      <4>1. fate[b] = "pending" /\ ~Working(b)
        BY <1>6, <1>11, <1>13, <3>1 DEF Pair, Lives, OnePlace
      <4> QED
        BY <1>7, <2>1, <4>1
    <3>2. CASE a # x
      BY <1>7, <1>9, <2>1, <3>2 DEF Stages
    <3> QED
      BY <3>1, <3>2
  <2> QED
    BY <2>2, <2>3, <2>4, <2>5 DEF Stages
<1> QED
  BY <1>10, <1>12, <1>13 DEF Behind

LEMMA PromoteFailsBehind ==
    ASSUME Living, NEW f \in Fibers, PromoteFails(f), NEW a, NEW b, Pair(a, b)
    PROVE  Behind(a, b)'
<1>1. /\ UNCHANGED <<inbox, queue, handled, work, given>>
      /\ holding' = [holding EXCEPT ![f] = None]
  BY DEF PromoteFails, inputs
<1>2. TypeOK /\ a \in Messages /\ b \in Messages
  BY DEF Living, Typed, Pair
<1>3. fate'[b] = IF b = holding[f] /\ fate[b] = "pending" THEN "lost" ELSE fate[b]
  BY <1>2, Settled DEF PromoteFails
<1>4. IsHeld(a)' => IsHeld(a)
  BY <1>1, <1>2, Released DEF Pair, Lives, OneEach
<1>5. (Working(a)' => Working(a)) /\ (Working(b)' => Working(b))
  BY <1>1 DEF Working
<1> QED
  BY <1>1, <1>3, <1>4, <1>5, StillBehind
\* A message that starts changes nothing for those before it; one that is queued is behind them.
LEMMA TurnStartBehind ==
    ASSUME Living, NEW x \in Messages, TurnStart(x), requeued' = {},
           NEW a \in Messages, NEW b \in Messages, a # x,
           Lives(a), Lives(b), Lives(b)', a # b,
           \/ Pair(a, b) /\ b # x
           \/ b = x /\ ShouldQueue(x)
    PROVE  Behind(a, b)'
<1>1. PICK events \in Seq(DomainEvent) : StartOf(x, events)
  BY StartedWith
<1>2. inbox \in Seq(DomainEvent) /\ Typed /\ TypeOK
  BY DEF Living, Typed, TypeOK
<1>3. PICK more : Publishes(events, more)
  BY <1>1, <1>2, PublishFacts DEF StartOf
<1>4. /\ UNCHANGED <<queue, holding, handled, work, given>>
      /\ fate[x] = "unsent" /\ fate' = [fate EXCEPT ![x] = "pending"]
  BY DEF TurnStart, reactor, drains
<1>5. /\ Working(a)' <=> Working(a)
      /\ Working(b)' <=> Working(b)
      /\ IsHeld(a)' <=> IsHeld(a)
      /\ Has(queue, a)' <=> Has(queue, a)
      /\ Has(queue, b)' <=> Has(queue, b)
  BY <1>4 DEF Working, IsHeld, Has
<1>6. \A j \in DOMAIN events : events[j].kind \in {"queued", "start"} => events[j].msg # a
  BY <1>1 DEF StartOf
<1>7. ASSUME NEW m
      PROVE  /\ QueuedComing(m)' <=> \/ QueuedComing(m)
                                     \/ \E j \in DOMAIN events : events[j].kind = "queued" /\ events[j].msg = m
             /\ StartComing(m)' <=> \/ StartComing(m)
                                    \/ \E j \in DOMAIN events : /\ events[j].kind = "start" /\ events[j].msg = m
                                                                /\ <<m, events[j].id>> \notin handled
  BY <1>2, <1>3, <1>4, PublishedComing
<1>8. (QueuedComing(a)' <=> QueuedComing(a)) /\ (StartComing(a)' <=> StartComing(a))
  BY <1>6, <1>7
<1>9. CASE Pair(a, b) /\ b # x
  <2>1. InboxOrder(a, b)'
    BY <1>2, <1>3, <1>4, <1>6, <1>9, PublishedOrder DEF Pair, Behind
  <2>2. Follows(queue, a, b)' /\ Follows(given, a, b)'
    BY <1>4, <1>9 DEF Pair, Behind, Follows
  <2>3. fate'[b] = fate[b] /\ (QueuedComing(b) => QueuedComing(b)')
    BY <1>2, <1>4, <1>7, <1>9 DEF TypeOK
  <2>4. fate'[b] \in {"pending", "given"} => Stages(a, b)'
    BY <1>5, <1>8, <1>9, <2>3 DEF Pair, Behind, Stages
  <2> QED
    BY <2>1, <2>2, <2>4 DEF Behind
<1>10. CASE b = x /\ ShouldQueue(x)
  <2>1. fate'[b] = "pending" /\ fate[b] = "unsent"
    BY <1>2, <1>4, <1>10 DEF TypeOK
  <2>2. ~(QueuedComing(b) \/ StartComing(b) \/ Has(queue, b) \/ IsHeld(b) \/ Working(b) \/ Has(given, b))
    BY <2>1 DEF Lives, OnePlace, GivenFine
  <2>3. InboxOrder(a, b)
    BY <2>2 DEF InboxOrder, QueuedComing, StartComing
  <2>4. InboxOrder(a, b)'
    BY <1>2, <1>3, <1>4, <1>6, <2>3, PublishedOrder
  <2>5. Follows(queue, a, b)' /\ Follows(given, a, b)'
    BY <1>4, <2>2 DEF Follows, Has
  <2>6. QueuedComing(b)' /\ ~Working(b)'
    BY <1>1, <1>5, <1>7, <1>10, <2>2 DEF StartOf
  <2> QED
    BY <2>1, <2>4, <2>5, <2>6 DEF Behind, Stages
<1> QED
  BY <1>9, <1>10

LEMMA TakeQueuedBehind ==
    ASSUME Living, TakeQueued, NEW a, NEW b, Pair(a, b)
    PROVE  Behind(a, b)'
<1> DEFINE x == Head(inbox).msg
<1>1. /\ UNCHANGED <<handled, holding, work, given, fate>>
      /\ queue' = Enqueued(x) /\ Takes("queued")
  BY DEF TakeQueued, history
<1>2. Typed /\ TypeOK /\ queue \in Seq(Messages) /\ a \in Messages /\ b \in Messages /\ a # b
  BY DEF Living, Typed, TypeOK, Pair
<1>3. x \in Messages /\ inbox[1] = Head(inbox) /\ Head(inbox).kind = "queued"
  BY <1>1, <1>2, TakesFacts, TailFacts DEF TypeOK
<1>4. ASSUME NEW m
      PROVE  (QueuesAt(1, m) <=> m = x) /\ ~StartsAt(1, m)
  BY <1>3 DEF QueuesAt, StartsAt
<1>5. InboxOrder(a, b)' /\ (b = x => ~QueuedComing(a))
  BY <1>1, <1>2, <1>4, TakenOrder DEF Pair, Behind
<1>6. /\ QueuedComing(a)' => QueuedComing(a)
      /\ QueuedComing(b) => QueuedComing(b)' \/ b = x
      /\ a = x => QueuedComing(a)
      /\ StartComing(a)' => StartComing(a)
  BY <1>1, <1>2, <1>4, TakenQueued, TakenStart
<1>7. /\ Has(queue, a)' <=> Has(queue, a) \/ a = x
      /\ Has(queue, b)' <=> Has(queue, b) \/ b = x
  <2>1. Enqueued(x) = <<x>> \o queue \/ Enqueued(x) = Append(queue, x)
    BY DEF Enqueued
  <2>2. \A m : Has(<<x>> \o queue, m) <=> Has(queue, m) \/ m = x
    BY <1>2, <1>3, ConsEntries
  <2>3. \A m : Has(Append(queue, x), m) <=> Has(queue, m) \/ m = x
    BY <1>2, <1>3, AppendEntries
  <2>4. \A m : Has(Enqueued(x), m) <=> Has(queue, m) \/ m = x
    BY <2>1, <2>2, <2>3
  <2>5. (Has(queue, a)' <=> Has(Enqueued(x), a)) /\ (Has(queue, b)' <=> Has(Enqueued(x), b))
    BY <1>1 DEF Has
  <2> QED
    BY <2>4, <2>5
<1>8. Follows(queue, a, b)'
  <2>1. CASE x = a \/ x = b
    <3>1. Enqueued(x) = Append(queue, x)
      BY <2>1 DEF Enqueued, Pair
    <3>2. x = a => ~Has(queue, b)
      <4>1. Has(queue, b) => fate[b] = "pending" /\ ~QueuedComing(b)
        BY DEF Pair, Lives, OnePlace
      <4> QED
        BY <1>6, <4>1 DEF Pair, Behind, Stages
    <3>3. Follows(Append(queue, x), a, b)
      BY <1>2, <1>3, <3>2, FollowsAppend DEF Pair, Behind
    <3> QED
      BY <1>1, <3>1, <3>3 DEF Follows
  <2>2. CASE x # a /\ x # b
    <3>1. Follows(Append(queue, x), a, b) /\ Follows(<<x>> \o queue, a, b)
      BY <1>2, <1>3, <2>2, FollowsAppend, FollowsCons DEF Pair, Behind
    <3>2. Follows(Enqueued(x), a, b)
      BY <3>1 DEF Enqueued
    <3> QED
      BY <1>1, <3>2 DEF Follows
  <2> QED
    BY <2>1, <2>2
<1>9. Follows(given, a, b)'
  BY <1>1 DEF Pair, Behind, Follows
<1>10. /\ IsHeld(a)' <=> IsHeld(a)
       /\ Working(a)' <=> Working(a)
       /\ Working(b)' <=> Working(b)
  BY <1>1 DEF IsHeld, Working
<1>11. ASSUME fate'[b] \in {"pending", "given"}
       PROVE  Stages(a, b)'
  <2>1. Stages(a, b) /\ fate'[b] = fate[b]
    BY <1>1, <1>11 DEF Pair, Behind
  <2>2. QueuedComing(a)' => QueuedComing(b)'
    BY <1>5, <1>6, <2>1 DEF Stages
  <2>3. Has(queue, a)' \/ IsHeld(a)' => QueuedComing(b)' \/ Has(queue, b)'
    BY <1>6, <1>7, <1>10, <2>1 DEF Stages
  <2> QED
    BY <1>6, <1>10, <2>1, <2>2, <2>3 DEF Stages
<1> QED
  BY <1>5, <1>8, <1>9, <1>11 DEF Behind

LEMMA TakeStartBehind ==
    ASSUME Living, TakeStart \/ TakeInterrupt, NEW a, NEW b, Pair(a, b)
    PROVE  Behind(a, b)'
<1> DEFINE x == Head(inbox).msg
<1>1. /\ UNCHANGED <<queue, holding, given, fate>>
      /\ Takes("start") \/ Takes("interrupt")
      /\ handled \subseteq handled'
  BY DEF TakeStart, TakeInterrupt, history, drains, reactor
<1>2. Typed /\ TypeOK /\ a \in Messages /\ b \in Messages /\ a # b
  BY DEF Living, Typed, Pair
<1>3. inbox[1] = Head(inbox) /\ Head(inbox).kind \in {"start", "interrupt"} /\ work.msg = None
  BY <1>1, <1>2, TakesFacts, TailFacts DEF TypeOK
<1>4. ASSUME NEW m
      PROVE  ~QueuesAt(1, m)
  BY <1>3 DEF QueuesAt
<1>5. InboxOrder(a, b)' /\ (StartsAt(1, b) => ~StartComing(a))
  BY <1>1, <1>2, TakenOrder DEF Pair, Behind
<1>6. (QueuedComing(a)' <=> QueuedComing(a)) /\ (QueuedComing(b)' <=> QueuedComing(b))
  BY <1>1, <1>2, <1>4, TakenQueued
<1>7. /\ Has(queue, a)' <=> Has(queue, a)
      /\ Has(queue, b)' <=> Has(queue, b)
      /\ IsHeld(a)' <=> IsHeld(a)
      /\ Follows(queue, a, b)' /\ Follows(given, a, b)'
  BY <1>1 DEF Has, IsHeld, Pair, Behind, Follows
<1>8. CASE handled' = handled /\ work' = work
  <2>1. StartComing(a)' => StartComing(a)
    BY <1>1, <1>2, <1>8, TakenStart
  <2>2. (Working(a)' <=> Working(a)) /\ (Working(b)' <=> Working(b))
    BY <1>8 DEF Working
  <2>3. fate'[b] \in {"pending", "given"} => Stages(a, b)'
    BY <1>1, <1>6, <1>7, <2>1, <2>2 DEF Pair, Behind, Stages
  <2> QED
    BY <1>5, <1>7, <2>3 DEF Behind
<1>9. CASE ~(handled' = handled /\ work' = work)
  <2>1. /\ TakeStart /\ ~HasHandled(Head(inbox))
        /\ handled' = handled \cup {<<inbox[1].msg, inbox[1].id>>} /\ work'.msg = x
    BY <1>3, <1>9 DEF TakeStart, TakeInterrupt, reactor
  <2>2. Head(inbox).kind = "start"
    BY <2>1 DEF TakeStart, Takes
  <2>3. \A m : StartsAt(1, m) <=> m = x
    BY <1>3, <2>1, <2>2 DEF StartsAt, HasHandled
  <2>4. /\ StartComing(a)' => StartComing(a)
        /\ a = x => StartComing(a)
    BY <1>1, <1>2, <2>1, <2>3, TakenStart
  <2>5. (Working(a)' => a = x) /\ (Working(b)' => b = x)
    BY <2>1 DEF Working
  <2>6. b = x => ~StartComing(a)
    BY <1>5, <2>3
  <2>7. ASSUME fate'[b] \in {"pending", "given"}
        PROVE  Stages(a, b)'
    <3>1. Stages(a, b) /\ fate'[b] = fate[b]
      BY <1>1, <2>7 DEF Pair, Behind
    <3> QED
      BY <1>6, <1>7, <2>4, <2>5, <2>6, <3>1 DEF Stages
  <2> QED
    BY <1>5, <1>7, <2>7 DEF Behind
<1> QED
  BY <1>8, <1>9

LEMMA CrashBehind ==
    ASSUME Living, Crash, NEW a, NEW b, Pair(a, b)
    PROVE  Behind(a, b)'
<1>1. /\ inbox' = <<>> /\ queue' = <<>> /\ given' = given /\ Settle(Messages, "lost")
  BY DEF Crash
<1>2. TypeOK /\ b \in Messages
  BY DEF Living, Typed, Pair
<1>3. InboxOrder(a, b)' /\ Follows(queue, a, b)'
  BY <1>1 DEF InboxOrder, Follows
<1>4. Follows(given, a, b)'
  BY <1>1 DEF Pair, Behind, Follows
<1>5. fate'[a] # "pending"
  BY <1>1, <1>2, Settled DEF Pair
<1>6. Stages(a, b)'
  BY <1>5 DEF Pair, Lives, OnePlace, Stages
<1> QED
  BY <1>3, <1>4, <1>6 DEF Behind

\* The worker's other steps, and those of the others.
LEMMA QuietBehind ==
    ASSUME Living, NEW a, NEW b, Pair(a, b),
           \/ MarkStarting \/ EnsureSession \/ BindSession \/ StartFails
           \/ StopProvider \/ SetStopped \/ StoppingFails
           \/ MarkingFails \/ ReportingFails \/ ReportFailure
           \/ Ingestion \/ TurnEnds \/ SessionExits \/ Restart
    PROVE  Behind(a, b)'
<1>1. UNCHANGED <<inbox, handled, queue, holding, given>>
  BY DEF MarkStarting, EnsureSession, BindSession, StartFails, StopProvider, SetStopped, StoppingFails,
         MarkingFails, ReportingFails, ReportFailure,
         Ingestion, TakeRuntime, SetSession, SetSessionFails, TurnEnds, SessionExits, Restart,
         inputs, drains, reactor, history, lineage
<1>2. TypeOK /\ a \in Messages /\ b \in Messages /\ a # None /\ b # None
  BY MessagesAssumption DEF Living, Typed, Pair, None
<1>3. IsHeld(a)' => IsHeld(a)
  BY <1>1 DEF IsHeld
<1>4. fate'[b] = fate[b] \/ fate'[b] \notin {"pending", "given"}
  <2>1. CASE MarkingFails \/ ReportingFails \/ ReportFailure
    BY <1>2, <2>1, Settled DEF MarkingFails, ReportingFails, ReportFailure
  <2>2. CASE ~(MarkingFails \/ ReportingFails \/ ReportFailure)
    BY <2>2 DEF MarkStarting, EnsureSession, BindSession, StartFails, StopProvider, SetStopped, StoppingFails,
                Ingestion, TakeRuntime, SetSession, SetSessionFails, TurnEnds, SessionExits, Restart, history
  <2> QED
    BY <2>1, <2>2
<1>5. \A m \in Messages : Working(m)' => Working(m)
  <2> SUFFICES ASSUME NEW m \in Messages, Working(m)'
               PROVE  Working(m)
    OBVIOUS
  <2>1. m # None
    BY MessagesAssumption DEF None
  <2>2. CASE MarkStarting \/ EnsureSession \/ BindSession \/ StartFails
    <3>1. work'.msg = work.msg /\ work.at # "draining"
      BY <1>2, <2>2 DEF MarkStarting, EnsureSession, BindSession, StartFails, At, TypeOK, Work
    <3> QED
      BY <3>1 DEF Working
  <2>3. CASE StopProvider \/ SetStopped \/ StoppingFails \/ MarkingFails \/ ReportingFails \/ ReportFailure
    <3>1. work'.msg = None \/ work'.at = "draining"
      BY <1>2, <2>3 DEF StopProvider, SetStopped, StoppingFails, MarkingFails, ReportingFails, ReportFailure,
                        At, TypeOK, Work, Idle
    <3> QED
      BY <2>1, <3>1 DEF Working
  <2>4. CASE Ingestion \/ TurnEnds \/ SessionExits \/ Restart
    <3>1. work' = work
      BY <2>4 DEF Ingestion, TakeRuntime, SetSession, SetSessionFails, TurnEnds, SessionExits, Restart, reactor
    <3> QED
      BY <3>1 DEF Working
  <2> QED
    BY <2>2, <2>3, <2>4
<1> QED
  BY <1>1, <1>2, <1>3, <1>4, <1>5, StillBehind
LEMMA StepBehind ==
    ASSUME Living, Calm, Next, "stop" \notin troubles', requeued' = {}, NEW a, NEW b, Pair(a, b)
    PROVE  Behind(a, b)'
<1>1. "worker" \in Fibers /\ "events" \in Fibers /\ a \in Messages /\ b \in Messages /\ a # b
  BY DEF Fibers, Pair
<1>2. ~SessionStop /\ ~TakeStop
  <2>1. ~SessionStop
    BY DEF SessionStop, Trouble
  <2>2. TakeStop => inbox \in Seq(DomainEvent) /\ inbox # <<>> /\ Head(inbox).kind = "stop"
    BY DEF TakeStop, Takes, Living, Typed, TypeOK
  <2>3. TakeStop => 1 \in DOMAIN inbox /\ inbox[1].kind = "stop"
    BY <2>2, TailFacts
  <2> QED
    BY <2>1, <2>3 DEF Calm
<1>3. ASSUME NEW x \in Messages, TurnStart(x)
      PROVE  Behind(a, b)'
  <2>1. a # x /\ b # x
    BY <1>3 DEF TurnStart, Pair
  <2> QED
    BY <1>1, <1>3, <2>1, TurnStartBehind DEF Pair
<1>4. CASE TakeTerminal
  <2>1. /\ UNCHANGED <<inbox, handled, fate, given, work>> /\ BeginDrain("events")
    BY <1>4 DEF TakeTerminal, history
  <2> QED
    BY <1>1, <2>1, DrainBehind DEF Working
<1>5. CASE WorkerDrains
  <2>1. /\ UNCHANGED <<inbox, handled, fate, given>>
        /\ work.at = "draining" /\ work' = Idle /\ BeginDrain("worker")
    BY <1>5 DEF WorkerDrains, DrainAfterFailure, At, inputs, history
  <2>2. ~Working(a)' /\ ~Working(b)' /\ ~Working(a) /\ ~Working(b)
    BY <1>1, <2>1, MessagesAssumption DEF Working, Idle, None
  <2> QED
    BY <1>1, <2>1, <2>2, DrainBehind
<1>6. CASE SteerTurn \/ SendTurn
  <2>1. UNCHANGED <<inbox, handled, queue, holding>> /\ Give /\ At("sending")
    BY <1>6 DEF SteerTurn, SendTurn, inputs, drains
  <2> QED
    BY <2>1, GiveBehind
<1> QED
  BY <1>1, <1>2, <1>3, <1>4, <1>5, <1>6, PromoteBehind, PromoteFailsBehind, TakeQueuedBehind,
     TakeStartBehind, CrashBehind, QuietBehind DEF Next, User, Worker, Drainer

LEMMA StepCalm ==
    ASSUME Living, Calm, Next, "stop" \notin troubles'
    PROVE  Calm'
<1>1. "worker" \in Fibers /\ "events" \in Fibers
  BY DEF Fibers
<1>2. Typed /\ TypeOK /\ inbox \in Seq(DomainEvent) /\ holding \in [Fibers -> Messages \cup {None}]
  BY DEF Living, Typed, TypeOK
<1>3. ~SessionStop /\ ~TakeStop
  <2>1. ~SessionStop
    BY DEF SessionStop, Trouble
  <2>2. TakeStop => inbox # <<>> /\ Head(inbox).kind = "stop"
    BY DEF TakeStop, Takes
  <2>3. TakeStop => 1 \in DOMAIN inbox /\ inbox[1].kind = "stop"
    BY <1>2, <2>2, TailFacts
  <2> QED
    BY <2>1, <2>3 DEF Calm
<1>4. CASE UNCHANGED <<inbox, holding, draining>>
  BY <1>4 DEF Calm
<1>5. ASSUME NEW x \in Messages, TurnStart(x)
      PROVE  Calm'
  <2>1. PICK events \in Seq(DomainEvent) : Publish(events) /\ \A j \in DOMAIN events : events[j].kind # "stop"
    <3> DEFINE s == Event("start", x)
               q == Event("queued", x)
               i == Event("interrupt", None)
    <3>1. /\ s \in DomainEvent /\ s.kind = "start" /\ q \in DomainEvent /\ q.kind = "queued"
          /\ i \in DomainEvent /\ i.kind = "interrupt"
      BY DEF Event, DomainEvent
    <3>2. Publish(IF ~ShouldQueue(x) THEN <<s>> ELSE IF x \in Urgent THEN <<q, i>> ELSE <<q>>)
      BY <1>5 DEF TurnStart
    <3> HIDE DEF s, q, i
    <3>3. /\ <<s>> \in Seq(DomainEvent) /\ <<q, i>> \in Seq(DomainEvent) /\ <<q>> \in Seq(DomainEvent)
          /\ \A j \in DOMAIN <<s>> : <<s>>[j].kind # "stop"
          /\ \A j \in DOMAIN <<q, i>> : <<q, i>>[j].kind # "stop"
          /\ \A j \in DOMAIN <<q>> : <<q>>[j].kind # "stop"
      BY <3>1
    <3> QED
      BY <3>2, <3>3
  <2>2. PICK more : Publishes(events, more)
    BY <1>2, <2>1, PublishFacts
  <2>3. \A i \in DOMAIN inbox' : inbox'[i].kind # "stop"
    <3> SUFFICES ASSUME NEW i \in DOMAIN inbox'
                 PROVE  inbox'[i].kind # "stop"
      OBVIOUS
    <3>1. CASE i \in DOMAIN inbox
      BY <1>2, <2>2, <3>1, PublishedAt DEF Calm
    <3>2. CASE i \notin DOMAIN inbox
      <4>1. PICK j \in DOMAIN events : inbox'[i] = events[j]
        BY <1>2, <2>2, <3>2, PublishedAt
      <4> QED
        BY <2>1, <4>1
    <3> QED
      BY <3>1, <3>2
  <2>4. UNCHANGED <<holding, draining>>
    BY <1>5 DEF TurnStart, reactor, drains
  <2> QED
    BY <2>3, <2>4 DEF Calm
<1>6. ASSUME NEW f \in Fibers, Promote(f)
      PROVE  Calm'
  <2> DEFINE e == Promoted(holding[f])
             events == <<e>>
  <2>1. e \in DomainEvent /\ e.kind = "start"
    BY <1>6, PromotedWith DEF Promoted
  <2>2. PICK more : Publishes(events, more)
    BY <1>6, PromotedWith
  <2>3. events \in Seq(DomainEvent) /\ \A j \in DOMAIN events : events[j].kind # "stop"
    BY <2>1
  <2> HIDE DEF events, e
  <2>4. \A i \in DOMAIN inbox' : inbox'[i].kind # "stop"
    <3> SUFFICES ASSUME NEW i \in DOMAIN inbox'
                 PROVE  inbox'[i].kind # "stop"
      OBVIOUS
    <3>1. CASE i \in DOMAIN inbox
      BY <1>2, <2>2, <2>3, <3>1, PublishedAt DEF Calm
    <3>2. CASE i \notin DOMAIN inbox
      <4>1. PICK j \in DOMAIN events : inbox'[i] = events[j]
        BY <1>2, <2>2, <2>3, <3>2, PublishedAt
      <4> QED
        BY <2>3, <4>1
    <3> QED
      BY <3>1, <3>2
  <2>5. holding[f] # None /\ \A g \in Fibers : holding'[g] = IF g = f THEN None ELSE holding[g]
    BY <1>2, <1>6 DEF Promote
  <2>6. \A g \in Fibers : holding'[g] = None
    BY <2>5 DEF Calm
  <2> QED
    BY <2>4, <2>6 DEF Calm
<1>7. ASSUME NEW f \in Fibers, PromoteFails(f)
      PROVE  Calm'
  <2>1. holding[f] # None /\ \A g \in Fibers : holding'[g] = IF g = f THEN None ELSE holding[g]
    BY <1>2, <1>7 DEF PromoteFails
  <2>2. \A g \in Fibers : holding'[g] = None
    BY <2>1 DEF Calm
  <2> QED
    BY <1>7, <2>2 DEF Calm, PromoteFails, inputs
<1>8. ASSUME NEW f \in Fibers, BeginDrain(f), inbox' = inbox
      PROVE  Calm'
  <2>1. CASE UNCHANGED drains
    BY <1>4, <1>8, <2>1 DEF drains
  <2>2. CASE ~draining /\ draining' /\ holding' = [holding EXCEPT ![f] = Head(queue)]
    <3>1. \A g \in Fibers : holding[g] = None
      BY <2>2 DEF Calm
    <3>2. \A g \in Fibers : holding'[g] = IF g = f THEN Head(queue) ELSE None
      BY <1>2, <2>2, <3>1
    <3> QED
      BY <1>8, <2>2, <3>2 DEF Calm
  <2> QED
    BY <1>2, <1>8, <2>1, <2>2, BeginDrainFacts
<1>9. ASSUME NEW kind, Takes(kind), UNCHANGED <<holding, draining>>
      PROVE  Calm'
  <2>1. /\ Len(inbox) \in Nat \ {0} /\ DOMAIN inbox = 1 .. Len(inbox)
        /\ inbox' = Tail(inbox) /\ DOMAIN inbox' = 1 .. Len(inbox) - 1
        /\ \A j \in 1 .. Len(inbox) - 1 : inbox'[j] = inbox[j + 1]
    BY <1>2, <1>9, TailFacts DEF Takes
  <2>2. \A j \in DOMAIN inbox' : j + 1 \in DOMAIN inbox /\ inbox'[j] = inbox[j + 1]
    BY <2>1
  <2> QED
    BY <1>9, <2>2 DEF Calm
<1>10. ASSUME TakeQueued \/ TakeInterrupt \/ TakeStart
       PROVE  Calm'
  BY <1>9, <1>10 DEF TakeQueued, TakeInterrupt, TakeStart, reactor, drains
<1>11. ASSUME TakeTerminal \/ WorkerDrains
       PROVE  Calm'
  BY <1>1, <1>8, <1>11 DEF TakeTerminal, WorkerDrains, DrainAfterFailure, inputs
<1>12. ASSUME Crash
       PROVE  Calm'
  BY <1>12 DEF Crash, Calm
<1>13. ASSUME \/ Ingestion \/ TurnEnds \/ SessionExits \/ Restart
              \/ StopProvider \/ SetStopped \/ StoppingFails \/ MarkStarting \/ MarkingFails
              \/ EnsureSession \/ BindSession \/ SteerTurn \/ SendTurn \/ StartFails
              \/ ReportFailure \/ ReportingFails
       PROVE  Calm'
  <2>1. UNCHANGED <<inbox, holding, draining>>
    BY <1>13 DEF Ingestion, TakeRuntime, SetSession, SetSessionFails, TurnEnds, SessionExits, Restart,
                 StopProvider, SetStopped, StoppingFails, MarkStarting, MarkingFails, EnsureSession,
                 BindSession, SteerTurn, SendTurn, StartFails, ReportFailure, ReportingFails,
                 inputs, reactor, drains
  <2> QED
    BY <1>4, <2>1
<1> QED
  BY <1>1, <1>3, <1>5, <1>6, <1>7, <1>10, <1>11, <1>12, <1>13 DEF Next, User, Worker, Drainer

\* What is never taken back.
LEMMA Grows ==
    ASSUME Living, Next
    PROVE  /\ troubles \subseteq troubles' /\ requeued \subseteq requeued'
           /\ \A m \in Messages : fate[m] # "unsent" => fate'[m] # "unsent"
<1>1. Typed /\ TypeOK /\ inbox \in Seq(DomainEvent)
  BY DEF Living, Typed, TypeOK
<1>2. ASSUME NEW x \in Messages, TurnStart(x)
      PROVE  /\ troubles \subseteq troubles' /\ requeued \subseteq requeued'
             /\ \A m \in Messages : fate[m] # "unsent" => fate'[m] # "unsent"
  <2>1. PICK events \in Seq(DomainEvent) : StartOf(x, events)
    BY <1>2, StartedWith
  <2>2. PICK more : Publishes(events, more)
    BY <1>1, <2>1, PublishFacts DEF StartOf
  <2>3. fate' = [fate EXCEPT ![x] = "pending"]
    BY <1>2 DEF TurnStart
  <2> QED
    BY <1>1, <2>2, <2>3 DEF Publishes, TypeOK
<1>3. ASSUME NEW f \in Fibers, Promote(f)
      PROVE  /\ troubles \subseteq troubles' /\ requeued \subseteq requeued' /\ fate' = fate
  <2>1. PICK more : Publishes(<<Promoted(holding[f])>>, more)
    BY <1>3, PromotedWith
  <2> QED
    BY <1>3, <2>1 DEF Publishes, Promote
<1>4. ASSUME NEW ms, NEW how \in Fates \ {"unsent"}, Settle(ms, how)
      PROVE  \A m \in Messages : fate[m] # "unsent" => fate'[m] # "unsent"
  BY <1>1, <1>4, Settled
<1>5. ASSUME \/ SessionStop \/ \E f \in Fibers : PromoteFails(f)
             \/ TakeTerminal \/ TakeQueued \/ TakeInterrupt \/ TakeStart \/ TakeStop
             \/ Ingestion \/ TurnEnds \/ SessionExits \/ Restart \/ Crash
             \/ StopProvider \/ SetStopped \/ StoppingFails \/ MarkStarting \/ MarkingFails
             \/ EnsureSession \/ BindSession \/ SteerTurn \/ SendTurn \/ StartFails
             \/ ReportFailure \/ ReportingFails \/ WorkerDrains
      PROVE  /\ troubles \subseteq troubles' /\ requeued' = requeued
             /\ fate' = fate \/ \E ms : \E how \in Fates \ {"unsent"} : Settle(ms, how)
  <2>1. requeued' = requeued
    BY <1>5 DEF SessionStop, PromoteFails, TakeTerminal, TakeQueued, TakeInterrupt, TakeStart, TakeStop,
                Ingestion, TakeRuntime, SetSession, SetSessionFails, TurnEnds, SessionExits, Restart, Crash,
                StopProvider, SetStopped, StoppingFails, MarkStarting, MarkingFails, EnsureSession,
                BindSession, SteerTurn, SendTurn, StartFails, ReportFailure, ReportingFails, WorkerDrains,
                history, lineage
  <2>2. troubles \subseteq troubles'
    BY <1>5 DEF SessionStop, PromoteFails, TakeTerminal, TakeQueued, TakeInterrupt, TakeStart, TakeStop,
                Ingestion, TakeRuntime, SetSession, SetSessionFails, TurnEnds, SessionExits, Restart, Crash,
                StopProvider, SetStopped, StoppingFails, MarkStarting, MarkingFails, EnsureSession,
                BindSession, SteerTurn, SendTurn, StartFails, ReportFailure, ReportingFails, WorkerDrains,
                Trouble, Fault
  <2>3. fate' = fate \/ \E ms : \E how \in Fates \ {"unsent"} : Settle(ms, how)
    <3>1. CASE \E f \in Fibers : PromoteFails(f)
      BY <3>1 DEF PromoteFails, Fates
    <3>2. CASE SteerTurn \/ SendTurn
      BY <3>2 DEF SteerTurn, SendTurn, Give, Fates
    <3>3. CASE MarkingFails \/ ReportFailure \/ ReportingFails \/ TakeStop \/ Crash
      BY <3>3 DEF MarkingFails, ReportFailure, ReportingFails, TakeStop, Crash, Fates
    <3>4. CASE \/ SessionStop \/ TakeTerminal \/ TakeQueued \/ TakeInterrupt \/ TakeStart
               \/ Ingestion \/ TurnEnds \/ SessionExits \/ Restart
               \/ StopProvider \/ SetStopped \/ StoppingFails \/ MarkStarting
               \/ EnsureSession \/ BindSession \/ StartFails \/ WorkerDrains
      BY <3>4 DEF SessionStop, TakeTerminal, TakeQueued, TakeInterrupt, TakeStart,
                  Ingestion, TakeRuntime, SetSession, SetSessionFails, TurnEnds, SessionExits, Restart,
                  StopProvider, SetStopped, StoppingFails, MarkStarting, EnsureSession,
                  BindSession, StartFails, WorkerDrains, history
    <3> QED
      BY <1>5, <3>1, <3>2, <3>3, <3>4
  <2> QED
    BY <2>1, <2>2, <2>3
<1>6. "worker" \in Fibers /\ "events" \in Fibers
  BY DEF Fibers
<1>7. CASE (\E x \in Messages : TurnStart(x)) \/ \E f \in Fibers : Promote(f)
  BY <1>2, <1>3, <1>7
<1>8. CASE ~((\E x \in Messages : TurnStart(x)) \/ \E f \in Fibers : Promote(f))
  <2>1. /\ troubles \subseteq troubles' /\ requeued' = requeued
        /\ fate' = fate \/ \E ms : \E how \in Fates \ {"unsent"} : Settle(ms, how)
    BY <1>5, <1>6, <1>8 DEF Next, User, Worker, Drainer
  <2> QED
    BY <1>4, <2>1
<1> QED
  BY <1>7, <1>8
\* Only a message that is queued joins the line, at its end.
LEMMA LineGrows ==
    ASSUME Living, Next
    PROVE  \/ lined' = lined
           \/ \E x \in Messages : /\ TurnStart(x) /\ ShouldQueue(x) /\ x \notin Urgent
                                  /\ fate[x] = "unsent" /\ fate'[x] = "pending"
                                  /\ lined' = Append(lined, x)
<1>1. ASSUME NEW x \in Messages, TurnStart(x)
      PROVE  \/ lined' = lined
             \/ /\ ShouldQueue(x) /\ x \notin Urgent /\ fate[x] = "unsent" /\ fate'[x] = "pending"
                /\ lined' = Append(lined, x)
  BY <1>1 DEF TurnStart, Living, Typed, TypeOK
<1>2. ASSUME \/ SessionStop \/ \E f \in Fibers : (Promote(f) \/ PromoteFails(f))
             \/ TakeTerminal \/ TakeQueued \/ TakeInterrupt \/ TakeStart \/ TakeStop
             \/ Ingestion \/ TurnEnds \/ SessionExits \/ Restart \/ Crash
             \/ StopProvider \/ SetStopped \/ StoppingFails \/ MarkStarting \/ MarkingFails
             \/ EnsureSession \/ BindSession \/ SteerTurn \/ SendTurn \/ StartFails
             \/ ReportFailure \/ ReportingFails \/ WorkerDrains
      PROVE  lined' = lined
  BY <1>2 DEF SessionStop, Promote, PromoteFails, TakeTerminal, TakeQueued, TakeInterrupt, TakeStart, TakeStop,
              Ingestion, TakeRuntime, SetSession, SetSessionFails, TurnEnds, SessionExits, Restart, Crash,
              StopProvider, SetStopped, StoppingFails, MarkStarting, MarkingFails, EnsureSession,
              BindSession, SteerTurn, SendTurn, StartFails, ReportFailure, ReportingFails, WorkerDrains,
              history, lineage
<1>3. "worker" \in Fibers /\ "events" \in Fibers
  BY DEF Fibers
<1> QED
  BY <1>1, <1>2, <1>3 DEF Next, User, Worker, Drainer

LEMMA LinedUpStep ==
    ASSUME Living, Living', LinedUp, Next
    PROVE  LinedUp'
<1>1. /\ lined \in Seq(Messages) /\ troubles \subseteq troubles' /\ requeued \subseteq requeued'
      /\ \A m \in Messages : fate[m] # "unsent" => fate'[m] # "unsent"
  BY Grows DEF Living, Typed, TypeOK
<1>2. /\ \A i \in DOMAIN lined : /\ lined[i] \in Messages /\ fate[lined[i]] # "unsent"
                                 /\ lined[i] \notin Urgent
      /\ \A i, j \in DOMAIN lined : i < j => lined[i] # lined[j]
  BY <1>1 DEF LinedUp
<1>3. "stop" \notin troubles' => Calm /\ Calm'
  BY <1>1, StepCalm DEF LinedUp
<1>4. ASSUME "stop" \notin troubles', requeued' = {}, NEW a \in Messages, NEW b \in Messages, Queued(a, b)
      PROVE  Behind(a, b)'
  <2>1. a # b /\ fate[a] # "unsent" /\ fate[b] # "unsent" /\ a \notin Urgent /\ b \notin Urgent
    BY <1>2, <1>4 DEF Queued
  <2>2. Behind(a, b)
    BY <1>1, <1>4 DEF LinedUp
  <2>3. Lives(a) /\ Lives(b) /\ Lives(a)' /\ Lives(b)'
    BY <1>1, <1>4 DEF Living
  <2>4. Pair(a, b)
    BY <1>4, <2>1, <2>2, <2>3 DEF Pair
  <2> QED
    BY <1>3, <1>4, <2>4, StepBehind
<1>5. CASE lined' = lined
  <2>1. \A i \in DOMAIN lined' : fate'[lined'[i]] # "unsent" /\ lined'[i] \notin Urgent
    BY <1>1, <1>2, <1>5
  <2>2. \A i, j \in DOMAIN lined' : i < j => lined'[i] # lined'[j]
    BY <1>2, <1>5
  <2>3. \A a, b \in Messages : Queued(a, b)' => Queued(a, b)
    BY <1>5 DEF Queued
  <2> QED
    BY <1>3, <1>4, <2>1, <2>2, <2>3 DEF LinedUp
<1>6. CASE lined' # lined
  <2>1. PICK x \in Messages : /\ TurnStart(x) /\ ShouldQueue(x) /\ x \notin Urgent
                              /\ fate[x] = "unsent" /\ fate'[x] = "pending"
                              /\ lined' = Append(lined, x)
    BY <1>6, LineGrows
  <2>2. /\ Len(lined) \in Nat /\ DOMAIN lined = 1 .. Len(lined) /\ DOMAIN lined' = 1 .. Len(lined) + 1
        /\ lined'[Len(lined) + 1] = x /\ \A j \in 1 .. Len(lined) : lined'[j] = lined[j]
    BY <1>1, <2>1, AppendFacts
  <2>3. \A i \in DOMAIN lined' : i \in Nat /\ (i \in DOMAIN lined \/ lined'[i] = x)
    BY <2>2
  <2>4. \A i \in DOMAIN lined' : fate'[lined'[i]] # "unsent" /\ lined'[i] \notin Urgent
    BY <1>1, <1>2, <2>1, <2>2, <2>3
  <2>5. ASSUME NEW i \in DOMAIN lined', NEW j \in DOMAIN lined', i < j
        PROVE  /\ i \in DOMAIN lined /\ lined'[i] = lined[i]
               /\ \/ j \in DOMAIN lined /\ lined'[j] = lined[j]
                  \/ lined'[j] = x
    BY <2>2, <2>5
  <2>6. \A i, j \in DOMAIN lined' : i < j => lined'[i] # lined'[j]
    BY <1>2, <2>1, <2>5
  <2>7. ASSUME NEW a \in Messages, NEW b \in Messages, Queued(a, b)'
        PROVE  Queued(a, b) \/ (b = x /\ a # x)
    <3>1. PICK i \in DOMAIN lined', j \in DOMAIN lined' : i < j /\ lined'[i] = a /\ lined'[j] = b
      BY <2>7 DEF Queued
    <3>2. a # x
      BY <1>2, <2>1, <2>5, <3>1
    <3> QED
      BY <2>5, <3>1, <3>2 DEF Queued
  <2>8. ASSUME "stop" \notin troubles', requeued' = {}, NEW a \in Messages, a # x
        PROVE  Behind(a, x)'
    <3>1. Lives(a) /\ Lives(x) /\ Lives(x)'
      BY <1>1, <2>8 DEF Living
    <3> QED
      BY <2>1, <2>8, <3>1, TurnStartBehind
  <2> QED
    BY <1>3, <1>4, <2>4, <2>6, <2>7, <2>8 DEF LinedUp
<1> QED
  BY <1>5, <1>6

\* LinedUp holds always: what is on its way to the queue, in it and taken from it is in line.
THEOREM AlwaysLinedUp == Spec => []LinedUp
<1>1. Init => LinedUp
  <2> SUFFICES ASSUME Init
               PROVE  LinedUp
    OBVIOUS
  <2>1. lined = <<>> /\ inbox = <<>> /\ \A f \in Fibers : holding[f] = None
    BY DEF Init
  <2> QED
    BY <2>1 DEF LinedUp, Calm, Queued
<1>2. Living /\ Living' /\ LinedUp /\ [Next]_vars => LinedUp'
  <2>1. ASSUME LinedUp, UNCHANGED vars
        PROVE  LinedUp'
    BY <2>1 DEF LinedUp, Calm, Queued, Behind, InboxOrder, Follows, Stages, QueuedComing, StartComing, IsHeld, Working,
                QueuesAt, StartsAt, Has, vars, inputs, reactor, drains, history, lineage
  <2> QED
    BY <2>1, LinedUpStep
<1> QED
  BY <1>1, <1>2, AlwaysLiving, PTL DEF Spec

\* Messages queued one after the other are given to the provider in that order, if they are given
\* at all, as long as nobody stops the session and no message is queued twice.
THEOREM GivesInOrder == Spec => []GivenInOrder
<1>1. ASSUME Living, LinedUp
      PROVE  GivenInOrder
  <2> SUFFICES ASSUME "stop" \notin troubles, requeued = {},
                      NEW i \in 1..Len(lined), NEW j \in 1..Len(lined), i < j,
                      fate[lined[j]] = "given", fate[lined[i]] = "given"
               PROVE  Place(given, lined[i]) < Place(given, lined[j])
    BY DEF GivenInOrder
  <2> DEFINE a == lined[i]
             b == lined[j]
  <2>1. /\ lined \in Seq(Messages) /\ given \in Seq(Messages)
        /\ i \in DOMAIN lined /\ j \in DOMAIN lined
    BY <1>1 DEF Living, Typed, TypeOK
  <2>2. a \in Messages /\ b \in Messages
    BY <2>1
  <2>3. Once(given, a) /\ Once(given, b) /\ Has(given, a) /\ Has(given, b)
    BY <1>1, <2>2 DEF Living, Lives, GivenFine
  <2>4. PICK k \in DOMAIN given, l \in DOMAIN given : given[k] = a /\ given[l] = b
    BY <2>3 DEF Has
  <2>5. Place(given, a) = k /\ Place(given, b) = l
    BY <2>1, <2>3, <2>4, PlaceIs
  <2>6. Follows(given, a, b)
    BY <1>1, <2>1, <2>2 DEF LinedUp, Queued, Behind
  <2> QED
    BY <2>4, <2>5, <2>6 DEF Follows
<1> QED
  BY <1>1, AlwaysLiving, AlwaysLinedUp, PTL
-----------------------------------------------------------------------------------
\* What the session shows in the end.

Faultless == troubles \cap {"fault", "silent"} = {}

\* The event says that this turn is over.
Over(e, t) == e.kind = "exited" \/ (e.kind = "ended" /\ e.turn = t)
Ending(t) == provider.turn = t \/ \E j \in DOMAIN runtime : Over(runtime[j], t)

\* A turn that ingestion has yet to see start is still the provider's, or ends behind its start.
StartsEnd ==
    \A i \in DOMAIN runtime : runtime[i].kind = "started" =>
        /\ runtime[i].turn \in Messages
        /\ \/ provider.turn = runtime[i].turn
           \/ \E j \in DOMAIN runtime : i < j /\ Over(runtime[j], runtime[i].turn)

\* The turn that is shown ends, or something else is about to be shown; so does that turn.
ShownEnds == \A t \in Messages :
    session.turn = t => Ending(t) \/ (ingest # NoSession /\ ingest.turn # t)
ComingEnds == \A t \in Messages : ingest.turn = t => Ending(t)

\* While the thread shows as starting the worker is at it, or an event is on its way, which nothing
\* can keep from being applied.
StartingEnds ==
    session.status = "starting" =>
        \/ work.at \in {"ensuring", "binding", "sending", "failing"}
        \/ runtime # <<>> \/ ingest # NoSession \/ provider.turn # None

Statused ==
    /\ session.status = "running" => session.turn # None
    /\ session.status = "starting" => session.turn = None
    /\ ingest.status = "running" => ingest.turn # None
    /\ ingest.status # "starting"

Down == ~up => runtime = <<>> /\ ingest = NoSession /\ provider.turn = None

Show == ShownEnds /\ ComingEnds
Unfaulted == Statused /\ StartsEnd /\ (up => Show /\ StartingEnds)
Settling == Down /\ (Faultless => Unfaulted)

\* Emitting keeps what ends: the provider reports the turn that it gives up, and a start it reports
\* is of the turn it has.
LEMMA EmitEnds ==
    ASSUME runtime \in Seq(RuntimeEvent), NEW events \in Seq(RuntimeEvent),
           runtime' = runtime \o events,
           \A t \in Messages : provider.turn = t =>
               provider'.turn = t \/ \E k \in DOMAIN events : Over(events[k], t),
           \A k \in DOMAIN events : events[k].kind = "started" =>
               events[k].turn \in Messages /\ provider'.turn = events[k].turn
    PROVE  /\ \A t \in Messages : Ending(t) => Ending(t)'
           /\ StartsEnd => StartsEnd'
           /\ events # <<>> => runtime' # <<>>
<1> DEFINE n == Len(runtime)
           k == Len(events)
<1>1. /\ n \in Nat /\ k \in Nat /\ DOMAIN runtime = 1..n /\ DOMAIN events = 1..k
      /\ DOMAIN runtime' = 1..(n + k)
      /\ \A i \in 1..n : runtime'[i] = runtime[i]
      /\ \A i \in 1..k : runtime'[n + i] = events[i]
      /\ \A i \in 1..(n + k) : i \in 1..n \/ \E l \in 1..k : i = n + l
  <2>1. /\ n \in Nat /\ k \in Nat /\ DOMAIN runtime = 1..n /\ DOMAIN events = 1..k
        /\ DOMAIN (runtime \o events) = 1..(n + k)
        /\ \A i \in 1..n : (runtime \o events)[i] = runtime[i]
        /\ \A i \in 1..k : (runtime \o events)[n + i] = events[i]
    BY ConcatFacts
  <2> HIDE DEF n, k
  <2>2. ASSUME NEW i \in 1..(n + k), i \notin 1..n
        PROVE  \E l \in 1..k : i = n + l
    <3>1. i - n \in 1..k /\ i = n + (i - n)
      BY <2>1, <2>2
    <3> QED
      BY <3>1
  <2> QED
    BY <2>1, <2>2
<1> HIDE DEF n, k
<1>2. ASSUME NEW t \in Messages, provider.turn = t, provider'.turn # t
      PROVE  \E j \in DOMAIN runtime' : j > n /\ Over(runtime'[j], t)
  <2>1. PICK l \in 1..k : Over(events[l], t)
    BY <1>1, <1>2
  <2>2. n + l \in 1..(n + k) /\ n + l > n /\ runtime'[n + l] = events[l]
    BY <1>1
  <2> QED
    BY <1>1, <2>1, <2>2
<1>3. ASSUME NEW t \in Messages, Ending(t)
      PROVE  Ending(t)'
  <2>1. CASE provider.turn = t
    BY <1>1, <1>2, <2>1 DEF Ending
  <2>2. CASE \E j \in DOMAIN runtime : Over(runtime[j], t)
    <3>1. PICK j \in 1..n : Over(runtime[j], t)
      BY <1>1, <2>2
    <3>2. j \in DOMAIN runtime' /\ Over(runtime'[j], t)
      BY <1>1, <3>1 DEF Over
    <3> QED
      BY <3>2 DEF Ending
  <2> QED
    BY <1>3, <2>1, <2>2 DEF Ending
<1>4. ASSUME StartsEnd
      PROVE  StartsEnd'
  <2> SUFFICES ASSUME NEW i \in DOMAIN runtime', runtime'[i].kind = "started"
               PROVE  /\ runtime'[i].turn \in Messages
                      /\ \/ provider'.turn = runtime'[i].turn
                         \/ \E j \in DOMAIN runtime' : i < j /\ Over(runtime'[j], runtime'[i].turn)
    BY DEF StartsEnd
  <2>1. CASE i \in 1..n
    <3> DEFINE t == runtime[i].turn
    <3>1. /\ t \in Messages /\ runtime'[i].turn = t
          /\ provider.turn = t \/ \E j \in DOMAIN runtime : i < j /\ Over(runtime[j], t)
      BY <1>1, <1>4, <2>1 DEF StartsEnd
    <3> HIDE DEF t
    <3>2. CASE provider.turn = t /\ provider'.turn # t
      <4>1. PICK j \in DOMAIN runtime' : j > n /\ Over(runtime'[j], t)
        BY <1>2, <3>1, <3>2
      <4>2. i < j
        BY <1>1, <2>1, <4>1
      <4> QED
        BY <3>1, <4>1, <4>2
    <3>3. CASE \E j \in DOMAIN runtime : i < j /\ Over(runtime[j], t)
      <4>1. PICK j \in 1..n : i < j /\ Over(runtime[j], t)
        BY <1>1, <3>3
      <4>2. j \in DOMAIN runtime' /\ Over(runtime'[j], t)
        BY <1>1, <4>1 DEF Over
      <4> QED
        BY <3>1, <4>1, <4>2
    <3> QED
      BY <3>1, <3>2, <3>3
  <2>2. CASE i \notin 1..n
    BY <1>1, <2>2
  <2> QED
    BY <2>1, <2>2
<1>5. events # <<>> => runtime' # <<>>
  <2>1. events # <<>> => k # 0
    BY DEF k
  <2> QED
    BY <1>1, <2>1
<1> QED
  BY <1>3, <1>4, <1>5

\* Taking an event: what it says is over it no longer does, and a start it reports will end.
LEMMA TakeEnds ==
    ASSUME runtime \in Seq(RuntimeEvent), runtime # <<>>, runtime' = Tail(runtime), UNCHANGED provider
    PROVE  /\ \A t \in Messages : Ending(t) => Ending(t)' \/ Over(Head(runtime), t)
           /\ StartsEnd => StartsEnd'
           /\ StartsEnd /\ Head(runtime).kind = "started" =>
                Head(runtime).turn \in Messages /\ \A t \in Messages : Head(runtime).turn = t => Ending(t)'
<1> DEFINE n == Len(runtime)
<1>1. /\ n \in Nat \ {0} /\ DOMAIN runtime = 1..n /\ DOMAIN runtime' = 1..(n - 1)
      /\ \A i \in 1..(n - 1) : runtime'[i] = runtime[i + 1]
      /\ Head(runtime) = runtime[1]
      /\ \A i \in 2..n : i - 1 \in 1..(n - 1) /\ runtime'[i - 1] = runtime[i]
  OBVIOUS
<1> HIDE DEF n
<1>2. ASSUME NEW t, NEW j \in 1..n, Over(runtime[j], t), j # 1
      PROVE  j - 1 \in DOMAIN runtime' /\ Over(runtime'[j - 1], t)
  <2>1. j \in 2..n
    BY <1>1, <1>2
  <2> QED
    BY <1>1, <1>2, <2>1 DEF Over
<1>3. ASSUME NEW t \in Messages, Ending(t), ~Over(Head(runtime), t)
      PROVE  Ending(t)'
  BY <1>1, <1>2, <1>3 DEF Ending
<1>4. ASSUME StartsEnd
      PROVE  StartsEnd'
  <2> SUFFICES ASSUME NEW i \in DOMAIN runtime', runtime'[i].kind = "started"
               PROVE  /\ runtime'[i].turn \in Messages
                      /\ \/ provider'.turn = runtime'[i].turn
                         \/ \E j \in DOMAIN runtime' : i < j /\ Over(runtime'[j], runtime'[i].turn)
    BY DEF StartsEnd
  <2> DEFINE t == runtime[i + 1].turn
  <2>1. /\ i \in 1..(n - 1) /\ i + 1 \in 1..n /\ runtime'[i].turn = t /\ t \in Messages
        /\ provider.turn = t \/ \E j \in 1..n : i + 1 < j /\ Over(runtime[j], t)
    BY <1>1, <1>4 DEF StartsEnd
  <2> HIDE DEF t
  <2>2. ASSUME NEW j \in 1..n, i + 1 < j, Over(runtime[j], t)
        PROVE  j - 1 \in DOMAIN runtime' /\ i < j - 1 /\ Over(runtime'[j - 1], t)
    BY <1>1, <1>2, <2>1, <2>2
  <2> QED
    BY <2>1, <2>2
<1>5. ASSUME StartsEnd, Head(runtime).kind = "started"
      PROVE  /\ Head(runtime).turn \in Messages
             /\ \A t \in Messages : Head(runtime).turn = t => Ending(t)'
  <2> DEFINE t == Head(runtime).turn
  <2>1. /\ t \in Messages
        /\ provider.turn = t \/ \E j \in 1..n : 1 < j /\ Over(runtime[j], t)
    BY <1>1, <1>5 DEF StartsEnd
  <2> HIDE DEF t
  <2>2. ASSUME NEW m \in Messages, t = m
        PROVE  Ending(m)'
    <3>1. CASE provider.turn = t
      BY <2>2, <3>1 DEF Ending
    <3>2. ASSUME NEW j \in 1..n, 1 < j, Over(runtime[j], t)
          PROVE  Ending(m)'
      <4>1. Over(runtime[j], m) /\ j # 1
        BY <1>1, <2>2, <3>2
      <4>2. j - 1 \in DOMAIN runtime' /\ Over(runtime'[j - 1], m)
        BY <1>2, <4>1
      <4> QED
        BY <4>2 DEF Ending
    <3> QED
      BY <2>1, <3>1, <3>2
  <2> QED
    BY <2>1, <2>2 DEF t
<1> QED
  BY <1>3, <1>4, <1>5
\* What a step that emits leaves true: what ends still ends, and something is still on its way.
Kept ==
    /\ \A t \in Messages : Ending(t) => Ending(t)'
    /\ StartsEnd => StartsEnd'
    /\ runtime # <<>> \/ provider.turn # None => runtime' # <<>> \/ provider'.turn # None

LEMMA SameKept == UNCHANGED <<runtime, provider>> => Kept
BY DEF Kept, Ending, StartsEnd, Over

LEMMA RuntimeGrows ==
    ASSUME runtime \in Seq(RuntimeEvent), NEW events \in Seq(RuntimeEvent), runtime' = runtime \o events
    PROVE  runtime # <<>> => runtime' # <<>>
OBVIOUS

\* A provider that goes reports the end of the turn it gives up, or that it exits.
LEMMA ClosingEnds ==
    ASSUME TypeOK, NEW closing \in Closings, provider'.turn \in Messages \cup {None},
           \/ Emit(closing) \/ Emit(Append(closing, Opened))
    PROVE  Kept
<1>1. /\ closing \in Seq(RuntimeEvent) /\ Append(closing, Opened) \in Seq(RuntimeEvent)
      /\ runtime \in Seq(RuntimeEvent)
  BY ClosingsTyped DEF TypeOK
<1>2. \/ closing = <<Exited>>
      \/ \E m \in Messages : closing = <<Ended(m), Exited>>
  BY DEF Closings, TypeOK
<1>3. /\ closing # <<>>
      /\ \A k \in DOMAIN closing : closing[k].kind # "started"
      /\ \E k \in DOMAIN closing : closing[k].kind = "exited"
  <2>1. CASE closing = <<Exited>>
    BY <2>1 DEF Exited
  <2>2. ASSUME NEW m \in Messages, closing = <<Ended(m), Exited>>
        PROVE  /\ closing # <<>>
               /\ \A k \in DOMAIN closing : closing[k].kind # "started"
               /\ \E k \in DOMAIN closing : closing[k].kind = "exited"
    <3>1. DOMAIN closing = 1..2 /\ closing[1].kind = "ended" /\ closing[2].kind = "exited"
      BY <2>2 DEF Exited, Ended
    <3> QED
      BY <2>2, <3>1
  <2> QED
    BY <1>2, <2>1, <2>2
<1>4. PICK events \in {closing, Append(closing, Opened)} : runtime' = runtime \o events
  BY DEF Emit
<1>5. /\ events \in Seq(RuntimeEvent) /\ events # <<>>
      /\ \A k \in DOMAIN events : events[k].kind # "started"
      /\ \E k \in DOMAIN events : events[k].kind = "exited"
  <2>1. CASE events = closing
    BY <1>1, <1>3, <2>1
  <2>2. CASE events = Append(closing, Opened)
    <3>1. /\ DOMAIN events = 1..(Len(closing) + 1) /\ DOMAIN closing = 1..Len(closing)
          /\ Len(closing) \in Nat
          /\ events[Len(closing) + 1].kind = "opened"
          /\ \A k \in 1..Len(closing) : events[k] = closing[k]
      BY <1>1, <2>2 DEF Opened
    <3> QED
      BY <1>1, <1>3, <2>2, <3>1
  <2> QED
    BY <1>4, <2>1, <2>2
<1>6. \A t \in Messages : \E k \in DOMAIN events : Over(events[k], t)
  BY <1>5 DEF Over
<1>7. /\ \A t \in Messages : Ending(t) => Ending(t)'
      /\ StartsEnd => StartsEnd'
      /\ runtime' # <<>>
  BY <1>1, <1>4, <1>5, <1>6, EmitEnds
<1> QED
  BY <1>7 DEF Kept

LEMMA SendKept == TypeOK /\ SendTurn => Kept
<1> SUFFICES ASSUME TypeOK, SendTurn
             PROVE  Kept
  OBVIOUS
<1> DEFINE m == work.msg
           events == (IF provider.turn # None THEN <<Ended(provider.turn)>> ELSE <<>>) \o <<Started(m)>>
<1>1. /\ m \in Messages /\ m # None /\ provider'.turn = m /\ Emit(events)
      /\ runtime \in Seq(RuntimeEvent) /\ provider.turn \in Messages \cup {None}
  BY MessagesAssumption DEF SendTurn, At, TypeOK, Work, None
<1>2. /\ events \in Seq(RuntimeEvent) /\ events # <<>>
      /\ \A k \in DOMAIN events : events[k].kind = "started" => events[k].turn = m
      /\ provider.turn # None => 1 \in DOMAIN events /\ events[1] = Ended(provider.turn)
  <2>1. Started(m) \in RuntimeEvent /\ Started(m).turn = m
    BY <1>1 DEF Started, RuntimeEvent
  <2>2. CASE provider.turn = None
    <3>1. events = <<Started(m)>>
      BY <2>2
    <3> QED
      BY <2>1, <2>2, <3>1
  <2>3. CASE provider.turn # None
    <3>1. events = <<Ended(provider.turn)>> \o <<Started(m)>>
      BY <2>3
    <3>2. Ended(provider.turn) \in RuntimeEvent /\ Ended(provider.turn).kind # "started"
      BY <1>1, <2>3 DEF Ended, RuntimeEvent
    <3> HIDE DEF events
    <3>3. /\ Len(events) = 2 /\ events[1] = Ended(provider.turn) /\ events[2] = Started(m)
          /\ events \in Seq(RuntimeEvent) /\ DOMAIN events = 1..2
      BY <2>1, <3>1, <3>2
    <3>4. events # <<>> /\ 1 \in DOMAIN events
      BY <3>3
    <3>5. \A k \in DOMAIN events : events[k].kind = "started" => events[k] = Started(m)
      BY <3>2, <3>3
    <3> QED
      BY <2>1, <3>3, <3>4, <3>5
  <2> QED
    BY <2>2, <2>3
<1>3. runtime' = runtime \o events
  BY <1>1 DEF Emit
<1> HIDE DEF events
<1>4. \A t \in Messages : provider.turn = t => \E k \in DOMAIN events : Over(events[k], t)
  BY <1>2, MessagesAssumption DEF Over, Ended, None
<1>5. /\ \A t \in Messages : Ending(t) => Ending(t)'
      /\ StartsEnd => StartsEnd'
  BY <1>1, <1>2, <1>3, <1>4, EmitEnds
<1> QED
  BY <1>1, <1>5 DEF Kept

LEMMA TurnEndsKept == TypeOK /\ TurnEnds => Kept
<1> SUFFICES ASSUME TypeOK, TurnEnds
             PROVE  Kept
  OBVIOUS
<1> DEFINE events == <<Ended(provider.turn)>>
<1>1. /\ provider.turn \in Messages /\ provider'.turn = None /\ runtime' = runtime \o events
      /\ runtime \in Seq(RuntimeEvent)
  BY DEF TurnEnds, Emit, TypeOK
<1>2. /\ events \in Seq(RuntimeEvent) /\ events # <<>>
      /\ \A k \in DOMAIN events : events[k].kind # "started"
      /\ 1 \in DOMAIN events /\ Over(events[1], provider.turn)
  BY <1>1 DEF Ended, RuntimeEvent, Over
<1> HIDE DEF events
<1>3. \A t \in Messages : provider.turn = t => \E k \in DOMAIN events : Over(events[k], t)
  BY <1>2
<1>4. /\ \A t \in Messages : Ending(t) => Ending(t)'
      /\ StartsEnd => StartsEnd'
      /\ runtime' # <<>>
  BY <1>1, <1>2, <1>3, EmitEnds
<1> QED
  BY <1>4 DEF Kept

\* A session that is started drops a turn only by closing the one before, or silently.
LEMMA EnsureKept == TypeOK /\ EnsureSession /\ "silent" \notin troubles' => Kept
<1> SUFFICES ASSUME TypeOK, EnsureSession, "silent" \notin troubles'
             PROVE  Kept
  OBVIOUS
<1>1. CASE session.status \notin {"none", "stopped"} /\ provider.live
  BY <1>1, SameKept DEF EnsureSession
<1>2. CASE /\ provider' = [live |-> TRUE, turn |-> None]
           /\ provider.live /\ \E closing \in Closings : Emit(Append(closing, Opened))
  <2>1. PICK closing \in Closings : Emit(Append(closing, Opened))
    BY <1>2
  <2>2. provider'.turn = None
    BY <1>2
  <2> QED
    BY <2>1, <2>2, ClosingEnds
<1>3. CASE provider' = [live |-> TRUE, turn |-> None] /\ Emit(<<Opened>>) /\ ~provider.live
  <2>1. provider'.turn = None /\ provider.turn = None /\ runtime \in Seq(RuntimeEvent)
    BY <1>3 DEF TypeOK
  <2> DEFINE events == <<Opened>>
  <2>2. /\ events \in Seq(RuntimeEvent) /\ events # <<>>
        /\ \A k \in DOMAIN events : events[k].kind # "started"
    BY DEF Opened, RuntimeEvent
  <2>3. runtime' = runtime \o events
    BY <1>3 DEF Emit
  <2> HIDE DEF events
  <2>4. \A t \in Messages : provider.turn # t
    BY <2>1, MessagesAssumption DEF None
  <2>5. /\ \A t \in Messages : Ending(t) => Ending(t)'
        /\ StartsEnd => StartsEnd'
        /\ runtime' # <<>>
    BY <2>1, <2>2, <2>3, <2>4, EmitEnds
  <2> QED
    BY <2>5 DEF Kept
<1> QED
  BY <1>1, <1>2, <1>3 DEF EnsureSession, Trouble
\* Every step of a server that runs, save the one in which ingestion takes an event, keeps what ends.
LEMMA StepKept ==
    ASSUME TypeOK, Next, up, up', ~TakeRuntime, "silent" \notin troubles'
    PROVE  Kept
<1>1. CASE SessionExits \/ (StopProvider /\ ~UNCHANGED <<runtime, provider>>)
  <2>1. PICK closing \in Closings : Emit(closing)
    BY <1>1 DEF SessionExits, StopProvider
  <2>2. provider'.turn = None
    BY <1>1 DEF SessionExits, StopProvider
  <2> QED
    BY <2>1, <2>2, ClosingEnds
<1>2. CASE EnsureSession \/ SendTurn \/ TurnEnds
  BY <1>2, EnsureKept, SendKept, TurnEndsKept
<1>3. CASE \/ (\E x \in Messages : TurnStart(x)) \/ SessionStop
           \/ \E f \in Fibers : (Promote(f) \/ PromoteFails(f))
           \/ TakeTerminal \/ TakeQueued \/ TakeInterrupt \/ TakeStart \/ TakeStop
           \/ SetSession \/ SetSessionFails \/ (StopProvider /\ UNCHANGED <<runtime, provider>>)
           \/ SetStopped \/ StoppingFails \/ MarkStarting \/ MarkingFails
           \/ BindSession \/ SteerTurn \/ StartFails
           \/ ReportFailure \/ ReportingFails \/ WorkerDrains
  <2>1. UNCHANGED <<runtime, provider>>
    BY <1>3 DEF TurnStart, SessionStop, Promote, PromoteFails, TakeTerminal, TakeQueued, TakeInterrupt,
                TakeStart, TakeStop, SetSession, SetSessionFails, StopProvider, SetStopped, StoppingFails,
                MarkStarting, MarkingFails, BindSession, SteerTurn, StartFails, ReportFailure,
                ReportingFails, WorkerDrains, inputs
  <2> QED
    BY <2>1, SameKept
<1>4. CASE Crash \/ Restart
  BY <1>4 DEF Crash, Restart
<1>5. "worker" \in Fibers /\ "events" \in Fibers
  BY DEF Fibers
<1> QED
  BY <1>1, <1>2, <1>3, <1>4, <1>5 DEF Next, User, Worker, Drainer, Ingestion

\* The other steps leave what is shown, and what is about to be shown, as they are.
Others ==
    \/ (\E x \in Messages : TurnStart(x)) \/ SessionStop
    \/ \E f \in Fibers : (Promote(f) \/ PromoteFails(f))
    \/ TakeTerminal \/ TakeQueued \/ TakeInterrupt \/ TakeStart \/ TakeStop
    \/ StopProvider \/ StoppingFails \/ MarkingFails \/ EnsureSession
    \/ SteerTurn \/ SendTurn \/ StartFails \/ ReportingFails \/ WorkerDrains
    \/ TurnEnds \/ SessionExits

LEMMA NextParts ==
    Next => \/ Others \/ MarkStarting \/ BindSession \/ ReportFailure \/ SetStopped
            \/ Ingestion \/ Crash \/ Restart
<1>1. "worker" \in Fibers /\ "events" \in Fibers
  BY DEF Fibers
<1> QED
  BY <1>1 DEF Next, Others, User, Worker, Drainer

LEMMA OthersShow ==
    ASSUME TypeOK, Others
    PROVE  UNCHANGED <<session, ingest, up>> /\ up
<1>1. UNCHANGED session
  BY DEF Others, TurnStart, SessionStop, Promote, PromoteFails, TakeTerminal, TakeQueued, TakeInterrupt,
         TakeStart, TakeStop, StopProvider, StoppingFails, MarkingFails, EnsureSession, SteerTurn, SendTurn,
         StartFails, ReportingFails, WorkerDrains, TurnEnds, SessionExits
<1>2. UNCHANGED ingest
  BY DEF Others, TurnStart, SessionStop, Promote, PromoteFails, TakeTerminal, TakeQueued, TakeInterrupt,
         TakeStart, TakeStop, StopProvider, StoppingFails, MarkingFails, EnsureSession, SteerTurn, SendTurn,
         StartFails, ReportingFails, WorkerDrains, TurnEnds, SessionExits
<1>3. UNCHANGED up /\ up
  BY DEF Others, TurnStart, SessionStop, Promote, PromoteFails, TakeTerminal, TakeQueued, TakeInterrupt,
         TakeStart, TakeStop, Takes, StopProvider, StoppingFails, MarkingFails, EnsureSession, SteerTurn,
         SendTurn, StartFails, ReportingFails, WorkerDrains, TurnEnds, SessionExits, At, host
<1> QED
  BY <1>1, <1>2, <1>3

\* While the thread shows as starting, the worker stays at it until something is on its way.
LEMMA OthersStarting ==
    ASSUME TypeOK, Others, "fault" \notin troubles', Kept, StartingEnds
    PROVE  StartingEnds'
<1>1. UNCHANGED <<session, ingest>>
  BY OthersShow
<1> DEFINE atIt == {"ensuring", "binding", "sending", "failing"}
<1>2. \/ work' = work \/ work.at \notin atIt \/ work'.at \in atIt
      \/ provider.turn # None \/ provider'.turn # None
  <2>1. CASE \/ (\E x \in Messages : TurnStart(x)) \/ SessionStop
             \/ \E f \in Fibers : (Promote(f) \/ PromoteFails(f))
             \/ TakeTerminal \/ TakeQueued \/ TakeInterrupt \/ TurnEnds \/ SessionExits
    BY <2>1 DEF TurnStart, SessionStop, Promote, PromoteFails, TakeTerminal, TakeQueued, TakeInterrupt,
                TurnEnds, SessionExits, reactor
  <2>2. CASE \/ TakeStart \/ TakeStop \/ StopProvider \/ StoppingFails \/ MarkingFails \/ WorkerDrains
    BY <2>2 DEF TakeStart, TakeStop, Takes, StopProvider, StoppingFails, MarkingFails, WorkerDrains, At
  <2>3. CASE EnsureSession \/ StartFails
    BY <2>3 DEF EnsureSession, StartFails, TypeOK, Work
  <2>4. CASE SteerTurn
    BY <2>4 DEF SteerTurn, Steers
  <2>5. CASE SendTurn
    BY <2>5, MessagesAssumption DEF SendTurn, At, TypeOK, Work, None
  <2>6. CASE ReportingFails
    BY <2>6 DEF ReportingFails, Fault, Trouble
  <2> QED
    BY <2>1, <2>2, <2>3, <2>4, <2>5, <2>6 DEF Others
<1> QED
  BY <1>1, <1>2 DEF StartingEnds, Kept
LEMMA OthersSettle ==
    ASSUME TypeOK, Settling, Others, Faultless, Faultless', Kept
    PROVE  Unfaulted'
<1>1. UNCHANGED <<session, ingest, up>> /\ up
  BY OthersShow
<1>2. Statused /\ StartsEnd /\ Show /\ StartingEnds
  BY <1>1 DEF Settling, Unfaulted
<1>3. "fault" \notin troubles'
  BY DEF Faultless
<1>4. Show'
  BY <1>1, <1>2 DEF Show, ShownEnds, ComingEnds, Kept
<1>5. StartsEnd'
  BY <1>2 DEF Kept
<1>6. StartingEnds'
  BY <1>2, <1>3, OthersStarting
<1>7. Statused'
  BY <1>1, <1>2 DEF Statused
<1> QED
  BY <1>4, <1>5, <1>6, <1>7 DEF Unfaulted

\* The worker sets a session that shows no turn, and where it shows as starting goes on with it.
LEMMA WorkerSettles ==
    ASSUME TypeOK, Settling, MarkStarting \/ BindSession \/ ReportFailure \/ SetStopped, Faultless
    PROVE  Unfaulted'
<1>1. up /\ UNCHANGED <<ingest, runtime, provider>>
  BY DEF MarkStarting, BindSession, ReportFailure, SetStopped, At, inputs
<1>2. /\ session'.turn = None
      /\ session'.status = "starting" => work'.at = "ensuring"
      /\ session'.status # "running"
  BY DEF MarkStarting, BindSession, ReportFailure, SetStopped, TypeOK, Work
<1>3. Kept
  BY <1>1, SameKept
<1>4. Statused /\ StartsEnd /\ Show
  BY <1>1 DEF Settling, Unfaulted
<1>5. Show'
  BY <1>1, <1>2, <1>3, <1>4, MessagesAssumption DEF Show, ShownEnds, ComingEnds, Kept, None
<1>6. StartsEnd'
  BY <1>3, <1>4 DEF Kept
<1> QED
  BY <1>1, <1>2, <1>4, <1>5, <1>6 DEF StartingEnds, Statused, Unfaulted

\* Ingestion: an event that says the shown turn is over is applied, and so is any event while
\* the thread shows as starting.
LEMMA TakeSettles ==
    ASSUME TypeOK, Settling, TakeRuntime, Faultless
    PROVE  Unfaulted'
<1> DEFINE e == Head(runtime)
<1>1. /\ up /\ ingest = NoSession /\ runtime # <<>> /\ runtime' = Tail(runtime)
      /\ ingest' = (IF Applies(e) THEN Projected(e) ELSE NoSession)
      /\ UNCHANGED <<session, provider>>
      /\ runtime \in Seq(RuntimeEvent) /\ e \in RuntimeEvent
      /\ session \in Session
  BY DEF TakeRuntime, TypeOK
<1>2. /\ \A t \in Messages : Ending(t) => Ending(t)' \/ Over(e, t)
      /\ StartsEnd => StartsEnd'
      /\ StartsEnd /\ e.kind = "started" =>
           e.turn \in Messages /\ \A t \in Messages : e.turn = t => Ending(t)'
  BY <1>1, TakeEnds
<1>3. /\ Applies(e) <=> (e.kind \in {"started", "ended"} /\ session.turn # None => e.turn = session.turn)
      /\ e.kind = "opened" =>
            Projected(e) = [status |-> IF session.turn # None THEN "running" ELSE "settled",
                            turn |-> session.turn]
      /\ e.kind = "started" => Projected(e) = [status |-> "running", turn |-> e.turn]
      /\ e.kind = "ended" => Projected(e) = [status |-> "settled", turn |-> None]
      /\ e.kind = "exited" => Projected(e) = [status |-> "stopped", turn |-> None]
      /\ e.kind \in {"opened", "started", "ended", "exited"}
  BY <1>1 DEF Applies, Projected, RuntimeEvent
<1> HIDE DEF e
<1>4. Statused /\ StartsEnd /\ Show
  BY <1>1 DEF Settling, Unfaulted
<1>5. \A t \in Messages : session.turn = t => Ending(t)
  BY <1>1, <1>4 DEF Show, ShownEnds
<1>6. None \notin Messages /\ NoSession.turn = None /\ NoSession.status = "none"
  BY MessagesAssumption DEF None, NoSession
<1>7. \A t \in Messages : Over(e, t) /\ session.turn = t =>
          ingest'.turn = None /\ ingest'.status \in {"settled", "stopped"}
  BY <1>1, <1>3 DEF Over
<1>8. \A t \in Messages : ingest'.turn = t => Ending(t)'
  <2>1. CASE e.kind = "opened"
    <3>1. \A t \in Messages : ~Over(e, t)
      BY <2>1 DEF Over
    <3> QED
      BY <1>1, <1>2, <1>3, <1>5, <2>1, <3>1
  <2>2. CASE e.kind = "started"
    BY <1>1, <1>2, <1>3, <1>4, <1>6, <2>2
  <2>3. CASE e.kind \in {"ended", "exited"}
    BY <1>1, <1>3, <1>6, <2>3
  <2> QED
    BY <1>3, <2>1, <2>2, <2>3
<1>9. Show'
  <2>1. \A t \in Messages : session'.turn = t => Ending(t)' \/ (ingest' # NoSession /\ ingest'.turn # t)
    BY <1>1, <1>2, <1>5, <1>6, <1>7
  <2> QED
    BY <1>8, <2>1 DEF Show, ShownEnds, ComingEnds
<1>10. Statused'
  <2>1. CASE e.kind = "started"
    BY <1>1, <1>2, <1>3, <1>4, <1>6, <2>1 DEF Statused
  <2>2. CASE e.kind # "started"
    BY <1>1, <1>3, <1>4, <1>6, <2>2 DEF Statused
  <2> QED
    BY <2>1, <2>2
<1>11. StartingEnds'
  <2>1. session.status = "starting" => ingest' # NoSession
    BY <1>1, <1>3, <1>4, <1>6 DEF Statused
  <2> QED
    BY <1>1, <2>1 DEF StartingEnds
<1> QED
  BY <1>2, <1>4, <1>9, <1>10, <1>11 DEF Unfaulted

LEMMA SetSettles ==
    ASSUME TypeOK, Settling, SetSession, Faultless
    PROVE  Unfaulted'
<1>1. /\ up /\ ingest # NoSession /\ session' = ingest /\ ingest' = NoSession
      /\ UNCHANGED <<runtime, provider>>
  BY DEF SetSession, inputs
<1>2. Kept /\ Statused /\ StartsEnd /\ Show
  BY <1>1, SameKept DEF Settling, Unfaulted
<1>3. None \notin Messages /\ NoSession.turn = None /\ NoSession.status = "none"
  BY MessagesAssumption DEF None, NoSession
<1>4. Show'
  BY <1>1, <1>2, <1>3 DEF Show, ShownEnds, ComingEnds, Kept
<1>5. Statused' /\ StartingEnds'
  <2>1. /\ session'.status # "starting" /\ (session'.status = "running" => session'.turn # None)
        /\ ingest'.status = "none"
    BY <1>1, <1>2, <1>3 DEF Statused
  <2> QED
    BY <2>1 DEF Statused, StartingEnds
<1> QED
  BY <1>2, <1>4, <1>5 DEF Unfaulted, Kept

\* A restart begins with nothing on its way, and shows no turn.
LEMMA RestartSettles ==
    ASSUME TypeOK, Settling, Restart, Faultless, Faultless'
    PROVE  Unfaulted'
<1>1. /\ runtime = <<>> /\ ingest = NoSession /\ UNCHANGED <<runtime, ingest, provider>>
  BY DEF Settling, Down, Restart, inputs
<1>2. session' = (IF NeedsReconciliation THEN [status |-> "settled", turn |-> None] ELSE session)
  BY DEF Restart, Fault, Trouble, Faultless
<1>3. session'.turn = None /\ session'.status \notin {"starting", "running"}
  BY <1>2 DEF NeedsReconciliation, Live
<1>4. None \notin Messages /\ NoSession.turn = None /\ NoSession.status = "none"
  BY MessagesAssumption DEF None, NoSession
<1>5. Show'
  BY <1>1, <1>3, <1>4 DEF Show, ShownEnds, ComingEnds
<1>6. StartsEnd'
  BY <1>1 DEF StartsEnd
<1> QED
  BY <1>1, <1>3, <1>4, <1>5, <1>6 DEF Unfaulted, Statused, StartingEnds

LEMMA CrashSettles ==
    ASSUME TypeOK, Settling, Crash
    PROVE  Down' /\ (Faultless => Unfaulted')
<1>1. /\ up' = FALSE /\ runtime' = <<>> /\ ingest' = NoSession /\ provider'.turn = None
      /\ UNCHANGED session
  BY DEF Crash
<1>2. NoSession.turn = None /\ NoSession.status = "none"
  BY DEF NoSession
<1>3. StartsEnd'
  BY <1>1 DEF StartsEnd
<1>4. Faultless => Statused'
  BY <1>1, <1>2 DEF Settling, Unfaulted, Statused
<1> QED
  BY <1>1, <1>3, <1>4 DEF Unfaulted, Down

LEMMA InitSettling == Init => Settling
<1> SUFFICES ASSUME Init
             PROVE  Settling
  OBVIOUS
<1>1. /\ session = NoSession /\ ingest = NoSession /\ runtime = <<>> /\ provider.turn = None /\ up = TRUE
      /\ NoSession.turn = None /\ NoSession.status = "none"
  BY DEF Init, NoSession
<1>2. Show
  BY <1>1, MessagesAssumption DEF Show, ShownEnds, ComingEnds, None
<1> QED
  BY <1>1, <1>2 DEF Settling, Down, Unfaulted, Statused, StartsEnd, StartingEnds

LEMMA SettlingStep == Settling /\ Living /\ [Next]_vars => Settling'
<1> SUFFICES ASSUME Settling, Living, [Next]_vars
             PROVE  Settling'
  OBVIOUS
<1>1. TypeOK
  BY DEF Living, Typed
<1>2. CASE UNCHANGED vars
  BY <1>2 DEF vars, inputs, reactor, host, history, Settling, Down, Unfaulted, Statused, StartsEnd, Show,
              ShownEnds, ComingEnds, StartingEnds, Ending, Over, Faultless
<1>3. CASE Next
  <2>1. Faultless' => Faultless
    BY <1>3, Grows DEF Faultless
  <2>2. Down'
    <3>1. CASE Others
      BY <1>1, <3>1, OthersShow DEF Down
    <3>2. CASE MarkStarting \/ BindSession \/ ReportFailure \/ SetStopped \/ Ingestion
      BY <3>2 DEF MarkStarting, BindSession, ReportFailure, SetStopped, Ingestion, TakeRuntime, SetSession,
                  SetSessionFails, At, host, Down
    <3>3. CASE Crash
      BY <1>1, <3>3, CrashSettles
    <3>4. CASE Restart
      BY <3>4 DEF Restart, Down
    <3> QED
      BY <1>3, <3>1, <3>2, <3>3, <3>4, NextParts
  <2>3. ASSUME Faultless'
        PROVE  Unfaulted'
    <3>1. Faultless
      BY <2>1, <2>3
    <3>2. CASE Others
      <4>1. CASE TakeRuntime
        BY <1>1, <3>1, <4>1, TakeSettles
      <4>2. CASE ~TakeRuntime
        <5>1. Kept
          BY <1>1, <1>3, <2>3, <3>2, <4>2, OthersShow, StepKept DEF Faultless
        <5> QED
          BY <1>1, <2>3, <3>1, <3>2, <5>1, OthersSettle
      <4> QED
        BY <4>1, <4>2
    <3>3. CASE MarkStarting \/ BindSession \/ ReportFailure \/ SetStopped
      BY <1>1, <3>1, <3>3, WorkerSettles
    <3>4. CASE Ingestion
      <4>1. ~SetSessionFails
        BY <2>3 DEF SetSessionFails, Fault, Trouble, Faultless
      <4> QED
        BY <1>1, <3>1, <3>4, <4>1, TakeSettles, SetSettles DEF Ingestion
    <3>5. CASE Crash
      BY <1>1, <3>1, <3>5, CrashSettles
    <3>6. CASE Restart
      BY <1>1, <2>3, <3>1, <3>6, RestartSettles
    <3> QED
      BY <1>3, <3>2, <3>3, <3>4, <3>5, <3>6, NextParts
  <2> QED
    BY <2>2, <2>3 DEF Settling
<1> QED
  BY <1>2, <1>3

\* Settling holds always: while nothing failed and the provider went silent on no turn, what is
\* shown ends and a thread that starts is being worked on (ShownEnds, StartingEnds).
THEOREM AlwaysSettling == Spec => []Settling
<1>1. Init => Settling
  BY InitSettling
<1>2. Settling /\ Living /\ [Next]_vars => Settling'
  BY SettlingStep
<1> QED
  BY <1>1, <1>2, AlwaysLiving, PTL DEF Spec

\* Once all is quiet and the provider has no turn, the thread does not read as working, in
\* every number of messages, stops, exits, crashes and restarts (SessionSettles).
THEOREM SettlesAtRest == Spec => []SessionSettles
<1>1. Settling /\ TypeOK => SessionSettles
  <2> SUFFICES ASSUME Settling, TypeOK, Quiet, provider.turn = None, Faultless
               PROVE  session.turn = None /\ session.status \notin {"starting", "running"}
    BY DEF SessionSettles, Faultless
  <2>1. up /\ runtime = <<>> /\ work.at = "idle" /\ ingest = NoSession
    BY DEF Quiet, Idle
  <2>2. Statused /\ Show /\ StartingEnds
    BY <2>1 DEF Settling, Unfaulted
  <2>3. \A t \in Messages : ~Ending(t)
    BY <2>1, MessagesAssumption DEF Ending, None
  <2>4. session.turn = None
    BY <2>1, <2>2, <2>3 DEF Show, ShownEnds, TypeOK, Session
  <2> QED
    BY <2>1, <2>2, <2>4 DEF Statused, StartingEnds
<1> QED
  BY <1>1, AlwaysSettling, TypeCorrect, PTL
-----------------------------------------------------------------------------------
\* The promise of an outbox, step by step.

LEMMA OutboxInit == Init => Outbox!Init
BY DEF Init, Outbox!Init

\* A message on its way that gets its fate.
LEMMA SettleOne ==
    ASSUME TypeOK, NEW x, NEW how, Settle({x}, how)
    PROVE  fate' = fate \/ (x \in Outbox!Pending /\ Outbox!Becomes({x}, how))
<1>1. CASE x \in Outbox!Pending
  BY <1>1 DEF Settle, Outbox!Pending, Outbox!Becomes
<1>2. CASE x \notin Outbox!Pending
  BY <1>2 DEF TypeOK, Settle, Outbox!Pending
<1> QED
  BY <1>1, <1>2

LEMMA SettleMany ==
    ASSUME TypeOK, NEW ms, NEW how, Settle(ms, how)
    PROVE  Outbox!Becomes(ms \cap Outbox!Pending, how)
BY DEF Settle, Outbox!Pending, Outbox!Becomes

LEMMA TurnStartAccepts ==
    ASSUME Living, NEW x \in Messages, TurnStart(x)
    PROVE  Outbox!Accept(x)
<1>1. fate \in [Messages -> Fates] /\ inbox \in Seq(DomainEvent)
  BY DEF Living, Typed, TypeOK
<1>2. fate[x] = "unsent" /\ Outbox!Becomes({x}, "pending") /\ given' = given
  BY <1>1 DEF TurnStart, Outbox!Becomes
<1>3. lined' \in {lined, Append(lined, x)}
  BY DEF TurnStart
<1>4. PICK events \in Seq(DomainEvent) : StartOf(x, events)
  BY StartedWith
<1>5. PICK more : Publishes(events, more)
  BY <1>1, <1>4, PublishFacts DEF StartOf
<1>6. requeued \subseteq requeued' /\ requeued' \subseteq requeued \cup {x}
  BY <1>4, <1>5 DEF Publishes, StartOf
<1>7. requeued' = requeued \/ "late" \in troubles'
  BY <1>4 DEF StartOf, Publish, Trouble
<1>8. requeued' = requeued \/ (requeued' = requeued \cup {x} /\ "late" \in troubles')
  BY <1>6, <1>7
<1> QED
  BY <1>2, <1>3, <1>8 DEF Outbox!Accept

\* The message the worker gives is one on its way, unless it was queued twice, and it is the first
\* of those that wait in line.
LEMMA GiveIsOrdered ==
    ASSUME Living, LinedUp, Give, At("sending"), UNCHANGED <<lined, requeued>>
    PROVE  Outbox!Give(work.msg)
<1> DEFINE x == work.msg
<1>1. Typed /\ TypeOK /\ lined \in Seq(Messages) /\ fate \in [Messages -> Fates]
  BY DEF Living, Typed, TypeOK
<1>2. x \in Messages /\ Working(x)
  BY <1>1 DEF At, TypeOK, Work, Working
<1>3. x \notin requeued => fate[x] = "pending"
  BY <1>2 DEF Living, Lives, OnePlace
<1>4. x \in Outbox!Pending \cup requeued
  BY <1>2, <1>3 DEF Outbox!Pending
<1>5. ASSUME requeued = {}, "stop" \notin troubles, NEW a \in Outbox!Ahead(x), a \in Outbox!Pending
      PROVE  FALSE
  <2>1. PICK i \in 1..Len(lined), j \in 1..Len(lined) : i < j /\ lined[i] = a /\ lined[j] = x
    BY <1>5 DEF Outbox!Ahead
  <2>2. i \in DOMAIN lined /\ j \in DOMAIN lined /\ a \in Messages
    BY <1>1, <2>1
  <2>3. Queued(a, x) /\ a # x
    BY <2>1, <2>2 DEF LinedUp, Queued
  <2>4. Behind(a, x) /\ Lives(a) /\ Lives(x)
    BY <1>2, <1>5, <2>2, <2>3 DEF LinedUp, Living
  <2>5. Stages(a, x)
    BY <1>3, <1>5, <2>4 DEF Behind
  <2>6. ~QueuedComing(x) /\ ~Has(queue, x)
    BY <1>2, <2>4 DEF Lives, OnePlace
  <2>7. ~QueuedComing(a) /\ ~StartComing(a) /\ ~Has(queue, a) /\ ~IsHeld(a) /\ ~Working(a)
    BY <1>2, <2>3, <2>5, <2>6 DEF Stages, Working
  <2>8. fate[a] = "pending"
    BY <1>5 DEF Outbox!Pending
  <2> QED
    BY <2>4, <2>7, <2>8 DEF Lives, OnePlace
<1>6. requeued = {} /\ "stop" \notin troubles => Outbox!Ahead(x) \cap Outbox!Pending = {}
  BY <1>5
<1>7. given' = Append(given, x) /\ Settle({x}, "given")
  BY DEF Give
<1>8. Outbox!Becomes({x} \cap Outbox!Pending, "given")
  BY <1>1, <1>7, SettleMany
<1> QED
  BY <1>4, <1>6, <1>7, <1>8 DEF Outbox!Give

\* One message is lost where a step fails.
LEMMA FaultLoses ==
    ASSUME Living, NEW x, Fault, Settle({x}, "lost"), UNCHANGED <<given, lined, requeued>>
    PROVE  fate' = fate \/ Outbox!Lose
<1>1. "fault" \in troubles'
  BY DEF Fault, Trouble
<1>2. fate' = fate \/ (x \in Outbox!Pending /\ Outbox!Becomes({x}, "lost"))
  BY SettleOne DEF Living, Typed
<1> QED
  BY <1>1, <1>2 DEF Outbox!Lose

LEMMA OutboxMoves ==
    ASSUME Living, LinedUp, Next
    PROVE  \/ \E m \in Messages : Outbox!Accept(m) \/ Outbox!Give(m) \/ Outbox!Report(m)
           \/ Outbox!Lose \/ Outbox!Clear
           \/ UNCHANGED <<fate, given, lined, requeued>>
<1>1. Typed /\ TypeOK
  BY DEF Living, Typed
<1>2. ASSUME NEW x \in Messages, TurnStart(x)
      PROVE  Outbox!Accept(x)
  BY <1>2, TurnStartAccepts
<1>3. CASE SteerTurn \/ SendTurn
  <2>1. Give /\ At("sending") /\ UNCHANGED <<lined, requeued>>
    BY <1>3 DEF SteerTurn, SendTurn, lineage
  <2>2. work.msg \in Messages
    BY <1>1, <2>1 DEF At, TypeOK, Work
  <2> QED
    BY <2>1, <2>2, GiveIsOrdered
<1>4. ASSUME NEW f \in Fibers, PromoteFails(f)
      PROVE  Outbox!Lose \/ UNCHANGED <<fate, given, lined, requeued>>
  <2>1. Fault /\ Settle({holding[f]}, "lost") /\ UNCHANGED <<given, lined, requeued>>
    BY <1>4 DEF PromoteFails, lineage
  <2> QED
    BY <2>1, FaultLoses
<1>5. CASE MarkingFails \/ ReportingFails
  <2>1. Fault /\ Settle({work.msg}, "lost") /\ UNCHANGED <<given, lined, requeued>>
    BY <1>5 DEF MarkingFails, ReportingFails, lineage
  <2> QED
    BY <2>1, FaultLoses
<1>6. CASE ReportFailure
  <2>1. Settle({work.msg}, "failed") /\ UNCHANGED <<given, lined, requeued>>
    BY <1>6 DEF ReportFailure, lineage
  <2>2. fate' = fate \/ Outbox!Report(work.msg)
    BY <1>1, <2>1, SettleOne DEF Outbox!Report
  <2>3. Outbox!Report(work.msg) => work.msg \in Messages
    BY DEF Outbox!Report, Outbox!Pending
  <2> QED
    BY <2>1, <2>2, <2>3
<1>7. CASE TakeStop
  <2>1. "stop" \in troubles
    <3>1. inbox \in Seq(DomainEvent) /\ inbox # <<>> /\ Head(inbox).kind = "stop"
      BY <1>1, <1>7 DEF TakeStop, Takes, TypeOK
    <3>2. 1 \in DOMAIN inbox /\ inbox[1].kind = "stop"
      BY <3>1, TailFacts
    <3> QED
      BY <3>2 DEF LinedUp, Calm
  <2>2. PICK ms : Settle(ms, "cleared")
    BY <1>7 DEF TakeStop
  <2>3. Outbox!Becomes(ms \cap Outbox!Pending, "cleared")
    BY <1>1, <2>2, SettleMany
  <2>4. ms \cap Outbox!Pending \in SUBSET Outbox!Pending
    OBVIOUS
  <2>5. UNCHANGED <<given, lined, requeued>>
    BY <1>7 DEF TakeStop, lineage
  <2> QED
    BY <2>1, <2>3, <2>4, <2>5 DEF Outbox!Clear
<1>8. CASE Crash
  <2>1. "crash" \in troubles' /\ Settle(Messages, "lost") /\ UNCHANGED <<given, lined, requeued>>
    BY <1>8 DEF Crash, Trouble, lineage
  <2>2. Outbox!Becomes(Messages \cap Outbox!Pending, "lost")
    BY <1>1, <2>1, SettleMany
  <2>3. Messages \cap Outbox!Pending = Outbox!Pending
    BY DEF Outbox!Pending
  <2> QED
    BY <2>1, <2>2, <2>3 DEF Outbox!Lose
<1>9. ASSUME NEW f \in Fibers, Promote(f)
      PROVE  UNCHANGED <<fate, given, lined, requeued>>
  BY <1>9, PromotedWith DEF Promote
<1>10. CASE \/ SessionStop \/ TakeTerminal \/ TakeQueued \/ TakeInterrupt \/ TakeStart
            \/ Ingestion \/ TurnEnds \/ SessionExits \/ Restart
            \/ StopProvider \/ SetStopped \/ StoppingFails \/ MarkStarting
            \/ EnsureSession \/ BindSession \/ StartFails \/ WorkerDrains
  BY <1>10 DEF SessionStop, TakeTerminal, TakeQueued, TakeInterrupt, TakeStart,
               Ingestion, TakeRuntime, SetSession, SetSessionFails, TurnEnds, SessionExits, Restart,
               StopProvider, SetStopped, StoppingFails, MarkStarting,
               EnsureSession, BindSession, StartFails, WorkerDrains, history, lineage
<1>11. "worker" \in Fibers /\ "events" \in Fibers
  BY DEF Fibers
<1> QED
  BY <1>2, <1>3, <1>4, <1>5, <1>6, <1>7, <1>8, <1>9, <1>10, <1>11 DEF Next, User, Worker, Drainer

\* The fibers of the reactor, ingestion and the restart keep the promise of an outbox together:
\* each of their steps is one of MessageOutbox, or none that it speaks of.
THEOREM ImplementsOutbox == Spec => MessagesMeetTheirFate
<1>1. ASSUME Living, LinedUp, [Next]_vars
      PROVE  [Outbox!Next]_(Outbox!outbox)
  <2>1. CASE Next
    <3>1. troubles \subseteq troubles'
      BY <1>1, <2>1, Grows
    <3> QED
      BY <1>1, <2>1, <3>1, OutboxMoves DEF Outbox!Next
  <2>2. CASE UNCHANGED vars
    BY <2>2 DEF vars, history, lineage, Outbox!outbox
  <2> QED
    BY <1>1, <2>1, <2>2
<1> QED
  BY <1>1, OutboxInit, AlwaysLiving, AlwaysLinedUp, PTL DEF Spec, MessagesMeetTheirFate, Outbox!Spec
=============================================================================
