----------------------------- MODULE ThreadViewProofs -----------------------------
(***************************************************************************)
(* Proofs for ThreadView, for any number of events, lost streams, closings *)
(* and replays: every variable keeps its type (Typed), the view has all    *)
(* that its fence keeps out (Following), and all that was published once   *)
(* the live buffer is drained (Unfenced).  Typed says what the live buffer *)
(* holds; Following, that the text shown is that of the first so many      *)
(* deltas, which is why the longer of two texts has the other's.           *)
(***************************************************************************)
EXTENDS ThreadView, FiniteSetTheorems, SequenceTheorems, TLAPS

-----------------------------------------------------------------------------------
\* Sets in their order, and members of sequences.

Rank(S, i) == Cardinality({j \in S : j < i})

LEMMA SeqFrom ==
    ASSUME NEW n \in Nat, NEW T, NEW f \in [1 .. n -> T]
    PROVE  f \in Seq(T) /\ Len(f) = n
<1>1. f \in Seq(T)
  BY SeqDef
<1> QED
  BY <1>1, LenProperties

LEMMA RankRises ==
    ASSUME NEW S \in SUBSET Nat, IsFiniteSet(S), NEW i \in S
    PROVE  /\ Rank(S, i) \in Nat /\ Rank(S, i) < Cardinality(S) /\ Cardinality(S) \in Nat
           /\ \A j \in S : i < j => Rank(S, i) < Rank(S, j)
<1> DEFINE below(k) == {j \in S : j < k}
<1>0. \A k : below(k) \in SUBSET S
  OBVIOUS
<1>1. \A k : IsFiniteSet(below(k)) /\ Cardinality(below(k)) \in Nat /\ Cardinality(S) \in Nat
  BY <1>0, FS_Subset, FS_CardinalityType
<1>2. ASSUME NEW T \in SUBSET S, IsFiniteSet(T), below(i) \subseteq T, i \in T
      PROVE  Cardinality(below(i)) < Cardinality(T)
  <2>1. Cardinality(below(i)) <= Cardinality(T) /\ (Cardinality(below(i)) = Cardinality(T) => below(i) = T)
    BY <1>2, FS_Subset
  <2>2. i \notin below(i)
    OBVIOUS
  <2>3. Cardinality(T) \in Nat
    BY <1>2, FS_CardinalityType
  <2> QED
    BY <1>1, <1>2, <2>1, <2>2, <2>3
<1>3. Rank(S, i) < Cardinality(S)
  BY <1>0, <1>2 DEF Rank
<1>4. ASSUME NEW j \in S, i < j
      PROVE  Rank(S, i) < Rank(S, j)
  <2>1. \A k \in S : k < i => k < j
    BY <1>4
  <2>2. below(i) \subseteq below(j) /\ i \in below(j)
    BY <1>4, <2>1
  <2> QED
    BY <1>0, <1>1, <1>2, <2>2 DEF Rank
<1> QED
  BY <1>1, <1>3, <1>4 DEF Rank

LEMMA InOrderIs ==
    ASSUME NEW S \in SUBSET Nat, IsFiniteSet(S)
    PROVE  /\ InOrder(S) \in Seq(S) /\ Len(InOrder(S)) = Cardinality(S) /\ Cardinality(S) \in Nat
           /\ ToSet(InOrder(S)) = S /\ IsInjective(InOrder(S))
<1> DEFINE n == Cardinality(S)
           place == [i \in S |-> Rank(S, i) + 1]
<1>1. n \in Nat /\ IsFiniteSet(1 .. n) /\ Cardinality(1 .. n) = n
  BY FS_CardinalityType, FS_Interval
<1>2. \A i, j \in S : Rank(S, i) \in 0 .. (n - 1) /\ (Rank(S, i) = Rank(S, j) => i = j)
  <2>1. \A i \in S : Rank(S, i) \in Nat /\ Rank(S, i) < n
    BY RankRises
  <2>2. \A i, j \in S : i < j => Rank(S, i) < Rank(S, j)
    BY RankRises
  <2>3. \A i, j \in S : i < j \/ j < i \/ i = j
    OBVIOUS
  <2> HIDE DEF n
  <2> QED
    BY <1>1, <2>1, <2>2, <2>3
<1>3. place \in Injection(S, 1 .. n)
  <2> HIDE DEF n
  <2> QED
    BY <1>1, <1>2 DEF Injection, IsInjective
<1>4. place \in Surjection(S, 1 .. n)
  BY <1>1, <1>3, FS_Injection
<1>5. \A k \in 1 .. n : \E i \in S : Rank(S, i) = k - 1
  <2> SUFFICES ASSUME NEW k \in 1 .. n PROVE \E i \in S : Rank(S, i) = k - 1
    OBVIOUS
  <2>1. PICK i \in S : place[i] = k
    BY <1>4 DEF Surjection
  <2>2. Rank(S, i) + 1 = k /\ Rank(S, i) \in Nat
    BY <2>1, RankRises
  <2> HIDE DEF n
  <2> QED
    BY <1>1, <2>2
<1>6. InOrder(S) = [k \in 1 .. n |-> CHOOSE i \in S : Rank(S, i) = k - 1]
  BY DEF InOrder, Rank
<1>7. \A k \in 1 .. n : InOrder(S)[k] \in S /\ Rank(S, InOrder(S)[k]) = k - 1
  BY <1>5, <1>6
<1>8. DOMAIN InOrder(S) = 1 .. n
  BY <1>6
<1>9. InOrder(S) \in [1 .. n -> S]
  BY <1>6, <1>7
<1>10. \A i \in S : Rank(S, i) + 1 \in 1 .. n /\ InOrder(S)[Rank(S, i) + 1] = i
  <2> SUFFICES ASSUME NEW i \in S
               PROVE  Rank(S, i) + 1 \in 1 .. n /\ InOrder(S)[Rank(S, i) + 1] = i
    OBVIOUS
  <2> HIDE DEF n
  <2>1. PICK k : k = Rank(S, i) + 1
    OBVIOUS
  <2>2. k \in 1 .. n /\ k - 1 = Rank(S, i)
    BY <1>1, <1>2, <2>1
  <2>3. InOrder(S)[k] \in S /\ Rank(S, InOrder(S)[k]) = Rank(S, i)
    BY <1>7, <2>2
  <2> QED
    BY <1>2, <2>1, <2>2, <2>3
<1>11. ToSet(InOrder(S)) = S
  <2> HIDE DEF n
  <2> QED
    BY <1>7, <1>8, <1>10 DEF ToSet
<1>12. IsInjective(InOrder(S))
  <2> HIDE DEF n
  <2>1. \A j, k \in 1 .. n : InOrder(S)[j] = InOrder(S)[k] => j - 1 = k - 1
    BY <1>7
  <2> QED
    BY <1>1, <1>8, <2>1 DEF IsInjective
<1>13. InOrder(S) \in Seq(S) /\ Len(InOrder(S)) = n
  <2> HIDE DEF n
  <2> QED
    BY <1>1, <1>9, SeqFrom
<1> QED
  BY <1>1, <1>11, <1>12, <1>13

LEMMA SeqIs ==
    ASSUME NEW s \in Seq(Nat)
    PROVE  /\ Len(s) \in Nat /\ DOMAIN s = 1 .. Len(s) /\ \A k \in DOMAIN s : k \in Nat /\ s[k] \in Nat
           /\ ToSet(s) \in SUBSET Nat /\ IsFiniteSet(ToSet(s))
           /\ IsInjective(s) => Cardinality(ToSet(s)) = Len(s)
<1>1. Len(s) \in Nat /\ DOMAIN s = 1 .. Len(s) /\ \A k \in DOMAIN s : k \in Nat /\ s[k] \in Nat
  BY LenProperties
<1>2. s \in Surjection(1 .. Len(s), ToSet(s))
  <2>1. s \in [1 .. Len(s) -> Nat]
    BY LenProperties
  <2>2. \A k \in 1 .. Len(s) : s[k] \in ToSet(s)
    BY <1>1 DEF ToSet
  <2>3. s \in [1 .. Len(s) -> ToSet(s)]
    BY <2>1, <2>2
  <2>4. \A x \in ToSet(s) : \E k \in 1 .. Len(s) : s[k] = x
    BY <1>1 DEF ToSet
  <2> QED
    BY <2>3, <2>4 DEF Surjection
<1>3. IsFiniteSet(1 .. Len(s)) /\ Cardinality(1 .. Len(s)) = Len(s)
  <2>1. \A n \in Nat : IsFiniteSet(1 .. n) /\ Cardinality(1 .. n) = n
    BY FS_Interval
  <2> QED
    BY <1>1, <2>1
<1>4. IsFiniteSet(ToSet(s)) /\ (Cardinality(ToSet(s)) = Len(s) <=> s \in Injection(1 .. Len(s), ToSet(s)))
  BY <1>2, <1>3, FS_Surjection
<1>5. IsInjective(s) => s \in Injection(1 .. Len(s), ToSet(s))
  BY <1>2 DEF Injection, Surjection
<1>6. ToSet(s) \in SUBSET Nat
  BY <1>1 DEF ToSet
<1> QED
  BY <1>1, <1>4, <1>5, <1>6

LEMMA OnlyIs ==
    ASSUME NEW s \in Seq(Nat), NEW S
    PROVE  /\ Only(s, S) \in Seq(Nat)
           /\ ToSet(Only(s, S)) = ToSet(s) \cap S
           /\ (\A j, k \in DOMAIN s : s[j] = s[k] /\ s[j] \in S => j = k) => IsInjective(Only(s, S))
<1> DEFINE there == {k \in DOMAIN s : s[k] \in S}
           places == InOrder(there)
<1>1. there \in SUBSET Nat /\ IsFiniteSet(there)
  <2>1. Len(s) \in Nat /\ DOMAIN s = 1 .. Len(s)
    BY SeqIs
  <2>2. IsFiniteSet(1 .. Len(s)) /\ there \in SUBSET (1 .. Len(s))
    BY <2>1, FS_Interval
  <2>3. IsFiniteSet(there)
    BY <2>2, FS_Subset
  <2> QED
    BY <2>1, <2>2, <2>3
<1>2. /\ places \in Seq(there) /\ Len(places) \in Nat /\ DOMAIN places = 1 .. Len(places)
      /\ ToSet(places) = there /\ IsInjective(places)
  BY <1>1, InOrderIs, LenProperties
<1>3. Only(s, S) = [k \in DOMAIN places |-> s[places[k]]]
  BY DEF Only
<1> HIDE DEF places
<1>4. \A k \in DOMAIN places : places[k] \in there
  BY <1>2 DEF ToSet
<1>5. Only(s, S) \in [1 .. Len(places) -> Nat]
  BY <1>2, <1>3, <1>4, SeqIs
<1>6. Only(s, S) \in Seq(Nat)
  BY <1>2, <1>5, SeqFrom
<1>7. \A k \in there : \E j \in DOMAIN places : places[j] = k
  BY <1>2 DEF ToSet
<1>8. ToSet(Only(s, S)) = ToSet(s) \cap S
  BY <1>3, <1>4, <1>7 DEF ToSet
<1>9. ASSUME \A j, k \in DOMAIN s : s[j] = s[k] /\ s[j] \in S => j = k
      PROVE  IsInjective(Only(s, S))
  <2>1. \A j, k \in DOMAIN places : s[places[j]] = s[places[k]] => places[j] = places[k]
    BY <1>4, <1>9
  <2> QED
    BY <1>2, <1>3, <2>1 DEF IsInjective
<1> QED
  BY <1>6, <1>8, <1>9

LEMMA ConcatIs ==
    ASSUME NEW s \in Seq(Nat), NEW t \in Seq(Nat)
    PROVE  /\ s \o t \in Seq(Nat) /\ ToSet(s \o t) = ToSet(s) \cup ToSet(t)
           /\ \A j, k \in DOMAIN (s \o t) : (s \o t)[j] = (s \o t)[k] =>
                 \/ j = k
                 \/ (\E a, b \in DOMAIN s : a # b /\ s[a] = s[b] /\ s[a] = (s \o t)[j])
                 \/ (\E a, b \in DOMAIN t : a # b /\ t[a] = t[b] /\ t[a] = (s \o t)[j])
                 \/ (s \o t)[j] \in ToSet(s) \cap ToSet(t)
<1> DEFINE both == s \o t
<1>1. /\ both \in Seq(Nat) /\ Len(both) = Len(s) + Len(t) /\ DOMAIN both = 1 .. (Len(s) + Len(t))
      /\ \A i \in 1 .. (Len(s) + Len(t)) : both[i] = IF i <= Len(s) THEN s[i] ELSE t[i - Len(s)]
  BY ConcatProperties, LenProperties
<1>2. Len(s) \in Nat /\ Len(t) \in Nat /\ DOMAIN s = 1 .. Len(s) /\ DOMAIN t = 1 .. Len(t)
  BY SeqIs
<1> HIDE DEF both
<1>3. \A i \in DOMAIN both : \/ i \in DOMAIN s /\ both[i] = s[i]
                             \/ i - Len(s) \in DOMAIN t /\ both[i] = t[i - Len(s)]
  BY <1>1, <1>2
<1>4. \A i \in DOMAIN s : i \in DOMAIN both /\ both[i] = s[i]
  BY <1>1, <1>2
<1>5. \A i \in DOMAIN t : i + Len(s) \in DOMAIN both /\ both[i + Len(s)] = t[i]
  <2>1. \A i \in DOMAIN t : i + Len(s) \in DOMAIN both /\ ~(i + Len(s) <= Len(s)) /\ (i + Len(s)) - Len(s) = i
    BY <1>1, <1>2
  <2> QED
    BY <1>1, <2>1
<1>6. ToSet(both) = ToSet(s) \cup ToSet(t)
  BY <1>3, <1>4, <1>5 DEF ToSet
<1>7. ASSUME NEW j \in DOMAIN both, NEW k \in DOMAIN both, both[j] = both[k], j # k,
             both[j] \notin ToSet(s) \cap ToSet(t)
      PROVE  \/ \E a, b \in DOMAIN s : a # b /\ s[a] = s[b] /\ s[a] = both[j]
             \/ \E a, b \in DOMAIN t : a # b /\ t[a] = t[b] /\ t[a] = both[j]
  <2>1. CASE j \in DOMAIN s /\ both[j] = s[j] /\ k \in DOMAIN s /\ both[k] = s[k]
    BY <1>7, <2>1
  <2>2. CASE j - Len(s) \in DOMAIN t /\ both[j] = t[j - Len(s)] /\ k - Len(s) \in DOMAIN t /\ both[k] = t[k - Len(s)]
    <3>1. j - Len(s) # k - Len(s)
      BY <1>1, <1>2, <1>7
    <3> QED
      BY <1>7, <2>2, <3>1
  <2>3. CASE j \in DOMAIN s /\ both[j] = s[j] /\ k - Len(s) \in DOMAIN t /\ both[k] = t[k - Len(s)]
    BY <1>7, <2>3 DEF ToSet
  <2>4. CASE k \in DOMAIN s /\ both[k] = s[k] /\ j - Len(s) \in DOMAIN t /\ both[j] = t[j - Len(s)]
    BY <1>7, <2>4 DEF ToSet
  <2> QED
    BY <1>3, <2>1, <2>2, <2>3, <2>4
<1> QED
  BY <1>1, <1>6, <1>7 DEF both

LEMMA AppendIs ==
    ASSUME NEW S, NEW s \in Seq(S), NEW x \in S
    PROVE  /\ Append(s, x) \in Seq(S) /\ ToSet(Append(s, x)) = ToSet(s) \cup {x}
           /\ Len(s) \in Nat /\ DOMAIN s = 1 .. Len(s)
           /\ Len(Append(s, x)) = Len(s) + 1 /\ DOMAIN Append(s, x) = 1 .. (Len(s) + 1)
           /\ \A k \in 1 .. Len(s) : Append(s, x)[k] = s[k]
           /\ Append(s, x)[Len(s) + 1] = x
<1>1. /\ Append(s, x) \in Seq(S) /\ Len(s) \in Nat /\ DOMAIN s = 1 .. Len(s)
      /\ Len(Append(s, x)) = Len(s) + 1 /\ DOMAIN Append(s, x) = 1 .. (Len(s) + 1)
      /\ \A k \in 1 .. Len(s) : Append(s, x)[k] = s[k]
      /\ Append(s, x)[Len(s) + 1] = x
  OBVIOUS
<1>2. \A k \in DOMAIN Append(s, x) : k \in DOMAIN s \/ k = Len(s) + 1
  BY <1>1
<1> QED
  BY <1>1, <1>2 DEF ToSet

LEMMA SetOf ==
    /\ ToSet(<<>>) = {}
    /\ \A s \in Seq(Nat) : s # <<>> => Last(s) \in ToSet(s)
    /\ \A s \in Seq(Nat) : \A S : ToSet(s) \subseteq S => s \in Seq(S)
<1>1. ASSUME NEW s \in Seq(Nat), s # <<>>
      PROVE  Last(s) \in ToSet(s)
  <2>1. Len(s) \in DOMAIN s
    BY <1>1, EmptySeq, LenProperties
  <2> QED
    BY <2>1 DEF Last, ToSet
<1>2. ASSUME NEW s \in Seq(Nat), NEW S, ToSet(s) \subseteq S
      PROVE  s \in Seq(S)
  <2>1. s \in [1 .. Len(s) -> S] /\ Len(s) \in Nat
    BY <1>2, LenProperties DEF ToSet
  <2> QED
    BY <2>1, SeqFrom
<1> QED
  BY <1>1, <1>2 DEF ToSet

-----------------------------------------------------------------------------------
\* What the invariants speak of.

Kinds == {"delta", "refresh"}
\* What the queue will add to the text, and what has been delivered of the live events.
QueuedDeltas == {i \in ToSet(queued) : log[i] = "delta"}
Delivered == published - Len(stream.backlog)
\* The next flush shows a delta twice.
Doomed == \E i \in QueuedDeltas : i \in ToSet(view.text)

Stream == [open: BOOLEAN, live: BOOLEAN, backlog: Seq(Nat), read: BOOLEAN, due: BOOLEAN,
           content: Nat, fence: Nat]
Logged == /\ log \in Seq(Kinds) /\ summarized \in 0 .. Len(log) /\ published \in 0 .. Len(log)
          /\ wanted \in BOOLEAN /\ greeted \in BOOLEAN /\ replaying \in BOOLEAN /\ strayed \in BOOLEAN
          /\ shell \in 0 .. published /\ budget \in Budget
\* The snapshot is read behind the live side, which holds the last of the published events.
Streamed ==
    /\ stream \in Stream /\ stream.fence <= stream.content /\ stream.content <= Len(log)
    /\ ~stream.open => stream = NoStream
    /\ ~stream.live => stream.backlog = <<>> /\ ~stream.read
    /\ ~stream.read => ~stream.due
    /\ Len(stream.backlog) <= published
    /\ \A k \in DOMAIN stream.backlog : stream.backlog[k] = Delivered + k
Fenced == fence \in Int /\ NoFence <= fence /\ fence <= Len(log)
Buffered == /\ pending \in Seq(Nat) /\ \A i \in ToSet(pending) : i \in 1 .. Len(log)
            /\ queued \in Seq(Nat) /\ \A i \in ToSet(queued) : i \in 1 .. Len(log)
Viewed == /\ view \in [text: Seq(Nat), shown: SUBSET Nat]
          /\ \A i \in ToSet(view.text) : i \in 1 .. Len(log) /\ log[i] = "delta"
          /\ \A i \in view.shown : i \in 1 .. Len(log) /\ log[i] = "refresh"
Replayed == /\ replays \subseteq [from: Nat, target: Nat, upTo: Int]
            /\ \A r \in replays : NoFence <= r.upTo /\ r.upTo <= Len(log)
Typed == Logged /\ Streamed /\ Fenced /\ Buffered /\ Viewed /\ Replayed

\* The text is that of the first events, and with what is queued that of some more.
TextStraight == IsInjective(view.text) /\ \E m \in 0 .. Len(log) : ToSet(view.text) = Deltas(m)
QueueStraight ==
    \/ Doomed
    \/ /\ \A j, k \in DOMAIN queued : queued[j] = queued[k] /\ log[queued[j]] = "delta" => j = k
       /\ \E m \in 0 .. Len(log) : ToSet(view.text) \cup QueuedDeltas = Deltas(m)
\* Whatever is queued is behind the fence, but what the text has already.
QueueBehind == fence # NoFence => \A i \in QueuedDeltas : i <= fence \/ i \in ToSet(view.text)
\* The snapshot that is due has all that has come before it.
SnapshotCovers == stream.due =>
    /\ fence <= stream.content /\ Delivered <= stream.content
    /\ \A i \in ToSet(queued) \cup ToSet(pending) : i <= stream.content
FenceShown == fence # NoFence => \A i \in 1 .. fence : InView(i)
LiveShown == stream.live /\ ~SnapshotToCome /\ fence # NoFence => \A i \in 1 .. Delivered : InView(i)

Straight == TextStraight /\ QueueStraight /\ QueueBehind /\ SnapshotCovers /\ FenceShown /\ LiveShown
Following == ~strayed => Straight

-----------------------------------------------------------------------------------
\* Types, and the backlog.

LEMMA LogGrows ==
    ASSUME Logged, ViewNext
    PROVE  /\ log' \in Seq(Kinds) /\ Len(log) \in Nat /\ Len(log') \in Nat /\ Len(log) <= Len(log')
           /\ \A i \in 1 .. Len(log) : log'[i] = log[i]
           /\ UNCHANGED log \/ (\E kind \in Kinds : Commit(kind))
<1>1. CASE \E kind \in Kinds : Commit(kind)
  <2>1. PICK kind \in Kinds : log' = Append(log, kind)
    BY <1>1 DEF Commit
  <2> QED
    BY <1>1, <2>1, AppendIs DEF Logged
<1>2. CASE UNCHANGED log
  BY <1>2 DEF Logged
<1>3. UNCHANGED log \/ \E kind \in Kinds : Commit(kind)
  BY DEF ViewNext, Kinds, Commit, Summarize, Publish, LiveStarts, ReadSnapshot, StreamFails, Reconnect,
     Welcome, OpenThread, CloseThread, DeliverSnapshot, DeliverEvent, Flush, ShellEvent, Poll,
     AnswerReplay, TakeReplay, ReplayFails, server
<1> QED
  BY <1>1, <1>2, <1>3

LEMMA StreamSteps ==
    ASSUME ViewNext
    PROVE  \/ UNCHANGED <<stream, published>>
           \/ stream' = NoStream /\ published' \in {published, published + 1}
           \/ stream' = NewStream /\ published' = published
           \/ LiveStarts /\ ~stream.live /\ stream.open /\ published' = published
              /\ stream' = [stream EXCEPT !.live = TRUE]
           \/ ReadSnapshot /\ published' = published
           \/ DeliverSnapshot /\ published' = published
              /\ stream' = [stream EXCEPT !.due = FALSE, !.content = 0, !.fence = 0]
           \/ Publish /\ published' = published + 1 /\ ~stream.live /\ stream' = stream
           \/ Publish /\ published' = published + 1 /\ stream.live
              /\ stream' = [stream EXCEPT !.backlog = Append(stream.backlog, published + 1)]
           \/ DeliverEvent /\ fence # NoFence /\ stream.open /\ stream.backlog # <<>>
              /\ stream' = [stream EXCEPT !.backlog = Tail(stream.backlog)] /\ published' = published
<1>1. CASE Publish
  <2>1. CASE ~stream.live
    BY <1>1, <2>1 DEF Publish
  <2>2. CASE stream.live /\ Overflown
    BY <1>1, <2>2 DEF Publish
  <2>3. CASE stream.live /\ ~Overflown
    BY <1>1, <2>3 DEF Publish, Overflown
  <2> QED
    BY <2>1, <2>2, <2>3
<1>2. CASE DeliverEvent
  BY <1>2 DEF DeliverEvent, server
<1>3. CASE LiveStarts \/ ReadSnapshot \/ StreamFails \/ Reconnect \/ Welcome \/ OpenThread \/ CloseThread \/ DeliverSnapshot
  BY <1>3 DEF LiveStarts, ReadSnapshot, StreamFails, Reconnect, Welcome, OpenThread, CloseThread, Begin,
     DeliverSnapshot, server
<1>4. CASE (\E kind \in Kinds : Commit(kind)) \/ Summarize \/ Flush
  BY <1>4 DEF Commit, Summarize, Flush, server
<1>5. CASE (\E i \in DOMAIN log : ShellEvent(i)) \/ Poll
  BY <1>5 DEF ShellEvent, Poll, CatchUp, server
<1>6. CASE \E r \in replays : AnswerReplay(r) \/ TakeReplay(r) \/ ReplayFails(r)
  BY <1>6 DEF AnswerReplay, TakeReplay, ReplayFails, server
<1> QED
  BY <1>1, <1>2, <1>3, <1>4, <1>5, <1>6 DEF ViewNext, Kinds

LEMMA StreamedStep ==
    ASSUME Typed, ViewNext, Logged'
    PROVE  Streamed'
<1>1. /\ stream \in Stream /\ stream.fence \in Nat /\ stream.content \in Nat
      /\ stream.backlog \in Seq(Nat) /\ Len(stream.backlog) \in Nat
      /\ published \in Nat /\ Len(log) \in Nat /\ Len(log') \in Nat /\ Len(log) <= Len(log')
      /\ summarized \in Nat /\ summarized <= Len(log)
  BY LogGrows, SeqIs DEF Typed, Streamed, Stream, Logged
<1>2. ASSUME stream' \in Stream, stream'.fence = stream.fence, stream'.content = stream.content
      PROVE  stream'.fence <= stream'.content /\ stream'.content <= Len(log')
  BY <1>1, <1>2 DEF Typed, Streamed
<1>3. CASE UNCHANGED <<stream, published>>
  BY <1>1, <1>3 DEF Typed, Streamed, Delivered
<1>4. CASE stream' = NoStream
  <2>1. /\ stream' \in Stream /\ stream'.fence = 0 /\ stream'.content = 0 /\ stream'.backlog = <<>>
        /\ stream'.live = FALSE /\ stream'.read = FALSE /\ stream'.due = FALSE
    BY <1>4, EmptySeq DEF NoStream, Stream
  <2>2. Len(stream'.backlog) = 0 /\ DOMAIN stream'.backlog = {}
    BY <2>1
  <2> QED
    BY <1>1, <1>4, <2>1, <2>2 DEF Streamed, Logged
<1>5. CASE stream' = NewStream
  <2>1. /\ stream' \in Stream /\ stream'.fence = 0 /\ stream'.content = 0 /\ stream'.backlog = <<>>
        /\ stream'.live = FALSE /\ stream'.read = FALSE /\ stream'.due = FALSE /\ stream'.open = TRUE
    BY <1>5, EmptySeq DEF NewStream, NoStream, Stream
  <2>2. Len(stream'.backlog) = 0 /\ DOMAIN stream'.backlog = {}
    BY <2>1
  <2> QED
    BY <1>1, <1>5, <2>1, <2>2 DEF Streamed, Logged
<1>6. CASE LiveStarts /\ ~stream.live /\ stream.open /\ published' = published /\ stream' = [stream EXCEPT !.live = TRUE]
  <2>1. /\ stream' \in Stream /\ stream'.fence = stream.fence /\ stream'.content = stream.content
        /\ stream'.backlog = stream.backlog /\ stream'.open = stream.open /\ stream'.live = TRUE
        /\ stream'.read = stream.read /\ stream'.due = stream.due
    BY <1>1, <1>6 DEF Stream
  <2> QED
    BY <1>1, <1>2, <1>6, <2>1 DEF Typed, Streamed, Delivered
<1>7. CASE ReadSnapshot /\ published' = published
  <2>1. stream.open /\ stream.live /\ UNCHANGED log
    BY <1>7 DEF ReadSnapshot, MayRead, server
  <2>2. /\ stream' \in Stream /\ stream'.backlog = stream.backlog
        /\ stream'.open = stream.open /\ stream'.live = stream.live /\ stream'.read = TRUE
        /\ stream'.fence <= stream'.content /\ stream'.content <= Len(log')
    BY <1>1, <1>7, <2>1 DEF ReadSnapshot, Stream, Typed, Streamed
  <2> QED
    BY <1>1, <1>7, <2>1, <2>2 DEF Typed, Streamed, Delivered
<1>8. CASE DeliverSnapshot /\ published' = published /\ stream' = [stream EXCEPT !.due = FALSE, !.content = 0, !.fence = 0]
  <2>1. stream.open
    BY <1>8 DEF DeliverSnapshot
  <2>2. /\ stream' \in Stream /\ stream'.fence = 0 /\ stream'.content = 0
        /\ stream'.backlog = stream.backlog /\ stream'.open = stream.open /\ stream'.live = stream.live
        /\ stream'.read = stream.read /\ stream'.due = FALSE
    BY <1>1, <1>8 DEF Stream
  <2> QED
    BY <1>1, <1>8, <2>1, <2>2 DEF Typed, Streamed, Delivered
<1>9. CASE Publish /\ published' = published + 1 /\ ~stream.live /\ stream' = stream
  <2>1. stream.backlog = <<>>
    BY <1>9 DEF Typed, Streamed
  <2>2. Len(stream.backlog) = 0 /\ DOMAIN stream.backlog = {}
    BY <2>1
  <2> QED
    BY <1>1, <1>9, <2>1, <2>2 DEF Typed, Streamed
<1>10. CASE /\ Publish /\ published' = published + 1 /\ stream.live
            /\ stream' = [stream EXCEPT !.backlog = Append(stream.backlog, published + 1)]
  <2> DEFINE more == Append(stream.backlog, published + 1)
  <2>1. /\ more \in Seq(Nat) /\ Len(more) = Len(stream.backlog) + 1 /\ DOMAIN more = 1 .. (Len(stream.backlog) + 1)
        /\ DOMAIN stream.backlog = 1 .. Len(stream.backlog)
        /\ \A k \in 1 .. Len(stream.backlog) : more[k] = stream.backlog[k]
        /\ more[Len(stream.backlog) + 1] = published + 1
    <3>1. published + 1 \in Nat
      BY <1>1
    <3> QED
      BY <1>1, <3>1, AppendIs
  <2> HIDE DEF more
  <2>2. /\ stream' \in Stream /\ stream'.fence = stream.fence /\ stream'.content = stream.content
        /\ stream'.backlog = more /\ stream'.open = stream.open /\ stream'.live = stream.live
        /\ stream'.read = stream.read /\ stream'.due = stream.due
    BY <1>1, <1>10, <2>1 DEF Stream, more
  <2>3. Delivered' = Delivered /\ Delivered = published - Len(stream.backlog)
    BY <1>1, <1>10, <2>1, <2>2 DEF Delivered
  <2>4. \A k \in DOMAIN more : more[k] = (published - Len(stream.backlog)) + k
    <3>1. \A k \in 1 .. Len(stream.backlog) : stream.backlog[k] = (published - Len(stream.backlog)) + k
      BY <2>1 DEF Typed, Streamed, Delivered
    <3>2. \A n \in Nat : \A k \in 1 .. (n + 1) : k \in 1 .. n \/ k = n + 1
      OBVIOUS
    <3>3. \A n, m \in Nat : (m - n) + (n + 1) = m + 1
      OBVIOUS
    <3>4. (published - Len(stream.backlog)) + (Len(stream.backlog) + 1) = published + 1
      BY <1>1, <3>3
    <3>5. ASSUME NEW k \in DOMAIN more
          PROVE  more[k] = (published - Len(stream.backlog)) + k
      <4>1. k \in 1 .. Len(stream.backlog) \/ k = Len(stream.backlog) + 1
        BY <1>1, <2>1, <3>2
      <4>2. CASE k \in 1 .. Len(stream.backlog)
        BY <2>1, <3>1, <4>2
      <4>3. CASE k = Len(stream.backlog) + 1
        BY <2>1, <3>4, <4>3
      <4> QED
        BY <4>1, <4>2, <4>3
    <3> QED
      BY <3>5
  <2>5. Len(stream.backlog) <= published /\ stream.open
    BY <1>10 DEF Typed, Streamed, NoStream
  <2>6. Len(more) <= published'
    BY <1>1, <1>10, <2>1, <2>5
  <2> QED
    BY <1>2, <1>10, <2>2, <2>3, <2>4, <2>5, <2>6 DEF Typed, Streamed
<1>11. CASE /\ DeliverEvent /\ stream.open /\ stream.backlog # <<>>
            /\ stream' = [stream EXCEPT !.backlog = Tail(stream.backlog)] /\ published' = published
  <2> DEFINE rest == Tail(stream.backlog)
  <2>1. /\ rest \in Seq(Nat) /\ Len(rest) = Len(stream.backlog) - 1
        /\ \A i \in 1 .. Len(rest) : rest[i] = stream.backlog[i + 1]
    BY <1>1, <1>11, HeadTailProperties
  <2>2. Len(rest) \in Nat /\ DOMAIN rest = 1 .. Len(rest) /\ DOMAIN stream.backlog = 1 .. Len(stream.backlog)
    BY <1>1, <2>1, SeqIs
  <2> HIDE DEF rest
  <2>3. /\ stream' \in Stream /\ stream'.fence = stream.fence /\ stream'.content = stream.content
        /\ stream'.backlog = rest /\ stream'.open = stream.open /\ stream'.live = stream.live
        /\ stream'.read = stream.read /\ stream'.due = stream.due
    BY <1>1, <1>11, <2>1 DEF Stream, rest
  <2>4. stream.live
    BY <1>11 DEF Typed, Streamed
  <2>5. \A k \in DOMAIN rest : rest[k] = (published - Len(rest)) + k
    <3>1. \A k \in 1 .. Len(stream.backlog) : stream.backlog[k] = (published - Len(stream.backlog)) + k
      BY <2>2 DEF Typed, Streamed, Delivered
    <3>2. \A n \in Nat, k \in Int : k \in 1 .. n - 1 => k + 1 \in 1 .. n
      OBVIOUS
    <3>3. \A n, m \in Nat, k \in Int : (m - n) + (k + 1) = (m - (n - 1)) + k
      OBVIOUS
    <3>4. ASSUME NEW k \in DOMAIN rest
          PROVE  rest[k] = (published - Len(rest)) + k
      <4>1. k \in 1 .. Len(stream.backlog) - 1 /\ k \in Int /\ rest[k] = stream.backlog[k + 1]
        BY <2>1, <2>2
      <4>2. k + 1 \in 1 .. Len(stream.backlog)
        BY <1>1, <3>2, <4>1
      <4>3. stream.backlog[k + 1] = (published - Len(stream.backlog)) + (k + 1)
        BY <3>1, <4>2
      <4>4. (published - Len(stream.backlog)) + (k + 1) = (published - (Len(stream.backlog) - 1)) + k
        BY <1>1, <3>3, <4>1
      <4> QED
        BY <2>1, <4>1, <4>3, <4>4
    <3> QED
      BY <3>4
  <2>6. Len(rest) <= published
    BY <1>1, <2>1, <2>2 DEF Typed, Streamed
  <2> QED
    BY <1>2, <1>11, <2>3, <2>4, <2>5, <2>6 DEF Typed, Streamed, Delivered
<1> QED
  BY <1>3, <1>4, <1>5, <1>6, <1>7, <1>8, <1>9, <1>10, <1>11, StreamSteps

LEMMA SeqWider ==
    ASSUME NEW S \in SUBSET Nat, NEW s \in Seq(S)
    PROVE  s \in Seq(Nat)
<1>1. Len(s) \in Nat /\ s \in [1 .. Len(s) -> S]
  BY LenProperties
<1>2. s \in [1 .. Len(s) -> Nat]
  BY <1>1
<1> QED
  BY <1>1, <1>2, SeqFrom

LEMMA BacklogHead ==
    ASSUME Typed, stream.backlog # <<>>
    PROVE  /\ Head(stream.backlog) \in 1 .. Len(log) /\ Head(stream.backlog) \in Nat
           /\ Head(stream.backlog) = Delivered + 1
           /\ Delivered \in Nat
<1>1. stream.backlog \in Seq(Nat) /\ published \in Nat /\ Len(log) \in Nat /\ published <= Len(log)
  BY LenProperties DEF Typed, Streamed, Stream, Logged
<1>2. /\ Len(stream.backlog) \in Nat /\ Len(stream.backlog) # 0
      /\ DOMAIN stream.backlog = 1 .. Len(stream.backlog) /\ Head(stream.backlog) = stream.backlog[1]
  BY <1>1, EmptySeq, SeqIs, HeadTailProperties
<1>3. 1 \in DOMAIN stream.backlog
  BY <1>2
<1>4. Head(stream.backlog) = Delivered + 1 /\ Len(stream.backlog) <= published
  BY <1>2, <1>3 DEF Typed, Streamed
<1> QED
  <2> DEFINE n == Len(stream.backlog)
  <2>1. n \in Nat /\ n # 0 /\ n <= published /\ Head(stream.backlog) = (published - n) + 1
    BY <1>2, <1>4 DEF Delivered
  <2>2. Delivered = published - n
    BY DEF Delivered
  <2> HIDE DEF n
  <2>3. PICK m : m = Len(log)
    OBVIOUS
  <2>4. Head(stream.backlog) \in 1 .. m
    BY <1>1, <2>1, <2>3
  <2> QED
    BY <1>1, <2>1, <2>2, <2>3, <2>4

LEMMA PendingIs ==
    ASSUME Typed
    PROVE  /\ Pending \in Seq(Nat) /\ IsInjective(Pending)
           /\ ToSet(Pending) = {i \in ToSet(pending) : i > stream.fence}
           /\ Pending # <<>> => Last(Pending) \in ToSet(Pending)
<1> DEFINE S == {i \in ToSet(pending) : i > stream.fence}
<1>1. ToSet(pending) \in SUBSET Nat /\ IsFiniteSet(ToSet(pending))
  BY SeqIs DEF Typed, Buffered
<1>2. S \in SUBSET Nat /\ IsFiniteSet(S)
  BY <1>1, FS_Subset
<1>3. Pending = InOrder(S)
  BY DEF Pending
<1> HIDE DEF S
<1>4. Pending \in Seq(S) /\ ToSet(Pending) = S /\ IsInjective(Pending)
  BY <1>2, <1>3, InOrderIs
<1>5. Pending \in Seq(Nat)
  BY <1>2, <1>4, SeqWider
<1> QED
  BY <1>4, <1>5, SetOf DEF S

LEMMA ReplayIs ==
    ASSUME Typed, NEW r \in replays, NEW latest, latest = IF fence = NoFence THEN r.from ELSE fence
    PROVE  /\ latest \in Nat /\ r.upTo \in Int
           /\ InOrder(latest + 1 .. r.upTo) \in Seq(Nat) /\ IsInjective(InOrder(latest + 1 .. r.upTo))
           /\ ToSet(InOrder(latest + 1 .. r.upTo)) = latest + 1 .. r.upTo
           /\ InOrder(latest + 1 .. r.upTo) # <<>> => latest < r.upTo /\ r.upTo <= Len(log)
<1>1. latest \in Nat /\ r.upTo \in Int /\ r.upTo <= Len(log)
  BY DEF Typed, Replayed, Fenced, NoFence
<1> DEFINE S == latest + 1 .. r.upTo
<1>2. S \in SUBSET Nat /\ IsFiniteSet(S)
  <2>1. \A a, b \in Int : IsFiniteSet(a .. b)
    BY FS_Interval
  <2>2. \A a \in Nat, b \in Int : a + 1 .. b \in SUBSET Nat /\ a + 1 \in Int
    OBVIOUS
  <2> QED
    BY <1>1, <2>1, <2>2
<1>3. (S = {}) \/ latest < r.upTo
  BY <1>1
<1> HIDE DEF S
<1>4. InOrder(S) \in Seq(S) /\ ToSet(InOrder(S)) = S /\ IsInjective(InOrder(S))
  BY <1>2, InOrderIs
<1>5. InOrder(S) \in Seq(Nat)
  BY <1>2, <1>4, SeqWider
<1>6. InOrder(S) # <<>> => S # {}
  BY <1>4, <1>5, SetOf
<1> QED
  BY <1>1, <1>3, <1>4, <1>5, <1>6 DEF S

LEMMA LoggedStep ==
    ASSUME Typed, ViewNext
    PROVE  Logged'
<1>1. /\ Len(log) \in Nat /\ Len(log') \in Nat /\ Len(log) <= Len(log') /\ log' \in Seq(Kinds)
      /\ summarized \in 0 .. Len(log) /\ published \in 0 .. Len(log)
      /\ wanted \in BOOLEAN /\ greeted \in BOOLEAN /\ replaying \in BOOLEAN /\ strayed \in BOOLEAN
      /\ shell \in 0 .. published /\ budget \in Budget
  BY LogGrows DEF Typed, Logged
<1>2. summarized' \in 0 .. Len(log')
  <2>1. UNCHANGED summarized \/ Summarize
    BY DEF ViewNext, Commit, Summarize, Publish, LiveStarts, ReadSnapshot, StreamFails, Reconnect,
       Welcome, OpenThread, CloseThread, DeliverSnapshot, DeliverEvent, Flush, ShellEvent, Poll,
       AnswerReplay, TakeReplay, ReplayFails, server
  <2>2. Summarize => summarized' = Len(log)
    BY DEF Summarize
  <2> QED
    BY <1>1, <2>1, <2>2
<1>3. published' \in 0 .. Len(log') /\ published <= published'
  <2>1. UNCHANGED published \/ Publish
    BY DEF ViewNext, Commit, Summarize, Publish, LiveStarts, ReadSnapshot, StreamFails, Reconnect,
       Welcome, OpenThread, CloseThread, DeliverSnapshot, DeliverEvent, Flush, ShellEvent, Poll,
       AnswerReplay, TakeReplay, ReplayFails, server
  <2>2. Publish => published' = published + 1 /\ published < Len(log)
    BY DEF Publish
  <2> QED
    BY <1>1, <2>1, <2>2
<1>4. wanted' \in BOOLEAN /\ greeted' \in BOOLEAN /\ replaying' \in BOOLEAN
  <2>1. wanted' \in {wanted, TRUE, FALSE}
    BY DEF ViewNext, Commit, Summarize, Publish, LiveStarts, ReadSnapshot, StreamFails, Reconnect,
       Welcome, OpenThread, CloseThread, DeliverSnapshot, DeliverEvent, Flush, ShellEvent, Poll,
       AnswerReplay, TakeReplay, ReplayFails, server
  <2>2. greeted' \in {greeted, TRUE, FALSE}
    BY DEF ViewNext, Commit, Summarize, Publish, LiveStarts, ReadSnapshot, StreamFails, Reconnect,
       Welcome, OpenThread, CloseThread, DeliverSnapshot, DeliverEvent, Flush, ShellEvent, Poll,
       AnswerReplay, TakeReplay, ReplayFails, server
  <2>3. replaying' \in {replaying, TRUE, FALSE}
    BY DEF ViewNext, Commit, Summarize, Publish, LiveStarts, ReadSnapshot, StreamFails, Reconnect,
       Welcome, OpenThread, CloseThread, DeliverSnapshot, DeliverEvent, Flush, ShellEvent, Poll,
       AnswerReplay, TakeReplay, ReplayFails, server, client, CatchUp, AskReplay
  <2> QED
    BY <1>1, <2>1, <2>2, <2>3
<1>5. strayed' \in BOOLEAN
  <2>1. \/ UNCHANGED strayed
        \/ strayed' = (strayed \/ SnapshotToCome)
        \/ strayed' = (strayed \/ \E i \in ToSet(queued) : i \in ToSet(view.text))
        \/ \E r \in replays : TakeReplay(r)
    BY DEF ViewNext, Commit, Summarize, Publish, LiveStarts, ReadSnapshot, StreamFails, Reconnect,
       Welcome, OpenThread, CloseThread, DeliverSnapshot, DeliverEvent, Flush, ShellEvent, Poll,
       AnswerReplay, ReplayFails, server, client
  <2>2. ASSUME NEW r \in replays, TakeReplay(r)
        PROVE  strayed' \in BOOLEAN
    BY <2>2 DEF TakeReplay
  <2> QED
    BY <1>1, <2>1, <2>2
<1>6. shell' \in 0 .. published'
  <2>1. UNCHANGED shell \/ shell' \in shell + 1 .. published
    BY DEF ViewNext, Commit, Summarize, Publish, LiveStarts, ReadSnapshot, StreamFails, Reconnect,
       Welcome, OpenThread, CloseThread, DeliverSnapshot, DeliverEvent, Flush, ShellEvent, Poll,
       AnswerReplay, TakeReplay, ReplayFails, server, client
  <2> QED
    BY <1>1, <1>3, <2>1
<1>7. budget' \in Budget
  <2>1. UNCHANGED budget \/ Trouble
    BY DEF ViewNext, Commit, Summarize, Publish, LiveStarts, ReadSnapshot, StreamFails, Reconnect,
       Welcome, OpenThread, CloseThread, DeliverSnapshot, DeliverEvent, Flush, ShellEvent, Poll,
       AnswerReplay, TakeReplay, ReplayFails, server, client
  <2>2. Trouble => budget' \in Budget
    BY <1>1 DEF Trouble, Budget
  <2> QED
    BY <1>1, <2>1, <2>2
<1> QED
  BY <1>1, <1>2, <1>3, <1>4, <1>5, <1>6, <1>7 DEF Logged

LEMMA ClientSteps ==
    ASSUME ViewNext
    PROVE  \/ UNCHANGED <<view, queued, pending, fence, strayed>>
           \/ fence' = NoFence /\ pending' = <<>> /\ UNCHANGED <<view, queued, strayed>>
           \/ DeliverSnapshot
           \/ DeliverEvent /\ fence = NoFence /\ pending' = Append(pending, Head(stream.backlog))
              /\ stream.backlog # <<>> /\ UNCHANGED <<view, queued, fence, strayed>>
           \/ DeliverEvent /\ fence # NoFence /\ Head(stream.backlog) > fence /\ stream.backlog # <<>>
              /\ fence' = Head(stream.backlog) /\ queued' = Append(queued, Head(stream.backlog))
              /\ strayed' = (strayed \/ SnapshotToCome) /\ UNCHANGED <<view, pending>>
           \/ Flush
           \/ \E r \in replays : TakeReplay(r)
<1>1. CASE DeliverEvent
  <2>1. CASE fence = NoFence
    BY <1>1, <2>1 DEF DeliverEvent
  <2>2. CASE fence # NoFence /\ PastFence(Head(stream.backlog), fence)
    BY <1>1, <2>2 DEF DeliverEvent, PastFence
  <2>3. CASE fence # NoFence /\ ~PastFence(Head(stream.backlog), fence)
    BY <1>1, <2>3 DEF DeliverEvent
  <2> QED
    BY <2>1, <2>2, <2>3
<1>2. CASE DeliverSnapshot \/ Flush \/ \E r \in replays : TakeReplay(r)
  BY <1>2
<1>3. CASE Publish \/ LiveStarts \/ ReadSnapshot \/ StreamFails \/ Reconnect \/ Summarize
  BY <1>3 DEF Publish, LiveStarts, ReadSnapshot, StreamFails, Reconnect, Summarize, client
<1>4. CASE Welcome \/ OpenThread \/ CloseThread
  BY <1>4 DEF Welcome, OpenThread, CloseThread, Begin
<1>5. CASE \E kind \in Kinds : Commit(kind)
  BY <1>5 DEF Commit, client
<1>6. CASE (\E i \in DOMAIN log : ShellEvent(i)) \/ Poll
  BY <1>6 DEF ShellEvent, Poll
<1>7. CASE \E r \in replays : AnswerReplay(r) \/ ReplayFails(r)
  BY <1>7 DEF AnswerReplay, ReplayFails
<1> QED
  BY <1>1, <1>2, <1>3, <1>4, <1>5, <1>6, <1>7 DEF ViewNext, Kinds

LEMMA FencedStep ==
    ASSUME Typed, ViewNext
    PROVE  Fenced'
<1>1. Len(log) \in Nat /\ Len(log') \in Nat /\ Len(log) <= Len(log') /\ fence \in Int /\ NoFence <= fence /\ fence <= Len(log)
  BY LogGrows DEF Typed, Fenced
<1>2. ASSUME fence' \in Int, NoFence <= fence', fence' <= Len(log)
      PROVE  Fenced'
  BY <1>1, <1>2 DEF Fenced
<1>3. NoFence \in Int /\ NoFence < 0
  BY DEF NoFence
<1>4. CASE UNCHANGED fence \/ fence' = NoFence
  BY <1>1, <1>2, <1>3, <1>4
<1>5. CASE DeliverSnapshot
  <2>1. /\ stream.fence \in Nat /\ stream.fence <= Len(log)
    BY <1>1 DEF Typed, Streamed, Stream
  <2>2. Pending # <<>> => Last(Pending) \in 1 .. Len(log)
    BY PendingIs DEF Typed, Buffered
  <2>3. fence' = IF Pending = <<>> THEN stream.fence ELSE Last(Pending)
    BY <1>5 DEF DeliverSnapshot
  <2> QED
    BY <1>1, <1>2, <1>3, <2>1, <2>2, <2>3
<1>6. CASE stream.backlog # <<>> /\ fence' = Head(stream.backlog)
  BY <1>1, <1>2, <1>3, <1>6, BacklogHead
<1>7. ASSUME NEW r \in replays, TakeReplay(r)
      PROVE  Fenced'
  <2>1. /\ r.upTo \in Int /\ NoFence <= r.upTo /\ r.upTo <= Len(log)
    BY DEF Typed, Replayed
  <2>2. fence' \in {fence, r.upTo}
    BY <1>7 DEF TakeReplay
  <2> QED
    BY <1>1, <1>2, <2>1, <2>2
<1> QED
  BY <1>4, <1>5, <1>6, <1>7, ClientSteps DEF Flush

LEMMA BufferedStep ==
    ASSUME Typed, ViewNext
    PROVE  Buffered'
<1>1. Len(log) \in Nat /\ Len(log') \in Nat /\ Len(log) <= Len(log') /\ \A i \in 1 .. Len(log) : i \in 1 .. Len(log')
  BY LogGrows DEF Typed
<1>2. /\ pending \in Seq(Nat) /\ queued \in Seq(Nat)
      /\ \A i \in ToSet(pending) : i \in 1 .. Len(log)
      /\ \A i \in ToSet(queued) : i \in 1 .. Len(log)
  BY DEF Typed, Buffered
<1>3. ASSUME NEW s \in Seq(Nat), \A i \in ToSet(s) : i \in 1 .. Len(log), queued' = queued \o s
      PROVE  queued' \in Seq(Nat) /\ \A i \in ToSet(queued') : i \in 1 .. Len(log')
  <2>1. queued' \in Seq(Nat) /\ ToSet(queued') = ToSet(queued) \cup ToSet(s)
    BY <1>2, <1>3, ConcatIs
  <2> QED
    BY <1>1, <1>2, <1>3, <2>1
<1>4. ASSUME NEW s \in Seq(Nat), NEW t, \A i \in ToSet(s) : i \in 1 .. Len(log), NEW i \in Nat,
             i \in 1 .. Len(log), t = Append(s, i)
      PROVE  t \in Seq(Nat) /\ \A j \in ToSet(t) : j \in 1 .. Len(log')
  <2>1. t \in Seq(Nat) /\ ToSet(t) = ToSet(s) \cup {i}
    BY <1>4, AppendIs
  <2> QED
    BY <1>1, <1>4, <2>1
<1>5. <<>> \in Seq(Nat) /\ ToSet(<<>>) = {}
  BY SetOf
<1>6. ASSUME UNCHANGED queued \/ queued' = <<>>
      PROVE  queued' \in Seq(Nat) /\ \A i \in ToSet(queued') : i \in 1 .. Len(log')
  BY <1>1, <1>2, <1>5, <1>6
<1>7. ASSUME UNCHANGED pending \/ pending' = <<>>
      PROVE  pending' \in Seq(Nat) /\ \A i \in ToSet(pending') : i \in 1 .. Len(log')
  BY <1>1, <1>2, <1>5, <1>7
<1>8. CASE (UNCHANGED queued \/ queued' = <<>>) /\ (UNCHANGED pending \/ pending' = <<>>)
  BY <1>6, <1>7, <1>8 DEF Buffered
<1>9. CASE DeliverSnapshot
  <2>1. queued' = queued \o Pending /\ pending' = <<>>
    BY <1>9 DEF DeliverSnapshot
  <2>2. Pending \in Seq(Nat) /\ \A i \in ToSet(Pending) : i \in 1 .. Len(log)
    BY <1>2, PendingIs
  <2> QED
    BY <1>3, <1>7, <2>1, <2>2 DEF Buffered
<1>10. CASE stream.backlog # <<>> /\ pending' = Append(pending, Head(stream.backlog)) /\ UNCHANGED queued
  BY <1>2, <1>4, <1>6, <1>10, BacklogHead DEF Buffered
<1>11. CASE stream.backlog # <<>> /\ queued' = Append(queued, Head(stream.backlog)) /\ UNCHANGED pending
  BY <1>2, <1>4, <1>7, <1>11, BacklogHead DEF Buffered
<1>12. ASSUME NEW r \in replays, TakeReplay(r)
       PROVE  Buffered'
  <2> DEFINE latest == IF fence = NoFence THEN r.from ELSE fence
  <2>1. queued' = queued \o InOrder(latest + 1 .. r.upTo) /\ UNCHANGED pending
    BY <1>12 DEF TakeReplay
  <2>2. /\ latest \in Nat /\ r.upTo \in Int /\ InOrder(latest + 1 .. r.upTo) \in Seq(Nat)
        /\ ToSet(InOrder(latest + 1 .. r.upTo)) = latest + 1 .. r.upTo
    BY ReplayIs
  <2>3. r.upTo <= Len(log)
    BY DEF Typed, Replayed
  <2>4. \A i \in latest + 1 .. r.upTo : i \in 1 .. Len(log)
    BY <1>1, <2>2, <2>3
  <2> QED
    BY <1>3, <1>7, <2>1, <2>2, <2>4 DEF Buffered
<1>13. CASE Flush
  BY <1>8, <1>13 DEF Flush
<1> QED
  BY <1>8, <1>9, <1>10, <1>11, <1>12, <1>13, ClientSteps

LEMMA DeltasAre ==
    ASSUME Logged, NEW m \in 0 .. Len(log)
    PROVE  /\ Deltas(m) \in SUBSET Nat /\ IsFiniteSet(Deltas(m)) /\ Cardinality(Deltas(m)) \in Nat
           /\ InOrder(Deltas(m)) \in Seq(Nat) /\ Len(InOrder(Deltas(m))) = Cardinality(Deltas(m))
           /\ ToSet(InOrder(Deltas(m))) = Deltas(m) /\ IsInjective(InOrder(Deltas(m)))
           /\ \A i \in Deltas(m) : i \in 1 .. Len(log) /\ i \in 1 .. m /\ log[i] = "delta"
           /\ \A i \in Refreshes(m) : i \in 1 .. Len(log) /\ log[i] = "refresh"
           /\ Refreshes(m) \in SUBSET Nat
<1>1. Len(log) \in Nat /\ m \in Nat /\ m <= Len(log)
  BY LenProperties DEF Logged
<1>2. IsFiniteSet(1 .. m) /\ Deltas(m) \in SUBSET (1 .. m)
  <2>1. \A a, b \in Int : IsFiniteSet(a .. b)
    BY FS_Interval
  <2> QED
    BY <1>1, <2>1 DEF Deltas
<1>3. Deltas(m) \in SUBSET Nat /\ IsFiniteSet(Deltas(m))
  BY <1>1, <1>2, FS_Subset
<1>4. \A i \in 1 .. m : i \in 1 .. Len(log) /\ i \in Nat
  BY <1>1
<1>5. InOrder(Deltas(m)) \in Seq(Nat)
  BY <1>3, InOrderIs, SeqWider
<1> QED
  BY <1>2, <1>3, <1>4, <1>5, InOrderIs DEF Deltas, Refreshes

LEMMA FlushIs ==
    ASSUME Typed, Flush
    PROVE  /\ view' = [text |-> view'.text, shown |-> view'.shown]
           /\ queued' = <<>> /\ view'.text = view.text \o Only(queued, Deltas(Len(log)))
           /\ view'.shown = view.shown \cup (ToSet(queued) \cap Refreshes(Len(log)))
           /\ ToSet(queued) \cap Deltas(Len(log)) = QueuedDeltas
           /\ ToSet(Only(queued, Deltas(Len(log)))) = QueuedDeltas
           /\ Only(queued, Deltas(Len(log))) \in Seq(Nat) /\ view.text \in Seq(Nat)
           /\ view'.text \in Seq(Nat) /\ ToSet(view'.text) = ToSet(view.text) \cup QueuedDeltas
           /\ UNCHANGED <<server, stream, fence, pending, wanted>>
<1>1. view.text \in Seq(Nat) /\ queued \in Seq(Nat) /\ \A i \in ToSet(queued) : i \in 1 .. Len(log)
  BY DEF Typed, Viewed, Buffered
<1>2. ToSet(queued) \cap Deltas(Len(log)) = QueuedDeltas
  BY <1>1 DEF Deltas, QueuedDeltas
<1>3. /\ Only(queued, Deltas(Len(log))) \in Seq(Nat)
      /\ ToSet(Only(queued, Deltas(Len(log)))) = QueuedDeltas
  BY <1>1, <1>2, OnlyIs
<1>4. /\ view' = [text |-> view'.text, shown |-> view'.shown]
      /\ queued' = <<>> /\ view'.text = view.text \o Only(queued, Deltas(Len(log)))
      /\ view'.shown = view.shown \cup (ToSet(queued) \cap Refreshes(Len(log)))
      /\ UNCHANGED <<server, stream, fence, pending, wanted>>
  BY DEF Flush
<1> QED
  BY <1>1, <1>2, <1>3, <1>4, ConcatIs

LEMMA SnapshotIs ==
    ASSUME Typed, DeliverSnapshot
    PROVE  /\ view' = [text |-> view'.text, shown |-> view'.shown]
           /\ stream.content \in 0 .. Len(log) /\ stream.due
           /\ view'.shown = Refreshes(stream.content)
           /\ \/ /\ view'.text = view.text
                 /\ Len(view.text) > Cardinality(Deltas(stream.content))
              \/ view'.text = InOrder(Deltas(stream.content))
           /\ queued' = queued \o Pending /\ pending' = <<>>
           /\ fence' = IF Pending = <<>> THEN stream.fence ELSE Last(Pending)
           /\ UNCHANGED <<server, strayed, wanted>>
<1>1. /\ view' = Merged(stream.content) /\ stream.due
      /\ queued' = queued \o Pending /\ pending' = <<>>
      /\ fence' = IF Pending = <<>> THEN stream.fence ELSE Last(Pending)
      /\ UNCHANGED <<server, strayed, wanted>>
  BY DEF DeliverSnapshot
<1>2. Len(log) \in Nat /\ stream.content \in Nat /\ stream.content <= Len(log)
  BY LenProperties DEF Typed, Logged, Streamed, Stream
<1> QED
  BY <1>1, <1>2 DEF Merged

LEMMA ViewedStep ==
    ASSUME Typed, ViewNext
    PROVE  Viewed'
<1>1. Len(log) \in Nat /\ Len(log') \in Nat /\ Len(log) <= Len(log') /\ \A i \in 1 .. Len(log) : i \in 1 .. Len(log') /\ log'[i] = log[i]
  BY LogGrows DEF Typed
<1>2. /\ view \in [text: Seq(Nat), shown: SUBSET Nat]
      /\ \A i \in ToSet(view.text) : i \in 1 .. Len(log) /\ log[i] = "delta"
      /\ \A i \in view.shown : i \in 1 .. Len(log) /\ log[i] = "refresh"
  BY DEF Typed, Viewed
<1>3. ASSUME view' = [text |-> view'.text, shown |-> view'.shown], view'.text \in Seq(Nat), view'.shown \in SUBSET Nat,
             \A i \in ToSet(view'.text) : i \in 1 .. Len(log) /\ log[i] = "delta",
             \A i \in view'.shown : i \in 1 .. Len(log) /\ log[i] = "refresh"
      PROVE  Viewed'
  BY <1>1, <1>3 DEF Viewed
<1>4. CASE UNCHANGED view
  BY <1>2, <1>3, <1>4
<1>5. CASE DeliverSnapshot
  <2>1. Logged
    BY DEF Typed
  <2>2. /\ InOrder(Deltas(stream.content)) \in Seq(Nat)
        /\ ToSet(InOrder(Deltas(stream.content))) = Deltas(stream.content)
        /\ \A i \in Deltas(stream.content) : i \in 1 .. Len(log) /\ log[i] = "delta"
        /\ \A i \in Refreshes(stream.content) : i \in 1 .. Len(log) /\ log[i] = "refresh"
        /\ Refreshes(stream.content) \in SUBSET Nat
    BY <1>5, <2>1, SnapshotIs, DeltasAre
  <2>3. /\ view' = [text |-> view'.text, shown |-> view'.shown]
        /\ view'.text = view.text \/ view'.text = InOrder(Deltas(stream.content))
        /\ view'.shown = Refreshes(stream.content)
    BY <1>5, SnapshotIs
  <2> QED
    BY <1>2, <1>3, <2>2, <2>3
<1>6. CASE Flush
  <2>1. /\ view' = [text |-> view'.text, shown |-> view'.shown] /\ view'.text \in Seq(Nat)
        /\ ToSet(view'.text) = ToSet(view.text) \cup QueuedDeltas
        /\ view'.shown = view.shown \cup (ToSet(queued) \cap Refreshes(Len(log)))
    BY <1>6, FlushIs
  <2>2. \A i \in QueuedDeltas : i \in 1 .. Len(log) /\ log[i] = "delta"
    BY DEF Typed, Buffered, QueuedDeltas
  <2>3. \A i \in Refreshes(Len(log)) : i \in Nat /\ i \in 1 .. Len(log) /\ log[i] = "refresh"
    BY <1>1 DEF Refreshes
  <2> QED
    BY <1>2, <1>3, <2>1, <2>2, <2>3
<1>7. UNCHANGED view \/ DeliverSnapshot \/ Flush
  BY ClientSteps DEF TakeReplay
<1> QED
  BY <1>4, <1>5, <1>6, <1>7

LEMMA ReplayedStep ==
    ASSUME Typed, ViewNext
    PROVE  Replayed'
<1>1. Len(log) \in Nat /\ Len(log') \in Nat /\ Len(log) <= Len(log')
  BY LogGrows DEF Typed
<1>2. /\ replays \subseteq [from: Nat, target: Nat, upTo: Int]
      /\ \A r \in replays : NoFence <= r.upTo /\ r.upTo <= Len(log)
  BY DEF Typed, Replayed
<1>3. NoFence \in Int /\ NoFence < 0
  BY DEF NoFence
<1>4. CASE replays' \subseteq replays
  BY <1>1, <1>2, <1>4 DEF Replayed
<1>5. ASSUME NEW target \in Nat, replays' = replays \cup {[from |-> fence, target |-> target, upTo |-> NoFence]}, fence # NoFence
      PROVE  Replayed'
  <2>1. fence \in Nat
    BY <1>5 DEF Typed, Fenced, NoFence
  <2> QED
    BY <1>1, <1>2, <1>3, <1>5, <2>1 DEF Replayed
<1>6. ASSUME NEW target \in Nat, CatchUp(target)
      PROVE  Replayed'
  BY <1>4, <1>5, <1>6 DEF CatchUp, AskReplay
<1>7. ASSUME NEW i \in DOMAIN log, ShellEvent(i)
      PROVE  Replayed'
  <2>1. i \in Nat /\ CatchUp(i)
    BY <1>7, LenProperties DEF ShellEvent, Typed, Logged
  <2> QED
    BY <1>6, <2>1
<1>8. CASE Poll
  <2>1. budget.events + 1 \in Nat
    BY DEF Typed, Logged, Budget
  <2> QED
    BY <1>6, <1>8, <2>1 DEF Poll
<1>9. ASSUME NEW r \in replays, AnswerReplay(r)
      PROVE  Replayed'
  <2>1. PICK upTo : upTo = IF r.target < Len(log) THEN r.target ELSE Len(log)
    OBVIOUS
  <2>2. replays' = (replays \ {r}) \cup {[r EXCEPT !.upTo = upTo]}
    BY <1>9, <2>1 DEF AnswerReplay
  <2>3. upTo \in Nat /\ upTo <= Len(log)
    BY <1>1, <1>2, <2>1
  <2>4. PICK next : next = [r EXCEPT !.upTo = upTo]
    OBVIOUS
  <2>5. next \in [from: Nat, target: Nat, upTo: Int] /\ next.upTo = upTo
    BY <1>2, <2>3, <2>4
  <2> QED
    BY <1>1, <1>2, <1>3, <2>2, <2>3, <2>4, <2>5 DEF Replayed
<1>10. \/ replays' \subseteq replays \/ (\E i \in DOMAIN log : ShellEvent(i)) \/ Poll
       \/ \E r \in replays : AnswerReplay(r)
  BY DEF ViewNext, Commit, Summarize, Publish, LiveStarts, ReadSnapshot, StreamFails, Reconnect,
     Welcome, OpenThread, CloseThread, DeliverSnapshot, DeliverEvent, Flush, TakeReplay, ReplayFails, client
<1> QED
  BY <1>4, <1>7, <1>8, <1>9, <1>10

LEMMA InitTyped ==
    ASSUME ViewAssumption, ViewInit
    PROVE  Typed
<1>1. /\ log = <<>> /\ summarized = 0 /\ published = 0 /\ stream = NoStream /\ wanted = FALSE /\ greeted = TRUE
      /\ fence = NoFence /\ pending = <<>> /\ queued = <<>> /\ view = [text |-> <<>>, shown |-> {}]
      /\ replays = {} /\ replaying = FALSE /\ shell = 0 /\ strayed = FALSE /\ budget \in Budget
  BY DEF ViewInit, ViewAssumption
<1>2. Len(<<>>) = 0 /\ <<>> \in Seq(Nat) /\ <<>> \in Seq(Kinds) /\ ToSet(<<>>) = {} /\ DOMAIN <<>> = {}
  BY SetOf
<1>3. Logged /\ Fenced /\ Buffered /\ Replayed
  <2>1. Fenced
    BY <1>1, <1>2 DEF Fenced, NoFence
  <2>2. Buffered /\ Replayed
    BY <1>1, <1>2 DEF Buffered, Replayed
  <2>3. wanted \in BOOLEAN /\ greeted \in BOOLEAN /\ replaying \in BOOLEAN /\ strayed \in BOOLEAN
    BY <1>1
  <2>4. log \in Seq(Kinds) /\ Len(log) = 0
    BY <1>1, <1>2
  <2>5. summarized \in 0 .. Len(log) /\ published \in 0 .. Len(log) /\ shell \in 0 .. published
    BY <1>1, <2>4
  <2>6. Logged
    BY <1>1, <2>3, <2>4, <2>5 DEF Logged
  <2> QED
    BY <2>1, <2>2, <2>6
<1>4. Viewed
  BY <1>1, <1>2 DEF Viewed
<1>5. Streamed
  BY <1>1, <1>2 DEF Streamed, Stream, NoStream
<1> QED
  BY <1>3, <1>4, <1>5 DEF Typed

LEMMA TypedStep ==
    ASSUME Typed, [ViewNext]_viewVars
    PROVE  Typed'
<1>1. CASE ViewNext
  BY <1>1, LoggedStep, StreamedStep, FencedStep, BufferedStep, ViewedStep, ReplayedStep DEF Typed
<1>2. CASE UNCHANGED viewVars
  <2>1. UNCHANGED <<log, summarized, published, stream, wanted, greeted, fence, pending, queued, view, replays,
                    replaying, shell, strayed, budget>>
    BY <1>2 DEF viewVars, server, client
  <2>2. Logged' /\ Fenced' /\ Buffered'
    BY <2>1 DEF Typed, Logged, Fenced, Buffered
  <2>3. Viewed' /\ Replayed'
    BY <2>1 DEF Typed, Viewed, Replayed
  <2>4. Streamed'
    BY <2>1 DEF Typed, Streamed, Delivered
  <2> QED
    BY <2>2, <2>3, <2>4 DEF Typed
<1> QED
  BY <1>1, <1>2

LEMMA TypedOK ==
    ASSUME Typed
    PROVE  ViewTypeOK
<1>1. Len(log) \in Nat /\ log \in Seq({"delta", "refresh"})
  BY LenProperties DEF Typed, Logged, Kinds
<1>2. pending \in Seq(1 .. Len(log)) /\ queued \in Seq(1 .. Len(log))
  <2>1. ToSet(pending) \subseteq 1 .. Len(log) /\ ToSet(queued) \subseteq 1 .. Len(log)
    BY DEF Typed, Buffered
  <2> QED
    BY <2>1, SetOf DEF Typed, Buffered
<1>3. view.text \in Seq(1 .. Len(log)) /\ view.shown \subseteq 1 .. Len(log)
  <2>1. view.text \in Seq(Nat) /\ ToSet(view.text) \subseteq 1 .. Len(log) /\ view.shown \subseteq 1 .. Len(log)
    BY DEF Typed, Viewed
  <2> QED
    BY <2>1, SetOf
<1>4. stream \in [open: BOOLEAN, live: BOOLEAN, backlog: Seq(Nat), read: BOOLEAN, due: BOOLEAN,
                  content: 0 .. Len(log), fence: 0 .. Len(log)]
  <2>1. stream \in Stream /\ stream.fence <= stream.content /\ stream.content <= Len(log)
    BY DEF Typed, Streamed
  <2>2. stream.content \in 0 .. Len(log) /\ stream.fence \in 0 .. Len(log)
    BY <1>1, <2>1 DEF Stream
  <2> QED
    BY <2>1, <2>2 DEF Stream
<1>5. fence \in NoFence .. Len(log)
  BY <1>1 DEF Typed, Fenced, NoFence
<1> QED
  BY <1>1, <1>2, <1>3, <1>4, <1>5 DEF ViewTypeOK, Typed, Logged

\* Every variable keeps its type: the fence never runs ahead of the log, the live buffer holds
\* events of it, and nothing is shown that the log has not.
THEOREM TypeCorrect == ViewSpec => []ViewTypeOK
<1>1. ViewInit => Typed
  BY InitTyped, ViewAssumption
<1>2. Typed /\ [ViewNext]_viewVars => Typed'
  BY TypedStep
<1>3. Typed => ViewTypeOK
  BY TypedOK
<1> QED
  BY <1>1, <1>2, <1>3, PTL DEF ViewSpec

-----------------------------------------------------------------------------------
\* The view stays straight.

LEMMA LogKept ==
    ASSUME Typed, ViewNext
    PROVE  /\ \A m \in 0 .. Len(log) : m \in 0 .. Len(log') /\ Deltas(m)' = Deltas(m)
           /\ \A i \in ToSet(queued) : log'[i] = log[i]
<1>1. Len(log) \in Nat /\ Len(log') \in Nat /\ Len(log) <= Len(log') /\ \A i \in 1 .. Len(log) : log'[i] = log[i]
  BY LogGrows DEF Typed
<1>2. ASSUME NEW m \in 0 .. Len(log)
      PROVE  m \in 0 .. Len(log') /\ Deltas(m)' = Deltas(m)
  <2>1. \A i \in 1 .. m : i \in 1 .. Len(log)
    BY <1>1
  <2> QED
    BY <1>1, <2>1 DEF Deltas
<1> QED
  BY <1>1, <1>2 DEF Typed, Buffered

LEMMA TextQuiet ==
    ASSUME Typed, ViewNext, UNCHANGED <<view, queued>>, fence' = fence \/ fence' = NoFence,
           TextStraight, QueueStraight, QueueBehind, FenceShown
    PROVE  /\ TextStraight' /\ QueueStraight' /\ QueueBehind' /\ FenceShown'
           /\ \A i : InView(i)' <=> InView(i)
<1>1. \A i : InView(i)' <=> InView(i)
  BY DEF InView
<1>2. QueuedDeltas' = QueuedDeltas
  BY LogKept DEF QueuedDeltas
<1>3. TextStraight'
  BY LogKept DEF TextStraight
<1>4. QueueStraight'
  <2>1. CASE Doomed
    BY <1>2, <2>1 DEF QueueStraight, Doomed
  <2>2. CASE ~Doomed
    <3>1. PICK m \in 0 .. Len(log) : ToSet(view.text) \cup QueuedDeltas = Deltas(m)
      BY <2>2 DEF QueueStraight
    <3>2. m \in 0 .. Len(log') /\ ToSet(view'.text) \cup QueuedDeltas' = Deltas(m)'
      BY <1>2, <3>1, LogKept
    <3>3. \A j \in DOMAIN queued : log'[queued[j]] = log[queued[j]]
      BY LogKept DEF ToSet
    <3>4. \A j, k \in DOMAIN queued' : queued'[j] = queued'[k] /\ log'[queued'[j]] = "delta" => j = k
      BY <2>2, <3>3 DEF QueueStraight
    <3> QED
      BY <3>2, <3>4 DEF QueueStraight
  <2> QED
    BY <2>1, <2>2
<1>5. QueueBehind'
  BY <1>2 DEF QueueBehind
<1>6. FenceShown'
  BY <1>1 DEF FenceShown
<1> QED
  BY <1>1, <1>3, <1>4, <1>5, <1>6

LEMMA StreamQuiet ==
    ASSUME Typed, Logged', ViewNext, ~DeliverSnapshot, fence' = fence \/ fence' = NoFence,
           \A i \in ToSet(queued') \cup ToSet(pending') :
              i \in ToSet(queued) \cup ToSet(pending) \/ stream' = NewStream,
           \A i \in Nat : InView(i) => InView(i)',
           SnapshotCovers, FenceShown, LiveShown
    PROVE  SnapshotCovers' /\ LiveShown'
<1>1. /\ stream \in Stream /\ stream.backlog \in Seq(Nat) /\ Len(stream.backlog) \in Nat
      /\ published \in Nat /\ Len(log) \in Nat /\ Len(log') \in Nat /\ Len(log) <= Len(log')
      /\ published <= Len(log) /\ summarized \in Nat
      /\ fence \in Int /\ NoFence <= fence /\ fence <= Len(log) /\ NoFence \in Int
      /\ stream.content \in Nat
  BY LogGrows, SeqIs DEF Typed, Streamed, Stream, Logged, Fenced, NoFence
<1>2. Delivered \in Int /\ Delivered <= published /\ Delivered = published - Len(stream.backlog)
  BY <1>1 DEF Delivered
<1>3. fence' \in Int /\ fence' <= fence /\ (fence' # NoFence => fence' = fence)
  BY <1>1
<1>4. ASSUME Delivered' = Delivered, stream'.due = stream.due, stream'.content = stream.content,
             stream'.live = stream.live, stream'.read = stream.read, stream'.open = stream.open, stream'.due
      PROVE  SnapshotCovers'
  <2>1. /\ fence <= stream.content /\ Delivered <= stream.content
        /\ \A i \in ToSet(queued) \cup ToSet(pending) : i <= stream.content
    BY <1>4 DEF SnapshotCovers
  <2>2. stream' # NewStream
    BY <1>4 DEF NewStream, NoStream
  <2>3. fence' <= stream.content
    BY <1>1, <1>3, <2>1
  <2> QED
    BY <1>4, <2>1, <2>2, <2>3 DEF SnapshotCovers
<1>5. ASSUME Delivered' = Delivered, stream'.due = stream.due, stream'.content = stream.content,
             stream'.live = stream.live, stream'.read = stream.read, stream'.open = stream.open
      PROVE  SnapshotCovers' /\ LiveShown'
  <2>1. SnapshotCovers'
    BY <1>4, <1>5 DEF SnapshotCovers
  <2>2. SnapshotToCome' <=> SnapshotToCome
    BY <1>5 DEF SnapshotToCome
  <2>3. \A i \in 1 .. Delivered : i \in Nat
    BY <1>2
  <2>4. LiveShown'
    BY <1>3, <1>5, <2>2, <2>3 DEF LiveShown
  <2> QED
    BY <2>1, <2>4
<1>6. CASE UNCHANGED <<stream, published>>
  BY <1>5, <1>6 DEF Delivered
<1>7. CASE stream' = NoStream \/ stream' = NewStream
  <2>1. ~stream'.due /\ ~stream'.live
    BY <1>7 DEF NoStream, NewStream
  <2> QED
    BY <2>1 DEF SnapshotCovers, LiveShown
<1>8. CASE ~stream.live /\ stream.open /\ stream' = [stream EXCEPT !.live = TRUE]
  <2>1. ~stream'.due /\ stream'.open /\ ~stream'.read
    BY <1>1, <1>8 DEF Stream, Typed, Streamed
  <2> QED
    BY <2>1 DEF SnapshotCovers, LiveShown, SnapshotToCome
<1>9. CASE ReadSnapshot /\ published' = published
  <2>0. stream.open /\ stream.live /\ ~stream.read /\ UNCHANGED <<log, queued, pending, fence>>
    BY <1>9 DEF ReadSnapshot, MayRead, server, client
  <2>1. CASE log = <<>>
    <3>1. ~stream.due /\ stream' = [stream EXCEPT !.read = TRUE]
      BY <1>9, <2>0, <2>1 DEF Typed, Streamed, ReadSnapshot
    <3>2. ~stream'.due /\ stream'.backlog = stream.backlog
      BY <1>1, <3>1 DEF Stream
    <3>3. Delivered' = Delivered
      BY <1>9, <3>2 DEF Delivered
    <3>4. Len(log) = 0
      BY <2>1
    <3>5. 1 .. Delivered = {}
      BY <1>1, <1>2, <3>4
    <3> QED
      BY <3>2, <3>3, <3>5 DEF SnapshotCovers, LiveShown
  <2>2. CASE log # <<>>
    <3>1. stream' = [stream EXCEPT !.read = TRUE, !.due = TRUE, !.content = Len(log), !.fence = summarized]
      BY <1>9, <2>2 DEF ReadSnapshot
    <3>2. stream'.due /\ stream'.backlog = stream.backlog /\ stream'.open /\ stream'.content = Len(log)
      BY <1>1, <2>0, <3>1 DEF Stream
    <3>3. Delivered' = Delivered
      BY <1>9, <3>2 DEF Delivered
    <3>4. \A i \in ToSet(queued) \cup ToSet(pending) : i <= Len(log)
      BY <1>1 DEF Typed, Buffered
    <3>5. Delivered <= Len(log)
      BY <1>1, <1>2
    <3>6. SnapshotCovers'
      BY <1>1, <2>0, <3>2, <3>3, <3>4, <3>5 DEF SnapshotCovers
    <3> QED
      BY <3>2, <3>6 DEF LiveShown, SnapshotToCome
  <2> QED
    BY <2>1, <2>2
<1>10. CASE ~stream.live /\ stream' = stream
  <2>1. ~stream.due /\ ~stream.live
    BY <1>10 DEF Typed, Streamed
  <2> QED
    BY <1>10, <2>1 DEF SnapshotCovers, LiveShown
<1>11. CASE published' = published + 1 /\ stream' = [stream EXCEPT !.backlog = Append(stream.backlog, published + 1)]
  <2>1. published + 1 \in Nat
    BY <1>1
  <2>2. Len(Append(stream.backlog, published + 1)) = Len(stream.backlog) + 1
    BY <1>1, <2>1, AppendIs
  <2>3. Delivered' = Delivered
    <3>1. stream'.backlog = Append(stream.backlog, published + 1)
      BY <1>1, <1>11 DEF Stream
    <3>2. Delivered' = (published + 1) - (Len(stream.backlog) + 1)
      BY <1>11, <2>2, <3>1 DEF Delivered
    <3> QED
      BY <1>1, <1>2, <3>2
  <2>4. /\ stream'.due = stream.due /\ stream'.content = stream.content
        /\ stream'.live = stream.live /\ stream'.read = stream.read /\ stream'.open = stream.open
    BY <1>1, <1>11 DEF Stream
  <2> QED
    BY <1>5, <2>3, <2>4
<1>12. CASE /\ DeliverEvent /\ fence # NoFence /\ stream.open /\ stream.backlog # <<>>
            /\ stream' = [stream EXCEPT !.backlog = Tail(stream.backlog)] /\ published' = published
  <2>1. Head(stream.backlog) \in Nat /\ Head(stream.backlog) = Delivered + 1 /\ Delivered \in Nat
    BY <1>12, BacklogHead
  <2>2. ~(Head(stream.backlog) > fence) /\ UNCHANGED fence
    <3>1. Head(stream.backlog) > fence => fence' = Head(stream.backlog)
      BY <1>12 DEF DeliverEvent, PastFence
    <3>2. ~(Head(stream.backlog) > fence)
      BY <1>1, <1>3, <2>1, <3>1
    <3> QED
      BY <1>12, <3>2 DEF DeliverEvent, PastFence
  <2>3. Len(Tail(stream.backlog)) = Len(stream.backlog) - 1
    BY <1>1, <1>12, HeadTailProperties
  <2>4. /\ stream'.due = stream.due /\ stream'.content = stream.content /\ stream'.backlog = Tail(stream.backlog)
        /\ stream'.live = stream.live /\ stream'.read = stream.read /\ stream'.open = stream.open
    BY <1>1, <1>12 DEF Stream
  <2>5. Delivered' = Delivered + 1
    <3>1. Delivered' = published - (Len(stream.backlog) - 1)
      BY <1>12, <2>3, <2>4 DEF Delivered
    <3> QED
      BY <1>1, <1>2, <3>1
  <2>6. Delivered' \in Nat /\ Delivered' <= fence
    BY <1>1, <2>1, <2>2, <2>5
  <2>7. LiveShown'
    <3>1. \A i \in 1 .. Delivered' : i \in 1 .. fence /\ i \in Nat
      BY <1>1, <2>6
    <3> QED
      BY <1>12, <3>1 DEF LiveShown, FenceShown
  <2>8. ASSUME stream'.due
        PROVE  SnapshotCovers'
    <3>1. /\ fence <= stream.content
          /\ \A i \in ToSet(queued) \cup ToSet(pending) : i <= stream.content
      BY <2>4, <2>8 DEF SnapshotCovers
    <3>2. stream' # NewStream
      BY <2>8 DEF NewStream, NoStream
    <3>3. Delivered' <= stream.content
      BY <1>1, <2>6, <3>1
    <3> QED
      BY <2>2, <2>4, <3>1, <3>2, <3>3 DEF SnapshotCovers
  <2> QED
    BY <2>7, <2>8 DEF SnapshotCovers
<1> QED
  BY <1>6, <1>7, <1>8, <1>9, <1>10, <1>11, <1>12, StreamSteps

LEMMA FlushStep ==
    ASSUME Typed, Logged', ViewNext, Flush, ~strayed', Straight
    PROVE  Straight'
<1>1. /\ queued' = <<>> /\ view'.text = view.text \o Only(queued, Deltas(Len(log)))
      /\ view'.shown = view.shown \cup (ToSet(queued) \cap Refreshes(Len(log)))
      /\ ToSet(queued) \cap Deltas(Len(log)) = QueuedDeltas
      /\ ToSet(Only(queued, Deltas(Len(log)))) = QueuedDeltas
      /\ Only(queued, Deltas(Len(log))) \in Seq(Nat) /\ view.text \in Seq(Nat) /\ queued \in Seq(Nat)
      /\ ToSet(view'.text) = ToSet(view.text) \cup QueuedDeltas
      /\ UNCHANGED <<log, published, stream, fence, pending>>
  BY FlushIs DEF server, Typed, Buffered
<1>2. ~Doomed
  <2>1. ~\E i \in ToSet(queued) : i \in ToSet(view.text)
    BY DEF Flush
  <2> QED
    BY <2>1 DEF Doomed, QueuedDeltas
<1>3. QueuedDeltas' = {}
  BY <1>1, SetOf DEF QueuedDeltas
<1>4. PICK m \in 0 .. Len(log) : ToSet(view.text) \cup QueuedDeltas = Deltas(m)
  BY <1>2 DEF Straight, QueueStraight
<1>5. m \in 0 .. Len(log') /\ Deltas(m)' = Deltas(m)
  BY <1>4, LogKept
<1>6. IsInjective(view'.text)
  <2> DEFINE more == Only(queued, Deltas(Len(log)))
  <2>1. \A j, k \in DOMAIN queued : queued[j] = queued[k] /\ queued[j] \in Deltas(Len(log)) => j = k
    BY <1>2 DEF Straight, QueueStraight, Deltas
  <2>2. IsInjective(more)
    BY <1>1, <2>1, OnlyIs
  <2>3. IsInjective(view.text)
    BY DEF Straight, TextStraight
  <2>4. ToSet(view.text) \cap ToSet(more) = {}
    BY <1>1, <1>2 DEF Doomed
  <2>5. more \in Seq(Nat)
    BY <1>1
  <2> HIDE DEF more
  <2>6. \A j, k \in DOMAIN (view.text \o more) : (view.text \o more)[j] = (view.text \o more)[k] =>
            \/ j = k
            \/ (\E a, b \in DOMAIN view.text : a # b /\ view.text[a] = view.text[b] /\ view.text[a] = (view.text \o more)[j])
            \/ (\E a, b \in DOMAIN more : a # b /\ more[a] = more[b] /\ more[a] = (view.text \o more)[j])
            \/ (view.text \o more)[j] \in ToSet(view.text) \cap ToSet(more)
    BY <1>1, <2>5, ConcatIs
  <2>7. IsInjective(view.text \o more)
    BY <2>2, <2>3, <2>4, <2>6 DEF IsInjective
  <2> QED
    BY <1>1, <2>7 DEF more
<1>7. TextStraight'
  BY <1>1, <1>4, <1>5, <1>6 DEF TextStraight
<1>8. QueueStraight'
  <2>1. ToSet(view'.text) \cup QueuedDeltas' = Deltas(m)'
    BY <1>1, <1>3, <1>4, <1>5
  <2>2. DOMAIN queued' = {}
    BY <1>1
  <2> QED
    BY <1>5, <2>1, <2>2 DEF QueueStraight
<1>9. QueueBehind'
  BY <1>3 DEF QueueBehind
<1>10. \A i \in Nat : InView(i) => InView(i)'
  <2>1. \A i \in ToSet(queued) : i \in Deltas(Len(log)) \/ i \in Refreshes(Len(log))
    <3>1. \A i \in ToSet(queued) : i \in 1 .. Len(log)
      BY DEF Typed, Buffered
    <3>2. \A i \in 1 .. Len(log) : log[i] \in Kinds
      BY LenProperties DEF Typed, Logged
    <3> QED
      BY <3>1, <3>2 DEF Kinds, Deltas, Refreshes
  <2> QED
    BY <1>1, <2>1 DEF InView
<1>11. FenceShown'
  <2>1. \A i \in 1 .. fence : i \in Nat
    BY DEF Typed, Fenced
  <2> QED
    BY <1>1, <1>10, <2>1 DEF Straight, FenceShown
<1>12. SnapshotCovers' /\ LiveShown'
  <2>1. ~DeliverSnapshot
    BY DEF DeliverSnapshot, Flush, Typed, Streamed, Stream
  <2>2. ToSet(queued') = {}
    BY <1>1, SetOf
  <2> QED
    BY <1>1, <1>10, <2>1, <2>2, StreamQuiet DEF Straight
<1> QED
  BY <1>7, <1>8, <1>9, <1>11, <1>12 DEF Straight

LEMMA SnapshotStep ==
    ASSUME Typed, Typed', DeliverSnapshot, Straight
    PROVE  Straight'
<1> DEFINE c == stream.content
<1>1. /\ c \in 0 .. Len(log) /\ stream.due /\ view'.shown = Refreshes(c)
      /\ \/ view'.text = view.text /\ Len(view.text) > Cardinality(Deltas(c))
         \/ view'.text = InOrder(Deltas(c))
      /\ queued' = queued \o Pending /\ pending' = <<>>
      /\ fence' = IF Pending = <<>> THEN stream.fence ELSE Last(Pending)
      /\ UNCHANGED <<log, published>>
  BY SnapshotIs DEF server
<1>2. Logged /\ Len(log) \in Nat /\ c \in Nat /\ c <= Len(log)
  BY <1>1, LenProperties DEF Typed, Logged
<1>3. \A i \in ToSet(queued) \cup ToSet(pending) : i <= c
  BY <1>1 DEF Straight, SnapshotCovers
<1>4. stream'.due = FALSE /\ stream'.backlog = stream.backlog
  BY DEF DeliverSnapshot, Typed, Streamed, Stream
<1>5. Delivered' <= c
  BY <1>1, <1>4 DEF Straight, SnapshotCovers, Delivered
<1>6. fence' <= c
  <2>1. Pending # <<>> => Last(Pending) <= c
    BY <1>3, PendingIs
  <2>2. stream.fence <= c
    BY DEF Typed, Streamed
  <2> QED
    BY <1>1, <2>1, <2>2
<1> HIDE DEF c
<1>7. PICK m \in 0 .. Len(log) : ToSet(view.text) = Deltas(m)
  BY DEF Straight, TextStraight
<1>8. TextStraight' /\ \A i \in Deltas(c) : i \in ToSet(view'.text)
  <2>1. \A n \in 0 .. Len(log) : Deltas(n)' = Deltas(n)
    BY <1>1 DEF Deltas
  <2>2. CASE view'.text = InOrder(Deltas(c))
    <3>1. IsInjective(view'.text) /\ ToSet(view'.text) = Deltas(c)
      BY <1>1, <1>2, <2>2, DeltasAre
    <3> QED
      BY <1>1, <2>1, <3>1 DEF TextStraight
  <2>3. CASE view'.text = view.text /\ Len(view.text) > Cardinality(Deltas(c))
    <3>1. Len(view.text) = Cardinality(Deltas(m))
      BY <1>7, SeqIs DEF Straight, TextStraight, Typed, Viewed
    <3>2. Cardinality(Deltas(m)) \in Nat /\ Cardinality(Deltas(c)) \in Nat /\ IsFiniteSet(Deltas(c))
      BY <1>1, <1>2, DeltasAre
    <3>3. ~(Deltas(m) \subseteq Deltas(c))
      <4>1. Deltas(m) \subseteq Deltas(c) => Cardinality(Deltas(m)) <= Cardinality(Deltas(c))
        BY <3>2, FS_Subset
      <4> QED
        BY <2>3, <3>1, <3>2, <4>1
    <3>4. Deltas(m) \subseteq Deltas(c) \/ Deltas(c) \subseteq Deltas(m)
      <4>1. 1 .. m \subseteq 1 .. c \/ 1 .. c \subseteq 1 .. m
        BY <1>1, <1>2
      <4> QED
        BY <4>1 DEF Deltas
    <3>5. TextStraight'
      BY <1>1, <2>1, <2>3 DEF Straight, TextStraight
    <3> QED
      BY <1>7, <2>3, <3>3, <3>4, <3>5
  <2> QED
    BY <1>1, <2>2, <2>3
<1>9. \A i \in QueuedDeltas' : i \in ToSet(view'.text)
  <2>1. queued \in Seq(Nat) /\ Pending \in Seq(Nat)
    BY PendingIs DEF Typed, Buffered
  <2>2. ToSet(queued') = ToSet(queued) \cup ToSet(Pending)
    BY <1>1, <2>1, ConcatIs
  <2>3. \A i \in ToSet(queued') : i \in 1 .. Len(log) /\ i <= c
    BY <1>3, <2>2, PendingIs DEF Typed, Buffered
  <2>4. \A i \in QueuedDeltas' : i \in Deltas(c)
    BY <1>1, <1>2, <2>3 DEF QueuedDeltas, Deltas
  <2> QED
    BY <1>8, <2>4
<1>10. QueueStraight'
  <2>1. CASE QueuedDeltas' = {}
    <3>1. PICK n \in 0 .. Len(log)' : ToSet(view'.text) = Deltas(n)'
      BY <1>8 DEF TextStraight
    <3>2. ToSet(view'.text) \cup QueuedDeltas' = Deltas(n)'
      BY <2>1, <3>1
    <3>3. \A j \in DOMAIN queued' : log'[queued'[j]] # "delta"
      BY <2>1 DEF QueuedDeltas, ToSet
    <3> QED
      BY <3>2, <3>3 DEF QueueStraight
  <2>2. CASE QueuedDeltas' # {}
    BY <1>9, <2>2 DEF QueueStraight, Doomed
  <2> QED
    BY <2>1, <2>2
<1>11. QueueBehind'
  BY <1>9 DEF QueueBehind
<1>12. \A i \in 1 .. c : InView(i)'
  <2>1. \A i \in 1 .. c : log[i] \in Kinds
    BY <1>2, LenProperties DEF Logged
  <2> QED
    BY <1>1, <1>8, <2>1 DEF Kinds, Deltas, Refreshes, InView
<1>13. FenceShown'
  <2>1. fence' \in Int /\ \A i \in 1 .. fence' : i \in 1 .. c
    BY <1>2, <1>6 DEF Typed, Fenced
  <2> QED
    BY <1>12, <2>1 DEF FenceShown
<1>14. LiveShown'
  <2>1. published' \in Int /\ Len(stream'.backlog) \in Nat
    BY SeqIs DEF Typed, Logged, Streamed, Stream
  <2>2. \A i \in 1 .. Delivered' : i \in 1 .. c
    BY <1>2, <1>5, <2>1 DEF Delivered
  <2> QED
    BY <1>12, <2>2 DEF LiveShown
<1>15. SnapshotCovers'
  BY <1>4 DEF SnapshotCovers
<1> QED
  BY <1>8, <1>10, <1>11, <1>13, <1>14, <1>15 DEF Straight

LEMMA GrowthStep ==
    ASSUME Typed, Logged', Straight, NEW s \in Seq(Nat), NEW base \in Nat, NEW top \in Nat,
           base < top, top <= Len(log), IsInjective(s), ToSet(s) = base + 1 .. top,
           fence # NoFence, fence <= base, \A i \in 1 .. base : InView(i),
           queued' = queued \o s, fence' = top, UNCHANGED <<view, log, published>>,
           ~stream'.due,
           \/ UNCHANGED stream
           \/ Delivered' = top
    PROVE  Straight'
<1>1. /\ queued \in Seq(Nat) /\ ToSet(queued') = ToSet(queued) \cup ToSet(s)
      /\ \A j, k \in DOMAIN queued' : queued'[j] = queued'[k] =>
            \/ j = k
            \/ (\E a, b \in DOMAIN queued : a # b /\ queued[a] = queued[b] /\ queued[a] = queued'[j])
            \/ (\E a, b \in DOMAIN s : a # b /\ s[a] = s[b] /\ s[a] = queued'[j])
            \/ queued'[j] \in ToSet(queued) \cap ToSet(s)
  BY ConcatIs DEF Typed, Buffered
<1>2. fence \in Nat /\ Len(log) \in Nat
  BY LenProperties DEF Typed, Fenced, NoFence, Logged
<1> DEFINE new == {i \in base + 1 .. top : log[i] = "delta"}
<1>3. QueuedDeltas' = QueuedDeltas \cup new
  BY <1>1 DEF QueuedDeltas
<1>4. \A n \in 0 .. Len(log) : Deltas(n)' = Deltas(n)
  BY DEF Deltas
<1>5. TextStraight'
  BY <1>4 DEF Straight, TextStraight
<1>6. QueueStraight'
  <2>1. CASE Doomed
    BY <1>3, <2>1 DEF QueueStraight, Doomed
  <2>2. CASE \E i \in new : i \in ToSet(view.text)
    BY <1>3, <2>2 DEF QueueStraight, Doomed
  <2>3. CASE ~Doomed /\ ~\E i \in new : i \in ToSet(view.text)
    <3>1. /\ \A j, k \in DOMAIN queued : queued[j] = queued[k] /\ log[queued[j]] = "delta" => j = k
          /\ \E m \in 0 .. Len(log) : ToSet(view.text) \cup QueuedDeltas = Deltas(m)
      BY <2>3 DEF Straight, QueueStraight
    <3>2. PICK m \in 0 .. Len(log) : ToSet(view.text) \cup QueuedDeltas = Deltas(m)
      BY <3>1
    <3>3. QueuedDeltas \cap new = {}
      <4>1. \A i \in QueuedDeltas : i <= fence \/ i \in ToSet(view.text)
        BY DEF Straight, QueueBehind
      <4>2. \A i \in base + 1 .. top : ~(i <= fence)
        BY <1>2
      <4> QED
        BY <2>3, <4>1, <4>2
    <3>4. ASSUME NEW j \in DOMAIN queued', NEW k \in DOMAIN queued', queued'[j] = queued'[k],
                 log[queued'[j]] = "delta"
          PROVE  j = k
      <4>1. ~\E a, b \in DOMAIN queued : a # b /\ queued[a] = queued[b] /\ queued[a] = queued'[j]
        BY <3>1, <3>4
      <4>2. ~\E a, b \in DOMAIN s : a # b /\ s[a] = s[b] /\ s[a] = queued'[j]
        BY DEF IsInjective
      <4>3. queued'[j] \notin ToSet(queued) \cap ToSet(s)
        <5>1. SUFFICES ASSUME queued'[j] \in ToSet(queued), queued'[j] \in ToSet(s)
                       PROVE  FALSE
          OBVIOUS
        <5>2. queued'[j] \in QueuedDeltas /\ queued'[j] \in new
          BY <3>4, <5>1 DEF QueuedDeltas
        <5> QED
          BY <3>3, <5>2
      <4> QED
        BY <1>1, <3>4, <4>1, <4>2, <4>3
    <3>5. Deltas(base) \subseteq Deltas(m)
      <4>1. \A i \in Deltas(base) : i \in 1 .. base /\ log[i] = "delta" /\ InView(i)
        BY DEF Deltas
      <4>2. \A i \in view.shown : log[i] = "refresh"
        BY DEF Typed, Viewed
      <4>3. \A i \in Deltas(base) : i \in ToSet(view.text) \/ i \in QueuedDeltas
        BY <4>1, <4>2 DEF InView, QueuedDeltas
      <4> QED
        BY <3>2, <4>3
    <3>6. Deltas(m) \cup new = Deltas(IF m >= top THEN m ELSE top)
      <4>1. CASE m >= top
        <5>1. \A i \in base + 1 .. top : i \in 1 .. m
          BY <1>2, <4>1
        <5>2. new \subseteq Deltas(m)
          BY <5>1 DEF Deltas
        <5> QED
          BY <4>1, <5>2
      <4>2. CASE ~(m >= top)
        <5>1. \A i \in 1 .. m : i \in 1 .. top
          BY <1>2, <4>2
        <5>2. \A i \in base + 1 .. top : i \in 1 .. top
          BY <1>2
        <5>3. \A i \in 1 .. top : i \in 1 .. base \/ i \in base + 1 .. top
          BY <1>2
        <5>4. Deltas(m) \cup new = Deltas(top)
          BY <3>5, <5>1, <5>2, <5>3 DEF Deltas
        <5> QED
          BY <4>2, <5>4
      <4> QED
        BY <4>1, <4>2
    <3>7. PICK n \in 0 .. Len(log) : n = IF m >= top THEN m ELSE top
      BY <1>2
    <3>8. ToSet(view'.text) \cup QueuedDeltas' = Deltas(n)'
      BY <1>3, <1>4, <3>2, <3>6, <3>7
    <3> QED
      BY <3>4, <3>7, <3>8 DEF QueueStraight
  <2> QED
    BY <2>1, <2>2, <2>3
<1>7. QueueBehind'
  <2>1. \A i \in new : i <= top
    OBVIOUS
  <2>2. \A i \in QueuedDeltas : i <= top \/ i \in ToSet(view.text)
    <3>1. \A i \in QueuedDeltas : i \in Nat
      BY DEF QueuedDeltas, Typed, Buffered
    <3> QED
      BY <1>2, <3>1 DEF Straight, QueueBehind
  <2> QED
    BY <1>3, <2>1, <2>2 DEF QueueBehind
<1>8. \A i : InView(i) => InView(i)'
  BY <1>1 DEF InView
<1>9. \A i \in 1 .. top : InView(i)'
  <2>1. \A i \in 1 .. top : i \in 1 .. base \/ i \in base + 1 .. top
    BY <1>2
  <2>2. \A i \in base + 1 .. top : InView(i)'
    BY <1>1 DEF InView
  <2> QED
    BY <1>8, <2>1, <2>2
<1>10. FenceShown'
  BY <1>9 DEF FenceShown
<1>11. LiveShown'
  <2>1. CASE UNCHANGED stream
    <3>1. Delivered' = Delivered /\ (SnapshotToCome' <=> SnapshotToCome) /\ stream'.live = stream.live
      BY <2>1 DEF Delivered, SnapshotToCome
    <3> QED
      BY <1>8, <3>1 DEF Straight, LiveShown
  <2>2. CASE Delivered' = top
    BY <1>9, <2>2 DEF LiveShown
  <2> QED
    BY <2>1, <2>2
<1>12. SnapshotCovers'
  BY DEF SnapshotCovers
<1> QED
  BY <1>5, <1>6, <1>7, <1>10, <1>11, <1>12 DEF Straight

LEMMA FollowingStep ==
    ASSUME Typed, Typed', Following, [ViewNext]_viewVars
    PROVE  Following'
<1>1. SUFFICES ASSUME ~strayed' PROVE Straight'
  BY DEF Following
<1>2. CASE UNCHANGED viewVars
  <2>1. UNCHANGED <<log, summarized, published, stream, fence, pending, queued, view, strayed>>
    BY <1>2 DEF viewVars, server, client
  <2>2. Straight
    BY <1>1, <2>1 DEF Following
  <2>3. \A n \in 0 .. Len(log) : Deltas(n)' = Deltas(n)
    BY <2>1 DEF Deltas
  <2>4. QueuedDeltas' = QueuedDeltas /\ Delivered' = Delivered /\ (SnapshotToCome' <=> SnapshotToCome)
    BY <2>1 DEF QueuedDeltas, Delivered, SnapshotToCome
  <2>5. TextStraight'
    BY <2>1, <2>2, <2>3 DEF Straight, TextStraight
  <2>6. QueueStraight'
    BY <2>1, <2>2, <2>3, <2>4 DEF Straight, QueueStraight, Doomed
  <2>7. QueueBehind' /\ SnapshotCovers'
    BY <2>1, <2>2, <2>4 DEF Straight, QueueBehind, SnapshotCovers
  <2>8. FenceShown' /\ LiveShown'
    BY <2>1, <2>2, <2>4 DEF Straight, FenceShown, LiveShown, InView
  <2> QED
    BY <2>5, <2>6, <2>7, <2>8 DEF Straight
<1>3. CASE ViewNext
  <2>1. ~strayed
    <3>1. ASSUME NEW r \in replays, TakeReplay(r)
          PROVE  ~strayed
      BY <1>1, <3>1 DEF TakeReplay
    <3>2. Flush => ~strayed
      BY <1>1 DEF Flush
    <3>3. DeliverSnapshot => ~strayed
      BY <1>1 DEF DeliverSnapshot
    <3> QED
      BY <1>1, <1>3, <3>1, <3>2, <3>3, ClientSteps
  <2>2. Straight /\ Logged'
    BY <2>1 DEF Following, Typed
  <2>3. CASE Flush
    BY <1>1, <1>3, <2>2, <2>3, FlushStep
  <2>4. CASE DeliverSnapshot
    BY <2>2, <2>4, SnapshotStep
  <2>5. ASSUME UNCHANGED <<view, queued>>, fence' = fence \/ fence' = NoFence, ~DeliverSnapshot,
               \A i \in ToSet(pending') : i \in ToSet(pending) \/ stream' = NewStream
        PROVE  Straight'
    <3>1. /\ TextStraight' /\ QueueStraight' /\ QueueBehind' /\ FenceShown' /\ \A i : InView(i)' <=> InView(i)
      BY <1>3, <2>2, <2>5, TextQuiet DEF Straight
    <3>2. SnapshotCovers' /\ LiveShown'
      BY <1>3, <2>2, <2>5, <3>1, StreamQuiet DEF Straight
    <3> QED
      BY <3>1, <3>2 DEF Straight
  <2>6. ASSUME ~DeliverSnapshot, UNCHANGED <<view, queued, pending, fence, strayed>>
        PROVE  Straight'
    BY <2>5, <2>6
  <2>7. ASSUME ~DeliverSnapshot, fence' = NoFence, pending' = <<>>, UNCHANGED <<view, queued, strayed>>
        PROVE  Straight'
    BY <2>5, <2>7, SetOf
  <2>8. ASSUME ~DeliverSnapshot, DeliverEvent, fence = NoFence, UNCHANGED <<view, queued, fence, strayed>>
        PROVE  Straight'
    BY <2>5, <2>8 DEF DeliverEvent
  <2>9. CASE /\ DeliverEvent /\ fence # NoFence /\ Head(stream.backlog) > fence /\ stream.backlog # <<>>
             /\ fence' = Head(stream.backlog) /\ queued' = Append(queued, Head(stream.backlog))
             /\ strayed' = (strayed \/ SnapshotToCome) /\ UNCHANGED <<view, pending>>
    <3> DEFINE i == Head(stream.backlog)
    <3>1. i \in Nat /\ i \in 1 .. Len(log) /\ i = Delivered + 1 /\ Delivered \in Nat
      BY <2>9, BacklogHead
    <3>2. ~SnapshotToCome /\ stream.open /\ UNCHANGED <<log, published>>
      BY <1>1, <2>9 DEF DeliverEvent, server
    <3>3. stream' = [stream EXCEPT !.backlog = Tail(stream.backlog)]
      BY <2>9 DEF DeliverEvent, PastFence
    <3>4. stream'.backlog = Tail(stream.backlog) /\ stream'.due = stream.due
      BY <3>3 DEF Typed, Streamed, Stream
    <3>5. Delivered' = i
      <4>1. stream.backlog \in Seq(Nat) /\ published \in Nat
        BY DEF Typed, Streamed, Stream, Logged
      <4>2. Len(stream'.backlog) = Len(stream.backlog) - 1 /\ Len(stream.backlog) \in Nat
        BY <2>9, <3>4, <4>1, HeadTailProperties, SeqIs
      <4>3. Delivered' = published - (Len(stream.backlog) - 1) /\ Delivered = published - Len(stream.backlog)
        BY <3>2, <4>2 DEF Delivered
      <4>4. PICK n \in Nat : n = Len(stream.backlog)
        BY <4>2
      <4>5. published - (n - 1) = (published - n) + 1
        BY <4>1
      <4> QED
        BY <3>1, <4>3, <4>4, <4>5
    <3>6. \A j \in 1 .. Delivered : InView(j)
      <4>1. stream.live
        BY <2>9 DEF Typed, Streamed
      <4> QED
        BY <2>2, <2>9, <3>2, <4>1 DEF Straight, LiveShown
    <3> DEFINE s == <<Head(stream.backlog)>>
    <3>7. /\ s \in Seq(Nat) /\ IsInjective(s) /\ ToSet(s) = {i} /\ queued' = queued \o s
      <4>1. queued \in Seq(Nat)
        BY DEF Typed, Buffered
      <4>2. queued' = queued \o s
        BY <2>9, <3>1, <4>1, AppendIsConcat
      <4>3. s \in Seq(Nat) /\ Len(s) = 1 /\ DOMAIN s = {1} /\ s[1] = i
        BY <3>1
      <4> QED
        BY <4>2, <4>3 DEF IsInjective, ToSet
    <3>8. ~stream'.due
      BY <3>2, <3>4 DEF SnapshotToCome
    <3>9. fence \in Int /\ fence' = i /\ fence < i
      BY <2>9, <3>1 DEF Typed, Fenced
    <3>10. PICK top \in Nat : top = i
      BY <3>1
    <3>11. PICK base \in Nat : base = Delivered
      BY <3>1
    <3> HIDE DEF i, s
    <3>12. Len(log) \in Nat
      BY LenProperties DEF Typed, Logged
    <3>13. /\ base < top /\ top <= Len(log) /\ fence <= base /\ ToSet(s) = base + 1 .. top
      <4>1. top = base + 1 /\ top <= Len(log) /\ fence <= base
        BY <3>1, <3>9, <3>10, <3>11, <3>12
      <4>2. {top} = base + 1 .. top /\ base < top
        BY <4>1
      <4> QED
        BY <3>7, <3>10, <4>1, <4>2
    <3> QED
      BY <2>2, <2>9, <3>2, <3>5, <3>6, <3>7, <3>8, <3>9, <3>10, <3>11, <3>13, GrowthStep
  <2>10. ASSUME NEW r \in replays, TakeReplay(r)
         PROVE  Straight'
    <3>1. PICK latest : latest = IF fence = NoFence THEN r.from ELSE fence
      OBVIOUS
    <3>2. PICK s : s = InOrder(latest + 1 .. r.upTo)
      OBVIOUS
    <3>3. /\ queued' = queued \o s /\ fence' = (IF s = <<>> THEN fence ELSE r.upTo)
          /\ strayed' = (strayed \/ (s # <<>> /\ (SnapshotToCome \/ fence = NoFence)))
          /\ UNCHANGED <<log, published, stream, pending, view>>
      BY <2>10, <3>1, <3>2 DEF TakeReplay, server
    <3>4. /\ latest \in Nat /\ r.upTo \in Int /\ s \in Seq(Nat) /\ IsInjective(s)
          /\ ToSet(s) = latest + 1 .. r.upTo
          /\ s # <<>> => latest < r.upTo /\ r.upTo <= Len(log)
      BY <3>1, <3>2, ReplayIs
    <3>5. CASE s = <<>>
      <4>1. queued' = queued
        BY <3>3, <3>5, ConcatEmptySeq DEF Typed, Buffered
      <4>2. ~DeliverSnapshot
        <5>1. stream \in Stream
          BY DEF Typed, Streamed
        <5> QED
          BY <3>3, <5>1 DEF DeliverSnapshot, Stream
      <4> QED
        BY <2>5, <3>3, <3>5, <4>1, <4>2
    <3>6. CASE s # <<>>
      <4>1. ~SnapshotToCome /\ fence # NoFence
        BY <1>1, <3>3, <3>6
      <4>2. latest = fence
        BY <3>1, <4>1
      <4>3. \A i \in 1 .. latest : InView(i)
        BY <2>2, <4>1, <4>2 DEF Straight, FenceShown
      <4>4. ~stream'.due
        BY <3>3, <4>1 DEF SnapshotToCome, Typed, Streamed, NoStream
      <4>5. r.upTo \in Nat /\ fence' = r.upTo /\ fence <= latest
        BY <3>3, <3>4, <3>6, <4>2
      <4> QED
        BY <2>2, <3>3, <3>4, <3>6, <4>1, <4>3, <4>4, <4>5, GrowthStep
    <3> QED
      BY <3>5, <3>6
  <2> QED
    BY <1>3, <2>3, <2>4, <2>6, <2>7, <2>8, <2>9, <2>10, ClientSteps
<1> QED
  BY <1>2, <1>3

LEMMA InitFollowing ==
    ASSUME ViewInit
    PROVE  Following
<1>1. /\ log = <<>> /\ stream = NoStream /\ fence = NoFence /\ queued = <<>>
      /\ view.text = <<>>
  BY DEF ViewInit
<1>2. Len(log) = 0 /\ ToSet(view.text) = {} /\ QueuedDeltas = {} /\ Deltas(0) = {} /\ DOMAIN queued = {}
  BY <1>1, SetOf DEF QueuedDeltas, Deltas
<1>3. TextStraight
  <2>1. 0 \in 0 .. Len(log) /\ ToSet(view.text) = Deltas(0)
    BY <1>2
  <2>2. IsInjective(view.text)
    BY <1>1 DEF IsInjective
  <2> QED
    BY <2>1, <2>2 DEF TextStraight
<1>4. QueueStraight
  <2>1. 0 \in 0 .. Len(log) /\ ToSet(view.text) \cup QueuedDeltas = Deltas(0)
    BY <1>2
  <2> QED
    BY <1>2, <2>1 DEF QueueStraight
<1>5. QueueBehind /\ SnapshotCovers /\ FenceShown /\ LiveShown
  BY <1>1 DEF QueueBehind, SnapshotCovers, FenceShown, LiveShown, NoStream
<1> QED
  BY <1>3, <1>4, <1>5 DEF Following, Straight

\* No event falls between the snapshot and the live events: whatever the fence keeps out the
\* view shows, or will when the queue is flushed, unless an event was taken ahead of a snapshot
\* that was still to come, or shown twice.
THEOREM FenceIsShown == ViewSpec => []NothingSkipped
<1>1. ViewInit => Typed /\ Following
  BY InitTyped, InitFollowing, ViewAssumption
<1>2. Typed /\ Following /\ [ViewNext]_viewVars => Typed' /\ Following'
  BY TypedStep, FollowingStep
<1>3. Following => NothingSkipped
  BY DEF Following, Straight, FenceShown, NothingSkipped
<1> QED
  BY <1>1, <1>2, <1>3, PTL DEF ViewSpec
-----------------------------------------------------------------------------------
\* The view is complete.

\* A thread that is closed has no stream; and where the snapshot left no fence the log was empty
\* when it was read, with every event since still in the live buffer.
Unwatched == ~wanted => ~stream.open
Unfenced == stream.open /\ ~SnapshotToCome /\ fence = NoFence => Delivered = 0

LEMMA UnwatchedStep ==
    ASSUME Typed, Unwatched, ViewNext
    PROVE  Unwatched'
<1>1. CASE StreamFails \/ OpenThread \/ CloseThread
  BY <1>1 DEF StreamFails, OpenThread, CloseThread, Unwatched, NoStream
<1>2. CASE stream.open /\ UNCHANGED wanted
  BY <1>2 DEF Unwatched
<1>3. CASE Reconnect
  BY <1>3 DEF Reconnect, Unwatched
<1>4. CASE UNCHANGED wanted /\ (~wanted => UNCHANGED stream)
  BY <1>4 DEF Unwatched
<1>5. CASE Publish
  <2>1. ~wanted => ~stream.live
    BY DEF Unwatched, Typed, Streamed, NoStream
  <2> QED
    BY <1>4, <1>5, <2>1 DEF Publish
<1>6. CASE LiveStarts \/ ReadSnapshot \/ Welcome \/ DeliverSnapshot \/ DeliverEvent
  BY <1>2, <1>6 DEF LiveStarts, ReadSnapshot, MayRead, Welcome, DeliverSnapshot, DeliverEvent
<1>7. CASE (\E i \in DOMAIN log : ShellEvent(i)) \/ Poll
  BY <1>4, <1>7 DEF ShellEvent, Poll, CatchUp
<1>8. CASE (\E kind \in {"delta", "refresh"} : Commit(kind)) \/ Summarize \/ Flush
  BY <1>4, <1>8 DEF Commit, Summarize, Flush
<1>9. CASE \E r \in replays : AnswerReplay(r) \/ TakeReplay(r) \/ ReplayFails(r)
  BY <1>4, <1>9 DEF AnswerReplay, TakeReplay, ReplayFails
<1> QED
  BY <1>1, <1>3, <1>5, <1>6, <1>7, <1>8, <1>9 DEF ViewNext

\* A fence once taken is given up only with the stream.
LEMMA FenceGivenUp ==
    ASSUME Typed, Unwatched, ViewNext, fence' = NoFence
    PROVE  fence = NoFence \/ stream' = NewStream \/ stream' = NoStream
<1>1. CASE UNCHANGED fence
  BY <1>1
<1>2. CASE Welcome \/ OpenThread \/ CloseThread
  BY <1>2 DEF Welcome, OpenThread, CloseThread, Begin, Unwatched
<1>3. CASE DeliverSnapshot
  <2>1. stream.fence \in Nat
    BY DEF Typed, Streamed, Stream
  <2>2. Pending # <<>> => Last(Pending) \in Nat
    <3>1. ToSet(Pending) \subseteq Nat
      BY PendingIs, SeqIs
    <3> QED
      BY <3>1, PendingIs
  <2>3. fence' \in Nat
    BY <1>3, <2>1, <2>2 DEF DeliverSnapshot
  <2> QED
    BY <2>3 DEF NoFence
<1>4. ASSUME DeliverEvent, ~UNCHANGED fence
      PROVE  FALSE
  <2>1. stream.backlog # <<>> /\ fence' = Head(stream.backlog)
    BY <1>4 DEF DeliverEvent
  <2> QED
    BY <2>1, BacklogHead DEF NoFence
<1>5. ASSUME NEW r \in replays, TakeReplay(r), ~UNCHANGED fence
      PROVE  FALSE
  BY <1>5 DEF TakeReplay
<1>6. CASE (\E kind \in {"delta", "refresh"} : Commit(kind)) \/ Summarize \/ Publish \/ LiveStarts
           \/ ReadSnapshot \/ StreamFails \/ Reconnect \/ Flush
  <2>1. UNCHANGED fence
    BY <1>6 DEF Commit, Summarize, Publish, LiveStarts, ReadSnapshot, StreamFails, Reconnect, Flush, client
  <2> QED
    BY <1>1, <2>1
<1>7. CASE (\E i \in DOMAIN log : ShellEvent(i)) \/ Poll
           \/ \E r \in replays : AnswerReplay(r) \/ ReplayFails(r)
  <2>1. UNCHANGED fence
    BY <1>7 DEF ShellEvent, Poll, AnswerReplay, ReplayFails
  <2> QED
    BY <1>1, <2>1
<1> QED
  BY <1>1, <1>2, <1>3, <1>4, <1>5, <1>6, <1>7 DEF ViewNext

LEMMA UnfencedStep ==
    ASSUME Typed, Typed', Unwatched, Unfenced, ViewNext
    PROVE  Unfenced'
<1> SUFFICES ASSUME stream'.open, ~SnapshotToCome', fence' = NoFence
             PROVE  Delivered' = 0
  BY DEF Unfenced
<1>1. stream' # NewStream /\ stream' # NoStream
  BY DEF NewStream, NoStream, SnapshotToCome
<1>2. fence = NoFence
  BY <1>1, FenceGivenUp
<1>3. stream \in Stream /\ published \in Nat /\ stream.backlog \in Seq(Nat) /\ Len(stream.backlog) \in Nat
  BY SeqIs DEF Typed, Streamed, Stream, Logged
<1>4. stream'.live /\ stream'.read /\ ~stream'.due
  BY DEF SnapshotToCome, Typed, Streamed
<1>5. CASE UNCHANGED <<stream, published>>
  BY <1>2, <1>5 DEF Unfenced, SnapshotToCome, Delivered
<1>6. CASE LiveStarts /\ ~stream.live /\ stream' = [stream EXCEPT !.live = TRUE]
  BY <1>3, <1>4, <1>6 DEF Typed, Streamed, Stream
<1>7. CASE ReadSnapshot /\ published' = published
  <2>1. log = <<>> /\ stream' = [stream EXCEPT !.read = TRUE]
    <3>1. CASE log = <<>>
      BY <1>7, <3>1 DEF ReadSnapshot
    <3>2. CASE log # <<>>
      <4>1. stream' = [stream EXCEPT !.read = TRUE, !.due = TRUE, !.content = Len(log), !.fence = summarized]
        BY <1>7, <3>2 DEF ReadSnapshot
      <4>2. stream'.due
        BY <1>3, <4>1 DEF Stream
      <4> QED
        BY <1>4, <4>2
    <3> QED
      BY <3>1, <3>2
  <2>2. published = 0 /\ Len(stream.backlog) = 0
    <3>1. Len(log) = 0
      BY <2>1
    <3>2. published = 0 /\ Len(stream.backlog) <= published
      BY <3>1 DEF Typed, Logged, Streamed
    <3> QED
      BY <1>3, <3>2
  <2>3. stream'.backlog = stream.backlog
    BY <1>3, <2>1 DEF Stream
  <2> QED
    BY <1>7, <2>2, <2>3 DEF Delivered
<1>8. CASE DeliverSnapshot
  <2>1. stream.fence \in Nat /\ (Pending # <<>> => Last(Pending) \in Nat)
    BY <1>3, PendingIs, SeqIs DEF Stream
  <2>2. fence' \in Nat
    BY <1>8, <2>1 DEF DeliverSnapshot
  <2> QED
    BY <2>2 DEF NoFence
<1>9. CASE published' = published + 1 /\ ~stream.live /\ stream' = stream
  BY <1>4, <1>9
<1>10. CASE /\ published' = published + 1 /\ stream.live
            /\ stream' = [stream EXCEPT !.backlog = Append(stream.backlog, published + 1)]
  <2>1. Len(Append(stream.backlog, published + 1)) = Len(stream.backlog) + 1
    BY <1>3, AppendIs
  <2>2. /\ stream'.backlog = Append(stream.backlog, published + 1) /\ stream'.open = stream.open
        /\ stream'.read = stream.read /\ stream'.due = stream.due
    BY <1>3, <1>10 DEF Stream
  <2>3. Delivered' = (published + 1) - (Len(stream.backlog) + 1)
    BY <1>10, <2>1, <2>2 DEF Delivered
  <2>4. published - Len(stream.backlog) = 0
    BY <1>2, <2>2 DEF Unfenced, SnapshotToCome, Delivered
  <2> QED
    BY <1>3, <2>3, <2>4
<1> QED
  BY <1>1, <1>2, <1>5, <1>6, <1>7, <1>8, <1>9, <1>10, StreamSteps

LEMMA ShowsAll ==
    ASSUME Typed, Following, Unfenced
    PROVE  ShowsAllPublished
<1> SUFFICES ASSUME ~strayed, stream.open, ~SnapshotToCome, stream.backlog = <<>>,
                    NEW i \in 1 .. published
             PROVE  InView(i)
  BY DEF ShowsAllPublished
<1>1. stream.live /\ published \in Nat
  BY DEF SnapshotToCome, Typed, Streamed, Logged
<1>2. Delivered = published
  BY <1>1 DEF Delivered
<1>3. CASE fence = NoFence
  BY <1>2, <1>3 DEF Unfenced
<1>4. CASE fence # NoFence
  BY <1>1, <1>2, <1>4 DEF Following, Straight, LiveShown
<1> QED
  BY <1>3, <1>4

\* Once the snapshot is in and the live buffer drained, the view has all that was published: of the
\* events before the snapshot, between it and the live events, or kept for want of a fence none is
\* out, however often the stream was lost, began anew or was overtaken by a replay; the snapshot
\* of a thread without events leaves nothing out either, though it leaves no fence.
THEOREM ViewIsComplete == ViewSpec => []ShowsAllPublished
<1> DEFINE Inv == Typed /\ Following /\ Unwatched /\ Unfenced
<1>1. ViewInit => Inv
  <2>1. ViewInit => Unwatched /\ Unfenced
    BY DEF ViewInit, Unwatched, Unfenced, NoStream
  <2> QED
    BY <2>1, InitTyped, InitFollowing, ViewAssumption
<1>2. Inv /\ [ViewNext]_viewVars => Inv'
  <2> SUFFICES ASSUME Inv, [ViewNext]_viewVars
               PROVE  Inv'
    OBVIOUS
  <2>1. Typed' /\ Following'
    BY TypedStep, FollowingStep
  <2>2. CASE UNCHANGED viewVars
    <3>1. UNCHANGED <<published, stream, wanted, fence>>
      BY <2>2 DEF viewVars, server, client
    <3> QED
      BY <2>1, <3>1 DEF Unwatched, Unfenced, SnapshotToCome, Delivered
  <2>3. CASE ViewNext
    BY <2>1, <2>3, UnwatchedStep, UnfencedStep
  <2> QED
    BY <2>2, <2>3
<1>3. Inv => ShowsAllPublished
  BY ShowsAll
<1> QED
  BY <1>1, <1>2, <1>3, PTL DEF ViewSpec
=============================================================================
