----------------------------- MODULE CheckpointsProofs -----------------------------
(***************************************************************************)
(* The diff of a turn is its own, a captured checkpoint stays, and the     *)
(* conversation, the rows and the workspace agree: for any number of       *)
(* turns, live diffs, reverts and steps that fail.                         *)
(***************************************************************************)
EXTENDS Checkpoints, FiniteSetTheorems, TLAPS

-----------------------------------------------------------------------------------
\* Sequences and natural numbers.

LEMMA AppendFacts ==
    ASSUME NEW S, NEW s \in Seq(S), NEW x \in S
    PROVE  /\ Append(s, x) \in Seq(S) /\ Append(s, x) # <<>>
           /\ Len(s) \in Nat /\ DOMAIN s = 1 .. Len(s)
           /\ Len(Append(s, x)) = Len(s) + 1
           /\ DOMAIN Append(s, x) = 1 .. (Len(s) + 1)
           /\ \A i \in 1 .. Len(s) : Append(s, x)[i] = s[i]
           /\ Append(s, x)[Len(s) + 1] = x
OBVIOUS

LEMMA TailFacts ==
    ASSUME NEW S, NEW s \in Seq(S), s # <<>>
    PROVE  /\ Tail(s) \in Seq(S) /\ Head(s) \in S /\ Head(s) = s[1]
           /\ Len(s) \in Nat \ {0} /\ DOMAIN s = 1 .. Len(s) /\ 1 \in DOMAIN s
           /\ Len(Tail(s)) = Len(s) - 1 /\ DOMAIN Tail(s) = 1 .. (Len(s) - 1)
           /\ \A i \in 1 .. (Len(s) - 1) : i + 1 \in 1 .. Len(s) /\ Tail(s)[i] = s[i + 1]
OBVIOUS

\* Induction, as the least element of a set of natural numbers.
LEMMA Least ==
    ASSUME NEW S, S \subseteq Nat, S # {}
    PROVE  \E n \in S : \A m \in S : n <= m
<1> DEFINE R == OpToRel(<, Nat)
<1>1. IsWellFoundedOn(R, Nat)
  BY NatLessThanWellFounded
<1>2. \A x, y \in Nat : x < y => <<x, y>> \in R
  BY DEF OpToRel
<1> HIDE DEF R
<1>3. PICK n \in S : \A m \in S : ~ (<<m, n>> \in R)
  BY <1>1, WFMin
<1>4. ASSUME NEW m \in S
      PROVE  n <= m
  <2>1. n \in Nat /\ m \in Nat
    OBVIOUS
  <2>2. ~(m < n)
    BY <1>2, <1>3, <2>1
  <2> QED
    BY <2>1, <2>2
<1> QED
  BY <1>4

\* A function on finitely many numbers is bounded.
LEMMA Bounded ==
    ASSUME NEW n \in Nat, NEW f \in [1 .. n -> Nat]
    PROVE  \E b \in Nat : \A i \in 1 .. n : f[i] <= b
<1> DEFINE Has(k) == \E b \in Nat : \A i \in 1 .. k : f[i] <= b
           Bad == {k \in 0 .. n : ~Has(k)}
<1>1. Has(0)
  <2>1. 0 \in Nat /\ \A i \in 1 .. 0 : f[i] <= 0
    OBVIOUS
  <2> QED
    BY <2>1
<1>2. ASSUME NEW k \in 1 .. n, Has(k - 1)
      PROVE  Has(k)
  <2>1. PICK b \in Nat : \A i \in 1 .. (k - 1) : f[i] <= b
    BY <1>2
  <2>2. f[k] \in Nat
    OBVIOUS
  <2>3. ASSUME NEW i \in 1 .. k
        PROVE  f[i] <= b + f[k]
    <3>1. i \in 1 .. (k - 1) \/ i = k
      OBVIOUS
    <3>2. f[i] \in Nat
      OBVIOUS
    <3> QED
      BY <2>1, <2>2, <3>1, <3>2
  <2>4. b + f[k] \in Nat
    BY <2>2
  <2> QED
    BY <2>3, <2>4
<1> HIDE DEF Has
<1>3. Bad = {}
  <2> SUFFICES ASSUME Bad # {}
               PROVE  FALSE
    OBVIOUS
  <2>1. Bad \subseteq Nat /\ \A k \in Bad : k \in 0 .. n /\ ~Has(k)
    OBVIOUS
  <2>2. \A k \in 0 .. n : k \notin Bad => Has(k)
    OBVIOUS
  <2> HIDE DEF Bad
  <2>3. PICK k \in Bad : \A m \in Bad : k <= m
    BY <2>1, Least
  <2>4. k \in 1 .. n /\ k - 1 \in 0 .. n /\ ~(k <= k - 1)
    BY <1>1, <2>1
  <2> QED
    BY <1>2, <2>1, <2>2, <2>3, <2>4
<1>4. n \in 0 .. n
  OBVIOUS
<1> QED
  BY <1>3, <1>4 DEF Has

LEMMA TurnsAre == \E n \in Nat : Turns = 1 .. n
BY CheckpointsAssumption, FS_CardinalityType

\* MaxTurnCount is the largest count of these turns, 0 without one.
LEMMA MaxIs ==
    ASSUME NEW turns \in SUBSET Turns, rows \in [Turns -> Row]
    PROVE  /\ MaxTurnCount(turns) \in Nat
           /\ \A t \in turns : rows[t].count <= MaxTurnCount(turns)
           /\ MaxTurnCount(turns) # 0 => \E t \in turns : rows[t].count = MaxTurnCount(turns)
<1> DEFINE f == [t \in Turns |-> rows[t].count]
           counts == {rows[t].count : t \in turns} \cup {0}
           Upper == {b \in Nat : \A t \in turns : rows[t].count <= b}
<1>1. PICK n \in Nat : Turns = 1 .. n
  BY TurnsAre
<1>2. f \in [1 .. n -> Nat] /\ \A t \in turns : rows[t].count \in Nat
  BY <1>1 DEF Row
<1>3. PICK b \in Nat : \A t \in Turns : f[t] <= b
  BY <1>1, <1>2, Bounded
<1>4. b \in Upper
  BY <1>3
<1>5. PICK m \in Upper : \A k \in Upper : m <= k
  <2>1. Upper \subseteq Nat /\ Upper # {}
    BY <1>4
  <2> HIDE DEF Upper
  <2> QED
    BY <2>1, Least
<1>6. m \in counts
  <2> SUFFICES ASSUME m \notin counts
               PROVE  FALSE
    OBVIOUS
  <2>1. m # 0 /\ \A t \in turns : rows[t].count # m
    OBVIOUS
  <2>2. m - 1 \in Upper
    BY <1>2, <2>1
  <2> QED
    BY <1>5, <2>2
<1>7. m \in counts /\ \A t \in turns : rows[t].count <= m
  BY <1>6
<1>8. /\ MaxTurnCount(turns) \in counts
      /\ \A t \in turns : rows[t].count <= MaxTurnCount(turns)
  <2> HIDE DEF counts
  <2>1. MaxTurnCount(turns) = CHOOSE k \in counts : \A t \in turns : rows[t].count <= k
    BY DEF MaxTurnCount, counts
  <2> QED
    BY <1>7, <2>1
<1> QED
  BY <1>2, <1>8

-----------------------------------------------------------------------------------
\* Types.

Reverting == {"restoring", "rolling", "deleting", "completing"}
Capturing == {"capturing", "captured"}
Places == {"idle", "backup", "baseline"} \cup Capturing \cup Reverting
RuntimeInput == [kind: {"started", "diff", "completed"}, n: Turns, ready: BOOLEAN]
ReactorInput == [kind: {"message", "start", "started", "completed", "revert"}, n: Nat,
                 ready: BOOLEAN]

Provider == [at: {"idle", "asked", "hooked", "running"}, turn: Turns \cup {0}, thread: Seq(Turns),
             diffs: Nat]
Worker == [at: Places, n: Nat, max: Nat, ready: BOOLEAN, files: Trees, stale: SUBSET Nat]
Live == [turn: Turns \cup {0}, count: Nat]

Repo == disk \in Trees /\ \A r \in DOMAIN refs : refs[r] \in Trees
Provided == provider \in Provider /\ (provider.at # "idle" => provider.turn \in Turns)
Rowed == rows \in [Turns -> Row]
Ingesting == active \in Turns \cup {0} /\ tracked \in [Turns -> Nat] /\ ingest \in Seq(RuntimeInput)
Lived ==
    /\ live \in Live
    /\ live # NoLive =>
          /\ live.turn \in Turns /\ live.count > 0
          /\ ingest # <<>> /\ Head(ingest).kind = "diff" /\ Head(ingest).n = live.turn
Inboxed ==
    /\ inbox \in Seq(ReactorInput)
    /\ \A i \in DOMAIN inbox : inbox[i].kind # "revert" => inbox[i].n \in Turns
Worked ==
    /\ work \in Worker
    /\ work.at = "idle" => work = Rest
    /\ work.at \notin Reverting \cup {"idle"} => work.n \in Turns
    /\ work.at \in Reverting => work.n <= work.max
Kept == edited \subseteq Turns /\ plan \in Plan

Typed == Repo /\ Provided /\ Rowed /\ Ingesting /\ Lived /\ Inboxed /\ Worked /\ Kept

LEMMA TypedOK == Typed => CheckpointsTypeOK
BY DEF Typed, Repo, Provided, Rowed, Ingesting, Kept, Provider, CheckpointsTypeOK

LEMMA InitTyped == CheckpointsInit => Typed
BY CheckpointsAssumption DEF CheckpointsInit, Typed, Repo, Provided, Rowed, Ingesting, Lived, Inboxed, Worked, Kept,
   Trees, Row, NoRow, NoLive, Rest, Provider, Worker,
   Live, Places, Capturing, Reverting, Plan

LEMMA SameTypes == Typed /\ UNCHANGED checkpointVars => Typed'
BY DEF checkpointVars, repository, ingestion, reactor, history,
   Typed, Repo, Provided, Rowed, Ingesting, Lived, Inboxed, Worked, Kept
LEMMA TurnFacts ==
    /\ Turns \subseteq Nat \ {0} /\ 0 \notin Turns
    /\ \A t, u \in Turns \cup {0} : t \in Nat /\ (t + 1 <= u => t + 1 \in Turns)
BY TurnsAre

LEMMA InboxJoined ==
    ASSUME Typed, NEW e \in ReactorInput, e.kind # "revert" => e.n \in Turns, inbox' = Append(inbox, e)
    PROVE  Inboxed'
BY AppendFacts DEF Typed, Inboxed

LEMMA InboxTaken ==
    ASSUME Typed, NEW kind, Takes(kind), inbox' = Tail(inbox)
    PROVE  /\ Inboxed'
           /\ Head(inbox) \in ReactorInput /\ Head(inbox).kind = kind
           /\ kind # "revert" => Head(inbox).n \in Turns
           /\ Head(inbox).n \in Nat /\ work = Rest
<1>1. inbox # <<>> /\ inbox \in Seq(ReactorInput) /\ Head(inbox).kind = kind /\ work = Rest
  BY DEF Typed, Inboxed, Takes
<1>2. \A i \in DOMAIN inbox : inbox[i].kind # "revert" => inbox[i].n \in Turns
  BY DEF Typed, Inboxed
<1>3. /\ Tail(inbox) \in Seq(ReactorInput) /\ Head(inbox) \in ReactorInput /\ Head(inbox) = inbox[1]
      /\ Len(inbox) \in Nat \ {0} /\ DOMAIN inbox = 1 .. Len(inbox) /\ 1 \in DOMAIN inbox
      /\ Len(Tail(inbox)) = Len(inbox) - 1 /\ DOMAIN Tail(inbox) = 1 .. (Len(inbox) - 1)
      /\ \A i \in 1 .. (Len(inbox) - 1) : i + 1 \in 1 .. Len(inbox) /\ Tail(inbox)[i] = inbox[i + 1]
  BY <1>1, TailFacts
<1>4. Head(inbox).n \in Nat
  BY <1>3 DEF ReactorInput
<1>5. Inboxed'
  BY <1>2, <1>3 DEF Inboxed
<1> QED
  BY <1>1, <1>2, <1>3, <1>4, <1>5

LEMMA IngestTaken ==
    ASSUME Typed, NEW kind, NextIs(kind)
    PROVE  /\ ingest \in Seq(RuntimeInput) /\ ingest # <<>>
           /\ Tail(ingest) \in Seq(RuntimeInput) /\ Head(ingest) \in RuntimeInput
           /\ Head(ingest).n \in Turns /\ Head(ingest).kind = kind
<1>1. ingest # <<>> /\ ingest \in Seq(RuntimeInput) /\ Head(ingest).kind = kind
  BY DEF Typed, Ingesting, NextIs
<1>2. Tail(ingest) \in Seq(RuntimeInput) /\ Head(ingest) \in RuntimeInput
  BY <1>1, TailFacts
<1> QED
  BY <1>1, <1>2 DEF RuntimeInput

LEMMA CapturesTyped ==
    ASSUME Typed, NEW name, NEW tree \in Trees, refs' = WithRef(name, tree)
    PROVE  \A r \in DOMAIN refs' : refs'[r] \in Trees
BY DEF Typed, Repo, WithRef

LEMMA RowsTyped ==
    ASSUME Typed, NEW t, NEW kind \in {"diff", "real"}, NEW count \in Nat, NEW ready \in BOOLEAN,
           NEW files \in Trees, DiffCompleted(t, kind, count, ready, files)
    PROVE  rows' \in [Turns -> Row]
<1>1. \A u \in Turns : rows[u] \in Row
  BY DEF Typed, Rowed
<1>2. {} \in Trees
  BY DEF Trees
<1>3. \A u \in Turns : Cleared(rows[u], count) \in Row
  BY <1>1, <1>2 DEF Cleared, Row
<1>4. \A u \in Turns : [kind |-> kind, count |-> count, ready |-> ready, files |-> files,
                        closed |-> rows[u].closed \/ kind = "real"] \in Row
  BY <1>1 DEF Row
<1>5. \A u \in Turns : u = t => [kind |-> kind, count |-> count, ready |-> ready, files |-> files,
                                 closed |-> rows[t].closed \/ kind = "real"] \in Row
  BY <1>4
<1> QED
  BY <1>3, <1>5 DEF DiffCompleted

LEMMA VisibleTurns == Visible \in SUBSET Turns
BY DEF Visible

LEMMA MaxTyped == Typed => MaxTurnCount(Visible) \in Nat
BY VisibleTurns, MaxIs DEF Typed, Rowed

\* A component of the state that a step leaves alone keeps its type.
LEMMA SameRepo == Typed /\ UNCHANGED <<disk, refs>> => Repo'
BY DEF Typed, Repo
LEMMA SameProvider == Typed /\ UNCHANGED provider => Provided'
BY DEF Typed, Provided
LEMMA SameRows == Typed /\ UNCHANGED rows => Rowed'
BY DEF Typed, Rowed
LEMMA SameIngest == Typed /\ UNCHANGED <<active, tracked, ingest>> => Ingesting'
BY DEF Typed, Ingesting
LEMMA SameLive == Typed /\ UNCHANGED <<live, ingest>> => Lived'
BY DEF Typed, Lived
LEMMA SameInbox == Typed /\ UNCHANGED inbox => Inboxed'
BY DEF Typed, Inboxed
LEMMA SameWork == Typed /\ UNCHANGED work => Worked'
BY DEF Typed, Worked
LEMMA SameRest == Typed /\ edited' = edited /\ (plan' = plan \/ Fault) => Kept'
BY DEF Typed, Kept, Fault, Plan

\* What ingestion is at stays the first of its inputs.
LEMMA LiveJoined ==
    ASSUME Typed, UNCHANGED live, NEW e \in RuntimeInput, ingest' = Append(ingest, e)
    PROVE  Lived'
<1>1. ingest \in Seq(RuntimeInput)
  BY DEF Typed, Ingesting
<1>2. ingest # <<>> => Head(ingest') = Head(ingest) /\ ingest' # <<>>
  BY <1>1
<1> QED
  BY <1>2 DEF Typed, Lived

LEMMA LiveAtDiff == Typed /\ live # NoLive => NextIs("diff")
BY DEF Typed, Lived, NextIs

LEMMA InputTyped ==
    /\ \A kind \in {"message", "start", "started", "completed", "revert"}, n \in Nat :
          Input(kind, n) \in ReactorInput /\ Input(kind, n).kind = kind /\ Input(kind, n).n = n
    /\ \A kind \in {"started", "diff", "completed"}, t \in Turns :
          Input(kind, t) \in RuntimeInput /\ Input(kind, t).kind = kind /\ Input(kind, t).n = t
BY DEF Input, ReactorInput, RuntimeInput

LEMMA UserTyped ==
    ASSUME Typed, \/ UserEdits \/ AskTurn \/ CaptureMessageStart \/ CaptureMessageStartFails
                  \/ EditFiles \/ RequestRevert
    PROVE  Typed'
<1>1. CASE UserEdits
  <2>1. Repo'
    BY <1>1 DEF UserEdits, Typed, Repo, Trees
  <2>2. Kept'
    BY <1>1 DEF UserEdits, Typed, Kept, Plan
  <2> QED
    BY <1>1, <2>1, <2>2, SameProvider, SameRows, SameIngest, SameLive, SameInbox, SameWork
       DEF UserEdits, Typed, ingestion, reactor
<1>2. CASE AskTurn
  <2> DEFINE t == provider.turn + 1
  <2>1. /\ t \in Turns /\ provider' = [provider EXCEPT !.at = "asked", !.turn = t, !.diffs = 0]
        /\ inbox' = inbox \o <<Input("message", t), Input("start", t)>>
        /\ UNCHANGED <<disk, refs, rows, active, tracked, ingest, live, work, edited, plan>>
    <3>1. provider.turn \in Turns \cup {0} /\ plan.turns \in Turns \cup {0}
      BY DEF Typed, Provided, Provider, Kept, Plan
    <3> QED
      BY <1>2, <3>1, TurnFacts DEF AskTurn, repository, ingestion, history
  <2>2. Provided'
    BY <2>1 DEF Typed, Provided, Provider
  <2>3. Inboxed'
    <3>1. Input("message", t) \in ReactorInput /\ Input("start", t) \in ReactorInput
      BY <2>1, TurnFacts, InputTyped
    <3>2. inbox \in Seq(ReactorInput)
      BY DEF Typed, Inboxed
    <3>3. inbox' = Append(Append(inbox, Input("message", t)), Input("start", t))
      BY <2>1, <3>1, <3>2
    <3> HIDE DEF t
    <3>4. inbox' \in Seq(ReactorInput)
      BY <3>1, <3>2, <3>3
    <3>5. \A i \in DOMAIN inbox' : (i \in DOMAIN inbox /\ inbox'[i] = inbox[i]) \/ inbox'[i].n = t
      BY <3>1, <3>2, <3>3 DEF Input
    <3> QED
      BY <2>1, <3>4, <3>5 DEF Typed, Inboxed
  <2> QED
    BY <2>1, <2>2, <2>3, SameRepo, SameRows, SameIngest, SameLive, SameWork, SameRest DEF Typed
<1>3. CASE CaptureMessageStart
  <2>1. Repo'
    BY <1>3, CapturesTyped DEF CaptureMessageStart, Capture, Typed, Repo
  <2>2. Provided'
    BY <1>3 DEF CaptureMessageStart, Typed, Provided, Provider
  <2> QED
    BY <1>3, <2>1, <2>2, SameRows, SameIngest, SameLive, SameInbox, SameWork, SameRest
       DEF CaptureMessageStart, Typed, ingestion, reactor, history
<1>4. CASE CaptureMessageStartFails
  <2>1. Provided'
    BY <1>4 DEF CaptureMessageStartFails, Typed, Provided, Provider
  <2> QED
    BY <1>4, <2>1, SameRepo, SameRows, SameIngest, SameLive, SameInbox, SameWork, SameRest
       DEF CaptureMessageStartFails, Typed, repository, ingestion, reactor
<1>5. CASE EditFiles
  <2>1. provider.turn \in Turns
    BY <1>5 DEF EditFiles, Typed, Provided
  <2>2. Repo' /\ Kept'
    BY <1>5, <2>1 DEF EditFiles, Typed, Repo, Kept, Trees
  <2> QED
    BY <1>5, <2>2, SameProvider, SameRows, SameIngest, SameLive, SameInbox, SameWork
       DEF EditFiles, Typed, ingestion, reactor
<1>6. CASE RequestRevert
  <2>1. PICK t \in Visible : inbox' = Append(inbox, Input("revert", rows[t].count - 1))
    BY <1>6 DEF RequestRevert
  <2>2. rows[t].count - 1 \in Nat
    BY <2>1 DEF Visible, Typed, Rowed, Row
  <2>3. Inboxed'
    BY <2>1, <2>2, InboxJoined, InputTyped
  <2>4. Kept'
    BY <1>6 DEF RequestRevert, history, Typed, Kept, Plan
  <2> QED
    BY <1>6, <2>3, <2>4, SameRepo, SameProvider, SameRows, SameIngest, SameLive, SameWork
       DEF RequestRevert, Typed, repository, ingestion
<1> QED
  BY <1>1, <1>2, <1>3, <1>4, <1>5, <1>6

LEMMA TurnTyped ==
    ASSUME Typed, SendTurn \/ UpdateDiff \/ EndTurn
    PROVE  Typed'
<1>1. /\ UNCHANGED <<disk, refs, rows, active, tracked, live, work, edited, plan>>
      /\ provider.turn \in Turns /\ provider.turn \in Nat
      /\ ingest \in Seq(RuntimeInput)
  <2>1. UNCHANGED <<disk, refs, rows, active, tracked, live, work, edited, plan>>
    BY DEF SendTurn, UpdateDiff, EndTurn, repository, history, reactor
  <2>2. provider.at # "idle"
    BY DEF SendTurn, UpdateDiff, EndTurn
  <2> QED
    BY <2>1, <2>2, TurnFacts DEF Typed, Provided, Ingesting
<1>2. Provided' /\ ingest' \in Seq(RuntimeInput) /\ Inboxed' /\ Lived'
  <2>1. CASE SendTurn
    <3>1. Input("started", provider.turn) \in ReactorInput \cap RuntimeInput
          /\ Input("started", provider.turn).n \in Turns
      BY <1>1, InputTyped
    <3>2. Append(provider.thread, provider.turn) \in Seq(Turns)
      BY <1>1, AppendFacts DEF Typed, Provided, Provider
    <3>3. Provided'
      BY <2>1, <3>2 DEF SendTurn, Typed, Provided, Provider
    <3> QED
      BY <1>1, <2>1, <3>1, <3>3, AppendFacts, InboxJoined, LiveJoined DEF SendTurn
  <2>2. CASE UpdateDiff
    <3>1. Input("diff", provider.turn) \in RuntimeInput
      BY <1>1, InputTyped
    <3>2. Provided'
      BY <2>2 DEF UpdateDiff, Typed, Provided, Provider
    <3> QED
      BY <1>1, <2>2, <3>1, <3>2, AppendFacts, SameInbox, LiveJoined DEF UpdateDiff, reactor
  <2>3. CASE EndTurn
    <3>1. PICK ready \in BOOLEAN :
             LET end == [Input("completed", provider.turn) EXCEPT !.ready = ready]
             IN  inbox' = Append(inbox, end) /\ ingest' = Append(ingest, end)
      BY <2>3 DEF EndTurn, Typed, Kept, Plan
    <3> DEFINE end == [Input("completed", provider.turn) EXCEPT !.ready = ready]
    <3>2. end \in ReactorInput \cap RuntimeInput /\ end.n \in Turns
      BY <1>1 DEF Input, ReactorInput, RuntimeInput
    <3>3. inbox' = Append(inbox, end) /\ ingest' = Append(ingest, end)
      BY <3>1
    <3> HIDE DEF end
    <3>4. Provided'
      BY <2>3 DEF EndTurn, Typed, Provided, Provider
    <3> QED
      BY <1>1, <3>2, <3>3, <3>4, AppendFacts, InboxJoined, LiveJoined
  <2> QED
    BY <2>1, <2>2, <2>3
<1>3. Ingesting'
  BY <1>1, <1>2 DEF Typed, Ingesting
<1> QED
  BY <1>1, <1>2, <1>3, SameRepo, SameRows, SameWork, SameRest DEF Typed

LEMMA IngestionTyped ==
    ASSUME Typed, IngestStarted \/ IngestCompleted \/ ReadDiff \/ DispatchPlaceholder
    PROVE  Typed'
<1>1. CASE IngestStarted
  <2>1. /\ Head(ingest).n \in Turns /\ Tail(ingest) \in Seq(RuntimeInput)
    BY <1>1, IngestTaken DEF IngestStarted
  <2>2. Rowed' /\ Ingesting'
    BY <1>1, <2>1 DEF IngestStarted, Typed, Rowed, Row, Ingesting
  <2>3. Lived'
    BY <1>1, LiveAtDiff DEF IngestStarted, NextIs, Typed, Lived
  <2> QED
    BY <1>1, <2>2, <2>3, SameRepo, SameProvider, SameInbox, SameWork, SameRest
       DEF IngestStarted, Typed, repository, reactor, history
<1>2. CASE IngestCompleted
  <2>1. /\ Head(ingest).n \in Turns /\ Tail(ingest) \in Seq(RuntimeInput)
    BY <1>2, IngestTaken DEF IngestCompleted
  <2>2. Rowed'
    BY <1>2 DEF IngestCompleted, Typed, Rowed, Row
  <2>3. Ingesting'
    BY <1>2, <2>1 DEF IngestCompleted, Typed, Ingesting
  <2>4. Lived'
    BY <1>2, LiveAtDiff DEF IngestCompleted, NextIs, Typed, Lived
  <2> QED
    BY <1>2, <2>2, <2>3, <2>4, SameRepo, SameProvider, SameInbox, SameWork, SameRest
       DEF IngestCompleted, Typed, repository, reactor, history
<1>3. CASE ReadDiff
  <2> DEFINE t == Head(ingest).n
  <2>1. /\ t \in Turns /\ Tail(ingest) \in Seq(RuntimeInput)
    BY <1>3, IngestTaken DEF ReadDiff
  <2>2. PlaceholderCount(t) \in Nat \ {0}
    <3>1. tracked[t] \in Nat /\ rows[t].count \in Nat /\ (t \in Visible => rows[t].count # 0)
      BY <2>1 DEF Typed, Ingesting, Rowed, Row, Visible
    <3>2. MaxTurnCount(Visible) + 1 \in Nat \ {0}
      BY MaxTyped
    <3> QED
      BY <3>1, <3>2 DEF PlaceholderCount
  <2>3. /\ \/ live' = live /\ live = NoLive /\ ingest' = Tail(ingest)
           \/ live' = [turn |-> t, count |-> PlaceholderCount(t)] /\ ingest' = ingest
        /\ tracked' = tracked \/ tracked' = [tracked EXCEPT ![t] = 0]
        /\ UNCHANGED <<disk, refs, provider, rows, active, inbox, work, edited, plan>>
    BY <1>3 DEF ReadDiff, repository, reactor
  <2>4. Lived'
    <3>1. CASE live' = NoLive
      BY <3>1 DEF Lived, Live, NoLive
    <3>2. CASE live' = [turn |-> t, count |-> PlaceholderCount(t)] /\ ingest' = ingest
      <4>1. NextIs("diff")
        BY <1>3 DEF ReadDiff
      <4> QED
        BY <2>1, <2>2, <3>2, <4>1 DEF NextIs, Lived, Live
    <3> QED
      BY <2>3, <3>1, <3>2
  <2>5. Ingesting'
    <3> HIDE DEF t
    <3>1. /\ tracked \in [Turns -> Nat] /\ ingest \in Seq(RuntimeInput) /\ active \in Turns \cup {0}
      BY DEF Typed, Ingesting
    <3>2. tracked' \in [Turns -> Nat]
      BY <2>1, <2>3, <3>1
    <3>3. ingest' \in Seq(RuntimeInput)
      BY <2>1, <2>3, <3>1
    <3> QED
      BY <2>3, <3>1, <3>2, <3>3 DEF Ingesting
  <2> QED
    BY <2>3, <2>4, <2>5, SameRepo, SameProvider, SameRows, SameInbox, SameWork, SameRest DEF Typed
<1>4. CASE DispatchPlaceholder
  <2>1. live.turn \in Turns /\ live.count \in Nat
    BY <1>4 DEF DispatchPlaceholder, Typed, Lived, Live
  <2>2. Rowed'
    <3>1. DiffCompleted(live.turn, "diff", live.count, FALSE, {}) /\ {} \in Trees
      BY <1>4 DEF DispatchPlaceholder, Trees
    <3>2. "diff" \in {"diff", "real"} /\ FALSE \in BOOLEAN
      OBVIOUS
    <3>3. rows' \in [Turns -> Row]
      BY <2>1, <3>1, <3>2, RowsTyped
    <3> QED
      BY <3>3 DEF Rowed
  <2>3. Lived'
    BY <1>4 DEF DispatchPlaceholder, Lived, Live, NoLive
  <2>4. ingest' \in Seq(RuntimeInput)
    <3>1. ingest \in Seq(RuntimeInput) /\ ingest' = Tail(ingest) /\ ingest # <<>>
      BY <1>4, LiveAtDiff DEF DispatchPlaceholder, Typed, Ingesting, NextIs
    <3> QED
      BY <3>1, TailFacts
  <2>5. Ingesting'
    BY <1>4, <2>1, <2>4 DEF DispatchPlaceholder, Typed, Ingesting
  <2> QED
    BY <1>4, <2>2, <2>3, <2>5, SameRepo, SameProvider, SameInbox, SameWork, SameRest
       DEF DispatchPlaceholder, Typed, repository, reactor, history
<1> QED
  BY <1>1, <1>2, <1>3, <1>4
LEMMA ContinueTyped ==
    ASSUME Typed, NEW place \in {"baseline", "backup", "restoring"}, NEW n \in Nat,
           place # "restoring" => n \in Turns
    PROVE  /\ Continue(place, n) \in Worker
           /\ Continue(place, n).at = place /\ Continue(place, n).n = n
           /\ Continue(place, n).max = MaxTurnCount(Visible)
BY MaxTyped DEF Continue, Rest, Worker, Places, Capturing, Reverting, Trees

LEMMA AtWork ==
    ASSUME Typed, NEW place \in Places \ {"idle"}, At(place)
    PROVE  /\ work \in Worker /\ work.at = place /\ work.n \in Nat /\ work.max \in Nat
           /\ place \notin Reverting => work.n \in Turns
           /\ place \in Reverting => work.n <= work.max
BY DEF Typed, Worked, At, Worker, Places, Capturing, Reverting

LEMMA GoesTyped ==
    ASSUME Typed, NEW place \in Places \ {"idle"}, Goes(place),
           IF place \in Reverting THEN work.n <= work.max ELSE work.n \in Turns
    PROVE  Worked'
BY DEF Goes, Typed, Worked, Worker

LEMMA RestTyped == work' = Rest => Worked'
BY DEF Worked, Rest, Worker, Places, Capturing, Reverting, Trees

LEMMA BaselineTyped ==
    ASSUME Typed, TakeMessage \/ TakeStart \/ CaptureBackup \/ TakeStarted \/ EnsureBaseline
    PROVE  Typed'
<1>1. UNCHANGED <<disk, provider, rows, active, ingest, live, tracked, edited, plan>>
  BY DEF TakeMessage, TakeStart, CaptureBackup, TakeStarted, EnsureBaseline, repository, ingestion,
         history
<1>2. disk \in Trees
  BY DEF Typed, Repo
<1>3. Repo' /\ Inboxed' /\ Worked'
  <2>1. CASE TakeMessage
    <3>1. Head(inbox).n \in Turns /\ Head(inbox).n \in Nat /\ Inboxed'
      BY <2>1, InboxTaken DEF TakeMessage
    <3>2. work' \in Worker /\ work'.at = "baseline" /\ work'.n \in Turns
      BY <2>1, <3>1, ContinueTyped DEF TakeMessage
    <3> QED
      BY <2>1, <3>1, <3>2, SameRepo DEF TakeMessage, repository, Worked, Reverting
  <2>2. CASE TakeStart
    <3>1. Head(inbox).n \in Turns /\ Head(inbox).n \in Nat /\ Inboxed'
      BY <2>2, InboxTaken DEF TakeStart
    <3>2. work' \in Worker /\ work'.at \in {"baseline", "backup"} /\ work'.n \in Turns
      <4>1. PICK place \in {"baseline", "backup"} : work' = Continue(place, Head(inbox).n)
        BY <2>2 DEF TakeStart
      <4> QED
        BY <3>1, <4>1, ContinueTyped
    <3> QED
      BY <2>2, <3>1, <3>2, SameRepo DEF TakeStart, repository, Worked, Reverting
  <2>3. CASE CaptureBackup
    <3>1. work.n \in Turns
      BY <2>3, AtWork DEF CaptureBackup, Places, Capturing, Reverting
    <3>2. Worked'
      BY <2>3, <3>1, GoesTyped DEF CaptureBackup, Places, Reverting
    <3> QED
      BY <1>1, <1>2, <2>3, <3>2, CapturesTyped, SameInbox DEF CaptureBackup, Capture, Repo
  <2>4. CASE TakeStarted
    <3>1. Head(inbox).n \in Turns /\ Head(inbox).n \in Nat /\ Inboxed'
      BY <2>4, InboxTaken DEF TakeStarted
    <3>2. work' \in Worker /\ work'.at = "baseline" /\ work'.n \in Turns
      BY <2>4, <3>1, ContinueTyped DEF TakeStarted
    <3>3. PICK tree : /\ refs' = WithRef(TurnStart(Head(inbox).n), tree)
                      /\ tree = disk \/ \E r \in DOMAIN refs : tree = refs[r]
      BY <2>4 DEF TakeStarted, Capture, Exists
    <3>4. tree \in Trees
      BY <1>2, <3>3 DEF Typed, Repo
    <3> QED
      BY <1>1, <1>2, <3>1, <3>2, <3>3, <3>4, CapturesTyped DEF Repo, Worked, Reverting
  <2>5. CASE EnsureBaseline
    <3>1. \A r \in DOMAIN refs' : refs'[r] \in Trees
      <4>1. CASE UNCHANGED refs
        BY <4>1 DEF Typed, Repo
      <4>2. CASE Capture(TurnRef(work.max))
        BY <1>2, <4>2, CapturesTyped DEF Capture
      <4> QED
        BY <2>5, <4>1, <4>2 DEF EnsureBaseline
    <3> QED
      BY <1>1, <1>2, <2>5, <3>1, RestTyped, SameInbox DEF EnsureBaseline, Repo
  <2> QED
    BY <2>1, <2>2, <2>3, <2>4, <2>5
<1> QED
  BY <1>1, <1>3, SameProvider, SameRows, SameIngest, SameLive, SameRest DEF Typed

LEMMA CaptureTyped ==
    ASSUME Typed, TakeCompleted \/ CaptureTurn \/ DispatchCheckpoint
    PROVE  Typed'
<1>1. CASE TakeCompleted
  <2> DEFINE t == Head(inbox).n
  <2>1. t \in Turns /\ t \in Nat /\ Inboxed' /\ Head(inbox) \in ReactorInput
    BY <1>1, InboxTaken DEF TakeCompleted
  <2>2. NextTurnCount(t) \in Nat
    BY <2>1, MaxTyped DEF NextTurnCount, Typed, Rowed, Row
  <2>3. Head(inbox).ready \in BOOLEAN
    BY <2>1 DEF ReactorInput
  <2>4. Worked'
    <3>1. CASE work' = Rest
      BY <3>1, RestTyped
    <3>2. CASE work' = [Rest EXCEPT !.at = "capturing", !.n = t, !.max = NextTurnCount(t),
                                    !.ready = Head(inbox).ready]
      BY <2>1, <2>2, <2>3, <3>2 DEF Worked, Rest, Worker, Places, Capturing, Reverting, Trees
    <3> QED
      BY <1>1, <3>1, <3>2 DEF TakeCompleted
  <2> QED
    BY <1>1, <2>1, <2>4, SameRepo, SameProvider, SameRows, SameIngest, SameLive, SameRest
       DEF TakeCompleted, repository, ingestion, Typed
<1>2. CASE CaptureTurn
  <2>1. work.n \in Turns /\ work \in Worker /\ disk \in Trees
    BY <1>2, AtWork DEF CaptureTurn, Places, Capturing, Reverting, Typed, Repo
  <2>2. Repo'
    BY <1>2, <2>1, CapturesTyped DEF CaptureTurn, Capture, Repo
  <2>3. Exists(TurnStart(work.n)) => Difference(refs[TurnStart(work.n)], disk) \in Trees
    BY <2>1 DEF Exists, Difference, Typed, Repo, Trees
  <2>4. Worked'
    BY <1>2, <2>1, <2>3 DEF CaptureTurn, Worked, Worker, Places, Capturing, Reverting, Trees
  <2> QED
    BY <1>2, <2>2, <2>4, SameProvider, SameRows, SameIngest, SameLive, SameInbox, SameRest
       DEF CaptureTurn, ingestion, history, Typed
<1>3. CASE DispatchCheckpoint
  <2>1. work.n \in Turns /\ work \in Worker
    BY <1>3, AtWork DEF DispatchCheckpoint, Places, Capturing, Reverting
  <2>2. /\ DiffCompleted(work.n, "real", work.max, work.ready, work.files)
        /\ work.max \in Nat /\ work.ready \in BOOLEAN /\ work.files \in Trees
    BY <1>3, <2>1 DEF DispatchCheckpoint, Worker
  <2>3. "real" \in {"diff", "real"}
    OBVIOUS
  <2>4. Rowed'
    BY <2>2, <2>3, RowsTyped DEF Rowed
  <2> QED
    BY <1>3, <2>4, SameRepo, SameProvider, SameIngest, SameLive, SameInbox, RestTyped, SameRest
       DEF DispatchCheckpoint, repository, ingestion, Typed
<1> QED
  BY <1>1, <1>2, <1>3

LEMMA RevertTyped ==
    ASSUME Typed, TakeRevert \/ Restore \/ RollBack \/ DeleteStale \/ CompleteRevert
    PROVE  Typed'
<1>1. CASE TakeRevert
  <2> DEFINE n == Head(inbox).n
  <2>1. n \in Nat /\ Inboxed'
    BY <1>1, InboxTaken DEF TakeRevert
  <2>2. Stale(n) \in SUBSET Nat
    BY VisibleTurns DEF Stale, Typed, Rowed, Row
  <2>3. Worked'
    <3>1. CASE work' = Rest
      BY <3>1, RestTyped
    <3>2. CASE /\ work' = [Continue("restoring", n) EXCEPT !.stale = Stale(n)]
               /\ n <= MaxTurnCount(Visible)
      BY <2>1, <2>2, <3>2, ContinueTyped DEF Worked, Worker, Places, Reverting
    <3> QED
      BY <1>1, <3>1, <3>2 DEF TakeRevert
  <2> QED
    BY <1>1, <2>1, <2>3, SameRepo, SameProvider, SameRows, SameIngest, SameLive, SameRest
       DEF TakeRevert, repository, ingestion, history, Typed
<1>2. CASE Restore
  <2>1. Worked'
    BY <1>2, AtWork, GoesTyped DEF Restore, Places, Reverting
  <2>2. Repo'
    BY <1>2 DEF Restore, Typed, Repo, Exists, Trees
  <2> QED
    BY <1>2, <2>1, <2>2, SameProvider, SameRows, SameIngest, SameLive, SameInbox, SameRest
       DEF Restore, ingestion, history, Typed
<1>3. CASE RollBack
  <2>1. Worked'
    BY <1>3, AtWork, GoesTyped DEF RollBack, Places, Reverting
  <2>2. work.max \in Nat /\ work.n \in Nat /\ work.n <= work.max
    BY <1>3, AtWork DEF RollBack, Places, Reverting
  <2>3. Provided'
    <3> DEFINE s == provider.thread
               kept == IF Len(s) > RolledBackTurns THEN Len(s) - RolledBackTurns ELSE 0
    <3>1. s \in Seq(Turns) /\ RolledBackTurns \in Nat
      BY <2>2 DEF Typed, Provided, Provider, RolledBackTurns
    <3>2. SubSeq(s, 1, kept) \in Seq(Turns)
      <4>1. Len(s) \in Nat /\ kept \in 0 .. Len(s)
        BY <3>1
      <4> HIDE DEF kept, s
      <4> QED
        BY <3>1, <4>1
    <3>3. provider' = [provider EXCEPT !.thread = SubSeq(s, 1, kept)]
      BY <1>3 DEF RollBack
    <3> HIDE DEF kept, s
    <3> QED
      BY <3>2, <3>3 DEF Typed, Provided, Provider
  <2> QED
    BY <1>3, <2>1, <2>3, SameRepo, SameRows, SameIngest, SameLive, SameInbox, SameRest
       DEF RollBack, repository, ingestion, history, Typed
<1>4. CASE DeleteStale
  <2>1. Worked'
    BY <1>4, AtWork, GoesTyped DEF DeleteStale, Places, Reverting
  <2>2. Repo'
    BY <1>4 DEF DeleteStale, Typed, Repo
  <2> QED
    BY <1>4, <2>1, <2>2, SameProvider, SameRows, SameIngest, SameLive, SameInbox, SameRest
       DEF DeleteStale, ingestion, history, Typed
<1>5. CASE CompleteRevert
  <2>1. Rowed'
    BY <1>5 DEF CompleteRevert, Typed, Rowed, Row, NoRow, Trees
  <2> QED
    BY <1>5, <2>1, SameRepo, SameProvider, SameIngest, SameLive, SameInbox, RestTyped, SameRest
       DEF CompleteRevert, repository, ingestion, history, Typed
<1> QED
  BY <1>1, <1>2, <1>3, <1>4, <1>5

LEMMA TypedStep == Typed /\ [CheckpointsNext]_checkpointVars => Typed'
<1> SUFFICES ASSUME Typed, [CheckpointsNext]_checkpointVars
             PROVE  Typed'
  OBVIOUS
<1>1. CASE UNCHANGED checkpointVars
  BY <1>1, SameTypes
<1>2. CASE ReactorFails
  BY <1>2, SameRepo, SameProvider, SameRows, SameIngest, SameLive, SameInbox, RestTyped, SameRest
     DEF ReactorFails, repository, ingestion, Typed
<1> QED
  BY <1>1, <1>2, UserTyped, TurnTyped, IngestionTyped, BaselineTyped, CaptureTyped, RevertTyped
     DEF CheckpointsNext

\* Everything has its type (CheckpointsTypeOK), and more: what is on its way is about a turn.
THEOREM AlwaysTyped == CheckpointsSpec => []Typed
<1> QED
  BY InitTyped, TypedStep, PTL DEF CheckpointsSpec

\* The state of the checkpoints has its type in every behaviour (CheckpointsTypeOK).
THEOREM TypeCorrect == CheckpointsSpec => []CheckpointsTypeOK
<1> QED
  BY AlwaysTyped, TypedOK, PTL
-----------------------------------------------------------------------------------
\* The order of things.

\* How far turn t has come: it is asked for; captured, if that did not fail; sent; over.
Asked(t) == t <= provider.turn
Begun(t) == Asked(t) /\ (t = provider.turn => provider.at # "asked")
Sent(t) == Asked(t) /\ (t = provider.turn => provider.at \in {"running", "idle"})
Over(t) == Asked(t) /\ (t = provider.turn => provider.at = "idle")

RefsOrdered == \A t \in Turns : Exists(MessageStart(t)) \/ Exists(TurnStart(t)) => Asked(t)
InboxOrdered == \A i \in DOMAIN inbox :
    /\ inbox[i].kind # "revert" => Asked(inbox[i].n)
    /\ inbox[i].kind = "started" => Sent(inbox[i].n)
    /\ inbox[i].kind = "completed" => Over(inbox[i].n)
WorkOrdered ==
    /\ work.at \in {"backup", "baseline"} => Asked(work.n)
    /\ work.at \in Capturing => Over(work.n)
RowsOrdered == \A t \in Turns : rows[t].ready => Over(t)
EditsOrdered ==
    /\ \A t \in edited : Sent(t)
    /\ disk \subseteq edited \cup {ByUser}
    /\ \A r \in DOMAIN refs : refs[r] \subseteq edited \cup {ByUser}
\* A revert is asked for while no turn runs, none is then, and it is done behind every capture.
RevertsLast ==
    /\ \A i \in DOMAIN inbox : inbox[i].kind = "revert" =>
          provider.at = "idle" /\ \A j \in DOMAIN inbox : i < j => inbox[j].kind = "revert"
    /\ work.at \in Reverting =>
          provider.at = "idle" /\ \A j \in DOMAIN inbox : inbox[j].kind = "revert"

Ordered ==
    /\ RefsOrdered /\ InboxOrdered /\ WorkOrdered /\ RowsOrdered /\ EditsOrdered /\ RevertsLast

\* What a step does to the provider, to the inbox and to the worker.
LEMMA ProviderSteps ==
    ASSUME Typed, CheckpointsNext
    PROVE  \/ provider'.turn = provider.turn /\ provider'.at = provider.at
           \/ AskTurn /\ provider'.turn = provider.turn + 1 /\ provider.at = "idle" /\ provider'.at = "asked"
           \/ /\ CaptureMessageStart \/ CaptureMessageStartFails
              /\ provider'.turn = provider.turn /\ provider.at = "asked" /\ provider'.at = "hooked"
           \/ SendTurn /\ provider'.turn = provider.turn /\ provider.at = "hooked" /\ provider'.at = "running"
           \/ EndTurn /\ provider'.turn = provider.turn /\ provider.at = "running" /\ provider'.at = "idle"
<1>1. provider \in Provider
  BY DEF Typed, Provided
<1>2. CASE AskTurn \/ CaptureMessageStart \/ CaptureMessageStartFails \/ SendTurn \/ EndTurn
  BY <1>1, <1>2 DEF AskTurn, CaptureMessageStart, CaptureMessageStartFails, SendTurn, EndTurn, Provider
<1>3. CASE UpdateDiff \/ RollBack
  BY <1>1, <1>3 DEF UpdateDiff, RollBack, Provider
<1>4. CASE \/ UserEdits \/ EditFiles \/ RequestRevert
           \/ IngestStarted \/ IngestCompleted \/ ReadDiff \/ DispatchPlaceholder
           \/ TakeMessage \/ TakeStart \/ CaptureBackup \/ TakeStarted \/ EnsureBaseline
           \/ TakeCompleted \/ CaptureTurn \/ DispatchCheckpoint
           \/ TakeRevert \/ Restore \/ DeleteStale \/ CompleteRevert \/ ReactorFails
  <2>1. UNCHANGED provider
    BY <1>4 DEF UserEdits, EditFiles, RequestRevert, IngestStarted, IngestCompleted, ReadDiff,
         DispatchPlaceholder, TakeMessage, TakeStart, CaptureBackup, TakeStarted, EnsureBaseline,
         TakeCompleted, CaptureTurn, DispatchCheckpoint, TakeRevert, Restore, DeleteStale, CompleteRevert,
         ReactorFails
  <2> QED
    BY <2>1
<1> QED
  BY <1>2, <1>3, <1>4 DEF CheckpointsNext

LEMMA StagesGrow ==
    ASSUME Typed, CheckpointsNext, NEW t \in Turns
    PROVE  /\ Asked(t) => Asked(t)' /\ (AskTurn => Over(t)')
           /\ Begun(t) => Begun(t)'
           /\ Sent(t) => Sent(t)'
           /\ Over(t) => Over(t)'
<1>1. provider.turn \in Nat /\ t \in Nat
  BY TurnFacts DEF Typed, Provided, Provider
<1>2. CASE AskTurn
  <2>1. provider'.turn = provider.turn + 1
    BY <1>2 DEF AskTurn, Typed, Provided, Provider
  <2> QED
    BY <1>1, <2>1 DEF Asked, Begun, Sent, Over
<1>3. CASE ~AskTurn
  <2>1. provider'.turn = provider.turn
    BY <1>3, ProviderSteps
  <2>2. /\ provider.at # "asked" => provider'.at # "asked"
        /\ provider.at \in {"running", "idle"} => provider'.at \in {"running", "idle"}
        /\ provider.at = "idle" => provider'.at = "idle"
    BY <1>3, ProviderSteps
  <2> QED
    BY <1>3, <2>1, <2>2 DEF Asked, Begun, Sent, Over
<1> QED
  BY <1>2, <1>3

\* A step that the inbox does not join takes its first input, or none.
LEMMA InboxSteps ==
    ASSUME Typed, CheckpointsNext, ~AskTurn, ~SendTurn, ~EndTurn, ~RequestRevert
    PROVE  \/ UNCHANGED inbox
           \/ /\ inbox # <<>> /\ work = Rest /\ inbox' = Tail(inbox)
              /\ \/ TakeMessage \/ TakeStart \/ TakeStarted \/ TakeCompleted \/ TakeRevert
<1>1. CASE \/ UserEdits \/ CaptureMessageStart \/ CaptureMessageStartFails \/ EditFiles \/ UpdateDiff
           \/ IngestStarted \/ IngestCompleted \/ ReadDiff \/ DispatchPlaceholder
           \/ CaptureBackup \/ EnsureBaseline \/ CaptureTurn \/ DispatchCheckpoint
           \/ Restore \/ RollBack \/ DeleteStale \/ CompleteRevert \/ ReactorFails
  BY <1>1 DEF UserEdits, CaptureMessageStart, CaptureMessageStartFails, EditFiles, UpdateDiff, IngestStarted,
       IngestCompleted, ReadDiff, DispatchPlaceholder, CaptureBackup, EnsureBaseline, CaptureTurn,
       DispatchCheckpoint, Restore, RollBack, DeleteStale, CompleteRevert, ReactorFails, reactor
<1>2. CASE TakeMessage \/ TakeStart \/ TakeStarted \/ TakeCompleted \/ TakeRevert
  BY <1>2 DEF TakeMessage, TakeStart, TakeStarted, TakeCompleted, TakeRevert, Takes
<1> QED
  BY <1>1, <1>2 DEF CheckpointsNext

\* The entries of an inbox that a step has added to.
Joined(more) ==
    /\ \A i \in DOMAIN inbox' : i \in Nat
    /\ \A i \in DOMAIN inbox : i \in DOMAIN inbox' /\ inbox'[i] = inbox[i]
    /\ \A i \in DOMAIN inbox' : i \in DOMAIN inbox \/ \E e \in more : inbox'[i] = e
    /\ \A i \in DOMAIN inbox, j \in DOMAIN inbox' : j < i => j \in DOMAIN inbox

LEMMA OneJoined ==
    ASSUME Typed, NEW e \in ReactorInput, inbox' = Append(inbox, e)
    PROVE  Joined({e}) /\ inbox' # <<>>
<1>1. inbox \in Seq(ReactorInput)
  BY DEF Typed, Inboxed
<1> QED
  BY <1>1 DEF Joined

LEMMA Inputs ==
    /\ Typed /\ SendTurn => Joined({Input("started", provider.turn)}) /\ provider.turn \in Turns
    /\ Typed /\ EndTurn => \E ready \in BOOLEAN :
          /\ Joined({[Input("completed", provider.turn) EXCEPT !.ready = ready]})
          /\ ingest' = Append(ingest, [Input("completed", provider.turn) EXCEPT !.ready = ready])
          /\ provider.turn \in Turns
    /\ Typed /\ RequestRevert => \E n \in Nat : Joined({Input("revert", n)})
    /\ Typed /\ AskTurn =>
          /\ Joined({Input("message", provider.turn + 1), Input("start", provider.turn + 1)})
          /\ provider.turn + 1 \in Turns
<1>1. ASSUME Typed, SendTurn
      PROVE  Joined({Input("started", provider.turn)}) /\ provider.turn \in Turns
  <2>1. provider.turn \in Turns /\ inbox' = Append(inbox, Input("started", provider.turn))
    BY <1>1 DEF SendTurn, Typed, Provided
  <2>2. Input("started", provider.turn) \in ReactorInput
    BY <2>1, TurnFacts, InputTyped
  <2> QED
    BY <1>1, <2>1, <2>2, OneJoined
<1>2. ASSUME Typed, EndTurn
      PROVE  \E ready \in BOOLEAN :
                /\ Joined({[Input("completed", provider.turn) EXCEPT !.ready = ready]})
                /\ ingest' = Append(ingest, [Input("completed", provider.turn) EXCEPT !.ready = ready])
                /\ provider.turn \in Turns
  <2>1. PICK ready \in BOOLEAN :
           LET end == [Input("completed", provider.turn) EXCEPT !.ready = ready]
           IN  inbox' = Append(inbox, end) /\ ingest' = Append(ingest, end)
    BY <1>2 DEF EndTurn, Typed, Kept, Plan
  <2> DEFINE e == [Input("completed", provider.turn) EXCEPT !.ready = ready]
  <2>2. provider.turn \in Turns
    BY <1>2 DEF EndTurn, Typed, Provided
  <2>3. e \in ReactorInput
    BY <2>2, TurnFacts DEF Input, ReactorInput
  <2>4. inbox' = Append(inbox, e) /\ ingest' = Append(ingest, e)
    BY <2>1
  <2> HIDE DEF e
  <2>5. Joined({e})
    BY <1>2, <2>3, <2>4, OneJoined
  <2> QED
    BY <2>2, <2>4, <2>5 DEF e
<1>3. ASSUME Typed, RequestRevert
      PROVE  \E n \in Nat : Joined({Input("revert", n)})
  <2>1. PICK t \in Visible : inbox' = Append(inbox, Input("revert", rows[t].count - 1))
    BY <1>3 DEF RequestRevert
  <2>2. rows[t].count - 1 \in Nat
    BY <1>3, <2>1 DEF Visible, Typed, Rowed, Row
  <2>3. Joined({Input("revert", rows[t].count - 1)})
    BY <1>3, <2>1, <2>2, InputTyped, OneJoined
  <2> QED
    BY <2>2, <2>3
<1>4. ASSUME Typed, AskTurn
      PROVE  /\ Joined({Input("message", provider.turn + 1), Input("start", provider.turn + 1)})
             /\ provider.turn + 1 \in Turns
  <2> DEFINE t == provider.turn + 1
             a == Input("message", t)
             b == Input("start", t)
  <2>1. /\ provider.turn \in Turns \cup {0} /\ plan.turns \in Turns \cup {0} /\ t <= plan.turns
        /\ inbox' = inbox \o <<a, b>> /\ inbox \in Seq(ReactorInput)
    BY <1>4 DEF AskTurn, Typed, Provided, Provider, Kept, Plan, Inboxed
  <2>2. t \in Turns
    BY <2>1, TurnFacts
  <2>3. a \in ReactorInput /\ b \in ReactorInput
    BY <2>2, TurnFacts, InputTyped
  <2> HIDE DEF a, b
  <2>4. inbox' = Append(Append(inbox, a), b)
    BY <2>1, <2>3
  <2>5. Joined({a, b})
    BY <2>1, <2>3, <2>4 DEF Joined
  <2> QED
    BY <2>2, <2>5 DEF a, b
<1> QED
  BY <1>1, <1>2, <1>3, <1>4

\* The entries of an inbox of which the first was taken.
LEMMA Taken ==
    ASSUME Typed, inbox # <<>>, inbox' = Tail(inbox)
    PROVE  /\ 1 \in DOMAIN inbox /\ inbox[1] = Head(inbox)
           /\ \A i \in DOMAIN inbox' : i \in Nat /\ i + 1 \in DOMAIN inbox /\ inbox'[i] = inbox[i + 1]
           /\ \A i \in DOMAIN inbox : i \in Nat /\ (i = 1 \/ (i - 1 \in DOMAIN inbox' /\ inbox'[i - 1] = inbox[i]))
<1>1. inbox \in Seq(ReactorInput)
  BY DEF Typed, Inboxed
<1> DEFINE n == Len(inbox)
<1>2. /\ Head(inbox) = inbox[1] /\ n \in Nat \ {0} /\ DOMAIN inbox = 1 .. n /\ 1 \in DOMAIN inbox
      /\ DOMAIN inbox' = 1 .. (n - 1)
      /\ \A i \in 1 .. (n - 1) : i + 1 \in 1 .. n /\ inbox'[i] = inbox[i + 1]
  BY <1>1, TailFacts
<1> HIDE DEF n
<1>3. \A i \in 1 .. n : i = 1 \/ (i - 1 \in 1 .. (n - 1) /\ inbox'[i - 1] = inbox[(i - 1) + 1])
  BY <1>2
<1>4. \A i \in 1 .. n : (i - 1) + 1 = i
  BY <1>2
<1> QED
  BY <1>2, <1>3, <1>4
LEMMA WithRefFacts ==
    ASSUME NEW name, NEW tree, refs' = WithRef(name, tree)
    PROVE  /\ DOMAIN refs' = DOMAIN refs \cup {name} /\ refs'[name] = tree
           /\ \A r \in DOMAIN refs : r # name => refs'[r] = refs[r]
BY DEF WithRef

LEMMA Names ==
    \A a, b : /\ MessageStart(a) # TurnStart(b) /\ MessageStart(a) # TurnRef(b) /\ TurnStart(a) # TurnRef(b)
              /\ MessageStart(a) = MessageStart(b) => a = b
              /\ TurnStart(a) = TurnStart(b) => a = b
BY DEF MessageStart, TurnStart, TurnRef

\* What a step does to the refs.
LEMMA RefSteps ==
    ASSUME CheckpointsNext
    PROVE  \/ UNCHANGED refs
           \/ CaptureMessageStart /\ refs' = WithRef(MessageStart(provider.turn), disk) /\ disk' = disk
           \/ CaptureBackup /\ refs' = WithRef(MessageStart(work.n), disk) /\ disk' = disk
           \/ /\ TakeStarted /\ disk' = disk
              /\ refs' = WithRef(TurnStart(Head(inbox).n),
                                 IF Exists(MessageStart(Head(inbox).n)) THEN refs[MessageStart(Head(inbox).n)]
                                                                        ELSE disk)
           \/ (EnsureBaseline \/ CaptureTurn) /\ refs' = WithRef(TurnRef(work.max), disk) /\ disk' = disk
           \/ DeleteStale /\ refs' = [r \in DOMAIN refs \ {TurnRef(n) : n \in work.stale} |-> refs[r]]
              /\ disk' = disk
<1>1. CASE \/ UserEdits \/ AskTurn \/ CaptureMessageStartFails \/ SendTurn
           \/ EditFiles \/ UpdateDiff \/ EndTurn \/ RequestRevert
           \/ IngestStarted \/ IngestCompleted \/ ReadDiff \/ DispatchPlaceholder
           \/ TakeMessage \/ TakeStart \/ TakeCompleted \/ DispatchCheckpoint
           \/ TakeRevert \/ Restore \/ RollBack \/ CompleteRevert \/ ReactorFails
  BY <1>1 DEF UserEdits, AskTurn, CaptureMessageStartFails, SendTurn, EditFiles, UpdateDiff, EndTurn,
       RequestRevert, IngestStarted, IngestCompleted, ReadDiff, DispatchPlaceholder, TakeMessage, TakeStart,
       TakeCompleted, DispatchCheckpoint, TakeRevert, Restore, RollBack, CompleteRevert, ReactorFails, repository
<1>2. CASE CaptureMessageStart \/ CaptureBackup \/ EnsureBaseline \/ CaptureTurn \/ DeleteStale
  BY <1>2 DEF CaptureMessageStart, CaptureBackup, EnsureBaseline, CaptureTurn, DeleteStale, Capture
<1>3. CASE TakeStarted
  BY <1>3 DEF TakeStarted, Capture
<1> QED
  BY <1>1, <1>2, <1>3 DEF CheckpointsNext

\* The captures of the start of a turn are only ever made where the code makes them.
LEMMA StartRefs ==
    ASSUME CheckpointsNext, NEW t
    PROVE  /\ \/ /\ Exists(MessageStart(t))' <=> Exists(MessageStart(t))
                 /\ Exists(MessageStart(t)) => refs'[MessageStart(t)] = refs[MessageStart(t)]
              \/ /\ Exists(MessageStart(t))' /\ refs'[MessageStart(t)] = disk /\ disk' = disk
                 /\ (CaptureMessageStart /\ t = provider.turn) \/ (CaptureBackup /\ t = work.n)
           /\ \/ /\ Exists(TurnStart(t))' <=> Exists(TurnStart(t))
                 /\ Exists(TurnStart(t)) => refs'[TurnStart(t)] = refs[TurnStart(t)]
              \/ /\ Exists(TurnStart(t))' /\ TakeStarted /\ t = Head(inbox).n /\ disk' = disk
                 /\ refs'[TurnStart(t)] = IF Exists(MessageStart(t)) THEN refs[MessageStart(t)] ELSE disk
<1>1. CASE UNCHANGED refs
  BY <1>1 DEF Exists
<1>2. CASE CaptureMessageStart /\ refs' = WithRef(MessageStart(provider.turn), disk) /\ disk' = disk
  <2>1. /\ DOMAIN refs' = DOMAIN refs \cup {MessageStart(provider.turn)} /\ refs'[MessageStart(provider.turn)] = disk
        /\ \A r \in DOMAIN refs : r # MessageStart(provider.turn) => refs'[r] = refs[r]
    BY <1>2, WithRefFacts
  <2>2. CASE t = provider.turn
    BY <1>2, <2>1, <2>2, Names DEF Exists
  <2>3. CASE t # provider.turn
    BY <1>2, <2>1, <2>3, Names DEF Exists
  <2> QED
    BY <2>2, <2>3
<1>3. CASE CaptureBackup /\ refs' = WithRef(MessageStart(work.n), disk) /\ disk' = disk
  <2>1. /\ DOMAIN refs' = DOMAIN refs \cup {MessageStart(work.n)} /\ refs'[MessageStart(work.n)] = disk
        /\ \A r \in DOMAIN refs : r # MessageStart(work.n) => refs'[r] = refs[r]
    BY <1>3, WithRefFacts
  <2>2. CASE t = work.n
    BY <1>3, <2>1, <2>2, Names DEF Exists
  <2>3. CASE t # work.n
    BY <1>3, <2>1, <2>3, Names DEF Exists
  <2> QED
    BY <2>2, <2>3
<1>4. CASE /\ TakeStarted /\ disk' = disk
           /\ refs' = WithRef(TurnStart(Head(inbox).n),
                              IF Exists(MessageStart(Head(inbox).n)) THEN refs[MessageStart(Head(inbox).n)]
                                                                     ELSE disk)
  <2> DEFINE n == Head(inbox).n
             tree == IF Exists(MessageStart(n)) THEN refs[MessageStart(n)] ELSE disk
  <2>1. refs' = WithRef(TurnStart(n), tree)
    BY <1>4
  <2>2. /\ DOMAIN refs' = DOMAIN refs \cup {TurnStart(n)} /\ refs'[TurnStart(n)] = tree
        /\ \A r \in DOMAIN refs : r # TurnStart(n) => refs'[r] = refs[r]
    BY <2>1, WithRefFacts
  <2>3. CASE t = n
    BY <1>4, <2>2, <2>3, Names DEF Exists
  <2>4. CASE t # n
    BY <1>4, <2>2, <2>4, Names DEF Exists
  <2> QED
    BY <2>3, <2>4
<1>5. CASE (EnsureBaseline \/ CaptureTurn) /\ refs' = WithRef(TurnRef(work.max), disk) /\ disk' = disk
  <2>1. /\ DOMAIN refs' = DOMAIN refs \cup {TurnRef(work.max)} /\ refs'[TurnRef(work.max)] = disk
        /\ \A r \in DOMAIN refs : r # TurnRef(work.max) => refs'[r] = refs[r]
    BY <1>5, WithRefFacts
  <2> QED
    BY <2>1, Names DEF Exists
<1>6. CASE refs' = [r \in DOMAIN refs \ {TurnRef(n) : n \in work.stale} |-> refs[r]]
  BY <1>6, Names DEF Exists
<1> QED
  BY <1>1, <1>2, <1>3, <1>4, <1>5, <1>6, RefSteps

LEMMA RefsOrderedStep ==
    ASSUME Typed, Ordered, CheckpointsNext
    PROVE  RefsOrdered'
<1> SUFFICES ASSUME NEW t \in Turns, Exists(MessageStart(t))' \/ Exists(TurnStart(t))'
             PROVE  Asked(t)'
  BY DEF RefsOrdered, Exists, MessageStart, TurnStart
<1>1. Asked(t)
  <2>1. CASE Exists(MessageStart(t)) \/ Exists(TurnStart(t))
    BY <2>1 DEF Ordered, RefsOrdered
  <2>2. CASE CaptureMessageStart /\ t = provider.turn
    BY <2>2, TurnFacts DEF Asked
  <2>3. CASE CaptureBackup /\ t = work.n
    BY <2>3 DEF CaptureBackup, At, Ordered, WorkOrdered
  <2>4. CASE TakeStarted /\ t = Head(inbox).n
    <3>1. Head(inbox).kind = "started" /\ inbox # <<>> /\ inbox' = Tail(inbox)
      BY <2>4 DEF TakeStarted, Takes
    <3>2. 1 \in DOMAIN inbox /\ inbox[1] = Head(inbox)
      BY <3>1, Taken
    <3> QED
      BY <2>4, <3>1, <3>2 DEF Ordered, InboxOrdered
  <2> QED
    BY <2>1, <2>2, <2>3, <2>4, StartRefs
<1> QED
  BY <1>1, StagesGrow
LEMMA InboxOrderedStep ==
    ASSUME Typed, Ordered, CheckpointsNext
    PROVE  InboxOrdered'
<1> DEFINE Fine(e) == /\ e.kind # "revert" => Asked(e.n)
                      /\ e.kind = "started" => Sent(e.n)
                      /\ e.kind = "completed" => Over(e.n)
           Known(e) == e.kind # "revert" => e.n \in Turns
<1>1. \A i \in DOMAIN inbox : Fine(inbox[i]) /\ Known(inbox[i])
  BY DEF Ordered, InboxOrdered, Typed, Inboxed
<1>2. \A t \in Turns : (Asked(t) => Asked(t)') /\ (Sent(t) => Sent(t)') /\ (Over(t) => Over(t)')
  BY StagesGrow
<1>3. ASSUME NEW i \in DOMAIN inbox'
      PROVE  (\E j \in DOMAIN inbox : inbox'[i] = inbox[j]) \/ Fine(inbox[i])'
  <2>1. CASE ~AskTurn /\ ~SendTurn /\ ~EndTurn /\ ~RequestRevert
    <3>1. CASE UNCHANGED inbox
      BY <3>1
    <3>2. CASE inbox # <<>> /\ inbox' = Tail(inbox)
      BY <3>2, Taken
    <3> QED
      BY <2>1, <3>1, <3>2, InboxSteps
  <2>2. CASE AskTurn
    <3>1. CASE i \in DOMAIN inbox
      BY <2>2, <3>1, Inputs DEF Joined
    <3>2. CASE i \notin DOMAIN inbox
      <4>1. inbox'[i] \in {Input("message", provider.turn + 1), Input("start", provider.turn + 1)}
        BY <2>2, <3>2, Inputs DEF Joined
      <4>2. inbox'[i].n = provider.turn + 1 /\ inbox'[i].kind \in {"message", "start"}
        BY <4>1 DEF Input
      <4>3. provider.turn + 1 \in Nat /\ provider'.turn = provider.turn + 1
        BY <2>2, TurnFacts DEF AskTurn, Typed, Provided, Provider
      <4> QED
        BY <4>2, <4>3 DEF Asked
    <3> QED
      BY <3>1, <3>2
  <2>3. CASE SendTurn
    <3>1. Joined({Input("started", provider.turn)}) /\ provider.turn \in Turns
      BY <2>3, Inputs
    <3>2. CASE i \in DOMAIN inbox
      BY <3>1, <3>2 DEF Joined
    <3>3. CASE i \notin DOMAIN inbox
      <4>1. inbox'[i] = Input("started", provider.turn)
        BY <3>1, <3>3 DEF Joined
      <4>2. inbox'[i].n = provider.turn /\ inbox'[i].kind = "started"
        BY <4>1 DEF Input
      <4>3. provider.turn \in Nat /\ provider'.turn = provider.turn /\ provider'.at = "running"
        BY <2>3, <3>1, TurnFacts DEF SendTurn, Typed, Provided, Provider
      <4> QED
        BY <4>2, <4>3 DEF Asked, Sent
    <3> QED
      BY <3>2, <3>3
  <2>4. CASE EndTurn
    <3>1. PICK ready \in BOOLEAN : /\ Joined({[Input("completed", provider.turn) EXCEPT !.ready = ready]})
                                   /\ provider.turn \in Turns
      BY <2>4, Inputs
    <3>2. CASE i \in DOMAIN inbox
      BY <3>1, <3>2 DEF Joined
    <3>3. CASE i \notin DOMAIN inbox
      <4>1. inbox'[i] = [Input("completed", provider.turn) EXCEPT !.ready = ready]
        BY <3>1, <3>3 DEF Joined
      <4>2. inbox'[i].n = provider.turn /\ inbox'[i].kind = "completed"
        BY <4>1 DEF Input
      <4>3. provider.turn \in Nat /\ provider'.turn = provider.turn /\ provider'.at = "idle"
        BY <2>4, <3>1, TurnFacts DEF EndTurn, Typed, Provided, Provider
      <4> QED
        BY <4>2, <4>3 DEF Asked, Over
    <3> QED
      BY <3>2, <3>3
  <2>5. CASE RequestRevert
    <3>1. PICK n \in Nat : Joined({Input("revert", n)})
      BY <2>5, Inputs
    <3>2. CASE i \in DOMAIN inbox
      BY <3>1, <3>2 DEF Joined
    <3>3. CASE i \notin DOMAIN inbox
      <4>1. inbox'[i].kind = "revert"
        BY <3>1, <3>3 DEF Joined, Input
      <4> QED
        BY <4>1
    <3> QED
      BY <3>2, <3>3
  <2> QED
    BY <2>1, <2>2, <2>3, <2>4, <2>5
<1>4. ASSUME NEW i \in DOMAIN inbox'
      PROVE  Fine(inbox[i])'
  <2>1. CASE \E j \in DOMAIN inbox : inbox'[i] = inbox[j]
    <3>1. PICK j \in DOMAIN inbox : inbox'[i] = inbox[j]
      BY <2>1
    <3> QED
      BY <1>1, <1>2, <3>1
  <2> QED
    BY <1>3, <2>1
<1> QED
  BY <1>4 DEF InboxOrdered

\* What a step does to the worker.
LEMMA WorkSteps ==
    ASSUME Typed, CheckpointsNext
    PROVE  \/ UNCHANGED work
           \/ work'.at = "idle" /\ work' = Rest
           \/ /\ TakeMessage \/ TakeStart \/ TakeStarted
              /\ work'.at \in {"backup", "baseline"} /\ work'.n = Head(inbox).n
           \/ TakeCompleted /\ work'.at = "capturing" /\ work'.n = Head(inbox).n
           \/ CaptureBackup /\ work.at = "backup" /\ work'.at = "baseline" /\ work'.n = work.n
           \/ CaptureTurn /\ work.at = "capturing" /\ work'.at = "captured" /\ work'.n = work.n
              /\ work'.max = work.max
           \/ TakeRevert /\ work'.at = "restoring"
           \/ /\ Restore \/ RollBack \/ DeleteStale
              /\ work.at \in Reverting /\ work'.at \in Reverting
<1>1. work \in Worker /\ Rest.at = "idle"
  BY DEF Typed, Worked, Rest
<1>2. CASE \/ UserEdits \/ AskTurn \/ CaptureMessageStart \/ CaptureMessageStartFails \/ SendTurn
           \/ EditFiles \/ UpdateDiff \/ EndTurn \/ RequestRevert
           \/ IngestStarted \/ IngestCompleted \/ ReadDiff \/ DispatchPlaceholder
  BY <1>2 DEF UserEdits, AskTurn, CaptureMessageStart, CaptureMessageStartFails, SendTurn, EditFiles, UpdateDiff,
       EndTurn, RequestRevert, IngestStarted, IngestCompleted, ReadDiff, DispatchPlaceholder, reactor
<1>3. CASE EnsureBaseline \/ DispatchCheckpoint \/ CompleteRevert \/ ReactorFails
  BY <1>1, <1>3 DEF EnsureBaseline, DispatchCheckpoint, CompleteRevert, ReactorFails
<1>4. CASE TakeMessage \/ TakeStart \/ TakeStarted
  BY <1>4 DEF TakeMessage, TakeStart, TakeStarted, Continue, Rest
<1>5. CASE TakeCompleted
  BY <1>1, <1>5 DEF TakeCompleted, Rest
<1>6. CASE CaptureBackup \/ CaptureTurn
  BY <1>1, <1>6 DEF CaptureBackup, CaptureTurn, At, Goes, Worker
<1>7. CASE TakeRevert
  BY <1>1, <1>7 DEF TakeRevert, Continue, Rest
<1>8. CASE Restore \/ RollBack \/ DeleteStale
  BY <1>1, <1>8 DEF Restore, RollBack, DeleteStale, At, Goes, Reverting, Worker
<1> QED
  BY <1>2, <1>3, <1>4, <1>5, <1>6, <1>7, <1>8 DEF CheckpointsNext

\* The first input of the inbox, when the worker takes it.
LEMMA TakenFirst ==
    ASSUME Typed, NEW kind, Takes(kind)
    PROVE  /\ inbox # <<>> /\ 1 \in DOMAIN inbox /\ inbox[1] = Head(inbox) /\ Head(inbox).kind = kind
           /\ work = Rest /\ work.at = "idle"
           /\ kind # "revert" => Head(inbox).n \in Turns
<1>1. inbox # <<>> /\ Head(inbox).kind = kind /\ work = Rest /\ inbox \in Seq(ReactorInput)
  BY DEF Takes, Typed, Inboxed
<1>2. 1 \in DOMAIN inbox /\ inbox[1] = Head(inbox)
  BY <1>1, TailFacts
<1> QED
  BY <1>1, <1>2 DEF Rest, Typed, Inboxed

LEMMA WorkOrderedStep ==
    ASSUME Typed, Ordered, CheckpointsNext
    PROVE  WorkOrdered'
<1> USE DEF Capturing, Reverting
<1>1. CASE UNCHANGED work
  <2>1. work.at \in {"backup", "baseline"} => work.n \in Turns /\ Asked(work.n)
    BY DEF Typed, Worked, Ordered, WorkOrdered
  <2>2. work.at \in Capturing => work.n \in Turns /\ Over(work.n)
    BY DEF Typed, Worked, Ordered, WorkOrdered
  <2>3. \A t \in Turns : (Asked(t) => Asked(t)') /\ (Over(t) => Over(t)')
    BY StagesGrow
  <2> QED
    BY <1>1, <2>1, <2>2, <2>3 DEF WorkOrdered, Asked, Over
<1>2. CASE work'.at \in {"idle"} \cup Reverting
  BY <1>2 DEF WorkOrdered
<1>3. CASE /\ TakeMessage \/ TakeStart \/ TakeStarted
           /\ work'.at \in {"backup", "baseline"} /\ work'.n = Head(inbox).n
  <2>1. PICK kind \in {"message", "start", "started"} : Takes(kind)
    BY <1>3 DEF TakeMessage, TakeStart, TakeStarted
  <2>2. Head(inbox).n \in Turns /\ Asked(Head(inbox).n)
    BY <2>1, TakenFirst DEF Ordered, InboxOrdered
  <2>3. PICK t \in Turns : t = Head(inbox).n
    BY <2>2
  <2>4. Asked(t)'
    BY <2>2, <2>3, StagesGrow
  <2> QED
    BY <1>3, <2>3, <2>4 DEF WorkOrdered, Asked
<1>4. CASE TakeCompleted /\ work'.at = "capturing" /\ work'.n = Head(inbox).n
  <2>1. Takes("completed")
    BY <1>4 DEF TakeCompleted
  <2>2. Head(inbox).n \in Turns /\ Over(Head(inbox).n)
    BY <2>1, TakenFirst DEF Ordered, InboxOrdered
  <2>3. PICK t \in Turns : t = Head(inbox).n
    BY <2>2
  <2>4. Over(t)'
    BY <2>2, <2>3, StagesGrow
  <2> QED
    BY <1>4, <2>3, <2>4 DEF WorkOrdered, Over, Asked
<1>5. CASE CaptureBackup /\ work.at = "backup" /\ work'.at = "baseline" /\ work'.n = work.n
  <2>1. PICK t \in Turns : t = work.n /\ Asked(t)
    BY <1>5 DEF Typed, Worked, Ordered, WorkOrdered
  <2>2. Asked(t)'
    BY <2>1, StagesGrow
  <2> QED
    BY <1>5, <2>1, <2>2 DEF WorkOrdered, Asked
<1>6. CASE CaptureTurn /\ work.at = "capturing" /\ work'.at = "captured" /\ work'.n = work.n
  <2>1. PICK t \in Turns : t = work.n /\ Over(t)
    BY <1>6 DEF Typed, Worked, Ordered, WorkOrdered
  <2>2. Over(t)'
    BY <2>1, StagesGrow
  <2> QED
    BY <1>6, <2>1, <2>2 DEF WorkOrdered, Over, Asked
<1> QED
  BY <1>1, <1>2, <1>3, <1>4, <1>5, <1>6, WorkSteps
\* A row becomes ready when the checkpoint of its turn is dispatched.
LEMMA ReadySteps ==
    ASSUME Typed, CheckpointsNext, NEW t \in Turns, rows'[t].ready
    PROVE  \/ rows[t].ready /\ rows'[t].files = rows[t].files
           \/ DispatchCheckpoint /\ t = work.n /\ work.at = "captured" /\ work.ready
              /\ rows'[t].files = work.files
<1>1. rows \in [Turns -> Row] /\ rows[t] \in Row
  BY DEF Typed, Rowed
<1>2. CASE \/ UserEdits \/ AskTurn \/ CaptureMessageStart \/ CaptureMessageStartFails \/ SendTurn
           \/ EditFiles \/ UpdateDiff \/ EndTurn \/ RequestRevert \/ ReadDiff
           \/ TakeMessage \/ TakeStart \/ CaptureBackup \/ TakeStarted \/ EnsureBaseline
           \/ TakeCompleted \/ CaptureTurn
           \/ TakeRevert \/ Restore \/ RollBack \/ DeleteStale \/ ReactorFails
  <2>1. UNCHANGED rows
    BY <1>2 DEF UserEdits, AskTurn, CaptureMessageStart, CaptureMessageStartFails, SendTurn, EditFiles,
         UpdateDiff, EndTurn, RequestRevert, ReadDiff, TakeMessage, TakeStart, CaptureBackup, TakeStarted,
         EnsureBaseline, TakeCompleted, CaptureTurn, TakeRevert, Restore, RollBack, DeleteStale, ReactorFails
  <2> QED
    BY <2>1
<1>3. CASE IngestStarted
  BY <1>1, <1>3 DEF IngestStarted, Row
<1>4. CASE IngestCompleted
  BY <1>1, <1>4 DEF IngestCompleted, Row
<1>5. ASSUME NEW u, NEW kind, NEW count, NEW ready, NEW files, DiffCompleted(u, kind, count, ready, files)
      PROVE  \/ rows[t].ready /\ rows'[t].files = rows[t].files
             \/ t = u /\ ready /\ rows'[t].files = files
  BY <1>1, <1>5 DEF DiffCompleted, Cleared, Row
<1>6. CASE DispatchPlaceholder
  BY <1>5, <1>6 DEF DispatchPlaceholder
<1>7. CASE DispatchCheckpoint
  <2>1. DiffCompleted(work.n, "real", work.max, work.ready, work.files) /\ work.at = "captured"
    BY <1>7 DEF DispatchCheckpoint, At
  <2> QED
    BY <1>5, <1>7, <2>1
<1>8. CASE CompleteRevert
  BY <1>1, <1>8 DEF CompleteRevert, NoRow
<1> QED
  BY <1>2, <1>3, <1>4, <1>6, <1>7, <1>8 DEF CheckpointsNext

LEMMA RowsOrderedStep ==
    ASSUME Typed, Ordered, CheckpointsNext
    PROVE  RowsOrdered'
<1> SUFFICES ASSUME NEW t \in Turns, rows'[t].ready
             PROVE  Over(t)'
  BY DEF RowsOrdered, Over, Asked
<1>1. Over(t)
  <2>1. CASE rows[t].ready
    BY <2>1 DEF Ordered, RowsOrdered
  <2>2. CASE t = work.n /\ work.at = "captured"
    BY <2>2 DEF Ordered, WorkOrdered, Capturing
  <2> QED
    BY <2>1, <2>2, ReadySteps
<1> QED
  BY <1>1, StagesGrow

\* What a step does to the workspace.
LEMMA DiskSteps ==
    ASSUME CheckpointsNext
    PROVE  \/ UNCHANGED <<disk, edited>>
           \/ UserEdits /\ disk' = disk \cup {ByUser} /\ edited' = edited
           \/ EditFiles /\ disk' = disk \cup {provider.turn} /\ edited' = edited \cup {provider.turn}
              /\ UNCHANGED provider /\ provider.at = "running" /\ provider.turn \notin edited
           \/ Restore /\ edited' = edited /\ work.at = "restoring"
              /\ disk' = IF Exists(TurnRef(work.n)) THEN refs[TurnRef(work.n)] ELSE {}
<1>1. CASE \/ AskTurn \/ CaptureMessageStart \/ CaptureMessageStartFails \/ SendTurn
           \/ UpdateDiff \/ EndTurn \/ RequestRevert
           \/ IngestStarted \/ IngestCompleted \/ ReadDiff \/ DispatchPlaceholder
           \/ TakeMessage \/ TakeStart \/ CaptureBackup \/ TakeStarted \/ EnsureBaseline
           \/ TakeCompleted \/ CaptureTurn \/ DispatchCheckpoint
           \/ TakeRevert \/ RollBack \/ DeleteStale \/ CompleteRevert \/ ReactorFails
  BY <1>1 DEF AskTurn, CaptureMessageStart, CaptureMessageStartFails, SendTurn, UpdateDiff, EndTurn, RequestRevert,
       IngestStarted, IngestCompleted, ReadDiff, DispatchPlaceholder, TakeMessage, TakeStart, CaptureBackup,
       TakeStarted, EnsureBaseline, TakeCompleted, CaptureTurn, DispatchCheckpoint, TakeRevert, RollBack,
       DeleteStale, CompleteRevert, ReactorFails, repository, history
<1>2. CASE UserEdits \/ EditFiles \/ Restore
  BY <1>2 DEF UserEdits, EditFiles, Restore, At, history
<1> QED
  BY <1>1, <1>2 DEF CheckpointsNext

LEMMA EditsOrderedStep ==
    ASSUME Typed, Ordered, CheckpointsNext
    PROVE  EditsOrdered'
<1>1. /\ \A t \in edited : t \in Turns /\ Sent(t)
      /\ disk \subseteq edited \cup {ByUser}
      /\ \A r \in DOMAIN refs : refs[r] \subseteq edited \cup {ByUser}
  BY DEF Ordered, EditsOrdered, Typed, Kept
<1>2. edited \subseteq edited' /\ disk' \subseteq edited' \cup {ByUser}
  BY <1>1, DiskSteps DEF Exists
<1>3. ASSUME NEW t \in edited'
      PROVE  Sent(t)'
  <2>1. CASE t \in edited
    BY <1>1, <2>1, StagesGrow
  <2>2. CASE t \notin edited
    <3>1. t = provider.turn /\ UNCHANGED provider /\ provider.at = "running"
      BY <2>2, DiskSteps
    <3>2. provider.turn \in Nat
      BY <3>1, TurnFacts DEF Typed, Provided
    <3>3. provider.turn <= provider.turn
      BY <3>2
    <3> QED
      BY <3>1, <3>3 DEF Sent, Asked
  <2> QED
    BY <2>1, <2>2
<1>4. ASSUME NEW r \in DOMAIN refs'
      PROVE  refs'[r] \subseteq edited' \cup {ByUser}
  <2>1. CASE UNCHANGED refs
    BY <1>1, <1>2, <2>1
  <2>2. ASSUME NEW name, NEW tree, tree \subseteq edited \cup {ByUser}, refs' = WithRef(name, tree)
        PROVE  refs'[r] \subseteq edited' \cup {ByUser}
    <3>1. /\ DOMAIN refs' = DOMAIN refs \cup {name} /\ refs'[name] = tree
          /\ \A s \in DOMAIN refs : s # name => refs'[s] = refs[s]
      BY <2>2, WithRefFacts
    <3> QED
      BY <1>1, <1>2, <2>2, <3>1
  <2>3. CASE \E name : refs' = WithRef(name, disk)
    BY <1>1, <2>2, <2>3
  <2>4. CASE refs' = WithRef(TurnStart(Head(inbox).n),
                             IF Exists(MessageStart(Head(inbox).n)) THEN refs[MessageStart(Head(inbox).n)]
                                                                    ELSE disk)
    <3> DEFINE tree == IF Exists(MessageStart(Head(inbox).n)) THEN refs[MessageStart(Head(inbox).n)] ELSE disk
    <3>1. tree \subseteq edited \cup {ByUser}
      BY <1>1 DEF Exists
    <3>2. refs' = WithRef(TurnStart(Head(inbox).n), tree)
      BY <2>4
    <3> HIDE DEF tree
    <3> QED
      BY <2>2, <3>1, <3>2
  <2>5. CASE refs' = [s \in DOMAIN refs \ {TurnRef(n) : n \in work.stale} |-> refs[s]]
    BY <1>1, <1>2, <2>5
  <2> QED
    BY <2>1, <2>3, <2>4, <2>5, RefSteps
<1> QED
  BY <1>2, <1>3, <1>4 DEF EditsOrdered, Sent, Asked

LEMMA RevertsLastStep ==
    ASSUME Typed, Ordered, CheckpointsNext
    PROVE  RevertsLast'
<1> DEFINE Reverts == \A j \in DOMAIN inbox : inbox[j].kind = "revert"
<1> USE DEF Reverting
<1>1. /\ \A i \in DOMAIN inbox : inbox[i].kind = "revert" =>
            provider.at = "idle" /\ \A j \in DOMAIN inbox : i < j => inbox[j].kind = "revert"
      /\ work.at \in Reverting => provider.at = "idle" /\ Reverts
  BY DEF Ordered, RevertsLast
<1>2. CASE AskTurn
  <2>1. /\ work' = work /\ work.at \notin Reverting
        /\ \A i \in DOMAIN inbox : inbox[i].kind # "revert"
    <3>1. inbox \in Seq(ReactorInput)
      BY DEF Typed, Inboxed
    <3> QED
      BY <1>2, <3>1 DEF AskTurn, RevertPending
  <2>2. Joined({Input("message", provider.turn + 1), Input("start", provider.turn + 1)})
    BY <1>2, Inputs
  <2>3. \A i \in DOMAIN inbox' : inbox'[i].kind # "revert"
    BY <2>1, <2>2 DEF Joined, Input
  <2> QED
    BY <2>1, <2>3 DEF RevertsLast
<1>3. CASE SendTurn \/ EndTurn
  <2>1. /\ work' = work /\ work.at \notin Reverting
        /\ \A i \in DOMAIN inbox : inbox[i].kind # "revert"
    BY <1>1, <1>3 DEF SendTurn, EndTurn
  <2>2. PICK e \in {Input("started", provider.turn)}
               \cup {[Input("completed", provider.turn) EXCEPT !.ready = ready] : ready \in BOOLEAN} : Joined({e})
    BY <1>3, Inputs
  <2>3. e.kind # "revert"
    BY <2>2 DEF Input
  <2>4. \A i \in DOMAIN inbox' : inbox'[i].kind # "revert"
    BY <2>1, <2>2, <2>3 DEF Joined
  <2> QED
    BY <2>1, <2>4 DEF RevertsLast
<1>4. CASE RequestRevert
  <2>1. work' = work /\ provider' = provider /\ provider.at = "idle"
    BY <1>4 DEF RequestRevert
  <2>2. PICK n \in Nat : Joined({Input("revert", n)})
    BY <1>4, Inputs
  <2>3. \A i \in DOMAIN inbox' :
           (i \in DOMAIN inbox /\ inbox'[i] = inbox[i]) \/ inbox'[i].kind = "revert"
    BY <2>2 DEF Joined, Input
  <2>4. \A i, j \in DOMAIN inbox' : i < j /\ inbox'[i].kind = "revert" => inbox'[j].kind = "revert"
    BY <1>1, <2>2, <2>3 DEF Joined
  <2> QED
    BY <1>1, <2>1, <2>3, <2>4 DEF RevertsLast
<1>5. CASE ~AskTurn /\ ~SendTurn /\ ~EndTurn /\ ~RequestRevert
  <2>1. provider.at = "idle" => provider'.at = "idle"
    BY <1>5, ProviderSteps
  <2>2. CASE UNCHANGED inbox /\ ~TakeRevert
    <3>1. work'.at \in Reverting => work.at \in Reverting
      BY <1>5, <2>2, WorkSteps DEF Rest
    <3> QED
      BY <1>1, <2>1, <2>2, <3>1 DEF RevertsLast
  <2>3. CASE inbox # <<>> /\ work = Rest /\ inbox' = Tail(inbox)
    <3>1. /\ 1 \in DOMAIN inbox /\ inbox[1] = Head(inbox)
          /\ \A i \in DOMAIN inbox' : i \in Nat /\ i + 1 \in DOMAIN inbox /\ inbox'[i] = inbox[i + 1]
      BY <2>3, Taken
    <3>2. \A i \in DOMAIN inbox' : inbox'[i].kind = "revert" =>
             provider.at = "idle" /\ \A j \in DOMAIN inbox' : i < j => inbox'[j].kind = "revert"
      <4>1. \A i, j \in DOMAIN inbox' : i < j => i + 1 < j + 1
        BY <3>1
      <4> QED
        BY <1>1, <3>1, <4>1
    <3>3. work'.at \in Reverting => provider.at = "idle" /\ \A j \in DOMAIN inbox' : inbox'[j].kind = "revert"
      <4> SUFFICES ASSUME work'.at \in Reverting
                   PROVE  provider.at = "idle" /\ \A j \in DOMAIN inbox' : inbox'[j].kind = "revert"
        OBVIOUS
      <4>1. TakeRevert
        BY <2>3, WorkSteps DEF Rest
      <4>2. inbox[1].kind = "revert"
        BY <3>1, <4>1 DEF TakeRevert, Takes
      <4>3. \A j \in DOMAIN inbox' : 1 < j + 1
        BY <3>1, TailFacts, <2>3 DEF Typed, Inboxed
      <4> QED
        BY <1>1, <3>1, <4>2, <4>3
    <3> QED
      BY <2>1, <3>2, <3>3 DEF RevertsLast
  <2> QED
    BY <1>5, <2>2, <2>3, InboxSteps DEF TakeRevert, Takes
<1> QED
  BY <1>2, <1>3, <1>4, <1>5

LEMMA InitOrdered == CheckpointsInit => Ordered
BY DEF CheckpointsInit, Ordered, RefsOrdered, InboxOrdered, WorkOrdered, RowsOrdered, EditsOrdered, RevertsLast,
   Exists, Capturing, Reverting, Rest, NoRow

LEMMA SameOrder == Ordered /\ UNCHANGED checkpointVars => Ordered'
BY DEF checkpointVars, repository, ingestion, reactor, history, Ordered, RefsOrdered, InboxOrdered, WorkOrdered,
   RowsOrdered, EditsOrdered, RevertsLast, Exists, Asked, Sent, Over

LEMMA OrderedStep == Typed /\ Ordered /\ [CheckpointsNext]_checkpointVars => Ordered'
BY SameOrder, RefsOrderedStep, InboxOrderedStep, WorkOrderedStep, RowsOrderedStep, EditsOrderedStep,
   RevertsLastStep DEF Ordered
-----------------------------------------------------------------------------------
\* The diff of a turn is its own.

Clean == mishaps \cap {"fault", "backup late", "capture late"} = {}

\* The files of turn t may still change, or are still to be captured.
Unfinished(t) == (t = provider.turn /\ provider.at # "idle") \/ t \in Uncaptured
\* What differs from the tree now is what t has changed.
Own(tree, t) == Difference(tree, disk) = edited \cap {t}

StartsCaptured == \A t \in Turns : Begun(t) => Exists(MessageStart(t))
StartsOwn == \A t \in Turns : Unfinished(t) =>
    /\ Exists(MessageStart(t)) => Own(refs[MessageStart(t)], t)
    /\ Exists(TurnStart(t)) => Own(refs[TurnStart(t)], t)
WorkOwn ==
    /\ work.at = "backup" => work.n \notin edited
    /\ work.at = "captured" /\ work.ready => work.files = edited \cap {work.n}
RowsOwn == \A t \in Turns : rows[t].ready => rows[t].files = edited \cap {t}

Owned == StartsCaptured /\ StartsOwn /\ WorkOwn /\ RowsOwn
Owning == Clean => Owned

\* What has gone wrong is not forgotten, and a clean step is none that fails or comes late.
LEMMA MishapsGrow ==
    ASSUME CheckpointsNext
    PROVE  /\ mishaps \subseteq mishaps'
           /\ CaptureMessageStartFails \/ ReactorFails => "fault" \in mishaps'
           /\ UserEdits /\ Uncaptured # {} => "capture late" \in mishaps'
           /\ EditFiles /\ Uncaptured # {} => "capture late" \in mishaps'
           /\ EditFiles /\ work.at = "backup" => "backup late" \in mishaps'
<1>1. mishaps \subseteq mishaps'
  <2>1. CASE \/ AskTurn \/ CaptureMessageStart \/ SendTurn \/ UpdateDiff \/ EndTurn \/ RequestRevert
             \/ IngestStarted \/ IngestCompleted \/ DispatchPlaceholder
             \/ TakeMessage \/ TakeStart \/ CaptureBackup \/ TakeStarted \/ EnsureBaseline
             \/ CaptureTurn \/ TakeRevert \/ Restore \/ RollBack \/ DeleteStale \/ CompleteRevert
    BY <2>1 DEF AskTurn, CaptureMessageStart, SendTurn, UpdateDiff, EndTurn, RequestRevert, IngestStarted,
         IngestCompleted, DispatchPlaceholder, TakeMessage, TakeStart, CaptureBackup, TakeStarted, EnsureBaseline,
         CaptureTurn, TakeRevert, Restore, RollBack, DeleteStale, CompleteRevert, history
  <2>2. CASE UserEdits \/ ReadDiff \/ TakeCompleted \/ DispatchCheckpoint
    BY <2>2 DEF UserEdits, ReadDiff, TakeCompleted, DispatchCheckpoint, Note
  <2>3. CASE EditFiles \/ CaptureMessageStartFails \/ ReactorFails
    BY <2>3 DEF EditFiles, CaptureMessageStartFails, ReactorFails, Fault
  <2> QED
    BY <2>1, <2>2, <2>3 DEF CheckpointsNext
<1> QED
  BY <1>1 DEF CaptureMessageStartFails, ReactorFails, Fault, UserEdits, EditFiles, Note

LEMMA CleanBefore ==
    ASSUME CheckpointsNext, Clean'
    PROVE  /\ Clean /\ ~CaptureMessageStartFails /\ ~ReactorFails
           /\ UserEdits \/ EditFiles => Uncaptured = {}
           /\ EditFiles => work.at # "backup"
BY MishapsGrow DEF Clean

\* A turn is yet to be captured from when it ends to when it is.
LEMMA EndedIs ==
    ASSUME Typed
    PROVE  \A t : t \in Ended <=> \E i \in DOMAIN inbox : inbox[i].kind = "completed" /\ inbox[i].n = t
<1>1. DOMAIN inbox = 1 .. Len(inbox)
  BY DEF Typed, Inboxed
<1> QED
  BY <1>1 DEF Ended

LEMMA UncapturedSteps ==
    ASSUME Typed, Typed', CheckpointsNext, NEW t \in Uncaptured'
    PROVE  t \in Uncaptured \/ (EndTurn /\ t = provider.turn)
<1>1. /\ \A u : u \in Ended <=> \E i \in DOMAIN inbox : inbox[i].kind = "completed" /\ inbox[i].n = u
      /\ \A u : u \in Ended' <=> \E i \in DOMAIN inbox' : inbox'[i].kind = "completed" /\ inbox'[i].n = u
  <2>1. DOMAIN inbox' = 1 .. Len(inbox')
    BY DEF Typed, Inboxed
  <2> QED
    BY <2>1, EndedIs DEF Ended
<1>2. CASE work'.at = "capturing" /\ t = work'.n
  <2>1. CASE UNCHANGED work
    BY <1>2, <2>1 DEF Uncaptured, At
  <2>2. CASE TakeCompleted /\ work'.n = Head(inbox).n
    <3>1. 1 \in DOMAIN inbox /\ inbox[1] = Head(inbox) /\ Head(inbox).kind = "completed"
      BY <2>2, TakenFirst DEF TakeCompleted
    <3> QED
      BY <1>1, <1>2, <2>2, <3>1 DEF Uncaptured
  <2> QED
    BY <1>2, <2>1, <2>2, WorkSteps DEF Reverting
<1>3. CASE t \in Ended'
  <2>1. PICK i \in DOMAIN inbox' : inbox'[i].kind = "completed" /\ inbox'[i].n = t
    BY <1>1, <1>3
  <2>2. CASE \E j \in DOMAIN inbox : inbox[j] = inbox'[i]
    BY <1>1, <2>1, <2>2 DEF Uncaptured
  <2>3. CASE AskTurn \/ SendTurn \/ RequestRevert
    <3>1. PICK more \in {{Input("message", provider.turn + 1), Input("start", provider.turn + 1)},
                         {Input("started", provider.turn)}} \cup {{Input("revert", n)} : n \in Nat} : Joined(more)
      BY <2>3, Inputs
    <3>2. \A e \in more : e.kind # "completed"
      BY <3>1 DEF Input
    <3> QED
      BY <2>1, <2>2, <3>1, <3>2 DEF Joined
  <2>4. CASE EndTurn
    <3>1. PICK ready \in BOOLEAN : Joined({[Input("completed", provider.turn) EXCEPT !.ready = ready]})
      BY <2>4, Inputs
    <3>2. CASE i \in DOMAIN inbox
      BY <2>2, <3>1, <3>2 DEF Joined
    <3>3. CASE i \notin DOMAIN inbox
      <4>1. inbox'[i].n = provider.turn
        BY <3>1, <3>3 DEF Joined, Input
      <4> QED
        BY <2>1, <2>4, <4>1
    <3> QED
      BY <3>2, <3>3
  <2>5. CASE UNCHANGED inbox
    BY <2>2, <2>5
  <2>6. CASE inbox # <<>> /\ inbox' = Tail(inbox)
    BY <2>2, <2>6, Taken
  <2> QED
    BY <2>3, <2>4, <2>5, <2>6, InboxSteps
<1> QED
  BY <1>2, <1>3 DEF Uncaptured, At

LEMMA UnfinishedSteps ==
    ASSUME Typed, Typed', CheckpointsNext, NEW t \in Turns, Unfinished(t)'
    PROVE  Unfinished(t) \/ (AskTurn /\ t = provider.turn + 1)
<1>1. CASE t \in Uncaptured'
  <2>1. t \in Uncaptured \/ (EndTurn /\ t = provider.turn)
    BY <1>1, UncapturedSteps
  <2> QED
    BY <2>1 DEF Unfinished, EndTurn
<1>2. CASE t = provider'.turn /\ provider'.at # "idle"
  BY <1>2, ProviderSteps DEF Unfinished
<1> QED
  BY <1>1, <1>2 DEF Unfinished

\* Nothing is unfinished while the worker reverts.
LEMMA NothingUnfinished ==
    ASSUME Typed, Ordered, work.at \in Reverting, NEW t
    PROVE  ~Unfinished(t)
<1>1. provider.at = "idle" /\ \A j \in DOMAIN inbox : inbox[j].kind = "revert"
  BY DEF Ordered, RevertsLast
<1>2. t \notin Ended
  BY <1>1, EndedIs
<1> QED
  BY <1>1, <1>2 DEF Unfinished, Uncaptured, At, Reverting

\* The files of a turn that is over do not change any more.
LEMMA EditedStays ==
    ASSUME CheckpointsNext, NEW t, Over(t)
    PROVE  edited' \cap {t} = edited \cap {t}
BY DiskSteps DEF Over

LEMMA SentBegun == ASSUME NEW t, Sent(t) PROVE Begun(t)
BY DEF Sent, Begun, Asked
LEMMA StartsCapturedStep ==
    ASSUME Typed, Owned, CheckpointsNext, Clean'
    PROVE  StartsCaptured'
<1> SUFFICES ASSUME NEW t \in Turns, Begun(t)'
             PROVE  Exists(MessageStart(t))'
  BY DEF StartsCaptured, Begun, Asked, Exists, MessageStart
<1>1. CASE Begun(t)
  <2>1. Exists(MessageStart(t))
    BY <1>1 DEF Owned, StartsCaptured
  <2> QED
    BY <2>1, StartRefs
<1>2. CASE CaptureMessageStart /\ t = provider.turn
  BY <1>2, WithRefFacts DEF CaptureMessageStart, Capture, Exists
<1>3. Begun(t) \/ (CaptureMessageStart /\ t = provider.turn)
  <2>1. provider.turn \in Nat /\ t \in Nat
    BY TurnFacts DEF Typed, Provided, Provider
  <2>2. ~CaptureMessageStartFails
    BY CleanBefore
  <2>3. CASE AskTurn /\ provider'.turn = provider.turn + 1 /\ provider.at = "idle" /\ provider'.at = "asked"
    BY <2>1, <2>3 DEF Begun, Asked
  <2>4. CASE /\ CaptureMessageStart \/ CaptureMessageStartFails
             /\ provider'.turn = provider.turn /\ provider.at = "asked" /\ provider'.at = "hooked"
    BY <2>1, <2>2, <2>4 DEF Begun, Asked
  <2>5. CASE provider'.turn = provider.turn /\ (provider'.at = provider.at \/ provider.at # "asked")
    BY <2>1, <2>5 DEF Begun, Asked
  <2> QED
    BY <2>3, <2>4, <2>5, ProviderSteps
<1> QED
  BY <1>1, <1>2, <1>3

\* The tree that a step names as the start of a turn is still the turn's own.
LEMMA StartsOwnNow ==
    ASSUME Typed, Ordered, Owned, CheckpointsNext, NEW t \in Turns, Unfinished(t)
    PROVE  /\ Exists(MessageStart(t))' => Own(refs'[MessageStart(t)], t)
           /\ Exists(TurnStart(t))' => Own(refs'[TurnStart(t)], t)
<1>1. /\ Exists(MessageStart(t)) => Own(refs[MessageStart(t)], t)
      /\ Exists(TurnStart(t)) => Own(refs[TurnStart(t)], t)
  BY DEF Owned, StartsOwn
<1>2. t \notin edited => Own(disk, t)
  BY DEF Own, Difference
<1>3. CASE CaptureMessageStart /\ t = provider.turn
  <2>1. ~Sent(t)
    BY <1>3 DEF CaptureMessageStart, Sent
  <2>2. t \notin edited
    BY <2>1 DEF Ordered, EditsOrdered
  <2>3. DOMAIN refs' = DOMAIN refs \cup {MessageStart(t)} /\ refs'[MessageStart(t)] = disk
        /\ \A r \in DOMAIN refs : r # MessageStart(t) => refs'[r] = refs[r]
    BY <1>3, WithRefFacts DEF CaptureMessageStart, Capture
  <2> QED
    BY <1>1, <1>2, <2>2, <2>3, Names DEF Exists
<1>4. CASE CaptureBackup /\ t = work.n
  <2>1. t \notin edited
    BY <1>4 DEF CaptureBackup, At, Owned, WorkOwn
  <2>2. DOMAIN refs' = DOMAIN refs \cup {MessageStart(t)} /\ refs'[MessageStart(t)] = disk
        /\ \A r \in DOMAIN refs : r # MessageStart(t) => refs'[r] = refs[r]
    BY <1>4, WithRefFacts DEF CaptureBackup, Capture
  <2> QED
    BY <1>1, <1>2, <2>1, <2>2, Names DEF Exists
<1>5. CASE TakeStarted /\ t = Head(inbox).n
  <2>1. inbox[1] = Head(inbox) /\ Head(inbox).kind = "started" /\ 1 \in DOMAIN inbox
    BY <1>5, TakenFirst DEF TakeStarted
  <2>2. Sent(t)
    BY <1>5, <2>1 DEF Ordered, InboxOrdered
  <2>3. Exists(MessageStart(t))
    BY <2>2, SentBegun DEF Owned, StartsCaptured
  <2>4. refs' = WithRef(TurnStart(t), refs[MessageStart(t)])
    BY <1>5, <2>3 DEF TakeStarted
  <2>5. DOMAIN refs' = DOMAIN refs \cup {TurnStart(t)} /\ refs'[TurnStart(t)] = refs[MessageStart(t)]
        /\ \A r \in DOMAIN refs : r # TurnStart(t) => refs'[r] = refs[r]
    BY <2>4, WithRefFacts
  <2> QED
    BY <1>1, <2>3, <2>5, Names DEF Exists
<1>6. CASE /\ Exists(MessageStart(t))' <=> Exists(MessageStart(t))
           /\ Exists(MessageStart(t)) => refs'[MessageStart(t)] = refs[MessageStart(t)]
           /\ Exists(TurnStart(t))' <=> Exists(TurnStart(t))
           /\ Exists(TurnStart(t)) => refs'[TurnStart(t)] = refs[TurnStart(t)]
  BY <1>1, <1>6
<1> QED
  BY <1>3, <1>4, <1>5, <1>6, StartRefs

LEMMA StartsOwnStep ==
    ASSUME Typed, Typed', Ordered, Owned, CheckpointsNext, Clean'
    PROVE  StartsOwn'
<1> SUFFICES ASSUME NEW t \in Turns, Unfinished(t)'
             PROVE  /\ Exists(MessageStart(t))' => Own(refs[MessageStart(t)], t)'
                    /\ Exists(TurnStart(t))' => Own(refs[TurnStart(t)], t)'
  BY DEF StartsOwn, MessageStart, TurnStart
<1>1. CASE AskTurn /\ t = provider.turn + 1
  <2>1. ~Asked(t)
    <3>1. provider.turn \in Nat
      BY TurnFacts DEF Typed, Provided, Provider
    <3> QED
      BY <1>1, <3>1 DEF Asked
  <2>2. ~Exists(MessageStart(t)) /\ ~Exists(TurnStart(t))
    BY <2>1 DEF Ordered, RefsOrdered
  <2>3. UNCHANGED refs
    BY <1>1 DEF AskTurn, repository
  <2> QED
    BY <2>2, <2>3 DEF Exists
<1>2. CASE Unfinished(t)
  <2>1. /\ Exists(MessageStart(t))' => Own(refs'[MessageStart(t)], t)
        /\ Exists(TurnStart(t))' => Own(refs'[TurnStart(t)], t)
    BY <1>2, StartsOwnNow
  <2>2. CASE UNCHANGED <<disk, edited>>
    BY <2>1, <2>2 DEF Own, Difference
  <2>3. CASE UserEdits
    BY <1>2, <2>3, CleanBefore DEF UserEdits, Unfinished
  <2>4. CASE work.at = "restoring"
    BY <1>2, <2>4, NothingUnfinished DEF Reverting
  <2>5. CASE /\ EditFiles /\ disk' = disk \cup {provider.turn} /\ edited' = edited \cup {provider.turn}
             /\ provider.turn \notin edited
    <3>1. t = provider.turn /\ UNCHANGED refs /\ t # ByUser
      BY <1>2, <2>5, CleanBefore, TurnFacts DEF EditFiles, Unfinished, ByUser
    <3>2. t \notin disk /\ \A r \in DOMAIN refs : t \notin refs[r]
      BY <2>5, <3>1 DEF Ordered, EditsOrdered
    <3>3. ASSUME NEW tree, t \notin tree, Own(tree, t)
          PROVE  Difference(tree, disk') = edited' \cap {t}
      BY <2>5, <3>1, <3>2, <3>3 DEF Own, Difference
    <3> QED
      BY <2>1, <3>1, <3>2, <3>3 DEF Exists, Own
  <2> QED
    BY <2>2, <2>3, <2>4, <2>5, DiskSteps
<1> QED
  BY <1>1, <1>2, UnfinishedSteps

LEMMA WorkOwnStep ==
    ASSUME Typed, Ordered, Owned, CheckpointsNext, Clean'
    PROVE  WorkOwn'
<1>1. ASSUME work'.at = "backup"
      PROVE  work'.n \notin edited'
  <2>1. CASE UNCHANGED work
    <3>1. work.n \notin edited
      BY <1>1, <2>1 DEF Owned, WorkOwn
    <3>2. ~EditFiles
      BY <1>1, <2>1, CleanBefore
    <3> QED
      BY <2>1, <3>1, <3>2, DiskSteps
  <2>2. CASE TakeMessage \/ TakeStarted
    BY <1>1, <2>2 DEF TakeMessage, TakeStarted, Continue, Rest
  <2>3. CASE TakeStart
    <3>1. work'.n = Head(inbox).n /\ ~Exists(MessageStart(Head(inbox).n)) /\ edited' = edited
      BY <1>1, <2>3 DEF TakeStart, Continue, Rest, history
    <3>2. Head(inbox).n \in Turns
      BY <2>3, TakenFirst DEF TakeStart
    <3>3. ~Sent(Head(inbox).n)
      BY <3>1, <3>2, SentBegun DEF Owned, StartsCaptured
    <3> QED
      BY <3>1, <3>3 DEF Ordered, EditsOrdered
  <2> QED
    BY <1>1, <2>1, <2>2, <2>3, WorkSteps DEF Reverting, Rest
<1>2. ASSUME work'.at = "captured", work'.ready
      PROVE  work'.files = edited' \cap {work'.n}
  <2>1. CASE UNCHANGED work
    <3>1. work.files = edited \cap {work.n} /\ Over(work.n)
      BY <1>2, <2>1 DEF Owned, WorkOwn, Ordered, WorkOrdered, Capturing
    <3> QED
      BY <2>1, <3>1, EditedStays
  <2>2. CASE CaptureTurn
    <3>1. /\ work'.n = work.n /\ edited' = edited /\ work.at = "capturing" /\ Exists(TurnStart(work.n))
          /\ work'.files = Difference(refs[TurnStart(work.n)], disk)
      BY <1>2, <2>2 DEF CaptureTurn, At, history, Typed, Worked, Worker
    <3>2. work.n \in Turns /\ Unfinished(work.n)
      BY <3>1 DEF Unfinished, Uncaptured, At, Typed, Worked, Reverting
    <3>3. Own(refs[TurnStart(work.n)], work.n)
      BY <3>1, <3>2 DEF Owned, StartsOwn
    <3> QED
      BY <3>1, <3>3 DEF Own
  <2> QED
    BY <1>2, <2>1, <2>2, WorkSteps DEF Reverting, Rest
<1> QED
  BY <1>1, <1>2 DEF WorkOwn

LEMMA RowsOwnStep ==
    ASSUME Typed, Ordered, Owned, CheckpointsNext
    PROVE  RowsOwn'
<1> SUFFICES ASSUME NEW t \in Turns, rows'[t].ready
             PROVE  rows'[t].files = edited' \cap {t}
  BY DEF RowsOwn
<1>1. CASE rows[t].ready /\ rows'[t].files = rows[t].files
  <2>1. rows[t].files = edited \cap {t} /\ Over(t)
    BY <1>1 DEF Owned, RowsOwn, Ordered, RowsOrdered
  <2> QED
    BY <1>1, <2>1, EditedStays
<1>2. CASE t = work.n /\ work.at = "captured" /\ work.ready /\ rows'[t].files = work.files
  <2>1. work.files = edited \cap {t} /\ Over(t)
    BY <1>2 DEF Owned, WorkOwn, Ordered, WorkOrdered, Capturing
  <2> QED
    BY <1>2, <2>1, EditedStays
<1> QED
  BY <1>1, <1>2, ReadySteps

LEMMA InitOwning == CheckpointsInit => Owning
<1> SUFFICES ASSUME CheckpointsInit
             PROVE  Owned
  BY DEF Owning
<1>1. \A t \in Turns : ~Asked(t) /\ ~Unfinished(t)
  BY TurnFacts DEF CheckpointsInit, Asked, Unfinished, Uncaptured, Ended, At, Rest
<1> QED
  BY <1>1 DEF CheckpointsInit, Owned, StartsCaptured, StartsOwn, WorkOwn, RowsOwn, Begun, Rest, NoRow

LEMMA SameOwning == Owning /\ UNCHANGED checkpointVars => Owning'
<1> SUFFICES ASSUME Owning, UNCHANGED <<disk, refs, provider, rows, inbox, work, edited, mishaps>>
             PROVE  Owning'
  BY DEF checkpointVars, repository, ingestion, reactor, history
<1> USE DEF MessageStart, TurnStart
<1>1. (Clean' <=> Clean) /\ Uncaptured' = Uncaptured
  BY DEF Clean, Uncaptured, Ended, At
<1>2. StartsCaptured => StartsCaptured'
  BY DEF StartsCaptured, Begun, Asked, Exists
<1>3. StartsOwn => StartsOwn'
  BY <1>1 DEF StartsOwn, Unfinished, Own, Difference, Exists
<1>4. (WorkOwn => WorkOwn') /\ (RowsOwn => RowsOwn')
  BY DEF WorkOwn, RowsOwn
<1> QED
  BY <1>1, <1>2, <1>3, <1>4 DEF Owning, Owned

LEMMA OwningStep == Typed /\ Typed' /\ Ordered /\ Owning /\ [CheckpointsNext]_checkpointVars => Owning'
<1> SUFFICES ASSUME Typed, Typed', Ordered, Owning, CheckpointsNext, Clean'
             PROVE  Owned'
  BY SameOwning DEF Owning
<1>1. Owned
  BY CleanBefore DEF Owning
<1> QED
  BY <1>1, StartsCapturedStep, StartsOwnStep, WorkOwnStep, RowsOwnStep DEF Owned

\* Whatever is captured, shown and reverted in which order, however late the reactor hears of the start of
\* a turn: the diff of a turn holds its own edits and nothing else, if no capture failed and no
\* edit fell into a capture that was late (DiffsAreOwn).
THEOREM DiffsStayOwn == CheckpointsSpec => []DiffsAreOwn
<1>1. CheckpointsInit => Typed /\ Ordered /\ Owning
  BY InitTyped, InitOrdered, InitOwning
<1>2. (Typed /\ Ordered /\ Owning) /\ [CheckpointsNext]_checkpointVars => (Typed /\ Ordered /\ Owning)'
  BY TypedStep, OrderedStep, OwningStep
<1>3. Owning => DiffsAreOwn
  BY DEF Owning, Owned, Clean, RowsOwn, DiffsAreOwn, Visible
<1> QED
  BY <1>1, <1>2, <1>3, PTL DEF CheckpointsSpec
-----------------------------------------------------------------------------------
\* A captured checkpoint stays.

\* What ingestion has yet to take is started, live diffs, completed, turn after turn.
Linked == \A i \in DOMAIN ingest :
    /\ ingest[i].kind = "started" =>
          IF i = 1 THEN active = 0 ELSE ingest[i - 1].kind = "completed"
    /\ ingest[i].kind # "started" =>
          IF i = 1 THEN active = ingest[1].n
          ELSE ingest[i - 1].kind # "completed" /\ ingest[i - 1].n = ingest[i].n
LinkedLast ==
    IF ingest = <<>> THEN active = (IF provider.at = "running" THEN provider.turn ELSE 0)
    ELSE LET last == ingest[Len(ingest)]
         IN  IF provider.at = "running" THEN last.kind # "completed" /\ last.n = provider.turn
                                        ELSE last.kind = "completed"
TrackedActive == \A t \in Turns : tracked[t] # 0 => active = t

OneCount == \A t, u \in Turns : t # u /\ rows[t].count = rows[u].count => rows[t].count = 0
RealShows == \A t \in Turns : rows[t].kind = "real" => t \in Visible
\* No other turn has this count for good.
Free(t, count) == \A u \in Turns \ {t} : rows[u].kind = "real" => rows[u].count # count
WorkFree == work.at \in Capturing => work.max > 0 /\ Free(work.n, work.max)
\* Unless a live diff was overtaken, its turn has no checkpoint of its own yet, and no other
\* turn is given one while its placeholder is on the way or tracked.
NotOvertaken ==
    /\ live # NoLive =>
          /\ rows[live.turn].kind # "real" /\ Free(live.turn, live.count)
          /\ work.at \in Capturing => work.n = live.turn
    /\ \A t \in Turns : tracked[t] # 0 =>
          Free(t, tracked[t]) /\ (work.at \in Capturing => work.n = t)
Overtakes == "overtaken" \notin mishaps => NotOvertaken

Staying == Linked /\ LinkedLast /\ TrackedActive /\ OneCount /\ RealShows /\ WorkFree /\ Overtakes

\* What a step does to the inputs of ingestion.
LEMMA IngestSteps ==
    ASSUME Typed, CheckpointsNext
    PROVE  \/ UNCHANGED <<ingest, active>>
           \/ SendTurn \/ UpdateDiff \/ EndTurn
           \/ /\ IngestStarted \/ IngestCompleted \/ ReadDiff \/ DispatchPlaceholder
              /\ ingest # <<>> /\ ingest' = Tail(ingest)
              /\ Head(ingest).kind = "started" => active' = Head(ingest).n
              /\ Head(ingest).kind = "diff" => active' = active
              /\ Head(ingest).kind = "completed" => active' = 0
              /\ UNCHANGED provider
<1>1. CASE SendTurn \/ UpdateDiff \/ EndTurn
  BY <1>1
<1>2. CASE IngestStarted \/ IngestCompleted
  BY <1>2 DEF IngestStarted, IngestCompleted, NextIs
<1>3. CASE DispatchPlaceholder
  BY <1>3, LiveAtDiff DEF DispatchPlaceholder, NextIs
<1>4. CASE ReadDiff
  BY <1>4 DEF ReadDiff, NextIs
<1>5. CASE \/ UserEdits \/ AskTurn \/ CaptureMessageStart \/ CaptureMessageStartFails
           \/ EditFiles \/ RequestRevert
           \/ TakeMessage \/ TakeStart \/ CaptureBackup \/ TakeStarted \/ EnsureBaseline
           \/ TakeCompleted \/ CaptureTurn \/ DispatchCheckpoint
           \/ TakeRevert \/ Restore \/ RollBack \/ DeleteStale \/ CompleteRevert \/ ReactorFails
  BY <1>5 DEF UserEdits, AskTurn, CaptureMessageStart, CaptureMessageStartFails, EditFiles, RequestRevert,
       TakeMessage, TakeStart, CaptureBackup, TakeStarted, EnsureBaseline, TakeCompleted, CaptureTurn,
       DispatchCheckpoint, TakeRevert, Restore, RollBack, DeleteStale, CompleteRevert, ReactorFails, ingestion
<1> QED
  BY <1>1, <1>2, <1>3, <1>4, <1>5 DEF CheckpointsNext

LEMMA LinkedAt ==
    ASSUME Linked, NEW k \in DOMAIN ingest
    PROVE  /\ ingest[k].kind = "started" /\ k = 1 => active = 0
           /\ ingest[k].kind = "started" /\ k # 1 => ingest[k - 1].kind = "completed"
           /\ ingest[k].kind # "started" /\ k = 1 => active = ingest[1].n
           /\ ingest[k].kind # "started" /\ k # 1 => ingest[k - 1].kind # "completed" /\ ingest[k - 1].n = ingest[k].n
BY DEF Linked

\* An input follows those that ingestion has yet to take ...
LEMMA LinkJoined ==
    ASSUME Typed, Linked, LinkedLast, NEW e \in RuntimeInput, ingest' = Append(ingest, e), active' = active,
           e.n = provider.turn, e.kind = "started" <=> provider.at # "running",
           provider'.turn = provider.turn,
           provider'.at = "running" <=> e.kind # "completed"
    PROVE  Linked' /\ LinkedLast'
<1> DEFINE n == Len(ingest)
<1>1. /\ n \in Nat /\ DOMAIN ingest = 1 .. n /\ DOMAIN ingest' = 1 .. (n + 1) /\ Len(ingest') = n + 1
      /\ \A i \in 1 .. n : ingest'[i] = ingest[i]
      /\ ingest'[n + 1] = e /\ ingest' # <<>> /\ (n = 0 <=> ingest = <<>>)
  <2>1. ingest \in Seq(RuntimeInput)
    BY DEF Typed, Ingesting
  <2> QED
    BY <2>1, AppendFacts
<1> HIDE DEF n
<1>2. \A i \in 1 .. (n + 1) : i \in Nat /\ (i \in 1 .. n \/ i = n + 1) /\ (i # 1 /\ i \in 1 .. n => i - 1 \in 1 .. n)
  BY <1>1
<1>3. n # 0 => (n + 1) - 1 = n /\ n \in 1 .. n /\ n + 1 # 1
  BY <1>1
<1>4. ASSUME NEW i \in 1 .. n
      PROVE  /\ ingest'[i].kind = "started" =>
                   IF i = 1 THEN active' = 0 ELSE ingest'[i - 1].kind = "completed"
             /\ ingest'[i].kind # "started" =>
                   IF i = 1 THEN active' = ingest'[1].n
                   ELSE ingest'[i - 1].kind # "completed" /\ ingest'[i - 1].n = ingest'[i].n
  <2>1. i \in DOMAIN ingest /\ ingest'[i] = ingest[i] /\ (i # 1 => ingest'[i - 1] = ingest[i - 1])
    BY <1>1, <1>2
  <2> QED
    BY <2>1, LinkedAt
<1>5. /\ e.kind = "started" =>
            IF n + 1 = 1 THEN active' = 0 ELSE ingest'[(n + 1) - 1].kind = "completed"
      /\ e.kind # "started" =>
            IF n + 1 = 1 THEN active' = e.n
            ELSE ingest'[(n + 1) - 1].kind # "completed" /\ ingest'[(n + 1) - 1].n = e.n
  <2>1. CASE n = 0
    BY <1>1, <2>1 DEF LinkedLast
  <2>2. CASE n # 0
    BY <1>1, <1>3, <2>2 DEF LinkedLast, n
  <2> QED
    BY <2>1, <2>2
<1>6. Linked'
  BY <1>1, <1>2, <1>4, <1>5 DEF Linked
<1>7. LinkedLast'
  BY <1>1 DEF LinkedLast
<1> QED
  BY <1>6, <1>7

\* ... and the next one follows what it has taken.
LEMMA LinkTaken ==
    ASSUME Typed, Linked, LinkedLast, ingest # <<>>, ingest' = Tail(ingest), UNCHANGED provider,
           Head(ingest).kind = "started" => active' = Head(ingest).n,
           Head(ingest).kind = "diff" => active' = active,
           Head(ingest).kind = "completed" => active' = 0
    PROVE  Linked' /\ LinkedLast'
<1> DEFINE n == Len(ingest)
<1>1. /\ n \in Nat \ {0} /\ DOMAIN ingest = 1 .. n /\ DOMAIN ingest' = 1 .. (n - 1) /\ Len(ingest') = n - 1
      /\ \A i \in 1 .. (n - 1) : i + 1 \in 1 .. n /\ ingest'[i] = ingest[i + 1]
      /\ Head(ingest) = ingest[1] /\ ingest[1] \in RuntimeInput
      /\ ingest' \in Seq(RuntimeInput)
  <2>1. ingest \in Seq(RuntimeInput)
    BY DEF Typed, Ingesting
  <2> QED
    BY <2>1, TailFacts
<1>2. ingest' = <<>> <=> n = 1
  BY <1>1
<1> HIDE DEF n
<1>3. active' = IF ingest[1].kind = "completed" THEN 0 ELSE ingest[1].n
  <2>1. 1 \in 1 .. n
    BY <1>1
  <2>2. ingest[1].kind = "diff" => active = ingest[1].n
    BY <1>1, <2>1 DEF Linked
  <2> QED
    BY <1>1, <2>2 DEF RuntimeInput
<1>4. ASSUME NEW i \in 1 .. (n - 1)
      PROVE  /\ ingest'[i].kind = "started" =>
                   IF i = 1 THEN active' = 0 ELSE ingest'[i - 1].kind = "completed"
             /\ ingest'[i].kind # "started" =>
                   IF i = 1 THEN active' = ingest'[1].n
                   ELSE ingest'[i - 1].kind # "completed" /\ ingest'[i - 1].n = ingest'[i].n
  <2>1. /\ i + 1 \in 1 .. n /\ i + 1 # 1 /\ (i + 1) - 1 = i /\ ingest'[i] = ingest[i + 1]
        /\ (i # 1 => i - 1 \in 1 .. (n - 1) /\ (i - 1) + 1 = i)
    BY <1>1
  <2>2. /\ ingest[i + 1].kind = "started" => ingest[i].kind = "completed"
        /\ ingest[i + 1].kind # "started" => ingest[i].kind # "completed" /\ ingest[i].n = ingest[i + 1].n
    <3>1. PICK k \in DOMAIN ingest : k = i + 1 /\ k # 1 /\ k - 1 = i
      BY <1>1, <2>1
    <3>2. /\ ingest[k].kind = "started" => ingest[k - 1].kind = "completed"
          /\ ingest[k].kind # "started" => ingest[k - 1].kind # "completed" /\ ingest[k - 1].n = ingest[k].n
      BY <3>1, LinkedAt
    <3> QED
      BY <3>1, <3>2
  <2>3. CASE i = 1
    BY <1>3, <2>1, <2>2, <2>3
  <2>4. CASE i # 1
    <3>1. ingest'[i - 1] = ingest[i]
      BY <1>1, <2>1, <2>4
    <3> QED
      BY <2>1, <2>2, <2>4, <3>1
  <2> QED
    BY <2>3, <2>4
<1>5. Linked'
  BY <1>1, <1>4 DEF Linked
<1>6. LinkedLast'
  <2>1. CASE n = 1
    <3>1. IF provider.at = "running" THEN ingest[1].kind # "completed" /\ ingest[1].n = provider.turn
                                     ELSE ingest[1].kind = "completed"
      BY <2>1 DEF LinkedLast, n
    <3> QED
      BY <1>2, <1>3, <2>1, <3>1 DEF LinkedLast
  <2>2. CASE n # 1
    <3>1. ingest'[Len(ingest')] = ingest[Len(ingest)]
      <4>1. n - 1 \in 1 .. (n - 1) /\ (n - 1) + 1 = n
        BY <1>1, <2>2
      <4> QED
        BY <1>1, <4>1 DEF n
    <3> QED
      BY <1>2, <2>2, <3>1 DEF LinkedLast
  <2> QED
    BY <2>1, <2>2
<1> QED
  BY <1>5, <1>6

LEMMA LinkedStep ==
    ASSUME Typed, Linked, LinkedLast, CheckpointsNext
    PROVE  Linked' /\ LinkedLast'
<1>1. CASE SendTurn
  <2>1. /\ provider.turn \in Turns /\ provider.at = "hooked" /\ active' = active
        /\ ingest' = Append(ingest, Input("started", provider.turn))
        /\ provider'.turn = provider.turn /\ provider'.at = "running"
    BY <1>1 DEF SendTurn, Typed, Provided, Provider
  <2>2. /\ Input("started", provider.turn) \in RuntimeInput
        /\ Input("started", provider.turn).kind = "started"
        /\ Input("started", provider.turn).n = provider.turn
    BY <2>1, InputTyped
  <2> QED
    BY <2>1, <2>2, LinkJoined
<1>2. CASE UpdateDiff
  <2>1. /\ provider.turn \in Turns /\ provider.at = "running" /\ active' = active
        /\ ingest' = Append(ingest, Input("diff", provider.turn))
        /\ provider'.turn = provider.turn /\ provider'.at = "running"
    BY <1>2 DEF UpdateDiff, Typed, Provided, Provider
  <2>2. /\ Input("diff", provider.turn) \in RuntimeInput
        /\ Input("diff", provider.turn).kind = "diff"
        /\ Input("diff", provider.turn).n = provider.turn
    BY <2>1, InputTyped
  <2> QED
    BY <2>1, <2>2, LinkJoined
<1>3. CASE EndTurn
  <2>1. /\ provider.turn \in Turns /\ provider.at = "running" /\ active' = active
        /\ provider'.turn = provider.turn /\ provider'.at = "idle"
    BY <1>3 DEF EndTurn, Typed, Provided, Provider
  <2>2. PICK ready \in BOOLEAN :
           ingest' = Append(ingest, [Input("completed", provider.turn) EXCEPT !.ready = ready])
    BY <1>3, Inputs
  <2> DEFINE e == [Input("completed", provider.turn) EXCEPT !.ready = ready]
  <2>3. e \in RuntimeInput /\ e.kind = "completed" /\ e.n = provider.turn
    BY <2>1 DEF Input, RuntimeInput
  <2>4. ingest' = Append(ingest, e)
    BY <2>2
  <2> HIDE DEF e
  <2> QED
    BY <2>1, <2>3, <2>4, LinkJoined
<1>4. CASE UNCHANGED <<ingest, active>> /\ ~SendTurn /\ ~UpdateDiff /\ ~EndTurn
  <2>1. (provider'.at = "running" <=> provider.at = "running")
        /\ (provider.at = "running" => provider'.turn = provider.turn)
    BY <1>4, ProviderSteps
  <2> QED
    BY <1>4, <2>1 DEF Linked, LinkedLast
<1> QED
  BY <1>1, <1>2, <1>3, <1>4, LinkTaken, IngestSteps
\* The turn that ingestion is at is the active one, from when it has taken its start.
LEMMA HeadActive ==
    ASSUME Typed, Linked, NEW kind, NextIs(kind)
    PROVE  /\ kind = "started" => active = 0
           /\ kind # "started" => active = Head(ingest).n
<1>1. ingest \in Seq(RuntimeInput) /\ ingest # <<>> /\ Head(ingest).kind = kind
  BY DEF Typed, Ingesting, NextIs
<1>2. 1 \in DOMAIN ingest /\ Head(ingest) = ingest[1]
  BY <1>1, TailFacts
<1> QED
  BY <1>1, <1>2, LinkedAt

LEMMA LiveActive ==
    ASSUME Typed, Linked, live # NoLive
    PROVE  active = live.turn /\ live.turn \in Turns /\ active # 0
<1>1. NextIs("diff") /\ Head(ingest).n = live.turn /\ live.turn \in Turns
  BY LiveAtDiff DEF Typed, Lived
<1> QED
  BY <1>1, HeadActive, TurnFacts

LEMMA TrackedActiveStep ==
    ASSUME Typed, Linked, TrackedActive, CheckpointsNext
    PROVE  TrackedActive'
<1>1. tracked \in [Turns -> Nat] /\ \A t \in Turns : tracked[t] # 0 => active = t /\ t # 0
  BY TurnFacts DEF Typed, Ingesting, TrackedActive
<1>2. CASE IngestStarted
  <2>1. active = 0 /\ tracked' = tracked
    BY <1>2, HeadActive DEF IngestStarted
  <2> QED
    BY <1>1, <2>1 DEF TrackedActive
<1>3. CASE IngestCompleted
  <2>1. active = Head(ingest).n /\ tracked' = [tracked EXCEPT ![Head(ingest).n] = 0]
    BY <1>3, HeadActive DEF IngestCompleted
  <2> QED
    BY <1>1, <2>1 DEF TrackedActive
<1>4. CASE ReadDiff
  <2>1. active' = active /\ (tracked' = tracked \/ tracked' = [tracked EXCEPT ![Head(ingest).n] = 0])
    BY <1>4 DEF ReadDiff
  <2> QED
    BY <1>1, <2>1 DEF TrackedActive
<1>5. CASE DispatchPlaceholder
  <2>1. active = live.turn /\ active' = active
    BY <1>5, LiveActive DEF DispatchPlaceholder
  <2>2. tracked' = tracked \/ tracked' = [tracked EXCEPT ![live.turn] = live.count]
    BY <1>5 DEF DispatchPlaceholder
  <2> QED
    BY <1>1, <2>1, <2>2 DEF TrackedActive
<1>6. CASE UNCHANGED <<active, tracked>>
  BY <1>6 DEF TrackedActive
<1>7. CASE \/ UserEdits \/ AskTurn \/ CaptureMessageStart \/ CaptureMessageStartFails \/ SendTurn
           \/ EditFiles \/ UpdateDiff \/ EndTurn \/ RequestRevert
           \/ TakeMessage \/ TakeStart \/ CaptureBackup \/ TakeStarted \/ EnsureBaseline
           \/ TakeCompleted \/ CaptureTurn \/ DispatchCheckpoint
           \/ TakeRevert \/ Restore \/ RollBack \/ DeleteStale \/ CompleteRevert \/ ReactorFails
  <2>1. UNCHANGED <<active, tracked>>
    BY <1>7 DEF UserEdits, AskTurn, CaptureMessageStart, CaptureMessageStartFails, SendTurn, EditFiles, UpdateDiff,
         EndTurn, RequestRevert, TakeMessage, TakeStart, CaptureBackup, TakeStarted, EnsureBaseline, TakeCompleted,
         CaptureTurn, DispatchCheckpoint, TakeRevert, Restore, RollBack, DeleteStale, CompleteRevert, ReactorFails,
         ingestion
  <2> QED
    BY <1>6, <2>1
<1> QED
  BY <1>2, <1>3, <1>4, <1>5, <1>7 DEF CheckpointsNext

\* What a step does to the rows.
Closes == \A t \in Turns :
    /\ rows'[t].count = rows[t].count /\ (rows[t].closed => rows'[t].closed)
    /\ rows'[t].kind = "real" <=> rows[t].kind = "real"

LEMMA RowSteps ==
    ASSUME Typed, CheckpointsNext
    PROVE  \/ UNCHANGED rows
           \/ Closes
           \/ /\ DispatchPlaceholder /\ live # NoLive
              /\ DiffCompleted(live.turn, "diff", live.count, FALSE, {})
           \/ /\ DispatchCheckpoint /\ work.at = "captured" /\ work' = Rest
              /\ DiffCompleted(work.n, "real", work.max, work.ready, work.files)
           \/ /\ CompleteRevert /\ work.at = "completing"
              /\ \A t \in Turns : rows'[t] \in {rows[t], NoRow}
<1>1. rows \in [Turns -> Row] /\ \A t \in Turns : rows[t] \in Row
  BY DEF Typed, Rowed
<1>2. CASE \/ UserEdits \/ AskTurn \/ CaptureMessageStart \/ CaptureMessageStartFails \/ SendTurn
           \/ EditFiles \/ UpdateDiff \/ EndTurn \/ RequestRevert \/ ReadDiff
           \/ TakeMessage \/ TakeStart \/ CaptureBackup \/ TakeStarted \/ EnsureBaseline
           \/ TakeCompleted \/ CaptureTurn
           \/ TakeRevert \/ Restore \/ RollBack \/ DeleteStale \/ ReactorFails
  BY <1>2 DEF UserEdits, AskTurn, CaptureMessageStart, CaptureMessageStartFails, SendTurn, EditFiles,
       UpdateDiff, EndTurn, RequestRevert, ReadDiff, TakeMessage, TakeStart, CaptureBackup, TakeStarted,
       EnsureBaseline, TakeCompleted, CaptureTurn, TakeRevert, Restore, RollBack, DeleteStale, ReactorFails
<1>3. CASE IngestStarted
  <2>1. PICK t : rows' = IF rows[t].kind = "absent" THEN [rows EXCEPT ![t].kind = "none"] ELSE rows
    BY <1>3 DEF IngestStarted
  <2> QED
    BY <1>1, <2>1 DEF Closes, Row
<1>4. CASE IngestCompleted
  BY <1>1, <1>4 DEF IngestCompleted, Closes, Row
<1>5. CASE DispatchPlaceholder
  BY <1>5 DEF DispatchPlaceholder
<1>6. CASE DispatchCheckpoint
  BY <1>6 DEF DispatchCheckpoint, At
<1>7. CASE CompleteRevert
  BY <1>1, <1>7 DEF CompleteRevert, At
<1> QED
  BY <1>2, <1>3, <1>4, <1>5, <1>6, <1>7 DEF CheckpointsNext

LEMMA Completed ==
    ASSUME Typed, NEW t \in Turns, NEW kind, NEW count \in Nat, NEW ready, NEW files,
           DiffCompleted(t, kind, count, ready, files)
    PROVE  /\ rows'[t].kind = kind /\ rows'[t].count = count /\ (kind = "real" => rows'[t].closed)
           /\ \A u \in Turns \ {t} :
                 /\ rows'[u].closed = rows[u].closed
                 /\ rows[u].count = count => rows'[u].count = 0 /\ rows'[u].kind = "none"
                 /\ rows[u].count # count => rows'[u] = rows[u]
<1>1. \A u \in Turns : rows[u] \in Row
  BY DEF Typed, Rowed
<1> QED
  BY <1>1 DEF DiffCompleted, Cleared, Row

\* A turn has no checkpoint after a step that it had not before, but for the one dispatched.
LEMMA RealSteps ==
    ASSUME Typed, CheckpointsNext, NEW u \in Turns, rows'[u].kind = "real"
    PROVE  \/ rows[u].kind = "real" /\ rows'[u].count = rows[u].count
           \/ DispatchCheckpoint /\ work.at = "captured" /\ u = work.n /\ rows'[u].count = work.max
<1>1. live \in Live /\ (live # NoLive => live.turn \in Turns) /\ live.count \in Nat
      /\ work.max \in Nat /\ (work.at = "captured" => work.n \in Turns)
  BY DEF Typed, Lived, Live, Worked, Worker, Reverting
<1>2. CASE Closes
  BY <1>2 DEF Closes
<1>3. CASE live # NoLive /\ DiffCompleted(live.turn, "diff", live.count, FALSE, {})
  <2>1. live.turn \in Turns /\ rows'[live.turn].kind = "diff"
    BY <1>1, <1>3, Completed
  <2>2. u # live.turn
    BY <2>1
  <2>3. rows'[u].count = rows[u].count /\ rows[u].kind = "real"
    BY <1>1, <1>3, <2>1, <2>2, Completed
  <2> QED
    BY <2>3
<1>4. CASE DispatchCheckpoint /\ work.at = "captured"
           /\ DiffCompleted(work.n, "real", work.max, work.ready, work.files)
  <2>1. CASE u = work.n
    BY <1>1, <1>4, <2>1, Completed
  <2>2. CASE u # work.n
    BY <1>1, <1>4, <2>2, Completed
  <2> QED
    BY <2>1, <2>2
<1>5. CASE \A t \in Turns : rows'[t] \in {rows[t], NoRow}
  BY <1>5 DEF NoRow
<1> QED
  BY <1>2, <1>3, <1>4, <1>5, RowSteps

LEMMA OneCountStep ==
    ASSUME Typed, OneCount, CheckpointsNext
    PROVE  OneCount'
<1>1. live \in Live /\ (live # NoLive => live.turn \in Turns) /\ live.count \in Nat
      /\ work.max \in Nat /\ (work.at = "captured" => work.n \in Turns)
  BY DEF Typed, Lived, Live, Worked, Worker, Reverting
<1>2. CASE UNCHANGED rows \/ Closes
  BY <1>2 DEF Closes, OneCount
<1>3. ASSUME NEW t \in Turns, NEW kind, NEW count \in Nat, NEW ready, NEW files,
             DiffCompleted(t, kind, count, ready, files)
      PROVE  OneCount'
  <2>1. rows'[t].count = count
    BY <1>3, Completed
  <2>2. \A u \in Turns \ {t} : /\ rows'[u].count \in {0, rows[u].count}
                               /\ rows'[u].count # 0 => rows'[u].count # count
    BY <1>3, Completed
  <2> QED
    BY <2>1, <2>2 DEF OneCount
<1>4. CASE \A t \in Turns : rows'[t] \in {rows[t], NoRow}
  BY <1>4 DEF NoRow, OneCount
<1> QED
  BY <1>1, <1>2, <1>3, <1>4, RowSteps

LEMMA RealShowsStep ==
    ASSUME Typed, Typed', RealShows, WorkFree, CheckpointsNext
    PROVE  RealShows'
<1> SUFFICES ASSUME NEW u \in Turns, rows'[u].kind = "real"
             PROVE  rows'[u].count > 0 /\ rows'[u].closed
  BY DEF RealShows, Visible
<1>1. live \in Live /\ (live # NoLive => live.turn \in Turns) /\ live.count \in Nat
      /\ work.max \in Nat /\ (work.at = "captured" => work.n \in Turns)
  BY DEF Typed, Lived, Live, Worked, Worker, Reverting
<1>2. rows'[u].count > 0
  BY RealSteps DEF RealShows, Visible, WorkFree, Capturing
<1>3. rows[u].kind = "real" => rows[u].closed
  BY DEF RealShows, Visible
<1>4. CASE UNCHANGED rows \/ Closes
  BY <1>2, <1>3, <1>4 DEF Closes
<1>5. CASE live # NoLive /\ DiffCompleted(live.turn, "diff", live.count, FALSE, {})
  BY <1>1, <1>2, <1>3, <1>5, Completed
<1>6. CASE work.at = "captured" /\ DiffCompleted(work.n, "real", work.max, work.ready, work.files)
  <2>1. CASE u = work.n
    BY <1>1, <1>2, <1>6, <2>1, Completed
  <2>2. CASE u # work.n
    BY <1>1, <1>2, <1>3, <1>6, <2>2, Completed
  <2> QED
    BY <2>1, <2>2
<1>7. CASE \A t \in Turns : rows'[t] \in {rows[t], NoRow}
  BY <1>2, <1>3, <1>7 DEF NoRow
<1> QED
  BY <1>4, <1>5, <1>6, <1>7, RowSteps
\* No other turn has the count that a turn is given.
LEMMA NextIsFree ==
    ASSUME Typed, OneCount, RealShows, NEW t \in Turns
    PROVE  NextTurnCount(t) \in Nat \ {0} /\ Free(t, NextTurnCount(t))
<1>1. \A u \in Turns : rows[u] \in Row /\ rows[u].count \in Nat
  BY DEF Typed, Rowed, Row
<1>2. CASE t \in Visible
  BY <1>1, <1>2 DEF NextTurnCount, Visible, Free, OneCount
<1>3. CASE t \notin Visible
  <2>1. /\ MaxTurnCount(Visible) \in Nat
        /\ \A u \in Visible : rows[u].count <= MaxTurnCount(Visible)
    BY VisibleTurns, MaxIs DEF Typed, Rowed
  <2>2. \A u \in Turns : rows[u].kind = "real" => rows[u].count # MaxTurnCount(Visible) + 1
    BY <1>1, <2>1 DEF RealShows
  <2> QED
    BY <1>3, <2>1, <2>2 DEF NextTurnCount, Free
<1> QED
  BY <1>2, <1>3

\* A count stays free but for the turn whose checkpoint is dispatched.
LEMMA FreeStays ==
    ASSUME Typed, CheckpointsNext, NEW t, NEW count, Free(t, count)
    PROVE  Free(t, count)' \/ (DispatchCheckpoint /\ work.at = "captured" /\ work.n # t)
BY RealSteps DEF Free

LEMMA WorkFreeStep ==
    ASSUME Typed, Typed', OneCount, RealShows, WorkFree, CheckpointsNext
    PROVE  WorkFree'
<1> SUFFICES ASSUME work'.at \in Capturing
             PROVE  work'.max > 0 /\ Free(work.n, work.max)'
  BY DEF WorkFree
<1>1. ~DispatchCheckpoint
  BY DEF DispatchCheckpoint, Rest, Capturing
<1>2. CASE work.at \in Capturing /\ work'.n = work.n /\ work'.max = work.max
  <2>1. work.max > 0 /\ Free(work.n, work.max)
    BY <1>2 DEF WorkFree
  <2>2. PICK t, count : t = work.n /\ count = work.max
    OBVIOUS
  <2>3. Free(t, count)'
    BY <1>1, <2>1, <2>2, FreeStays
  <2> QED
    BY <1>2, <2>1, <2>2, <2>3 DEF Free
<1>3. CASE TakeCompleted
  <2>1. Head(inbox).n \in Turns
    BY <1>3, TakenFirst DEF TakeCompleted
  <2>2. work'.n = Head(inbox).n /\ work'.max = NextTurnCount(Head(inbox).n) /\ rows' = rows
    BY <1>3 DEF TakeCompleted, Rest, Capturing
  <2>3. NextTurnCount(Head(inbox).n) \in Nat \ {0} /\ Free(Head(inbox).n, NextTurnCount(Head(inbox).n))
    BY <2>1, NextIsFree
  <2>4. PICK t, count : t = Head(inbox).n /\ count = NextTurnCount(Head(inbox).n)
    OBVIOUS
  <2>5. count \in Nat \ {0} /\ Free(t, count)
    BY <2>3, <2>4
  <2> QED
    BY <2>2, <2>4, <2>5 DEF Free
<1> QED
  BY <1>2, <1>3, WorkSteps DEF Capturing, Reverting

LEMMA OvertakenGrows ==
    ASSUME CheckpointsNext, "overtaken" \notin mishaps'
    PROVE  /\ "overtaken" \notin mishaps
           /\ ReadDiff => Unrecorded \ {Head(ingest).n} = {}
           /\ DispatchCheckpoint => live = NoLive
BY MishapsGrow DEF ReadDiff, DispatchCheckpoint, Note

\* Only the live diff that ingestion reads and dispatches changes what it is about.
LEMMA LiveSteps ==
    ASSUME CheckpointsNext
    PROVE  \/ ReadDiff \/ DispatchPlaceholder
           \/ live' = live /\ (IngestCompleted \/ tracked' = tracked)
<1>1. CASE \/ UserEdits \/ AskTurn \/ CaptureMessageStart \/ CaptureMessageStartFails \/ SendTurn
           \/ EditFiles \/ UpdateDiff \/ EndTurn \/ RequestRevert \/ IngestStarted \/ IngestCompleted
           \/ TakeMessage \/ TakeStart \/ CaptureBackup \/ TakeStarted \/ EnsureBaseline
           \/ TakeCompleted \/ CaptureTurn \/ DispatchCheckpoint
           \/ TakeRevert \/ Restore \/ RollBack \/ DeleteStale \/ CompleteRevert \/ ReactorFails
  BY <1>1 DEF UserEdits, AskTurn, CaptureMessageStart, CaptureMessageStartFails, SendTurn, EditFiles, UpdateDiff,
       EndTurn, RequestRevert, IngestStarted, IngestCompleted, TakeMessage, TakeStart, CaptureBackup, TakeStarted,
       EnsureBaseline, TakeCompleted, CaptureTurn, DispatchCheckpoint, TakeRevert, Restore, RollBack, DeleteStale,
       CompleteRevert, ReactorFails, ingestion
<1> QED
  BY <1>1 DEF CheckpointsNext

\* A capture that is new is that of the active turn, if there is one.
LEMMA NewCapture ==
    ASSUME Typed, CheckpointsNext, work'.at \in Capturing
    PROVE  \/ work.at \in Capturing /\ work'.n = work.n
           \/ active = 0 \/ active = work'.n
<1>1. CASE TakeCompleted /\ work'.at = "capturing"
  BY <1>1 DEF TakeCompleted, Skipped, Rest
<1> QED
  BY <1>1, WorkSteps DEF Capturing, Reverting

LEMMA OvertakesStep ==
    ASSUME Typed, Typed', Staying, CheckpointsNext
    PROVE  Overtakes'
<1> USE DEF Staying
<1> SUFFICES ASSUME "overtaken" \notin mishaps'
             PROVE  NotOvertaken'
  BY DEF Overtakes
<1>1. NotOvertaken
  BY OvertakenGrows DEF Overtakes
<1>2. tracked \in [Turns -> Nat] /\ live \in Live
  BY DEF Typed, Ingesting, Lived
<1>3. ASSUME live # NoLive
      PROVE  /\ rows'[live.turn].kind # "real" /\ Free(live.turn, live.count)
             /\ (\A t, count : t = live.turn /\ count = live.count => Free(t, count)')
             /\ work'.at \in Capturing => work'.n = live.turn
  <2>1. active = live.turn /\ live.turn \in Turns /\ active # 0
    BY <1>3, LiveActive
  <2>2. /\ rows[live.turn].kind # "real" /\ Free(live.turn, live.count)
        /\ work.at \in Capturing => work.n = live.turn
    BY <1>1, <1>3 DEF NotOvertaken
  <2>3. ~DispatchCheckpoint
    BY <1>3, OvertakenGrows
  <2>4. rows'[live.turn].kind # "real"
    BY <2>1, <2>2, <2>3, RealSteps
  <2>5. \A t, count : t = live.turn /\ count = live.count => Free(t, count)'
    BY <2>2, <2>3, FreeStays
  <2>6. work'.at \in Capturing => work'.n = live.turn
    BY <2>1, <2>2, NewCapture
  <2> QED
    BY <2>2, <2>4, <2>5, <2>6
<1>4. ASSUME NEW t \in Turns, tracked[t] # 0
      PROVE  Free(t, tracked[t]) /\ (\A count : count = tracked[t] => Free(t, count)')
             /\ (work'.at \in Capturing => work'.n = t)
  <2>1. Free(t, tracked[t]) /\ (work.at \in Capturing => work.n = t)
    BY <1>1, <1>4 DEF NotOvertaken
  <2>2. active = t /\ active # 0
    BY <1>4, TurnFacts DEF TrackedActive
  <2>3. \A count : count = tracked[t] => Free(t, count)'
    BY <2>1, FreeStays DEF Capturing
  <2>4. work'.at \in Capturing => work'.n = t
    BY <2>1, <2>2, NewCapture
  <2> QED
    BY <2>1, <2>3, <2>4
<1>5. CASE live' = live /\ tracked' = tracked
  <2>1. live # NoLive => /\ rows'[live'.turn].kind # "real" /\ Free(live.turn, live.count)'
                         /\ work'.at \in Capturing => work'.n = live'.turn
    BY <1>3, <1>5 DEF Free
  <2>2. \A t \in Turns : tracked'[t] # 0 => Free(t, tracked[t])' /\ (work'.at \in Capturing => work'.n = t)
    BY <1>4, <1>5 DEF Free
  <2> QED
    BY <1>5, <2>1, <2>2 DEF NotOvertaken
<1>6. ASSUME live' = NoLive, NEW t \in Turns, tracked' = [tracked EXCEPT ![t] = 0]
      PROVE  NotOvertaken'
  <2>1. \A u \in Turns : tracked'[u] # 0 => tracked'[u] = tracked[u] /\ tracked[u] # 0
    BY <1>2, <1>6
  <2>2. \A u \in Turns : tracked'[u] # 0 => Free(u, tracked[u])' /\ (work'.at \in Capturing => work'.n = u)
    BY <1>4, <2>1 DEF Free
  <2> QED
    BY <1>6, <2>2 DEF NotOvertaken, NoLive
<1>7. CASE IngestCompleted
  <2>1. live = NoLive /\ live' = live
    BY <1>7, LiveAtDiff DEF IngestCompleted, NextIs
  <2>2. Head(ingest).n \in Turns /\ tracked' = [tracked EXCEPT ![Head(ingest).n] = 0]
    BY <1>7, IngestTaken DEF IngestCompleted
  <2> QED
    BY <1>6, <2>1, <2>2
<1>8. CASE DispatchPlaceholder
  <2>1. live # NoLive /\ live' = NoLive /\ live.turn \in Turns
    BY <1>8, LiveActive DEF DispatchPlaceholder
  <2>2. CASE tracked' = tracked
    <3>1. \A t \in Turns : tracked'[t] # 0 => Free(t, tracked[t])' /\ (work'.at \in Capturing => work'.n = t)
      BY <1>4, <2>2 DEF Free
    <3> QED
      BY <2>1, <3>1 DEF NotOvertaken
  <2>3. CASE tracked' = [tracked EXCEPT ![live.turn] = live.count]
    <3>1. \A t \in Turns : /\ t = live.turn => tracked'[t] = live.count
                           /\ t # live.turn => tracked'[t] = tracked[t]
      BY <1>2, <2>1, <2>3
    <3>2. ASSUME NEW t \in Turns, tracked'[t] # 0
          PROVE  Free(t, tracked[t])' /\ (work'.at \in Capturing => work'.n = t)
      <4>1. CASE t = live.turn
        BY <1>3, <2>1, <3>1, <4>1 DEF Free
      <4>2. CASE t # live.turn
        BY <1>4, <3>1, <3>2, <4>2 DEF Free
      <4> QED
        BY <4>1, <4>2
    <3> QED
      BY <2>1, <3>2 DEF NotOvertaken
  <2> QED
    BY <1>8, <2>2, <2>3 DEF DispatchPlaceholder
<1>9. CASE ReadDiff
  <2> DEFINE t == Head(ingest).n
  <2>1. t \in Turns /\ live = NoLive /\ UNCHANGED <<rows, work>>
    BY <1>9, IngestTaken DEF ReadDiff, reactor
  <2>2. CASE Authoritative(t)
    BY <1>6, <1>9, <2>1, <2>2 DEF ReadDiff
  <2>3. CASE ~Authoritative(t)
    <3>1. live' = [turn |-> t, count |-> PlaceholderCount(t)] /\ tracked' = tracked
      BY <1>9, <2>3 DEF ReadDiff
    <3>2. rows[t].kind # "real"
      BY <2>1, <2>3 DEF Authoritative, RealShows
    <3>3. Free(t, PlaceholderCount(t))
      <4>1. CASE tracked[t] # 0
        <5>1. PlaceholderCount(t) = tracked[t]
          BY <1>2, <2>1, <4>1 DEF PlaceholderCount
        <5> QED
          BY <1>4, <2>1, <4>1, <5>1
      <4>2. CASE tracked[t] = 0
        <5>1. PlaceholderCount(t) = NextTurnCount(t)
          BY <4>2 DEF PlaceholderCount, NextTurnCount
        <5> QED
          BY <2>1, <5>1, NextIsFree
      <4> QED
        BY <4>1, <4>2
    <3>4. work.at \in Capturing => work.n = t
      <4>1. work.at \in Capturing => work.n \in Unrecorded
        BY DEF Capturing, Unrecorded, Uncaptured, At
      <4> QED
        BY <1>9, <4>1, OvertakenGrows
    <3>5. \A u \in Turns : tracked'[u] # 0 => Free(u, tracked[u])' /\ (work'.at \in Capturing => work'.n = u)
      BY <1>4, <3>1 DEF Free
    <3>6. PICK n, count : n = t /\ count = PlaceholderCount(t)
      OBVIOUS
    <3>7. live' = [turn |-> n, count |-> count] /\ rows'[n].kind # "real" /\ Free(n, count)
          /\ (work'.at \in Capturing => work'.n = n)
      BY <2>1, <3>1, <3>2, <3>3, <3>4, <3>6
    <3> QED
      BY <2>1, <3>5, <3>7 DEF NotOvertaken, Free
  <2> QED
    BY <2>2, <2>3
<1> QED
  BY <1>5, <1>7, <1>8, <1>9, LiveSteps

LEMMA InitStaying == CheckpointsInit => Staying
BY DEF CheckpointsInit, Staying, Linked, LinkedLast, TrackedActive, OneCount, RealShows, WorkFree, Overtakes,
   NotOvertaken, Capturing, Rest, NoRow

LEMMA SameStaying == Staying /\ UNCHANGED checkpointVars => Staying'
<1> SUFFICES ASSUME Staying,
                    UNCHANGED <<provider, rows, active, ingest, live, tracked, work, mishaps>>
             PROVE  Staying'
  BY DEF checkpointVars, ingestion, reactor, history
<1>1. Linked' /\ LinkedLast' /\ TrackedActive' /\ OneCount' /\ RealShows'
  BY DEF Staying, Linked, LinkedLast, TrackedActive, OneCount, RealShows, Visible
<1>2. WorkFree' /\ Overtakes'
  BY DEF Staying, WorkFree, Overtakes, NotOvertaken, Free
<1> QED
  BY <1>1, <1>2 DEF Staying

LEMMA StayingStep == Typed /\ Typed' /\ Staying /\ [CheckpointsNext]_checkpointVars => Staying'
<1> SUFFICES ASSUME Typed, Typed', Staying, CheckpointsNext
             PROVE  Staying'
  BY SameStaying
<1> QED
  BY LinkedStep, TrackedActiveStep, OneCountStep, RealShowsStep, WorkFreeStep, OvertakesStep DEF Staying

LEMMA StaysInStep ==
    ASSUME Typed, Staying, CheckpointsNext, NEW t \in Turns, rows[t].kind = "real", rows'[t].kind # "real"
    PROVE  At("completing") \/ "overtaken" \in mishaps
<1>1. live \in Live /\ (live # NoLive => live.turn \in Turns) /\ live.count \in Nat
      /\ work.max \in Nat /\ (work.at = "captured" => work.n \in Turns)
  BY DEF Typed, Lived, Live, Worked, Worker, Reverting
<1>2. CASE UNCHANGED rows \/ Closes
  BY <1>2 DEF Closes
<1>3. CASE /\ live # NoLive
           /\ DiffCompleted(live.turn, "diff", live.count, FALSE, {})
  <2> SUFFICES ASSUME "overtaken" \notin mishaps
               PROVE  FALSE
    OBVIOUS
  <2>1. t # live.turn /\ rows[t].count # live.count
    BY <1>3 DEF Staying, Overtakes, NotOvertaken, Free
  <2> QED
    BY <1>1, <1>3, <2>1, Completed
<1>4. CASE work.at = "captured" /\ DiffCompleted(work.n, "real", work.max, work.ready, work.files)
  <2>1. t # work.n
    BY <1>1, <1>4, Completed
  <2>2. rows[t].count # work.max
    BY <1>4, <2>1 DEF Staying, WorkFree, Free, Capturing
  <2> QED
    BY <1>1, <1>4, <2>1, <2>2, Completed
<1>5. CASE work.at = "completing"
  BY <1>5 DEF At
<1> QED
  BY <1>2, <1>3, <1>4, <1>5, RowSteps

\* However live diffs, captures and reverts of any number of turns interleave: a checkpoint that
\* was captured stays with its turn, and its count, until a revert, unless a live diff was read
\* before the turn that has ended got its checkpoint (CapturedStays).
THEOREM CapturesStay == CheckpointsSpec => CapturedStays
<1>1. CheckpointsInit => Typed /\ Staying
  BY InitTyped, InitStaying
<1>2. (Typed /\ Staying) /\ [CheckpointsNext]_checkpointVars => (Typed /\ Staying)'
  BY TypedStep, StayingStep
<1>3. (Typed /\ Staying) /\ [CheckpointsNext]_checkpointVars =>
         [\A t \in Turns : rows[t].kind = "real" /\ rows'[t].kind # "real" =>
             At("completing") \/ "overtaken" \in mishaps]_checkpointVars
  BY StaysInStep
<1> QED
  BY <1>1, <1>2, <1>3, PTL DEF CheckpointsSpec, CapturedStays
-----------------------------------------------------------------------------------
\* Conversation and rows agree.

\* The conversation the provider remembers, and the turns of it that have no checkpoint yet.
Thread == provider.thread
Pending(t) == t \in Unrecorded \/ (t = provider.turn /\ provider.at = "running")
\* The k-th turn the provider remembers is t, and those before it have their checkpoints.
Place(t, k) == k \in DOMAIN Thread /\ Thread[k] = t /\ \A i \in 1 .. (k - 1) : ~Pending(Thread[i])

Starting == {"message", "start", "started"}
Baselining == {"backup", "baseline"}
\* The conversation is rolled back, and the rows are not yet.
RolledBack == work.at \in {"deleting", "completing"}

ThreadGrows ==
    /\ \A i, j \in DOMAIN Thread : i < j => Thread[i] < Thread[j]
    /\ \A i \in DOMAIN Thread : Sent(Thread[i])
RevertsQuiet ==
    work.at \in Reverting \/ (\E i \in DOMAIN inbox : inbox[i].kind = "revert") => ingest = <<>>
\* The inputs of the reactor are about one turn after the other, and end with "completed".
InboxSorted == \A i, j \in DOMAIN inbox :
    i < j /\ inbox[i].kind # "revert" /\ inbox[j].kind # "revert" =>
        inbox[i].n <= inbox[j].n /\ (inbox[i].kind = "completed" => inbox[i].n < inbox[j].n)
WorkFirst == \A i \in DOMAIN inbox : inbox[i].kind # "revert" =>
    /\ work.at \in Capturing => work.n < inbox[i].n
    /\ work.at \in Baselining => work.n <= inbox[i].n
PendingRemembered == \A t \in Turns : Pending(t) =>
    (\E k \in DOMAIN Thread : Thread[k] = t) /\ rows[t].kind # "real"
PendingLast == \A i, j \in DOMAIN Thread : i < j /\ Pending(Thread[i]) => Pending(Thread[j])
OthersRecorded == \A k \in DOMAIN Thread : ~Pending(Thread[k]) =>
    rows[Thread[k]].kind = "real" /\ rows[Thread[k]].count = k
\* A row has the count of the place of its turn, or is about to be deleted.
CountsPlaced == \A t \in Turns : rows[t].count > 0 =>
    Place(t, rows[t].count) \/ (RolledBack /\ rows[t].count > work.n)
ReadyReal == \A t \in Turns : rows[t].ready => rows[t].kind = "real"
TrackedPlaced == \A t \in Turns : tracked[t] # 0 => Place(t, tracked[t])
LivePlaced == live # NoLive => Place(live.turn, live.count) /\ Pending(live.turn)
IngestRemembered == \A i \in DOMAIN ingest : \E k \in DOMAIN Thread : Thread[k] = ingest[i].n
WorkPlaced ==
    /\ work.at \in Capturing => Place(work.n, work.max)
    /\ work.at \in {"restoring", "rolling"} => work.max = Len(Thread)
    /\ RolledBack => work.n = Len(Thread)

RowsAgree ==
    /\ ThreadGrows /\ RevertsQuiet /\ InboxSorted /\ WorkFirst
    /\ PendingRemembered /\ PendingLast /\ OthersRecorded
    /\ CountsPlaced /\ ReadyReal /\ TrackedPlaced /\ LivePlaced /\ IngestRemembered /\ WorkPlaced

Straight == mishaps \cap {"fault", "overtaken", "skipped"} = {}
RowsAgreeing == Straight => RowsAgree

\* A step after which nothing has failed, been overtaken or been skipped.
StraightStep ==
    /\ Typed /\ Typed' /\ Ordered /\ Staying /\ RowsAgree
    /\ CheckpointsNext /\ Straight'

LEMMA StraightBefore ==
    ASSUME CheckpointsNext, Straight'
    PROVE  /\ Straight /\ ~CaptureMessageStartFails /\ ~ReactorFails
           /\ TakeCompleted => ~Skipped(Head(inbox).n)
           /\ ReadDiff => Unrecorded \ {Head(ingest).n} = {}
           /\ DispatchCheckpoint => live = NoLive
BY MishapsGrow, OvertakenGrows DEF Straight, TakeCompleted, Note

LEMMA ThreadIs ==
    ASSUME Typed
    PROVE  /\ Thread \in Seq(Turns) /\ Len(Thread) \in Nat /\ DOMAIN Thread = 1 .. Len(Thread)
           /\ \A i \in DOMAIN Thread : i \in Nat /\ i >= 1 /\ Thread[i] \in Turns
BY DEF Typed, Provided, Provider, Thread

LEMMA ThreadThen ==
    ASSUME Typed'
    PROVE  \A i \in DOMAIN Thread' : i \in Nat /\ i >= 1 /\ Thread'[i] \in Turns
BY DEF Typed, Provided, Provider, Thread

LEMMA TurnIs ==
    ASSUME Typed
    PROVE  /\ provider.turn \in Nat /\ provider.at \in {"idle", "asked", "hooked", "running"}
           /\ provider.at # "idle" => provider.turn \in Turns
           /\ \A t \in Turns : t \in Nat /\ t > 0
<1>1. \A t \in Turns : t \in Nat /\ t > 0
  BY TurnsAre
<1>2. /\ provider.turn \in Turns \cup {0} /\ provider.at \in {"idle", "asked", "hooked", "running"}
      /\ provider.at # "idle" => provider.turn \in Turns
  BY DEF Typed, Provided, Provider
<1> QED
  BY <1>1, <1>2

\* Nothing is pending while the worker reverts, or has a revert before it.
LEMMA NothingPending ==
    ASSUME Typed, Ordered, work.at \in Reverting \/ Takes("revert"), NEW t
    PROVE  ~Pending(t) /\ provider.at = "idle"
<1>1. provider.at = "idle" /\ (\A j \in DOMAIN inbox : inbox[j].kind = "revert") /\ work.at \notin Capturing
  <2>1. CASE work.at \in Reverting
    BY <2>1 DEF Ordered, RevertsLast, Reverting, Capturing
  <2>2. CASE Takes("revert")
    <3>1. 1 \in DOMAIN inbox /\ inbox[1].kind = "revert" /\ work.at = "idle"
      BY <2>2, TakenFirst
    <3>2. provider.at = "idle" /\ \A j \in DOMAIN inbox : 1 < j => inbox[j].kind = "revert"
      BY <3>1 DEF Ordered, RevertsLast
    <3>3. \A j \in DOMAIN inbox : j = 1 \/ 1 < j
      BY DEF Typed, Inboxed
    <3> QED
      BY <3>1, <3>2, <3>3 DEF Capturing
  <2> QED
    BY <2>1, <2>2
<1>2. t \notin Ended
  BY <1>1, EndedIs
<1> QED
  BY <1>1, <1>2 DEF Pending, Unrecorded, Uncaptured, At, Capturing

LEMMA ThreadSteps ==
    ASSUME StraightStep
    PROVE  \/ Thread' = Thread
           \/ /\ SendTurn /\ provider.at = "hooked"
              /\ Thread' = Append(Thread, provider.turn)
           \/ /\ RollBack /\ work.at = "rolling"
              /\ Thread' = SubSeq(Thread, 1, work.n) /\ work.n \in Nat /\ work.n <= Len(Thread)
<1>1. provider \in Provider /\ work \in Worker
  BY DEF StraightStep, Typed, Provided, Worked
<1>2. CASE SendTurn
  BY <1>1, <1>2 DEF SendTurn, Provider, Thread
<1>3. CASE RollBack
  <2>1. work.at = "rolling" /\ work.max = Len(Thread) /\ work.n <= work.max /\ work.n \in Nat /\ Len(Thread) \in Nat
    BY <1>1, <1>3, ThreadIs DEF RollBack, At, StraightStep, RowsAgree, WorkPlaced, Typed, Worked, Reverting, Worker
  <2> DEFINE kept == IF Len(Thread) > RolledBackTurns THEN Len(Thread) - RolledBackTurns ELSE 0
  <2>2. kept = work.n
    BY <2>1 DEF RolledBackTurns
  <2>3. Thread' = SubSeq(Thread, 1, kept)
    BY <1>1, <1>3 DEF RollBack, Thread, Provider
  <2> HIDE DEF kept
  <2> QED
    BY <1>3, <2>1, <2>2, <2>3
<1>4. CASE AskTurn \/ CaptureMessageStart \/ CaptureMessageStartFails \/ UpdateDiff \/ EndTurn
  BY <1>1, <1>4 DEF AskTurn, CaptureMessageStart, CaptureMessageStartFails, UpdateDiff, EndTurn, Provider, Thread
<1>5. CASE \/ UserEdits \/ EditFiles \/ RequestRevert
           \/ IngestStarted \/ IngestCompleted \/ ReadDiff \/ DispatchPlaceholder
           \/ TakeMessage \/ TakeStart \/ CaptureBackup \/ TakeStarted \/ EnsureBaseline
           \/ TakeCompleted \/ CaptureTurn \/ DispatchCheckpoint
           \/ TakeRevert \/ Restore \/ DeleteStale \/ CompleteRevert \/ ReactorFails
  BY <1>5 DEF UserEdits, EditFiles, RequestRevert, IngestStarted, IngestCompleted, ReadDiff,
       DispatchPlaceholder, TakeMessage, TakeStart, CaptureBackup, TakeStarted, EnsureBaseline,
       TakeCompleted, CaptureTurn, DispatchCheckpoint, TakeRevert, Restore, DeleteStale, CompleteRevert,
       ReactorFails, Thread
<1> QED
  BY <1>2, <1>3, <1>4, <1>5 DEF StraightStep, CheckpointsNext

\* A turn that is remembered keeps its place, unless it is rolled back; one joins when it is sent.
LEMMA ThreadKept ==
    ASSUME StraightStep
    PROVE  /\ \A k \in DOMAIN Thread : (RollBack => k <= work.n) =>
                 k \in DOMAIN Thread' /\ Thread'[k] = Thread[k]
           /\ \A k \in DOMAIN Thread' :
                 \/ k \in DOMAIN Thread /\ Thread'[k] = Thread[k] /\ (RollBack => k <= work.n)
                 \/ SendTurn /\ provider.at = "hooked" /\ k = Len(Thread) + 1 /\ Thread'[k] = provider.turn
           /\ SendTurn => Len(Thread) + 1 \in DOMAIN Thread' /\ Thread'[Len(Thread) + 1] = provider.turn
           /\ RollBack => Len(Thread') = work.n
<1>1. /\ Thread \in Seq(Turns) /\ Len(Thread) \in Nat /\ DOMAIN Thread = 1 .. Len(Thread)
  BY ThreadIs DEF StraightStep
<1>2. RollBack => work.at = "rolling" /\ provider.at = "idle" /\ work.n \in Nat /\ work.n <= Len(Thread)
                  /\ Thread' = SubSeq(Thread, 1, work.n)
  <2>1. RollBack => work.at = "rolling"
    BY DEF RollBack, At
  <2>2. RollBack => provider.at = "idle"
    BY <2>1 DEF StraightStep, Ordered, RevertsLast, Reverting
  <2>3. RollBack => work.n \in Nat /\ work.n <= work.max /\ work.max = Len(Thread)
    BY <2>1 DEF StraightStep, RowsAgree, WorkPlaced, Typed, Worked, Reverting, Worker
  <2>4. RollBack => Thread' = SubSeq(Thread, 1, work.n)
    <3>1. CASE Thread' = Thread /\ RollBack
      <4>1. Thread' = SubSeq(Thread, 1, IF Len(Thread) > RolledBackTurns THEN Len(Thread) - RolledBackTurns ELSE 0)
        BY <3>1 DEF RollBack, Thread, StraightStep, Typed, Provided, Provider
      <4>2. (IF Len(Thread) > RolledBackTurns THEN Len(Thread) - RolledBackTurns ELSE 0) = work.n
        BY <1>1, <2>3, <3>1 DEF RolledBackTurns
      <4> QED
        BY <4>1, <4>2
    <3> QED
      BY <2>2, <3>1, ThreadSteps
  <2> QED
    BY <2>1, <2>2, <2>3, <2>4
<1>3. SendTurn => provider.at = "hooked" /\ Thread' = Append(Thread, provider.turn)
  BY DEF SendTurn, Thread, StraightStep, Typed, Provided, Provider
<1>4. CASE SendTurn
  <2>1. provider.turn \in Turns
    BY <1>3, <1>4, TurnIs DEF StraightStep
  <2>2. /\ Len(Thread') = Len(Thread) + 1 /\ DOMAIN Thread' = 1 .. (Len(Thread) + 1)
        /\ \A i \in 1 .. Len(Thread) : Thread'[i] = Thread[i]
        /\ Thread'[Len(Thread) + 1] = provider.turn
    BY <1>1, <1>3, <1>4, <2>1, AppendFacts
  <2> QED
    BY <1>1, <1>2, <1>3, <1>4, <2>2
<1>5. CASE RollBack
  <2>1. Len(Thread') = work.n /\ DOMAIN Thread' = 1 .. work.n /\ \A i \in 1 .. work.n : Thread'[i] = Thread[i]
    BY <1>1, <1>2, <1>5
  <2> QED
    BY <1>1, <1>2, <1>3, <1>5, <2>1
<1>6. CASE ~SendTurn /\ ~RollBack
  BY <1>6, ThreadSteps
<1> QED
  BY <1>4, <1>5, <1>6

\* A turn that is pending was so before, or is sent ...
LEMMA PendingFrom ==
    ASSUME StraightStep, NEW t, Pending(t)'
    PROVE  Pending(t) \/ (SendTurn /\ t = provider.turn)
<1> USE DEF StraightStep
<1>1. CASE t \in Uncaptured'
  <2>1. t \in Uncaptured \/ (EndTurn /\ t = provider.turn)
    BY <1>1, UncapturedSteps
  <2> QED
    BY <2>1 DEF Pending, Unrecorded, EndTurn
<1>2. CASE work'.at = "captured" /\ t = work'.n
  BY <1>2, WorkSteps DEF Pending, Unrecorded, Uncaptured, At, Reverting
<1>3. CASE t = provider'.turn /\ provider'.at = "running"
  BY <1>3, ProviderSteps DEF Pending
<1> QED
  BY <1>1, <1>2, <1>3 DEF Pending, Unrecorded, Uncaptured, At

\* ... and is so until its checkpoint is dispatched.
LEMMA PendingStays ==
    ASSUME StraightStep, NEW t \in Turns, Pending(t)
    PROVE  Pending(t)' \/ (DispatchCheckpoint /\ t = work.n)
<1> USE DEF StraightStep
<1>1. \A u : u \in Ended' <=> \E i \in DOMAIN inbox' : inbox'[i].kind = "completed" /\ inbox'[i].n = u
  <2>1. DOMAIN inbox' = 1 .. Len(inbox')
    BY DEF Typed, Inboxed
  <2> QED
    BY <2>1 DEF Ended
<1>2. CASE t \in Ended
  <2>1. PICK i \in DOMAIN inbox : inbox[i].kind = "completed" /\ inbox[i].n = t
    BY <1>2, EndedIs
  <2>2. CASE i \in DOMAIN inbox' /\ inbox'[i] = inbox[i]
    BY <1>1, <2>1, <2>2 DEF Pending, Unrecorded, Uncaptured
  <2>3. CASE inbox # <<>> /\ inbox' = Tail(inbox)
    <3>1. CASE i - 1 \in DOMAIN inbox' /\ inbox'[i - 1] = inbox[i]
      BY <1>1, <2>1, <3>1 DEF Pending, Unrecorded, Uncaptured
    <3>2. CASE i = 1
      <4>1. Head(inbox).kind = "completed" /\ Head(inbox).n = t
        BY <2>1, <2>3, <3>2, Taken
      <4>2. CASE TakeCompleted
        <5>1. ~Captured(t) /\ ~Skipped(t)
          BY <1>2, <4>1, <4>2, StraightBefore DEF RowsAgree, PendingRemembered, ReadyReal, Pending, Unrecorded, Uncaptured, Captured
        <5>2. work'.at = "capturing" /\ work'.n = t
          BY <4>1, <4>2, <5>1 DEF TakeCompleted, Rest
        <5> QED
          BY <5>2 DEF Pending, Unrecorded, Uncaptured, At
      <4>3. CASE UNCHANGED inbox
        BY <2>1, <2>2, <4>3
      <4>4. CASE AskTurn \/ SendTurn \/ EndTurn \/ RequestRevert
        <5>1. \E more : Joined(more)
          BY <4>4, Inputs
        <5> QED
          BY <2>1, <2>2, <5>1 DEF Joined
      <4> QED
        BY <4>1, <4>2, <4>3, <4>4, InboxSteps DEF TakeMessage, TakeStart, TakeStarted, TakeRevert, Takes
    <3> QED
      BY <2>1, <2>3, <3>1, <3>2, Taken
  <2>4. CASE AskTurn \/ SendTurn \/ EndTurn \/ RequestRevert
    <3>1. \E more : Joined(more)
      BY <2>4, Inputs
    <3> QED
      BY <2>1, <2>2, <3>1 DEF Joined
  <2> QED
    BY <2>1, <2>2, <2>3, <2>4, InboxSteps
<1>3. CASE work.at \in Capturing /\ t = work.n
  <2>1. CASE UNCHANGED work
    BY <1>3, <2>1 DEF Pending, Unrecorded, Uncaptured, At, Capturing
  <2>2. CASE CaptureTurn /\ work'.at = "captured" /\ work'.n = work.n
    BY <1>3, <2>2 DEF Pending, Unrecorded, Uncaptured, At
  <2>3. CASE work' = Rest
    <3>1. work # Rest /\ work.at \notin Baselining \cup Reverting
      BY <1>3 DEF Capturing, Rest, Baselining, Reverting
    <3>2. CASE \/ UserEdits \/ AskTurn \/ CaptureMessageStart \/ SendTurn
               \/ EditFiles \/ UpdateDiff \/ EndTurn \/ RequestRevert
               \/ IngestStarted \/ IngestCompleted \/ ReadDiff \/ DispatchPlaceholder
      BY <2>3, <3>1, <3>2 DEF UserEdits, AskTurn, CaptureMessageStart, SendTurn, EditFiles, UpdateDiff, EndTurn,
           RequestRevert, IngestStarted, IngestCompleted, ReadDiff, DispatchPlaceholder, reactor
    <3>3. CASE \/ TakeMessage \/ TakeStart \/ CaptureBackup \/ TakeStarted \/ EnsureBaseline
               \/ TakeCompleted \/ TakeRevert \/ Restore \/ RollBack \/ DeleteStale \/ CompleteRevert
      BY <3>1, <3>3 DEF TakeMessage, TakeStart, CaptureBackup, TakeStarted, EnsureBaseline, TakeCompleted, TakeRevert,
           Restore, RollBack, DeleteStale, CompleteRevert, Takes, At, Baselining, Reverting
    <3>4. CASE CaptureTurn
      <4>1. work \in Worker
        BY DEF Typed, Worked
      <4>2. work'.at = "captured"
        BY <3>4, <4>1 DEF CaptureTurn, Worker
      <4> QED
        BY <2>3, <4>2 DEF Rest
    <3> QED
      BY <1>3, <3>2, <3>3, <3>4, StraightBefore DEF CheckpointsNext
  <2>4. ~(TakeMessage \/ TakeStart \/ TakeStarted \/ TakeCompleted \/ TakeRevert)
    BY <1>3 DEF TakeMessage, TakeStart, TakeStarted, TakeCompleted, TakeRevert, Takes, Rest, Capturing
  <2> QED
    BY <1>3, <2>1, <2>2, <2>3, <2>4, WorkSteps DEF Capturing, Reverting
<1>4. CASE t = provider.turn /\ provider.at = "running"
  <2>1. CASE EndTurn
    <3>1. PICK ready \in BOOLEAN :
             Joined({[Input("completed", provider.turn) EXCEPT !.ready = ready]})
             /\ inbox' = Append(inbox, [Input("completed", provider.turn) EXCEPT !.ready = ready])
      <4>1. PICK ready \in BOOLEAN :
             inbox' = Append(inbox, [Input("completed", provider.turn) EXCEPT !.ready = ready])
        BY <2>1 DEF EndTurn, Typed, Kept, Plan
      <4>2. [Input("completed", provider.turn) EXCEPT !.ready = ready] \in ReactorInput
        BY <1>4, TurnIs DEF Input, ReactorInput
      <4> QED
        BY <4>1, <4>2, OneJoined
    <3> DEFINE e == [Input("completed", provider.turn) EXCEPT !.ready = ready]
    <3>2. e \in ReactorInput /\ e.kind = "completed" /\ e.n = t
      BY <1>4, TurnIs DEF Input, ReactorInput
    <3>3. inbox' = Append(inbox, e)
      BY <3>1
    <3> HIDE DEF e
    <3>4. Len(inbox) + 1 \in DOMAIN inbox' /\ inbox'[Len(inbox) + 1] = e
      <4>1. inbox \in Seq(ReactorInput)
        BY DEF Typed, Inboxed
      <4> QED
        BY <3>2, <3>3, <4>1
    <3> QED
      BY <1>1, <3>2, <3>4 DEF Pending, Unrecorded, Uncaptured
  <2>2. CASE ~EndTurn
    BY <1>4, <2>2, ProviderSteps DEF Pending
  <2> QED
    BY <2>1, <2>2
<1> QED
  BY <1>2, <1>3, <1>4 DEF Pending, Unrecorded, Uncaptured, At, Capturing

\* Then it is not pending any more.
LEMMA NotPending ==
    ASSUME StraightStep, DispatchCheckpoint, NEW t, t = work.n
    PROVE  ~Pending(t)' /\ t \in Turns /\ Pending(t)
<1> USE DEF StraightStep
<1>1. work.at = "captured" /\ work.n \in Turns /\ work'.at = "idle" /\ inbox' = inbox /\ provider' = provider
      /\ t = work.n
  BY DEF DispatchCheckpoint, At, Rest, Typed, Worked, Reverting
<1>2. t \notin Ended'
  <2>1. \A i \in DOMAIN inbox : inbox[i].kind # "revert" => work.n < inbox[i].n
    BY <1>1 DEF RowsAgree, WorkFirst, Capturing
  <2>2. \A i \in DOMAIN inbox : inbox[i].kind = "completed" => inbox[i].n # work.n
    BY <1>1, <2>1, TurnIs
  <2>3. work.n \notin Ended
    BY <2>2, EndedIs
  <2> QED
    BY <1>1, <2>3 DEF Ended
<1>3. ~(work.n = provider.turn /\ provider.at = "running")
  BY <1>1 DEF Ordered, WorkOrdered, Over, Capturing
<1> QED
  BY <1>1, <1>2, <1>3 DEF Pending, Unrecorded, Uncaptured, At

LEMMA PlaceStays ==
    ASSUME StraightStep, NEW t \in Turns, NEW k, Place(t, k), RollBack => k <= work.n
    PROVE  Place(t, k)'
<1> USE DEF StraightStep
<1>1. k \in DOMAIN Thread' /\ Thread'[k] = t
  BY ThreadKept DEF Place
<1>2. ASSUME NEW i \in 1 .. (k - 1)
      PROVE  ~Pending(Thread[i])' /\ Thread'[i] = Thread[i]
  <2>1. i \in DOMAIN Thread /\ (RollBack => i <= work.n) /\ ~Pending(Thread[i])
    BY ThreadIs DEF Place, Typed, Worked, Worker
  <2>2. Thread'[i] = Thread[i] /\ Sent(Thread[i])
    BY <2>1, ThreadKept DEF RowsAgree, ThreadGrows
  <2>3. ~(SendTurn /\ Thread[i] = provider.turn)
    BY <2>2 DEF SendTurn, Sent
  <2>4. PICK u : u = Thread[i]
    OBVIOUS
  <2>5. ~Pending(u)'
    BY <2>1, <2>3, <2>4, PendingFrom
  <2> QED
    BY <2>2, <2>4, <2>5 DEF Pending, Unrecorded, Uncaptured, Ended, At
<1> QED
  BY <1>1, <1>2 DEF Place

LEMMA ThreadGrowsStep == ASSUME StraightStep PROVE ThreadGrows'
<1> USE DEF StraightStep
<1>1. \A k \in DOMAIN Thread : k \in Nat /\ k <= Len(Thread) /\ Thread[k] \in Turns /\ Sent(Thread[k])
  BY ThreadIs DEF RowsAgree, ThreadGrows
<1>2. \A i, j \in DOMAIN Thread : i < j => Thread[i] < Thread[j]
  BY DEF RowsAgree, ThreadGrows
<1>3. ASSUME NEW k \in DOMAIN Thread'
      PROVE  Sent(Thread[k])'
  <2>1. CASE k \in DOMAIN Thread /\ Thread'[k] = Thread[k]
    <3>1. PICK t \in Turns : t = Thread[k] /\ Sent(t)
      BY <1>1, <2>1
    <3>2. Sent(t)'
      BY <3>1, StagesGrow
    <3> QED
      BY <2>1, <3>1, <3>2 DEF Sent, Asked
  <2>2. CASE SendTurn /\ provider.at = "hooked" /\ Thread'[k] = provider.turn
    <3>1. provider'.turn = provider.turn /\ provider'.at = "running" /\ provider.turn \in Nat
      BY <2>2, TurnIs DEF SendTurn, Typed, Provided, Provider
    <3> QED
      BY <2>2, <3>1 DEF Sent, Asked
  <2> QED
    BY <2>1, <2>2, ThreadKept
<1>4. ASSUME NEW i \in DOMAIN Thread', NEW j \in DOMAIN Thread', i < j
      PROVE  Thread'[i] < Thread'[j]
  <2>1. CASE i \in DOMAIN Thread /\ Thread'[i] = Thread[i] /\ j \in DOMAIN Thread /\ Thread'[j] = Thread[j]
    BY <1>2, <1>4, <2>1
  <2>2. CASE i \in DOMAIN Thread /\ Thread'[i] = Thread[i] /\ provider.at = "hooked" /\ Thread'[j] = provider.turn
    BY <1>1, <2>2, TurnIs DEF Sent, Asked
  <2>3. ~(SendTurn /\ i = Len(Thread) + 1)
    <3>1. j \in DOMAIN Thread \/ j = Len(Thread) + 1
      BY ThreadKept
    <3> QED
      BY <1>1, <1>4, <3>1, ThreadIs
  <2> QED
    BY <2>1, <2>2, <2>3, ThreadKept
<1> QED
  BY <1>3, <1>4 DEF ThreadGrows

\* A revert is on its way where it was, or is asked for.
LEMMA RevertSteps ==
    ASSUME StraightStep, work'.at \in Reverting \/ \E i \in DOMAIN inbox' : inbox'[i].kind = "revert"
    PROVE  \/ work.at \in Reverting \/ \E i \in DOMAIN inbox : inbox[i].kind = "revert"
           \/ RequestRevert
<1> USE DEF StraightStep
<1>1. CASE work'.at \in Reverting
  <2>1. TakeRevert => 1 \in DOMAIN inbox /\ inbox[1].kind = "revert"
    BY TakenFirst DEF TakeRevert
  <2> QED
    BY <1>1, <2>1, WorkSteps DEF Reverting
<1>2. ASSUME NEW i \in DOMAIN inbox', inbox'[i].kind = "revert"
      PROVE  (\E j \in DOMAIN inbox : inbox[j].kind = "revert") \/ RequestRevert
  <2>1. CASE AskTurn \/ SendTurn
    <3>1. PICK more \in {{Input("message", provider.turn + 1), Input("start", provider.turn + 1)},
                         {Input("started", provider.turn)}} : Joined(more)
      BY <2>1, Inputs
    <3>2. \A e \in more : e.kind # "revert"
      BY <3>1 DEF Input
    <3> QED
      BY <1>2, <3>1, <3>2 DEF Joined
  <2>2. CASE EndTurn
    <3>1. PICK ready \in BOOLEAN : Joined({[Input("completed", provider.turn) EXCEPT !.ready = ready]})
      BY <2>2, Inputs
    <3>2. [Input("completed", provider.turn) EXCEPT !.ready = ready].kind # "revert"
      BY DEF Input
    <3> QED
      BY <1>2, <3>1, <3>2 DEF Joined
  <2>3. CASE UNCHANGED inbox
    BY <1>2, <2>3
  <2>4. CASE inbox # <<>> /\ inbox' = Tail(inbox)
    BY <1>2, <2>4, Taken
  <2> QED
    BY <2>1, <2>2, <2>3, <2>4, InboxSteps
<1> QED
  BY <1>1, <1>2

LEMMA RevertsQuietStep == ASSUME StraightStep PROVE RevertsQuiet'
<1> USE DEF StraightStep
<1> SUFFICES ASSUME work'.at \in Reverting \/ \E i \in DOMAIN inbox' : inbox'[i].kind = "revert"
             PROVE  ingest' = <<>>
  BY DEF RevertsQuiet
<1>1. ingest = <<>>
  <2>1. RequestRevert => ingest = <<>>
    BY DEF RequestRevert
  <2> QED
    BY <2>1, RevertSteps DEF RowsAgree, RevertsQuiet
<1>2. provider.at = "idle"
  <2>1. RequestRevert => provider.at = "idle"
    BY DEF RequestRevert
  <2> QED
    BY <2>1, RevertSteps DEF Ordered, RevertsLast
<1>3. ~SendTurn /\ ~UpdateDiff /\ ~EndTurn
  BY <1>2 DEF SendTurn, UpdateDiff, EndTurn
<1> QED
  BY <1>1, <1>3, IngestSteps

\* What joins the inbox is about the turn the provider is at, and follows what is there.
LEMMA JoinedLast ==
    ASSUME StraightStep, NEW i \in DOMAIN inbox', i \notin DOMAIN inbox,
           AskTurn \/ SendTurn \/ EndTurn \/ RequestRevert, inbox'[i].kind # "revert"
    PROVE  /\ inbox'[i].n \in Turns
           /\ \A t \in Turns : Asked(t) => t <= inbox'[i].n
           /\ \A t \in Turns : Over(t) => t < inbox'[i].n \/ (EndTurn /\ inbox'[i].kind = "completed")
           /\ AskTurn => inbox'[i].n = provider.turn + 1 /\ inbox'[i].kind \in {"message", "start"}
           /\ SendTurn => inbox'[i].n = provider.turn /\ inbox'[i].kind = "started" /\ provider.at = "hooked"
           /\ EndTurn => inbox'[i].n = provider.turn /\ inbox'[i].kind = "completed" /\ provider.at = "running"
           /\ ~RequestRevert
           /\ ~AskTurn => \A j \in DOMAIN inbox' : j # i => j \in DOMAIN inbox
<1> USE DEF StraightStep
<1>0. provider.turn \in Nat /\ \A t \in Turns : t \in Nat
  BY TurnIs
<1>1. CASE AskTurn
  <2>1. /\ Joined({Input("message", provider.turn + 1), Input("start", provider.turn + 1)})
        /\ provider.turn + 1 \in Turns
    BY <1>1, Inputs
  <2>2. inbox'[i].n = provider.turn + 1 /\ inbox'[i].kind \in {"message", "start"}
    BY <2>1 DEF Joined, Input
  <2>3. ~SendTurn /\ ~EndTurn /\ ~RequestRevert
    <3>1. provider.at = "idle" /\ provider'.at = "asked" /\ provider' # provider
      BY <1>1 DEF AskTurn, Typed, Provided, Provider
    <3> QED
      BY <3>1 DEF SendTurn, EndTurn, RequestRevert
  <2> QED
    BY <1>0, <1>1, <2>1, <2>2, <2>3 DEF Asked, Over
<1>2. CASE SendTurn
  <2>1. Joined({Input("started", provider.turn)}) /\ provider.turn \in Turns /\ provider.at = "hooked"
    BY <1>2, Inputs DEF SendTurn
  <2>2. inbox'[i].n = provider.turn /\ inbox'[i].kind = "started"
    BY <2>1 DEF Joined, Input
  <2>3. \A j \in DOMAIN inbox' : j # i => j \in DOMAIN inbox
    <3>1. inbox' = Append(inbox, Input("started", provider.turn)) /\ inbox \in Seq(ReactorInput)
      BY <1>2 DEF SendTurn, Typed, Inboxed
    <3>2. Input("started", provider.turn) \in ReactorInput
      BY <2>1, TurnIs, InputTyped
    <3>3. DOMAIN inbox' = 1 .. (Len(inbox) + 1) /\ DOMAIN inbox = 1 .. Len(inbox) /\ Len(inbox) \in Nat
      BY <3>1, <3>2, AppendFacts
    <3> QED
      BY <3>3
  <2>4. ~AskTurn /\ ~EndTurn /\ ~RequestRevert
    BY <2>1 DEF AskTurn, EndTurn, RequestRevert
  <2> QED
    BY <1>0, <1>2, <2>1, <2>2, <2>3, <2>4 DEF Asked, Over
<1>3. CASE EndTurn
  <2>1. PICK ready \in BOOLEAN :
           inbox' = Append(inbox, [Input("completed", provider.turn) EXCEPT !.ready = ready])
    BY <1>3 DEF EndTurn, Typed, Kept, Plan
  <2> DEFINE e == [Input("completed", provider.turn) EXCEPT !.ready = ready]
  <2>2. provider.at = "running" /\ provider.turn \in Turns
    BY <1>3, TurnIs DEF EndTurn
  <2>3. e \in ReactorInput /\ e.kind = "completed" /\ e.n = provider.turn
    BY <2>2, TurnIs DEF Input, ReactorInput
  <2>4. inbox' = Append(inbox, e) /\ inbox \in Seq(ReactorInput)
    BY <2>1 DEF Typed, Inboxed
  <2> HIDE DEF e
  <2>5. /\ DOMAIN inbox' = 1 .. (Len(inbox) + 1) /\ DOMAIN inbox = 1 .. Len(inbox) /\ Len(inbox) \in Nat
        /\ inbox'[Len(inbox) + 1] = e
    BY <2>3, <2>4, AppendFacts
  <2>6. i = Len(inbox) + 1
    BY <2>5
  <2>7. ~AskTurn /\ ~SendTurn /\ ~RequestRevert
    BY <2>2 DEF AskTurn, SendTurn, RequestRevert
  <2> QED
    BY <1>0, <1>3, <2>2, <2>3, <2>5, <2>6, <2>7 DEF Asked, Over
<1>4. CASE RequestRevert
  <2>1. PICK n \in Nat : Joined({Input("revert", n)})
    BY <1>4, Inputs
  <2> QED
    BY <2>1 DEF Joined, Input
<1> QED
  BY <1>1, <1>2, <1>3, <1>4

LEMMA InboxSortedStep == ASSUME StraightStep PROVE InboxSorted'
<1> USE DEF StraightStep
<1> SUFFICES ASSUME NEW i \in DOMAIN inbox', NEW j \in DOMAIN inbox', i < j,
                    inbox'[i].kind # "revert", inbox'[j].kind # "revert"
             PROVE  inbox'[i].n <= inbox'[j].n /\ (inbox'[i].kind = "completed" => inbox'[i].n < inbox'[j].n)
  BY DEF InboxSorted
<1>1. \A k, l \in DOMAIN inbox : k < l /\ inbox[k].kind # "revert" /\ inbox[l].kind # "revert" =>
         inbox[k].n <= inbox[l].n /\ (inbox[k].kind = "completed" => inbox[k].n < inbox[l].n)
  BY DEF RowsAgree, InboxSorted
<1>2. CASE UNCHANGED inbox
  BY <1>1, <1>2
<1>3. CASE inbox # <<>> /\ inbox' = Tail(inbox)
  <2>1. /\ i + 1 \in DOMAIN inbox /\ inbox'[i] = inbox[i + 1] /\ i \in Nat
        /\ j + 1 \in DOMAIN inbox /\ inbox'[j] = inbox[j + 1] /\ j \in Nat
    BY <1>3, Taken
  <2>2. i + 1 < j + 1
    BY <2>1
  <2> QED
    BY <1>1, <2>1, <2>2
<1>4. CASE AskTurn \/ SendTurn \/ EndTurn \/ RequestRevert
  <2>1. PICK more : Joined(more)
    BY <1>4, Inputs
  <2>2. CASE i \in DOMAIN inbox /\ j \in DOMAIN inbox
    BY <1>1, <2>1, <2>2 DEF Joined
  <2>3. CASE i \in DOMAIN inbox /\ j \notin DOMAIN inbox
    <3>1. inbox'[i] = inbox[i] /\ inbox[i].n \in Turns /\ Asked(inbox[i].n)
          /\ (inbox[i].kind = "completed" => Over(inbox[i].n))
      BY <2>1, <2>3 DEF Joined, Ordered, InboxOrdered, Typed, Inboxed
    <3>2. inbox[i].n <= inbox'[j].n
      BY <1>4, <2>3, <3>1, JoinedLast
    <3>3. EndTurn /\ inbox[i].kind = "completed" => inbox[i].n < inbox'[j].n
      <4>1. ASSUME EndTurn, inbox[i].kind = "completed"
            PROVE  inbox[i].n < inbox'[j].n
        <5>1. inbox'[j].n = provider.turn /\ provider.at = "running"
          BY <1>4, <2>3, <4>1, JoinedLast
        <5> QED
          BY <3>1, <4>1, <5>1, TurnIs DEF Over, Asked
      <4> QED
        BY <4>1
    <3>4. ~EndTurn /\ inbox[i].kind = "completed" => inbox[i].n < inbox'[j].n
      BY <1>4, <2>3, <3>1, JoinedLast
    <3> QED
      BY <3>1, <3>2, <3>3, <3>4
  <2>4. CASE i \notin DOMAIN inbox
    <3>1. j \notin DOMAIN inbox
      BY <2>1, <2>4 DEF Joined
    <3>2. AskTurn
      <4>1. i # j
        BY <2>1 DEF Joined
      <4> QED
        BY <1>4, <2>4, <3>1, <4>1, JoinedLast
    <3>3. inbox'[i].n = provider.turn + 1 /\ inbox'[j].n = provider.turn + 1 /\ inbox'[i].kind # "completed"
      BY <1>4, <2>4, <3>1, <3>2, JoinedLast
    <3> QED
      BY <3>3, TurnIs
  <2> QED
    BY <2>2, <2>3, <2>4
<1> QED
  BY <1>2, <1>3, <1>4, InboxSteps

LEMMA WorkFirstStep == ASSUME StraightStep PROVE WorkFirst'
<1> USE DEF StraightStep
<1> SUFFICES ASSUME NEW i \in DOMAIN inbox', inbox'[i].kind # "revert"
             PROVE  /\ work'.at \in Capturing => work'.n < inbox'[i].n
                    /\ work'.at \in Baselining => work'.n <= inbox'[i].n
  BY DEF WorkFirst
<1>1. CASE /\ UNCHANGED work \/ CaptureBackup \/ CaptureTurn
           /\ work.at \in Capturing \cup Baselining
           /\ work'.n = work.n /\ (work'.at \in Capturing <=> work.at \in Capturing)
           /\ (work'.at \in Baselining <=> work.at \in Baselining)
  <2>1. CASE \E k \in DOMAIN inbox : inbox'[i] = inbox[k]
    BY <1>1, <2>1 DEF RowsAgree, WorkFirst
  <2>2. CASE (AskTurn \/ SendTurn \/ EndTurn \/ RequestRevert) /\ i \notin DOMAIN inbox
    <3>1. work.n \in Turns /\ Asked(work.n) /\ (work.at \in Capturing => Over(work.n))
      BY <1>1 DEF Ordered, WorkOrdered, Over, Typed, Worked, Capturing, Baselining, Reverting
    <3>2. work.n <= inbox'[i].n
      BY <2>2, <3>1, JoinedLast
    <3>3. work.at \in Capturing /\ ~EndTurn => work.n < inbox'[i].n
      BY <2>2, <3>1, JoinedLast
    <3>4. work.at \in Capturing /\ EndTurn => work.n < inbox'[i].n
      <4>1. EndTurn => inbox'[i].n = provider.turn /\ provider.at = "running"
        BY <2>2, JoinedLast
      <4> QED
        BY <3>1, <4>1, TurnIs DEF Over, Asked
    <3> QED
      BY <1>1, <3>2, <3>3, <3>4
  <2>3. CASE AskTurn \/ SendTurn \/ EndTurn \/ RequestRevert
    <3>1. PICK more : Joined(more)
      BY <2>3, Inputs
    <3> QED
      BY <2>1, <2>2, <2>3, <3>1 DEF Joined
  <2>4. CASE inbox # <<>> /\ inbox' = Tail(inbox)
    BY <2>1, <2>4, Taken
  <2>5. CASE UNCHANGED inbox
    BY <2>1, <2>5
  <2> QED
    BY <2>3, <2>4, <2>5, InboxSteps
<1>2. CASE /\ TakeMessage \/ TakeStart \/ TakeStarted \/ TakeCompleted
           /\ work'.n = Head(inbox).n
           /\ work'.at \in Capturing => TakeCompleted
  <2>1. PICK kind \in {"message", "start", "started", "completed"} : Takes(kind) /\ inbox' = Tail(inbox)
                                                              /\ (work'.at \in Capturing => kind = "completed")
    <3>1. CASE TakeCompleted
      BY <3>1 DEF TakeCompleted
    <3>2. CASE ~TakeCompleted
      BY <1>2, <3>2 DEF TakeMessage, TakeStart, TakeStarted
    <3> QED
      BY <3>1, <3>2
  <2>2. 1 \in DOMAIN inbox /\ inbox[1] = Head(inbox) /\ inbox[1].kind = kind /\ inbox # <<>>
    BY <2>1, TakenFirst
  <2>3. i + 1 \in DOMAIN inbox /\ inbox'[i] = inbox[i + 1] /\ 1 < i + 1
    <3>1. i \in Nat /\ i >= 1
      BY DEF Typed, Inboxed
    <3> QED
      BY <2>1, <2>2, <3>1, Taken
  <2> QED
    BY <1>2, <2>1, <2>2, <2>3 DEF RowsAgree, InboxSorted
<1> QED
  BY <1>1, <1>2, WorkSteps DEF Capturing, Baselining, Reverting

\* A turn that has a checkpoint, or a count, is remembered.
LEMMA RealRemembered ==
    ASSUME StraightStep, NEW t \in Turns, rows[t].count > 0, ~RolledBack
    PROVE  \E k \in DOMAIN Thread : Thread[k] = t
BY DEF StraightStep, RowsAgree, CountsPlaced, Place

LEMMA PendingRememberedStep == ASSUME StraightStep PROVE PendingRemembered'
<1> USE DEF StraightStep
<1> SUFFICES ASSUME NEW t \in Turns, Pending(t)'
             PROVE  (\E k \in DOMAIN Thread' : Thread'[k] = t) /\ rows'[t].kind # "real"
  BY DEF PendingRemembered, Pending, Unrecorded, Uncaptured, Ended, At, Thread
<1>1. CASE Pending(t)
  <2>1. PICK k \in DOMAIN Thread : Thread[k] = t
    BY <1>1 DEF RowsAgree, PendingRemembered
  <2>2. ~RollBack
    BY <1>1, NothingPending DEF RollBack, At, Reverting
  <2>3. k \in DOMAIN Thread' /\ Thread'[k] = t
    BY <2>1, <2>2, ThreadKept
  <2>4. ~(DispatchCheckpoint /\ t = work.n)
    BY NotPending
  <2>5. rows'[t].kind # "real"
    BY <1>1, <2>4, RealSteps DEF RowsAgree, PendingRemembered
  <2> QED
    BY <2>3, <2>5
<1>2. CASE SendTurn /\ t = provider.turn
  <2>1. \E k \in DOMAIN Thread' : Thread'[k] = t
    BY <1>2, ThreadKept
  <2>2. provider.at = "hooked" /\ rows' = rows
    BY <1>2 DEF SendTurn
  <2>3. ~RolledBack
    BY <2>2 DEF RolledBack, Ordered, RevertsLast, Reverting
  <2>4. ASSUME rows[t].kind = "real"
        PROVE  FALSE
    <3>1. rows[t].count > 0
      BY <2>4 DEF Staying, RealShows, Visible
    <3>2. PICK k \in DOMAIN Thread : Thread[k] = t
      BY <2>3, <3>1, RealRemembered
    <3> QED
      BY <1>2, <2>2, <3>2 DEF RowsAgree, ThreadGrows, Sent
  <2> QED
    BY <2>1, <2>2, <2>4
<1> QED
  BY <1>1, <1>2, PendingFrom

LEMMA PendingLastStep == ASSUME StraightStep PROVE PendingLast'
<1> USE DEF StraightStep
<1> SUFFICES ASSUME NEW i \in DOMAIN Thread', NEW j \in DOMAIN Thread', i < j, Pending(Thread[i])'
             PROVE  Pending(Thread[j])'
  BY DEF PendingLast
<1>1. PICK t \in Turns, u \in Turns : t = Thread'[i] /\ u = Thread'[j]
  BY ThreadThen
<1>2. Pending(t)'
  BY <1>1 DEF Pending, Unrecorded, Uncaptured, Ended, At
<1>3. Pending(u)'
  <2>1. CASE SendTurn /\ u = provider.turn
    BY <2>1 DEF SendTurn, Pending, Typed, Provided, Provider
  <2>2. CASE j \in DOMAIN Thread /\ Thread[j] = u
    <3>1. i \in DOMAIN Thread /\ Thread[i] = t
      <4>1. i # Len(Thread) + 1
        BY <1>1, <2>2, ThreadIs
      <4> QED
        BY <1>1, <4>1, ThreadKept
    <3>2. ~(SendTurn /\ t = provider.turn)
      BY <3>1 DEF SendTurn, RowsAgree, ThreadGrows, Sent
    <3>3. Pending(t) /\ Pending(u)
      BY <1>2, <2>2, <3>1, <3>2, PendingFrom DEF RowsAgree, PendingLast
    <3>4. ~(DispatchCheckpoint /\ u = work.n)
      <4>1. ASSUME DispatchCheckpoint, u = work.n
            PROVE  FALSE
        <5>1. Place(u, work.max)
          BY <4>1 DEF DispatchCheckpoint, At, Capturing, RowsAgree, WorkPlaced
        <5>2. work.max = j
          <6>1. work.max \in DOMAIN Thread /\ Thread[work.max] = Thread[j] /\ work.max \in Nat /\ j \in Nat
            BY <2>2, <5>1, ThreadIs DEF Place
          <6>2. ~(work.max < j) /\ ~(j < work.max)
            <7>1. \A k \in DOMAIN Thread : Thread[k] \in Nat
              BY ThreadIs, TurnIs
            <7> QED
              BY <2>2, <6>1, <7>1 DEF RowsAgree, ThreadGrows
          <6> QED
            BY <6>1, <6>2
        <5>3. i \in 1 .. (work.max - 1)
          <6>1. i \in Nat /\ i >= 1 /\ j \in Nat /\ i <= j - 1
            BY <3>1, ThreadThen, ThreadIs
          <6> QED
            BY <5>2, <6>1
        <5> QED
          BY <3>1, <3>3, <5>1, <5>3 DEF Place
      <4> QED
        BY <4>1
    <3> QED
      BY <3>3, <3>4, PendingStays
  <2> QED
    BY <1>1, <2>1, <2>2, ThreadKept
<1> QED
  BY <1>1, <1>3 DEF Pending, Unrecorded, Uncaptured, Ended, At

\* Each turn has one place.
LEMMA OnePlace ==
    ASSUME Typed, RowsAgree, NEW i \in DOMAIN Thread, NEW j \in DOMAIN Thread, Thread[i] = Thread[j]
    PROVE  i = j
<1>1. i \in Nat /\ j \in Nat /\ \A k \in DOMAIN Thread : Thread[k] \in Nat
  BY ThreadIs, TurnIs
<1>2. ~(i < j) /\ ~(j < i)
  BY <1>1 DEF RowsAgree, ThreadGrows
<1> QED
  BY <1>1, <1>2

\* Whoever has a place before the turn that is given a checkpoint, or a placeholder, keeps it.
LEMMA RecordStays ==
    ASSUME StraightStep, NEW k \in DOMAIN Thread, ~Pending(Thread[k]), RollBack \/ k \in DOMAIN Thread'
    PROVE  rows'[Thread[k]].kind = "real" /\ rows'[Thread[k]].count = k
<1> USE DEF StraightStep
<1>1. PICK t \in Turns : t = Thread[k]
  BY ThreadIs
<1>2. rows[t].kind = "real" /\ rows[t].count = k /\ k \in Nat /\ k >= 1
  BY <1>1, ThreadIs DEF RowsAgree, OthersRecorded
<1>3. CASE UNCHANGED rows \/ Closes
  BY <1>1, <1>2, <1>3 DEF Closes
<1>4. ASSUME NEW u \in Turns, NEW n \in Nat, NEW kind, NEW ready, NEW files,
             Place(u, n), Pending(u), DiffCompleted(u, kind, n, ready, files)
      PROVE  rows'[t] = rows[t]
  <2>1. t # u /\ n # k
    BY <1>1, <1>4 DEF Place
  <2> QED
    BY <1>2, <1>4, <2>1, Completed
<1>5. CASE live # NoLive /\ DiffCompleted(live.turn, "diff", live.count, FALSE, {})
  <2>1. live.turn \in Turns /\ live.count \in Nat /\ Place(live.turn, live.count) /\ Pending(live.turn)
    BY <1>5 DEF RowsAgree, LivePlaced, Typed, Lived, Live
  <2> QED
    BY <1>1, <1>2, <1>4, <1>5, <2>1
<1>6. CASE work.at = "captured" /\ DiffCompleted(work.n, "real", work.max, work.ready, work.files)
  <2>1. work.n \in Turns /\ work.max \in Nat /\ Place(work.n, work.max) /\ Pending(work.n)
    BY <1>6 DEF RowsAgree, WorkPlaced, Typed, Worked, Worker, Capturing, Reverting, Pending, Unrecorded, At
  <2> QED
    BY <1>1, <1>2, <1>4, <1>6, <2>1
<1>7. CASE CompleteRevert
  <2>1. work.n = Len(Thread) /\ k \in 1 .. work.n
    BY <1>7, ThreadIs DEF CompleteRevert, At, RolledBack, RowsAgree, WorkPlaced
  <2>2. rows'[t] = rows[t]
    BY <1>1, <1>2, <1>7, <2>1 DEF CompleteRevert
  <2> QED
    BY <1>1, <1>2, <2>2
<1> QED
  BY <1>3, <1>5, <1>6, <1>7, RowSteps

LEMMA OthersRecordedStep == ASSUME StraightStep PROVE OthersRecorded'
<1> USE DEF StraightStep
<1> SUFFICES ASSUME NEW k \in DOMAIN Thread', ~Pending(Thread[k])'
             PROVE  rows'[Thread'[k]].kind = "real" /\ rows'[Thread'[k]].count = k
  BY DEF OthersRecorded
<1>1. PICK t \in Turns : t = Thread'[k]
  BY ThreadThen
<1>2. ~Pending(t)'
  BY <1>1 DEF Pending, Unrecorded, Uncaptured, Ended, At
<1>3. k \in DOMAIN Thread /\ Thread[k] = t
  <2>1. ~(SendTurn /\ t = provider.turn)
    BY <1>2 DEF SendTurn, Pending, Typed, Provided, Provider
  <2> QED
    BY <1>1, <2>1, ThreadKept
<1>4. CASE ~Pending(t)
  BY <1>1, <1>3, <1>4, RecordStays
<1>5. CASE Pending(t)
  <2>1. DispatchCheckpoint /\ t = work.n
    BY <1>2, <1>5, PendingStays
  <2>2. work.at = "captured" /\ DiffCompleted(t, "real", work.max, work.ready, work.files) /\ work.max \in Nat
    BY <2>1 DEF DispatchCheckpoint, At, Typed, Worked, Worker
  <2>3. Place(t, work.max)
    BY <2>1, <2>2 DEF RowsAgree, WorkPlaced, Capturing
  <2>4. work.max = k
    BY <1>3, <2>3, OnePlace DEF Place
  <2> QED
    BY <1>1, <2>2, <2>4, Completed
<1> QED
  BY <1>4, <1>5

LEMMA CountsPlacedStep == ASSUME StraightStep PROVE CountsPlaced'
<1> USE DEF StraightStep
<1> SUFFICES ASSUME NEW t \in Turns, NEW c \in Nat, c = rows'[t].count, c > 0
             PROVE  Place(t, c)' \/ (work'.at \in {"deleting", "completing"} /\ c > work'.n)
  <2>1. \A t \in Turns : rows'[t].count \in Nat
    BY DEF Typed, Rowed, Row
  <2> QED
    BY <2>1 DEF CountsPlaced, RolledBack, Place, Pending, Unrecorded, Uncaptured, Ended, At, Thread
<1>0. work \in Worker /\ work' \in Worker
  BY DEF Typed, Worked
<1>1. CASE Place(t, c)
  <2>1. CASE RollBack => c <= work.n
    BY <1>1, <2>1, PlaceStays
  <2>2. CASE RollBack /\ ~(c <= work.n)
    <3>1. work'.at = "deleting" /\ work'.n = work.n
      BY <1>0, <2>2 DEF RollBack, Goes, Worker
    <3> QED
      BY <1>0, <2>2, <3>1 DEF Worker
  <2> QED
    BY <2>1, <2>2
<1>2. CASE rows[t].count = c /\ ~CompleteRevert
  <2>1. Place(t, c) \/ (RolledBack /\ c > work.n)
    BY <1>2 DEF RowsAgree, CountsPlaced
  <2>2. CASE RolledBack /\ c > work.n
    <3>1. work'.at \in {"deleting", "completing"} /\ work'.n = work.n
      <4>1. CASE UNCHANGED work
        BY <2>2, <4>1 DEF RolledBack
      <4>2. CASE DeleteStale
        BY <1>0, <4>2 DEF DeleteStale, Goes, Worker
      <4>3. CASE \/ TakeMessage \/ TakeStart \/ CaptureBackup \/ TakeStarted \/ EnsureBaseline
                 \/ TakeCompleted \/ CaptureTurn \/ DispatchCheckpoint
                 \/ TakeRevert \/ Restore \/ RollBack
        BY <2>2, <4>3 DEF TakeMessage, TakeStart, CaptureBackup, TakeStarted, EnsureBaseline, TakeCompleted,
             CaptureTurn, DispatchCheckpoint, TakeRevert, Restore, RollBack, Takes, At, Rest, RolledBack
      <4>4. CASE \/ UserEdits \/ AskTurn \/ CaptureMessageStart \/ SendTurn
                 \/ EditFiles \/ UpdateDiff \/ EndTurn \/ RequestRevert
                 \/ IngestStarted \/ IngestCompleted \/ ReadDiff \/ DispatchPlaceholder
        <5>1. UNCHANGED work
          BY <4>4 DEF UserEdits, AskTurn, CaptureMessageStart, SendTurn, EditFiles, UpdateDiff, EndTurn, RequestRevert,
             IngestStarted, IngestCompleted, ReadDiff, DispatchPlaceholder, reactor
        <5> QED
          BY <4>1, <5>1
      <4> QED
        BY <1>2, <4>2, <4>3, <4>4, StraightBefore DEF CheckpointsNext
    <3> QED
      BY <2>2, <3>1
  <2> QED
    BY <1>1, <2>1, <2>2
<1>3. ASSUME NEW u \in Turns, NEW n \in Nat, NEW kind, NEW ready, NEW files,
             Place(u, n), DiffCompleted(u, kind, n, ready, files)
      PROVE  Place(t, c) \/ rows[t].count = c
  <2>1. CASE t = u
    BY <1>3, <2>1, Completed
  <2>2. CASE t # u
    BY <1>3, <2>2, Completed
  <2> QED
    BY <2>1, <2>2
<1>4. CASE live # NoLive /\ DispatchPlaceholder /\ DiffCompleted(live.turn, "diff", live.count, FALSE, {})
  <2>1. live.turn \in Turns /\ live.count \in Nat /\ Place(live.turn, live.count)
    BY <1>4 DEF RowsAgree, LivePlaced, Typed, Lived, Live
  <2>2. ~CompleteRevert
    <3>1. work.at \notin Reverting
      BY <1>4 DEF RowsAgree, RevertsQuiet, Typed, Lived
    <3> QED
      BY <3>1 DEF CompleteRevert, At, Reverting
  <2> QED
    BY <1>1, <1>2, <1>3, <1>4, <2>1, <2>2
<1>5. CASE DispatchCheckpoint /\ work.at = "captured" /\ DiffCompleted(work.n, "real", work.max, work.ready, work.files)
  <2>1. work.n \in Turns /\ work.max \in Nat /\ Place(work.n, work.max)
    BY <1>5 DEF RowsAgree, WorkPlaced, Typed, Worked, Worker, Capturing, Reverting
  <2>2. ~CompleteRevert
    BY <1>5 DEF CompleteRevert, At
  <2> QED
    BY <1>1, <1>2, <1>3, <1>5, <2>1, <2>2
<1>6. CASE CompleteRevert
  <2>1. rows[t].count = c /\ c \in 1 .. work.n
    BY <1>6 DEF CompleteRevert, NoRow
  <2>2. Place(t, c)
    BY <1>0, <2>1 DEF RowsAgree, CountsPlaced, Worker
  <2> QED
    BY <1>1, <2>2
<1>7. CASE UNCHANGED rows \/ Closes
  BY <1>2, <1>6, <1>7 DEF Closes
<1> QED
  BY <1>4, <1>5, <1>6, <1>7, RowSteps

LEMMA ReadyRealStep == ASSUME StraightStep PROVE ReadyReal'
<1> USE DEF StraightStep
<1> SUFFICES ASSUME NEW t \in Turns, rows'[t].ready
             PROVE  rows'[t].kind = "real"
  BY DEF ReadyReal
<1>1. CASE rows[t].ready /\ rows[t].kind = "real"
  <2>1. \/ rows'[t].kind = "real"
        \/ At("completing") \/ "overtaken" \in mishaps
    BY <1>1, StaysInStep
  <2>2. CASE At("completing")
    <3>1. rows'[t] \in {rows[t], NoRow} \/ UNCHANGED rows \/ Closes
                \/ (live # NoLive /\ DispatchPlaceholder)
      BY <2>2, RowSteps DEF At
    <3>2. live = NoLive
      BY <2>2 DEF At, Reverting, RowsAgree, RevertsQuiet, Typed, Lived
    <3> QED
      BY <1>1, <3>1, <3>2 DEF NoRow, Closes
  <2>3. "overtaken" \notin mishaps
    BY StraightBefore DEF Straight
  <2> QED
    BY <2>1, <2>2, <2>3
<1>2. CASE DispatchCheckpoint /\ t = work.n /\ work.at = "captured"
  <2>1. DiffCompleted(t, "real", work.max, work.ready, work.files) /\ work.max \in Nat
    BY <1>2 DEF DispatchCheckpoint, Typed, Worked, Worker
  <2> QED
    BY <2>1, Completed
<1> QED
  BY <1>1, <1>2, ReadySteps DEF RowsAgree, ReadyReal

\* Nothing is tracked, and no live diff on its way, while the worker reverts.
LEMMA RevertsAlone ==
    ASSUME StraightStep, work.at \in Reverting
    PROVE  ingest = <<>> /\ live = NoLive /\ active = 0 /\ \A t \in Turns : tracked[t] = 0
<1> USE DEF StraightStep
<1>1. ingest = <<>> /\ live = NoLive
  BY DEF RowsAgree, RevertsQuiet, Typed, Lived
<1>2. provider.at = "idle"
  BY DEF Ordered, RevertsLast
<1>3. active = 0
  BY <1>1, <1>2 DEF Staying, LinkedLast
<1> QED
  BY <1>1, <1>3, TurnIs DEF Staying, TrackedActive

LEMMA TrackedPlacedStep == ASSUME StraightStep PROVE TrackedPlaced'
<1> USE DEF StraightStep
<1> SUFFICES ASSUME NEW t \in Turns, NEW c, c = tracked'[t], c # 0
             PROVE  Place(t, c)'
  BY DEF TrackedPlaced, Place, Pending, Unrecorded, Uncaptured, Ended, At, Thread
<1>0. tracked \in [Turns -> Nat]
  BY DEF Typed, Ingesting
<1>1. CASE tracked[t] = c
  <2>1. Place(t, c)
    BY <1>1 DEF RowsAgree, TrackedPlaced
  <2>2. ~RollBack
    BY <1>1, RevertsAlone DEF RollBack, At, Reverting
  <2> QED
    BY <2>1, <2>2, PlaceStays
<1>2. CASE DispatchPlaceholder /\ tracked' = [tracked EXCEPT ![live.turn] = live.count] /\ t = live.turn
  <2>1. c = live.count
    BY <1>0, <1>2
  <2>2. live # NoLive
    BY <1>2 DEF DispatchPlaceholder
  <2>3. Place(t, c)
    BY <1>2, <2>1, <2>2 DEF RowsAgree, LivePlaced
  <2>4. ~RollBack
    BY <2>2, RevertsAlone DEF RollBack, At, Reverting
  <2> QED
    BY <2>3, <2>4, PlaceStays
<1>3. CASE DispatchPlaceholder
  <2>1. tracked' \in {tracked, [tracked EXCEPT ![live.turn] = live.count]}
    BY <1>3 DEF DispatchPlaceholder
  <2> QED
    BY <1>0, <1>1, <1>2, <1>3, <2>1
<1>4. CASE ReadDiff \/ IngestCompleted
  <2>1. tracked' \in {tracked, [tracked EXCEPT ![Head(ingest).n] = 0]}
    BY <1>4 DEF ReadDiff, IngestCompleted
  <2> QED
    BY <1>0, <1>1, <2>1
<1> QED
  BY <1>1, <1>3, <1>4, LiveSteps

\* The largest count, where every turn before t has its checkpoint and t is the next ...
LEMMA MaxBefore ==
    ASSUME StraightStep, ~RolledBack, NEW t \in Turns, NEW p, Place(t, p), Pending(t), t \notin Visible
    PROVE  MaxTurnCount(Visible) + 1 = p
<1> USE DEF StraightStep
<1> DEFINE m == MaxTurnCount(Visible)
<1>1. /\ m \in Nat
      /\ \A u \in Visible : rows[u].count <= m
      /\ m # 0 => \E u \in Visible : rows[u].count = m
  BY VisibleTurns, MaxIs DEF Typed, Rowed
<1> HIDE DEF m
<1>2. p \in DOMAIN Thread /\ Thread[p] = t /\ p \in Nat /\ p >= 1 /\ DOMAIN Thread = 1 .. Len(Thread) /\ Len(Thread) \in Nat
  BY ThreadIs DEF Place
<1>3. m <= p - 1
  <2> SUFFICES ASSUME m # 0
               PROVE  m <= p - 1
    BY <1>1, <1>2
  <2>1. PICK u \in Visible : rows[u].count = m
    BY <1>1
  <2>2. u \in Turns /\ u # t /\ Place(u, m)
    BY <2>1, <1>1 DEF Visible, RowsAgree, CountsPlaced
  <2>3. m # p
    BY <1>2, <2>2 DEF Place
  <2>4. ~(p < m)
    <3>1. p < m => p \in 1 .. (m - 1)
      BY <1>1, <1>2
    <3> QED
      BY <1>2, <2>2, <3>1 DEF Place
  <2> QED
    BY <1>1, <1>2, <2>3, <2>4
<1>4. p - 1 <= m
  <2> SUFFICES ASSUME p - 1 >= 1
               PROVE  p - 1 <= m
    BY <1>1, <1>2
  <2>1. p - 1 \in 1 .. (p - 1) /\ p - 1 \in DOMAIN Thread
    BY <1>2
  <2>2. ~Pending(Thread[p - 1])
    BY <2>1 DEF Place
  <2>3. rows[Thread[p - 1]].kind = "real" /\ rows[Thread[p - 1]].count = p - 1 /\ Thread[p - 1] \in Turns
    BY <2>1, <2>2, ThreadIs DEF RowsAgree, OthersRecorded
  <2>4. Thread[p - 1] \in Visible
    BY <2>3 DEF Staying, RealShows
  <2> QED
    BY <1>1, <2>3, <2>4
<1> QED
  BY <1>1, <1>2, <1>3, <1>4 DEF m

\* ... and where nothing is pending.
LEMMA MaxAtEnd ==
    ASSUME StraightStep, ~RolledBack, \A t \in Turns : ~Pending(t)
    PROVE  MaxTurnCount(Visible) = Len(Thread)
<1> USE DEF StraightStep
<1> DEFINE m == MaxTurnCount(Visible)
<1>1. /\ m \in Nat
      /\ \A u \in Visible : rows[u].count <= m
      /\ m # 0 => \E u \in Visible : rows[u].count = m
  BY VisibleTurns, MaxIs DEF Typed, Rowed
<1> HIDE DEF m
<1>2. DOMAIN Thread = 1 .. Len(Thread) /\ Len(Thread) \in Nat
  BY ThreadIs
<1>3. m <= Len(Thread)
  <2> SUFFICES ASSUME m # 0
               PROVE  m <= Len(Thread)
    BY <1>1, <1>2
  <2>1. PICK u \in Visible : rows[u].count = m
    BY <1>1
  <2>2. Place(u, m)
    BY <2>1, <1>1 DEF Visible, RowsAgree, CountsPlaced
  <2> QED
    BY <1>2, <2>2 DEF Place
<1>4. Len(Thread) <= m
  <2> SUFFICES ASSUME Len(Thread) >= 1
               PROVE  Len(Thread) <= m
    BY <1>1, <1>2
  <2>1. Len(Thread) \in DOMAIN Thread
    BY <1>2
  <2>2. PICK k \in DOMAIN Thread : k = Len(Thread)
    BY <2>1
  <2>3. rows[Thread[k]].kind = "real" /\ rows[Thread[k]].count = k /\ Thread[k] \in Turns
    BY ThreadIs DEF RowsAgree, OthersRecorded
  <2>4. Thread[k] \in Visible
    BY <2>3 DEF Staying, RealShows
  <2> QED
    BY <1>1, <2>2, <2>3, <2>4
<1> QED
  BY <1>1, <1>2, <1>3, <1>4 DEF m

\* The next turn count of the first turn that is pending is its place.
LEMMA NextIsPlace ==
    ASSUME StraightStep, ~RolledBack, NEW t \in Turns, NEW p, Place(t, p), Pending(t)
    PROVE  NextTurnCount(t) = p
<1> USE DEF StraightStep
<1>1. CASE t \in Visible
  <2>1. Place(t, rows[t].count)
    BY <1>1 DEF Visible, RowsAgree, CountsPlaced
  <2>2. rows[t].count = p
    BY <2>1, OnePlace DEF Place
  <2> QED
    BY <1>1, <2>2 DEF NextTurnCount
<1>2. CASE t \notin Visible
  BY <1>2, MaxBefore DEF NextTurnCount
<1> QED
  BY <1>1, <1>2

LEMMA LivePlacedStep == ASSUME StraightStep PROVE LivePlaced'
<1> USE DEF StraightStep
<1> SUFFICES ASSUME live' # NoLive, NEW t, NEW c, t = live'.turn, c = live'.count
             PROVE  Place(t, c)' /\ Pending(t)'
  BY DEF LivePlaced, Place, Pending, Unrecorded, Uncaptured, Ended, At, Thread
<1>1. ASSUME live # NoLive \/ ReadDiff, t \in Turns, Place(t, c), Pending(t)
      PROVE  Place(t, c)' /\ Pending(t)'
  <2>1. ~RollBack
    BY <1>1, RevertsAlone DEF RollBack, At, Reverting, ReadDiff, NextIs
  <2>2. ~DispatchCheckpoint
    <3>1. ReadDiff => work' = work
      BY DEF ReadDiff, reactor
    <3>2. DispatchCheckpoint => work'.at # work.at
      BY DEF DispatchCheckpoint, At, Rest
    <3> QED
      BY <1>1, <3>1, <3>2, StraightBefore
  <2> QED
    BY <1>1, <2>1, <2>2, PlaceStays, PendingStays
<1>2. CASE live' = live
  <2>1. live.turn \in Turns /\ Place(t, c) /\ Pending(t)
    BY <1>2 DEF RowsAgree, LivePlaced, Typed, Lived
  <2> QED
    BY <1>1, <1>2, <2>1
<1>3. CASE ReadDiff
  <2> DEFINE n == Head(ingest).n
  <2>1. n \in Turns /\ live = NoLive /\ ingest # <<>>
    BY <1>3, IngestTaken DEF ReadDiff
  <2>2. ~Authoritative(n) /\ live' = [turn |-> n, count |-> PlaceholderCount(n)]
    BY <1>3, <2>1 DEF ReadDiff
  <2>3. t = n /\ c = PlaceholderCount(n) /\ rows[n].kind # "real"
    BY <2>1, <2>2 DEF Authoritative, Staying, RealShows
  <2>4. PICK p \in DOMAIN Thread : Thread[p] = n
    <3>1. 1 \in DOMAIN ingest /\ Head(ingest) = ingest[1]
      BY <2>1, TailFacts DEF Typed, Ingesting
    <3> QED
      BY <3>1 DEF RowsAgree, IngestRemembered
  <2>5. Pending(n)
    BY <2>3, <2>4 DEF RowsAgree, OthersRecorded
  <2>6. Place(n, p)
    <3>1. ASSUME NEW i \in 1 .. (p - 1), Pending(Thread[i])
          PROVE  FALSE
      <4>1. i \in DOMAIN Thread /\ i < p
        BY ThreadIs
      <4>2. Thread[i] < n /\ Thread[i] \in Nat /\ n \in Nat
        BY <2>4, <4>1, ThreadIs, TurnIs DEF RowsAgree, ThreadGrows
      <4>3. Thread[i] # n
        BY <4>2
      <4>4. Unrecorded \ {n} = {}
        BY <1>3, StraightBefore
      <4>5. Thread[i] = provider.turn /\ provider.at = "running"
        BY <3>1, <4>3, <4>4 DEF Pending
      <4>6. Sent(n)
        BY <2>4 DEF RowsAgree, ThreadGrows
      <4> QED
        BY <4>2, <4>5, <4>6 DEF Sent, Asked
    <3> QED
      BY <2>4, <3>1 DEF Place
  <2>7. ~RolledBack
    BY <2>1, RevertsAlone DEF RolledBack, Reverting
  <2>8. PlaceholderCount(n) = p
    <3>1. CASE tracked[n] # 0
      <4>1. Place(n, tracked[n])
        BY <2>1, <3>1 DEF RowsAgree, TrackedPlaced
      <4>2. tracked[n] = p
        BY <2>4, <4>1, OnePlace DEF Place
      <4> QED
        BY <2>1, <3>1, <4>2 DEF PlaceholderCount, Typed, Ingesting
    <3>2. CASE tracked[n] = 0
      <4>1. PlaceholderCount(n) = NextTurnCount(n)
        BY <3>2 DEF PlaceholderCount, NextTurnCount
      <4> QED
        BY <2>1, <2>5, <2>6, <2>7, <4>1, NextIsPlace
    <3> QED
      BY <3>1, <3>2
  <2> QED
    BY <1>1, <1>3, <2>1, <2>3, <2>5, <2>6, <2>8
<1>4. CASE DispatchPlaceholder
  BY <1>4 DEF DispatchPlaceholder
<1> QED
  BY <1>2, <1>3, <1>4, LiveSteps

LEMMA IngestRememberedStep == ASSUME StraightStep PROVE IngestRemembered'
<1> USE DEF StraightStep
<1> SUFFICES ASSUME NEW i \in DOMAIN ingest'
             PROVE  \E k \in DOMAIN Thread' : Thread'[k] = ingest'[i].n
  BY DEF IngestRemembered
<1>1. ingest \in Seq(RuntimeInput) /\ ingest' \in Seq(RuntimeInput)
  BY DEF Typed, Ingesting
<1>2. CASE \E j \in DOMAIN ingest : ingest'[i] = ingest[j]
  <2>1. PICK k \in DOMAIN Thread : Thread[k] = ingest'[i].n
    BY <1>2 DEF RowsAgree, IngestRemembered
  <2>2. ingest # <<>>
    BY <1>1, <1>2
  <2>3. ~RollBack
    BY <2>2, RevertsAlone DEF RollBack, At, Reverting
  <2> QED
    BY <2>1, <2>3, ThreadKept
<1>3. CASE SendTurn \/ UpdateDiff \/ EndTurn
  <2>1. PICK e \in RuntimeInput : ingest' = Append(ingest, e) /\ e.n = provider.turn
    <3>1. CASE SendTurn \/ UpdateDiff
      <4>1. provider.turn \in Turns
        BY <3>1, TurnIs DEF SendTurn, UpdateDiff
      <4>2. PICK kind \in {"started", "diff"} : ingest' = Append(ingest, Input(kind, provider.turn))
        BY <3>1 DEF SendTurn, UpdateDiff
      <4> QED
        BY <4>1, <4>2, InputTyped
    <3>2. CASE EndTurn
      <4>1. PICK ready \in BOOLEAN :
               /\ ingest' = Append(ingest, [Input("completed", provider.turn) EXCEPT !.ready = ready])
               /\ provider.turn \in Turns
        BY <3>2, Inputs
      <4>2. /\ [Input("completed", provider.turn) EXCEPT !.ready = ready] \in RuntimeInput
            /\ [Input("completed", provider.turn) EXCEPT !.ready = ready].n = provider.turn
        BY <4>1 DEF Input, RuntimeInput
      <4> QED
        BY <4>1, <4>2
    <3> QED
      BY <1>3, <3>1, <3>2
  <2>2. (i \in DOMAIN ingest /\ ingest'[i] = ingest[i]) \/ ingest'[i] = e
    BY <1>1, <2>1
  <2>3. \E k \in DOMAIN Thread' : Thread'[k] = provider.turn
    <3>1. CASE SendTurn
      BY <3>1, ThreadKept
    <3>2. CASE UpdateDiff \/ EndTurn
      <4>1. provider.at = "running" /\ provider.turn \in Turns
        BY <3>2, TurnIs DEF UpdateDiff, EndTurn
      <4>2. PICK k \in DOMAIN Thread : Thread[k] = provider.turn
        BY <4>1 DEF RowsAgree, PendingRemembered, Pending
      <4>3. ~RollBack
        BY <4>1, NothingPending DEF RollBack, At, Reverting
      <4> QED
        BY <4>2, <4>3, ThreadKept
    <3> QED
      BY <1>3, <3>1, <3>2
  <2> QED
    BY <1>2, <2>1, <2>2, <2>3
<1>4. CASE ingest # <<>> /\ ingest' = Tail(ingest)
  <2>1. i + 1 \in DOMAIN ingest /\ ingest'[i] = ingest[i + 1]
    BY <1>1, <1>4, TailFacts
  <2> QED
    BY <1>2, <2>1
<1>5. CASE UNCHANGED ingest
  BY <1>2, <1>5
<1> QED
  BY <1>3, <1>4, <1>5, IngestSteps

LEMMA WorkPlacedStep == ASSUME StraightStep PROVE WorkPlaced'
<1> USE DEF StraightStep
<1>0. work \in Worker /\ work' \in Worker
  BY DEF Typed, Worked
<1>1. ASSUME work'.at \in Capturing, NEW t, NEW p, t = work'.n, p = work'.max
      PROVE  Place(t, p)'
  <2>1. ASSUME work.at \in Capturing, work'.n = work.n, work'.max = work.max
        PROVE  Place(t, p)'
    <3>1. t \in Turns /\ Place(t, p) /\ ~RollBack
      BY <1>1, <2>1 DEF RowsAgree, WorkPlaced, Typed, Worked, Capturing, Reverting, RollBack, At
    <3> QED
      BY <3>1, PlaceStays
  <2>2. CASE TakeCompleted
    <3>1. /\ 1 \in DOMAIN inbox /\ inbox[1] = Head(inbox) /\ Head(inbox).kind = "completed" /\ work.at = "idle"
          /\ t = Head(inbox).n /\ t \in Turns /\ p = NextTurnCount(t)
      BY <1>1, <2>2, TakenFirst DEF TakeCompleted, Rest, Capturing
    <3>2. t \in Ended
      BY <3>1, EndedIs
    <3>3. Pending(t) /\ Over(t)
      BY <3>1, <3>2 DEF Pending, Unrecorded, Uncaptured, Ordered, InboxOrdered
    <3>4. PICK k \in DOMAIN Thread : Thread[k] = t
      BY <3>1, <3>3 DEF RowsAgree, PendingRemembered
    <3>5. Place(t, k)
      <4>1. ASSUME NEW i \in 1 .. (k - 1), Pending(Thread[i])
            PROVE  FALSE
        <5>1. i \in DOMAIN Thread /\ i < k
          BY ThreadIs
        <5>2. Thread[i] < t /\ Thread[i] \in Nat /\ t \in Nat
          BY <3>4, <5>1, ThreadIs, TurnIs DEF RowsAgree, ThreadGrows
        <5>3. Thread[i] \notin Ended
          <6>1. ASSUME NEW j \in DOMAIN inbox, inbox[j].kind = "completed", inbox[j].n = Thread[i]
                PROVE  FALSE
            <7>1. j = 1 \/ 1 < j
              BY DEF Typed, Inboxed
            <7>2. t <= inbox[j].n
              BY <3>1, <5>2, <6>1, <7>1 DEF RowsAgree, InboxSorted
            <7> QED
              BY <5>2, <6>1, <7>2
          <6> QED
            BY <6>1, EndedIs
        <5>4. Thread[i] = provider.turn
          BY <3>1, <4>1, <5>3 DEF Pending, Unrecorded, Uncaptured, At
        <5> QED
          BY <3>3, <5>2, <5>4 DEF Over, Asked
      <4> QED
        BY <3>4, <4>1 DEF Place
    <3>6. ~RolledBack /\ ~RollBack
      BY <3>1 DEF RolledBack, RollBack, At
    <3>7. p = k
      BY <3>1, <3>3, <3>5, <3>6, NextIsPlace
    <3> QED
      BY <3>1, <3>5, <3>6, <3>7, PlaceStays
  <2> QED
    BY <1>1, <2>1, <2>2, WorkSteps DEF Capturing, Reverting
<1>2. ASSUME work'.at \in {"restoring", "rolling"}
      PROVE  work'.max = Len(Thread')
  <2>1. CASE TakeRevert
    <3>1. Takes("revert") /\ provider' = provider /\ work'.max = MaxTurnCount(Visible)
      BY <1>2, <2>1 DEF TakeRevert, Continue, Rest
    <3>2. (\A t \in Turns : ~Pending(t)) /\ ~RolledBack
      BY <3>1, NothingPending DEF Takes, Rest, RolledBack
    <3>3. MaxTurnCount(Visible) = Len(Thread)
      BY <3>2, MaxAtEnd
    <3> QED
      BY <3>1, <3>3 DEF Thread
  <2>2. ASSUME work.at \in {"restoring", "rolling"}, work'.max = work.max, ~RollBack
        PROVE  work'.max = Len(Thread')
    <3>1. provider.at = "idle"
      BY <2>2 DEF Ordered, RevertsLast, Reverting
    <3>2. Thread' = Thread
      BY <2>2, <3>1, ThreadSteps
    <3> QED
      BY <2>2, <3>2 DEF RowsAgree, WorkPlaced
  <2>3. CASE UNCHANGED work
    <3>1. RollBack => work'.at = "deleting"
      BY <1>0 DEF RollBack, Goes, Worker
    <3> QED
      BY <1>2, <2>2, <2>3, <3>1
  <2>4. CASE Restore
    <3>1. work.at = "restoring" /\ work'.max = work.max
      BY <1>0, <2>4 DEF Restore, At, Goes, Worker
    <3> QED
      BY <2>2, <3>1 DEF RollBack, At
  <2>5. RollBack \/ DeleteStale => work'.at \in {"deleting", "completing"}
    BY <1>0 DEF RollBack, DeleteStale, Goes, Worker
  <2> QED
    BY <1>2, <2>1, <2>3, <2>4, <2>5, WorkSteps DEF Capturing
<1>3. ASSUME work'.at \in {"deleting", "completing"}
      PROVE  work'.n = Len(Thread')
  <2>1. CASE RollBack
    <3>1. work'.n = work.n
      BY <1>0, <2>1 DEF RollBack, Goes, Worker
    <3> QED
      BY <2>1, <3>1, ThreadKept
  <2>2. ASSUME RolledBack, work'.n = work.n
        PROVE  work'.n = Len(Thread')
    <3>1. provider.at = "idle" /\ ~RollBack
      BY <2>2 DEF Ordered, RevertsLast, Reverting, RolledBack, RollBack, At
    <3>2. Thread' = Thread
      BY <3>1, ThreadSteps
    <3> QED
      BY <2>2, <3>2 DEF RowsAgree, WorkPlaced
  <2>3. CASE UNCHANGED work
    BY <1>3, <2>2, <2>3 DEF RolledBack
  <2>4. CASE DeleteStale
    BY <1>0, <2>2, <2>4 DEF DeleteStale, At, Goes, Worker, RolledBack
  <2>5. CASE Restore
    BY <1>0, <1>3, <2>5 DEF Restore, Goes, Worker
  <2> QED
    BY <1>3, <2>1, <2>3, <2>4, <2>5, WorkSteps DEF Capturing
<1> QED
  BY <1>1, <1>2, <1>3 DEF WorkPlaced, RolledBack, Place, Pending, Unrecorded, Uncaptured, Ended, At, Thread

LEMMA InitAgreeing == CheckpointsInit => RowsAgreeing
BY DEF CheckpointsInit, RowsAgreeing, RowsAgree, ThreadGrows, RevertsQuiet, InboxSorted, WorkFirst,
   PendingRemembered, PendingLast, OthersRecorded, CountsPlaced, ReadyReal, TrackedPlaced, LivePlaced,
   IngestRemembered, WorkPlaced, Thread, Pending, Unrecorded, Uncaptured, Ended, At, Rest, NoRow, Capturing,
   Reverting, RolledBack, Baselining

LEMMA SameAgreeing == RowsAgreeing /\ UNCHANGED checkpointVars => RowsAgreeing'
<1> SUFFICES ASSUME RowsAgreeing, UNCHANGED <<provider, rows, ingest, live, tracked, inbox, work, mishaps>>
             PROVE  RowsAgreeing'
  BY DEF checkpointVars, ingestion, reactor, history
<1>1. \A t : Pending(t)' <=> Pending(t)
  BY DEF Pending, Unrecorded, Uncaptured, Ended, At
<1>2. Thread' = Thread /\ (RolledBack' <=> RolledBack) /\ \A t, k : Place(t, k)' <=> Place(t, k)
  BY DEF Thread, RolledBack, Place, Pending, Unrecorded, Uncaptured, Ended, At
<1>3. ThreadGrows /\ RevertsQuiet /\ InboxSorted /\ WorkFirst =>
         (ThreadGrows /\ RevertsQuiet /\ InboxSorted /\ WorkFirst)'
  BY <1>2 DEF ThreadGrows, RevertsQuiet, InboxSorted, WorkFirst, Sent, Asked
<1>4. PendingRemembered /\ PendingLast /\ OthersRecorded => (PendingRemembered /\ PendingLast /\ OthersRecorded)'
  BY DEF PendingRemembered, PendingLast, OthersRecorded, Pending, Unrecorded, Uncaptured, Ended, At, Thread
<1>5. /\ CountsPlaced /\ ReadyReal /\ TrackedPlaced => (CountsPlaced /\ ReadyReal /\ TrackedPlaced)'
      /\ LivePlaced /\ IngestRemembered /\ WorkPlaced => (LivePlaced /\ IngestRemembered /\ WorkPlaced)'
  BY DEF CountsPlaced, ReadyReal, TrackedPlaced, LivePlaced, IngestRemembered, WorkPlaced, RolledBack, Place,
     Pending, Unrecorded, Uncaptured, Ended, At, Thread
<1> QED
  BY <1>3, <1>4, <1>5 DEF RowsAgreeing, RowsAgree, Straight

LEMMA AgreeingStep ==
    Typed /\ Typed' /\ Ordered /\ Staying /\ RowsAgreeing /\ [CheckpointsNext]_checkpointVars => RowsAgreeing'
<1> SUFFICES ASSUME Typed, Typed', Ordered, Staying, RowsAgreeing, CheckpointsNext, Straight'
             PROVE  RowsAgree'
  BY SameAgreeing DEF RowsAgreeing
<1>1. StraightStep
  BY StraightBefore DEF RowsAgreeing, StraightStep
<1> QED
  BY <1>1, ThreadGrowsStep, RevertsQuietStep, InboxSortedStep, WorkFirstStep, PendingRememberedStep,
     PendingLastStep, OthersRecordedStep, CountsPlacedStep, ReadyRealStep, TrackedPlacedStep, LivePlacedStep,
     IngestRememberedStep, WorkPlacedStep DEF RowsAgree
-----------------------------------------------------------------------------------
\* The workspace agrees with them.

\* What the turns up to the k-th that the provider remembers have changed.
TurnTree(k) == edited \cap {Thread[i] : i \in 1 .. k}

\* No later turn has changed files while the reactor has an input of an earlier one before it.
EditsBehind ==
    /\ \A i \in DOMAIN inbox :
          /\ inbox[i].kind \in Starting => \A u \in edited : u < inbox[i].n
          /\ inbox[i].kind = "completed" => \A u \in edited : u <= inbox[i].n
    /\ work.at \in Baselining => \A u \in edited : u < work.n
    /\ work.at \in Capturing => \A u \in edited : u <= work.n
\* Only a turn that has changed files has live diffs.
DiffsEdited ==
    /\ \A t \in Turns : rows[t].count > 0 /\ rows[t].kind # "real" => t \in edited
    /\ \A i \in DOMAIN ingest : ingest[i].kind = "diff" => ingest[i].n \in edited
\* The checkpoint with a count is the tree of the turns up to its place, or about to be deleted.
RefsAgree == \A k \in Nat : Exists(TurnRef(k)) =>
    \/ work.at = "deleting" /\ k > Len(Thread) /\ k \in work.stale
    \/ /\ k <= Len(Thread) /\ refs[TurnRef(k)] \ {ByUser} = TurnTree(k)
       /\ k = 0 \/ ~Pending(Thread[k]) \/ (work.at = "captured" /\ k = work.max)
RestoreKnown ==
    /\ work.at = "restoring" => work.n = 0 \/ Exists(TurnRef(work.n))
    /\ work.at \in {"restoring", "rolling"} =>
          \A k \in Nat : Exists(TurnRef(k)) /\ k > work.n => k \in work.stale
DiskAgrees == disk \ {ByUser} = IF work.at = "rolling" THEN TurnTree(work.n)
                                                      ELSE edited \cap {Thread[i] : i \in DOMAIN Thread}
BaselinePlaced == work.at \in Baselining =>
    /\ work.max <= Len(Thread) /\ (work.max = 0 \/ ~Pending(Thread[work.max]))
    /\ \A i \in DOMAIN Thread : i > work.max => Thread[i] >= work.n

TreesAgree == EditsBehind /\ DiffsEdited /\ RefsAgree /\ RestoreKnown /\ DiskAgrees /\ BaselinePlaced
OnTime == "reactor late" \notin mishaps
TreesAgreeing == Straight /\ OnTime => TreesAgree

\* A step after which the reactor has not been late either.
PunctualStep == StraightStep /\ TreesAgree /\ OnTime'

LEMMA PunctualBefore ==
    ASSUME CheckpointsNext, OnTime'
    PROVE  OnTime /\ (EditFiles => work = Rest /\ inbox = <<>>)
<1>1. EditFiles => (work = Rest /\ inbox = <<>>) \/ "reactor late" \in mishaps'
  BY DEF EditFiles
<1> QED
  BY <1>1, MishapsGrow DEF OnTime

\* The steps of the worker while it reverts, and while it captures.
LEMMA WhileReverting ==
    ASSUME StraightStep, work.at \in Reverting
    PROVE  \/ work' = work /\ ~Restore /\ ~RollBack /\ ~DeleteStale /\ ~CompleteRevert
           \/ Restore /\ work.at = "restoring" /\ work' = [work EXCEPT !.at = "rolling"] /\ ~RollBack
           \/ RollBack /\ work.at = "rolling" /\ work' = [work EXCEPT !.at = "deleting"]
           \/ DeleteStale /\ work.at = "deleting" /\ work' = [work EXCEPT !.at = "completing"] /\ ~RollBack
           \/ CompleteRevert /\ work.at = "completing" /\ work' = Rest /\ ~RollBack
<1> USE DEF StraightStep
<1>1. CASE Restore \/ RollBack \/ DeleteStale \/ CompleteRevert
  BY <1>1 DEF Restore, RollBack, DeleteStale, CompleteRevert, At, Goes
<1>2. CASE \/ TakeMessage \/ TakeStart \/ CaptureBackup \/ TakeStarted \/ EnsureBaseline
           \/ TakeCompleted \/ CaptureTurn \/ DispatchCheckpoint \/ TakeRevert
  BY <1>2 DEF TakeMessage, TakeStart, CaptureBackup, TakeStarted, EnsureBaseline, TakeCompleted,
       CaptureTurn, DispatchCheckpoint, TakeRevert, Takes, At, Rest, Reverting
<1>3. CASE \/ UserEdits \/ AskTurn \/ CaptureMessageStart \/ SendTurn
           \/ EditFiles \/ UpdateDiff \/ EndTurn \/ RequestRevert
           \/ IngestStarted \/ IngestCompleted \/ ReadDiff \/ DispatchPlaceholder
  <2>1. UNCHANGED work
    BY <1>3 DEF UserEdits, AskTurn, CaptureMessageStart, SendTurn, EditFiles, UpdateDiff, EndTurn, RequestRevert,
       IngestStarted, IngestCompleted, ReadDiff, DispatchPlaceholder, reactor
  <2> QED
    BY <1>1, <2>1
<1> QED
  BY <1>1, <1>2, <1>3, StraightBefore DEF CheckpointsNext

LEMMA WhileCaptured ==
    ASSUME StraightStep, work.at = "captured"
    PROVE  work' = work \/ DispatchCheckpoint
<1> USE DEF StraightStep
<1>1. CASE \/ TakeMessage \/ TakeStart \/ CaptureBackup \/ TakeStarted \/ EnsureBaseline
           \/ TakeCompleted \/ CaptureTurn \/ TakeRevert \/ Restore \/ RollBack \/ DeleteStale \/ CompleteRevert
  BY <1>1 DEF TakeMessage, TakeStart, CaptureBackup, TakeStarted, EnsureBaseline, TakeCompleted,
       CaptureTurn, TakeRevert, Restore, RollBack, DeleteStale, CompleteRevert, Takes, At, Rest
<1>2. CASE \/ UserEdits \/ AskTurn \/ CaptureMessageStart \/ SendTurn
           \/ EditFiles \/ UpdateDiff \/ EndTurn \/ RequestRevert
           \/ IngestStarted \/ IngestCompleted \/ ReadDiff \/ DispatchPlaceholder
  BY <1>2 DEF UserEdits, AskTurn, CaptureMessageStart, SendTurn, EditFiles, UpdateDiff, EndTurn, RequestRevert,
       IngestStarted, IngestCompleted, ReadDiff, DispatchPlaceholder, reactor
<1> QED
  BY <1>1, <1>2, StraightBefore DEF CheckpointsNext

\* The first inputs of the reactor are about turns that are not over for it.
LEMMA PendingFromHead ==
    ASSUME StraightStep, NEW kind \in Starting \cup {"completed"}, Takes(kind), NEW t, Pending(t)
    PROVE  Head(inbox).n <= t
<1> USE DEF StraightStep
<1>1. /\ 1 \in DOMAIN inbox /\ inbox[1] = Head(inbox) /\ Head(inbox).kind = kind /\ work.at = "idle"
      /\ Head(inbox).n \in Turns
  BY TakenFirst DEF Starting
<1>2. Asked(Head(inbox).n) /\ Head(inbox).n \in Nat
  BY <1>1, TurnIs DEF Ordered, InboxOrdered, Starting
<1>3. CASE t \in Ended
  <2>1. PICK j \in DOMAIN inbox : inbox[j].kind = "completed" /\ inbox[j].n = t
    BY <1>3, EndedIs
  <2>2. j = 1 \/ 1 < j
    BY DEF Typed, Inboxed
  <2> QED
    BY <1>1, <1>2, <2>1, <2>2 DEF RowsAgree, InboxSorted, Starting
<1>4. CASE t = provider.turn
  BY <1>2, <1>4 DEF Asked
<1> QED
  BY <1>1, <1>3, <1>4 DEF Pending, Unrecorded, Uncaptured, At

LEMMA EditsBehindStep == ASSUME PunctualStep PROVE EditsBehind'
<1> USE DEF PunctualStep, StraightStep
<1>0. edited \subseteq Turns /\ (\A u \in edited : Sent(u) /\ u \in Nat) /\ provider.turn \in Nat
  BY TurnIs DEF Typed, Kept, Ordered, EditsOrdered
<1>1. CASE EditFiles
  <2>1. work = Rest /\ inbox = <<>>
    BY <1>1, PunctualBefore
  <2>2. work' = work /\ inbox' = inbox
    BY <1>1 DEF EditFiles, reactor
  <2>3. work'.at = "idle" /\ DOMAIN inbox' = {}
    BY <2>1, <2>2 DEF Rest
  <2> QED
    BY <2>3 DEF EditsBehind, Baselining, Capturing
<1>2. CASE ~EditFiles
  <2>1. edited' = edited
    BY <1>2, DiskSteps
  <2>2. ASSUME NEW i \in DOMAIN inbox', NEW u \in edited
        PROVE  /\ inbox'[i].kind \in Starting => u < inbox'[i].n
               /\ inbox'[i].kind = "completed" => u <= inbox'[i].n
    <3>1. CASE \E j \in DOMAIN inbox : inbox'[i] = inbox[j]
      BY <2>2, <3>1 DEF TreesAgree, EditsBehind
    <3>2. CASE i \notin DOMAIN inbox /\ (AskTurn \/ SendTurn \/ EndTurn \/ RequestRevert)
      <4>1. CASE inbox'[i].kind = "revert"
        BY <4>1 DEF Starting
      <4>2. CASE inbox'[i].kind # "revert"
        <5>1. u \in Turns /\ u \in Nat /\ Sent(u) /\ Asked(u)
          BY <1>0, <2>2 DEF Sent
        <5>2. u <= inbox'[i].n
          BY <3>2, <4>2, <5>1, JoinedLast
        <5>3. AskTurn => u < inbox'[i].n
          <6>1. AskTurn => inbox'[i].n = provider.turn + 1
            BY <3>2, <4>2, JoinedLast
          <6> QED
            BY <1>0, <5>1, <6>1 DEF Asked
        <5>4. SendTurn => u < inbox'[i].n
          <6>1. SendTurn => inbox'[i].n = provider.turn /\ provider.at = "hooked"
            BY <3>2, <4>2, JoinedLast
          <6> QED
            BY <1>0, <5>1, <6>1 DEF Sent, Asked
        <5>5. (EndTurn => inbox'[i].kind = "completed") /\ ~RequestRevert
          BY <3>2, <4>2, JoinedLast
        <5> QED
          BY <3>2, <5>2, <5>3, <5>4, <5>5 DEF Starting
      <4> QED
        BY <4>1, <4>2
    <3>3. CASE AskTurn \/ SendTurn \/ EndTurn \/ RequestRevert
      <4>1. \E more : Joined(more)
        BY <3>3, Inputs
      <4> QED
        BY <3>1, <3>2, <3>3, <4>1 DEF Joined
    <3>4. CASE inbox # <<>> /\ inbox' = Tail(inbox)
      BY <3>1, <3>4, Taken
    <3>5. CASE UNCHANGED inbox
      BY <3>1, <3>5
    <3> QED
      BY <3>3, <3>4, <3>5, InboxSteps
  <2>3. ASSUME NEW u \in edited
        PROVE  /\ work'.at \in Baselining => u < work'.n
               /\ work'.at \in Capturing => u <= work'.n
    <3>1. CASE UNCHANGED work \/ CaptureBackup \/ CaptureTurn
      <4>1. CASE UNCHANGED work
        BY <2>3, <4>1 DEF TreesAgree, EditsBehind
      <4>2. CASE CaptureBackup \/ CaptureTurn
        <5>1. work \in Worker
          BY DEF Typed, Worked
        <5>2. work'.n = work.n /\ (CaptureBackup => work'.at = "baseline" /\ work.at = "backup")
              /\ (CaptureTurn => work'.at = "captured" /\ work.at = "capturing")
          BY <4>2, <5>1 DEF CaptureBackup, CaptureTurn, Goes, At, Worker
        <5> QED
          BY <2>3, <4>2, <5>2 DEF TreesAgree, EditsBehind, Baselining, Capturing
      <4> QED
        BY <3>1, <4>1, <4>2
    <3>2. CASE /\ TakeMessage \/ TakeStart \/ TakeStarted
               /\ work'.at \in {"backup", "baseline"} /\ work'.n = Head(inbox).n
      <4>1. PICK kind \in Starting : Takes(kind)
        BY <3>2 DEF TakeMessage, TakeStart, TakeStarted, Starting
      <4>2. 1 \in DOMAIN inbox /\ inbox[1] = Head(inbox) /\ inbox[1].kind \in Starting
        BY <4>1, TakenFirst
      <4> QED
        BY <2>3, <3>2, <4>2 DEF TreesAgree, EditsBehind, Capturing
    <3>3. CASE TakeCompleted /\ work'.at = "capturing" /\ work'.n = Head(inbox).n
      <4>1. 1 \in DOMAIN inbox /\ inbox[1] = Head(inbox) /\ inbox[1].kind = "completed"
        BY <3>3, TakenFirst DEF TakeCompleted
      <4> QED
        BY <2>3, <3>3, <4>1 DEF TreesAgree, EditsBehind, Baselining
    <3> QED
      BY <3>1, <3>2, <3>3, WorkSteps DEF Baselining, Capturing, Reverting
  <2> QED
    BY <2>1, <2>2, <2>3 DEF EditsBehind
<1> QED
  BY <1>1, <1>2

LEMMA DiffsEditedStep == ASSUME PunctualStep PROVE DiffsEdited'
<1> USE DEF PunctualStep, StraightStep
<1>0. edited \subseteq edited' /\ rows \in [Turns -> Row] /\ \A t \in Turns : rows[t] \in Row
  BY DiskSteps DEF Typed, Rowed
<1>1. ASSUME NEW t \in Turns, rows'[t].count > 0, rows'[t].kind # "real"
      PROVE  t \in edited'
  <2>1. CASE rows[t].count = rows'[t].count /\ (rows[t].kind = "real" => rows'[t].kind = "real")
    BY <1>0, <1>1, <2>1 DEF TreesAgree, DiffsEdited
  <2>2. CASE live # NoLive /\ DiffCompleted(live.turn, "diff", live.count, FALSE, {})
    <3>1. live.turn \in Turns /\ live.count \in Nat /\ ingest # <<>> /\ Head(ingest).kind = "diff"
          /\ Head(ingest).n = live.turn
      BY <2>2 DEF Typed, Lived, Live
    <3>2. 1 \in DOMAIN ingest /\ ingest[1] = Head(ingest)
      BY <3>1, TailFacts DEF Typed, Ingesting
    <3>3. live.turn \in edited
      BY <3>1, <3>2 DEF TreesAgree, DiffsEdited
    <3>4. CASE t = live.turn
      BY <1>0, <3>3, <3>4
    <3>5. CASE t # live.turn
      <4>1. rows'[t].count = 0 \/ rows'[t] = rows[t]
        BY <2>2, <3>1, <3>5, Completed
      <4>2. rows'[t] = rows[t]
        BY <1>1, <4>1
      <4> QED
        BY <2>1, <4>2
    <3> QED
      BY <3>4, <3>5
  <2>3. CASE work.at = "captured" /\ DiffCompleted(work.n, "real", work.max, work.ready, work.files)
    <3>1. work.n \in Turns /\ work.max \in Nat
      BY <2>3 DEF Typed, Worked, Worker, Reverting
    <3>2. CASE t = work.n
      <4>1. rows'[work.n].kind = "real"
        BY <2>3, <3>1, Completed
      <4> QED
        BY <1>1, <3>2, <4>1
    <3>3. CASE t # work.n
      <4>1. rows'[t].count = 0 \/ rows'[t] = rows[t]
        BY <2>3, <3>1, <3>3, Completed
      <4>2. rows'[t] = rows[t]
        BY <1>1, <4>1
      <4> QED
        BY <2>1, <4>2
    <3> QED
      BY <3>2, <3>3
  <2>4. CASE UNCHANGED rows \/ Closes
    BY <2>1, <2>4 DEF Closes
  <2>5. CASE rows'[t] \in {rows[t], NoRow}
    <3>1. rows'[t] # NoRow
      BY <1>1 DEF NoRow
    <3>2. rows'[t] = rows[t]
      BY <2>5, <3>1
    <3> QED
      BY <2>1, <3>2
  <2> QED
    BY <2>2, <2>3, <2>4, <2>5, RowSteps
<1>2. ASSUME NEW i \in DOMAIN ingest', ingest'[i].kind = "diff"
      PROVE  ingest'[i].n \in edited'
  <2>0. ingest \in Seq(RuntimeInput) /\ ingest' \in Seq(RuntimeInput)
    BY DEF Typed, Ingesting
  <2>1. CASE \E j \in DOMAIN ingest : ingest'[i] = ingest[j]
    BY <1>0, <1>2, <2>1 DEF TreesAgree, DiffsEdited
  <2>2. CASE ingest # <<>> /\ ingest' = Tail(ingest)
    <3>1. i + 1 \in DOMAIN ingest /\ ingest'[i] = ingest[i + 1]
      BY <2>0, <2>2, TailFacts
    <3> QED
      BY <2>1, <3>1
  <2>3. CASE UpdateDiff
    <3>1. provider.turn \in edited
      <4>1. provider.turn \in disk /\ provider.at = "running"
        BY <2>3 DEF UpdateDiff
      <4>2. provider.turn \in Turns /\ provider.turn # ByUser
        BY <4>1, TurnIs DEF ByUser
      <4>3. disk \subseteq edited \cup {ByUser}
        BY DEF Ordered, EditsOrdered
      <4> QED
        BY <4>1, <4>2, <4>3
    <3>2. ingest' = Append(ingest, Input("diff", provider.turn))
      BY <2>3 DEF UpdateDiff
    <3>3. PICK e : e = Input("diff", provider.turn)
      OBVIOUS
    <3>4. e \in RuntimeInput /\ e.n = provider.turn
      <4>1. provider.turn \in Turns
        BY <2>3, TurnIs DEF UpdateDiff
      <4> QED
        BY <3>3, <4>1, InputTyped
    <3>5. (i \in DOMAIN ingest /\ ingest'[i] = ingest[i]) \/ ingest'[i] = e
      BY <2>0, <3>2, <3>3, <3>4
    <3> QED
      BY <1>0, <2>1, <3>1, <3>4, <3>5
  <2>4. CASE SendTurn \/ EndTurn
    <3>1. PICK e \in RuntimeInput : ingest' = Append(ingest, e) /\ e.kind # "diff"
      <4>1. CASE SendTurn
        <5>1. provider.turn \in Turns /\ ingest' = Append(ingest, Input("started", provider.turn))
          BY <4>1, Inputs DEF SendTurn
        <5> QED
          BY <5>1, InputTyped
      <4>2. CASE EndTurn
        <5>1. PICK ready \in BOOLEAN :
                 /\ ingest' = Append(ingest, [Input("completed", provider.turn) EXCEPT !.ready = ready])
                 /\ provider.turn \in Turns
          BY <4>2, Inputs
        <5>2. [Input("completed", provider.turn) EXCEPT !.ready = ready] \in RuntimeInput
              /\ [Input("completed", provider.turn) EXCEPT !.ready = ready].kind # "diff"
          BY <5>1 DEF Input, RuntimeInput
        <5> QED
          BY <5>1, <5>2
      <4> QED
        BY <2>4, <4>1, <4>2
    <3>2. (i \in DOMAIN ingest /\ ingest'[i] = ingest[i]) \/ ingest'[i] = e
      BY <2>0, <3>1
    <3> QED
      BY <1>2, <2>1, <3>1, <3>2
  <2>5. CASE UNCHANGED ingest
    BY <1>2, <2>1, <2>5
  <2> QED
    BY <2>2, <2>3, <2>4, <2>5, IngestSteps
<1> QED
  BY <1>1, <1>2 DEF DiffsEdited

LEMMA TurnRefSteps ==
    ASSUME CheckpointsNext, NEW k \in Nat
    PROVE  \/ /\ Exists(TurnRef(k))' <=> Exists(TurnRef(k))
              /\ Exists(TurnRef(k)) => refs'[TurnRef(k)] = refs[TurnRef(k)] /\ ~(DeleteStale /\ k \in work.stale)
           \/ DeleteStale /\ k \in work.stale /\ ~Exists(TurnRef(k))'
           \/ /\ EnsureBaseline \/ CaptureTurn
              /\ k = work.max /\ disk' = disk /\ refs'[TurnRef(k)] = disk
<1>0. \A a, b : TurnRef(a) = TurnRef(b) => a = b
  BY DEF TurnRef
<1>1. CASE UNCHANGED refs
  <2>1. CASE DeleteStale /\ k \in work.stale
    <3>1. DOMAIN refs' = DOMAIN refs \ {TurnRef(n) : n \in work.stale}
      BY <2>1 DEF DeleteStale
    <3> QED
      BY <2>1, <3>1 DEF Exists
  <2>2. CASE ~(DeleteStale /\ k \in work.stale)
    BY <1>1, <2>2 DEF Exists
  <2> QED
    BY <2>1, <2>2
<1>2. CASE DeleteStale /\ refs' = [r \in DOMAIN refs \ {TurnRef(n) : n \in work.stale} |-> refs[r]]
  <2>1. CASE k \in work.stale
    BY <1>2, <2>1 DEF Exists
  <2>2. CASE k \notin work.stale
    <3>1. TurnRef(k) \notin {TurnRef(n) : n \in work.stale}
      BY <1>0, <2>2
    <3> QED
      BY <1>2, <2>2, <3>1 DEF Exists
  <2> QED
    BY <2>1, <2>2
<1>3. ASSUME NEW name, NEW tree, refs' = WithRef(name, tree), name # TurnRef(k), ~DeleteStale
      PROVE  /\ Exists(TurnRef(k))' <=> Exists(TurnRef(k))
             /\ Exists(TurnRef(k)) => refs'[TurnRef(k)] = refs[TurnRef(k)]
  <2>1. PICK r : r = TurnRef(k)
    OBVIOUS
  <2>2. DOMAIN refs' = DOMAIN refs \cup {name} /\ \A x \in DOMAIN refs : x # name => refs'[x] = refs[x]
    BY <1>3, WithRefFacts
  <2> QED
    BY <1>3, <2>1, <2>2 DEF Exists
<1>4. CASE (EnsureBaseline \/ CaptureTurn) /\ refs' = WithRef(TurnRef(work.max), disk) /\ disk' = disk
  <2>0. ~DeleteStale
    BY <1>4 DEF EnsureBaseline, CaptureTurn, DeleteStale, At
  <2>1. CASE k = work.max
    BY <1>4, <2>1, WithRefFacts
  <2>2. CASE k # work.max
    <3>1. PICK name : name = TurnRef(work.max)
      OBVIOUS
    <3>2. name # TurnRef(k) /\ refs' = WithRef(name, disk)
      BY <1>0, <1>4, <2>2, <3>1
    <3> QED
      BY <1>3, <2>0, <3>2
  <2> QED
    BY <2>1, <2>2
<1>5. CASE CaptureMessageStart /\ refs' = WithRef(MessageStart(provider.turn), disk)
  <2>1. CASE ~DeleteStale
    BY <1>3, <1>5, <2>1, Names
  <2>2. CASE DeleteStale
    BY <1>2, <2>2 DEF DeleteStale
  <2> QED
    BY <2>1, <2>2
<1>6. CASE CaptureBackup /\ refs' = WithRef(MessageStart(work.n), disk)
  <2>1. ~DeleteStale
    BY <1>6 DEF CaptureBackup, DeleteStale, At
  <2> QED
    BY <1>3, <1>6, <2>1, Names
<1>7. CASE TakeStarted /\ \E tree : refs' = WithRef(TurnStart(Head(inbox).n), tree)
  <2>1. ~DeleteStale
    BY <1>7 DEF TakeStarted, Takes, Rest, DeleteStale, At
  <2> QED
    BY <1>3, <1>7, <2>1, Names
<1> QED
  BY <1>1, <1>2, <1>4, <1>5, <1>6, <1>7, RefSteps

\* A turn that has its checkpoint stays out of those that wait for one.
LEMMA NotPendingStays ==
    ASSUME StraightStep, NEW k \in DOMAIN Thread, NEW t, t = Thread[k], ~Pending(t)
    PROVE  ~Pending(t)'
<1>1. Sent(t)
  BY DEF StraightStep, RowsAgree, ThreadGrows
<1>2. SendTurn => provider.at = "hooked"
  BY DEF SendTurn
<1> QED
  BY <1>1, <1>2, PendingFrom DEF Sent

\* What the turns up to a place have changed does not change while it is kept.
LEMMA TurnTreeKept ==
    ASSUME PunctualStep, NEW k \in Nat, k <= Len(Thread), RollBack => k <= work.n,
           k = 0 \/ (\A t : t = Thread[k] => ~Pending(t)) \/ ~EditFiles
    PROVE  TurnTree(k)' = TurnTree(k) /\ k <= Len(Thread')
<1> USE DEF PunctualStep, StraightStep
<1>1. /\ Thread \in Seq(Turns) /\ Len(Thread) \in Nat /\ DOMAIN Thread = 1 .. Len(Thread)
  BY ThreadIs
<1>2. \A i \in 1 .. k : i \in DOMAIN Thread /\ i \in DOMAIN Thread' /\ Thread'[i] = Thread[i]
  BY <1>1, ThreadKept
<1>3. k <= Len(Thread')
  <2>1. Thread' \in Seq(Turns) /\ DOMAIN Thread' = 1 .. Len(Thread') /\ Len(Thread') \in Nat
    BY DEF Typed, Provided, Provider, Thread
  <2>2. k = 0 \/ k \in 1 .. k
    OBVIOUS
  <2> QED
    BY <1>2, <2>1, <2>2
<1>4. \A i \in 1 .. k : Thread[i] \in edited' <=> Thread[i] \in edited
  <2>1. CASE edited' = edited
    BY <2>1
  <2>2. CASE EditFiles /\ edited' = edited \cup {provider.turn} /\ provider.at = "running"
    <3>1. ASSUME NEW i \in 1 .. k, Thread[i] = provider.turn
          PROVE  FALSE
      <4>1. PICK t : t = Thread[k]
        OBVIOUS
      <4>2. i \in DOMAIN Thread /\ k \in DOMAIN Thread /\ (i < k \/ i = k) /\ k # 0
        BY <1>1, <3>1
      <4>3. Pending(Thread[i])
        BY <2>2, <3>1 DEF Pending
      <4>4. Pending(Thread[k])
        BY <4>2, <4>3 DEF RowsAgree, PendingLast
      <4> QED
        BY <2>2, <4>1, <4>2, <4>4
    <3> QED
      BY <2>2, <3>1
  <2> QED
    BY <2>1, <2>2, DiskSteps
<1>5. {Thread'[i] : i \in 1 .. k} = {Thread[i] : i \in 1 .. k}
  BY <1>2
<1>6. edited' \cap {Thread[i] : i \in 1 .. k} = edited \cap {Thread[i] : i \in 1 .. k}
  BY <1>4
<1> QED
  BY <1>3, <1>5, <1>6 DEF TurnTree

LEMMA RefsAgreeStep == ASSUME PunctualStep PROVE RefsAgree'
<1> USE DEF PunctualStep, StraightStep
<1>1. /\ Thread \in Seq(Turns) /\ Len(Thread) \in Nat /\ DOMAIN Thread = 1 .. Len(Thread)
  BY ThreadIs
<1>2. SUFFICES ASSUME NEW k \in Nat, Exists(TurnRef(k))'
               PROVE  \/ work'.at = "deleting" /\ k > Len(Thread') /\ k \in work'.stale
                      \/ /\ k <= Len(Thread') /\ refs'[TurnRef(k)] \ {ByUser} = TurnTree(k)'
                         /\ \/ k = 0 \/ (\A t : t = Thread'[k] => ~Pending(t)')
                            \/ (work'.at = "captured" /\ k = work'.max)
  BY DEF RefsAgree, Exists, TurnRef
<1>3. ASSUME k # 0, k \in DOMAIN Thread, \A t : t = Thread[k] => ~Pending(t), RollBack => k <= work.n
      PROVE  \A t : t = Thread'[k] => ~Pending(t)'
  <2>1. Thread'[k] = Thread[k]
    BY <1>3, ThreadKept
  <2>2. ASSUME NEW t, t = Thread[k]
        PROVE  ~Pending(t)'
    BY <1>3, <2>2, NotPendingStays
  <2> QED
    BY <2>1, <2>2
<1>4. CASE /\ Exists(TurnRef(k)) /\ refs'[TurnRef(k)] = refs[TurnRef(k)] /\ ~(DeleteStale /\ k \in work.stale)
  <2>1. CASE work.at = "deleting" /\ k > Len(Thread) /\ k \in work.stale
    <3>1. work' = work
      BY <1>4, <2>1, WhileReverting DEF Reverting
    <3>2. ~SendTurn /\ ~RollBack
      BY <2>1 DEF Ordered, RevertsLast, Reverting, SendTurn, RollBack, At
    <3>3. Thread' = Thread
      BY <3>2, ThreadSteps
    <3> QED
      BY <2>1, <3>1, <3>3
  <2>2. CASE /\ k <= Len(Thread) /\ refs[TurnRef(k)] \ {ByUser} = TurnTree(k)
             /\ k = 0 \/ ~Pending(Thread[k]) \/ (work.at = "captured" /\ k = work.max)
    <3>1. CASE RollBack /\ k > work.n
      <4>1. work.at = "rolling" /\ Len(Thread') = work.n
        BY <3>1, ThreadKept DEF RollBack, At
      <4>2. k \in work.stale
        BY <1>4, <3>1, <4>1 DEF TreesAgree, RestoreKnown
      <4>3. work'.at = "deleting" /\ work'.stale = work.stale
        BY <3>1 DEF RollBack, Goes, Typed, Worked, Worker
      <4> QED
        BY <3>1, <4>1, <4>2, <4>3
    <3>2. CASE RollBack => k <= work.n
      <4>1. CASE k = 0
        <5>1. TurnTree(k)' = TurnTree(k) /\ k <= Len(Thread')
          BY <2>2, <3>2, <4>1, TurnTreeKept
        <5> QED
          BY <1>4, <2>2, <4>1, <5>1
      <4>2. CASE k # 0 /\ ~Pending(Thread[k])
        <5>1. k \in DOMAIN Thread /\ \A t : t = Thread[k] => ~Pending(t)
          BY <1>1, <2>2, <4>2
        <5>2. TurnTree(k)' = TurnTree(k) /\ k <= Len(Thread')
          BY <2>2, <3>2, <5>1, TurnTreeKept
        <5> QED
          BY <1>3, <1>4, <2>2, <3>2, <4>2, <5>1, <5>2
      <4>3. CASE k # 0 /\ work.at = "captured" /\ k = work.max
        <5>1. ~EditFiles
          BY <4>3, PunctualBefore DEF Rest
        <5>2. TurnTree(k)' = TurnTree(k) /\ k <= Len(Thread')
          BY <2>2, <3>2, <5>1, TurnTreeKept
        <5>3. CASE work' = work
          BY <1>4, <2>2, <4>3, <5>2, <5>3
        <5>4. CASE DispatchCheckpoint
          <6>1. k \in DOMAIN Thread /\ Thread[k] = work.n
            BY <4>3 DEF RowsAgree, WorkPlaced, Capturing, Place
          <6>2. Thread'[k] = Thread[k]
            BY <3>2, <6>1, ThreadKept
          <6>3. \A t : t = Thread'[k] => ~Pending(t)'
            BY <5>4, <6>1, <6>2, NotPending
          <6> QED
            BY <1>4, <2>2, <5>2, <6>3
        <5> QED
          BY <4>3, <5>3, <5>4, WhileCaptured
      <4> QED
        BY <2>2, <4>1, <4>2, <4>3
    <3> QED
      <4>1. work.n \in Nat
        BY DEF Typed, Worked, Worker
      <4> QED
        BY <3>1, <3>2, <4>1
  <2> QED
    BY <1>4, <2>1, <2>2 DEF TreesAgree, RefsAgree
<1>5. CASE /\ EnsureBaseline \/ CaptureTurn
           /\ k = work.max /\ disk' = disk /\ refs'[TurnRef(k)] = disk
  <2>1. ~RollBack /\ ~EditFiles /\ work.at \in {"baseline", "capturing"}
    <3>1. work.at = (IF EnsureBaseline THEN "baseline" ELSE "capturing")
      BY <1>5 DEF EnsureBaseline, CaptureTurn, At
    <3>2. EditFiles => work.at = "idle"
      BY PunctualBefore DEF Rest
    <3>3. RollBack => work.at = "rolling"
      BY DEF RollBack, At
    <3> QED
      BY <3>1, <3>2, <3>3
  <2>2. disk \ {ByUser} = edited \cap {Thread[i] : i \in DOMAIN Thread}
    BY <2>1 DEF TreesAgree, DiskAgrees
  <2>3. ASSUME k <= Len(Thread), \A i \in DOMAIN Thread : i > k => Thread[i] \notin edited
        PROVE  refs'[TurnRef(k)] \ {ByUser} = TurnTree(k)' /\ k <= Len(Thread')
    <3>1. edited \cap {Thread[i] : i \in DOMAIN Thread} = TurnTree(k)
      BY <1>1, <2>3 DEF TurnTree
    <3>2. TurnTree(k)' = TurnTree(k) /\ k <= Len(Thread')
      BY <2>1, <2>3, TurnTreeKept
    <3> QED
      BY <1>5, <2>2, <3>1, <3>2
  <2>4. edited \subseteq Turns /\ \A t \in Turns : t \in Nat
    BY TurnIs DEF Typed, Kept
  <2>5. CASE EnsureBaseline
    <3>1. work.at = "baseline" /\ work.n \in Nat
      BY <2>5 DEF EnsureBaseline, At, Typed, Worked, Worker
    <3>2. /\ k <= Len(Thread) /\ (k = 0 \/ ~Pending(Thread[k]))
          /\ \A i \in DOMAIN Thread : i > k => Thread[i] >= work.n
      BY <1>5, <3>1 DEF TreesAgree, BaselinePlaced, Baselining
    <3>3. \A u \in edited : u < work.n
      BY <3>1 DEF TreesAgree, EditsBehind, Baselining
    <3>4. \A i \in DOMAIN Thread : i > k => Thread[i] \notin edited
      BY <2>4, <3>1, <3>2, <3>3
    <3>5. refs'[TurnRef(k)] \ {ByUser} = TurnTree(k)' /\ k <= Len(Thread')
      BY <2>3, <3>2, <3>4
    <3>6. k = 0 \/ \A t : t = Thread'[k] => ~Pending(t)'
      <4>1. k # 0 => k \in DOMAIN Thread
        BY <1>1, <3>2
      <4> QED
        BY <1>3, <2>1, <3>2, <4>1
    <3> QED
      BY <3>5, <3>6
  <2>6. CASE CaptureTurn
    <3>1. work.at = "capturing" /\ work'.at = "captured" /\ work'.max = work.max
      BY <2>6 DEF CaptureTurn, At, Typed, Worked, Worker
    <3>2. k \in DOMAIN Thread /\ Thread[k] = work.n
      BY <1>5, <3>1 DEF RowsAgree, WorkPlaced, Capturing, Place
    <3>3. \A u \in edited : u <= work.n
      BY <3>1 DEF TreesAgree, EditsBehind, Capturing
    <3>4. \A i \in DOMAIN Thread : i > k => Thread[i] > work.n /\ Thread[i] \in Turns
      BY <1>1, <3>2 DEF RowsAgree, ThreadGrows
    <3>5. \A i \in DOMAIN Thread : i > k => Thread[i] \notin edited
      <4>1. work.n \in Nat
        BY DEF Typed, Worked, Worker
      <4> QED
        BY <2>4, <3>3, <3>4, <4>1
    <3>6. refs'[TurnRef(k)] \ {ByUser} = TurnTree(k)' /\ k <= Len(Thread')
      BY <1>1, <2>3, <3>2, <3>5
    <3> QED
      BY <1>5, <3>1, <3>6
  <2> QED
    BY <1>5, <2>5, <2>6
<1> QED
  BY <1>2, <1>4, <1>5, TurnRefSteps

LEMMA RestoreKnownStep == ASSUME PunctualStep PROVE RestoreKnown'
<1> USE DEF PunctualStep, StraightStep
<1>1. /\ Thread \in Seq(Turns) /\ Len(Thread) \in Nat /\ DOMAIN Thread = 1 .. Len(Thread)
  BY ThreadIs
<1>2. CASE work.at \in {"restoring", "rolling"}
  <2>1. ~DeleteStale /\ ~EnsureBaseline /\ ~CaptureTurn
    BY <1>2 DEF DeleteStale, EnsureBaseline, CaptureTurn, At
  <2>2. \A k \in Nat : Exists(TurnRef(k))' <=> Exists(TurnRef(k))
    BY <2>1, TurnRefSteps
  <2>3. work'.at \in {"restoring", "rolling"} =>
            /\ work'.n = work.n /\ work'.stale = work.stale
            /\ work'.at = "restoring" => work.at = "restoring"
    <3>1. work \in Worker
      BY DEF Typed, Worked
    <3> QED
      BY <1>2, <3>1, WhileReverting DEF Reverting, Worker, Rest
  <2>4. work.n \in Nat
    BY DEF Typed, Worked, Worker
  <2>5. work'.at = "restoring" => work'.n = 0 \/ \A k \in Nat : k = work'.n => Exists(TurnRef(k))'
    BY <2>2, <2>3, <2>4 DEF TreesAgree, RestoreKnown
  <2>6. work'.at \in {"restoring", "rolling"} =>
            \A k \in Nat : Exists(TurnRef(k))' /\ k > work'.n => k \in work'.stale
    BY <1>2, <2>2, <2>3 DEF TreesAgree, RestoreKnown
  <2>7. work'.n \in Nat
    BY DEF Typed, Worked, Worker
  <2> QED
    BY <2>5, <2>6, <2>7 DEF RestoreKnown, Exists, TurnRef
<1>3. CASE TakeRevert
  <2> DEFINE n == Head(inbox).n
  <2>1. Takes("revert") /\ UNCHANGED refs /\ UNCHANGED provider /\ work.at = "idle"
    BY <1>3 DEF TakeRevert, repository, Takes, Rest
  <2>2. work' = [Continue("restoring", n) EXCEPT !.stale = Stale(n)] \/ work' = Rest
    BY <1>3 DEF TakeRevert
  <2>3. CASE work' = Rest
    BY <2>3 DEF RestoreKnown, Rest
  <2>4. CASE work' # Rest
    <3>1. work'.at = "restoring" /\ work'.n = n /\ work'.stale = Stale(n)
      BY <2>2, <2>4 DEF Continue, Rest
    <3>2. Restorable(n)
      BY <1>3, <2>4 DEF TakeRevert
    <3>3. n \in Nat
      BY <3>1 DEF Typed, Worked, Worker
    <3>4. ASSUME NEW k \in Nat, Exists(TurnRef(k)), k > n
          PROVE  k \in Stale(n)
      <4>1. k \in DOMAIN Thread
        BY <1>1, <2>1, <3>3, <3>4 DEF TreesAgree, RefsAgree
      <4>2. PICK t \in Turns : t = Thread[k]
        BY <1>1, <4>1
      <4>3. ~Pending(t)
        BY <2>1, NothingPending
      <4>4. rows[t].kind = "real" /\ rows[t].count = k
        BY <4>1, <4>2, <4>3 DEF RowsAgree, OthersRecorded
      <4>5. t \in Visible
        BY <4>4 DEF Staying, RealShows
      <4> QED
        BY <3>4, <4>4, <4>5 DEF Stale
    <3>5. n = 0 \/ Exists(TurnRef(n))
      BY <3>2 DEF Restorable
    <3> QED
      BY <2>1, <3>1, <3>4, <3>5 DEF RestoreKnown, Exists, TurnRef
  <2> QED
    BY <2>3, <2>4
<1>4. CASE work.at \notin {"restoring", "rolling"} /\ ~TakeRevert
  <2>1. work'.at \notin {"restoring", "rolling"}
    <3>1. Restore => work.at = "restoring"
      BY DEF Restore, At
    <3>2. RollBack => work.at = "rolling"
      BY DEF RollBack, At
    <3>3. DeleteStale => work'.at = "completing"
      BY DEF DeleteStale, Goes, Typed, Worked, Worker
    <3> QED
      BY <1>4, <3>1, <3>2, <3>3, WorkSteps
  <2> QED
    BY <2>1 DEF RestoreKnown
<1> QED
  BY <1>2, <1>3, <1>4

LEMMA DiskAgreesStep == ASSUME PunctualStep PROVE DiskAgrees'
<1> USE DEF PunctualStep, StraightStep
<1>1. /\ Thread \in Seq(Turns) /\ Len(Thread) \in Nat /\ DOMAIN Thread = 1 .. Len(Thread)
      /\ DOMAIN Thread' = 1 .. Len(Thread')
  <2>1. Thread' \in Seq(Turns)
    BY DEF Typed, Provided, Provider, Thread
  <2> QED
    BY <2>1, ThreadIs
<1>2. work.n \in Nat /\ work \in Worker
  BY DEF Typed, Worked, Worker
<1>3. CASE Restore
  <2>1. work.at = "restoring" /\ work'.at = "rolling" /\ work'.n = work.n /\ UNCHANGED provider
    BY <1>2, <1>3 DEF Restore, At, Goes, Worker
  <2>2. disk' = IF Exists(TurnRef(work.n)) THEN refs[TurnRef(work.n)] ELSE {}
    BY <1>3 DEF Restore
  <2>3. edited' = edited
    BY <1>3 DEF Restore, history
  <2>4. disk' \ {ByUser} = TurnTree(work.n)
    <3>1. CASE Exists(TurnRef(work.n))
      BY <1>2, <2>1, <2>2, <3>1 DEF TreesAgree, RefsAgree
    <3>2. CASE ~Exists(TurnRef(work.n))
      <4>1. work.n = 0 /\ disk' = {}
        BY <2>1, <2>2, <3>2 DEF TreesAgree, RestoreKnown
      <4> QED
        BY <4>1 DEF TurnTree
    <3> QED
      BY <3>1, <3>2
  <2>5. TurnTree(work.n) = edited' \cap {Thread'[i] : i \in 1 .. work'.n}
    BY <2>1, <2>3 DEF TurnTree, Thread
  <2> QED
    BY <2>1, <2>4, <2>5 DEF DiskAgrees, TurnTree
<1>4. CASE RollBack
  <2>1. work.at = "rolling" /\ work'.at = "deleting" /\ disk' = disk /\ edited' = edited
    BY <1>2, <1>4 DEF RollBack, At, Goes, Worker, repository, history
  <2>2. Len(Thread') = work.n
    BY <1>4, ThreadKept
  <2>3. \A i \in 1 .. work.n : Thread'[i] = Thread[i]
    BY <1>1, <2>2, <1>4, ThreadKept DEF SendTurn, RollBack
  <2>4. {Thread'[i] : i \in DOMAIN Thread'} = {Thread[i] : i \in 1 .. work.n}
    BY <1>1, <2>2, <2>3
  <2> QED
    BY <2>1, <2>4 DEF DiskAgrees, TreesAgree, TurnTree
<1>5. CASE ~Restore /\ ~RollBack
  <2>1. (work'.at = "rolling") = (work.at = "rolling") /\ (work.at = "rolling" => work' = work)
    <3>1. CASE work.at = "rolling"
      <4>1. work' = work
        BY <1>5, <3>1, WhileReverting DEF Reverting
      <4> QED
        BY <3>1, <4>1
    <3>2. CASE work.at # "rolling"
      <4>1. DeleteStale => work'.at = "completing"
        BY <1>2 DEF DeleteStale, Goes, Worker
      <4>2. work'.at # "rolling"
        BY <1>5, <3>2, <4>1, WorkSteps DEF Rest
      <4> QED
        BY <3>2, <4>2
    <3> QED
      BY <3>1, <3>2
  <2>2. CASE work.at = "rolling"
    <3>1. ~SendTurn /\ ~EditFiles /\ Thread' = Thread
      <4>1. ~SendTurn /\ ~EditFiles
        BY <2>2 DEF Ordered, RevertsLast, Reverting, SendTurn, EditFiles
      <4> QED
        BY <1>5, <4>1, ThreadSteps
    <3>2. disk' \ {ByUser} = disk \ {ByUser} /\ edited' = edited
      BY <1>5, <3>1, DiskSteps
    <3> QED
      BY <2>1, <2>2, <3>1, <3>2 DEF DiskAgrees, TreesAgree, TurnTree
  <2>3. CASE work.at # "rolling"
    <3>1. disk \ {ByUser} = edited \cap {Thread[i] : i \in DOMAIN Thread}
      BY <2>3 DEF DiskAgrees, TreesAgree
    <3>2. SUFFICES disk' \ {ByUser} = edited' \cap {Thread'[i] : i \in DOMAIN Thread'}
      BY <2>1, <2>3 DEF DiskAgrees
    <3>3. CASE EditFiles
      <4>1. /\ disk' = disk \cup {provider.turn} /\ edited' = edited \cup {provider.turn}
            /\ UNCHANGED provider /\ provider.at = "running"
        BY <3>3 DEF EditFiles
      <4>2. provider.turn \in Turns /\ provider.turn # ByUser /\ Pending(provider.turn)
        BY <4>1, TurnIs DEF ByUser, Pending
      <4>3. provider.turn \in {Thread[i] : i \in DOMAIN Thread}
        BY <4>2 DEF RowsAgree, PendingRemembered
      <4>4. Thread' = Thread
        BY <4>1 DEF Thread
      <4> QED
        BY <3>1, <4>1, <4>2, <4>3, <4>4
    <3>4. CASE ~EditFiles
      <4>1. disk' \ {ByUser} = disk \ {ByUser} /\ edited' = edited
        BY <1>5, <3>4, DiskSteps
      <4>2. CASE SendTurn /\ provider.at = "hooked"
        <5>1. provider.turn \notin edited
          BY <4>2 DEF Ordered, EditsOrdered, Sent
        <5>2. \A i \in DOMAIN Thread : i \in DOMAIN Thread' /\ Thread'[i] = Thread[i]
          BY <1>5, ThreadKept
        <5>3. \A i \in DOMAIN Thread' :
                 (i \in DOMAIN Thread /\ Thread'[i] = Thread[i]) \/ Thread'[i] = provider.turn
          BY <1>5, ThreadKept
        <5> QED
          BY <3>1, <4>1, <5>1, <5>2, <5>3
      <4>3. CASE Thread' = Thread
        BY <3>1, <4>1, <4>3
      <4> QED
        BY <1>5, <4>2, <4>3, ThreadSteps
    <3> QED
      BY <3>3, <3>4
  <2> QED
    BY <2>2, <2>3
<1> QED
  BY <1>3, <1>4, <1>5

LEMMA BaselinePlacedStep == ASSUME PunctualStep PROVE BaselinePlaced'
<1> USE DEF PunctualStep, StraightStep
<1>1. /\ Thread \in Seq(Turns) /\ Len(Thread) \in Nat /\ DOMAIN Thread = 1 .. Len(Thread)
      /\ Len(Thread') \in Nat /\ DOMAIN Thread' = 1 .. Len(Thread')
  <2>1. Thread' \in Seq(Turns)
    BY DEF Typed, Provided, Provider, Thread
  <2> QED
    BY <2>1, ThreadIs
<1>2. work.n \in Nat /\ work.max \in Nat /\ work \in Worker
  BY DEF Typed, Worked, Worker
<1>3. ASSUME ~RollBack, NEW m \in Nat, m <= Len(Thread), m = 0 \/ \A t : t = Thread[m] => ~Pending(t)
      PROVE  m <= Len(Thread') /\ (m = 0 \/ \A t : t = Thread'[m] => ~Pending(t)')
  <2>1. CASE m = 0
    BY <1>1, <2>1
  <2>2. CASE m # 0
    <3>1. m \in DOMAIN Thread
      BY <1>1, <1>3, <2>2
    <3>2. m \in DOMAIN Thread' /\ Thread'[m] = Thread[m]
      BY <1>3, <3>1, ThreadKept
    <3>3. \A t : t = Thread[m] => ~Pending(t)'
      BY <1>3, <2>2, <3>1, NotPendingStays
    <3> QED
      BY <1>1, <3>2, <3>3
  <2> QED
    BY <2>1, <2>2
<1>4. CASE work.at \in Baselining /\ work'.n = work.n /\ work'.max = work.max
  <2>1. ~RollBack
    BY <1>4 DEF RollBack, At, Baselining
  <2>2. /\ work.max <= Len(Thread) /\ (work.max = 0 \/ ~Pending(Thread[work.max]))
        /\ \A i \in DOMAIN Thread : i > work.max => Thread[i] >= work.n
    BY <1>4 DEF TreesAgree, BaselinePlaced
  <2>3. ASSUME NEW i \in DOMAIN Thread', i > work.max
        PROVE  Thread'[i] >= work.n
    <3>1. CASE i \in DOMAIN Thread /\ Thread'[i] = Thread[i]
      BY <2>2, <2>3, <3>1
    <3>2. CASE Thread'[i] = provider.turn
      BY <1>2, <1>4, <3>2, TurnIs DEF Ordered, WorkOrdered, Asked, Baselining
    <3> QED
      BY <2>1, <3>1, <3>2, ThreadKept
  <2>4. PICK m \in Nat : m = work.max
    BY <1>2
  <2>5. m <= Len(Thread') /\ (m = 0 \/ \A t : t = Thread'[m] => ~Pending(t)')
    BY <1>3, <2>1, <2>2, <2>4
  <2> QED
    BY <1>4, <2>3, <2>4, <2>5 DEF BaselinePlaced
<1>5. CASE TakeMessage \/ TakeStart \/ TakeStarted
  <2> DEFINE first == Head(inbox).n
             most == MaxTurnCount(Visible)
  <2>1. PICK kind \in Starting : Takes(kind)
    BY <1>5 DEF TakeMessage, TakeStart, TakeStarted, Starting
  <2>2. /\ 1 \in DOMAIN inbox /\ inbox[1] = Head(inbox) /\ inbox[1].kind \in Starting
        /\ work.at = "idle" /\ first \in Turns /\ first \in Nat
    BY <2>1, TakenFirst, TurnIs DEF Starting
  <2>3. /\ work'.at \in Baselining => work'.n = first /\ work'.max = most
        /\ UNCHANGED provider /\ ~RollBack /\ ~RolledBack
    <3>1. CASE TakeMessage \/ TakeStarted
      BY <2>2, <3>1 DEF TakeMessage, TakeStarted, Continue, Rest, RollBack, At, RolledBack
    <3>2. CASE TakeStart
      BY <2>2, <3>2 DEF TakeStart, Continue, Rest, RollBack, At, RolledBack
    <3> QED
      BY <1>5, <3>1, <3>2
  <2>4. /\ most \in Nat /\ \A t \in Visible : rows[t].count <= most
        /\ most # 0 => \E t \in Visible : rows[t].count = most
    BY VisibleTurns, MaxIs DEF Typed, Rowed
  <2>5. \A t : Pending(t) => first <= t
    BY <2>1, PendingFromHead
  <2>6. most <= Len(Thread) /\ (most = 0 \/ \A t : t = Thread[most] => ~Pending(t))
    <3>1. CASE most = 0
      BY <1>1, <3>1
    <3>2. CASE most # 0
      <4>1. PICK v \in Turns : rows[v].count = most /\ rows[v].count > 0
        BY <2>4, <3>2 DEF Visible
      <4>2. Place(v, most)
        BY <2>3, <4>1 DEF RowsAgree, CountsPlaced
      <4>3. ~Pending(v)
        <5>1. SUFFICES ASSUME Pending(v) PROVE FALSE
          OBVIOUS
        <5>2. rows[v].kind # "real"
          BY <5>1 DEF RowsAgree, PendingRemembered
        <5>3. v \in edited
          BY <4>1, <5>2 DEF TreesAgree, DiffsEdited
        <5>4. v < first
          BY <2>2, <5>3 DEF TreesAgree, EditsBehind
        <5>5. v \in Nat
          BY TurnIs
        <5> QED
          BY <2>2, <2>5, <5>1, <5>4, <5>5
      <4>4. most \in DOMAIN Thread /\ Thread[most] = v
        BY <4>2 DEF Place
      <4> QED
        BY <1>1, <4>3, <4>4
    <3> QED
      BY <3>1, <3>2
  <2>7. ASSUME NEW i \in DOMAIN Thread, i > most
        PROVE  Thread[i] >= first
    <3>1. PICK t \in Turns : t = Thread[i]
      BY <1>1
    <3>2. CASE Pending(t)
      BY <2>2, <2>5, <3>1, <3>2, TurnIs
    <3>3. CASE ~Pending(t)
      <4>1. rows[t].kind = "real" /\ rows[t].count = i
        BY <3>1, <3>3 DEF RowsAgree, OthersRecorded
      <4>2. t \in Visible
        BY <4>1 DEF Staying, RealShows
      <4>3. i <= most
        BY <2>4, <4>1, <4>2
      <4> QED
        BY <1>1, <2>4, <2>7, <4>3
    <3> QED
      BY <3>2, <3>3
  <2>8. Thread' = Thread
    BY <2>3 DEF Thread
  <2>9. PICK m \in Nat : m = most
    BY <2>4
  <2>10. m <= Len(Thread') /\ (m = 0 \/ \A t : t = Thread'[m] => ~Pending(t)')
    BY <1>3, <2>3, <2>6, <2>9
  <2>11. \A i \in DOMAIN Thread' : i > m => Thread'[i] >= first
    BY <2>7, <2>8, <2>9
  <2> QED
    BY <2>3, <2>9, <2>10, <2>11 DEF BaselinePlaced
<1>6. CASE work'.at \notin Baselining
  BY <1>6 DEF BaselinePlaced
<1>7. CASE CaptureBackup /\ work.at = "backup"
  BY <1>2, <1>4, <1>7 DEF CaptureBackup, Goes, Worker, Baselining
<1>8. CASE UNCHANGED work
  BY <1>4, <1>6, <1>8
<1>9. \/ UNCHANGED work \/ work'.at \notin Baselining
      \/ TakeMessage \/ TakeStart \/ TakeStarted \/ (CaptureBackup /\ work.at = "backup")
  BY WorkSteps DEF Baselining, Reverting
<1> QED
  BY <1>5, <1>6, <1>7, <1>8, <1>9

LEMMA InitTrees == CheckpointsInit => TreesAgreeing
BY DEF CheckpointsInit, TreesAgreeing, TreesAgree, EditsBehind, DiffsEdited, RefsAgree, RestoreKnown, DiskAgrees,
   BaselinePlaced, Exists, Rest, NoRow, Capturing, Baselining

LEMMA SameTrees == TreesAgreeing /\ UNCHANGED checkpointVars => TreesAgreeing'
<1> SUFFICES ASSUME TreesAgreeing,
                    UNCHANGED <<disk, refs, provider, rows, ingest, inbox, work, edited, mishaps>>
             PROVE  TreesAgreeing'
  BY DEF checkpointVars, repository, ingestion, reactor, history
<1>1. EditsBehind /\ DiffsEdited => EditsBehind' /\ DiffsEdited'
  BY DEF EditsBehind, DiffsEdited
<1>2. RefsAgree => RefsAgree'
  BY DEF RefsAgree, Exists, TurnTree, Pending, Unrecorded, Uncaptured, Ended, At, Thread
<1>3. RestoreKnown /\ DiskAgrees => RestoreKnown' /\ DiskAgrees'
  BY DEF RestoreKnown, DiskAgrees, Exists, TurnTree, Thread
<1>4. BaselinePlaced => BaselinePlaced'
  BY DEF BaselinePlaced, Pending, Unrecorded, Uncaptured, Ended, At, Thread
<1> QED
  BY <1>1, <1>2, <1>3, <1>4 DEF TreesAgreeing, TreesAgree, Straight, OnTime

LEMMA TreesStep ==
    /\ Typed /\ Typed' /\ Ordered /\ Staying /\ RowsAgreeing /\ TreesAgreeing
    /\ [CheckpointsNext]_checkpointVars
    => TreesAgreeing'
<1> SUFFICES ASSUME Typed, Typed', Ordered, Staying, RowsAgreeing, TreesAgreeing, CheckpointsNext, Straight', OnTime'
             PROVE  TreesAgree'
  BY SameTrees DEF TreesAgreeing
<1>1. PunctualStep
  BY StraightBefore, PunctualBefore DEF RowsAgreeing, TreesAgreeing, StraightStep, PunctualStep
<1> QED
  BY <1>1, EditsBehindStep, DiffsEditedStep, RefsAgreeStep, RestoreKnownStep, DiskAgreesStep, BaselinePlacedStep
     DEF TreesAgree

LEMMA AgreesAtRest == Typed /\ Staying /\ RowsAgreeing /\ TreesAgreeing => ThreadAgrees
<1> SUFFICES ASSUME Typed, Staying, RowsAgree, AtRest, OnTime => TreesAgree
             PROVE  /\ \A k \in 1 .. Len(Thread) :
                          rows[Thread[k]].kind = "real" /\ rows[Thread[k]].count = k
                    /\ Visible = ToSet(Thread)
                    /\ OnTime => disk \ {ByUser} = edited \cap ToSet(Thread)
  BY DEF ThreadAgrees, RowsAgreeing, TreesAgreeing, Straight, OnTime, Thread
<1>1. work.at = "idle" /\ \A t : ~Pending(t)
  BY EndedIs DEF AtRest, Rest, Pending, Unrecorded, Uncaptured, At
<1>2. \A k \in DOMAIN Thread : rows[Thread[k]].kind = "real" /\ rows[Thread[k]].count = k
  BY <1>1 DEF RowsAgree, OthersRecorded
<1>3. ToSet(Thread) = {Thread[k] : k \in DOMAIN Thread}
  BY DEF ToSet
<1>4. \A k \in DOMAIN Thread : Thread[k] \in Turns
  BY ThreadIs
<1>5. ToSet(Thread) \subseteq Visible
  BY <1>2, <1>3, <1>4 DEF Staying, RealShows
<1>6. Visible \subseteq ToSet(Thread)
  <2>1. \A t \in Visible : t \in Turns /\ Place(t, rows[t].count)
    BY <1>1 DEF Visible, RowsAgree, CountsPlaced, RolledBack
  <2> QED
    BY <1>3, <2>1 DEF Place
<1>7. OnTime => disk \ {ByUser} = edited \cap ToSet(Thread)
  BY <1>1, <1>3 DEF TreesAgree, DiskAgrees
<1> QED
  BY <1>2, <1>5, <1>6, <1>7, ThreadIs

\* However the steps of the user, the provider, ingestion and the reactor interleave, and however
\* many turns and reverts there are: when all is at rest and nothing has failed, been overtaken or
\* been skipped, the k-th turn the provider remembers has the checkpoint with count k, no other
\* turn has one, and the workspace holds the edits of exactly these turns, unless the reactor was
\* late for a turn (ThreadAgrees).
THEOREM ThreadStaysInStep == CheckpointsSpec => []ThreadAgrees
<1> DEFINE Inv == Typed /\ Ordered /\ Staying /\ RowsAgreeing /\ TreesAgreeing
<1>1. CheckpointsInit => Inv
  BY InitTyped, InitOrdered, InitStaying, InitAgreeing, InitTrees
<1>2. Inv /\ [CheckpointsNext]_checkpointVars => Inv'
  BY TypedStep, OrderedStep, StayingStep, AgreeingStep, TreesStep
<1>3. Inv => ThreadAgrees
  BY AgreesAtRest
<1> HIDE DEF Inv
<1> QED
  BY <1>1, <1>2, <1>3, PTL DEF CheckpointsSpec
=============================================================================
