------------------------- MODULE OrchestrationEngineProofs -------------------------
(***************************************************************************)
(* Type correctness of OrchestrationEngine, for every set of commands,     *)
(* dispatches and aggregates, every decision, every read limit and any     *)
(* number of faults, crashes and repairs, with the lemmas about the        *)
(* pipeline's operators and about sequences it rests on; the flag of the   *)
(* deferred catch-up, FlagHasCatchUp; and, for as long as every replay     *)
(* finds all it has to read in one page, the agreement of the in-memory    *)
(* model, the created aggregates, the stream and the summaries with the    *)
(* log.                                                                    *)
(***************************************************************************)
EXTENDS OrchestrationEngineProperties, TLAPS

-----------------------------------------------------------------------------------
\* The operators of the projection pipeline.

\* A bootstrap that finishes leaves every cursor inside the log (bootstrapProjector).
LEMMA FullReplayType ==
    ASSUME NEW n \in Nat, NEW L, Len(L) = n, NEW c \in [Projectors -> 0..n]
    PROVE  FullReplay(L, c) \in [Projectors -> 0..n]
BY ReadLimitAssumption DEF FullReplay, Reach

\* So does one that fails part of the way, and it moves no cursor back (bootstrap).
LEMMA PartialReplayType ==
    ASSUME NEW n \in Nat, NEW L, Len(L) = n, NEW c \in [Projectors -> 0..n],
           NEW to \in PartialReplays(L, c)
    PROVE  to \in [Projectors -> 0..n] /\ \A p \in Projectors : c[p] <= to[p]
<1> DEFINE Stopped(q, k) == [p \in Projectors |-> IF p = q THEN k
                                                  ELSE IF Rank[p] < Rank[q] THEN Reach(L, c, p)
                                                  ELSE c[p]]
<1>0. PICK q \in Projectors :
        \E k \in {c[q]} \cup {i \in c[q] + 1 .. Reach(L, c, q) : ShouldApply(q, L[i])} :
           to = Stopped(q, k)
  BY SMTT(30) DEF PartialReplays
<1>1. PICK k \in {c[q]} \cup {i \in c[q] + 1 .. Reach(L, c, q) : ShouldApply(q, L[i])} :
        to = Stopped(q, k)
  BY <1>0
<1>2. \A p \in Projectors : Reach(L, c, p) \in c[p]..n /\ c[p] \in 0..n
  BY ReadLimitAssumption DEF Reach
<1>3. k \in c[q]..n
  BY <1>2
<1> QED
  BY <1>1, <1>2, <1>3

\* Replayed rows are rows of the same log (runProjectorForEvent).
LEMMA ReplayedRowsType ==
    ASSUME NEW L, Len(L) \in Nat, NEW r \in [1..Len(L) -> Nat], NEW from, NEW to
    PROVE  ReplayedRows(L, r, from, to) \in [1..Len(L) -> Nat]
BY DEF ReplayedRows, Reflect

\* A replay recomputes a summary at the end of the log, empties it or keeps it.
LEMMA ReplayedSummariesType ==
    ASSUME NEW L, Len(L) \in Nat, NEW s \in [Aggregates -> 0..Len(L)], NEW from, NEW to
    PROVE  ReplayedSummaries(L, s, from, to) \in [Aggregates -> 0..Len(L)]
BY DEF ReplayedSummaries

\* projectEvent keeps a count for each stored event.
LEMMA ProjectedModelType ==
    ASSUME NEW L, Len(L) \in Nat, NEW f \in [1..Len(L) -> Nat], NEW a, NEW b
    PROVE  ProjectedModel(L, f, a, b) \in [1..Len(L) -> Nat]
BY DEF ProjectedModel, Reflect

\* The loaded model does too (getCommandReadModel).
LEMMA LoadedModelType ==
    ASSUME NEW L, Len(L) \in Nat, NEW r
    PROVE  LoadedModel(L, r) \in [1..Len(L) -> Nat]
BY DEF LoadedModel

\* The snapshot sequence is the lowest cursor (computeSnapshotSequence).
LEMMA SnapshotSequenceType ==
    ASSUME NEW n \in Nat, NEW c \in [Projectors -> 0..n]
    PROVE  /\ ComputeSnapshotSequence(c) \in 0..n
           /\ \A p \in Projectors : ComputeSnapshotSequence(c) <= c[p]
<1>1. \E m \in {c[p] : p \in Projectors} : \A p \in Projectors : m <= c[p]
  <2>1. c["projects"] \in 0..n /\ c["chat"] \in 0..n /\ c["summaries"] \in 0..n
    BY DEF Projectors
  <2>2. CASE c["projects"] <= c["chat"] /\ c["projects"] <= c["summaries"]
    BY <2>1, <2>2 DEF Projectors
  <2>3. CASE c["chat"] <= c["projects"] /\ c["chat"] <= c["summaries"]
    BY <2>1, <2>3 DEF Projectors
  <2>4. CASE c["summaries"] <= c["projects"] /\ c["summaries"] <= c["chat"]
    BY <2>1, <2>4 DEF Projectors
  <2> QED
    BY <2>1, <2>2, <2>3, <2>4
<1>2. /\ ComputeSnapshotSequence(c) \in {c[p] : p \in Projectors}
      /\ \A p \in Projectors : ComputeSnapshotSequence(c) <= c[p]
  BY <1>1 DEF ComputeSnapshotSequence
<1> QED
  BY <1>2

-----------------------------------------------------------------------------------
\* Types.

\* The worker holds the lock from its start on an envelope to its answer, and nobody else
\* while it does (maintenanceLock.withPermits(1)(runCommand)).
LockHeld == maintenanceLock = "worker" <=> phase \notin {"idle", "waiting"}

Typed == TypeOK /\ LockHeld

LEMMA InitTyped == Init => Typed
<1> SUFFICES ASSUME Init PROVE Typed
  OBVIOUS
<1>1. log \in Seq(Event) /\ Len(log) \in Nat
  <2> DEFINE Old == [cmd: {Past}, kind: Kinds, of: Aggregates]
  <2>1. log \in Seq(Old)
    BY HistoryAssumption DEF Init
  <2>2. Old \subseteq Event
    BY DEF Event
  <2> HIDE DEF Old
  <2> QED
    BY <2>1, <2>2
<1>2. StoredOK
  <2>1. receipts \in [Commands -> Receipt]
    BY DEF Init, NoReceipt, Receipt
  <2>2. cursors \in [Projectors -> 0..Len(log)] /\ summaryAt \in [Aggregates -> 0..Len(log)]
    BY <1>1 DEF Init, UpToDate
  <2>3. rows \in [1..Len(log) -> Nat]
    BY DEF Init
  <2> QED
    BY <1>1, <2>1, <2>2, <2>3 DEF StoredOK
<1>3. CallersOK
  BY DEF Init, Plain, None, CallersOK, ExecutionStates, Outcome
<1>4. PositionOK
  <2>1. /\ phase = "idle" /\ current = None /\ startSequence = 0 /\ exhausted = FALSE
        /\ next = 0 /\ first = 0 /\ failure = None /\ verdict = Plain(None)
    BY DEF Init
  <2>2. verdict \in Outcome
    BY <2>1 DEF Outcome, Plain, None
  <2>3. phase \in Phases /\ current \in Dispatches \cup {None} /\ (current = None <=> phase = "idle")
    BY <2>1 DEF Phases
  <2>4. startSequence \in 0..Len(log) /\ next \in 0..Len(log) /\ first \in 0..Len(log)
    BY <1>1, <2>1
  <2>5. exhausted \in BOOLEAN /\ failure \in {None, "timeout", "defect", "failed", "rejected"}
    BY <2>1
  <2> QED
    BY <2>2, <2>3, <2>4, <2>5 DEF PositionOK
<1>5. ModelOK
  <2>1. LoadedModel(log, rows) \in [1..Len(log) -> Nat]
    BY <1>1, LoadedModelType
  <2>2. commandReadModel = LoadedModel(log, rows) /\ snapshotSequence = Len(log) /\ published = <<>>
    BY DEF Init
  <2> QED
    BY <1>1, <2>1, <2>2 DEF ModelOK
<1>6. ControlOK
  BY BoundsAssumption DEF Init, ControlOK, Disturbances
<1> QED
  BY <1>2, <1>3, <1>4, <1>5, <1>6 DEF Init, Typed, TypeOK, LockHeld

\* Appending to the log (OrchestrationEventStore.append).
LEMMA ConcatType ==
    ASSUME NEW S, NEW s \in Seq(S), NEW e \in Seq(S)
    PROVE  /\ s \o e \in Seq(S) /\ Len(s \o e) = Len(s) + Len(e)
           /\ \A i \in 1..Len(s) : (s \o e)[i] = s[i]
           /\ \A i \in 1..Len(e) : (s \o e)[Len(s) + i] = e[i]
OBVIOUS

\* An update inside the range.
LEMMA UpdateType ==
    ASSUME NEW S, NEW T, NEW f \in [S -> T], NEW a, NEW v \in T
    PROVE  [f EXCEPT ![a] = v] \in [S -> T]
OBVIOUS

\* What a command commits are the events it was decided, with its id (processEnvelope).
LEMMA EventsOfType ==
    ASSUME NEW c \in Commands
    PROVE  /\ EventsOf(c) \in Seq(Event) /\ Len(EventsOf(c)) = Len(Decision[c])
           /\ Len(Decision[c]) \in Nat \ {0}
           /\ \A i \in 1..Len(Decision[c]) : EventsOf(c)[i].cmd = c
<1>1. Decision[c] \in Seq(EventBody) /\ Len(Decision[c]) \in Nat \ {0}
  BY DecisionAssumption
<1> DEFINE e(i) == [cmd |-> c, kind |-> Decision[c][i].kind, of |-> Decision[c][i].of]
<1>2. \A i \in 1..Len(Decision[c]) : e(i) \in Event
  <2> TAKE i \in 1..Len(Decision[c])
  <2>1. Decision[c][i] \in EventBody
    BY <1>1
  <2> QED
    BY <2>1 DEF Event, EventBody
<1>3. EventsOf(c) = [i \in 1..Len(Decision[c]) |-> e(i)]
  BY DEF EventsOf
<1>4. \A i \in 1..Len(Decision[c]) : e(i).cmd = c
  OBVIOUS
<1> HIDE DEF e
<1> QED
  BY <1>1, <1>2, <1>3, <1>4

\* A fault takes one out of the budget.
LEMMA FaultTyped == ControlOK /\ Fault => budget' \in [faults: Nat, crashes: Nat, repairs: Nat]
BY DEF ControlOK, Fault

\* Only a commit lengthens the log; replays, deferrals and rejections rewrite what hangs off it.
LEMMA StoredTyped == Typed /\ [Next]_vars => StoredOK'
<1> SUFFICES ASSUME Typed, [Next]_vars PROVE StoredOK'
  OBVIOUS
<1> USE DEF Typed, TypeOK
<1>1. CASE (\E d \in Dispatches : Dispatch(d) \/ Expire(d) \/ Abandon(d)) \/ Take
           \/ Skip \/ Start \/ Lookup \/ FailBeforeCommit \/ Reject \/ AdvanceModel
           \/ DeferFails \/ DeferDirty \/ Schedule \/ Fork \/ Publish \/ Answer
           \/ Interrupt \/ Defect \/ Reconcile \/ ReconcileFails \/ Resolve \/ Crash
           \/ UNCHANGED vars
  <2>1. UNCHANGED <<log, receipts, cursors, rows, summaryAt>>
    BY <1>1 DEF
      Dispatch, Expire, Abandon, Take, Skip, Finish, Start, Lookup, FailBeforeCommit,
      Fault, Reject, AdvanceModel, DeferFails, DeferDirty, Schedule, NextDeferred,
      Fork, Publish, Answer, Interrupt, Cut, Defect, Reconcile, ReconcileFails,
      Resolve, Crash, vars, stored, callers, position, model, deferral
  <2> QED
    BY <2>1 DEF StoredOK
<1>2. CASE Commit
  <2> DEFINE c == commandOf[current]
             end == Len(log) + Len(Decision[c])
  <2>1. c \in Commands /\ current \in Dispatches
    BY <1>2 DEF Commit, CallersOK, PositionOK, None
  <2>2. Decision[c] \in Seq(EventBody) /\ Len(Decision[c]) \in Nat \ {0}
    BY <2>1, DecisionAssumption
  <2>3. EventsOf(c) \in Seq(Event) /\ Len(EventsOf(c)) = Len(Decision[c])
    BY <2>1, EventsOfType
  <2>4. log' \in Seq(Event) /\ Len(log') = end /\ end \in Nat /\ Len(log) \in Nat
    <3>1. log \in Seq(Event) /\ log' = log \o EventsOf(c)
      BY <1>2 DEF Commit, StoredOK
    <3>2. Len(log) \in Nat
      BY <3>1
    <3> HIDE DEF c
    <3>3. log \o EventsOf(c) \in Seq(Event) /\ Len(log \o EventsOf(c)) = Len(log) + Len(EventsOf(c))
      BY <2>3, <3>1, ConcatType
    <3> QED
      BY <2>2, <2>3, <3>1, <3>2, <3>3
  <2>5. receipts' \in [Commands -> Receipt]
    BY <1>2, <2>4 DEF Commit, StoredOK, Accepted, Receipt
  <2>6. cursors' \in [Projectors -> 0..Len(log')]
    <3>1. cursors' = [cursors EXCEPT !["projects"] = end, !["chat"] = end]
      BY <1>2 DEF Commit
    <3>2. cursors \in [Projectors -> 0..end] /\ end \in 0..end
      BY <2>2, <2>4 DEF StoredOK
    <3> DEFINE mid == [cursors EXCEPT !["projects"] = end]
    <3>3. mid \in [Projectors -> 0..end]
      BY <3>2, UpdateType
    <3>4. [mid EXCEPT !["chat"] = end] \in [Projectors -> 0..end]
      BY <3>2, <3>3, UpdateType
    <3>5. cursors' = [mid EXCEPT !["chat"] = end]
      BY <3>1
    <3> QED
      BY <2>4, <3>4, <3>5
  <2>7. rows' \in [1..Len(log') -> Nat] /\ summaryAt' \in [Aggregates -> 0..Len(log')]
    BY <1>2, <2>2, <2>4 DEF Commit, StoredOK
  <2> QED
    BY <2>4, <2>5, <2>6, <2>7 DEF StoredOK
<1>3. CASE Defer
  <2>1. UNCHANGED <<log, receipts, rows>> /\ next \in 0..Len(log) /\ Len(log) \in Nat
    BY <1>3 DEF Defer, PositionOK, StoredOK
  <2>2. \/ UNCHANGED <<summaryAt, cursors>>
        \/ /\ summaryAt' = [summaryAt EXCEPT ![log[next].of] = Len(log)]
           /\ cursors' = [cursors EXCEPT !["summaries"] = next]
    BY <1>3 DEF Defer
  <2>3. [summaryAt EXCEPT ![log[next].of] = Len(log)] \in [Aggregates -> 0..Len(log)]
    <3>1. summaryAt \in [Aggregates -> 0..Len(log)] /\ Len(log) \in 0..Len(log)
      BY <2>1 DEF StoredOK
    <3> QED
      BY <3>1, UpdateType
  <2>4. [cursors EXCEPT !["summaries"] = next] \in [Projectors -> 0..Len(log)]
    BY <2>1, UpdateType DEF StoredOK
  <2> QED
    BY <2>1, <2>2, <2>3, <2>4 DEF StoredOK
<1>4. CASE RecordRejection
  <2>1. Rejected \in Receipt
    BY DEF Rejected, Receipt, ModelOK, StoredOK
  <2>2. UNCHANGED <<log, cursors, rows, summaryAt>>
    BY <1>4 DEF RecordRejection
  <2>3. receipts' = receipts \/ receipts' = [receipts EXCEPT ![commandOf[current]] = Rejected]
    BY <1>4 DEF RecordRejection
  <2> QED
    BY <2>1, <2>2, <2>3 DEF StoredOK
<1>5. CASE CatchUp
  <2>1. FullReplay(log, cursors) \in [Projectors -> 0..Len(log)] /\ Len(log) \in Nat
    BY FullReplayType DEF StoredOK
  <2> QED
    BY <1>5, <2>1, ReplayedRowsType, ReplayedSummariesType DEF CatchUp, EndRepair, Replay, StoredOK
<1>6. CASE CatchUpFails
  <2>1. PICK to \in PartialReplays(log, cursors) : Replay(to)
    BY <1>6 DEF CatchUpFails
  <2>0. Len(log) \in Nat /\ cursors \in [Projectors -> 0..Len(log)]
    BY DEF StoredOK
  <2>2. to \in [Projectors -> 0..Len(log)] /\ Len(log) \in Nat
    BY <2>0, <2>1, PartialReplayType
  <2> QED
    BY <1>6, <2>1, <2>2, ReplayedRowsType, ReplayedSummariesType DEF CatchUpFails, Replay, StoredOK
<1>7. CASE BeginRepair
  BY <1>7 DEF BeginRepair, WithProjectRows, Projectors, StoredOK
<1>8. CASE RepairSucceeds
  <2>1. FullReplay(log, cursors) \in [Projectors -> 0..Len(log)] /\ Len(log) \in Nat
    BY FullReplayType DEF StoredOK
  <2> QED
    BY <1>8, <2>1, ReplayedRowsType, ReplayedSummariesType DEF RepairSucceeds, EndRepair, Replay, StoredOK
<1>9. CASE RepairFails
  <2>1. backup \in [cursors: [Projectors -> 0..Len(log)], rows: [1..Len(log) -> Nat]]
    BY <1>9 DEF RepairFails, EndRepair, ControlOK
  <2>2. PICK to \in PartialReplays(log, cursors) :
          /\ rows' = [i \in 1..Len(log) |-> IF log[i].kind = "project" THEN backup.rows[i]
                                            ELSE ReplayedRows(log, rows, cursors, to)[i]]
          /\ summaryAt' = ReplayedSummaries(log, summaryAt, cursors, to)
    BY <1>9 DEF RepairFails
  <2>3. Len(log) \in Nat
    BY DEF StoredOK
  <2>4. rows' \in [1..Len(log) -> Nat]
    <3>1. ReplayedRows(log, rows, cursors, to) \in [1..Len(log) -> Nat]
      BY <2>3, ReplayedRowsType DEF StoredOK
    <3>2. backup.rows \in [1..Len(log) -> Nat]
      BY <2>1
    <3> QED
      BY <2>2, <3>1, <3>2
  <2>5. summaryAt' \in [Aggregates -> 0..Len(log)]
    BY <2>2, <2>3, ReplayedSummariesType DEF StoredOK
  <2> QED
    BY <1>9, <2>1, <2>4, <2>5 DEF RepairFails, EndRepair, StoredOK
<1>10. CASE Restart
  <2>1. FullReplay(log, cursors) \in [Projectors -> 0..Len(log)] /\ Len(log) \in Nat
    BY FullReplayType DEF StoredOK
  <2> QED
    BY <1>10, <2>1, ReplayedRowsType, ReplayedSummariesType DEF Restart, EndRepair, Replay, StoredOK
<1>11. CASE RestartFails
  <2>1. PICK to \in PartialReplays(log, cursors) : Replay(to)
    BY <1>11 DEF RestartFails
  <2>0. Len(log) \in Nat /\ cursors \in [Projectors -> 0..Len(log)]
    BY DEF StoredOK
  <2>2. to \in [Projectors -> 0..Len(log)] /\ Len(log) \in Nat
    BY <2>0, <2>1, PartialReplayType
  <2> QED
    BY <1>11, <2>1, <2>2, ReplayedRowsType, ReplayedSummariesType DEF RestartFails, Replay, StoredOK
<1> QED
  BY <1>1, <1>2, <1>3, <1>4, <1>5, <1>6, <1>7, <1>8, <1>9, <1>10, <1>11
     DEF Next, Callers, Work, Recovery, Background, Maintenance, Process

\* The queue, the callers and their answers.
LEMMA CallersTyped == Typed /\ [Next]_vars => CallersOK'
<1> SUFFICES ASSUME Typed, [Next]_vars PROVE CallersOK'
  OBVIOUS
<1> USE DEF Typed, TypeOK, ExecutionStates, Outcome, Plain, None
<1>1. CASE Skip \/ Lookup \/ FailBeforeCommit \/ Reject \/ Commit \/ AdvanceModel
           \/ Defer \/ DeferFails \/ DeferDirty \/ Schedule \/ Fork \/ Publish
           \/ Interrupt \/ Defect \/ Reconcile \/ ReconcileFails \/ Resolve
           \/ RecordRejection \/ CatchUp \/ CatchUpFails \/ BeginRepair
           \/ RepairSucceeds \/ RepairFails \/ Restart \/ RestartFails
           \/ UNCHANGED vars
  <2>1. UNCHANGED <<commandQueue, commandOf, executionState, expired, reply>>
    BY <1>1 DEF
      Skip, Finish, Lookup, FailBeforeCommit, Fault, Reject, Commit, AdvanceModel,
      Defer, NextDeferred, DeferFails, DeferDirty, Schedule, Fork, Publish, Interrupt,
      Cut, Defect, Reconcile, ReconcileFails, Resolve, RecordRejection, CatchUp,
      CatchUpOver, CatchUpFails, BeginRepair, RepairSucceeds, EndRepair, RepairFails,
      Restart, RestartFails, vars, stored, callers, position, model, deferral
  <2> QED
    BY <2>1 DEF CallersOK
<1>2. ASSUME NEW d \in Dispatches, Dispatch(d) PROVE CallersOK'
  BY <1>2 DEF Dispatch, CallersOK
<1>3. ASSUME NEW d \in Dispatches, Expire(d) PROVE CallersOK'
  BY <1>3 DEF Expire, CallersOK
<1>4. ASSUME NEW d \in Dispatches, Abandon(d) PROVE CallersOK'
  BY <1>4 DEF Abandon, CallersOK
<1>5. CASE Take
  BY <1>5 DEF Take, CallersOK
<1>6. CASE Start
  BY <1>6 DEF Start, CallersOK
<1>7. CASE Answer
  BY <1>7 DEF Answer, Finish, PositionOK, CallersOK
<1>8. CASE Crash
  BY <1>8 DEF Crash, CallersOK
<1> QED
  BY <1>1, <1>2, <1>3, <1>4, <1>5, <1>6, <1>7, <1>8
     DEF Next, Callers, Work, Recovery, Background, Maintenance, Process

\* The lock, the flags and the bounds; the log does not grow during a repair.
LEMMA ControlTyped == Typed /\ [Next]_vars => ControlOK'
<1> SUFFICES ASSUME Typed, [Next]_vars PROVE ControlOK'
  OBVIOUS
<1> USE DEF Typed, TypeOK, Disturbances, LockHeld, deferral
<1>1. CASE (\E d \in Dispatches : Dispatch(d) \/ Expire(d) \/ Abandon(d)) \/ Take
           \/ Lookup \/ Reject \/ AdvanceModel \/ Defer \/ DeferDirty \/ Publish
           \/ Reconcile \/ UNCHANGED vars
  <2>1. UNCHANGED <<maintenanceLock, backup, dirty, inFlight, catchUp, up, disturbed, budget, log>>
    BY <1>1 DEF
      Dispatch, Expire, Abandon, Take, Lookup, Reject, AdvanceModel, Defer,
      NextDeferred, DeferDirty, Publish, Reconcile, vars, stored, callers, position,
      model, deferral
  <2> QED
    BY <2>1 DEF ControlOK
<1>2. CASE Skip
  BY <1>2 DEF Skip, Finish, ControlOK
<1>3. CASE Start
  BY <1>3 DEF Start, ControlOK
<1>4. CASE Answer
  BY <1>4 DEF Answer, Finish, ControlOK
<1>5. CASE FailBeforeCommit
  <2>1. budget' \in [faults: Nat, crashes: Nat, repairs: Nat]
    BY <1>5, FaultTyped DEF FailBeforeCommit, ControlOK
  <2> QED
    BY <1>5, <2>1 DEF FailBeforeCommit, ControlOK
<1>6. CASE DeferFails
  <2>1. budget' \in [faults: Nat, crashes: Nat, repairs: Nat]
    BY <1>6, FaultTyped DEF DeferFails, ControlOK
  <2> QED
    BY <1>6, <2>1 DEF DeferFails, ControlOK
<1>7. CASE Schedule
  BY <1>7 DEF Schedule, NextDeferred, ControlOK
<1>8. CASE Fork
  BY <1>8 DEF Fork, NextDeferred, ControlOK
<1>9. CASE Interrupt
  BY <1>9 DEF Interrupt, Cut, InterruptiblePhases, ControlOK
<1>10. CASE Defect
  <2>1. budget' \in [faults: Nat, crashes: Nat, repairs: Nat]
    BY <1>10, FaultTyped DEF Defect, ControlOK
  <2> QED
    BY <1>10, <2>1 DEF Defect, Cut, InterruptiblePhases, ControlOK
<1>11. CASE ReconcileFails
  <2>1. budget' \in [faults: Nat, crashes: Nat, repairs: Nat]
    BY <1>11, FaultTyped DEF ReconcileFails, ControlOK
  <2> QED
    BY <1>11, <2>1 DEF ReconcileFails, ControlOK
<1>12. CASE Resolve
  <2>1. budget' \in [faults: Nat, crashes: Nat, repairs: Nat]
    BY <1>12, FaultTyped DEF Resolve, ControlOK
  <2> QED
    BY <1>12, <2>1 DEF Resolve, ControlOK
<1>13. CASE RecordRejection
  BY <1>13 DEF RecordRejection, Fault, ControlOK
<1>14. CASE CatchUp
  BY <1>14 DEF CatchUp, CatchUpOver, ControlOK
<1>15. CASE CatchUpFails
  <2>1. budget' \in [faults: Nat, crashes: Nat, repairs: Nat]
    BY <1>15, FaultTyped DEF CatchUpFails, ControlOK
  <2> QED
    BY <1>15, <2>1 DEF CatchUpFails, CatchUpOver, ControlOK
<1>16. CASE RepairSucceeds
  BY <1>16 DEF RepairSucceeds, EndRepair, Fault, ControlOK
<1>17. CASE RepairFails
  <2>1. budget' \in [faults: Nat, crashes: Nat, repairs: Nat]
    BY <1>17, FaultTyped DEF RepairFails, ControlOK
  <2> QED
    BY <1>17, <2>1 DEF RepairFails, EndRepair, ControlOK
<1>18. CASE Crash
  <2>1. budget' \in [faults: Nat, crashes: Nat, repairs: Nat]
    BY <1>18 DEF Crash, ControlOK
  <2> QED
    BY <1>18, <2>1 DEF Crash, Finish, ControlOK
<1>19. CASE Restart
  BY <1>19 DEF Restart, ControlOK
<1>20. CASE RestartFails
  <2>1. budget' \in [faults: Nat, crashes: Nat, repairs: Nat]
    BY <1>20, FaultTyped DEF RestartFails, ControlOK
  <2> QED
    BY <1>20, <2>1 DEF RestartFails, ControlOK
<1>21. CASE BeginRepair
  <2>1. budget' \in [faults: Nat, crashes: Nat, repairs: Nat]
    BY <1>21 DEF BeginRepair, ControlOK
  <2>2. backup' = [cursors |-> cursors, rows |-> rows] /\ UNCHANGED log
    BY <1>21 DEF BeginRepair
  <2>3. backup' \in [cursors: [Projectors -> 0..Len(log)], rows: [1..Len(log) -> Nat]]
    BY <2>2 DEF StoredOK
  <2> QED
    BY <1>21, <2>1, <2>2, <2>3 DEF BeginRepair, ControlOK
<1>22. CASE Commit
  <2>1. phase = "decide" /\ maintenanceLock = "worker"
    BY <1>22 DEF Commit, LockHeld
  <2> QED
    BY <1>22, <2>1 DEF Commit, deferral, ControlOK
<1> QED
  BY <1>1, <1>2, <1>3, <1>4, <1>5, <1>6, <1>7, <1>8, <1>9, <1>10, <1>11, <1>12, <1>13, <1>14, <1>15, <1>16, <1>17, <1>18, <1>19, <1>20, <1>21, <1>22
     DEF Next, Callers, Work, Recovery, Background, Maintenance, Process

\* The worker's position.
LEMMA PositionTyped == Typed /\ [Next]_vars => PositionOK'
<1> SUFFICES ASSUME Typed, [Next]_vars PROVE PositionOK'
  OBVIOUS
<1> USE DEF Typed, TypeOK
<1>0. Len(log) \in Nat
  BY DEF StoredOK
<1>1. CASE (\E d \in Dispatches : Dispatch(d) \/ Expire(d) \/ Abandon(d)) \/ CatchUp
           \/ CatchUpFails \/ BeginRepair \/ RepairSucceeds \/ RepairFails \/ Restart
           \/ RestartFails \/ UNCHANGED vars
  <2>1. UNCHANGED <<phase, current, startSequence, exhausted, next, first, failure, verdict, log>>
    BY <1>1 DEF
      Dispatch, Expire, Abandon, CatchUp, CatchUpFails, BeginRepair, RepairSucceeds,
      RepairFails, EndRepair, Restart, RestartFails, vars, stored, position
  <2> QED
    BY <2>1 DEF PositionOK
<1>2. CASE Take
  <2>1. current' \in Dispatches /\ startSequence' \in 0..Len(log) /\ exhausted' \in BOOLEAN
    BY <1>2 DEF Take, CallersOK, ModelOK
  <2> QED
    BY <1>2, <2>1, DispatchesAssumption DEF Take, stored, PositionOK, Phases, None
<1>3. CASE Skip \/ Answer \/ Crash
  <2>1. Finish /\ UNCHANGED log
    BY <1>3 DEF Skip, Answer, Crash, stored
  <2>2. Plain(None) \in Outcome
    BY DEF Plain, Outcome, None
  <2>3. 0 \in 0..Len(log)
    BY <1>0
  <2> QED
    BY <2>1, <2>2, <2>3 DEF Finish, PositionOK, Phases
<1>4. CASE Start
  BY <1>4 DEF Start, stored, PositionOK, Phases, None
<1>5. CASE Lookup
  <2>1. current \in Dispatches
    BY <1>5 DEF Lookup, PositionOK, None
  <2>2. receipts[commandOf[current]] \in Receipt
    BY <2>1 DEF StoredOK, CallersOK
  <2>3. Stored(receipts[commandOf[current]]) \in Outcome
    BY <2>2 DEF Stored, Receipt, Outcome, Success, Plain
  <2> QED
    BY <1>5, <2>3 DEF Lookup, stored, PositionOK, Phases
<1>6. CASE FailBeforeCommit \/ Reject
  BY <1>6 DEF FailBeforeCommit, Reject, stored, PositionOK, Phases
<1>7. CASE Commit
  <2>1. Len(log') \in Nat /\ Len(log') > Len(log)
    <3>1. log' = log \o EventsOf(commandOf[current]) /\ log \in Seq(Event)
      BY <1>7 DEF Commit, StoredOK
    <3>2. commandOf[current] \in Commands
      BY <1>7 DEF Commit, CallersOK, PositionOK, None
    <3> HIDE DEF Typed
    <3> QED
      BY <1>0, <3>1, <3>2, ConcatType, EventsOfType
  <2> QED
    BY <1>0, <1>7, <2>1 DEF Commit, PositionOK, Phases
<1>8. CASE AdvanceModel
  BY <1>8 DEF AdvanceModel, stored, PositionOK, Phases
<1>9. CASE Defer \/ DeferFails \/ DeferDirty \/ Schedule \/ Fork \/ Publish
  <2>1. UNCHANGED <<log, current, startSequence, exhausted, first, failure>> /\ phase # "idle"
    BY <1>9 DEF Defer, DeferFails, DeferDirty, Schedule, Fork, Publish, stored
  <2>2. phase' \in Phases \ {"idle"} /\ next' \in 0..Len(log)
    BY <1>0, <1>9 DEF Defer, DeferFails, DeferDirty, Schedule, Fork, Publish, NextDeferred,
                      Phases, PositionOK
  <2>3. verdict' \in Outcome
    BY <1>0, <1>9 DEF Defer, DeferFails, DeferDirty, Schedule, Fork, Publish, PositionOK,
                      Outcome, Success
  <2> QED
    BY <2>1, <2>2, <2>3 DEF PositionOK
<1>10. CASE Interrupt \/ Defect
  <2>1. Cut("timeout") \/ Cut("defect")
    BY <1>10 DEF Interrupt, Defect
  <2>2. verdict' \in Outcome
    BY <2>1 DEF Cut, Plain, Outcome, None
  <2>3. next' \in 0..Len(log) /\ failure' \in {"timeout", "defect"}
    BY <1>0, <2>1 DEF Cut
  <2> QED
    BY <2>1, <2>2, <2>3 DEF Cut, InterruptiblePhases, stored, PositionOK, Phases
<1>11. CASE Reconcile \/ ReconcileFails
  BY <1>11 DEF Reconcile, ReconcileFails, stored, PositionOK, Phases
<1>12. CASE Resolve
  <2>1. current \in Dispatches
    BY <1>12 DEF Resolve, PositionOK, None
  <2>2. receipts[commandOf[current]] \in Receipt
    BY <2>1 DEF StoredOK, CallersOK
  <2>3. Stored(receipts[commandOf[current]]) \in Outcome /\ Unresolved \in Outcome
    BY <2>2 DEF Stored, Unresolved, Receipt, Outcome, Success, Plain
  <2> QED
    BY <1>12, <2>3 DEF Resolve, stored, PositionOK, Phases
<1>13. CASE RecordRejection
  BY <1>13 DEF RecordRejection, PositionOK, Phases, Outcome, Plain
<1> QED
  BY <1>1, <1>2, <1>3, <1>4, <1>5, <1>6, <1>7, <1>8, <1>9, <1>10, <1>11, <1>12, <1>13
     DEF Next, Callers, Work, Recovery, Background, Maintenance, Process

\* The in-memory model and what was published.
LEMMA ModelTyped == Typed /\ [Next]_vars => ModelOK'
<1> SUFFICES ASSUME Typed, [Next]_vars PROVE ModelOK'
  OBVIOUS
<1> USE DEF Typed, TypeOK
<1>0. Len(log) \in Nat
  BY DEF StoredOK
<1>1. CASE (\E d \in Dispatches : Dispatch(d) \/ Expire(d) \/ Abandon(d)) \/ Take
           \/ Skip \/ Start \/ Lookup \/ FailBeforeCommit \/ Reject \/ Defer
           \/ DeferFails \/ DeferDirty \/ Schedule \/ Fork \/ Answer \/ Interrupt \/ Defect
           \/ ReconcileFails \/ Resolve \/ RecordRejection \/ CatchUp \/ CatchUpFails
           \/ BeginRepair \/ RepairFails \/ RestartFails \/ UNCHANGED vars
  <2>1. UNCHANGED <<log, commandReadModel, snapshotSequence, published>>
    BY <1>1 DEF
      Dispatch, Expire, Abandon, Take, Skip, Start, Lookup, FailBeforeCommit, Reject, Defer,
      DeferFails, DeferDirty, Schedule, Fork, Answer, Interrupt, Defect, Cut, ReconcileFails,
      Resolve, RecordRejection, CatchUp, CatchUpFails, BeginRepair, RepairFails, EndRepair,
      RestartFails, vars, stored, model
  <2> QED
    BY <2>1 DEF ModelOK
<1>2. CASE Commit
  <2> DEFINE c == commandOf[current]
             end == Len(log) + Len(Decision[c])
  <2>1. Len(log') = end /\ end \in Nat /\ Len(log) <= end
    <3>1. log' = log \o EventsOf(c) /\ log \in Seq(Event)
      BY <1>2 DEF Commit, StoredOK
    <3>2. c \in Commands
      BY <1>2 DEF Commit, CallersOK, PositionOK, None
    <3>3. EventsOf(c) \in Seq(Event) /\ Len(EventsOf(c)) = Len(Decision[c]) /\ Len(Decision[c]) \in Nat
      BY <3>2, EventsOfType
    <3> HIDE DEF c, Typed
    <3>4. Len(log \o EventsOf(c)) = Len(log) + Len(EventsOf(c))
      BY <3>1, <3>3, ConcatType
    <3> QED
      BY <1>0, <3>1, <3>3, <3>4
  <2>2. commandReadModel' = [i \in 1..end |-> IF i <= Len(log) THEN commandReadModel[i] ELSE 0]
    BY <1>2 DEF Commit
  <2>3. UNCHANGED <<snapshotSequence, published>>
    BY <1>2 DEF Commit
  <2> HIDE DEF end
  <2> QED
    BY <1>0, <2>1, <2>2, <2>3 DEF ModelOK
<1>3. CASE AdvanceModel
  <2>1. ProjectedModel(log, commandReadModel, first, Len(log)) \in [1..Len(log) -> Nat]
    BY <1>0, ProjectedModelType DEF ModelOK
  <2> QED
    BY <1>0, <1>3, <2>1 DEF AdvanceModel, stored, ModelOK
<1>4. CASE Publish
  BY <1>0, <1>4 DEF Publish, stored, model, ModelOK, PositionOK
<1>5. CASE Reconcile
  <2>1. ProjectedModel(log, commandReadModel, ReconcileFrom, ReconcileTo) \in [1..Len(log) -> Nat]
    BY <1>0, ProjectedModelType DEF ModelOK
  <2>2. startSequence \in 0..Len(log) /\ ReconcileTo \in 0..Len(log)
    BY <1>0, ReadLimitAssumption DEF PositionOK, ReconcileTo
  <2>3. snapshotSequence' \in 0..Len(log)
    BY <1>5, <2>2 DEF Reconcile, ModelOK
  <2>4. published' \in Seq(Nat)
    <3> DEFINE more == [i \in 1..(ReconcileTo - startSequence) |-> startSequence + i]
    <3>1. ReconcileFrom <= ReconcileTo => more \in Seq(Nat)
      BY <2>2 DEF ReconcileFrom
    <3>2. published \in Seq(Nat)
      BY DEF ModelOK
    <3>3. published' = IF ReconcileFrom <= ReconcileTo THEN published \o more ELSE published
      BY <1>5 DEF Reconcile
    <3> HIDE DEF more
    <3> QED
      BY <3>1, <3>2, <3>3, ConcatType
  <2> QED
    BY <1>5, <2>1, <2>3, <2>4 DEF Reconcile, stored, ModelOK
<1>6. CASE RepairSucceeds
  <2>1. /\ LoadedModel(log, rows') \in [1..Len(log) -> Nat]
        /\ ComputeSnapshotSequence(cursors') \in 0..Len(log)
    BY <1>0, LoadedModelType, SnapshotSequenceType, StoredTyped, <1>6
       DEF StoredOK, RepairSucceeds, EndRepair
  <2> QED
    BY <1>6, <2>1 DEF RepairSucceeds, EndRepair, model, ModelOK
<1>7. CASE Restart
  <2>1. /\ LoadedModel(log, rows') \in [1..Len(log) -> Nat]
        /\ ComputeSnapshotSequence(cursors') \in 0..Len(log)
    BY <1>0, LoadedModelType, SnapshotSequenceType, StoredTyped, <1>7
       DEF StoredOK, Restart
  <2> QED
    BY <1>7, <2>1 DEF Restart, ModelOK
<1>8. CASE Crash
  BY <1>8 DEF Crash, stored, model, ModelOK
<1> QED
  BY <1>1, <1>2, <1>3, <1>4, <1>5, <1>6, <1>7, <1>8
     DEF Next, Callers, Work, Recovery, Background, Maintenance, Process

\* Only the worker's start takes the lock for it, and only its answer, or a crash, gives it back.
LEMMA LockHeldStep == Typed /\ [Next]_vars => LockHeld'
<1> SUFFICES ASSUME Typed, [Next]_vars PROVE LockHeld'
  OBVIOUS
<1> USE DEF Typed, LockHeld
<1>1. CASE (\E d \in Dispatches : Dispatch(d) \/ Expire(d) \/ Abandon(d)) \/ CatchUp
           \/ CatchUpFails \/ Restart \/ RestartFails \/ UNCHANGED vars
  <2>1. UNCHANGED <<phase, maintenanceLock>>
    BY <1>1 DEF Dispatch, Expire, Abandon, CatchUp, CatchUpFails, Restart, RestartFails, vars,
                position
  <2> QED
    BY <2>1
<1>2. CASE Take \/ Start \/ Lookup \/ FailBeforeCommit \/ Reject \/ Commit \/ AdvanceModel
           \/ Defer \/ DeferFails \/ DeferDirty \/ Schedule \/ Fork \/ Publish
  BY <1>2 DEF Take, Start, Lookup, FailBeforeCommit, Reject, Commit, AdvanceModel, Defer,
              DeferFails, DeferDirty, Schedule, Fork, Publish, NextDeferred
<1>3. CASE Interrupt \/ Defect \/ Reconcile \/ ReconcileFails \/ Resolve \/ RecordRejection
  BY <1>3 DEF Interrupt, Defect, Cut, InterruptiblePhases, Reconcile, ReconcileFails, Resolve,
              RecordRejection
<1>4. CASE Skip \/ Answer \/ Crash
  BY <1>4 DEF Skip, Answer, Crash, Finish
<1>5. CASE BeginRepair \/ RepairSucceeds \/ RepairFails
  BY <1>5 DEF BeginRepair, RepairSucceeds, RepairFails, EndRepair, position
<1> QED
  BY <1>1, <1>2, <1>3, <1>4, <1>5
     DEF Next, Callers, Work, Recovery, Background, Maintenance, Process

LEMMA TypedStep == Typed /\ [Next]_vars => Typed'
BY StoredTyped, CallersTyped, PositionTyped, ModelTyped, ControlTyped, LockHeldStep
   DEF Typed, TypeOK

LEMMA AlwaysTyped == Spec => []Typed
BY InitTyped, TypedStep, PTL DEF Spec

\* Every variable of the engine keeps its type, for every set of commands and dispatches, every
\* decision and history, every read limit, and any number of faults, crashes and repairs.
THEOREM TypeCorrect == Spec => []TypeOK
<1>1. Typed => TypeOK
  BY DEF Typed
<1> QED
  BY AlwaysTyped, <1>1, PTL

-----------------------------------------------------------------------------------
\* The flag of scheduleDeferredProjectionCatchUp.

AfterCommit == {"committed", "deferring", "scheduling", "forking", "publishing"}

\* After its commit the worker knows what it committed, so a deadline there is late; and it is
\* about to fork a catch-up only where none is forked.
FlagInv ==
    /\ phase \in AfterCommit => first # 0
    /\ "late" \notin disturbed =>
          /\ inFlight <=> catchUp \/ phase = "forking"
          /\ ~(catchUp /\ phase = "forking")

\* Steps that leave the flag, the catch-up and the disturbances alone, and fork nothing.
LEMMA FlagUntouched ==
    ASSUME Typed, FlagInv, UNCHANGED <<inFlight, catchUp>>, disturbed \subseteq disturbed',
           phase # "forking" \/ "late" \in disturbed', phase' # "forking",
           phase' \in AfterCommit => first' # 0
    PROVE  FlagInv'
BY DEF FlagInv

LEMMA FlagStep == Typed /\ FlagInv /\ [Next]_vars => FlagInv'
<1> SUFFICES ASSUME Typed, FlagInv, [Next]_vars PROVE FlagInv'
  OBVIOUS
<1>0. inFlight \in BOOLEAN /\ catchUp \in BOOLEAN /\ Len(log) \in Nat
  BY DEF Typed, TypeOK, ControlOK, StoredOK
<1>1. CASE UNCHANGED <<phase, first, inFlight, catchUp, disturbed>>
  BY <1>1 DEF FlagInv
<1>2. CASE Callers \/ Restart \/ RestartFails \/ RepairSucceeds \/ RepairFails \/ UNCHANGED vars
  BY <1>1, <1>2 DEF Callers, Dispatch, Expire, Abandon, Restart, RestartFails, RepairSucceeds,
                    RepairFails, EndRepair, vars, position, deferral
<1>3. CASE BeginRepair
  BY <1>3 DEF BeginRepair, FlagInv, position, deferral
<1>4. CASE Take \/ Skip \/ Start \/ Lookup \/ FailBeforeCommit \/ Reject
  BY <1>4, FlagUntouched DEF Take, Skip, Finish, Start, Lookup, FailBeforeCommit, Reject, deferral,
                             AfterCommit
<1>5. CASE Commit
  <2>1. /\ phase = "decide" /\ phase' = "committed" /\ first' = Len(log) + 1
        /\ UNCHANGED <<inFlight, catchUp, disturbed>>
    BY <1>5 DEF Commit, deferral
  <2> QED
    BY <1>0, <2>1, FlagUntouched
<1>6. CASE AdvanceModel \/ Defer \/ DeferFails \/ DeferDirty \/ Publish
  <2>1. /\ phase \in AfterCommit /\ phase # "forking" /\ phase' # "forking"
        /\ UNCHANGED <<inFlight, catchUp, disturbed, first>>
    BY <1>6 DEF AdvanceModel, Defer, DeferFails, DeferDirty, Publish, NextDeferred, deferral,
                AfterCommit
  <2> QED
    BY <2>1, FlagUntouched DEF FlagInv
<1>7. CASE Schedule
  <2>1. phase = "scheduling" /\ inFlight' /\ UNCHANGED <<catchUp, disturbed, first>>
    BY <1>7 DEF Schedule
  <2>2. CASE inFlight
    BY <1>7, <2>1, <2>2 DEF Schedule, NextDeferred, FlagInv, AfterCommit
  <2>3. CASE ~inFlight
    BY <1>7, <2>1, <2>3 DEF Schedule, FlagInv, AfterCommit
  <2> QED
    BY <2>2, <2>3
<1>8. CASE Fork
  <2>1. /\ phase = "forking" /\ catchUp' /\ phase' # "forking"
        /\ UNCHANGED <<inFlight, disturbed, first>>
    BY <1>8 DEF Fork, NextDeferred
  <2> QED
    BY <2>1 DEF FlagInv, AfterCommit
<1>9. CASE Answer \/ Reconcile \/ Resolve \/ RecordRejection \/ ReconcileFails
  BY <1>9, FlagUntouched DEF Answer, Finish, Reconcile, Resolve, RecordRejection, ReconcileFails,
                             deferral, AfterCommit
<1>10. CASE Interrupt \/ Defect
  <2>1. /\ phase' = "failing" /\ UNCHANGED <<first, inFlight, catchUp>>
        /\ disturbed \subseteq disturbed' /\ (first # 0 => "late" \in disturbed')
    BY <1>10 DEF Interrupt, Defect, Cut, deferral
  <2>2. phase # "forking" \/ "late" \in disturbed'
    BY <2>1 DEF FlagInv, AfterCommit
  <2> QED
    BY <2>1, <2>2, FlagUntouched DEF AfterCommit
<1>11. CASE CatchUp \/ CatchUpFails
  <2>1. /\ catchUp /\ ~inFlight' /\ ~catchUp' /\ UNCHANGED <<phase, first, disturbed>>
    BY <1>11 DEF CatchUp, CatchUpFails, CatchUpOver, position
  <2> QED
    BY <2>1 DEF FlagInv
<1>12. CASE Crash
  <2>1. /\ phase' = "idle" /\ ~inFlight' /\ ~catchUp'
    BY <1>12 DEF Crash, Finish
  <2> QED
    BY <2>1 DEF FlagInv, AfterCommit
<1> QED
  BY <1>2, <1>3, <1>4, <1>5, <1>6, <1>7, <1>8, <1>9, <1>10, <1>11, <1>12
     DEF Next, Work, Recovery, Background, Maintenance, Process

\* The flag is set exactly while a catch-up is about to be forked or forked and not over, as long
\* as no deadline or defect strikes after a commit: it is neither lost, which would end all
\* catch-ups, nor reset under one.
THEOREM FlagIsRight == Spec => []FlagHasCatchUp
<1>1. Init => FlagInv
  BY DEF Init, FlagInv, AfterCommit
<1>2. FlagInv => FlagHasCatchUp
  BY DEF FlagInv, FlagHasCatchUp
<1> QED
  BY <1>1, <1>2, AlwaysTyped, FlagStep, PTL DEF Spec

-----------------------------------------------------------------------------------
\* Replays within one page.

\* No projector is further behind the log than one readFromSequence call returns: every replay
\* and every reconciliation reads all it has to.  (readFromSequence with its default limit.)
WithinOnePage == \A p \in Projectors : Len(log) <= cursors[p] + ReadLimit

\* Such a bootstrap leaves every cursor at the end of the log.
LEMMA ReachesTheEnd ==
    ASSUME Typed, WithinOnePage
    PROVE  FullReplay(log, cursors) = [p \in Projectors |-> Len(log)]
BY ReadLimitAssumption DEF Typed, TypeOK, StoredOK, WithinOnePage, FullReplay, Reach

\* What a commit stores: the events before it stay, and the command's events follow.
LEMMA CommitFacts ==
    ASSUME Typed, Commit
    PROVE  LET c == commandOf[current]
           IN  /\ c \in Commands /\ Len(log) \in Nat /\ Len(Decision[c]) \in Nat \ {0}
               /\ Len(log') = Len(log) + Len(Decision[c])
               /\ \A i \in 1..Len(log) : log'[i] = log[i]
               /\ \A i \in 1..Len(Decision[c]) : log'[Len(log) + i] = EventsOf(c)[i]
<1> DEFINE c == commandOf[current]
<1>1. c \in Commands
  BY DEF Commit, Typed, TypeOK, CallersOK, PositionOK, None
<1>2. /\ EventsOf(c) \in Seq(Event) /\ Len(EventsOf(c)) = Len(Decision[c])
      /\ Len(Decision[c]) \in Nat \ {0}
  BY <1>1, EventsOfType
<1>3. log \in Seq(Event) /\ Len(log) \in Nat /\ log' = log \o EventsOf(c)
  BY DEF Commit, Typed, TypeOK, StoredOK
<1> DEFINE e == EventsOf(c)
<1>4. e \in Seq(Event) /\ Len(e) = Len(Decision[c])
  BY <1>2
<1> HIDE DEF e
<1>5. /\ Len(log \o e) = Len(log) + Len(e)
      /\ \A i \in 1..Len(log) : (log \o e)[i] = log[i]
      /\ \A i \in 1..Len(e) : (log \o e)[Len(log) + i] = e[i]
  <2>1. log \in Seq(Event) /\ e \in Seq(Event)
    BY <1>3, <1>4
  <2> QED
    BY ONLY <2>1
<1>6. log' = log \o e
  BY <1>3 DEF e
<1> HIDE DEF c
<1>7. /\ Len(log') = Len(log) + Len(Decision[c])
      /\ \A i \in 1..Len(log) : log'[i] = log[i]
      /\ \A i \in 1..Len(Decision[c]) : log'[Len(log) + i] = e[i]
  BY <1>4, <1>5, <1>6
<1> QED
  BY <1>1, <1>2, <1>3, <1>7 DEF c, e

-----------------------------------------------------------------------------------
\* Where the worker is.

\* Which envelopes have committed something, by where the worker is; and what a process that is
\* down leaves behind.
PositionInv ==
    /\ phase \in {"idle", "waiting", "lookup", "decide"} => first = 0
    /\ "late" \notin disturbed /\ phase \in {"failing", "resolving", "replying"} => first = 0
    /\ ~up => phase = "idle" /\ maintenanceLock = "free" /\ ~dirty /\ published = <<>>
    /\ phase \in {"scheduling", "forking"} => dirty
    /\ phase \in {"deferring", "scheduling", "forking", "publishing"} => first <= next
    /\ maintenanceLock = "repair" => "repaired" \in disturbed

LEMMA PositionStep == Typed /\ FlagInv /\ PositionInv /\ [Next]_vars => PositionInv'
<1> SUFFICES ASSUME Typed, FlagInv, PositionInv, [Next]_vars PROVE PositionInv'
  OBVIOUS
<1>0. first \in Nat /\ next \in Nat /\ dirty \in BOOLEAN /\ Len(log) \in Nat
  BY DEF Typed, TypeOK, PositionOK, ControlOK, StoredOK
<1>1. CASE Callers \/ UNCHANGED vars
  BY <1>1 DEF Callers, Dispatch, Expire, Abandon, vars, position, deferral, PositionInv
<1>2. CASE Take \/ Skip \/ Start \/ Lookup \/ FailBeforeCommit \/ Reject
  BY <1>2 DEF Take, Skip, Finish, Start, Lookup, FailBeforeCommit, Reject, deferral,
              PositionInv, AfterCommit
<1>3. CASE Commit
  BY <1>3 DEF Commit, deferral, PositionInv
<1>4. CASE AdvanceModel \/ Defer
  BY <1>0, <1>4 DEF AdvanceModel, Defer, NextDeferred, deferral, PositionInv, AfterCommit
<1>5. CASE DeferFails \/ DeferDirty
  BY <1>0, <1>5 DEF DeferFails, DeferDirty, NeedsCatchUp, deferral, PositionInv, AfterCommit
<1>6. CASE Schedule \/ Fork
  BY <1>0, <1>6 DEF Schedule, Fork, NextDeferred, PositionInv, AfterCommit
<1>7. CASE Publish
  BY <1>0, <1>7 DEF Publish, deferral, PositionInv, AfterCommit
<1>8. CASE Answer \/ Crash
  BY <1>8 DEF Answer, Crash, Finish, deferral, PositionInv
<1>9. CASE Interrupt \/ Defect
  BY <1>9 DEF Interrupt, Defect, Cut, deferral, PositionInv, AfterCommit
<1>10. CASE Reconcile \/ ReconcileFails \/ Resolve \/ RecordRejection
  BY <1>10 DEF Reconcile, ReconcileFails, Resolve, RecordRejection, deferral, PositionInv
<1>11. CASE CatchUp \/ CatchUpFails
  <2>1. phase \in {"idle", "waiting"}
    BY <1>11 DEF CatchUp, CatchUpFails, Typed, LockHeld, TypeOK, PositionOK, Phases
  <2> QED
    BY <1>11, <2>1 DEF CatchUp, CatchUpFails, position, PositionInv
<1>12. CASE BeginRepair \/ RepairSucceeds \/ RepairFails
  BY <1>12 DEF BeginRepair, RepairSucceeds, RepairFails, EndRepair, position, deferral, PositionInv
<1>13. CASE Restart \/ RestartFails
  BY <1>13 DEF Restart, RestartFails, position, deferral, PositionInv
<1> QED
  BY <1>1, <1>2, <1>3, <1>4, <1>5, <1>6, <1>7, <1>8, <1>9, <1>10, <1>11, <1>12, <1>13
     DEF Next, Work, Recovery, Background, Maintenance, Process
-----------------------------------------------------------------------------------
\* The tables and their cursors.

\* Outside a repair the project and chat cursors are at the end of the log, for the hot
\* projectors run in the transaction of the events; a repair, which has set them back, can put
\* them there again.
CursorsInv ==
    /\ up /\ maintenanceLock # "repair" =>
          cursors["projects"] = Len(log) /\ cursors["chat"] = Len(log)
    /\ maintenanceLock = "repair" =>
          backup.cursors["projects"] = Len(log) /\ backup.cursors["chat"] = Len(log)

\* Cursors stay where they are when a bootstrap, whether or not it finishes, has nothing to
\* read for them.
LEMMA StaysAtTheEnd ==
    ASSUME NEW L, Len(L) \in Nat, NEW c \in [Projectors -> 0..Len(L)], NEW q \in Projectors,
           c[q] = Len(L)
    PROVE  /\ FullReplay(L, c)[q] = Len(L)
           /\ \A to \in PartialReplays(L, c) : to[q] = Len(L)
<1>1. FullReplay(L, c)[q] = Len(L)
  BY ReadLimitAssumption DEF FullReplay, Reach
<1>2. ASSUME NEW to \in PartialReplays(L, c) PROVE to[q] = Len(L)
  <2>1. c[q] <= to[q] /\ to[q] \in 0..Len(L)
    BY PartialReplayType
  <2> QED
    BY <2>1
<1> QED
  BY <1>1, <1>2

LEMMA CursorsStep ==
    Typed /\ WithinOnePage /\ PositionInv /\ CursorsInv /\ [Next]_vars => CursorsInv'
<1> SUFFICES ASSUME Typed, WithinOnePage, PositionInv, CursorsInv, [Next]_vars PROVE CursorsInv'
  OBVIOUS
<1>0. /\ Len(log) \in Nat /\ cursors \in [Projectors -> 0..Len(log)]
      /\ "projects" \in Projectors /\ "chat" \in Projectors
  BY DEF Typed, TypeOK, StoredOK, Projectors
<1>1. CASE UNCHANGED <<log, cursors, backup, up, maintenanceLock>>
  BY <1>1 DEF CursorsInv
<1>2. CASE Callers \/ Take \/ Lookup \/ FailBeforeCommit \/ Reject \/ AdvanceModel \/ DeferFails
           \/ DeferDirty \/ Schedule \/ Fork \/ Publish \/ Interrupt \/ Defect \/ Reconcile
           \/ ReconcileFails \/ Resolve \/ RecordRejection \/ UNCHANGED vars
  BY <1>1, <1>2
     DEF Callers, Dispatch, Expire, Abandon, Take, Lookup, FailBeforeCommit, Reject, AdvanceModel,
         DeferFails, DeferDirty, Schedule, Fork, Publish, Interrupt, Defect, Cut, Reconcile,
         ReconcileFails, Resolve, RecordRejection, vars, stored
<1>3. CASE Skip \/ Start \/ Answer
  <2>1. /\ UNCHANGED <<log, cursors, backup, up>>
        /\ maintenanceLock # "repair" /\ maintenanceLock' # "repair"
    BY <1>3 DEF Skip, Start, Answer, Finish, stored, Typed, LockHeld
  <2> QED
    BY <2>1 DEF CursorsInv
<1>4. CASE Commit
  <2> DEFINE end == Len(log) + Len(Decision[commandOf[current]])
  <2>1. cursors' = [cursors EXCEPT !["projects"] = end, !["chat"] = end] /\ Len(log') = end
    BY <1>4, CommitFacts DEF Commit
  <2>2. UNCHANGED <<backup, up, maintenanceLock>> /\ maintenanceLock # "repair"
    BY <1>4 DEF Commit, Typed, LockHeld
  <2> HIDE DEF end
  <2>3. cursors'["projects"] = end /\ cursors'["chat"] = end
    BY <1>0, <2>1
  <2> QED
    BY <2>1, <2>2, <2>3 DEF CursorsInv
<1>5. CASE Defer
  <2>1. UNCHANGED <<log, backup, up, maintenanceLock>>
    BY <1>5 DEF Defer
  <2>2. cursors' = cursors \/ cursors' = [cursors EXCEPT !["summaries"] = next]
    BY <1>5 DEF Defer
  <2>3. UNCHANGED <<cursors["projects"], cursors["chat"]>>
    BY <1>0, <2>2
  <2> QED
    BY <2>1, <2>3 DEF CursorsInv
<1>6. CASE CatchUp \/ Restart \/ RepairSucceeds
  <2>1. log' = log /\ cursors' = FullReplay(log, cursors)
    BY <1>6 DEF CatchUp, Restart, RepairSucceeds, EndRepair, Replay
  <2>2. maintenanceLock' # "repair"
    BY <1>6 DEF CatchUp, Restart, RepairSucceeds, EndRepair, PositionInv
  <2>3. cursors' = [p \in Projectors |-> Len(log)]
    BY <2>1, ReachesTheEnd
  <2> QED
    BY <1>0, <2>1, <2>2, <2>3 DEF CursorsInv
<1>7. CASE CatchUpFails
  <2>1. /\ cursors' \in PartialReplays(log, cursors) /\ UNCHANGED <<log, maintenanceLock, up>>
        /\ up /\ maintenanceLock = "free"
    BY <1>7 DEF CatchUpFails, Replay
  <2>2. cursors'["projects"] = Len(log) /\ cursors'["chat"] = Len(log)
    BY <1>0, <2>1, StaysAtTheEnd DEF CursorsInv
  <2> QED
    BY <2>1, <2>2 DEF CursorsInv
<1>8. CASE RestartFails
  BY <1>8 DEF RestartFails, CursorsInv, PositionInv
<1>9. CASE BeginRepair
  BY <1>0, <1>9 DEF BeginRepair, CursorsInv
<1>10. CASE RepairFails
  BY <1>10 DEF RepairFails, EndRepair, CursorsInv
<1>11. CASE Crash
  BY <1>11 DEF Crash, Finish, CursorsInv
<1> QED
  BY <1>2, <1>3, <1>4, <1>5, <1>6, <1>7, <1>8, <1>9, <1>10, <1>11
     DEF Next, Work, Recovery, Background, Maintenance, Process

\* The rows hold every event of a row's own, up to the cursor of its projector; and a repair that
\* fails puts back rows that go with the cursors it puts back.
Shown(i) == log[i].kind # "delta" /\ i <= cursors[RowsOf(log[i])] => rows[i] > 0
Restorable(i) ==
    log[i].kind # "delta" =>
        IF log[i].kind = "project" THEN i <= backup.cursors["projects"] => backup.rows[i] > 0
                                   ELSE i <= backup.cursors["chat"] => rows[i] > 0
RowsInv ==
    /\ \A i \in 1..Len(log) : Shown(i)
    /\ maintenanceLock = "repair" => \A i \in 1..Len(log) : Restorable(i)

\* A replay shows what it passes, and hides nothing.
LEMMA ReplayShows ==
    ASSUME Typed, NEW to \in [Projectors -> 0..Len(log)], NEW i \in 1..Len(log),
           log[i].kind # "delta"
    PROVE  /\ rows[i] > 0 => ReplayedRows(log, rows, cursors, to)[i] > 0
           /\ Shown(i) /\ i <= to[RowsOf(log[i])] => ReplayedRows(log, rows, cursors, to)[i] > 0
<1>1. cursors[RowsOf(log[i])] \in Nat /\ to[RowsOf(log[i])] \in Nat /\ rows[i] \in Nat /\ i \in Nat
  BY DEF Typed, TypeOK, StoredOK, RowsOf, Projectors
<1>2. ReplayedRows(log, rows, cursors, to)[i] =
        IF cursors[RowsOf(log[i])] < i /\ i <= to[RowsOf(log[i])] THEN 1 ELSE rows[i]
  BY DEF ReplayedRows, Reflect
<1> QED
  BY <1>1, <1>2 DEF Shown

LEMMA ReplayKeepsRows ==
    ASSUME Typed, RowsInv, NEW to \in [Projectors -> 0..Len(log)], Replay(to), log' = log,
           maintenanceLock' # "repair"
    PROVE  RowsInv'
<1>1. ASSUME NEW i \in 1..Len(log) PROVE Shown(i)'
  <2>1. rows' = ReplayedRows(log, rows, cursors, to) /\ cursors' = to /\ Shown(i)
    BY DEF Replay, RowsInv
  <2>2. CASE log[i].kind # "delta"
    BY <2>1, <2>2, ReplayShows DEF Shown
  <2>3. CASE log[i].kind = "delta"
    BY <2>3 DEF Shown
  <2> QED
    BY <2>2, <2>3
<1> QED
  BY <1>1 DEF RowsInv

LEMMA RowsStep ==
    Typed /\ WithinOnePage /\ PositionInv /\ CursorsInv /\ RowsInv /\ [Next]_vars => RowsInv'
<1> SUFFICES ASSUME Typed, WithinOnePage, PositionInv, CursorsInv, RowsInv, [Next]_vars
             PROVE  RowsInv'
  OBVIOUS
<1>0. /\ Len(log) \in Nat /\ cursors \in [Projectors -> 0..Len(log)]
      /\ rows \in [1..Len(log) -> Nat]
      /\ "projects" \in Projectors /\ "chat" \in Projectors /\ "summaries" \in Projectors
      /\ \A i \in 1..Len(log) : RowsOf(log[i]) \in {"projects", "chat"}
  BY DEF Typed, TypeOK, StoredOK, Projectors, RowsOf
<1>1. CASE UNCHANGED <<log, cursors, rows, backup, maintenanceLock>>
  BY <1>1 DEF RowsInv, Shown, Restorable
<1>2. CASE Callers \/ Take \/ Lookup \/ FailBeforeCommit \/ Reject \/ AdvanceModel \/ DeferFails
           \/ DeferDirty \/ Schedule \/ Fork \/ Publish \/ Interrupt \/ Defect \/ Reconcile
           \/ ReconcileFails \/ Resolve \/ RecordRejection \/ UNCHANGED vars
  BY <1>1, <1>2
     DEF Callers, Dispatch, Expire, Abandon, Take, Lookup, FailBeforeCommit, Reject, AdvanceModel,
         DeferFails, DeferDirty, Schedule, Fork, Publish, Interrupt, Defect, Cut, Reconcile,
         ReconcileFails, Resolve, RecordRejection, vars, stored
<1>3. CASE Skip \/ Start \/ Answer \/ Crash
  <2>1. UNCHANGED <<log, cursors, rows>> /\ maintenanceLock' # "repair"
    BY <1>3 DEF Skip, Start, Answer, Crash, Finish, stored
  <2> QED
    BY <2>1 DEF RowsInv, Shown
<1>4. CASE Commit
  <2> DEFINE c == commandOf[current]
             end == Len(log) + Len(Decision[c])
  <2>1. /\ Len(log') = end /\ Len(Decision[c]) \in Nat
        /\ \A i \in 1..Len(log) : log'[i] = log[i]
    BY <1>4, CommitFacts
  <2>2. /\ rows' = [i \in 1..end |-> IF i <= Len(log) THEN rows[i] ELSE 1]
        /\ maintenanceLock' = maintenanceLock /\ up
    BY <1>4 DEF Commit
  <2>3. maintenanceLock # "repair"
    BY <1>4 DEF Commit, Typed, LockHeld
  <2>4. \A i \in 1..Len(log) : cursors[RowsOf(log[i])] = Len(log)
    BY <1>0, <2>2, <2>3 DEF CursorsInv
  <2>5. ASSUME NEW i \in 1..Len(log'), log'[i].kind # "delta" PROVE rows'[i] > 0
    <3>1. CASE i <= Len(log)
      <4>1. i \in 1..Len(log) /\ log[i].kind # "delta" /\ rows'[i] = rows[i]
        BY <1>0, <2>1, <2>2, <2>5, <3>1
      <4> QED
        BY <2>4, <4>1 DEF RowsInv, Shown
    <3>2. CASE i > Len(log)
      BY <1>0, <2>1, <2>2, <3>2
    <3> QED
      BY <1>0, <2>1, <3>1, <3>2
  <2> QED
    BY <2>2, <2>3, <2>5 DEF RowsInv, Shown
<1>5. CASE Defer
  <2>1. UNCHANGED <<log, rows, backup, maintenanceLock>>
    BY <1>5 DEF Defer
  <2>2. cursors' = cursors \/ cursors' = [cursors EXCEPT !["summaries"] = next]
    BY <1>5 DEF Defer
  <2>3. UNCHANGED <<cursors["projects"], cursors["chat"]>>
    BY <1>0, <2>2
  <2> QED
    BY <1>0, <2>1, <2>3 DEF RowsInv, Shown, Restorable
<1>6. CASE CatchUp \/ Restart \/ RepairSucceeds
  <2>1. Replay(FullReplay(log, cursors)) /\ log' = log /\ maintenanceLock' # "repair"
    BY <1>6 DEF CatchUp, Restart, RepairSucceeds, EndRepair, PositionInv
  <2>2. FullReplay(log, cursors) \in [Projectors -> 0..Len(log)]
    BY <1>0, FullReplayType
  <2> QED
    BY <2>1, <2>2, ReplayKeepsRows
<1>7. CASE CatchUpFails \/ RestartFails
  <2>1. PICK to \in PartialReplays(log, cursors) : Replay(to)
    BY <1>7 DEF CatchUpFails, RestartFails
  <2>2. log' = log /\ maintenanceLock' # "repair"
    BY <1>7 DEF CatchUpFails, RestartFails, PositionInv
  <2>3. to \in [Projectors -> 0..Len(log)]
    BY <1>0, <2>1, PartialReplayType
  <2> QED
    BY <2>1, <2>2, <2>3, ReplayKeepsRows
<1>8. CASE BeginRepair
  <2>1. /\ UNCHANGED log /\ maintenanceLock = "free" /\ up
        /\ backup' = [cursors |-> cursors, rows |-> rows]
        /\ rows' = [i \in 1..Len(log) |-> IF log[i].kind = "project" THEN 0 ELSE rows[i]]
        /\ cursors' = [cursors EXCEPT !["projects"] = 0, !["chat"] = 0]
    BY <1>8 DEF BeginRepair, WithProjectRows
  <2>2. cursors'["projects"] = 0 /\ cursors'["chat"] = 0
    BY <1>0, <2>1
  <2>3. \A i \in 1..Len(log) : Shown(i)'
    BY <1>0, <2>1, <2>2 DEF Shown
  <2>4. ASSUME NEW i \in 1..Len(log) PROVE Restorable(i)'
    <3>1. Shown(i) /\ backup'.cursors = cursors /\ backup'.rows = rows
      BY <2>1 DEF RowsInv
    <3> QED
      BY <2>1, <3>1 DEF Shown, Restorable, RowsOf
  <2> QED
    BY <2>1, <2>3, <2>4 DEF RowsInv
<1>9. CASE RepairFails
  <2>1. PICK to \in PartialReplays(log, cursors) :
          rows' = [i \in 1..Len(log) |-> IF log[i].kind = "project" THEN backup.rows[i]
                                         ELSE ReplayedRows(log, rows, cursors, to)[i]]
    BY <1>9 DEF RepairFails
  <2>2. /\ UNCHANGED log /\ maintenanceLock = "repair" /\ maintenanceLock' = "free"
        /\ cursors' = backup.cursors
    BY <1>9 DEF RepairFails, EndRepair
  <2>3. to \in [Projectors -> 0..Len(log)]
    BY <1>0, <2>1, PartialReplayType
  <2>4. ASSUME NEW i \in 1..Len(log) PROVE Shown(i)'
    <3>1. Restorable(i)
      BY <2>2 DEF RowsInv
    <3>2. CASE log[i].kind = "delta"
      BY <2>2, <3>2 DEF Shown
    <3>3. CASE log[i].kind = "project"
      BY <2>1, <2>2, <3>1, <3>3 DEF Shown, Restorable, RowsOf
    <3>4. CASE log[i].kind \notin {"delta", "project"}
      <4>1. rows[i] > 0 => ReplayedRows(log, rows, cursors, to)[i] > 0
        BY <2>3, <3>4, ReplayShows
      <4> QED
        BY <2>1, <2>2, <3>1, <3>4, <4>1 DEF Shown, Restorable, RowsOf
    <3> QED
      BY <3>2, <3>3, <3>4
  <2> QED
    BY <2>2, <2>4 DEF RowsInv
<1> QED
  BY <1>2, <1>3, <1>4, <1>5, <1>6, <1>7, <1>8, <1>9
     DEF Next, Work, Recovery, Background, Maintenance, Process
-----------------------------------------------------------------------------------
\* The in-memory model.

\* The model has the first n events, but for message texts.
Complete(n) == \A i \in 1..n : log[i].kind # "delta" => commandReadModel[i] = 1

\* The model has every event, except from a commit to the step that advances it or, cut short,
\* to its reconciliation: there it lacks what the worker has just committed, and the sequence
\* the worker started from, one page behind at most, is where the model stands.
ModelInv ==
    up /\ "unreconciled" \notin disturbed =>
        /\ phase # "idle" =>
              /\ startSequence = IF first = 0 THEN Len(log) ELSE first - 1
              /\ Len(log) <= startSequence + ReadLimit
        /\ \/ phase # "committed" /\ snapshotSequence = Len(log) /\ Complete(Len(log))
           \/ /\ phase \in {"committed", "failing"}
              /\ first # 0 /\ snapshotSequence = first - 1 /\ Complete(first - 1)

\* A reconciliation that fails leaves something behind only after a late interruption.
LatenessInv == "late" \notin disturbed => "unreconciled" \notin disturbed

\* Outside its own steps and repairs the model and the position stand still.
LEMMA ModelUntouched ==
    ASSUME ModelInv, LatenessInv, PositionInv, Typed,
           UNCHANGED <<log, model, startSequence, first, up>>, disturbed' = disturbed,
           \/ phase' = phase
           \/ /\ phase \notin {"idle", "committed", "failing"} /\ phase' # "committed"
    PROVE  ModelInv' /\ LatenessInv'
BY DEF ModelInv, LatenessInv, Complete, model

\* A load from rows that have been replayed has every event (getCommandReadModel).
LEMMA LoadsAll ==
    ASSUME Typed, WithinOnePage, CursorsInv', RowsInv', Typed', log' = log,
           Replay(FullReplay(log, cursors)),
           commandReadModel' = LoadedModel(log, rows'),
           snapshotSequence' = ComputeSnapshotSequence(cursors')
    PROVE  snapshotSequence' = Len(log) /\ Complete(Len(log))'
<1>1. Len(log) \in Nat /\ cursors' = [p \in Projectors |-> Len(log)]
  BY ReachesTheEnd DEF Replay, Typed, TypeOK, StoredOK
<1>2. snapshotSequence' = Len(log)
  <2>1. {cursors'[p] : p \in Projectors} = {Len(log)}
    BY <1>1 DEF Projectors
  <2>2. \A p \in Projectors : Len(log) <= cursors'[p]
    BY <1>1
  <2> QED
    BY <2>1, <2>2 DEF ComputeSnapshotSequence
<1>3. ASSUME NEW i \in 1..Len(log), log[i].kind # "delta" PROVE commandReadModel'[i] = 1
  <2>1. RowsOf(log[i]) \in Projectors
    BY DEF RowsOf, Projectors
  <2>2. Shown(i)' /\ i <= cursors'[RowsOf(log[i])]
    BY <1>1, <2>1 DEF RowsInv
  <2>3. rows'[i] > 0
    BY <1>3, <2>2 DEF Shown
  <2> QED
    BY <1>3, <2>3 DEF LoadedModel
<1> QED
  BY <1>2, <1>3 DEF Complete

LEMMA ModelStep ==
    Typed /\ WithinOnePage /\ FlagInv /\ PositionInv /\ CursorsInv /\ RowsInv /\ ModelInv
          /\ LatenessInv /\ WithinOnePage' /\ [Next]_vars => ModelInv' /\ LatenessInv'
<1> SUFFICES ASSUME Typed, WithinOnePage, FlagInv, PositionInv, CursorsInv, RowsInv, ModelInv,
                    LatenessInv, WithinOnePage', [Next]_vars
             PROVE  ModelInv' /\ LatenessInv'
  OBVIOUS
<1>0. /\ Len(log) \in Nat /\ first \in 0..Len(log) /\ startSequence \in 0..Len(log)
      /\ snapshotSequence \in 0..Len(log) /\ ReadLimit \in Nat
  BY ReadLimitAssumption DEF Typed, TypeOK, StoredOK, PositionOK, ModelOK
<1>1. CASE Callers \/ CatchUp \/ CatchUpFails \/ UNCHANGED vars
  <2>1. UNCHANGED <<log, model, startSequence, first, up, disturbed, phase>>
    BY <1>1 DEF Callers, Dispatch, Expire, Abandon, CatchUp, CatchUpFails, vars, stored, position
  <2> QED
    BY <2>1, ModelUntouched
<1>2. CASE BeginRepair \/ RepairFails
  <2>1. /\ UNCHANGED <<log, model, startSequence, first, up, phase>>
        /\ disturbed' = disturbed \/ disturbed' = disturbed \cup {"repaired"}
    BY <1>2 DEF BeginRepair, RepairFails, EndRepair, position
  <2> QED
    BY <2>1 DEF ModelInv, LatenessInv, Complete, model
<1>3. CASE Take
  BY <1>0, <1>3 DEF Take, ModelInv, LatenessInv, PositionInv, Complete, stored, model
<1>4. CASE Start \/ Lookup \/ FailBeforeCommit \/ Reject \/ Resolve \/ RecordRejection
  <2>1. UNCHANGED <<log, model, startSequence, first, up, disturbed>>
    BY <1>4 DEF Start, Lookup, FailBeforeCommit, Reject, Resolve, RecordRejection, stored
  <2>2. phase \notin {"idle", "committed", "failing"} /\ phase' # "committed"
    BY <1>4 DEF Start, Lookup, FailBeforeCommit, Reject, Resolve, RecordRejection
  <2> QED
    BY <2>1, <2>2, ModelUntouched
<1>5. CASE Defer \/ DeferFails \/ DeferDirty \/ Schedule \/ Fork \/ Publish
  <2>1. UNCHANGED <<log, model, startSequence, first, up, disturbed>>
    BY <1>5 DEF Defer, DeferFails, DeferDirty, Schedule, Fork, Publish, stored
  <2>2. phase \notin {"idle", "committed", "failing"} /\ phase' # "committed"
    BY <1>5 DEF Defer, DeferFails, DeferDirty, Schedule, Fork, Publish, NextDeferred
  <2> QED
    BY <2>1, <2>2, ModelUntouched
<1>6. CASE Skip \/ Answer
  BY <1>0, <1>6 DEF Skip, Answer, Finish, ModelInv, LatenessInv, Complete, stored, model
<1>7. CASE Commit
  <2> DEFINE c == commandOf[current]
             end == Len(log) + Len(Decision[c])
  <2>1. /\ Len(log') = end /\ Len(Decision[c]) \in Nat \ {0}
        /\ \A i \in 1..Len(log) : log'[i] = log[i]
    BY <1>7, CommitFacts
  <2>2. /\ commandReadModel' = [i \in 1..end |-> IF i <= Len(log) THEN commandReadModel[i] ELSE 0]
        /\ phase = "decide" /\ phase' = "committed" /\ first' = Len(log) + 1
        /\ cursors' = [cursors EXCEPT !["projects"] = end, !["chat"] = end]
        /\ UNCHANGED <<startSequence, snapshotSequence, up, disturbed>>
    BY <1>7 DEF Commit
  <2>3. LatenessInv'
    BY <2>2 DEF LatenessInv
  <2>4. SUFFICES ASSUME up, "unreconciled" \notin disturbed PROVE ModelInv'
    BY <2>2, <2>3 DEF ModelInv
  <2>5. /\ startSequence = Len(log) /\ snapshotSequence = Len(log) /\ Complete(Len(log))
    BY <2>2, <2>4 DEF ModelInv, PositionInv
  <2>6. Len(log') <= startSequence' + ReadLimit
    <3>1. cursors["summaries"] \in 0..Len(log) /\ "summaries" \in Projectors
      BY DEF Typed, TypeOK, StoredOK, Projectors
    <3>2. cursors'["summaries"] = cursors["summaries"]
      BY <2>2 DEF Typed, TypeOK, StoredOK, Projectors
    <3>3. Len(log') <= cursors'["summaries"] + ReadLimit
      BY <3>1 DEF WithinOnePage
    <3> HIDE DEF end
    <3> QED
      BY <1>0, <2>1, <2>2, <2>5, <3>1, <3>2, <3>3
  <2>7. \A i \in 1..Len(log) : log'[i].kind # "delta" => commandReadModel'[i] = 1
    BY <1>0, <2>1, <2>2, <2>5 DEF Complete
  <2>8. first' - 1 = Len(log) /\ first' # 0
    BY <1>0, <2>2
  <2>9. Complete(first - 1)'
    BY <2>7, <2>8 DEF Complete
  <2> QED
    BY <2>2, <2>5, <2>6, <2>8, <2>9 DEF ModelInv
<1>8. CASE AdvanceModel
  <2>1. /\ commandReadModel' = ProjectedModel(log, commandReadModel, first, Len(log))
        /\ snapshotSequence' = Len(log) /\ phase = "committed" /\ phase' = "deferring"
        /\ UNCHANGED <<log, startSequence, first, up, disturbed>>
    BY <1>8 DEF AdvanceModel, stored
  <2>2. SUFFICES ASSUME up, "unreconciled" \notin disturbed PROVE ModelInv'
    BY <2>1 DEF ModelInv, LatenessInv
  <2>3. Complete(first - 1)
    BY <2>1, <2>2 DEF ModelInv
  <2>4. ASSUME NEW i \in 1..Len(log), log[i].kind # "delta" PROVE commandReadModel'[i] = 1
    <3>1. commandReadModel'[i] = IF i \in first..Len(log) THEN 1 ELSE commandReadModel[i]
      <4>1. /\ first \in Nat
            /\ commandReadModel' = ProjectedModel(log, commandReadModel, first, Len(log))
        BY <1>0, <2>1
      <4> QED
        BY <1>0, <2>4, <4>1, SMT DEF ProjectedModel, Reflect
    <3>2. i < first => i \in 1..(first - 1)
      BY <1>0
    <3> QED
      BY <1>0, <2>3, <2>4, <3>1, <3>2 DEF Complete
  <2> QED
    BY <2>1, <2>2, <2>4 DEF ModelInv, Complete
<1>9. CASE Interrupt \/ Defect
  <2>1. /\ UNCHANGED <<log, model, startSequence, first, up>>
        /\ phase \notin {"idle", "failing"} /\ phase' = "failing"
        /\ disturbed' = disturbed \/ disturbed' = disturbed \cup {"late"}
    BY <1>9 DEF Interrupt, Defect, Cut, InterruptiblePhases, stored
  <2> QED
    BY <2>1 DEF ModelInv, LatenessInv, Complete, model
<1>10. CASE Reconcile
  <2>1. /\ commandReadModel' = ProjectedModel(log, commandReadModel, ReconcileFrom, ReconcileTo)
        /\ snapshotSequence' = IF ReconcileFrom <= ReconcileTo THEN ReconcileTo
                                                               ELSE snapshotSequence
        /\ phase = "failing" /\ phase' = "resolving"
        /\ UNCHANGED <<log, startSequence, first, up, disturbed>>
    BY <1>10 DEF Reconcile, stored
  <2>2. SUFFICES ASSUME up, "unreconciled" \notin disturbed PROVE ModelInv'
    BY <2>1 DEF ModelInv, LatenessInv
  <2>3. /\ startSequence = IF first = 0 THEN Len(log) ELSE first - 1
        /\ Len(log) <= startSequence + ReadLimit
    BY <2>1, <2>2 DEF ModelInv
  <2>4. ReconcileFrom = startSequence + 1 /\ ReconcileTo = Len(log)
    BY <1>0, <2>3 DEF ReconcileFrom, ReconcileTo
  <2>5. Complete(startSequence)
    BY <1>0, <2>1, <2>2, <2>3 DEF ModelInv, Complete
  <2>6. ASSUME NEW i \in 1..Len(log), log[i].kind # "delta" PROVE commandReadModel'[i] = 1
    <3>1. commandReadModel'[i] =
            IF i \in (startSequence + 1)..Len(log) THEN 1 ELSE commandReadModel[i]
      <4>1. /\ startSequence + 1 \in Nat
            /\ commandReadModel' =
                  ProjectedModel(log, commandReadModel, startSequence + 1, Len(log))
        BY <1>0, <2>1, <2>4
      <4> QED
        BY <1>0, <2>6, <4>1, SMT DEF ProjectedModel, Reflect
    <3>2. i <= startSequence => i \in 1..startSequence
      BY <1>0
    <3> QED
      BY <1>0, <2>5, <2>6, <3>1, <3>2 DEF Complete
  <2>7. snapshotSequence' = Len(log)
    <3>1. CASE startSequence < Len(log)
      BY <1>0, <2>1, <2>4, <3>1
    <3>2. CASE startSequence = Len(log)
      BY <1>0, <2>1, <2>2, <2>3, <2>4, <3>2 DEF ModelInv
    <3> QED
      BY <1>0, <3>1, <3>2
  <2> QED
    BY <2>1, <2>2, <2>3, <2>6, <2>7 DEF ModelInv, Complete
<1>11. CASE ReconcileFails
  <2>1. /\ UNCHANGED <<log, model, startSequence, first, up>>
        /\ phase = "failing" /\ phase' = "resolving" /\ up
        /\ disturbed' = IF snapshotSequence < Len(log) THEN disturbed \cup {"unreconciled"}
                                                       ELSE disturbed
    BY <1>11 DEF ReconcileFails, stored
  <2>2. CASE snapshotSequence < Len(log)
    <3>1. "unreconciled" \in disturbed' /\ ModelInv'
      BY <2>1, <2>2 DEF ModelInv
    <3>2. "unreconciled" \notin disturbed => first # 0
      BY <1>0, <2>1, <2>2 DEF ModelInv
    <3>3. "late" \in disturbed
      BY <2>1, <3>2 DEF LatenessInv, PositionInv
    <3> QED
      BY <2>1, <3>1, <3>3 DEF LatenessInv
  <2>3. CASE snapshotSequence = Len(log)
    <3>1. disturbed' = disturbed
      BY <1>0, <2>1, <2>3
    <3>2. ModelInv'
      BY <1>0, <2>1, <2>3, <3>1 DEF ModelInv, Complete, model
    <3> QED
      BY <3>1, <3>2 DEF LatenessInv
  <2> QED
    BY <1>0, <2>2, <2>3
<1>12. CASE RepairSucceeds
  <2>1. /\ UNCHANGED <<log, startSequence, first, up, disturbed, phase>>
        /\ Replay(FullReplay(log, cursors))
        /\ maintenanceLock = "repair"
    BY <1>12 DEF RepairSucceeds, EndRepair, position
  <2>2. phase \in {"idle", "waiting"} /\ phase # "committed"
    BY <2>1 DEF Typed, LockHeld, TypeOK, PositionOK, Phases
  <2>3. CASE UNCHANGED model
    BY <2>1, <2>3, ModelUntouched
  <2>4. CASE /\ commandReadModel' = LoadedModel(log, rows')
             /\ snapshotSequence' = ComputeSnapshotSequence(cursors')
    <3>1. snapshotSequence' = Len(log) /\ Complete(Len(log))'
      BY <2>1, <2>4, LoadsAll, CursorsStep, RowsStep, TypedStep
    <3> QED
      BY <2>1, <2>2, <3>1 DEF ModelInv, LatenessInv
  <2> QED
    BY <1>12, <2>3, <2>4 DEF RepairSucceeds
<1>13. CASE Restart
  <2>1. /\ UNCHANGED <<log, startSequence, first, disturbed, phase>> /\ ~up
        /\ Replay(FullReplay(log, cursors))
        /\ commandReadModel' = LoadedModel(log, rows')
        /\ snapshotSequence' = ComputeSnapshotSequence(cursors')
    BY <1>13 DEF Restart, position
  <2>2. phase = "idle"
    BY <2>1 DEF PositionInv
  <2>3. snapshotSequence' = Len(log) /\ Complete(Len(log))'
    BY <2>1, LoadsAll, CursorsStep, RowsStep, TypedStep
  <2> QED
    BY <2>1, <2>2, <2>3 DEF ModelInv, LatenessInv
<1>14. CASE Crash \/ RestartFails
  <2>1. ~up' /\ UNCHANGED disturbed
    BY <1>14 DEF Crash, RestartFails
  <2> QED
    BY <2>1 DEF ModelInv, LatenessInv
<1> QED
  BY <1>1, <1>2, <1>3, <1>4, <1>5, <1>6, <1>7, <1>8, <1>9, <1>10, <1>11, <1>12, <1>13, <1>14
     DEF Next, Work, Recovery, Background, Maintenance, Process
\* No message text is in the model twice, short of a late interruption, and what has just been
\* committed is not in it yet.
TextInv ==
    up /\ "late" \notin disturbed =>
        /\ \A i \in 1..Len(log) : log[i].kind = "delta" => commandReadModel[i] <= 1
        /\ phase = "committed" => \A i \in first..Len(log) : commandReadModel[i] = 0

\* Steps that leave the model alone and commit nothing.
LEMMA TextUntouched ==
    ASSUME TextInv, UNCHANGED <<log, model, up>>, disturbed \subseteq disturbed',
           phase' # "committed" \/ UNCHANGED <<phase, first>>
    PROVE  TextInv'
BY DEF TextInv, model

LEMMA TextStep ==
    Typed /\ PositionInv /\ ModelInv /\ LatenessInv /\ TextInv /\ [Next]_vars => TextInv'
<1> SUFFICES ASSUME Typed, PositionInv, ModelInv, LatenessInv, TextInv, [Next]_vars
             PROVE  TextInv'
  OBVIOUS
<1>0. /\ Len(log) \in Nat /\ first \in 0..Len(log) /\ startSequence \in 0..Len(log)
      /\ commandReadModel \in [1..Len(log) -> Nat] /\ ReadLimit \in Nat
  BY ReadLimitAssumption DEF Typed, TypeOK, StoredOK, PositionOK, ModelOK
<1>1. CASE Callers \/ CatchUp \/ CatchUpFails \/ BeginRepair \/ RepairFails \/ UNCHANGED vars
  <2>1. UNCHANGED <<log, model, up, phase, first>> /\ disturbed \subseteq disturbed'
    BY <1>1 DEF Callers, Dispatch, Expire, Abandon, CatchUp, CatchUpFails, BeginRepair,
                RepairFails, EndRepair, vars, stored, position
  <2> QED
    BY <2>1, TextUntouched
<1>2. CASE Take \/ Skip \/ Start \/ Lookup \/ FailBeforeCommit \/ Reject \/ Resolve
           \/ RecordRejection \/ Defer \/ DeferFails \/ DeferDirty \/ Schedule \/ Fork
           \/ Publish \/ Answer
  <2>1. UNCHANGED <<log, model, up, disturbed>> /\ phase' # "committed"
    BY <1>2 DEF Take, Skip, Finish, Start, Lookup, FailBeforeCommit, Reject, Resolve,
                RecordRejection, Defer, DeferFails, DeferDirty, Schedule, Fork, Publish, Answer,
                NextDeferred, stored
  <2> QED
    BY <2>1, TextUntouched
<1>3. CASE Interrupt \/ Defect \/ ReconcileFails
  <2>1. /\ UNCHANGED <<log, model, up>> /\ phase' # "committed"
        /\ disturbed \subseteq disturbed'
    BY <1>3 DEF Interrupt, Defect, Cut, ReconcileFails, stored
  <2> QED
    BY <2>1, TextUntouched
<1>4. CASE Commit
  <2> DEFINE end == Len(log) + Len(Decision[commandOf[current]])
  <2>1. /\ Len(log') = end /\ end \in Nat
        /\ \A i \in 1..Len(log) : log'[i] = log[i]
    BY <1>4, CommitFacts
  <2>2. /\ commandReadModel' = [i \in 1..end |-> IF i <= Len(log) THEN commandReadModel[i] ELSE 0]
        /\ first' = Len(log) + 1 /\ UNCHANGED <<up, disturbed>>
    BY <1>4 DEF Commit
  <2> HIDE DEF end
  <2>3. \A i \in 1..end : commandReadModel'[i] = IF i <= Len(log) THEN commandReadModel[i] ELSE 0
    BY <2>2
  <2>4. \A i \in first'..Len(log') : i \in 1..end /\ ~(i <= Len(log))
    BY <1>0, <2>1, <2>2
  <2>5. \A i \in first'..Len(log') : commandReadModel'[i] = 0
    BY <2>3, <2>4
  <2>6. \A i \in 1..Len(log') : i <= Len(log) => i \in 1..Len(log)
    BY <1>0, <2>1
  <2>7. up /\ "late" \notin disturbed =>
          \A i \in 1..Len(log') : log'[i].kind = "delta" => commandReadModel'[i] <= 1
    BY <1>0, <2>1, <2>3, <2>6 DEF TextInv
  <2> QED
    BY <2>2, <2>5, <2>7 DEF TextInv
<1>5. CASE AdvanceModel
  <2>1. /\ commandReadModel' = ProjectedModel(log, commandReadModel, first, Len(log))
        /\ phase = "committed" /\ phase' = "deferring" /\ UNCHANGED <<log, up, disturbed>>
    BY <1>5 DEF AdvanceModel, stored
  <2>2. SUFFICES ASSUME up, "late" \notin disturbed, NEW i \in 1..Len(log), log[i].kind = "delta"
                 PROVE  commandReadModel'[i] <= 1
    BY <2>1 DEF TextInv
  <2>3. commandReadModel[i] \in Nat /\ commandReadModel[i] <= 1
    BY <1>0, <2>2 DEF TextInv
  <2>4. i \in first..Len(log) => commandReadModel[i] = 0
    BY <2>1, <2>2 DEF TextInv
  <2>5. commandReadModel'[i] \in
          {0, 1} \cup (IF i \in first..Len(log) THEN {commandReadModel[i] + 1}
                                                ELSE {commandReadModel[i]})
    BY <2>1, <2>2 DEF ProjectedModel, Reflect
  <2> QED
    BY <2>3, <2>4, <2>5
<1>6. CASE Reconcile
  <2>1. /\ commandReadModel' = ProjectedModel(log, commandReadModel, ReconcileFrom, ReconcileTo)
        /\ phase = "failing" /\ phase' = "resolving" /\ UNCHANGED <<log, up, disturbed>>
    BY <1>6 DEF Reconcile, stored
  <2>2. SUFFICES ASSUME up, "late" \notin disturbed, NEW i \in 1..Len(log), log[i].kind = "delta"
                 PROVE  commandReadModel'[i] <= 1
    BY <2>1 DEF TextInv
  <2>3. ReconcileFrom = Len(log) + 1 /\ ReconcileTo = Len(log)
    BY <1>0, <2>1, <2>2 DEF ModelInv, LatenessInv, PositionInv, ReconcileFrom, ReconcileTo
  <2>4. ReconcileFrom .. ReconcileTo = {}
    BY <1>0, <2>3
  <2>5. commandReadModel'[i] = commandReadModel[i]
    BY <2>1, <2>4 DEF ProjectedModel
  <2> QED
    BY <2>2, <2>5 DEF TextInv
<1>7. CASE RepairSucceeds \/ Restart
  <2>1. /\ UNCHANGED <<log, first, disturbed, phase>>
        /\ \/ commandReadModel' = LoadedModel(log, rows')
           \/ UNCHANGED <<model, up>>
    BY <1>7 DEF RepairSucceeds, Restart, EndRepair, position
  <2>2. phase # "committed"
    BY <1>7 DEF RepairSucceeds, Restart, EndRepair, Typed, LockHeld, PositionInv
  <2>3. CASE UNCHANGED <<model, up>>
    BY <2>1, <2>3, TextUntouched
  <2>4. CASE commandReadModel' = LoadedModel(log, rows')
    <3>1. \A i \in 1..Len(log) : log[i].kind = "delta" => commandReadModel'[i] = 0
      BY <2>4 DEF LoadedModel
    <3> QED
      BY <2>1, <2>2, <3>1 DEF TextInv
  <2> QED
    BY <2>1, <2>3, <2>4
<1>8. CASE Crash \/ RestartFails
  BY <1>8 DEF Crash, RestartFails, TextInv
<1> QED
  BY <1>1, <1>2, <1>3, <1>4, <1>5, <1>6, <1>7, <1>8
     DEF Next, Work, Recovery, Background, Maintenance, Process

-----------------------------------------------------------------------------------
\* What subscribers get.

\* The last event that has been delivered, if any has since the boot.
Announced == IF phase = "publishing" THEN next - 1
             ELSE IF phase \in AfterCommit THEN first - 1 ELSE Len(log)

\* Nothing is delivered that is not stored; short of a late interruption the events come one
\* after the other and end where the worker is in publishing.
StreamInv ==
    /\ \A i \in 1..Len(published) : published[i] <= Len(log)
    /\ "late" \notin disturbed =>
          /\ \A i \in 1..Len(published) - 1 : published[i + 1] = published[i] + 1
          /\ published # <<>> => published[Len(published)] = Announced

LEMMA StreamUntouched ==
    ASSUME StreamInv, UNCHANGED <<log, published>>, disturbed \subseteq disturbed',
           Announced' = Announced \/ "late" \in disturbed'
    PROVE  StreamInv'
BY DEF StreamInv

LEMMA StreamStep ==
    Typed /\ FlagInv /\ PositionInv /\ ModelInv /\ LatenessInv /\ StreamInv /\ [Next]_vars
        => StreamInv'
<1> SUFFICES ASSUME Typed, FlagInv, PositionInv, ModelInv, LatenessInv, StreamInv, [Next]_vars
             PROVE  StreamInv'
  OBVIOUS
<1>0. /\ Len(log) \in Nat /\ first \in 0..Len(log) /\ next \in 0..Len(log)
      /\ startSequence \in 0..Len(log) /\ published \in Seq(Nat) /\ ReadLimit \in Nat
  BY ReadLimitAssumption DEF Typed, TypeOK, StoredOK, PositionOK, ModelOK
<1>1. CASE Callers \/ CatchUp \/ CatchUpFails \/ Maintenance \/ Restart \/ RestartFails
           \/ UNCHANGED vars
  <2>1. UNCHANGED <<log, published, phase, first, next>> /\ disturbed \subseteq disturbed'
    BY <1>1 DEF Callers, Dispatch, Expire, Abandon, CatchUp, CatchUpFails, Maintenance,
                BeginRepair, RepairSucceeds, RepairFails, EndRepair, Restart, RestartFails, vars,
                stored, position
  <2> QED
    BY <2>1, StreamUntouched DEF Announced
<1>2. CASE Take \/ Skip \/ Start \/ Lookup \/ FailBeforeCommit \/ Reject \/ Resolve
           \/ RecordRejection \/ Answer \/ ReconcileFails
  <2>1. UNCHANGED <<log, published>> /\ disturbed \subseteq disturbed'
    BY <1>2 DEF Take, Skip, Start, Lookup, FailBeforeCommit, Reject, Resolve, RecordRejection,
                Answer, ReconcileFails, stored
  <2>2. phase \notin AfterCommit /\ phase' \notin AfterCommit
    BY <1>2 DEF Take, Skip, Start, Lookup, FailBeforeCommit, Reject, Resolve, RecordRejection,
                Answer, ReconcileFails, Finish, AfterCommit
  <2>3. Announced' = Announced
    BY <2>1, <2>2 DEF Announced, AfterCommit
  <2> QED
    BY <2>1, <2>3, StreamUntouched
<1>3. CASE Commit
  <2>1. /\ Len(log') \in Nat /\ Len(log) <= Len(log')
    BY <1>3, CommitFacts
  <2>2. /\ phase = "decide" /\ phase' = "committed" /\ first' = Len(log) + 1
        /\ UNCHANGED <<published, disturbed>>
    BY <1>3 DEF Commit
  <2>3. Announced' = Announced
    BY <1>0, <2>2 DEF Announced, AfterCommit
  <2>4. \A i \in 1..Len(published) : published[i] \in Nat /\ published[i] <= Len(log)
    BY <1>0 DEF StreamInv
  <2>5. \A i \in 1..Len(published) : published[i] <= Len(log')
    BY <1>0, <2>1, <2>4
  <2> QED
    BY <2>2, <2>3, <2>5 DEF StreamInv
<1>4. CASE AdvanceModel \/ Defer \/ DeferFails \/ DeferDirty \/ Schedule \/ Fork
  <2>1. UNCHANGED <<log, published, disturbed, first>>
    BY <1>4 DEF AdvanceModel, Defer, DeferFails, DeferDirty, Schedule, Fork, stored
  <2>2. /\ phase \in AfterCommit \ {"publishing"} /\ phase' \in AfterCommit
        /\ phase' = "publishing" => next' = first
    BY <1>4 DEF AdvanceModel, Defer, DeferFails, DeferDirty, Schedule, Fork, NextDeferred,
                AfterCommit
  <2> QED
    BY <2>1, <2>2, StreamUntouched DEF Announced
<1>5. CASE Publish
  <2>1. /\ published' = Append(published, next) /\ phase = "publishing"
        /\ UNCHANGED <<log, disturbed>>
        /\ IF next < Len(log) THEN next' = next + 1 /\ phase' = phase
                              ELSE phase' = "answering"
    BY <1>5 DEF Publish, stored
  <2>2. Announced = next - 1
    BY <2>1 DEF Announced
  <2>3. Announced' = next
    BY <1>0, <2>1 DEF Announced, AfterCommit
  <2>4. /\ Len(published') = Len(published) + 1 /\ Len(published) \in Nat
        /\ published'[Len(published) + 1] = next
        /\ \A i \in 1..Len(published) : published'[i] = published[i]
    BY <1>0, <2>1
  <2>5. \A i \in 1..Len(published') : published'[i] <= Len(log')
    BY <1>0, <2>1, <2>4 DEF StreamInv
  <2>6. ASSUME "late" \notin disturbed, NEW i \in 1..Len(published') - 1
        PROVE  published'[i + 1] = published'[i] + 1
    <3>1. CASE i < Len(published)
      BY <2>4, <2>6, <3>1 DEF StreamInv
    <3>2. CASE i = Len(published)
      <4>1. published # <<>> /\ published[i] = next - 1
        BY <2>2, <2>4, <2>6, <3>2 DEF StreamInv
      <4> QED
        BY <1>0, <2>4, <2>6, <3>2, <4>1
    <3> QED
      BY <2>4, <2>6, <3>1, <3>2
  <2> QED
    BY <2>1, <2>3, <2>4, <2>5, <2>6 DEF StreamInv
<1>6. CASE Interrupt \/ Defect
  <2>1. /\ UNCHANGED <<log, published, first>> /\ phase' = "failing"
        /\ disturbed' = IF first # 0 THEN disturbed \cup {"late"} ELSE disturbed
    BY <1>6 DEF Interrupt, Defect, Cut, stored
  <2>2. Announced' = Announced \/ "late" \in disturbed'
    BY <2>1 DEF FlagInv, Announced, AfterCommit
  <2> QED
    BY <2>1, <2>2, StreamUntouched
<1>7. CASE Reconcile
  <2> DEFINE more == [i \in 1..(ReconcileTo - startSequence) |-> startSequence + i]
  <2>1. /\ published' = IF ReconcileFrom <= ReconcileTo THEN published \o more ELSE published
        /\ phase = "failing" /\ phase' = "resolving" /\ UNCHANGED <<log, disturbed>> /\ up
    BY <1>7 DEF Reconcile, stored
  <2>2. ReconcileTo \in 0..Len(log) /\ ReconcileFrom = startSequence + 1
    BY <1>0 DEF ReconcileTo, ReconcileFrom
  <2>3. Announced' = Announced
    BY <2>1 DEF Announced, AfterCommit
  <2>4. CASE ~(ReconcileFrom <= ReconcileTo)
    BY <2>1, <2>3, <2>4, StreamUntouched
  <2>5. CASE ReconcileFrom <= ReconcileTo
    <3>1. "late" \in disturbed
      BY <1>0, <2>1, <2>2, <2>5 DEF ModelInv, LatenessInv, PositionInv
    <3>2. more \in Seq(Nat) /\ \A i \in 1..Len(more) : more[i] <= Len(log)
      BY <1>0, <2>2, <2>5
    <3> HIDE DEF more
    <3>3. published' = published \o more
      BY <2>1, <2>5
    <3>4. /\ Len(published') = Len(published) + Len(more)
          /\ \A i \in 1..Len(published) : published'[i] = published[i]
          /\ \A i \in 1..Len(more) : published'[Len(published) + i] = more[i]
      BY <1>0, <3>2, <3>3
    <3>5. ASSUME NEW i \in 1..Len(published') PROVE published'[i] <= Len(log)
      <4>1. CASE i <= Len(published)
        BY <1>0, <3>4, <3>5, <4>1 DEF StreamInv
      <4>2. CASE i > Len(published)
        <5>1. i - Len(published) \in 1..Len(more) /\ i = Len(published) + (i - Len(published))
          BY <1>0, <3>2, <3>4, <3>5, <4>2
        <5> QED
          BY <3>2, <3>4, <5>1
      <4> QED
        BY <1>0, <3>5, <4>1, <4>2
    <3> QED
      BY <2>1, <3>1, <3>5 DEF StreamInv
  <2> QED
    BY <2>4, <2>5
<1>8. CASE Crash
  BY <1>8 DEF Crash, StreamInv
<1> QED
  BY <1>1, <1>2, <1>3, <1>4, <1>5, <1>6, <1>7, <1>8 DEF Next, Work, Recovery, Background, Process
-----------------------------------------------------------------------------------
\* What is created.

Creates(event) == event.kind \in Creations

\* Every event is about an aggregate that was created before it, or by it.
PrecededInv ==
    \A i \in 1..Len(log) : \E j \in 1..i : log[j].of = log[i].of /\ Creates(log[j])

\* requireThreadAbsent, on a model that has every event, sees whatever is in the log.
LEMMA SeesCreated ==
    ASSUME Typed, PositionInv, ModelInv, up, "unreconciled" \notin disturbed, phase = "decide",
           NEW i \in 1..Len(log), Creates(log[i])
    PROVE  Exists(log[i].of)
<1>1. commandReadModel[i] = 1
  BY DEF ModelInv, Complete, Creates, Creations
<1> QED
  BY <1>1 DEF Exists, Creates

\* The events of a commit, one by one.
LEMMA CommittedEvents ==
    ASSUME Typed, Commit
    PROVE  LET c == commandOf[current]
               a == Decision[c][1].of
           IN  /\ a \in Aggregates
               /\ \A i \in Len(log) + 1 .. Len(log') :
                     /\ i - Len(log) \in 1..Len(Decision[c])
                     /\ log'[i].kind = Decision[c][i - Len(log)].kind /\ log'[i].of = a
                     /\ Creates(log'[i]) => i = Len(log) + 1
<1> DEFINE c == commandOf[current]
<1>1. /\ c \in Commands /\ Len(log) \in Nat /\ Len(Decision[c]) \in Nat \ {0}
      /\ Len(log') = Len(log) + Len(Decision[c])
      /\ \A k \in 1..Len(Decision[c]) : log'[Len(log) + k] = EventsOf(c)[k]
  BY CommitFacts
<1>2. \A k \in 1..Len(Decision[c]) :
        EventsOf(c)[k] = [cmd |-> c, kind |-> Decision[c][k].kind, of |-> Decision[c][k].of]
  BY DEF EventsOf
<1>3. \A k \in 1..Len(Decision[c]) :
        /\ Decision[c][k].of = Decision[c][1].of
        /\ k > 1 => Decision[c][k].kind \notin Creations
  BY <1>1, CreationAssumption
<1>4. Decision[c][1].of \in Aggregates
  <2>1. Decision[c] \in Seq(EventBody) /\ 1 \in 1..Len(Decision[c])
    BY <1>1, DecisionAssumption
  <2>2. Decision[c][1] \in EventBody
    BY <2>1
  <2> QED
    BY <2>2 DEF EventBody
<1> HIDE DEF c
<1>5. ASSUME NEW i \in Len(log) + 1 .. Len(log')
      PROVE  /\ i - Len(log) \in 1..Len(Decision[c])
             /\ log'[i].kind = Decision[c][i - Len(log)].kind
             /\ log'[i].of = Decision[c][1].of
             /\ Creates(log'[i]) => i = Len(log) + 1
  <2>1. i - Len(log) \in 1..Len(Decision[c]) /\ Len(log) + (i - Len(log)) = i
    BY <1>1, <1>5
  <2>2. log'[i] = EventsOf(c)[i - Len(log)]
    BY <1>1, <2>1
  <2>3. /\ log'[i].kind = Decision[c][i - Len(log)].kind
        /\ log'[i].of = Decision[c][i - Len(log)].of
    <3>1. PICK k \in 1..Len(Decision[c]) : k = i - Len(log)
      BY <2>1
    <3>2. log'[i] = [cmd |-> c, kind |-> Decision[c][k].kind, of |-> Decision[c][k].of]
      BY <1>2, <2>2, <3>1
    <3> QED
      BY <3>1, <3>2
  <2>4. i - Len(log) > 1 => ~Creates(log'[i])
    BY <1>3, <2>1, <2>3 DEF Creates
  <2> QED
    BY <1>1, <1>3, <2>1, <2>3, <2>4
<1> QED
  BY <1>4, <1>5 DEF c

\* A commit that creates an aggregate finds no event of it in the log.
LEMMA CreatesAnew ==
    ASSUME Typed, PositionInv, ModelInv, PrecededInv, "unreconciled" \notin disturbed, Commit,
           Decision[commandOf[current]][1].kind \in Creations,
           NEW i \in 1..Len(log)
    PROVE  log[i].of # Decision[commandOf[current]][1].of
<1>1. up /\ phase = "decide" /\ ~Exists(Decision[commandOf[current]][1].of)
  BY DEF Commit, Admissible
<1>2. PICK j \in 1..i : log[j].of = log[i].of /\ Creates(log[j])
  BY DEF PrecededInv
<1>3. j \in 1..Len(log)
  BY DEF Typed, TypeOK, StoredOK
<1> QED
  BY <1>1, <1>2, <1>3, SeesCreated

LEMMA PrecededStep == Typed /\ PrecededInv /\ [Next]_vars => PrecededInv'
<1> SUFFICES ASSUME Typed, PrecededInv, [Next]_vars PROVE PrecededInv'
  OBVIOUS
<1>1. CASE log' = log
  BY <1>1 DEF PrecededInv
<1>2. CASE Commit
  <2> DEFINE c == commandOf[current]
             a == Decision[c][1].of
  <2>1. /\ Len(log) \in Nat /\ Len(Decision[c]) \in Nat \ {0}
        /\ Len(log') = Len(log) + Len(Decision[c])
        /\ \A i \in 1..Len(log) : log'[i] = log[i]
    BY <1>2, CommitFacts
  <2>2. \A i \in Len(log) + 1 .. Len(log') :
           log'[i].kind = Decision[c][i - Len(log)].kind /\ log'[i].of = a
    BY <1>2, CommittedEvents
  <2>3. Exists(a) \/ Decision[c][1].kind \in Creations
    BY <1>2 DEF Commit, Admissible
  <2> HIDE DEF c
  <2>4. ASSUME NEW i \in 1..Len(log')
        PROVE  \E j \in 1..i : log'[j].of = log'[i].of /\ Creates(log'[j])
    <3>1. CASE i <= Len(log)
      <4>1. i \in 1..Len(log)
        BY <2>1, <2>4, <3>1
      <4>2. PICK j \in 1..i : log[j].of = log[i].of /\ Creates(log[j])
        BY <4>1 DEF PrecededInv
      <4>3. j \in 1..Len(log)
        BY <2>1, <4>1
      <4> QED
        BY <2>1, <4>1, <4>2, <4>3
    <3>2. CASE i > Len(log)
      <4>1. log'[i].of = a
        BY <2>1, <2>2, <2>4, <3>2
      <4>2. CASE Exists(a)
        <5>1. PICK j \in 1..Len(log) : log[j].of = a /\ Creates(log[j])
          BY <4>2 DEF Exists, Creates
        <5> QED
          BY <2>1, <2>4, <3>2, <4>1, <5>1
      <4>3. CASE Decision[c][1].kind \in Creations
        <5>1. Len(log) + 1 \in Len(log) + 1 .. Len(log') /\ Len(log) + 1 \in 1..i
          BY <2>1, <2>4, <3>2
        <5>2. log'[Len(log) + 1].kind = Decision[c][1].kind /\ log'[Len(log) + 1].of = a
          <6>1. (Len(log) + 1) - Len(log) = 1
            BY <2>1
          <6> QED
            BY <2>2, <5>1, <6>1
        <5> QED
          BY <4>1, <4>3, <5>1, <5>2 DEF Creates
      <4> QED
        BY <2>3, <4>2, <4>3
    <3> QED
      BY <2>1, <2>4, <3>1, <3>2
  <2> QED
    BY <2>4 DEF PrecededInv
<1> QED
  BY <1>1, <1>2
     DEF Next, Callers, Dispatch, Expire, Abandon, Work, Take, Skip, Start, Lookup,
         FailBeforeCommit, Reject, AdvanceModel, Defer, DeferFails, DeferDirty, Schedule, Fork,
         Publish, Answer, Recovery, Interrupt, Defect, Cut, Reconcile, ReconcileFails, Resolve,
         RecordRejection, Background, CatchUp, CatchUpFails, Maintenance, BeginRepair,
         RepairSucceeds, RepairFails, EndRepair, Process, Crash, Restart, RestartFails, vars,
         stored

LEMMA CreatedStep ==
    Typed /\ PositionInv /\ ModelInv /\ PrecededInv /\ CreatedOnce /\ [Next]_vars => CreatedOnce'
<1> SUFFICES ASSUME Typed, PositionInv, ModelInv, PrecededInv, CreatedOnce, [Next]_vars
             PROVE  CreatedOnce'
  OBVIOUS
<1>1. CASE log' = log /\ disturbed \subseteq disturbed'
  BY <1>1 DEF CreatedOnce
<1>2. CASE Commit
  <2> DEFINE c == commandOf[current]
             a == Decision[c][1].of
             n == Len(log) + 1
  <2>1. /\ Len(log) \in Nat /\ Len(log') \in Nat /\ Len(log) < Len(log')
        /\ \A i \in 1..Len(log) : log'[i] = log[i]
    BY <1>2, CommitFacts
  <2>2. \A i \in n .. Len(log') :
           /\ log'[i].kind = Decision[c][i - Len(log)].kind /\ log'[i].of = a
           /\ Creates(log'[i]) => i = n
    BY <1>2, CommittedEvents
  <2>3. UNCHANGED disturbed
    BY <1>2 DEF Commit
  <2>4. SUFFICES ASSUME "unreconciled" \notin disturbed,
                        NEW i \in 1..Len(log'), NEW j \in 1..Len(log'),
                        log'[i].of = log'[j].of, Creates(log'[i]), Creates(log'[j])
                 PROVE  i = j
    BY <2>3 DEF CreatedOnce, Creates
  <2>5. ASSUME NEW k \in n .. Len(log'), Creates(log'[k]), NEW m \in 1..Len(log)
        PROVE  log[m].of # log'[k].of
    <3>1. k = n /\ n - Len(log) = 1 /\ log'[k].of = a
      BY <2>1, <2>2, <2>5
    <3>2. log'[k].kind = Decision[c][1].kind
      BY <2>2, <2>5, <3>1
    <3>3. Decision[c][1].kind \in Creations
      BY <2>5, <3>2 DEF Creates
    <3> QED
      BY <1>2, <2>4, <3>1, <3>3, CreatesAnew
  <2>6. CASE i <= Len(log) /\ j <= Len(log)
    <3>1. i \in 1..Len(log) /\ j \in 1..Len(log) /\ log'[i] = log[i] /\ log'[j] = log[j]
      BY <2>1, <2>4, <2>6
    <3> QED
      BY <2>4, <3>1 DEF CreatedOnce, Creates
  <2>7. CASE i <= Len(log) /\ j > Len(log)
    <3>1. i \in 1..Len(log) /\ j \in n .. Len(log') /\ log'[i] = log[i]
      BY <2>1, <2>4, <2>7
    <3> HIDE DEF n
    <3> QED
      BY <2>4, <2>5, <3>1
  <2>8. CASE i > Len(log) /\ j <= Len(log)
    <3>1. j \in 1..Len(log) /\ i \in n .. Len(log') /\ log'[j] = log[j]
      BY <2>1, <2>4, <2>8
    <3> HIDE DEF n
    <3> QED
      BY <2>4, <2>5, <3>1
  <2>9. CASE i > Len(log) /\ j > Len(log)
    <3>1. i \in n .. Len(log') /\ j \in n .. Len(log')
      BY <2>1, <2>4, <2>9
    <3> HIDE DEF n
    <3> QED
      BY <2>2, <2>4, <3>1
  <2> QED
    BY <2>1, <2>4, <2>6, <2>7, <2>8, <2>9
<1> QED
  BY <1>1, <1>2
     DEF Next, Callers, Dispatch, Expire, Abandon, Work, Take, Skip, Start, Lookup,
         FailBeforeCommit, Reject, AdvanceModel, Defer, DeferFails, DeferDirty, Schedule, Fork,
         Publish, Answer, Recovery, Interrupt, Defect, Cut, Reconcile, ReconcileFails, Resolve,
         RecordRejection, Background, CatchUp, CatchUpFails, Maintenance, BeginRepair,
         RepairSucceeds, RepairFails, EndRepair, Process, Crash, Restart, RestartFails, vars,
         stored
-----------------------------------------------------------------------------------
\* The deferred summaries.

Undisturbed == disturbed \cap {"late", "repaired"} = {}

\* Committed and not yet deferred.
Pending(i) == (phase = "committed" /\ first <= i) \/ (phase = "deferring" /\ next <= i)

\* Short of repairs the chat cursor is at the end of the log even in a process that is down.
ChatInv == "repaired" \notin disturbed => cursors["chat"] = Len(log)

\* The summaries have what the deferred cursor has passed; and as long as nothing is dirty they
\* have every event but those the worker is about to defer.
SummaryInv ==
    Undisturbed =>
        /\ \A t \in Aggregates : Summarised(t)
        /\ up /\ ~dirty =>
              \A i \in 1..Len(log) : ShouldRefreshSummary(log[i]) =>
                  Pending(i) \/ i <= summaryAt[log[i].of]

\* An event is about an aggregate.
LEMMA EventOf == ASSUME Typed, NEW i \in 1..Len(log) PROVE log[i].of \in Aggregates
<1>1. log \in Seq(Event)
  BY DEF Typed, TypeOK, StoredOK
<1>2. log[i] \in Event
  BY <1>1
<1> QED
  BY <1>2 DEF Event

LEMMA ChatStep == Typed /\ PositionInv /\ ChatInv /\ [Next]_vars => ChatInv'
<1> SUFFICES ASSUME Typed, PositionInv, ChatInv, [Next]_vars PROVE ChatInv'
  OBVIOUS
<1>0. /\ Len(log) \in Nat /\ cursors \in [Projectors -> 0..Len(log)] /\ "chat" \in Projectors
  BY DEF Typed, TypeOK, StoredOK, Projectors
<1>1. CASE UNCHANGED <<log, cursors>> /\ disturbed \subseteq disturbed'
  BY <1>1 DEF ChatInv
<1>2. CASE Callers \/ Take \/ Skip \/ Start \/ Lookup \/ FailBeforeCommit \/ Reject
           \/ AdvanceModel \/ DeferFails \/ DeferDirty \/ Schedule \/ Fork \/ Publish \/ Answer
           \/ Recovery \/ Crash \/ UNCHANGED vars
  BY <1>1, <1>2
     DEF Callers, Dispatch, Expire, Abandon, Take, Skip, Start, Lookup, FailBeforeCommit, Reject,
         AdvanceModel, DeferFails, DeferDirty, Schedule, Fork, Publish, Answer, Recovery,
         Interrupt, Defect, Cut, Reconcile, ReconcileFails, Resolve, RecordRejection, Crash, vars,
         stored
<1>3. CASE Commit
  <2> DEFINE end == Len(log) + Len(Decision[commandOf[current]])
  <2>1. /\ cursors' = [cursors EXCEPT !["projects"] = end, !["chat"] = end] /\ Len(log') = end
    BY <1>3, CommitFacts DEF Commit
  <2> HIDE DEF end
  <2> QED
    BY <1>0, <2>1 DEF ChatInv
<1>4. CASE Defer
  <2>1. /\ cursors' = cursors \/ cursors' = [cursors EXCEPT !["summaries"] = next]
        /\ UNCHANGED <<log, disturbed>>
    BY <1>4 DEF Defer
  <2> QED
    BY <1>0, <2>1 DEF ChatInv
<1>5. CASE CatchUp \/ CatchUpFails \/ Restart \/ RestartFails
  <2>1. /\ cursors' = FullReplay(log, cursors) \/ cursors' \in PartialReplays(log, cursors)
        /\ UNCHANGED <<log, disturbed>>
    BY <1>5 DEF CatchUp, CatchUpFails, Restart, RestartFails, Replay
  <2> QED
    BY <1>0, <2>1, StaysAtTheEnd DEF ChatInv
<1>6. CASE Maintenance
  BY <1>6 DEF Maintenance, BeginRepair, RepairSucceeds, RepairFails, EndRepair, PositionInv, ChatInv
<1> QED
  BY <1>2, <1>3, <1>4, <1>5, <1>6 DEF Next, Work, Background, Process

\* A replay that has no thread to create again recomputes the summaries of what it passes, and
\* keeps the others.
LEMMA ReplaySummarises ==
    ASSUME Typed, NEW to \in [Projectors -> 0..Len(log)], Replay(to),
           to["chat"] = cursors["chat"], log' = log,
           NEW t \in Aggregates
    PROVE  /\ summaryAt'[t] \in {summaryAt[t], Len(log)}
           /\ Summarised(t) => Summarised(t)'
<1>0. /\ Len(log) \in Nat /\ cursors["chat"] \in Nat /\ cursors["summaries"] \in Nat
      /\ to["summaries"] \in 0..Len(log) /\ summaryAt[t] \in 0..Len(log)
  BY DEF Typed, TypeOK, StoredOK, Projectors
<1>1. to["chat"] \in Nat /\ cursors["chat"] + 1 .. to["chat"] = {}
  BY <1>0
<1>2. summaryAt'[t] = IF \E i \in cursors["summaries"] + 1 .. to["summaries"] :
                            ShouldRefreshSummary(log[i]) /\ log[i].of = t
                      THEN Len(log) ELSE summaryAt[t]
  BY <1>1 DEF Replay, ReplayedSummaries
<1>3. summaryAt'[t] \in {summaryAt[t], Len(log)} /\ summaryAt[t] <= summaryAt'[t]
  BY <1>0, <1>2
<1>4. ASSUME Summarised(t), NEW i \in 1..to["summaries"], log[i].of = t,
             ShouldRefreshSummary(log[i])
      PROVE  i <= summaryAt'[t]
  <2>1. CASE i <= cursors["summaries"]
    <3>1. i \in 1..cursors["summaries"]
      BY <1>0, <2>1
    <3>2. i <= summaryAt[t]
      BY <1>4, <3>1 DEF Summarised
    <3> QED
      BY <1>0, <1>3, <3>2
  <2>2. CASE i > cursors["summaries"]
    <3>1. i \in cursors["summaries"] + 1 .. to["summaries"]
      BY <1>0, <2>2
    <3>2. summaryAt'[t] = Len(log)
      BY <1>2, <1>4, <3>1
    <3> QED
      BY <1>0, <3>2
  <2> QED
    BY <1>0, <2>1, <2>2
<1>5. cursors' = to
  BY DEF Replay
<1> QED
  BY <1>3, <1>4, <1>5 DEF Summarised

LEMMA SummaryStep ==
    Typed /\ WithinOnePage /\ FlagInv /\ PositionInv /\ ModelInv /\ LatenessInv /\ PrecededInv
          /\ ChatInv /\ SummaryInv /\ [Next]_vars => SummaryInv'
<1> SUFFICES ASSUME Typed, WithinOnePage, FlagInv, PositionInv, ModelInv, LatenessInv,
                    PrecededInv, ChatInv, SummaryInv, [Next]_vars
             PROVE  SummaryInv'
  OBVIOUS
<1>0. /\ Len(log) \in Nat /\ first \in 0..Len(log) /\ next \in 0..Len(log)
      /\ cursors \in [Projectors -> 0..Len(log)] /\ summaryAt \in [Aggregates -> 0..Len(log)]
      /\ dirty \in BOOLEAN /\ cursors["summaries"] \in 0..Len(log) /\ "summaries" \in Projectors
  BY DEF Typed, TypeOK, StoredOK, PositionOK, ControlOK, Projectors
<1>1. \A i \in 1..Len(log) : log[i].of \in Aggregates
  BY EventOf
<1>2. CASE /\ UNCHANGED <<log, cursors, summaryAt>> /\ disturbed \subseteq disturbed'
           /\ \/ UNCHANGED <<up, dirty, phase, first, next>>
              \/ dirty'
              \/ ~up'
              \/ phase \notin {"committed", "deferring"} /\ UNCHANGED <<up, dirty>>
  <2> SUFFICES ASSUME Undisturbed' PROVE SummaryInv'
    BY DEF SummaryInv
  <2>1. Undisturbed
    BY <1>2 DEF Undisturbed
  <2>2. \A t \in Aggregates : Summarised(t)'
    BY <1>2, <2>1 DEF SummaryInv, Summarised
  <2> QED
    BY <1>2, <2>1, <2>2 DEF SummaryInv, Pending
<1>3. CASE Callers \/ Take \/ Skip \/ Start \/ Lookup \/ FailBeforeCommit \/ Reject \/ Publish
           \/ Answer \/ Reconcile \/ ReconcileFails \/ Resolve \/ RecordRejection \/ Crash
           \/ UNCHANGED vars
  <2>1. UNCHANGED <<log, cursors, summaryAt>> /\ disturbed \subseteq disturbed'
    BY <1>3 DEF Callers, Dispatch, Expire, Abandon, Take, Skip, Start, Lookup, FailBeforeCommit,
                Reject, Publish, Answer, Reconcile, ReconcileFails, Resolve, RecordRejection,
                Crash, vars, stored
  <2>2. \/ UNCHANGED <<up, dirty, phase, first, next>>
        \/ ~up'
        \/ phase \notin {"committed", "deferring"} /\ UNCHANGED <<up, dirty>>
    BY <1>3 DEF Callers, Dispatch, Expire, Abandon, Take, Skip, Start, Lookup, FailBeforeCommit,
                Reject, Publish, Answer, Reconcile, ReconcileFails, Resolve, RecordRejection,
                Crash, vars, position, deferral
  <2> QED
    BY <1>2, <2>1, <2>2
<1>4. CASE DeferFails \/ DeferDirty \/ Schedule \/ Fork
  <2>1. UNCHANGED <<log, cursors, summaryAt, disturbed>>
    BY <1>4 DEF DeferFails, DeferDirty, Schedule, Fork, stored
  <2>2. dirty'
    BY <1>4 DEF DeferFails, DeferDirty, NeedsCatchUp, Schedule, Fork, PositionInv, deferral
  <2> QED
    BY <1>2, <2>1, <2>2
<1>5. CASE AdvanceModel
  <2>1. /\ UNCHANGED <<log, cursors, summaryAt, disturbed, up, dirty>>
        /\ phase = "committed" /\ phase' = "deferring" /\ next' = first
    BY <1>5 DEF AdvanceModel, stored, deferral
  <2>2. \A i \in 1..Len(log) : Pending(i) => Pending(i)'
    BY <2>1 DEF Pending
  <2>3. \A t \in Aggregates : Summarised(t) => Summarised(t)'
    BY <2>1 DEF Summarised
  <2> QED
    BY <2>1, <2>2, <2>3 DEF SummaryInv, Undisturbed
<1>6. CASE Interrupt \/ Defect
  <2>1. /\ UNCHANGED <<log, cursors, summaryAt, up, dirty>>
        /\ disturbed' = IF first # 0 THEN disturbed \cup {"late"} ELSE disturbed
    BY <1>6 DEF Interrupt, Defect, Cut, stored, deferral
  <2>2. CASE first # 0
    BY <2>1, <2>2 DEF SummaryInv, Undisturbed
  <2>3. CASE first = 0
    <3>1. phase \notin {"committed", "deferring"}
      BY <2>3 DEF FlagInv, AfterCommit
    <3> QED
      BY <1>2, <2>1, <2>3, <3>1
  <2> QED
    BY <2>2, <2>3
<1>7. CASE Commit
  <2> DEFINE c == commandOf[current]
             a == Decision[c][1].of
             created(t) == [kind |-> "created", of |-> t] \in
                              {Decision[c][i] : i \in 1..Len(Decision[c])}
  <2>1. /\ c \in Commands /\ Len(log') \in Nat /\ Len(log) < Len(log')
        /\ \A i \in 1..Len(log) : log'[i] = log[i]
    BY <1>7, CommitFacts
  <2>2. /\ summaryAt' = [t \in Aggregates |-> IF created(t) THEN 0 ELSE summaryAt[t]]
        /\ first' = Len(log) + 1 /\ phase = "decide" /\ phase' = "committed"
        /\ UNCHANGED <<disturbed, up, dirty>>
        /\ cursors'["summaries"] = cursors["summaries"]
    BY <1>0, <1>7 DEF Commit, deferral
  <2>3. SUFFICES ASSUME Undisturbed PROVE SummaryInv'
    BY <2>2 DEF SummaryInv, Undisturbed
  <2>4. ASSUME NEW t \in Aggregates, created(t), NEW i \in 1..Len(log) PROVE log[i].of # t
    <3>1. PICK k \in 1..Len(Decision[c]) : Decision[c][k] = [kind |-> "created", of |-> t]
      BY <2>4
    <3>2. Decision[c][k].kind = "created" /\ Decision[c][k].of = t
      BY <3>1
    <3>3. k = 1
      <4>1. Decision[c][k].kind \in Creations
        BY <3>2 DEF Creations
      <4>2. ~(k > 1)
        BY <2>1, <4>1, CreationAssumption
      <4>3. Len(Decision[c]) \in Nat
        BY <1>7, CommitFacts
      <4> QED
        BY <4>2, <4>3
    <3>4. Decision[c][1].kind \in Creations /\ a = t
      BY <3>2, <3>3 DEF Creations
    <3>5. "unreconciled" \notin disturbed
      BY <2>3 DEF Undisturbed, LatenessInv
    <3> QED
      BY <1>7, <3>4, <3>5, CreatesAnew
  <2> HIDE DEF created
  <2>5. ASSUME NEW t \in Aggregates PROVE Summarised(t)'
    <3>1. SUFFICES ASSUME NEW i \in 1..cursors["summaries"],
                          log'[i].of = t, ShouldRefreshSummary(log'[i])
                   PROVE  i <= summaryAt'[t]
      BY <2>2 DEF Summarised
    <3>2. i \in 1..Len(log) /\ log'[i] = log[i]
      BY <1>0, <2>1
    <3>3. ~created(t)
      BY <2>4, <3>1, <3>2
    <3> QED
      BY <2>2, <2>3, <3>1, <3>2, <3>3 DEF SummaryInv, Summarised
  <2>6. ASSUME up, ~dirty, NEW i \in 1..Len(log'), ShouldRefreshSummary(log'[i])
        PROVE  Pending(i)' \/ i <= summaryAt'[log'[i].of]
    <3>1. CASE i > Len(log)
      BY <1>0, <2>1, <2>2, <2>6, <3>1 DEF Pending
    <3>2. CASE i <= Len(log)
      <4>1. i \in 1..Len(log) /\ log'[i] = log[i]
        BY <2>1, <2>6, <3>2
      <4>2. ~created(log[i].of) /\ log[i].of \in Aggregates
        BY <1>1, <2>4, <4>1
      <4>3. i <= summaryAt[log[i].of]
        BY <2>2, <2>3, <2>6, <4>1 DEF SummaryInv, Pending
      <4> QED
        BY <2>2, <4>1, <4>2, <4>3
    <3> QED
      BY <1>0, <2>1, <2>6, <3>1, <3>2
  <2> QED
    BY <2>2, <2>5, <2>6 DEF SummaryInv
<1>8. CASE Defer
  <2>1. /\ UNCHANGED <<log, disturbed, up, dirty>> /\ up /\ phase = "deferring"
        /\ ~(dirty /\ log[next].kind # "project")
        /\ IF ShouldRefreshSummary(log[next])
           THEN /\ summaryAt' = [summaryAt EXCEPT ![log[next].of] = Len(log)]
                /\ cursors' = [cursors EXCEPT !["summaries"] = next]
           ELSE UNCHANGED <<summaryAt, cursors>>
        /\ IF next < Len(log) THEN phase' = "deferring" /\ next' = next + 1
                              ELSE phase' = "publishing"
    BY <1>8 DEF Defer, NeedsCatchUp, NextDeferred, deferral
  <2>2. SUFFICES ASSUME Undisturbed PROVE SummaryInv'
    BY <2>1 DEF SummaryInv, Undisturbed
  <2>3. next \in 1..Len(log)
    BY <1>0, <2>1 DEF PositionInv, FlagInv, AfterCommit
  <2>4. \A i \in 1..Len(log) : Pending(i) => i = next \/ Pending(i)'
    BY <1>0, <2>1 DEF Pending
  <2>5. CASE ShouldRefreshSummary(log[next])
    <3>1. ~dirty
      BY <2>1, <2>5 DEF ShouldRefreshSummary
    <3>2. \A t \in Aggregates : summaryAt'[t] = IF log[next].of = t THEN Len(log) ELSE summaryAt[t]
      BY <1>0, <2>1, <2>5
    <3>3. \A i \in 1..Len(log) : ShouldRefreshSummary(log[i]) =>
             Pending(i)' \/ i <= summaryAt'[log[i].of]
      <4> TAKE i \in 1..Len(log)
      <4> HAVE ShouldRefreshSummary(log[i])
      <4>1. log[i].of \in Aggregates
        BY <1>1
      <4>2. CASE log[i].of = log[next].of
        BY <1>0, <3>2, <4>1, <4>2
      <4>3. CASE log[i].of # log[next].of
        <5>1. summaryAt'[log[i].of] = summaryAt[log[i].of] /\ i # next
          BY <3>2, <4>1, <4>3
        <5>2. Pending(i) \/ i <= summaryAt[log[i].of]
          BY <2>1, <2>2, <3>1 DEF SummaryInv
        <5> QED
          BY <2>4, <5>1, <5>2
      <4> QED
        BY <4>2, <4>3
    <3>4. cursors'["summaries"] = next
      BY <1>0, <2>1, <2>5
    <3>5. ASSUME NEW t \in Aggregates, NEW i \in 1..next, log[i].of = t,
                 ShouldRefreshSummary(log[i])
          PROVE  i <= summaryAt'[t]
      <4>1. i \in 1..Len(log)
        BY <1>0
      <4>2. CASE log[next].of = t
        BY <1>0, <3>2, <4>1, <4>2
      <4>3. CASE log[next].of # t
        <5>1. i # next /\ ~Pending(i)
          BY <1>0, <2>1, <3>5, <4>3 DEF Pending
        <5>2. i <= summaryAt[t]
          BY <2>1, <2>2, <3>1, <3>5, <4>1, <5>1 DEF SummaryInv
        <5> QED
          BY <3>2, <4>3, <5>2
      <4> QED
        BY <4>2, <4>3
    <3> QED
      BY <2>1, <3>3, <3>4, <3>5 DEF SummaryInv, Summarised
  <2>6. CASE ~ShouldRefreshSummary(log[next])
    <3>1. UNCHANGED <<summaryAt, cursors>>
      BY <2>1, <2>6
    <3>2. \A t \in Aggregates : Summarised(t)'
      BY <2>1, <2>2, <3>1 DEF SummaryInv, Summarised
    <3> QED
      BY <2>1, <2>2, <2>4, <2>6, <3>1, <3>2 DEF SummaryInv
  <2> QED
    BY <2>5, <2>6
<1>9. CASE CatchUp \/ Restart
  <2>1. /\ Replay(FullReplay(log, cursors)) /\ UNCHANGED <<log, disturbed>>
    BY <1>9 DEF CatchUp, Restart
  <2>2. SUFFICES ASSUME Undisturbed PROVE SummaryInv'
    BY <2>1 DEF SummaryInv, Undisturbed
  <2>3. FullReplay(log, cursors) = [p \in Projectors |-> Len(log)]
    BY ReachesTheEnd
  <2> DEFINE to == FullReplay(log, cursors)
  <2>4. /\ to \in [Projectors -> 0..Len(log)] /\ to["chat"] = cursors["chat"]
        /\ to["summaries"] = Len(log)
    BY <1>0, <2>2, <2>3 DEF ChatInv, Undisturbed, Projectors
  <2> HIDE DEF to
  <2>5. Replay(to)
    BY <2>1 DEF to
  <2>6. \A t \in Aggregates : Summarised(t)'
    BY <2>1, <2>2, <2>4, <2>5, ReplaySummarises DEF SummaryInv
  <2>7. cursors'["summaries"] = Len(log)
    BY <2>4, <2>5 DEF Replay
  <2>8. \A i \in 1..Len(log) : ShouldRefreshSummary(log[i]) => i <= summaryAt'[log[i].of]
    BY <1>1, <2>1, <2>6, <2>7 DEF Summarised
  <2> QED
    BY <2>1, <2>6, <2>8 DEF SummaryInv
<1>10. CASE CatchUpFails \/ RestartFails
  <2>1. PICK to \in PartialReplays(log, cursors) : Replay(to)
    BY <1>10 DEF CatchUpFails, RestartFails
  <2>2. UNCHANGED <<log, disturbed, up, dirty, phase, first, next>>
    BY <1>10 DEF CatchUpFails, RestartFails, position, deferral
  <2>3. SUFFICES ASSUME Undisturbed PROVE SummaryInv'
    BY <2>2 DEF SummaryInv, Undisturbed
  <2>4. to \in [Projectors -> 0..Len(log)]
    BY <1>0, <2>1, PartialReplayType
  <2>5. to["chat"] = cursors["chat"]
    BY <1>0, <2>1, <2>3, StaysAtTheEnd DEF ChatInv, Undisturbed, Projectors
  <2>6. \A t \in Aggregates : Summarised(t)' /\ summaryAt'[t] \in {summaryAt[t], Len(log)}
    BY <2>1, <2>2, <2>3, <2>4, <2>5, ReplaySummarises DEF SummaryInv
  <2>7. ASSUME up, ~dirty, NEW i \in 1..Len(log), ShouldRefreshSummary(log[i])
        PROVE  Pending(i)' \/ i <= summaryAt'[log[i].of]
    <3>1. Pending(i) \/ i <= summaryAt[log[i].of]
      BY <2>3, <2>7 DEF SummaryInv
    <3>2. Pending(i) => Pending(i)'
      BY <2>2 DEF Pending
    <3>3. summaryAt'[log[i].of] \in {summaryAt[log[i].of], Len(log)}
      BY <1>1, <2>6, <2>7
    <3> QED
      BY <1>0, <3>1, <3>2, <3>3
  <2> QED
    BY <2>2, <2>6, <2>7 DEF SummaryInv
<1>11. CASE Maintenance
  BY <1>11 DEF Maintenance, BeginRepair, RepairSucceeds, RepairFails, EndRepair, PositionInv,
               SummaryInv, Undisturbed
<1> QED
  BY <1>3, <1>4, <1>5, <1>6, <1>7, <1>8, <1>9, <1>10, <1>11
     DEF Next, Work, Recovery, Background, Process

-----------------------------------------------------------------------------------
\* The invariant, and what it says of the engine.

EngineInv ==
    /\ FlagInv /\ PositionInv /\ CursorsInv /\ RowsInv /\ ModelInv /\ LatenessInv /\ TextInv
    /\ StreamInv /\ PrecededInv /\ CreatedOnce /\ ChatInv /\ SummaryInv

\* The first boot finds tables and a model that are up to date.
LEMMA InitEngineInv == Init => EngineInv
<1> SUFFICES ASSUME Init PROVE EngineInv
  OBVIOUS
<1>1. Typed
  BY InitTyped
<1>2. /\ log = History /\ cursors = UpToDate /\ rows = [i \in 1..Len(log) |-> 1]
      /\ summaryAt = [t \in Aggregates |-> Len(log)]
      /\ phase = "idle" /\ first = 0 /\ next = 0 /\ maintenanceLock = "free"
      /\ commandReadModel = LoadedModel(log, rows) /\ snapshotSequence = Len(log)
      /\ ~dirty /\ ~inFlight /\ ~catchUp /\ published = <<>> /\ up /\ disturbed = {}
  BY DEF Init
<1>3. FlagInv /\ PositionInv /\ LatenessInv
  BY <1>2 DEF FlagInv, PositionInv, LatenessInv, AfterCommit
<1>4. CursorsInv /\ ChatInv
  BY <1>2 DEF CursorsInv, ChatInv, UpToDate, Projectors
<1>5. RowsInv
  BY <1>2 DEF RowsInv, Shown
<1>6. \A i \in 1..Len(log) : commandReadModel[i] = IF log[i].kind = "delta" THEN 0 ELSE 1
  BY <1>2 DEF LoadedModel
<1>7. ModelInv /\ TextInv
  <2>1. Complete(Len(log))
    BY <1>6 DEF Complete
  <2>2. \A i \in 1..Len(log) : commandReadModel[i] <= 1
    BY <1>6
  <2> QED
    BY <1>2, <2>1, <2>2 DEF ModelInv, TextInv
<1>8. StreamInv
  BY <1>2 DEF StreamInv
<1>9. PrecededInv
  BY <1>2, CreatedPastAssumption DEF PrecededInv, Creates
<1>10. CreatedOnce
  BY <1>2, CreatedPastAssumption DEF CreatedOnce
<1>11. SummaryInv
  <2>1. /\ Len(log) \in Nat /\ cursors["summaries"] = Len(log)
    BY <1>1, <1>2 DEF UpToDate, Projectors, Typed, TypeOK, StoredOK
  <2>2. \A i \in 1..Len(log) : log[i].of \in Aggregates
    BY <1>1, EventOf
  <2>3. \A t \in Aggregates : summaryAt[t] = Len(log)
    BY <1>2
  <2> QED
    BY <2>1, <2>2, <2>3 DEF SummaryInv, Summarised
<1> QED
  BY <1>3, <1>4, <1>5, <1>7, <1>8, <1>9, <1>10, <1>11 DEF EngineInv

LEMMA EngineStep ==
    Typed /\ WithinOnePage /\ WithinOnePage' /\ EngineInv /\ [Next]_vars => EngineInv'
BY FlagStep, PositionStep, CursorsStep, RowsStep, ModelStep, TextStep, StreamStep, PrecededStep,
   CreatedStep, ChatStep, SummaryStep DEF EngineInv

LEMMA AlwaysEngineInv == Spec /\ []WithinOnePage => []EngineInv
BY InitEngineInv, EngineStep, AlwaysTyped, PTL DEF Spec

\* Whenever the lock is free the decider's model has every stored event exactly once and no text
\* twice, through faults, crashes and repairs, as long as no interruption strikes after a commit
\* and every replay fits a page.
THEOREM ModelIsTheLog == Spec /\ []WithinOnePage => []ModelFollowsLog
<1>1. Typed /\ EngineInv => ModelFollowsLog
  BY DEF Typed, LockHeld, EngineInv, ModelInv, TextInv, Complete, ModelFollowsLog, Quiet
<1> QED
  BY <1>1, AlwaysEngineInv, AlwaysTyped, PTL

\* No thread or project is created twice, though the decider never looks at the tables, even
\* after a deadline that strikes between a commit and its answer.
THEOREM NothingCreatedTwice == Spec /\ []WithinOnePage => []CreatedOnce
<1>1. EngineInv => CreatedOnce
  BY DEF EngineInv
<1> QED
  BY <1>1, AlwaysEngineInv, PTL

\* Subscribers get every stored event once and in order, and before its caller is answered.
THEOREM StreamIsTheLog == Spec /\ []WithinOnePage => []PublishedOnce
<1>1. EngineInv => PublishedOnce
  BY DEF EngineInv, StreamInv, PublishedOnce, Announced, AfterCommit
<1> QED
  BY <1>1, AlwaysEngineInv, PTL

\* No later event carries the deferred cursor over one whose summary failed.
THEOREM NoSummarySkipped == Spec /\ []WithinOnePage => []SummariesNotSkipped
<1>1. EngineInv => SummariesNotSkipped
  BY DEF EngineInv, SummaryInv, Undisturbed, SummariesNotSkipped
<1> QED
  BY <1>1, AlwaysEngineInv, PTL
=====================================================================================
