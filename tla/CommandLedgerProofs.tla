----------------------------- MODULE CommandLedgerProofs -----------------------------
(***************************************************************************)
(* The command engine implements CommandLedger, for every value of the     *)
(* constants: a command is executed at most once and its receipt says      *)
(* where, nothing runs for a dispatch that has its answer, and no answer   *)
(* contradicts what became of the command. Nor is a caller forgotten.      *)
(*                                                                         *)
(* The inductive invariant has three parts beyond the types: what an       *)
(* envelope's executionState says of its reply and of the queue, what the  *)
(* worker's position says of the receipt of its command, and that the      *)
(* receipts match the log.                                                 *)
(***************************************************************************)
EXTENDS OrchestrationEngineProofs

-----------------------------------------------------------------------------------
\* The inductive invariant.

\* An envelope is queued once, and a queued envelope has not started; one that nobody
\* started or abandoned has no reply.
QueueOK ==
    /\ \A i \in 1..Len(commandQueue) : executionState[commandQueue[i]] \in {"queued", "abandoned"}
    /\ \A i, j \in 1..Len(commandQueue) : commandQueue[i] = commandQueue[j] => i = j
    /\ \A i \in 1..Len(commandQueue) : commandQueue[i] # current
    /\ \A d \in Dispatches : executionState[d] \in {"unused", "queued"} => reply[d] = Plain(None)

\* The envelope the worker holds: not started before it has the lock, unanswered after.
EnvelopeOK ==
    /\ phase = "waiting" => executionState[current] \in {"queued", "abandoned"}
    /\ phase \notin {"idle", "waiting"} =>
          executionState[current] = "in-flight" /\ reply[current] = Plain(None)

\* The receipt of the command in hand: none until it commits or is refused, the last sequence
\* of the log once it has committed.
ReceiptOK ==
    /\ \A c \in Commands : receipts[c].status = "none" => receipts[c] = NoReceipt
    /\ phase = "decide" \/ (phase \in {"failing", "resolving"} /\ failure = "rejected") =>
          receipts[commandOf[current]] = NoReceipt
    /\ phase \in {"committed", "deferring", "scheduling", "forking", "publishing"} =>
          receipts[commandOf[current]] = Accepted(Len(log))

\* The answer agrees with the receipt when it is about to be given.
Agrees(c, outcome) ==
    \/ outcome.tag = "success" /\ receipts[c] = Accepted(outcome.sequence)
                               /\ outcome.sequence \in 0..Len(log)
    \/ outcome = Plain("rejected") /\ receipts[c].status # "accepted"
    \/ outcome \in {Plain("timeout"), Plain("failed")}
VerdictOK == phase \in {"answering", "replying"} => Agrees(commandOf[current], verdict)

Inv == Typed /\ QueueOK /\ EnvelopeOK /\ ReceiptOK /\ VerdictOK /\ ReceiptsMatchLog
LEMMA InvInit == Init => Inv
<1> SUFFICES ASSUME Init PROVE Inv
  OBVIOUS
<1>1. Typed
  BY InitTyped
<1>2. QueueOK
  BY DEF Init, QueueOK
<1>3. EnvelopeOK /\ VerdictOK
  BY DEF Init, EnvelopeOK, VerdictOK
<1>4. \A c \in Commands : receipts[c] = NoReceipt
  BY DEF Init
<1>5. ReceiptOK
  BY <1>4 DEF Init, ReceiptOK
<1>6. ReceiptsMatchLog
  <2>1. \A i \in 1..Len(log) : log[i].cmd = Past
    <3> DEFINE Old == [cmd: {Past}, kind: Kinds, of: Aggregates]
    <3>1. log \in Seq(Old)
      BY HistoryAssumption DEF Init
    <3>2. \A e \in Old : e.cmd = Past
      OBVIOUS
    <3> HIDE DEF Old
    <3> QED
      BY <3>1, <3>2
  <2>2. \A c \in Commands : receipts[c].status = "none" /\ c # Past
    BY <1>4, PastAssumption DEF NoReceipt
  <2> QED
    BY <2>1, <2>2 DEF ReceiptsMatchLog, ExecutedOnce
<1> QED
  BY <1>1, <1>2, <1>3, <1>5, <1>6 DEF Inv

-----------------------------------------------------------------------------------
\* Preservation, one part at a time.

\* The worker at work has the envelope of a dispatch, and so a command.
LEMMA InHand ==
    ASSUME Typed, phase # "idle"
    PROVE  current \in Dispatches /\ commandOf[current] \in Commands
BY DEF Typed, TypeOK, PositionOK, CallersOK, None

\* dispatch offers an envelope once, and the worker takes each one once.
LEMMA QueueStep == Inv /\ [Next]_vars => QueueOK'
<1> SUFFICES ASSUME Inv, [Next]_vars PROVE QueueOK'
  OBVIOUS
<1> USE DEF Inv
<1>0. /\ commandQueue \in Seq(Dispatches) /\ executionState \in [Dispatches -> ExecutionStates]
      /\ reply \in [Dispatches -> Outcome]
  BY DEF Typed, TypeOK, CallersOK
<1>1. CASE Lookup \/ FailBeforeCommit \/ Reject \/ Commit \/ AdvanceModel \/ Defer
           \/ DeferFails \/ DeferDirty \/ Schedule \/ Fork \/ Publish \/ Interrupt \/ Defect
           \/ Reconcile \/ ReconcileFails \/ Resolve \/ RecordRejection \/ CatchUp
           \/ CatchUpFails \/ BeginRepair \/ RepairSucceeds \/ RepairFails \/ Restart
           \/ RestartFails \/ UNCHANGED vars
  <2>1. UNCHANGED <<commandQueue, executionState, reply, current>>
    BY <1>1 DEF Lookup, FailBeforeCommit, Reject, Commit, AdvanceModel, Defer, DeferFails,
                DeferDirty, Schedule, Fork, Publish, Interrupt, Defect, Cut, Reconcile,
                ReconcileFails, Resolve, RecordRejection, CatchUp, CatchUpFails, BeginRepair,
                RepairSucceeds, RepairFails, EndRepair, Restart, RestartFails, vars, callers,
                position
  <2> QED
    BY <2>1 DEF QueueOK
<1>2. ASSUME NEW d \in Dispatches, Dispatch(d) PROVE QueueOK'
  <2>1. executionState[d] = "unused" /\ UNCHANGED <<reply, current>>
    BY <1>2 DEF Dispatch, callers, position
  <2>2. /\ commandQueue' = Append(commandQueue, d)
        /\ executionState' = [executionState EXCEPT ![d] = "queued"]
    BY <1>2 DEF Dispatch
  <2>3. d # current
    BY <2>1, DispatchesAssumption DEF EnvelopeOK, Typed, TypeOK, PositionOK, Phases, None
  <2>4. \A i \in 1..Len(commandQueue) : commandQueue[i] # d
    BY <2>1 DEF QueueOK
  <2>5. /\ Len(commandQueue') = Len(commandQueue) + 1
        /\ \A i \in 1..Len(commandQueue) : commandQueue'[i] = commandQueue[i]
        /\ commandQueue'[Len(commandQueue) + 1] = d
    BY <1>0, <2>2
  <2>6. \A i \in 1..Len(commandQueue') :
          i \in 1..Len(commandQueue) \/ i = Len(commandQueue) + 1
    BY <1>0, <2>5
  <2>7. \A i \in 1..Len(commandQueue') :
          /\ executionState'[commandQueue'[i]] \in {"queued", "abandoned"}
          /\ commandQueue'[i] # current'
    <3> TAKE i \in 1..Len(commandQueue')
    <3>1. CASE i = Len(commandQueue) + 1
      BY <1>0, <2>1, <2>2, <2>3, <2>5, <3>1
    <3>2. CASE i \in 1..Len(commandQueue)
      <4>1. commandQueue'[i] = commandQueue[i] /\ commandQueue[i] # d
        BY <2>4, <2>5, <3>2
      <4>2. commandQueue[i] \in Dispatches
        BY <1>0, <3>2
      <4> QED
        BY <1>0, <2>1, <2>2, <3>2, <4>1, <4>2 DEF QueueOK
    <3> QED
      BY <2>6, <3>1, <3>2
  <2>8. \A i, j \in 1..Len(commandQueue') : commandQueue'[i] = commandQueue'[j] => i = j
    BY <2>4, <2>5, <2>6 DEF QueueOK
  <2>9. \A e \in Dispatches : executionState'[e] \in {"unused", "queued"} => reply'[e] = Plain(None)
    BY <1>0, <2>1, <2>2 DEF QueueOK
  <2> QED
    BY <2>7, <2>8, <2>9 DEF QueueOK, Plain, None
<1>3. ASSUME NEW d \in Dispatches, Expire(d) PROVE QueueOK'
  <2>1. UNCHANGED <<commandQueue, executionState, reply, current>>
    BY <1>3 DEF Expire, position
  <2> QED
    BY <2>1 DEF QueueOK
<1>4. ASSUME NEW d \in Dispatches, Abandon(d) PROVE QueueOK'
  <2>1. /\ executionState' = [executionState EXCEPT ![d] = "abandoned"]
        /\ reply' = [reply EXCEPT ![d] = Plain("timeout")]
        /\ UNCHANGED <<commandQueue, current>>
    BY <1>4 DEF Abandon, position
  <2>2. \A i \in 1..Len(commandQueue) : commandQueue[i] \in Dispatches
    BY <1>0
  <2>3. \A i \in 1..Len(commandQueue) : executionState'[commandQueue[i]] \in {"queued", "abandoned"}
    BY <1>0, <2>1, <2>2 DEF QueueOK
  <2>4. \A e \in Dispatches : executionState'[e] \in {"unused", "queued"} => reply'[e] = Plain(None)
    BY <1>0, <2>1 DEF QueueOK
  <2> QED
    BY <2>1, <2>3, <2>4 DEF QueueOK
<1>5. CASE Take
  <2>1. /\ commandQueue # <<>> /\ current' = Head(commandQueue) /\ commandQueue' = Tail(commandQueue)
        /\ UNCHANGED <<executionState, reply>>
    BY <1>5 DEF Take
  <2>2. /\ Len(commandQueue) \in Nat \ {0} /\ current' = commandQueue[1]
        /\ Len(commandQueue') = Len(commandQueue) - 1
        /\ \A i \in 1..Len(commandQueue') : commandQueue'[i] = commandQueue[i + 1]
    BY <1>0, <2>1
  <2>3. \A i \in 1..Len(commandQueue') : i + 1 \in 1..Len(commandQueue) /\ i + 1 # 1
    BY <2>2
  <2> QED
    BY <2>1, <2>2, <2>3 DEF QueueOK
<1>6. CASE Start
  <2>1. executionState' = [executionState EXCEPT ![current] = "in-flight"]
        /\ UNCHANGED <<commandQueue, reply, current>>
    BY <1>6 DEF Start
  <2>2. \A i \in 1..Len(commandQueue) : commandQueue[i] \in Dispatches /\ commandQueue[i] # current
    BY <1>0 DEF QueueOK
  <2>3. \A i \in 1..Len(commandQueue) : executionState'[commandQueue[i]] \in {"queued", "abandoned"}
    BY <1>0, <2>1, <2>2 DEF QueueOK
  <2>4. \A e \in Dispatches : executionState'[e] \in {"unused", "queued"} => reply'[e] = Plain(None)
    BY <1>0, <2>1 DEF QueueOK
  <2> QED
    BY <2>1, <2>3, <2>4 DEF QueueOK
<1>7. CASE Skip \/ Answer
  <2>1. current' = None /\ UNCHANGED <<commandQueue, executionState>>
    BY <1>7 DEF Skip, Answer, Finish, callers
  <2>2. \A i \in 1..Len(commandQueue) : commandQueue[i] # None
    BY <1>0, DispatchesAssumption DEF None
  <2>3. reply' = reply \/ (reply' = [reply EXCEPT ![current] = verdict]
                           /\ phase \in {"answering", "replying"})
    BY <1>7 DEF Skip, Answer, callers
  <2>4. \A d \in Dispatches : executionState[d] \in {"unused", "queued"} => reply'[d] = Plain(None)
    BY <1>0, <2>3 DEF QueueOK, EnvelopeOK
  <2> QED
    BY <2>1, <2>2, <2>4 DEF QueueOK
<1>8. CASE Crash
  <2>1. /\ commandQueue' = <<>> /\ UNCHANGED reply
        /\ executionState' = [d \in Dispatches |->
                                IF executionState[d] # "unused" /\ reply[d].tag = None
                                THEN "lost" ELSE executionState[d]]
    BY <1>8 DEF Crash
  <2>2. \A d \in Dispatches : executionState'[d] \in {"unused", "queued"} => reply'[d] = Plain(None)
    BY <2>1 DEF QueueOK
  <2> QED
    BY <2>1, <2>2 DEF QueueOK
<1> QED
  BY <1>1, <1>2, <1>3, <1>4, <1>5, <1>6, <1>7, <1>8
     DEF Next, Callers, Work, Recovery, Background, Maintenance, Process

\* The envelope in hand is started once, under the lock, and answered once.
LEMMA EnvelopeStep == Inv /\ [Next]_vars => EnvelopeOK'
<1> SUFFICES ASSUME Inv, [Next]_vars PROVE EnvelopeOK'
  OBVIOUS
<1> USE DEF Inv
<1>0. /\ commandQueue \in Seq(Dispatches) /\ executionState \in [Dispatches -> ExecutionStates]
      /\ reply \in [Dispatches -> Outcome] /\ phase \in Phases
  BY DEF Typed, TypeOK, CallersOK, PositionOK
<1>1. CASE CatchUp \/ CatchUpFails \/ BeginRepair \/ RepairSucceeds \/ RepairFails \/ Restart
           \/ RestartFails \/ UNCHANGED vars
  <2>1. UNCHANGED <<executionState, reply, current, phase>>
    BY <1>1 DEF CatchUp, CatchUpFails, BeginRepair, RepairSucceeds, RepairFails, EndRepair,
                Restart, RestartFails, vars, callers, position
  <2> QED
    BY <2>1 DEF EnvelopeOK
<1>2. ASSUME NEW d \in Dispatches, Dispatch(d) PROVE EnvelopeOK'
  <2>1. /\ executionState[d] = "unused" /\ UNCHANGED <<reply, current, phase>>
        /\ executionState' = [executionState EXCEPT ![d] = "queued"]
    BY <1>2 DEF Dispatch, position
  <2>2. phase # "idle" => executionState[current] # "unused" /\ d # current
    BY <2>1 DEF EnvelopeOK
  <2> QED
    BY <1>0, <2>1, <2>2, InHand DEF EnvelopeOK
<1>3. ASSUME NEW d \in Dispatches, Expire(d) PROVE EnvelopeOK'
  <2>1. UNCHANGED <<executionState, reply, current, phase>>
    BY <1>3 DEF Expire, position
  <2> QED
    BY <2>1 DEF EnvelopeOK
<1>4. ASSUME NEW d \in Dispatches, Abandon(d) PROVE EnvelopeOK'
  <2>1. /\ executionState[d] = "queued" /\ UNCHANGED <<current, phase>>
        /\ executionState' = [executionState EXCEPT ![d] = "abandoned"]
        /\ reply' = [reply EXCEPT ![d] = Plain("timeout")]
    BY <1>4 DEF Abandon, position
  <2>2. phase \notin {"idle", "waiting"} => d # current
    BY <2>1 DEF EnvelopeOK
  <2> QED
    BY <1>0, <2>1, <2>2, InHand DEF EnvelopeOK
<1>5. CASE Take
  <2>1. current' = commandQueue[1] /\ 1 \in 1..Len(commandQueue)
    BY <1>0, <1>5 DEF Take
  <2> QED
    BY <1>5, <2>1 DEF Take, QueueOK, EnvelopeOK
<1>6. CASE Start
  <2>1. phase = "waiting" /\ executionState[current] = "queued" /\ current \in Dispatches
    BY <1>6, InHand DEF Start, ShouldSkip, EnvelopeOK
  <2>2. executionState'[current] = "in-flight" /\ UNCHANGED <<current, reply>>
    BY <1>0, <1>6, <2>1 DEF Start
  <2>3. reply[current] = Plain(None)
    BY <2>1 DEF QueueOK
  <2>4. phase' \in {"failing", "lookup"}
    BY <1>6 DEF Start
  <2> QED
    BY <2>2, <2>3, <2>4 DEF EnvelopeOK
<1>7. CASE Skip \/ Answer \/ Crash
  <2>1. phase' = "idle"
    BY <1>7 DEF Skip, Answer, Crash, Finish
  <2> QED
    BY <2>1 DEF EnvelopeOK
<1>8. CASE Lookup \/ FailBeforeCommit \/ Reject \/ Commit \/ AdvanceModel \/ Defer
           \/ DeferFails \/ DeferDirty \/ Schedule \/ Fork \/ Publish \/ Interrupt \/ Defect
           \/ Reconcile \/ ReconcileFails \/ Resolve \/ RecordRejection
  <2>1. UNCHANGED <<executionState, reply, current>>
    BY <1>8 DEF Lookup, FailBeforeCommit, Reject, Commit, AdvanceModel, Defer, DeferFails,
                DeferDirty, Schedule, Fork, Publish, Interrupt, Defect, Cut, Reconcile,
                ReconcileFails, Resolve, RecordRejection, callers
  <2>2. phase \notin {"idle", "waiting"}
    BY <1>8 DEF Lookup, FailBeforeCommit, Reject, Commit, AdvanceModel, Defer, DeferFails,
                DeferDirty, Schedule, Fork, Publish, Interrupt, Defect, Cut,
                InterruptiblePhases, Reconcile, ReconcileFails, Resolve, RecordRejection
  <2>3. executionState[current] = "in-flight" /\ reply[current] = Plain(None)
    BY <2>2 DEF EnvelopeOK
  <2>4. executionState'[current'] = "in-flight" /\ reply'[current'] = Plain(None)
    BY <2>1, <2>3
  <2>5. phase' # "waiting"
    BY <1>8, <2>2 DEF Lookup, FailBeforeCommit, Reject, Commit, AdvanceModel, Defer, DeferFails,
                DeferDirty, Schedule, Fork, Publish, NextDeferred, Interrupt, Defect, Cut,
                Reconcile, ReconcileFails, Resolve, RecordRejection
  <2> QED
    BY <2>4, <2>5 DEF EnvelopeOK, Plain, None
<1> QED
  BY <1>1, <1>2, <1>3, <1>4, <1>5, <1>6, <1>7, <1>8
     DEF Next, Callers, Work, Recovery, Background, Maintenance, Process

\* What a commit leaves behind: the log, its end, and the receipt.
LEMMA CommitEffect ==
    ASSUME Inv, Commit
    PROVE  LET c == commandOf[current]
           IN  /\ c \in Commands /\ Len(log) \in Nat /\ Len(Decision[c]) \in Nat \ {0}
               /\ Len(log') = Len(log) + Len(Decision[c])
               /\ \A i \in 1..Len(log) : log'[i] = log[i]
               /\ \A i \in 1..Len(Decision[c]) : log'[Len(log) + i] = EventsOf(c)[i]
               /\ \A i \in 1..Len(Decision[c]) : log'[Len(log) + i].cmd = c
               /\ receipts[c] = NoReceipt
               /\ receipts' = [receipts EXCEPT ![c] = Accepted(Len(log'))]
<1> DEFINE c == commandOf[current]
<1>1. c \in Commands /\ log \in Seq(Event) /\ receipts[c] = NoReceipt
  BY InHand DEF Inv, ReceiptOK, Commit, Typed, TypeOK, StoredOK
<1>2. log' = log \o EventsOf(c)
  BY DEF Commit
<1>3. receipts' = [receipts EXCEPT ![c] = Accepted(Len(log) + Len(Decision[c]))]
  BY DEF Commit
<1> HIDE DEF c
<1>4. /\ EventsOf(c) \in Seq(Event) /\ Len(EventsOf(c)) = Len(Decision[c])
      /\ Len(Decision[c]) \in Nat \ {0}
      /\ \A i \in 1..Len(Decision[c]) : EventsOf(c)[i].cmd = c
  BY <1>1, EventsOfType
<1>5. /\ Len(log \o EventsOf(c)) = Len(log) + Len(EventsOf(c))
      /\ \A i \in 1..Len(log) : (log \o EventsOf(c))[i] = log[i]
      /\ \A i \in 1..Len(EventsOf(c)) : (log \o EventsOf(c))[Len(log) + i] = EventsOf(c)[i]
  <2> DEFINE e == EventsOf(c)
  <2>1. log \in Seq(Event) /\ e \in Seq(Event)
    BY <1>1, <1>4
  <2> HIDE DEF e
  <2>2. /\ Len(log \o e) = Len(log) + Len(e)
        /\ \A i \in 1..Len(log) : (log \o e)[i] = log[i]
        /\ \A i \in 1..Len(e) : (log \o e)[Len(log) + i] = e[i]
    BY <2>1, ConcatType
  <2> QED
    BY <2>2 DEF e
<1>6. Len(log) \in Nat
  BY <1>1
<1> QED
  BY <1>1, <1>2, <1>3, <1>4, <1>5, <1>6 DEF c

\* The receipt of the command in hand follows the worker.
LEMMA ReceiptStep == Inv /\ [Next]_vars => ReceiptOK'
<1> SUFFICES ASSUME Inv, [Next]_vars PROVE ReceiptOK'
  OBVIOUS
<1> USE DEF Inv
<1>0. receipts \in [Commands -> Receipt] /\ phase \in Phases
  BY DEF Typed, TypeOK, StoredOK, PositionOK
<1>1. CASE (\E d \in Dispatches : Dispatch(d) \/ Expire(d) \/ Abandon(d)) \/ CatchUp
           \/ CatchUpFails \/ BeginRepair \/ RepairSucceeds \/ RepairFails \/ Restart
           \/ RestartFails \/ UNCHANGED vars
  <2>1. UNCHANGED <<log, receipts, commandOf, current, phase, failure>>
    BY <1>1 DEF Dispatch, Expire, Abandon, CatchUp, CatchUpFails, BeginRepair, RepairSucceeds,
                RepairFails, EndRepair, Restart, RestartFails, vars, stored, callers, position
  <2> QED
    BY <2>1 DEF ReceiptOK, Accepted
<1>2. CASE Take \/ Start \/ Skip \/ Answer \/ Crash \/ FailBeforeCommit
  <2>1. UNCHANGED <<log, receipts>>
    BY <1>2 DEF Take, Start, Skip, Answer, Crash, FailBeforeCommit, stored
  <2>2. phase' \in {"waiting", "lookup", "idle", "failing"} /\ (phase' = "failing" => failure' # "rejected")
    BY <1>2 DEF Take, Start, Skip, Answer, Crash, FailBeforeCommit, Finish
  <2> QED
    BY <2>1, <2>2 DEF ReceiptOK
<1>3. CASE Lookup
  <2>1. UNCHANGED <<log, receipts, commandOf, current>> /\ current \in Dispatches
        /\ commandOf[current] \in Commands
    BY <1>3, InHand DEF Lookup, stored, callers
  <2>2. phase' = "answering" \/ (phase' = "decide" /\ receipts[commandOf[current]].status = "none")
    BY <1>3 DEF Lookup, Known
  <2> QED
    BY <2>1, <2>2 DEF ReceiptOK
<1>4. CASE Reject
  <2>1. UNCHANGED <<log, receipts, commandOf, current>> /\ phase = "decide" /\ phase' = "failing"
    BY <1>4 DEF Reject, stored, callers
  <2> QED
    BY <2>1 DEF ReceiptOK
<1>5. CASE Commit
  <2>1. phase' = "committed" /\ UNCHANGED <<commandOf, current>>
    BY <1>5 DEF Commit, callers
  <2> QED
    BY SMTT(30), <1>0, <1>5, <2>1, CommitEffect DEF ReceiptOK, Accepted, NoReceipt
<1>6. CASE AdvanceModel \/ Defer \/ DeferFails \/ DeferDirty \/ Schedule \/ Fork \/ Publish
  <2>1. UNCHANGED <<log, receipts, commandOf, current>>
    BY <1>6 DEF AdvanceModel, Defer, DeferFails, DeferDirty, Schedule, Fork, Publish, stored, callers
  <2>2. phase \in {"committed", "deferring", "scheduling", "forking", "publishing"}
    BY <1>6 DEF AdvanceModel, Defer, DeferFails, DeferDirty, Schedule, Fork, Publish
  <2>3. phase' \in {"deferring", "scheduling", "forking", "publishing", "answering"}
    BY <1>6 DEF AdvanceModel, Defer, DeferFails, DeferDirty, Schedule, Fork, Publish, NextDeferred
  <2> QED
    BY <2>1, <2>2, <2>3 DEF ReceiptOK, Accepted
<1>7. CASE Interrupt \/ Defect
  <2>1. UNCHANGED <<log, receipts>> /\ phase' = "failing" /\ failure' # "rejected"
    BY <1>7 DEF Interrupt, Defect, Cut, stored
  <2> QED
    BY <2>1 DEF ReceiptOK
<1>8. CASE Reconcile \/ ReconcileFails
  <2>1. UNCHANGED <<log, receipts, commandOf, current, failure>> /\ phase = "failing"
        /\ phase' = "resolving"
    BY <1>8 DEF Reconcile, ReconcileFails, stored, callers
  <2> QED
    BY <2>1 DEF ReceiptOK
<1>9. CASE Resolve
  <2>1. UNCHANGED receipts /\ phase' = "replying"
    BY <1>9 DEF Resolve, stored
  <2> QED
    BY <2>1 DEF ReceiptOK
<1>10. CASE RecordRejection
  <2>1. phase' = "replying"
    BY <1>10 DEF RecordRejection
  <2>2. receipts' = receipts \/ receipts' = [receipts EXCEPT ![commandOf[current]] = Rejected]
    BY <1>10 DEF RecordRejection
  <2>3. \A c \in Commands : receipts'[c].status = "none" => receipts'[c] = NoReceipt
    BY <1>0, <2>2 DEF ReceiptOK, Rejected
  <2> QED
    BY <2>1, <2>3 DEF ReceiptOK, NoReceipt
<1> QED
  BY <1>1, <1>2, <1>3, <1>4, <1>5, <1>6, <1>7, <1>8, <1>9, <1>10
     DEF Next, Callers, Work, Recovery, Background, Maintenance, Process

\* The answer agrees with the receipt when it is formed, and nothing changes either before it
\* is given.
LEMMA VerdictStep == Inv /\ [Next]_vars => VerdictOK'
<1> SUFFICES ASSUME Inv, [Next]_vars PROVE VerdictOK'
  OBVIOUS
<1> USE DEF Inv
<1>0. Len(log) \in Nat /\ receipts \in [Commands -> Receipt]
  BY DEF Typed, TypeOK, StoredOK
<1>1. CASE (\E d \in Dispatches : Dispatch(d) \/ Expire(d) \/ Abandon(d)) \/ CatchUp
           \/ CatchUpFails \/ BeginRepair \/ RepairSucceeds \/ RepairFails \/ Restart
           \/ RestartFails \/ UNCHANGED vars
  <2>1. UNCHANGED <<log, receipts, commandOf, current, phase, verdict>>
    BY <1>1 DEF Dispatch, Expire, Abandon, CatchUp, CatchUpFails, BeginRepair, RepairSucceeds,
                RepairFails, EndRepair, Restart, RestartFails, vars, stored, callers, position
  <2> QED
    BY <2>1 DEF VerdictOK, Agrees, Accepted, Plain
<1>2. CASE Take \/ Skip \/ Start \/ FailBeforeCommit \/ Reject \/ Commit \/ AdvanceModel
           \/ Defer \/ DeferFails \/ DeferDirty \/ Schedule \/ Fork \/ Answer \/ Interrupt
           \/ Defect \/ Reconcile \/ ReconcileFails \/ Crash
  <2>1. phase' \notin {"answering", "replying"}
    BY <1>2 DEF Take, Skip, Start, FailBeforeCommit, Reject, Commit, AdvanceModel, Defer,
                DeferFails, DeferDirty, Schedule, Fork, NextDeferred, Answer, Interrupt, Defect,
                Cut, Reconcile, ReconcileFails, Crash, Finish
  <2> QED
    BY <2>1 DEF VerdictOK
<1>3. ASSUME NEW c \in Commands, receipts[c].status # "none" PROVE Agrees(c, Stored(receipts[c]))
  <2>1. receipts[c] \in Receipt
    BY <1>0
  <2>2. CASE receipts[c].status = "accepted"
    <3>1. receipts[c].sequence \in 0..Len(log)
      BY <1>0, <2>1, <2>2 DEF ReceiptsMatchLog, ExecutedOnce, Receipt
    <3>2. Stored(receipts[c]) = Success(receipts[c].sequence)
      BY <2>2 DEF Stored
    <3>3. receipts[c] = Accepted(receipts[c].sequence)
      BY <2>1, <2>2 DEF Receipt, Accepted
    <3> QED
      BY <3>1, <3>2, <3>3 DEF Agrees, Success
  <2>3. CASE receipts[c].status = "rejected"
    BY <2>3 DEF Stored, Agrees
  <2> QED
    BY <1>3, <2>1, <2>2, <2>3 DEF Receipt
<1>4. CASE Lookup
  <2>1. UNCHANGED <<log, receipts, commandOf, current>> /\ commandOf[current] \in Commands
    BY <1>4, InHand DEF Lookup, stored, callers
  <2>2. phase' = "decide" \/ (/\ receipts[commandOf[current]].status # "none"
                              /\ verdict' = Stored(receipts[commandOf[current]]))
    BY <1>4 DEF Lookup, Known
  <2>3. phase' # "decide" => Agrees(commandOf[current], verdict')
    BY <1>3, <2>1, <2>2
  <2> QED
    BY <2>1, <2>2, <2>3 DEF VerdictOK, Agrees, Accepted, Plain
<1>5. CASE Publish
  <2>1. UNCHANGED <<log, receipts, commandOf, current>> /\ receipts[commandOf[current]] = Accepted(Len(log))
    BY <1>5 DEF Publish, stored, callers, ReceiptOK
  <2>2. phase' = "publishing" \/ verdict' = Success(Len(log))
    BY <1>5 DEF Publish
  <2> QED
    BY <1>0, <2>1, <2>2 DEF VerdictOK, Agrees, Accepted, Success
<1>6. CASE Resolve
  <2>1. UNCHANGED <<log, receipts, commandOf, current>> /\ commandOf[current] \in Commands
    BY <1>6, InHand DEF Resolve, stored, callers
  <2>2. verdict' = Unresolved \/ (/\ receipts[commandOf[current]].status # "none"
                                  /\ verdict' = Stored(receipts[commandOf[current]]))
    BY <1>6 DEF Resolve
  <2>3. Agrees(commandOf[current], verdict')
    BY <1>3, <2>1, <2>2 DEF Agrees, Unresolved
  <2> QED
    BY <2>1, <2>3 DEF VerdictOK, Agrees, Accepted, Plain
<1>7. CASE RecordRejection
  <2>1. /\ verdict' = Plain("rejected") /\ UNCHANGED <<commandOf, current>>
        /\ commandOf[current] \in Commands /\ receipts[commandOf[current]] = NoReceipt
    BY <1>7, InHand DEF RecordRejection, callers, ReceiptOK
  <2>2. receipts' = receipts \/ receipts' = [receipts EXCEPT ![commandOf[current]] = Rejected]
    BY <1>7 DEF RecordRejection
  <2>3. receipts'[commandOf[current]].status # "accepted"
    BY <1>0, <2>1, <2>2 DEF NoReceipt, Rejected
  <2> QED
    BY <2>1, <2>3 DEF VerdictOK, Agrees, Plain
<1> QED
  BY <1>1, <1>2, <1>4, <1>5, <1>6, <1>7
     DEF Next, Callers, Work, Recovery, Background, Maintenance, Process

\* The log grows only by the events of a command without a receipt, which gets one with them.
LEMMA ReceiptsMatchLogStep == Inv /\ [Next]_vars => ReceiptsMatchLog'
<1> SUFFICES ASSUME Inv, [Next]_vars PROVE ReceiptsMatchLog'
  OBVIOUS
<1> USE DEF Inv
<1>0. Len(log) \in Nat /\ receipts \in [Commands -> Receipt]
  BY DEF Typed, TypeOK, StoredOK
<1>1. CASE (\E d \in Dispatches : Dispatch(d) \/ Expire(d) \/ Abandon(d)) \/ Take \/ Skip \/ Start
           \/ Lookup \/ FailBeforeCommit \/ Reject \/ AdvanceModel \/ Defer \/ DeferFails
           \/ DeferDirty \/ Schedule \/ Fork \/ Publish \/ Answer \/ Interrupt \/ Defect
           \/ Reconcile \/ ReconcileFails \/ Resolve \/ CatchUp \/ CatchUpFails \/ BeginRepair
           \/ RepairSucceeds \/ RepairFails \/ Crash \/ Restart \/ RestartFails \/ UNCHANGED vars
  <2>1. UNCHANGED <<log, receipts>>
    BY <1>1 DEF Dispatch, Expire, Abandon, Take, Skip, Start, Lookup, FailBeforeCommit, Reject,
                AdvanceModel, Defer, DeferFails, DeferDirty, Schedule, Fork, Publish, Answer,
                Interrupt, Defect, Cut, Reconcile, ReconcileFails, Resolve, CatchUp, CatchUpFails,
                BeginRepair, RepairSucceeds, RepairFails, EndRepair, Crash, Restart, RestartFails,
                vars, stored
  <2> QED
    BY ZenonT(60), <2>1 DEF ReceiptsMatchLog, ExecutedOnce, EventsOf
<1>2. CASE Commit
  <2> DEFINE c == commandOf[current]
             n == Len(log)
             k == Len(Decision[c])
  <2>1. /\ c \in Commands /\ n \in Nat /\ k \in Nat \ {0} /\ Len(log') = n + k
        /\ \A i \in 1..n : log'[i] = log[i]
        /\ \A i \in 1..k : log'[n + i] = EventsOf(c)[i] /\ log'[n + i].cmd = c
        /\ receipts[c] = NoReceipt /\ receipts' = [receipts EXCEPT ![c] = Accepted(n + k)]
    BY <1>2, CommitEffect
  <2> HIDE DEF c, n, k
  <2>2. \A i \in n + 1 .. n + k : log'[i].cmd = c
    <3> TAKE i \in n + 1 .. n + k
    <3>1. i - n \in 1..k /\ n + (i - n) = i
      BY <2>1
    <3> QED
      BY <2>1, <3>1
  <2>3. \A i \in 1..n : log[i].cmd # c
    BY <1>0, <2>1 DEF ReceiptsMatchLog, ExecutedOnce, NoReceipt, n
  <2>4. \A i \in 1..Len(log') : i \in 1..n \/ i \in n + 1 .. n + k
    BY <2>1
  <2>5. ASSUME NEW b \in Commands PROVE ExecutedOnce(b)'
    <3>1. CASE b = c
      <4>1. receipts'[b] = Accepted(n + k)
        BY <1>0, <2>1, <3>1
      <4>2. receipts'[b].status = "accepted" /\ receipts'[b].sequence = n + k
        BY <4>1 DEF Accepted
      <4>3. receipts'[b].sequence - Len(Decision[b]) = n
        BY <2>1, <3>1, <4>2 DEF k
      <4>4. \A i \in 1..Len(log') : log'[i].cmd = b <=> n < i /\ i <= n + k
        BY <2>1, <2>2, <2>3, <2>4, <3>1
      <4>5. \A i \in 1..Len(Decision[b]) : log'[n + i] = EventsOf(b)[i]
        BY <2>1, <3>1 DEF k
      <4> QED
        <5>1. n >= 0 /\ n + k <= Len(log')
          BY <2>1
        <5> QED
          BY <4>2, <4>3, <4>4, <4>5, <5>1 DEF ExecutedOnce, EventsOf
    <3>2. CASE b # c
      <4>1. receipts'[b] = receipts[b] /\ ExecutedOnce(b) /\ receipts[b] \in Receipt
        BY <1>0, <2>1, <3>2 DEF ReceiptsMatchLog
      <4>2. \A i \in n + 1 .. n + k : log'[i].cmd # b
        BY <2>2, <3>2
      <4>3. CASE receipts[b].status = "accepted"
        <5> DEFINE end == receipts[b].sequence
                   begin == end - Len(Decision[b])
        <5>1. /\ begin >= 0 /\ end <= n
              /\ \A i \in 1..n : log[i].cmd = b <=> begin < i /\ i <= end
              /\ \A i \in 1..Len(Decision[b]) : log[begin + i] = EventsOf(b)[i]
          BY <4>1, <4>3 DEF ExecutedOnce, n
        <5>2. end \in Nat /\ Len(Decision[b]) \in Nat
          BY <4>1, EventsOfType DEF Receipt
        <5>3. begin \in Nat /\ begin + Len(Decision[b]) = end
          BY <5>1, <5>2
        <5> HIDE DEF begin, end
        <5>4. \A i \in 1..Len(log') : log'[i].cmd = b <=> begin < i /\ i <= end
          BY SMTT(30), <2>1, <2>4, <4>2, <5>1, <5>2, <5>3
        <5>5. \A i \in 1..Len(Decision[b]) : log'[begin + i] = EventsOf(b)[i]
          <6> TAKE i \in 1..Len(Decision[b])
          <6>1. begin + i \in 1..n
            BY <2>1, <5>1, <5>2, <5>3
          <6> QED
            BY <2>1, <5>1, <6>1
        <5> QED
          <6>1. receipts'[b].sequence = end /\ receipts'[b].sequence - Len(Decision[b]) = begin
            BY <4>1 DEF begin, end
          <6>2. begin >= 0 /\ end <= Len(log') /\ receipts'[b].status = "accepted"
            BY <2>1, <4>1, <4>3, <5>1, <5>2, <5>3
          <6> QED
            BY <5>4, <5>5, <6>1, <6>2 DEF ExecutedOnce, EventsOf
      <4>4. CASE receipts[b].status # "accepted"
        <5>1. \A i \in 1..n : log[i].cmd # b
          BY <4>1, <4>4 DEF ExecutedOnce, n
        <5> QED
          BY <2>1, <2>4, <4>1, <4>2, <4>4, <5>1 DEF ExecutedOnce
      <4> QED
        BY <4>3, <4>4
    <3> QED
      BY <3>1, <3>2
  <2> QED
    BY <2>5 DEF ReceiptsMatchLog
<1>3. CASE RecordRejection
  <2>1. /\ UNCHANGED log /\ commandOf[current] \in Commands
        /\ receipts[commandOf[current]] = NoReceipt
    BY <1>3, InHand DEF RecordRejection, ReceiptOK
  <2>2. receipts' = receipts \/ receipts' = [receipts EXCEPT ![commandOf[current]] = Rejected]
    BY <1>3 DEF RecordRejection
  <2>3. ASSUME NEW b \in Commands PROVE ExecutedOnce(b)'
    <3>1. \/ receipts'[b] = receipts[b]
          \/ receipts[b] = NoReceipt /\ receipts'[b] = Rejected
      BY <1>0, <2>1, <2>2
    <3>2. ExecutedOnce(b)
      BY DEF ReceiptsMatchLog
    <3>3. CASE receipts'[b] = receipts[b]
      BY <2>1, <3>2, <3>3 DEF ExecutedOnce, EventsOf
    <3>4. CASE receipts[b] = NoReceipt /\ receipts'[b] = Rejected
      <4>1. receipts[b].status # "accepted" /\ receipts'[b].status # "accepted"
        BY <3>4 DEF NoReceipt, Rejected
      <4>2. \A i \in 1..Len(log) : log[i].cmd # b
        BY <3>2, <4>1 DEF ExecutedOnce
      <4> QED
        BY <2>1, <4>1, <4>2 DEF ExecutedOnce
    <3> QED
      BY <3>1, <3>3, <3>4
  <2> QED
    BY <2>3 DEF ReceiptsMatchLog
<1> QED
  BY <1>1, <1>2, <1>3
     DEF Next, Callers, Work, Recovery, Background, Maintenance, Process

LEMMA InvStep == Inv /\ [Next]_vars => Inv'
BY TypedStep, QueueStep, EnvelopeStep, ReceiptStep, VerdictStep, ReceiptsMatchLogStep DEF Inv

LEMMA AlwaysInv == Spec => []Inv
BY InvInit, InvStep, PTL DEF Spec

-----------------------------------------------------------------------------------
\* Theorems.

\* A command's events are in the log once, as one block in the order decided, exactly when it
\* has an accepted receipt, and the receipt says where the block ends: through retries of the
\* command, deadlines, failed transactions, defects, crashes and repairs, in any number.
THEOREM ReceiptsCorrect == Spec => []ReceiptsMatchLog
<1>1. Inv => ReceiptsMatchLog
  BY DEF Inv
<1> QED
  BY AlwaysInv, <1>1, PTL

\* Nothing is ever stored on behalf of a dispatch that has been answered, a timeout included:
\* the executionState handshake of dispatch and the worker is sound.
THEOREM AnswersAreFinal == Spec => NothingRunsAfterItsAnswer
<1>1. Inv /\ [Next]_vars => [log' # log => current # None /\ reply[current].tag = None]_vars
  <2> SUFFICES ASSUME Inv, Next, log' # log
               PROVE  current # None /\ reply[current].tag = None
    OBVIOUS
  <2>1. Commit
    BY DEF Next, Callers, Work, Recovery, Background, Maintenance, Process, Dispatch, Expire,
           Abandon, Take, Skip, Start, Lookup, FailBeforeCommit, Reject, AdvanceModel, Defer,
           DeferFails, DeferDirty, Schedule, Fork, Publish, Answer, Interrupt, Defect, Cut,
           Reconcile, ReconcileFails, Resolve, RecordRejection, CatchUp, CatchUpFails,
           BeginRepair, RepairSucceeds, RepairFails, EndRepair, Crash, Restart, RestartFails,
           stored
  <2>2. phase = "decide"
    BY <2>1 DEF Commit
  <2>3. current \in Dispatches /\ reply[current] = Plain(None)
    BY <2>2, InHand DEF Inv, EnvelopeOK
  <2> QED
    BY <2>3, DispatchesAssumption DEF Plain, None
<1> QED
  BY AlwaysInv, <1>1, PTL DEF Spec, NothingRunsAfterItsAnswer

\* The engine's initial states are initial states of CommandLedger.
LEMMA LedgerInit == Init => Ledger!Init
<1> SUFFICES ASSUME Init PROVE Ledger!Init
  OBVIOUS
<1>1. log \in Seq(Event)
  BY InitTyped DEF Typed, TypeOK, StoredOK
<1> QED
  BY <1>1 DEF Init, Ledger!Init, Ledger!Open, Ledger!Unanswered, NoReceipt, Plain, None

\* A commit executes its command, a stored rejection refuses it, a reply or an abandoned
\* envelope answers its dispatch, and no other step shows in CommandLedger.
LEMMA LedgerStep == Inv /\ [Next]_vars => [Ledger!Next]_(Ledger!ledger)
<1> SUFFICES ASSUME Inv, [Next]_vars PROVE [Ledger!Next]_(Ledger!ledger)
  OBVIOUS
<1> USE DEF Inv
<1>0. /\ Len(log) \in Nat /\ receipts \in [Commands -> Receipt]
      /\ reply \in [Dispatches -> Outcome] /\ commandOf \in [Dispatches -> Commands]
  BY DEF Typed, TypeOK, StoredOK, CallersOK
<1> DEFINE answered == [d \in Dispatches |-> [cmd |-> commandOf[d], outcome |-> reply[d]]]
<1>1. CASE (\E d \in Dispatches : Dispatch(d) \/ Expire(d)) \/ Take \/ Skip \/ Start
           \/ Lookup \/ FailBeforeCommit \/ Reject \/ AdvanceModel \/ Defer \/ DeferFails
           \/ DeferDirty \/ Schedule \/ Fork \/ Publish \/ Interrupt \/ Defect
           \/ Reconcile \/ ReconcileFails \/ Resolve \/ CatchUp \/ CatchUpFails \/ BeginRepair
           \/ RepairSucceeds \/ RepairFails \/ Crash \/ Restart \/ RestartFails \/ UNCHANGED vars
  <2>1. UNCHANGED <<log, receipts, commandOf, reply>>
    BY <1>1 DEF Dispatch, Expire, Take, Skip, Start, Lookup, FailBeforeCommit, Reject,
                AdvanceModel, Defer, DeferFails, DeferDirty, Schedule, Fork, Publish,
                Interrupt, Defect, Cut, Reconcile, ReconcileFails, Resolve, CatchUp, CatchUpFails,
                BeginRepair, RepairSucceeds, RepairFails, EndRepair, Crash, Restart, RestartFails,
                vars, stored, callers
  <2> QED
    BY <2>1 DEF Ledger!ledger
<1>2. CASE Commit
  <2>1. UNCHANGED <<commandOf, reply>>
    BY <1>2 DEF Commit, callers
  <2>2. PICK c \in Commands : /\ receipts[c] = NoReceipt /\ Len(log') \in Nat /\ Len(log') > Len(log)
                              /\ receipts' = [receipts EXCEPT ![c] = Accepted(Len(log'))]
    BY <1>2, CommitEffect
  <2>3. Ledger!Execute(c)
    BY <2>1, <2>2 DEF Ledger!Execute, Ledger!Open, NoReceipt, Accepted
  <2> QED
    BY <2>3 DEF Ledger!Next
<1>3. CASE RecordRejection
  <2>1. UNCHANGED <<log, commandOf, reply>>
    BY <1>3 DEF RecordRejection, callers
  <2>2. commandOf[current] \in Commands /\ receipts[commandOf[current]] = NoReceipt
    BY <1>3, InHand DEF RecordRejection, ReceiptOK
  <2>3. CASE receipts' = receipts
    BY <2>1, <2>3 DEF Ledger!ledger
  <2>4. CASE receipts' = [receipts EXCEPT ![commandOf[current]] = Rejected]
    <3>1. snapshotSequence \in 0..Len(log)
      BY DEF Typed, TypeOK, ModelOK
    <3>2. Ledger!Refuse(commandOf[current])
      BY <2>1, <2>2, <2>4, <3>1 DEF Ledger!Refuse, Ledger!Open, NoReceipt, Rejected
    <3> QED
      BY <2>2, <3>2 DEF Ledger!Next
  <2> QED
    BY <1>3, <2>3, <2>4 DEF RecordRejection
<1>4. ASSUME NEW d \in Dispatches, NEW v \in Outcome, reply[d] = Plain(None),
             reply' = [reply EXCEPT ![d] = v], v.sequence \in 0..Len(log),
             v.tag # None, Agrees(commandOf[d], v), UNCHANGED <<log, receipts, commandOf>>
      PROVE  Ledger!Answer(d)
  <2>1. answered[d].outcome = [tag |-> "none", sequence |-> 0]
    BY <1>4 DEF Plain, None
  <2>2. v = [tag |-> v.tag, sequence |-> v.sequence] /\ v.tag \in {"success", "timeout", "rejected", "failed"}
    BY <1>4 DEF Outcome, None
  <2>3. answered' = [answered EXCEPT ![d].outcome = v]
    BY <1>0, <1>4
  <2>4. Ledger!Truthful(commandOf[d], v)
    BY <1>4 DEF Agrees, Ledger!Truthful, Accepted, Plain
  <2> QED
    <3>1. answered[d].cmd = commandOf[d]
      OBVIOUS
    <3>2. \E tag \in {"success", "timeout", "rejected", "failed"}, n \in 0..Len(log) :
            /\ Ledger!Truthful(answered[d].cmd, [tag |-> tag, sequence |-> n])
            /\ answered' = [answered EXCEPT ![d].outcome = [tag |-> tag, sequence |-> n]]
      <4>1. Ledger!Truthful(answered[d].cmd, [tag |-> v.tag, sequence |-> v.sequence])
        BY <2>2, <2>4, <3>1 DEF Ledger!Truthful
      <4>2. answered' = [answered EXCEPT ![d].outcome = [tag |-> v.tag, sequence |-> v.sequence]]
        BY <2>2, <2>3
      <4> HIDE DEF answered
      <4> QED
        BY <1>4, <2>2, <4>1, <4>2
    <3> QED
      BY <1>4, <2>1, <3>2 DEF Ledger!Answer, Ledger!Unanswered
<1>5. ASSUME NEW d \in Dispatches, Abandon(d) PROVE Ledger!Next
  <2>1. /\ reply[d] = Plain(None) /\ reply' = [reply EXCEPT ![d] = Plain("timeout")]
        /\ UNCHANGED <<log, receipts, commandOf>>
    BY <1>5 DEF Abandon, QueueOK, stored
  <2>2. /\ Plain("timeout") \in Outcome /\ Plain("timeout").sequence \in 0..Len(log)
        /\ Plain("timeout").tag # None /\ Agrees(commandOf[d], Plain("timeout"))
    BY <1>0 DEF Plain, Outcome, None, Agrees
  <2>3. Ledger!Answer(d)
    BY <1>4, <2>1, <2>2
  <2> QED
    BY <2>3 DEF Ledger!Next
<1>6. CASE Answer
  <2>1. /\ phase \in {"answering", "replying"} /\ reply' = [reply EXCEPT ![current] = verdict]
        /\ UNCHANGED <<log, receipts, commandOf>>
    BY <1>6 DEF Answer, stored
  <2>2. current \in Dispatches /\ reply[current] = Plain(None)
    BY <2>1, InHand DEF EnvelopeOK
  <2>3. verdict \in Outcome /\ Agrees(commandOf[current], verdict)
    BY <2>1 DEF VerdictOK, Typed, TypeOK, PositionOK
  <2>4. PICK d \in Dispatches, v \in Outcome : d = current /\ v = verdict
    BY <2>2, <2>3
  <2>5. Agrees(commandOf[d], v)
    BY <2>3, <2>4 DEF Agrees
  <2>6. v.sequence \in 0..Len(log) /\ v.tag # None
    BY <1>0, <2>5 DEF Agrees, Plain, None
  <2>7. Ledger!Answer(d)
    BY <1>4, <2>1, <2>2, <2>4, <2>5, <2>6
  <2> QED
    BY <2>7 DEF Ledger!Next
<1> QED
  BY <1>1, <1>2, <1>3, <1>5, <1>6
     DEF Next, Callers, Work, Recovery, Background, Maintenance, Process

\* The engine does what its service interface promises of dispatch: it executes a command at
\* most once, keeps what it refused refused, answers a dispatch at most once, and tells it
\* nothing that contradicts what became of its command.
THEOREM ImplementsLedger == Spec => DispatchIsDeduplicated
<1>1. Init => Ledger!Init
  BY LedgerInit
<1>2. Inv /\ [Next]_vars => [Ledger!Next]_(Ledger!ledger)
  BY LedgerStep
<1> QED
  BY AlwaysInv, <1>1, <1>2, PTL DEF Spec, DispatchIsDeduplicated, Ledger!Spec
-----------------------------------------------------------------------------------
\* No dispatch is forgotten.

\* An unanswered envelope stays in the queue or with the worker at every step but a crash, which
\* its caller does not survive.
LEMMA OwedStep == Inv /\ AnswerIsOwed /\ [Next]_vars => AnswerIsOwed'
<1> SUFFICES ASSUME Inv, AnswerIsOwed, [Next]_vars PROVE AnswerIsOwed'
  OBVIOUS
<1> USE DEF Inv
<1>0. /\ commandQueue \in Seq(Dispatches) /\ executionState \in [Dispatches -> ExecutionStates]
      /\ reply \in [Dispatches -> Outcome] /\ phase \in Phases
  BY DEF Typed, TypeOK, CallersOK, PositionOK
<1>1. CASE UNCHANGED <<commandQueue, executionState, reply, current>>
  BY <1>1 DEF AnswerIsOwed
<1>2. CASE Lookup \/ FailBeforeCommit \/ Reject \/ Commit \/ AdvanceModel \/ Defer
           \/ DeferFails \/ DeferDirty \/ Schedule \/ Fork \/ Publish \/ Interrupt \/ Defect
           \/ Reconcile \/ ReconcileFails \/ Resolve \/ RecordRejection \/ CatchUp
           \/ CatchUpFails \/ BeginRepair \/ RepairSucceeds \/ RepairFails \/ Restart
           \/ RestartFails \/ UNCHANGED vars
  <2>1. UNCHANGED <<commandQueue, executionState, reply, current>>
    BY <1>2 DEF Lookup, FailBeforeCommit, Reject, Commit, AdvanceModel, Defer, DeferFails,
                DeferDirty, Schedule, Fork, Publish, Interrupt, Defect, Cut, Reconcile,
                ReconcileFails, Resolve, RecordRejection, CatchUp, CatchUpFails, BeginRepair,
                RepairSucceeds, RepairFails, EndRepair, Restart, RestartFails, vars, callers,
                position
  <2> QED
    BY <1>1, <2>1
<1>3. ASSUME NEW d \in Dispatches, Dispatch(d) PROVE AnswerIsOwed'
  <2>1. /\ executionState[d] = "unused" /\ UNCHANGED <<reply, current>>
        /\ executionState' = [executionState EXCEPT ![d] = "queued"]
        /\ commandQueue' = Append(commandQueue, d)
    BY <1>3 DEF Dispatch, position
  <2>2. /\ \A i \in DOMAIN commandQueue : i \in DOMAIN Append(commandQueue, d)
                                          /\ Append(commandQueue, d)[i] = commandQueue[i]
        /\ Len(commandQueue) + 1 \in DOMAIN Append(commandQueue, d)
        /\ Append(commandQueue, d)[Len(commandQueue) + 1] = d
    BY <1>0
  <2>3. /\ \A i \in DOMAIN commandQueue : i \in DOMAIN commandQueue'
                                          /\ commandQueue'[i] = commandQueue[i]
        /\ \E i \in DOMAIN commandQueue' : commandQueue'[i] = d
    BY <2>1, <2>2
  <2>4. executionState'[d] = "queued" /\ \A e \in Dispatches : e # d => executionState'[e] = executionState[e]
    BY <1>0, <2>1
  <2> QED
    BY <2>1, <2>3, <2>4 DEF AnswerIsOwed
<1>4. ASSUME NEW d \in Dispatches, Expire(d) PROVE AnswerIsOwed'
  BY <1>1, <1>4 DEF Expire, position
<1>5. ASSUME NEW d \in Dispatches, Abandon(d) PROVE AnswerIsOwed'
  <2>1. /\ executionState' = [executionState EXCEPT ![d] = "abandoned"]
        /\ reply' = [reply EXCEPT ![d] = Plain("timeout")]
        /\ UNCHANGED <<commandQueue, current>>
    BY <1>5 DEF Abandon, position
  <2>2. /\ executionState'[d] = "abandoned" /\ reply'[d].tag = "timeout"
        /\ \A e \in Dispatches : e # d => executionState'[e] = executionState[e] /\ reply'[e] = reply[e]
    BY <1>0, <2>1 DEF Plain
  <2> QED
    BY <2>1, <2>2 DEF AnswerIsOwed, None
<1>6. CASE Take
  <2>1. /\ phase = "idle" /\ commandQueue # <<>> /\ current' = Head(commandQueue)
        /\ commandQueue' = Tail(commandQueue) /\ UNCHANGED <<executionState, reply>>
    BY <1>6 DEF Take
  <2>2. \A i \in DOMAIN commandQueue :
          \/ commandQueue[i] = Head(commandQueue)
          \/ i - 1 \in DOMAIN Tail(commandQueue) /\ Tail(commandQueue)[i - 1] = commandQueue[i]
    BY <1>0, <2>1
  <2>3. \A i \in DOMAIN commandQueue :
          commandQueue[i] = current' \/ \E j \in DOMAIN commandQueue' : commandQueue'[j] = commandQueue[i]
    BY <2>1, <2>2
  <2>4. \A d \in Dispatches : d # current
    BY <2>1, DispatchesAssumption DEF Typed, TypeOK, PositionOK, None
  <2> QED
    BY <2>1, <2>3, <2>4 DEF AnswerIsOwed
<1>7. CASE Skip
  <2>1. /\ executionState[current] = "abandoned" /\ UNCHANGED <<commandQueue, executionState, reply>>
    BY <1>7 DEF Skip, ShouldSkip, callers
  <2> QED
    BY <2>1 DEF AnswerIsOwed
<1>8. CASE Start
  <2>1. /\ current \in Dispatches /\ UNCHANGED <<commandQueue, reply, current>>
        /\ executionState' = [executionState EXCEPT ![current] = "in-flight"]
    BY <1>8, InHand DEF Start
  <2>2. /\ executionState'[current] = "in-flight"
        /\ \A e \in Dispatches : e # current => executionState'[e] = executionState[e]
    BY <1>0, <2>1
  <2> QED
    BY <2>1, <2>2 DEF AnswerIsOwed
<1>9. CASE Answer
  <2>1. /\ phase \in {"answering", "replying"} /\ reply' = [reply EXCEPT ![current] = verdict]
        /\ UNCHANGED <<commandQueue, executionState>> /\ current \in Dispatches
    BY <1>9, InHand DEF Answer
  <2>2. verdict.tag # None
    BY <2>1 DEF VerdictOK, Agrees, Plain, None
  <2>3. reply'[current] = verdict /\ \A e \in Dispatches : e # current => reply'[e] = reply[e]
    BY <1>0, <2>1
  <2> QED
    BY <2>1, <2>2, <2>3 DEF AnswerIsOwed
<1>10. CASE Crash
  <2>1. /\ UNCHANGED reply
        /\ executionState' = [d \in Dispatches |->
                                 IF executionState[d] # "unused" /\ reply[d].tag = None
                                 THEN "lost" ELSE executionState[d]]
    BY <1>10 DEF Crash
  <2> QED
    BY <2>1 DEF AnswerIsOwed
<1> QED
  BY <1>2, <1>3, <1>4, <1>5, <1>6, <1>7, <1>8, <1>9, <1>10
     DEF Next, Callers, Work, Recovery, Background, Maintenance, Process

\* No caller waits for an answer that nobody will give: through deadlines, defects, failed
\* transactions, repairs and restarts the envelope of an unanswered dispatch is in the queue or
\* with the worker, and the worker drops only what its caller has given up.
THEOREM NoDispatchIsForgotten == Spec => []AnswerIsOwed
<1>1. Init => AnswerIsOwed
  BY DEF Init, AnswerIsOwed
<1> QED
  BY AlwaysInv, <1>1, OwedStep, PTL DEF Spec
=====================================================================================
