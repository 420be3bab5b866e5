--------------------------- MODULE AutomationRunsProofs ---------------------------
(***************************************************************************)
(* What AutomationRunsProperties says of an automation's runs, for any     *)
(* number of servers, any plan and any number of runs.  The table of runs  *)
(* comes first: whatever a step is, RowsStep is all it does to the table,  *)
(* and what the guards of the repository's statements promise follows from *)
(* that alone.  Then the fibers: what each may rely on where it is, and    *)
(* that no step of another takes it away.  Then where a step of a fiber    *)
(* leads and what it writes to the definition: types, stop conditions and  *)
(* the order of stop checks and new runs.  Last, the order of a schedule:  *)
(* one pass at a time takes an occurrence, makes its run, moves the        *)
(* schedule on and only then launches.                                     *)
(***************************************************************************)
EXTENDS AutomationRunsProperties, FiniteSetTheorems, TLAPS

-----------------------------------------------------------------------------------
\* The table of runs.

Columns(row) == [trigger |-> row.trigger, slot |-> row.slot, thread |-> row.thread,
                 status |-> row.status, result |-> row.result, evaluated |-> row.evaluated]

Table ==
    /\ \E V : runs \in Seq(V)
    /\ \E V : planned \in Seq(V)
    /\ Len(planned) = Len(runs)
    /\ \A r \in DOMAIN runs : runs[r] = Columns(runs[r])

NewRow(trigger, slot, thread) ==
    [trigger |-> trigger, slot |-> slot, thread |-> thread, status |-> "pending",
     result |-> "none", evaluated |-> "no"]

\* Is a run of this trigger and slot named for the occurrence as it was planned?
Named(trigger, slot, occurrence) ==
    \/ trigger = "manual" /\ occurrence = 0
    \/ trigger = "scheduled" /\ (plan.misfire # "run-latest" => slot = occurrence)

Created(trigger, slot, thread, occurrence) ==
    /\ Inserts(trigger, slot, thread) /\ Named(trigger, slot, occurrence)
    /\ runs' = Append(runs, NewRow(trigger, slot, thread))
    /\ planned' = Append(planned, occurrence)

\* A status is only replaced where the row is open, and only an active one by an active one.
Marked(r, from, status) ==
    /\ from \subseteq Open /\ (status \in Active => from \subseteq Active)
    /\ Mark(r, from, status) /\ planned' = planned

Written(r, result) ==
    runs' = [runs EXCEPT ![r].result = result, ![r].evaluated = "no"] /\ planned' = planned

Evaluated(r, note) == runs' = [runs EXCEPT ![r].evaluated = note] /\ planned' = planned

Succeeds(r) ==
    /\ runs[r].status \in Open /\ planned' = planned
    /\ runs' = [runs EXCEPT ![r].status = "succeeded", ![r].result = "succeeded", ![r].evaluated = "no"]

RowsStep ==
    \/ UNCHANGED <<runs, planned>>
    \/ \E trigger, slot, thread, occurrence : Created(trigger, slot, thread, occurrence)
    \/ \E r, from, status : Marked(r, from, status)
    \/ \E r, result : Written(r, result)
    \/ \E r, note : Evaluated(r, note)
    \/ \E r : Succeeds(r)

\* A statement that was to add a row has added it, or there was one already.
LEMMA CreateIsRowsStep ==
    ASSUME NEW trigger, NEW slot, NEW thread, NEW occurrence,
           CreateRun(trigger, slot, thread, occurrence), Named(trigger, slot, occurrence)
    PROVE  RowsStep
<1>1. CASE Inserts(trigger, slot, thread)
  <2>1. Created(trigger, slot, thread, occurrence)
    BY <1>1 DEF CreateRun, Created, NewRow
  <2> QED
    BY <2>1 DEF RowsStep
<1>2. CASE ~Inserts(trigger, slot, thread)
  BY <1>2 DEF CreateRun, RowsStep
<1> QED
  BY <1>1, <1>2

LEMMA MarkIsRowsStep ==
    ASSUME NEW r, NEW from, NEW status, Mark(r, from, status), UNCHANGED planned,
           from \subseteq Open, status \in Active => from \subseteq Active
    PROVE  RowsStep
BY DEF RowsStep, Marked

LEMMA StatusFacts ==
    /\ Active \subseteq Open /\ {"pending"} \subseteq Open /\ Startable \subseteq Active
    /\ {"pending", "running"} \subseteq Active /\ "running" \in Active /\ "waiting" \in Active
    /\ \A s \in Final : s \notin Active
    /\ {"skipped", "failed", "cancelled", "interrupted"} \subseteq Final
BY DEF Active, Open, Startable, Final

LEMMA ResultIsRowsStep ==
    ASSUME NEW r, NEW result, MarkResult(r, result), UNCHANGED planned
    PROVE  RowsStep
BY DEF RowsStep, Written, MarkResult

LEMMA PassRows ==
    ASSUME NEW f \in Fibers, Pass(f)
    PROVE  RowsStep /\ plan' = plan
<1>1. CASE DisableCapped(f)
  BY <1>1 DEF DisableCapped, RowsStep, rows, scheduling
<1>2. CASE CountActive(f)
  BY <1>2 DEF CountActive, RowsStep, rows, scheduling
<1>3. CASE CheckPending(f)
  BY <1>3 DEF CheckPending, RowsStep, rows, scheduling
<1>4. CASE RecordMissed(f)
  BY <1>4, CreateIsRowsStep DEF RecordMissed, ScheduledFor, Named, scheduling
<1>5. CASE MarkSkipped(f)
  BY <1>5, MarkIsRowsStep, StatusFacts DEF MarkSkipped, scheduling
<1>6. CASE CreateDue(f)
  BY <1>6, CreateIsRowsStep DEF CreateDue, ScheduledFor, Named, scheduling
<1>7. CASE Advance(f)
  BY <1>7 DEF Advance, RowsStep, rows, scheduling
<1>8. CASE IncrementIterations(f)
  BY <1>8 DEF IncrementIterations, RowsStep, rows, scheduling
<1> QED
  BY <1>1, <1>2, <1>3, <1>4, <1>5, <1>6, <1>7, <1>8 DEF Pass

LEMMA DispatchRows ==
    ASSUME NEW f \in Fibers, Dispatch(f)
    PROVE  RowsStep /\ plan' = plan
<1>1. CASE MarkStarted(f)
  BY <1>1, MarkIsRowsStep, StatusFacts DEF MarkStarted, scheduling
<1>2. CASE CheckBeforeTree(f)
  BY <1>2 DEF CheckBeforeTree, RowsStep, rows, scheduling
<1>3. CASE MakeTree(f)
  BY <1>3 DEF MakeTree, RowsStep, rows, scheduling
<1>4. CASE CheckBeforeThread(f)
  BY <1>4 DEF CheckBeforeThread, RowsStep, rows, scheduling
<1>5. CASE CreateThread(f)
  BY <1>5 DEF CreateThread, RowsStep, rows, scheduling
<1>6. CASE CheckBeforeTurn(f)
  BY <1>6 DEF CheckBeforeTurn, RowsStep, rows, scheduling
<1>7. CASE Launch(f)
  BY <1>7 DEF Launch, RowsStep, rows, scheduling
<1> QED
  BY <1>1, <1>2, <1>3, <1>4, <1>5, <1>6, <1>7 DEF Dispatch

LEMMA SettleRows ==
    ASSUME NEW f \in Fibers, Settle(f)
    PROVE  RowsStep /\ plan' = plan
<1>1. CASE MarkFailed(f)
  BY <1>1, MarkIsRowsStep, StatusFacts DEF MarkFailed, scheduling
<1>2. CASE WriteResult(f)
  BY <1>2, ResultIsRowsStep DEF WriteResult, scheduling
<1>3. CASE StopLoop(f)
  BY <1>3 DEF StopLoop, RowsStep, rows, scheduling
<1>4. CASE DisableStopped(f)
  BY <1>4 DEF DisableStopped, RowsStep, rows, scheduling
<1> QED
  BY <1>1, <1>2, <1>3, <1>4 DEF Settle

LEMMA CallRows ==
    ASSUME NEW f \in Fibers, Call(f)
    PROVE  RowsStep /\ plan' = plan
<1>1. CASE RestartLoop(f)
  BY <1>1 DEF RestartLoop, RowsStep, rows, scheduling
<1>2. CASE CreateManual(f)
  BY <1>2, CreateIsRowsStep DEF CreateManual, Named, scheduling
<1>3. CASE CancelRun(f)
  <2>1. PICK r \in fiber[f].left : Mark(r, Active, "cancelled")
    BY <1>3 DEF CancelRun
  <2> QED
    BY <1>3, <2>1, MarkIsRowsStep, StatusFacts DEF CancelRun, scheduling
<1>4. CASE WriteCancelled(f)
  BY <1>4, ResultIsRowsStep DEF WriteCancelled, scheduling
<1>5. CASE EndCancelling(f)
  BY <1>5 DEF EndCancelling, RowsStep, rows, scheduling
<1>6. CASE SaveEdit(f)
  BY <1>6 DEF SaveEdit, RowsStep, rows, scheduling
<1> QED
  BY <1>1, <1>2, <1>3, <1>4, <1>5, <1>6 DEF Call

LEMMA WatchRows ==
    ASSUME NEW f \in Fibers, Watch(f)
    PROVE  RowsStep /\ plan' = plan
<1>1. CASE ReadTurn(f)
  BY <1>1 DEF ReadTurn, RowsStep, rows, scheduling
<1>2. CASE MarkVerdict(f)
  <2> DEFINE r == fiber[f].run
             note == fiber[f].note
  <2>0. UNCHANGED <<planned, plan>>
    BY <1>2 DEF MarkVerdict, scheduling
  <2>1. CASE note = "waiting"
    BY <1>2, <2>0, <2>1, MarkIsRowsStep, StatusFacts DEF MarkVerdict
  <2>2. CASE note = "running"
    BY <1>2, <2>0, <2>2, MarkIsRowsStep, StatusFacts DEF MarkVerdict
  <2>3. CASE note \in {"failed", "interrupted"}
    BY <1>2, <2>0, <2>3, MarkIsRowsStep, StatusFacts DEF MarkVerdict
  <2>4. CASE note = "succeeded"
    BY <1>2, <2>0, <2>4 DEF MarkVerdict, RowsStep, Succeeds
  <2> QED
    BY <1>2, <2>1, <2>2, <2>3, <2>4 DEF MarkVerdict
<1>3. CASE ListRecoverable(f)
  BY <1>3 DEF ListRecoverable, RowsStep, rows, scheduling
<1>4. CASE Recover(f)
  BY <1>4 DEF Recover, RowsStep, rows, scheduling
<1>5. CASE Retire(f)
  BY <1>5, MarkIsRowsStep, StatusFacts DEF Retire, scheduling
<1> QED
  BY <1>1, <1>2, <1>3, <1>4, <1>5 DEF Watch

LEMMA CheckRows ==
    ASSUME NEW f \in Fibers, Check(f)
    PROVE  RowsStep /\ plan' = plan
<1>1. CASE Evaluate(f)
  BY <1>1 DEF Evaluate, RowsStep, rows, scheduling
<1>2. CASE DisableMatched(f)
  BY <1>2 DEF DisableMatched, RowsStep, rows, scheduling
<1>3. CASE Record(f)
  BY <1>3 DEF Record, RowsStep, Evaluated, scheduling
<1> QED
  BY <1>1, <1>2, <1>3 DEF Check

LEMMA NextRows ==
    ASSUME [Next]_vars
    PROVE  RowsStep /\ plan' = plan
<1>1. ASSUME NEW f \in Fibers, Works(f)
      PROVE  RowsStep /\ plan' = plan
  BY <1>1, PassRows, DispatchRows, SettleRows, CallRows, WatchRows, CheckRows DEF Works
<1>2. ASSUME NEW f \in Fibers, DispatchFails(f) \/ \E r \in DOMAIN runs : ReadRun(f, r)
      PROVE  RowsStep /\ plan' = plan
  BY <1>2 DEF DispatchFails, ReadRun, RowsStep, rows, scheduling
<1>3. ASSUME NEW s \in Servers, StartPass(s) \/ TimeOut(s) \/ EnqueueChecks(s) \/ TakeJob(s)
      PROVE  RowsStep /\ plan' = plan
  BY <1>3 DEF StartPass, TimeOut, EnqueueChecks, TakeJob, RowsStep, rows, scheduling
<1>4. ASSUME NEW s \in Servers, RunNow(s) \/ Cancel(s) \/ Crash(s) \/ Boot(s)
      PROVE  RowsStep /\ plan' = plan
  BY <1>4 DEF RunNow, Cancel, Crash, Boot, RowsStep, rows, scheduling
<1>5. ASSUME NEW s \in Servers, NEW kind, Edit(s, kind)
      PROVE  RowsStep /\ plan' = plan
  BY <1>5 DEF Edit, RowsStep, rows, scheduling
<1>6. ASSUME NEW r \in DOMAIN runs, TurnMoves(r) \/ TurnLost(r)
      PROVE  RowsStep /\ plan' = plan
  BY <1>6 DEF TurnMoves, TurnLost, RowsStep, scheduling
<1>7. Tick \/ UNCHANGED vars => RowsStep /\ plan' = plan
  BY DEF Tick, vars, history, RowsStep, rows
<1> QED
  BY <1>1, <1>2, <1>3, <1>4, <1>5, <1>6, <1>7 DEF Next

-----------------------------------------------------------------------------------
\* What that does to a row.

LEMMA AppendFacts ==
    ASSUME NEW V, NEW s \in Seq(V), NEW e
    PROVE  /\ Append(s, e) \in Seq(V \cup {e}) /\ Len(Append(s, e)) = Len(s) + 1
           /\ DOMAIN Append(s, e) = DOMAIN s \cup {Len(s) + 1} /\ Len(s) + 1 \notin DOMAIN s
           /\ Append(s, e)[Len(s) + 1] = e /\ \A j \in DOMAIN s : Append(s, e)[j] = s[j]
<1>1. s \in Seq(V \cup {e})
  OBVIOUS
<1> QED
  BY <1>1

LEMMA AppendIn ==
    ASSUME NEW V, NEW s \in Seq(V), NEW e \in V
    PROVE  Append(s, e) \in Seq(V)
OBVIOUS

LEMMA RangeIsSeq ==
    ASSUME NEW n \in Nat, NEW S, NEW f \in [1 .. n -> S]
    PROVE  f \in Seq(S) /\ Len(f) = n
OBVIOUS

\* The guards of the statements, row by row.
RowsMove ==
    /\ \A r \in DOMAIN runs :
        /\ r \in DOMAIN runs' /\ planned'[r] = planned[r]
        /\ runs'[r].trigger = runs[r].trigger /\ runs'[r].slot = runs[r].slot
        /\ runs'[r].thread = runs[r].thread
        /\ \/ runs'[r].status = runs[r].status
           \/ runs[r].status \in Open /\ (runs'[r].status \in Active => runs[r].status \in Active)
    /\ \A r \in DOMAIN runs' \ DOMAIN runs :
        /\ DOMAIN runs' = DOMAIN runs \cup {r}
        /\ Inserts(runs'[r].trigger, runs'[r].slot, runs'[r].thread)
        /\ Named(runs'[r].trigger, runs'[r].slot, planned'[r])

LEMMA OneRowChanges ==
    ASSUME Table, NEW r, NEW row, row = Columns(row), runs' = [runs EXCEPT ![r] = row],
           planned' = planned,
           r \in DOMAIN runs =>
               /\ row.trigger = runs[r].trigger /\ row.slot = runs[r].slot
               /\ row.thread = runs[r].thread
               /\ \/ row.status = runs[r].status
                  \/ runs[r].status \in Open /\ (row.status \in Active => runs[r].status \in Active)
    PROVE  Table' /\ RowsMove
<1>1. PICK V : runs \in Seq(V)
  BY DEF Table
<1>2. /\ runs' \in Seq(V \cup {row}) /\ DOMAIN runs' = DOMAIN runs /\ Len(runs') = Len(runs)
      /\ \A q \in DOMAIN runs : runs'[q] = IF q = r THEN row ELSE runs[q]
  <2>1. PICK n \in Nat : n = Len(runs) /\ DOMAIN runs = 1 .. n
    BY <1>1
  <2>2. runs' = [j \in 1 .. n |-> IF j = r THEN row ELSE runs[j]]
    BY <1>1, <2>1
  <2>3. \A j \in 1 .. n : runs[j] \in V
    BY <1>1, <2>1
  <2>4. runs' \in [1 .. n -> V \cup {row}]
    BY <2>2, <2>3
  <2>5. runs' \in Seq(V \cup {row}) /\ Len(runs') = n
    BY <2>1, <2>4, RangeIsSeq, ZenonT(60)
  <2> QED
    BY <2>1, <2>2, <2>5
<1>3. Table'
  BY <1>2 DEF Table
<1>4. RowsMove
  BY <1>2 DEF RowsMove
<1> QED
  BY <1>3, <1>4

LEMMA NoRowChanges ==
    ASSUME Table, UNCHANGED <<runs, planned>>
    PROVE  Table' /\ RowsMove
BY DEF Table, RowsMove

LEMMA CreatedMoves ==
    ASSUME Table, NEW trigger, NEW slot, NEW thread, NEW occurrence,
           Created(trigger, slot, thread, occurrence)
    PROVE  Table' /\ RowsMove
<1>1. PICK V : runs \in Seq(V)
  BY DEF Table
<1>2. PICK W : planned \in Seq(W)
  BY DEF Table
<1>3. PICK row : row = NewRow(trigger, slot, thread)
  OBVIOUS
<1>4. /\ row = Columns(row) /\ row.trigger = trigger /\ row.slot = slot /\ row.thread = thread
  BY <1>3 DEF NewRow, Columns
<1>5. PICK n \in Nat : n = Len(runs) + 1 /\ n = Len(planned) + 1
  BY <1>1, <1>2 DEF Table
<1>6. /\ runs' \in Seq(V \cup {row}) /\ Len(runs') = Len(runs) + 1
      /\ DOMAIN runs' = DOMAIN runs \cup {n} /\ n \notin DOMAIN runs
      /\ runs'[n] = row /\ \A r \in DOMAIN runs : runs'[r] = runs[r]
  BY <1>1, <1>3, <1>5, AppendFacts DEF Created
<1>7. /\ planned' \in Seq(W \cup {occurrence}) /\ Len(planned') = Len(planned) + 1
      /\ planned'[n] = occurrence /\ \A r \in DOMAIN planned : planned'[r] = planned[r]
  BY <1>2, <1>5, AppendFacts DEF Created
<1>8. DOMAIN planned = DOMAIN runs
  BY <1>1, <1>2 DEF Table
<1>9. Table'
  <2>1. \A r \in DOMAIN runs' : runs'[r] = Columns(runs'[r])
    BY <1>4, <1>6 DEF Table
  <2>2. Len(planned') = Len(runs')
    BY <1>6, <1>7 DEF Table
  <2> QED
    BY <1>6, <1>7, <2>1, <2>2 DEF Table
<1>10. RowsMove
  <2>1. Inserts(row.trigger, row.slot, row.thread) /\ Named(row.trigger, row.slot, occurrence)
    BY <1>4 DEF Created
  <2> QED
    BY <1>6, <1>7, <1>8, <2>1 DEF RowsMove
<1> QED
  BY <1>9, <1>10

LEMMA MarkedMoves ==
    ASSUME Table, NEW r, NEW from, NEW status, Marked(r, from, status)
    PROVE  Table' /\ RowsMove
<1>1. CASE r \in DOMAIN runs /\ runs[r].status \in from
  <2>1. PICK row : row = [runs[r] EXCEPT !.status = status]
    OBVIOUS
  <2>2. row = [trigger |-> runs[r].trigger, slot |-> runs[r].slot, thread |-> runs[r].thread,
               status |-> status, result |-> runs[r].result, evaluated |-> runs[r].evaluated]
    BY <1>1, <2>1 DEF Table, Columns
  <2>3. /\ row = Columns(row) /\ row.trigger = runs[r].trigger /\ row.slot = runs[r].slot
        /\ row.thread = runs[r].thread /\ row.status = status
    BY <2>2 DEF Columns
  <2>4. runs' = [runs EXCEPT ![r] = row] /\ planned' = planned
    BY <1>1, <2>1 DEF Marked, Mark
  <2>5. runs[r].status \in Open /\ (status \in Active => runs[r].status \in Active)
    BY <1>1 DEF Marked
  <2> QED
    BY <2>3, <2>4, <2>5, OneRowChanges
<1>2. CASE ~(r \in DOMAIN runs /\ runs[r].status \in from)
  <2>1. runs' = runs /\ planned' = planned
    BY <1>2 DEF Marked, Mark, Table
  <2> QED
    BY <2>1, NoRowChanges
<1> QED
  BY <1>1, <1>2

LEMMA WrittenMoves ==
    ASSUME Table, NEW r, NEW result, Written(r, result)
    PROVE  Table' /\ RowsMove
<1>1. PICK row : row = [runs[r] EXCEPT !.result = result, !.evaluated = "no"]
  OBVIOUS
<1>2. CASE r \in DOMAIN runs
  <2>1. row = [trigger |-> runs[r].trigger, slot |-> runs[r].slot, thread |-> runs[r].thread,
               status |-> runs[r].status, result |-> result, evaluated |-> "no"]
    <3>1. PICK old : old = runs[r] /\ old = Columns(old)
      BY <1>2 DEF Table
    <3>2. PICK new : new = [old EXCEPT !.result = result]
      OBVIOUS
    <3>3. new = [trigger |-> old.trigger, slot |-> old.slot, thread |-> old.thread,
                 status |-> old.status, result |-> result, evaluated |-> old.evaluated]
      BY <3>1, <3>2 DEF Columns
    <3>4. row = [new EXCEPT !.evaluated = "no"]
      BY <1>1, <3>1, <3>2
    <3> QED
      BY <3>1, <3>3, <3>4
  <2>2. /\ row = Columns(row) /\ row.trigger = runs[r].trigger /\ row.slot = runs[r].slot
        /\ row.thread = runs[r].thread /\ row.status = runs[r].status
    BY <2>1 DEF Columns
  <2>3. runs' = [runs EXCEPT ![r] = row] /\ planned' = planned
    BY <1>1, <1>2 DEF Written, Table
  <2> QED
    BY <2>2, <2>3, OneRowChanges
<1>3. CASE r \notin DOMAIN runs
  <2>1. runs' = runs /\ planned' = planned
    BY <1>3 DEF Written, Table
  <2> QED
    BY <2>1, NoRowChanges
<1> QED
  BY <1>2, <1>3

LEMMA EvaluatedMoves ==
    ASSUME Table, NEW r, NEW note, Evaluated(r, note)
    PROVE  Table' /\ RowsMove
<1>1. PICK row : row = [runs[r] EXCEPT !.evaluated = note]
  OBVIOUS
<1>2. CASE r \in DOMAIN runs
  <2>1. row = [trigger |-> runs[r].trigger, slot |-> runs[r].slot, thread |-> runs[r].thread,
               status |-> runs[r].status, result |-> runs[r].result, evaluated |-> note]
    BY <1>1, <1>2 DEF Table, Columns
  <2>2. /\ row = Columns(row) /\ row.trigger = runs[r].trigger /\ row.slot = runs[r].slot
        /\ row.thread = runs[r].thread /\ row.status = runs[r].status
    BY <2>1 DEF Columns
  <2>3. runs' = [runs EXCEPT ![r] = row] /\ planned' = planned
    BY <1>1, <1>2 DEF Evaluated
  <2> QED
    BY <2>2, <2>3, OneRowChanges
<1>3. CASE r \notin DOMAIN runs
  <2>1. runs' = runs /\ planned' = planned
    BY <1>3 DEF Evaluated, Table
  <2> QED
    BY <2>1, NoRowChanges
<1> QED
  BY <1>2, <1>3

LEMMA SucceedsMoves ==
    ASSUME Table, NEW r, Succeeds(r)
    PROVE  Table' /\ RowsMove
<1>1. PICK row : row = [runs[r] EXCEPT !.status = "succeeded", !.result = "succeeded",
                                       !.evaluated = "no"]
  OBVIOUS
<1>2. CASE r \in DOMAIN runs
  <2>1. row = [trigger |-> runs[r].trigger, slot |-> runs[r].slot, thread |-> runs[r].thread,
               status |-> "succeeded", result |-> "succeeded", evaluated |-> "no"]
    <3>1. PICK old : old = runs[r] /\ old = Columns(old)
      BY <1>2 DEF Table
    <3>2. PICK new : new = [old EXCEPT !.status = "succeeded"]
      OBVIOUS
    <3>3. new = [trigger |-> old.trigger, slot |-> old.slot, thread |-> old.thread,
                 status |-> "succeeded", result |-> old.result, evaluated |-> old.evaluated]
      BY <3>1, <3>2 DEF Columns
    <3>4. PICK newer : newer = [new EXCEPT !.result = "succeeded"]
      OBVIOUS
    <3>5. newer = [trigger |-> old.trigger, slot |-> old.slot, thread |-> old.thread,
                   status |-> "succeeded", result |-> "succeeded", evaluated |-> old.evaluated]
      BY <3>3, <3>4
    <3>6. row = [newer EXCEPT !.evaluated = "no"]
      BY <1>1, <3>1, <3>2, <3>4
    <3> QED
      BY <3>1, <3>5, <3>6
  <2>2. /\ row = Columns(row) /\ row.trigger = runs[r].trigger /\ row.slot = runs[r].slot
        /\ row.thread = runs[r].thread /\ row.status \notin Active
    BY <2>1 DEF Columns, Active
  <2>3. runs' = [runs EXCEPT ![r] = row] /\ planned' = planned /\ runs[r].status \in Open
    BY <1>1, <1>2 DEF Succeeds, Table
  <2> QED
    BY <2>2, <2>3, OneRowChanges
<1>3. CASE r \notin DOMAIN runs
  <2>1. runs' = runs /\ planned' = planned
    BY <1>3 DEF Succeeds, Table
  <2> QED
    BY <2>1, NoRowChanges
<1> QED
  BY <1>2, <1>3

LEMMA TableMoves ==
    ASSUME Table, [Next]_vars
    PROVE  Table' /\ RowsMove /\ plan' = plan
BY NextRows, NoRowChanges, CreatedMoves, MarkedMoves, WrittenMoves, EvaluatedMoves, SucceedsMoves
   DEF RowsStep

LEMMA TableInit == Init => Table
<1> SUFFICES ASSUME Init PROVE Table
  OBVIOUS
<1>1. runs \in Seq({}) /\ planned \in Seq({}) /\ Len(runs) = Len(planned) /\ DOMAIN runs = {}
  BY DEF Init
<1> QED
  BY <1>1 DEF Table

LEMMA TableAlways == Spec => []Table
<1>1. Table /\ [Next]_vars => Table'
  BY TableMoves
<1> QED
  BY <1>1, TableInit, PTL DEF Spec

-----------------------------------------------------------------------------------
\* A run that is settled.

\* A run that is settled stays as it is: the guards of AutomationRepository's updates.
THEOREM SettledStays == Spec => FinalStays
<1>1. ASSUME Table, [Next]_vars, NEW r \in DOMAIN runs, runs[r].status \in Final \ {"skipped"}
      PROVE  runs'[r].status = runs[r].status
  <2>1. runs[r].status \notin Open
    BY <1>1 DEF Final, Open, Active
  <2> QED
    BY <1>1, <2>1, TableMoves DEF RowsMove
<1>2. Table /\ [Next]_vars =>
        [\A r \in DOMAIN runs :
            runs[r].status \in Final \ {"skipped"} => runs'[r].status = runs[r].status]_vars
  BY <1>1
<1> QED
  BY <1>2, TableAlways, PTL DEF FinalStays, Spec

-----------------------------------------------------------------------------------
\* One active run on the thread of a heartbeat.

OneActive ==
    \A r, q \in DOMAIN runs :
        /\ runs[r].thread = "target" /\ runs[q].thread = "target" /\ IsActive(r) /\ IsActive(q)
        => r = q

\* The index lets a row in where no active one is, and no statement makes a settled run active.
LEMMA OneActiveStep ==
    ASSUME Table, OneActive, [Next]_vars
    PROVE  OneActive'
<1>1. RowsMove
  BY TableMoves
<1>2. \A r \in DOMAIN runs : IsActive(r)' => IsActive(r)
  BY <1>1 DEF RowsMove, IsActive
<1>3. \A r \in DOMAIN runs' \ DOMAIN runs :
        runs'[r].thread = "target" => \A q \in DOMAIN runs : ~(runs[q].thread = "target" /\ IsActive(q))
  BY <1>1 DEF RowsMove, Inserts, Busy
<1>4. \A r, q \in DOMAIN runs' \ DOMAIN runs : r = q
  BY <1>1 DEF RowsMove
<1>5. \A r \in DOMAIN runs : runs'[r].thread = runs[r].thread
  BY <1>1 DEF RowsMove
<1> QED
  BY <1>2, <1>3, <1>4, <1>5 DEF OneActive

\* A thread has one run at a time that is not settled, whoever claims it: createRun and its index.
THEOREM ThreadIsExclusive == Spec => []ThreadExclusive
<1>1. Init => OneActive
  BY DEF Init, OneActive
<1>2. Table /\ OneActive /\ [Next]_vars => OneActive'
  BY OneActiveStep
<1>3. OneActive => ThreadExclusive
  <2> SUFFICES ASSUME OneActive
               PROVE  Cardinality(Busy("target")) <= 1
    BY DEF ThreadExclusive
  <2>1. CASE Busy("target") = {}
    BY <2>1, FS_EmptySet
  <2>2. CASE Busy("target") # {}
    <3>1. PICK r : r \in Busy("target")
      BY <2>2
    <3>2. Busy("target") = {r}
      BY <3>1 DEF Busy, OneActive
    <3> QED
      BY <3>2, FS_Singleton
  <2> QED
    BY <2>1, <2>2
<1> QED
  BY <1>1, <1>2, <1>3, TableAlways, PTL DEF Spec

-----------------------------------------------------------------------------------
\* One run for an occurrence.

OneForEach ==
    plan.misfire # "run-latest" =>
        /\ \A r \in DOMAIN runs : Named(runs[r].trigger, runs[r].slot, planned[r])
        /\ \A r, q \in DOMAIN runs :
            /\ r # q /\ runs[r].trigger = "scheduled" /\ runs[q].trigger = "scheduled"
            => runs[r].slot # runs[q].slot

LEMMA OneForEachStep ==
    ASSUME Table, OneForEach, [Next]_vars
    PROVE  OneForEach'
<1> SUFFICES ASSUME plan.misfire # "run-latest"
             PROVE  /\ \A r \in DOMAIN runs' : Named(runs[r].trigger, runs[r].slot, planned[r])'
                    /\ \A r, q \in DOMAIN runs' :
                        /\ r # q /\ runs'[r].trigger = "scheduled" /\ runs'[q].trigger = "scheduled"
                        => runs'[r].slot # runs'[q].slot
  BY TableMoves DEF OneForEach
<1>1. RowsMove /\ plan' = plan
  BY TableMoves
<1>2. \A r \in DOMAIN runs' : Named(runs[r].trigger, runs[r].slot, planned[r])'
  BY <1>1, ZenonT(60) DEF RowsMove, OneForEach, Named
<1>3. \A r \in DOMAIN runs' \ DOMAIN runs : runs'[r].trigger = "scheduled" =>
        \A q \in DOMAIN runs : runs[q].trigger = "scheduled" => runs[q].slot # runs'[r].slot
  BY <1>1 DEF RowsMove, Inserts, Taken
<1>4. \A r, q \in DOMAIN runs' \ DOMAIN runs : r = q
  BY <1>1 DEF RowsMove
<1>5. \A r \in DOMAIN runs : runs'[r].trigger = runs[r].trigger /\ runs'[r].slot = runs[r].slot
  BY <1>1 DEF RowsMove
<1>6. \A r, q \in DOMAIN runs' :
        /\ r # q /\ runs'[r].trigger = "scheduled" /\ runs'[q].trigger = "scheduled"
        => runs'[r].slot # runs'[q].slot
  BY <1>3, <1>4, <1>5 DEF OneForEach
<1> QED
  BY <1>2, <1>6

\* No occurrence is run twice under a misfire policy that names a run for its occurrence,
\* whichever schedulers, users and crashes there are: runDueDefinition and the unique index.
LEMMA NamedOnce == Spec => [](plan.misfire # "run-latest" => OncePerOccurrence)
<1>1. Init => OneForEach
  BY DEF Init, OneForEach
<1>2. Table /\ OneForEach /\ [Next]_vars => OneForEach'
  BY OneForEachStep
<1>3. OneForEach => (plan.misfire # "run-latest" => OncePerOccurrence)
  BY DEF OneForEach, OncePerOccurrence, Named
<1> QED
  BY <1>1, <1>2, <1>3, TableAlways, PTL DEF Spec
-----------------------------------------------------------------------------------
\* The fibers.

Held(x) == [at |-> x.at, run |-> x.run, def |-> x.def, time |-> x.time, note |-> x.note,
            left |-> x.left]

FiberTable ==
    fiber = [f \in Fibers |-> fiber[f]] /\ \A f \in Fibers : fiber[f] = Held(fiber[f])

\* Fiber f now holds y.
Becomes(f, y) == y = Held(y) /\ fiber' = [fiber EXCEPT ![f] = y]

\* The updates of a fiber that the actions make, after Goes and GoesWith.
GoesFor(f, at1, run1) == fiber' = [fiber EXCEPT ![f].at = at1, ![f].run = run1]
GoesReading(f, at1, run1, note1) == fiber' = [fiber EXCEPT ![f].at = at1, ![f].run = run1,
    ![f].note = note1]
GoesPlanning(f, at1, time1, def1) == fiber' = [fiber EXCEPT ![f].at = at1, ![f].time = time1,
    ![f].def = def1]
GoesAsking(f, at1, def1, time1) == fiber' = [fiber EXCEPT ![f].at = at1, ![f].def = def1,
    ![f].time = time1]
GoesCancelling(f, at1, left1, note1) == fiber' = [fiber EXCEPT ![f].at = at1, ![f].left =
    left1, ![f].note = note1]
GoesDeleting(f, at1, def1, left1) == fiber' = [fiber EXCEPT ![f].at = at1, ![f].def = def1,
    ![f].left = left1]
GoesNext(f, left1, run1, at1) == fiber' = [fiber EXCEPT ![f].left = left1, ![f].run = run1,
    ![f].at = at1]
GoesRecovering(f, left1, run1, note1, at1) == fiber' = [fiber EXCEPT ![f].left = left1,
    ![f].run = run1, ![f].note = note1, ![f].at = at1]

LEMMA GoesTo ==
    ASSUME FiberTable, NEW f \in Fibers, NEW at1, Goes(f, at1)
    PROVE  \E y : Becomes(f, y) /\ y.at = at1 /\ y.run = fiber[f].run /\ y.note = fiber[f].note
           /\ y.left = fiber[f].left
           /\ y.def = fiber[f].def /\ y.time = fiber[f].time
<1>1. PICK x : x = fiber[f] /\ x = Held(x)
  BY DEF FiberTable
<1>2. PICK h : h = Held(x)
  OBVIOUS
<1>3. PICK y : y = [x EXCEPT !.at = at1]
  OBVIOUS
<1>4. h = [at |-> x.at, run |-> x.run, def |-> x.def, time |-> x.time, note |-> x.note,
           left |-> x.left]
  BY <1>2 DEF Held
<1>5. y = [h EXCEPT !.at = at1]
  BY <1>1, <1>2, <1>3
<1>6. y = [at |-> at1, run |-> x.run, def |-> x.def, time |-> x.time, note |-> x.note, left |->
           x.left]
  BY <1>4, <1>5
<1>7. y = Held(y) /\ y.at = at1 /\ y.run = x.run /\ y.note = x.note /\ y.left = x.left
      /\ y.def = x.def /\ y.time = x.time
  BY <1>6 DEF Held
<1>8. fiber' = [fiber EXCEPT ![f] = y]
  BY <1>1, <1>3 DEF FiberTable, Goes
<1> QED
  BY <1>1, <1>7, <1>8 DEF Becomes

LEMMA GoesWithTo ==
    ASSUME FiberTable, NEW f \in Fibers, NEW at1, NEW note1, GoesWith(f, at1, note1)
    PROVE  \E y : Becomes(f, y) /\ y.at = at1 /\ y.note = note1 /\ y.run = fiber[f].run /\
           y.left = fiber[f].left
           /\ y.def = fiber[f].def /\ y.time = fiber[f].time
<1>1. PICK x : x = fiber[f] /\ x = Held(x)
  BY DEF FiberTable
<1>2. PICK h : h = Held(x)
  OBVIOUS
<1>3. PICK y : y = [x EXCEPT !.at = at1, !.note = note1]
  OBVIOUS
<1>4. h = [at |-> x.at, run |-> x.run, def |-> x.def, time |-> x.time, note |-> x.note,
           left |-> x.left]
  BY <1>2 DEF Held
<1>5. y = [h EXCEPT !.at = at1, !.note = note1]
  BY <1>1, <1>2, <1>3
<1>6. y = [at |-> at1, run |-> x.run, def |-> x.def, time |-> x.time, note |-> note1, left |->
           x.left]
  BY <1>4, <1>5
<1>7. y = Held(y) /\ y.at = at1 /\ y.note = note1 /\ y.run = x.run /\ y.left = x.left
      /\ y.def = x.def /\ y.time = x.time
  BY <1>6 DEF Held
<1>8. fiber' = [fiber EXCEPT ![f] = y]
  BY <1>1, <1>3 DEF FiberTable, GoesWith
<1> QED
  BY <1>1, <1>7, <1>8 DEF Becomes

LEMMA GoesForTo ==
    ASSUME FiberTable, NEW f \in Fibers, NEW at1, NEW run1, GoesFor(f, at1, run1)
    PROVE  \E y : Becomes(f, y) /\ y.at = at1 /\ y.run = run1 /\ y.note = fiber[f].note /\
           y.left = fiber[f].left
           /\ y.def = fiber[f].def /\ y.time = fiber[f].time
<1>1. PICK x : x = fiber[f] /\ x = Held(x)
  BY DEF FiberTable
<1>2. PICK h : h = Held(x)
  OBVIOUS
<1>3. PICK y : y = [x EXCEPT !.at = at1, !.run = run1]
  OBVIOUS
<1>4. h = [at |-> x.at, run |-> x.run, def |-> x.def, time |-> x.time, note |-> x.note,
           left |-> x.left]
  BY <1>2 DEF Held
<1>5. y = [h EXCEPT !.at = at1, !.run = run1]
  BY <1>1, <1>2, <1>3
<1>6. y = [at |-> at1, run |-> run1, def |-> x.def, time |-> x.time, note |-> x.note, left |->
           x.left]
  BY <1>4, <1>5
<1>7. y = Held(y) /\ y.at = at1 /\ y.run = run1 /\ y.note = x.note /\ y.left = x.left
      /\ y.def = x.def /\ y.time = x.time
  BY <1>6 DEF Held
<1>8. fiber' = [fiber EXCEPT ![f] = y]
  BY <1>1, <1>3 DEF FiberTable, GoesFor
<1> QED
  BY <1>1, <1>7, <1>8 DEF Becomes

LEMMA GoesReadingTo ==
    ASSUME FiberTable, NEW f \in Fibers, NEW at1, NEW run1, NEW note1, GoesReading(f, at1,
           run1, note1)
    PROVE  \E y : Becomes(f, y) /\ y.at = at1 /\ y.run = run1 /\ y.note = note1 /\ y.left =
           fiber[f].left
           /\ y.def = fiber[f].def /\ y.time = fiber[f].time
<1>1. PICK x : x = fiber[f] /\ x = Held(x)
  BY DEF FiberTable
<1>2. PICK h : h = Held(x)
  OBVIOUS
<1>3. PICK y : y = [x EXCEPT !.at = at1, !.run = run1, !.note = note1]
  OBVIOUS
<1>4. h = [at |-> x.at, run |-> x.run, def |-> x.def, time |-> x.time, note |-> x.note,
           left |-> x.left]
  BY <1>2 DEF Held
<1>5. y = [h EXCEPT !.at = at1, !.run = run1, !.note = note1]
  BY <1>1, <1>2, <1>3
<1>6. y = [at |-> at1, run |-> run1, def |-> x.def, time |-> x.time, note |-> note1, left |->
           x.left]
  BY <1>4, <1>5
<1>7. y = Held(y) /\ y.at = at1 /\ y.run = run1 /\ y.note = note1 /\ y.left = x.left
      /\ y.def = x.def /\ y.time = x.time
  BY <1>6 DEF Held
<1>8. fiber' = [fiber EXCEPT ![f] = y]
  BY <1>1, <1>3 DEF FiberTable, GoesReading
<1> QED
  BY <1>1, <1>7, <1>8 DEF Becomes

LEMMA GoesPlanningTo ==
    ASSUME FiberTable, NEW f \in Fibers, NEW at1, NEW time1, NEW def1, GoesPlanning(f, at1,
           time1, def1)
    PROVE  \E y : Becomes(f, y) /\ y.at = at1 /\ y.run = fiber[f].run /\ y.note = fiber[f].note
           /\ y.left = fiber[f].left
           /\ y.def = def1 /\ y.time = time1
<1>1. PICK x : x = fiber[f] /\ x = Held(x)
  BY DEF FiberTable
<1>2. PICK h : h = Held(x)
  OBVIOUS
<1>3. PICK y : y = [x EXCEPT !.at = at1, !.time = time1, !.def = def1]
  OBVIOUS
<1>4. h = [at |-> x.at, run |-> x.run, def |-> x.def, time |-> x.time, note |-> x.note,
           left |-> x.left]
  BY <1>2 DEF Held
<1>5. y = [h EXCEPT !.at = at1, !.time = time1, !.def = def1]
  BY <1>1, <1>2, <1>3
<1>6. y = [at |-> at1, run |-> x.run, def |-> def1, time |-> time1, note |-> x.note, left |->
           x.left]
  BY <1>4, <1>5
<1>7. y = Held(y) /\ y.at = at1 /\ y.run = x.run /\ y.note = x.note /\ y.left = x.left
      /\ y.def = def1 /\ y.time = time1
  BY <1>6 DEF Held
<1>8. fiber' = [fiber EXCEPT ![f] = y]
  BY <1>1, <1>3 DEF FiberTable, GoesPlanning
<1> QED
  BY <1>1, <1>7, <1>8 DEF Becomes

LEMMA GoesAskingTo ==
    ASSUME FiberTable, NEW f \in Fibers, NEW at1, NEW def1, NEW time1, GoesAsking(f, at1, def1,
           time1)
    PROVE  \E y : Becomes(f, y) /\ y.at = at1 /\ y.run = fiber[f].run /\ y.note = fiber[f].note
           /\ y.left = fiber[f].left
           /\ y.def = def1 /\ y.time = time1
<1>1. PICK x : x = fiber[f] /\ x = Held(x)
  BY DEF FiberTable
<1>2. PICK h : h = Held(x)
  OBVIOUS
<1>3. PICK y : y = [x EXCEPT !.at = at1, !.def = def1, !.time = time1]
  OBVIOUS
<1>4. h = [at |-> x.at, run |-> x.run, def |-> x.def, time |-> x.time, note |-> x.note,
           left |-> x.left]
  BY <1>2 DEF Held
<1>5. y = [h EXCEPT !.at = at1, !.def = def1, !.time = time1]
  BY <1>1, <1>2, <1>3
<1>6. y = [at |-> at1, run |-> x.run, def |-> def1, time |-> time1, note |-> x.note, left |->
           x.left]
  BY <1>4, <1>5
<1>7. y = Held(y) /\ y.at = at1 /\ y.run = x.run /\ y.note = x.note /\ y.left = x.left
      /\ y.def = def1 /\ y.time = time1
  BY <1>6 DEF Held
<1>8. fiber' = [fiber EXCEPT ![f] = y]
  BY <1>1, <1>3 DEF FiberTable, GoesAsking
<1> QED
  BY <1>1, <1>7, <1>8 DEF Becomes

LEMMA GoesCancellingTo ==
    ASSUME FiberTable, NEW f \in Fibers, NEW at1, NEW left1, NEW note1, GoesCancelling(f, at1,
           left1, note1)
    PROVE  \E y : Becomes(f, y) /\ y.at = at1 /\ y.left = left1 /\ y.note = note1 /\ y.run =
           fiber[f].run
           /\ y.def = fiber[f].def /\ y.time = fiber[f].time
<1>1. PICK x : x = fiber[f] /\ x = Held(x)
  BY DEF FiberTable
<1>2. PICK h : h = Held(x)
  OBVIOUS
<1>3. PICK y : y = [x EXCEPT !.at = at1, !.left = left1, !.note = note1]
  OBVIOUS
<1>4. h = [at |-> x.at, run |-> x.run, def |-> x.def, time |-> x.time, note |-> x.note,
           left |-> x.left]
  BY <1>2 DEF Held
<1>5. y = [h EXCEPT !.at = at1, !.left = left1, !.note = note1]
  BY <1>1, <1>2, <1>3
<1>6. y = [at |-> at1, run |-> x.run, def |-> x.def, time |-> x.time, note |-> note1, left |->
           left1]
  BY <1>4, <1>5
<1>7. y = Held(y) /\ y.at = at1 /\ y.left = left1 /\ y.note = note1 /\ y.run = x.run
      /\ y.def = x.def /\ y.time = x.time
  BY <1>6 DEF Held
<1>8. fiber' = [fiber EXCEPT ![f] = y]
  BY <1>1, <1>3 DEF FiberTable, GoesCancelling
<1> QED
  BY <1>1, <1>7, <1>8 DEF Becomes

LEMMA GoesDeletingTo ==
    ASSUME FiberTable, NEW f \in Fibers, NEW at1, NEW def1, NEW left1, GoesDeleting(f, at1,
           def1, left1)
    PROVE  \E y : Becomes(f, y) /\ y.at = at1 /\ y.left = left1 /\ y.run = fiber[f].run /\
           y.note = fiber[f].note
           /\ y.def = def1 /\ y.time = fiber[f].time
<1>1. PICK x : x = fiber[f] /\ x = Held(x)
  BY DEF FiberTable
<1>2. PICK h : h = Held(x)
  OBVIOUS
<1>3. PICK y : y = [x EXCEPT !.at = at1, !.def = def1, !.left = left1]
  OBVIOUS
<1>4. h = [at |-> x.at, run |-> x.run, def |-> x.def, time |-> x.time, note |-> x.note,
           left |-> x.left]
  BY <1>2 DEF Held
<1>5. y = [h EXCEPT !.at = at1, !.def = def1, !.left = left1]
  BY <1>1, <1>2, <1>3
<1>6. y = [at |-> at1, run |-> x.run, def |-> def1, time |-> x.time, note |-> x.note, left |->
           left1]
  BY <1>4, <1>5
<1>7. y = Held(y) /\ y.at = at1 /\ y.left = left1 /\ y.run = x.run /\ y.note = x.note
      /\ y.def = def1 /\ y.time = x.time
  BY <1>6 DEF Held
<1>8. fiber' = [fiber EXCEPT ![f] = y]
  BY <1>1, <1>3 DEF FiberTable, GoesDeleting
<1> QED
  BY <1>1, <1>7, <1>8 DEF Becomes

LEMMA GoesNextTo ==
    ASSUME FiberTable, NEW f \in Fibers, NEW left1, NEW run1, NEW at1, GoesNext(f, left1, run1,
           at1)
    PROVE  \E y : Becomes(f, y) /\ y.left = left1 /\ y.run = run1 /\ y.at = at1 /\ y.note =
           fiber[f].note
           /\ y.def = fiber[f].def /\ y.time = fiber[f].time
<1>1. PICK x : x = fiber[f] /\ x = Held(x)
  BY DEF FiberTable
<1>2. PICK h : h = Held(x)
  OBVIOUS
<1>3. PICK y : y = [x EXCEPT !.left = left1, !.run = run1, !.at = at1]
  OBVIOUS
<1>4. h = [at |-> x.at, run |-> x.run, def |-> x.def, time |-> x.time, note |-> x.note,
           left |-> x.left]
  BY <1>2 DEF Held
<1>5. y = [h EXCEPT !.left = left1, !.run = run1, !.at = at1]
  BY <1>1, <1>2, <1>3
<1>6. y = [at |-> at1, run |-> run1, def |-> x.def, time |-> x.time, note |-> x.note, left |->
           left1]
  BY <1>4, <1>5
<1>7. y = Held(y) /\ y.left = left1 /\ y.run = run1 /\ y.at = at1 /\ y.note = x.note
      /\ y.def = x.def /\ y.time = x.time
  BY <1>6 DEF Held
<1>8. fiber' = [fiber EXCEPT ![f] = y]
  BY <1>1, <1>3 DEF FiberTable, GoesNext
<1> QED
  BY <1>1, <1>7, <1>8 DEF Becomes

LEMMA GoesRecoveringTo ==
    ASSUME FiberTable, NEW f \in Fibers, NEW left1, NEW run1, NEW note1, NEW at1,
           GoesRecovering(f, left1, run1, note1, at1)
    PROVE  \E y : Becomes(f, y) /\ y.left = left1 /\ y.run = run1 /\ y.note = note1 /\ y.at =
           at1
           /\ y.def = fiber[f].def /\ y.time = fiber[f].time
<1>1. PICK x : x = fiber[f] /\ x = Held(x)
  BY DEF FiberTable
<1>2. PICK h : h = Held(x)
  OBVIOUS
<1>3. PICK y : y = [x EXCEPT !.left = left1, !.run = run1, !.note = note1, !.at = at1]
  OBVIOUS
<1>4. h = [at |-> x.at, run |-> x.run, def |-> x.def, time |-> x.time, note |-> x.note,
           left |-> x.left]
  BY <1>2 DEF Held
<1>5. y = [h EXCEPT !.left = left1, !.run = run1, !.note = note1, !.at = at1]
  BY <1>1, <1>2, <1>3
<1>6. y = [at |-> at1, run |-> run1, def |-> x.def, time |-> x.time, note |-> note1, left |->
           left1]
  BY <1>4, <1>5
<1>7. y = Held(y) /\ y.left = left1 /\ y.run = run1 /\ y.note = note1 /\ y.at = at1
      /\ y.def = x.def /\ y.time = x.time
  BY <1>6 DEF Held
<1>8. fiber' = [fiber EXCEPT ![f] = y]
  BY <1>1, <1>3 DEF FiberTable, GoesRecovering
<1> QED
  BY <1>1, <1>7, <1>8 DEF Becomes

LEMMA RestsIdle ==
    ASSUME FiberTable, NEW f \in Fibers, NEW left1, fiber' = [fiber EXCEPT ![f] = [Idle EXCEPT !.left = left1]]
    PROVE  \E y : Becomes(f, y) /\ y.at = "idle" /\ y.run = 0 /\ y.left = left1 /\ y.time = 0
<1>1. PICK i : i = Idle
  OBVIOUS
<1>2. i = [at |-> "idle", run |-> 0, def |-> NoRow, time |-> 0, note |-> "none", left |-> {}]
  BY <1>1 DEF Idle
<1>3. PICK y : y = [i EXCEPT !.left = left1]
  OBVIOUS
<1>4. y = [at |-> "idle", run |-> 0, def |-> NoRow, time |-> 0, note |-> "none", left |-> left1]
  BY <1>2, <1>3
<1>5. y = Held(y) /\ y.at = "idle" /\ y.run = 0 /\ y.left = left1 /\ y.time = 0
  BY <1>4 DEF Held
<1> QED
  BY <1>1, <1>3, <1>5 DEF Becomes

LEMMA RestsTo ==
    ASSUME FiberTable, NEW f \in Fibers, NEW left1, fiber' = [fiber EXCEPT ![f] = [Idle EXCEPT !.left = left1]]
    PROVE  \E y : Becomes(f, y) /\ y.at = "idle" /\ y.run = 0 /\ y.left = left1
BY RestsIdle

LEMMA RestsWith ==
    ASSUME FiberTable, NEW f \in Fibers, Rest(f)
    PROVE  \E y : Becomes(f, y) /\ y.at = "idle" /\ y.run = 0 /\ y.left = fiber[f].left
           /\ y.def = NoRow /\ y.time = 0 /\ y.note = "none"
<1>1. PICK i : i = Idle
  OBVIOUS
<1>2. i = [at |-> "idle", run |-> 0, def |-> NoRow, time |-> 0, note |-> "none", left |-> {}]
  BY <1>1 DEF Idle
<1>3. PICK y : y = [i EXCEPT !.left = fiber[f].left]
  OBVIOUS
<1>4. y = [at |-> "idle", run |-> 0, def |-> NoRow, time |-> 0, note |-> "none", left |-> fiber[f].left]
  BY <1>2, <1>3
<1>5. y = Held(y) /\ y.at = "idle" /\ y.run = 0 /\ y.left = fiber[f].left
      /\ y.def = NoRow /\ y.time = 0 /\ y.note = "none"
  BY <1>4 DEF Held
<1> QED
  BY <1>1, <1>3, <1>5 DEF Becomes, Rest

-----------------------------------------------------------------------------------
\* What a fiber may rely on where it is.

Free == {"capped", "counting", "checking", "missing", "creating", "restarting"}
Dispatching == {"advancing", "incrementing", "starting", "treeCheck", "makingTree", "threadCheck",
                "creatingThread", "lastCheck", "launching"}
Holding == {"threadCheck", "creatingThread"}
TurnStates == {"none", "waiting", "pending", "running", "asking", "completed", "error",
               "interrupted", "dropped", "stuck"}
Notes == {"waiting", "running", "failed", "interrupted", "skipped", "retired"}
TooLate == {"failed", "cancelled", "skipped"}

\* A fiber that begins has no run, one that dispatches has one that nobody has launched; what is
\* read or marked has a turn that does not change any more, or a status that does not.
Claim(f, x) ==
    /\ x.left \subseteq DOMAIN runs
    /\ x.at \in Free \/ (x.at = "idle" /\ f[2] # "watcher") => x.run = 0
    /\ x.at \in Dispatching /\ ~(x.at = "advancing" /\ x.run = 0) =>
        x.run \in DOMAIN runs /\ turn[x.run] = "none"
    /\ x.at = "failing" => x.run \in DOMAIN runs
    /\ x.at \in {"reading", "marking"} => x.run \in DOMAIN runs /\ runs[x.run].thread # "none"
    /\ x.at = "marking" /\ x.note = "succeeded" => turn[x.run] = "completed"
    /\ x.at = "marking" /\ x.note = "failed" => turn[x.run] = "error"
    /\ x.at = "cancelled" => x.run \in DOMAIN runs /\ runs[x.run].status = "cancelled"
    /\ x.at = "skipping" \/ (x.at = "result" /\ x.note = "skipped") =>
        x.run \in DOMAIN runs /\ runs[x.run].thread = "none"
    /\ x.at = "result" => x.note \in Notes
    /\ x.at = "result" /\ x.note = "failed" =>
        x.run \in DOMAIN runs /\ (runs[x.run].status = "failed" \/ turn[x.run] = "error")

Claims == \A f \in Fibers : Claim(f, fiber[f])

\* No run is dispatched twice.
Alone ==
    \A f, g \in Fibers :
        /\ f # g /\ fiber[f].at \in Dispatching /\ fiber[g].at \in Dispatching /\ fiber[f].run # 0
        => fiber[f].run # fiber[g].run

TurnsTable ==
    /\ turn \in Seq(TurnStates) /\ Len(turn) = Len(runs)
    /\ tree \in Seq({"none", "made", "attached", "removed"}) /\ Len(tree) = Len(runs)

\* A run that succeeded had a turn that was completed, and says so.
SuccessStands ==
    \A r \in DOMAIN runs :
        runs[r].status = "succeeded" =>
            runs[r].thread # "none" /\ turn[r] = "completed" /\ runs[r].result \notin TooLate

FiberInv == Table /\ FiberTable /\ TurnsTable /\ Claims /\ Alone /\ SuccessStands

\* The turns and the worktrees of the runs, in a step of fiber f or of none.
TurnsMove(f) ==
    /\ TurnsTable'
    /\ \A r \in DOMAIN runs :
        \/ turn'[r] = turn[r] \/ turn[r] \notin {"none", "completed", "error"}
        \/ turn[r] = "none" /\ fiber[f].at = "launching" /\ fiber[f].run = r

ResultsMove ==
    \A r \in DOMAIN runs' :
        runs'[r].status = "succeeded" => r \in DOMAIN runs /\
            \/ runs[r].status = "succeeded" /\ runs'[r].result \notin TooLate
            \/ runs[r].thread # "none" /\ turn[r] = "completed" /\ runs'[r].result = "succeeded"

TreesMove(f, y) ==
    /\ troubles \subseteq troubles'
    /\ \A r \in DOMAIN runs' :
        tree'[r] = "made" => (r \in DOMAIN runs /\ tree[r] = "made") \/ (y.at = "threadCheck" /\ y.run = r)
    /\ "crash" \notin troubles /\ fiber[f].at \in Holding /\ fiber[f].run \in DOMAIN runs =>
        (y.at \in Holding /\ y.run = fiber[f].run) \/ tree'[fiber[f].run] # "made"

\* A step of fiber f, which then holds y.
Hop(f, y) ==
    /\ Becomes(f, y) /\ Claim(f, y)'
    /\ TurnsMove(f) /\ TreesMove(f, y) /\ ResultsMove
    /\ y.at \in Dispatching /\ y.run # 0 =>
        \/ y.run \notin DOMAIN runs
        \/ fiber[f].at \in Dispatching \ {"launching"} /\ fiber[f].run = y.run
    /\ y.at = "launching" =>
        fiber[f].at = "lastCheck" /\ fiber[f].run = y.run /\ runs[y.run].status = "running"

\* What a fiber relies on outlives the steps of all others.
LEMMA ClaimStays ==
    ASSUME Table, RowsMove, NEW f, TurnsMove(f), NEW g, NEW x, Claim(g, x),
           x.at \in Dispatching /\ fiber[f].at = "launching" /\ x.run # 0 => fiber[f].run # x.run
    PROVE  Claim(g, x)'
<1>1. /\ DOMAIN runs \subseteq DOMAIN runs' /\ 0 \notin DOMAIN runs
      /\ \A r \in DOMAIN runs :
            /\ runs'[r].thread = runs[r].thread
            /\ runs[r].status \in {"failed", "cancelled"} => runs'[r].status = runs[r].status
  BY DEF Table, RowsMove, Open, Active
<1>2. /\ \A r \in DOMAIN runs : turn[r] \in {"completed", "error"} => turn'[r] = turn[r]
      /\ \A r \in DOMAIN runs :
            turn[r] = "none" /\ ~(fiber[f].at = "launching" /\ fiber[f].run = r) => turn'[r] = "none"
  BY DEF TurnsMove
<1> QED
  BY <1>1, <1>2 DEF Claim

LEMMA HopKeeps ==
    ASSUME FiberInv, Table', RowsMove, NEW f \in Fibers, NEW y, Hop(f, y)
    PROVE  FiberInv'
<1>1. /\ \A g \in Fibers : fiber'[g] = IF g = f THEN y ELSE fiber[g]
      /\ fiber' = [g \in Fibers |-> fiber'[g]] /\ y = Held(y)
  BY DEF FiberInv, FiberTable, Hop, Becomes
<1>2. FiberTable'
  BY <1>1 DEF FiberInv, FiberTable
<1>3. ASSUME NEW g \in Fibers, g # f
      PROVE  Claim(g, fiber[g])'
  <2>1. PICK x : x = fiber[g] /\ x = fiber'[g] /\ Claim(g, x)
    BY <1>1, <1>3 DEF FiberInv, Claims
  <2>2. x.at \in Dispatching /\ fiber[f].at = "launching" /\ x.run # 0 => fiber[f].run # x.run
    BY <1>3, <2>1 DEF FiberInv, Alone, Dispatching
  <2>3. Claim(g, x)'
    BY <2>1, <2>2, ClaimStays DEF FiberInv, Hop
  <2> QED
    BY <2>1, <2>3
<1>4. Claims'
  BY <1>1, <1>3 DEF Claims, Hop
<1>5. Alone'
  <2>1. \A g \in Fibers \ {f} :
            y.at \in Dispatching /\ fiber[g].at \in Dispatching /\ y.run # 0 => y.run # fiber[g].run
    <3>1. CASE y.run \notin DOMAIN runs
      BY <3>1 DEF FiberInv, Claims, Claim
    <3>2. CASE fiber[f].at \in Dispatching \ {"launching"} /\ fiber[f].run = y.run
      BY <3>2 DEF FiberInv, Alone
    <3> QED
      BY <3>1, <3>2 DEF Hop
  <2> QED
    BY <1>1, <2>1 DEF FiberInv, Alone
<1>6. SuccessStands'
  <2>1. \A r \in DOMAIN runs : turn[r] = "completed" => turn'[r] = "completed"
    BY DEF Hop, TurnsMove
  <2>2. \A r \in DOMAIN runs : runs'[r].thread = runs[r].thread
    BY DEF RowsMove
  <2> QED
    BY <2>1, <2>2 DEF FiberInv, SuccessStands, Hop, ResultsMove, TooLate
<1> QED
  BY <1>2, <1>4, <1>5, <1>6 DEF FiberInv, Hop, TurnsMove

-----------------------------------------------------------------------------------
\* The kinds of steps.

Hops(f) == \E y : Hop(f, y)

Plain == {"settling", "stopping", "cancelling", "evaluating", "matching", "recording", "saving",
          "booting", "retiring"}

\* No turn, no worktree and no run comes or goes, and no success either.
Calm ==
    Table' /\ Len(runs') = Len(runs) /\ UNCHANGED engine /\ ResultsMove /\ troubles \subseteq troubles'

LEMMA Domains ==
    ASSUME FiberInv
    PROVE  /\ DOMAIN turn = DOMAIN runs /\ DOMAIN tree = DOMAIN runs /\ 0 \notin DOMAIN runs
           /\ Len(runs) + 1 \notin DOMAIN runs /\ Len(runs) + 1 # 0 /\ Len(runs) \in Nat
           /\ \A r \in DOMAIN runs : turn[r] \in TurnStates
<1>1. PICK V : runs \in Seq(V)
  BY DEF FiberInv, Table
<1>2. turn \in Seq(TurnStates) /\ Len(turn) = Len(runs) /\ Len(tree) = Len(runs)
      /\ tree \in Seq({"none", "made", "attached", "removed"})
  BY DEF FiberInv, TurnsTable
<1> QED
  BY <1>1, <1>2

LEMMA CalmDomain ==
    ASSUME FiberInv, Calm
    PROVE  DOMAIN runs' = DOMAIN runs /\ TurnsTable'
<1>1. PICK V : runs \in Seq(V)
  BY DEF FiberInv, Table
<1>2. PICK W : runs' \in Seq(W)
  BY DEF Calm, Table
<1>3. DOMAIN runs' = DOMAIN runs
  BY <1>1, <1>2 DEF Calm
<1> QED
  BY <1>3 DEF FiberInv, TurnsTable, Calm, engine

LEMMA CalmHop ==
    ASSUME FiberInv, NEW f \in Fibers, NEW y, Becomes(f, y), Calm, Claim(f, y)', y.at # "launching",
           "crash" \notin troubles /\ fiber[f].at \in Holding => y.at \in Holding /\ y.run = fiber[f].run,
           y.at \in Dispatching /\ y.run # 0 =>
              fiber[f].at \in Dispatching \ {"launching"} /\ fiber[f].run = y.run
    PROVE  Hops(f)
<1>1. DOMAIN runs' = DOMAIN runs /\ TurnsTable' /\ turn' = turn /\ tree' = tree
  BY CalmDomain DEF Calm, engine
<1>2. TurnsMove(f)
  BY <1>1 DEF TurnsMove
<1>3. TreesMove(f, y)
  BY <1>1 DEF TreesMove, Calm
<1>4. Hop(f, y)
  BY <1>2, <1>3 DEF Hop, Calm
<1> QED
  BY <1>4 DEF Hops

\* A fiber goes where it has nothing to rely on but its run.
LEMMA EasyHop ==
    ASSUME FiberInv, NEW f \in Fibers, NEW y, Becomes(f, y), Calm,
           fiber[f].at \notin Holding \/ "crash" \in troubles, y.left \subseteq DOMAIN runs,
           \/ y.at \in Plain
           \/ y.at \in Free /\ y.run = 0
           \/ y.at = "idle" /\ (y.run = 0 \/ f[2] = "watcher")
           \/ y.at = "failing" /\ y.run \in DOMAIN runs
    PROVE  Hops(f)
<1>1. DOMAIN runs' = DOMAIN runs
  BY CalmDomain
<1>2. y.at \notin Dispatching /\ y.at # "launching"
  BY DEF Plain, Free, Dispatching
<1>3. y.at \notin {"reading", "marking", "cancelled", "skipping", "result"}
  BY DEF Plain, Free
<1>4. Claim(f, y)'
  <2>1. y.at = "failing" => y.run \in DOMAIN runs
    BY DEF Plain, Free
  <2>2. y.at \in Free \/ (y.at = "idle" /\ f[2] # "watcher") => y.run = 0
    BY DEF Plain, Free
  <2> QED
    BY <1>1, <1>2, <1>3, <2>1, <2>2 DEF Claim
<1> QED
  BY <1>2, <1>4, CalmHop

LEMMA RestHop ==
    ASSUME FiberInv, NEW f \in Fibers, Rest(f), Calm, fiber[f].at \notin Holding
    PROVE  Hops(f)
<1>1. PICK y : Becomes(f, y) /\ y.at = "idle" /\ y.run = 0 /\ y.left = fiber[f].left
  BY RestsTo DEF Rest, FiberInv
<1>2. fiber[f].left \subseteq DOMAIN runs
  BY DEF FiberInv, Claims, Claim
<1> QED
  BY <1>1, <1>2, EasyHop

LEMMA QuietIsCalm ==
    ASSUME FiberInv, UNCHANGED rows, troubles \subseteq troubles'
    PROVE  Calm
BY DEF FiberInv, Calm, rows, engine, ResultsMove, SuccessStands, Table

LEMMA TroubleGrows == ASSUME NEW kind, Trouble(kind) PROVE troubles \subseteq troubles'
BY DEF Trouble

LEMMA MarkIsCalm ==
    ASSUME FiberInv, Table', NEW r, NEW from, NEW status, status # "succeeded",
           Mark(r, from, status), UNCHANGED <<engine, troubles>>
    PROVE  Calm
<1>1. PICK V : runs \in Seq(V)
  BY DEF FiberInv, Table
<1>2. runs' = [q \in DOMAIN runs |-> runs'[q]]
  BY <1>1, SMTT(30) DEF Mark
<1>3. \A q \in DOMAIN runs :
        /\ runs'[q].status = "succeeded" => runs[q].status = "succeeded"
        /\ runs'[q].result = runs[q].result
  <2>1. SUFFICES ASSUME NEW q \in DOMAIN runs, runs'[q] # runs[q]
                 PROVE  runs'[q].status = status /\ runs'[q].result = runs[q].result
    OBVIOUS
  <2>2. PICK h : h = Columns(runs[q]) /\ runs[q] = h
    BY DEF FiberInv, Table
  <2>3. PICK new : new = [h EXCEPT !.status = status]
    OBVIOUS
  <2>4. runs'[q] = new
    BY <1>1, <2>1, <2>2, <2>3 DEF Mark
  <2>5. new.status = status /\ new.result = h.result
    BY <2>2, <2>3 DEF Columns
  <2> QED
    BY <2>2, <2>4, <2>5
<1>4. PICK W : runs' \in Seq(W)
  BY DEF Table
<1>5. Len(runs') = Len(runs) /\ DOMAIN runs' = DOMAIN runs
  BY <1>1, <1>2, <1>4
<1>6. ResultsMove
  BY <1>3, <1>5 DEF ResultsMove, FiberInv, SuccessStands
<1> QED
  BY <1>5, <1>6 DEF Calm

LEMMA ResultIsCalm ==
    ASSUME FiberInv, Table', NEW r, NEW result, MarkResult(r, result), UNCHANGED <<engine, troubles>>,
           r \in DOMAIN runs /\ result \in TooLate => runs[r].status # "succeeded"
    PROVE  Calm
<1>1. PICK V : runs \in Seq(V)
  BY DEF FiberInv, Table
<1>2. runs' = [q \in DOMAIN runs |-> runs'[q]]
  BY <1>1 DEF MarkResult
<1>3. \A q \in DOMAIN runs :
        /\ runs'[q].status = runs[q].status
        /\ runs'[q].result = runs[q].result \/ (q = r /\ runs'[q].result = result)
  <2>1. SUFFICES ASSUME NEW q \in DOMAIN runs, q = r
                 PROVE  runs'[q].status = runs[q].status /\ runs'[q].result = result
    BY <1>1 DEF MarkResult
  <2>2. PICK h : h = Columns(runs[q]) /\ runs[q] = h
    BY DEF FiberInv, Table
  <2>3. PICK new : new = [h EXCEPT !.result = result]
    OBVIOUS
  <2>4. PICK newer : newer = [new EXCEPT !.evaluated = "no"]
    OBVIOUS
  <2>5. runs'[q] = newer
    BY <1>1, <2>1, <2>2, <2>3, <2>4 DEF MarkResult
  <2>6. new = [trigger |-> h.trigger, slot |-> h.slot, thread |-> h.thread,
               status |-> h.status, result |-> result, evaluated |-> h.evaluated]
    BY <2>2, <2>3 DEF Columns
  <2>7. newer.status = h.status /\ newer.result = result
    BY <2>4, <2>6
  <2> QED
    BY <2>2, <2>5, <2>7
<1>4. PICK W : runs' \in Seq(W)
  BY DEF Table
<1>5. Len(runs') = Len(runs) /\ DOMAIN runs' = DOMAIN runs
  BY <1>1, <1>2, <1>4
<1>6. ResultsMove
  BY <1>3, <1>5 DEF ResultsMove, FiberInv, SuccessStands
<1> QED
  BY <1>5, <1>6 DEF Calm

\* A dispatch goes on with its run.
LEMMA DispatchHop ==
    ASSUME FiberInv, NEW f \in Fibers, NEW y, Becomes(f, y), Calm,
           fiber[f].at \in Dispatching \ (Holding \cup {"launching"}), fiber[f].run # 0,
           y.at \in Dispatching \ {"launching"}, y.run = fiber[f].run, y.left = fiber[f].left
    PROVE  Hops(f)
<1>1. PICK x : x = fiber[f] /\ Claim(f, x)
  BY DEF FiberInv, Claims
<1>2. DOMAIN runs' = DOMAIN runs /\ turn' = turn
  BY CalmDomain DEF Calm, engine
<1>3. y.run \in DOMAIN runs /\ turn[y.run] = "none" /\ y.left \subseteq DOMAIN runs
  BY <1>1 DEF Claim, Dispatching
<1>4. Claim(f, y)'
  BY <1>2, <1>3 DEF Claim, Dispatching, Free
<1> QED
  BY <1>4, CalmHop DEF Dispatching, Holding

LEMMA NoNewRun ==
    ASSUME FiberInv, NEW trigger, NEW slot, NEW thread, NEW occurrence,
           CreateRun(trigger, slot, thread, occurrence), runs' = runs, troubles' = troubles
    PROVE  Calm
<1>1. PICK V : runs \in Seq(V)
  BY DEF FiberInv, Table
<1>2. UNCHANGED rows
  <2>1. PICK row : row = [trigger |-> trigger, slot |-> slot, thread |-> thread,
                          status |-> "pending", result |-> "none", evaluated |-> "no"]
    OBVIOUS
  <2>2. Append(runs, row) # runs
    BY <1>1, AppendFacts
  <2> QED
    BY <2>1, <2>2 DEF CreateRun, rows, engine
<1> QED
  BY <1>2, QuietIsCalm

\* A new run is nobody's but of the fiber that made it.
LEMMA NewRunHop ==
    ASSUME FiberInv, Table', NEW f \in Fibers, NEW y, Becomes(f, y),
           NEW trigger, NEW slot, NEW thread, NEW occurrence,
           CreateRun(trigger, slot, thread, occurrence), runs' # runs, troubles' = troubles,
           y.run = Len(runs'), y.left \subseteq DOMAIN runs, fiber[f].at \notin Holding,
           y.at \in {"advancing", "incrementing"} \/ (y.at = "skipping" /\ thread = "none")
    PROVE  Hops(f)
<1>1. PICK V : runs \in Seq(V)
  BY DEF FiberInv, Table
<1>2. PICK n : n = Len(runs) + 1
  OBVIOUS
<1>3. PICK row : row = [trigger |-> trigger, slot |-> slot, thread |-> thread,
                        status |-> "pending", result |-> "none", evaluated |-> "no"]
  OBVIOUS
<1>4. /\ runs' = Append(runs, row) /\ turn' = Append(turn, "none") /\ tree' = Append(tree, "none")
  BY <1>3 DEF CreateRun
<1>5. /\ DOMAIN runs' = DOMAIN runs \cup {n} /\ Len(runs') = n /\ runs'[n] = row
      /\ n \notin DOMAIN runs /\ \A r \in DOMAIN runs : runs'[r] = runs[r]
  BY <1>1, <1>2, <1>4, AppendFacts
<1>6. /\ turn \in Seq(TurnStates) /\ Len(turn) = Len(runs) /\ "none" \in TurnStates
      /\ tree \in Seq({"none", "made", "attached", "removed"}) /\ Len(tree) = Len(runs)
  BY DEF FiberInv, TurnsTable, TurnStates
<1>7. /\ turn' \in Seq(TurnStates) /\ Len(turn') = n /\ turn'[n] = "none"
      /\ \A r \in DOMAIN runs : turn'[r] = turn[r]
  <2>1. DOMAIN turn = DOMAIN runs
    BY Domains
  <2>2. turn' \in Seq(TurnStates)
    BY <1>4, <1>6, AppendIn
  <2>3. Len(turn') = n /\ turn'[n] = "none" /\ \A r \in DOMAIN turn : turn'[r] = turn[r]
    BY <1>2, <1>4, <1>6, AppendFacts
  <2> QED
    BY <2>1, <2>2, <2>3
<1>8. /\ tree' \in Seq({"none", "made", "attached", "removed"}) /\ Len(tree') = n /\ tree'[n] = "none"
      /\ \A r \in DOMAIN runs : tree'[r] = tree[r]
  <2>1. DOMAIN tree = DOMAIN runs
    BY Domains
  <2>2. tree' \in Seq({"none", "made", "attached", "removed"})
    BY <1>4, <1>6, AppendIn
  <2>3. Len(tree') = n /\ tree'[n] = "none" /\ \A r \in DOMAIN tree : tree'[r] = tree[r]
    BY <1>2, <1>4, <1>6, AppendFacts
  <2> QED
    BY <2>1, <2>2, <2>3
<1>9. TurnsMove(f)
  BY <1>5, <1>7, <1>8 DEF TurnsMove, TurnsTable
<1>10. TreesMove(f, y)
  BY <1>5, <1>8 DEF TreesMove
<1>11. ResultsMove
  BY <1>3, <1>5 DEF ResultsMove, FiberInv, SuccessStands
<1>12. Claim(f, y)'
  <2>1. runs'[n].thread = thread /\ y.run = n
    BY <1>3, <1>5
  <2> QED
    BY <1>5, <1>7, <2>1 DEF Claim, Free, Dispatching
<1>13. Hop(f, y)
  BY <1>5, <1>9, <1>10, <1>11, <1>12 DEF Hop
<1> QED
  BY <1>13 DEF Hops

Puts(r, state) == tree' = [tree EXCEPT ![r] = state]

LEMMA TreeState ==
    ASSUME FiberInv, NEW r \in DOMAIN runs
    PROVE  tree[r] \in {"none", "made", "attached", "removed"}
<1>1. tree \in Seq({"none", "made", "attached", "removed"}) /\ DOMAIN tree = DOMAIN runs
  BY Domains DEF FiberInv, TurnsTable
<1> QED
  BY <1>1

LEMMA TreeMoves ==
    ASSUME FiberInv, NEW f \in Fibers, NEW y, NEW r \in DOMAIN runs, r = fiber[f].run, r = y.run,
           NEW state \in {"none", "made", "attached", "removed"}, Puts(r, state),
           UNCHANGED <<runs, turn>>, troubles \subseteq troubles',
           state = "made" => y.at = "threadCheck" /\ fiber[f].at \notin Holding
    PROVE  TreesMove(f, y) /\ TurnsMove(f)
<1>1. tree \in Seq({"none", "made", "attached", "removed"}) /\ DOMAIN tree = DOMAIN runs
  BY Domains DEF FiberInv, TurnsTable
<1>2. /\ tree' \in Seq({"none", "made", "attached", "removed"}) /\ Len(tree') = Len(tree)
      /\ \A q \in DOMAIN runs : tree'[q] = IF q = r THEN state ELSE tree[q]
  <2>1. PICK W : W = {"none", "made", "attached", "removed"}
    OBVIOUS
  <2>2. tree \in Seq(W) /\ state \in W
    BY <1>1, <2>1
  <2>3. PICK n \in Nat : n = Len(tree) /\ DOMAIN tree = 1 .. n
    BY <2>2
  <2>4. \A q \in 1 .. n : tree[q] \in W
    BY <2>2, <2>3
  <2>5. tree' = [q \in 1 .. n |-> IF q = r THEN state ELSE tree[q]]
    BY <2>3 DEF Puts
  <2>6. tree' \in [1 .. n -> W]
    BY <2>2, <2>4, <2>5
  <2>7. tree' \in Seq(W) /\ Len(tree') = n
    BY <2>3, <2>6, RangeIsSeq
  <2> QED
    BY <1>1, <2>1, <2>3, <2>5, <2>7
<1>3. TreesMove(f, y)
  BY <1>2 DEF TreesMove
<1>4. TurnsMove(f)
  BY <1>2 DEF TurnsMove, TurnsTable, FiberInv
<1> QED
  BY <1>3, <1>4

LEMMA TreeCleaned ==
    ASSUME FiberInv, NEW f \in Fibers, NEW y, fiber[f].run \in DOMAIN runs, y.run = fiber[f].run,
           tree' = CleanedUp(fiber[f].run), UNCHANGED <<runs, turn>>, troubles \subseteq troubles'
    PROVE  TreesMove(f, y) /\ TurnsMove(f)
<1>1. CASE tree[fiber[f].run] = "made"
  <2>1. Puts(fiber[f].run, "removed")
    BY <1>1 DEF CleanedUp, Puts
  <2> QED
    BY <2>1, TreeMoves
<1>2. CASE tree[fiber[f].run] # "made"
  <2>1. tree' = tree
    BY <1>2 DEF CleanedUp
  <2> QED
    BY <1>2, <2>1 DEF TreesMove, TurnsMove, FiberInv, TurnsTable
<1> QED
  BY <1>1, <1>2

\* A dispatch goes on or fails, with what it did to a worktree.
LEMMA StayHop ==
    ASSUME FiberInv, NEW f \in Fibers, NEW y, Becomes(f, y), UNCHANGED <<runs, turn>>,
           TreesMove(f, y), TurnsMove(f), fiber[f].at \in Dispatching \ {"launching"},
           y.run = fiber[f].run, y.run \in DOMAIN runs, turn[y.run] = "none",
           y.left \subseteq DOMAIN runs, y.at \in (Dispatching \ {"launching"}) \cup {"failing"}
    PROVE  Hops(f)
<1>1. Claim(f, y)'
  BY DEF Claim, Dispatching, Free
<1>2. ResultsMove
  BY DEF ResultsMove, FiberInv, SuccessStands
<1>3. Hop(f, y)
  BY <1>1, <1>2 DEF Hop
<1> QED
  BY <1>3 DEF Hops

LEMMA NoteIsCalm ==
    ASSUME FiberInv, Table', NEW r, NEW note, runs' = [runs EXCEPT ![r].evaluated = note],
           UNCHANGED <<engine, troubles>>
    PROVE  Calm
<1>1. PICK V : runs \in Seq(V)
  BY DEF FiberInv, Table
<1>2. runs' = [q \in DOMAIN runs |-> runs'[q]]
  BY <1>1
<1>3. \A q \in DOMAIN runs : runs'[q].status = runs[q].status /\ runs'[q].result = runs[q].result
  <2>1. SUFFICES ASSUME NEW q \in DOMAIN runs, q = r
                 PROVE  runs'[q].status = runs[q].status /\ runs'[q].result = runs[q].result
    BY <1>1
  <2>2. PICK h : h = Columns(runs[q]) /\ runs[q] = h
    BY DEF FiberInv, Table
  <2>3. PICK new : new = [h EXCEPT !.evaluated = note]
    OBVIOUS
  <2>4. runs'[q] = new
    BY <1>1, <2>1, <2>2, <2>3
  <2>5. new.status = h.status /\ new.result = h.result
    BY <2>2, <2>3 DEF Columns
  <2> QED
    BY <2>2, <2>4, <2>5
<1>4. PICK W : runs' \in Seq(W)
  BY DEF Table
<1>5. Len(runs') = Len(runs) /\ DOMAIN runs' = DOMAIN runs
  BY <1>1, <1>2, <1>4
<1>6. ResultsMove
  BY <1>3, <1>5 DEF ResultsMove, FiberInv, SuccessStands
<1> QED
  BY <1>5, <1>6 DEF Calm

-----------------------------------------------------------------------------------
\* The steps.

LEMMA PassHops ==
    ASSUME FiberInv, Table', RowsMove, NEW f \in Fibers, Pass(f)
    PROVE  Hops(f)
<1>0. PICK x : x = fiber[f] /\ Claim(f, x) /\ x.left \subseteq DOMAIN runs
  BY DEF FiberInv, Claims, Claim
<1>b. FiberTable
  BY DEF FiberInv
<1>1. CASE DisableCapped(f)
  <2>1. Calm /\ Rest(f) /\ fiber[f].at \notin Holding
    BY <1>1, QuietIsCalm DEF DisableCapped, At, Holding
  <2> QED
    BY <2>1, RestHop
<1>2. CASE CountActive(f)
  <2>1. Calm /\ fiber[f].at = "counting"
    BY <1>2, QuietIsCalm DEF CountActive, At
  <2>2. PICK y : Becomes(f, y) /\ y.at = "checking" /\ y.run = x.run /\ y.left = x.left
    <3>1. PICK note : GoesWith(f, "checking", note)
      BY <1>2 DEF CountActive
    <3> QED
      BY <1>0, <1>b, <3>1, GoesWithTo
  <2>3. x.run = 0 /\ "checking" \in Free
    BY <1>0, <2>1 DEF Claim, Free
  <2> QED
    BY <1>0, <2>1, <2>2, <2>3, EasyHop DEF Holding
<1>3. CASE CheckPending(f)
  <2>1. Calm /\ fiber[f].at = "checking"
    BY <1>3, QuietIsCalm DEF CheckPending, At
  <2>2. CASE Rest(f)
    BY <2>1, <2>2, RestHop DEF Holding
  <2>3. CASE ~Rest(f)
    <3>1. PICK position \in {"missing", "restarting", "creating"} : Goes(f, position)
      BY <1>3, <2>3 DEF CheckPending
    <3>2. PICK y : Becomes(f, y) /\ y.at = position /\ y.run = x.run /\ y.left = x.left
      BY <1>0, <1>b, <3>1, GoesTo
    <3>3. x.run = 0 /\ position \in Free
      BY <1>0, <2>1 DEF Claim, Free
    <3> QED
      BY <1>0, <2>1, <3>2, <3>3, EasyHop DEF Holding
  <2> QED
    BY <2>2, <2>3
<1>4. CASE RecordMissed(f)
  <2>1. fiber[f].at = "missing" /\ x.run = 0 /\ troubles' = troubles
    BY <1>0, <1>4 DEF RecordMissed, At, Claim, Free
  <2>2. PICK trigger, slot, occurrence : CreateRun(trigger, slot, "none", occurrence)
    BY <1>4 DEF RecordMissed
  <2>3. CASE runs' # runs
    <3>1. GoesFor(f, "skipping", Len(runs'))
      BY <1>4, <2>3 DEF RecordMissed, GoesFor
    <3>2. PICK y : Becomes(f, y) /\ y.at = "skipping" /\ y.run = Len(runs') /\ y.left = x.left
      BY <1>0, <1>b, <3>1, GoesForTo
    <3> QED
      BY <1>0, <2>1, <2>2, <2>3, <3>2, NewRunHop DEF Holding
  <2>4. CASE runs' = runs
    <3>1. Calm /\ Goes(f, "advancing")
      BY <1>4, <2>1, <2>2, <2>4, NoNewRun DEF RecordMissed
    <3>2. PICK y : Becomes(f, y) /\ y.at = "advancing" /\ y.run = 0 /\ y.left = x.left
      BY <1>0, <1>b, <2>1, <3>1, GoesTo
    <3>3. Claim(f, y)'
      BY <1>0, <2>4, <3>2 DEF Claim, Free
    <3> QED
      BY <2>1, <3>1, <3>2, <3>3, CalmHop DEF Holding
  <2> QED
    BY <2>3, <2>4
<1>5. CASE MarkSkipped(f)
  <2>1. fiber[f].at = "skipping" /\ x.run \in DOMAIN runs /\ runs[x.run].thread = "none"
    BY <1>0, <1>5 DEF MarkSkipped, At, Claim
  <2>2. Calm
    BY <1>5, MarkIsCalm DEF MarkSkipped
  <2>3. PICK y : /\ Becomes(f, y) /\ y.at = "result" /\ y.note = "skipped" /\ y.run = x.run
                 /\ y.left = x.left
    BY <1>0, <1>b, <1>5, GoesWithTo DEF MarkSkipped
  <2>4. Claim(f, y)'
    BY <1>0, <2>1, <2>3 DEF Claim, Free, Dispatching, Notes, RowsMove
  <2> QED
    BY <2>1, <2>2, <2>3, <2>4, CalmHop DEF Holding, Dispatching
<1>6. CASE CreateDue(f)
  <2>1. fiber[f].at = "creating" /\ x.run = 0 /\ troubles' = troubles
    BY <1>0, <1>6 DEF CreateDue, At, Claim, Free
  <2>2. PICK trigger, slot, thread, occurrence : CreateRun(trigger, slot, thread, occurrence)
    BY <1>6 DEF CreateDue
  <2>3. PICK run : run = IF runs' # runs THEN Len(runs') ELSE 0
    OBVIOUS
  <2>4. PICK y : Becomes(f, y) /\ y.at = "advancing" /\ y.run = run /\ y.left = x.left
    <3>1. GoesFor(f, "advancing", run)
      BY <1>6, <2>3 DEF CreateDue, GoesFor
    <3> QED
      BY <1>0, <1>b, <3>1, GoesForTo
  <2>5. CASE runs' # runs
    BY <1>0, <2>1, <2>2, <2>3, <2>4, <2>5, NewRunHop DEF Holding
  <2>6. CASE runs' = runs
    <3>1. Calm
      BY <2>1, <2>2, <2>6, NoNewRun
    <3>2. Claim(f, y)'
      BY <1>0, <2>3, <2>4, <2>6 DEF Claim, Free
    <3> QED
      BY <2>1, <2>3, <2>4, <2>6, <3>1, <3>2, CalmHop DEF Holding
  <2> QED
    BY <2>5, <2>6
<1>7. CASE Advance(f)
  <2>1. Calm /\ fiber[f].at = "advancing"
    BY <1>7, QuietIsCalm DEF Advance, At
  <2>2. CASE x.run = 0
    BY <1>0, <1>7, <2>1, <2>2, RestHop DEF Advance, Holding
  <2>3. CASE x.run # 0
    <3>1. Goes(f, "incrementing")
      BY <1>0, <1>7, <2>3 DEF Advance
    <3>2. PICK y : Becomes(f, y) /\ y.at = "incrementing" /\ y.run = x.run /\ y.left = x.left
      BY <1>0, <1>b, <3>1, GoesTo
    <3> QED
      BY <1>0, <2>1, <2>3, <3>2, DispatchHop DEF Dispatching, Holding
  <2> QED
    BY <2>2, <2>3
<1>8. CASE IncrementIterations(f)
  <2>1. Calm /\ fiber[f].at = "incrementing"
    BY <1>8, QuietIsCalm DEF IncrementIterations, At
  <2>2. PICK y : Becomes(f, y) /\ y.at = "starting" /\ y.run = x.run /\ y.left = x.left
    BY <1>0, <1>b, <1>8, GoesTo DEF IncrementIterations
  <2>3. x.run # 0
    BY <1>0, <2>1, Domains DEF Claim, Dispatching
  <2> QED
    BY <1>0, <2>1, <2>2, <2>3, DispatchHop DEF Dispatching, Holding
<1> QED
  BY <1>1, <1>2, <1>3, <1>4, <1>5, <1>6, <1>7, <1>8 DEF Pass

LEMMA DispatchHops ==
    ASSUME FiberInv, Table', RowsMove, NEW f \in Fibers, Dispatch(f) \/ DispatchFails(f)
    PROVE  Hops(f)
<1>b. PICK x : x = fiber[f] /\ FiberTable
  BY DEF FiberInv
<1>0. x = fiber[f] /\ Claim(f, x) /\ x.left \subseteq DOMAIN runs
  BY <1>b DEF FiberInv, Claims, Claim
<1>a. ASSUME x.at \in Dispatching \ {"advancing"}
      PROVE  x.run \in DOMAIN runs /\ turn[x.run] = "none" /\ x.run # 0
  BY <1>0, <1>a, Domains DEF Claim
<1>1. CASE MarkStarted(f)
  <2>1. fiber[f].at = "starting" /\ x.run \in DOMAIN runs /\ turn[x.run] = "none" /\ x.run # 0
    BY <1>0, <1>1, <1>a DEF MarkStarted, At, Dispatching
  <2>2. Calm
    BY <1>1, MarkIsCalm DEF MarkStarted
  <2>3. PICK position \in {"lastCheck", "treeCheck", "threadCheck", "failing"} : Goes(f, position)
    BY <1>1 DEF MarkStarted, AfterStart
  <2>4. PICK y : Becomes(f, y) /\ y.at = position /\ y.run = x.run /\ y.left = x.left
    BY <1>b, <2>3, GoesTo
  <2>5. CASE position = "failing"
    BY <1>0, <2>1, <2>2, <2>4, <2>5, EasyHop DEF Holding
  <2>6. CASE position # "failing"
    BY <1>0, <2>1, <2>2, <2>4, <2>6, DispatchHop DEF Dispatching, Holding
  <2> QED
    BY <2>5, <2>6
<1>2. CASE CheckBeforeTree(f)
  <2>1. Calm /\ fiber[f].at = "treeCheck" /\ x.run \in DOMAIN runs /\ x.run # 0
    BY <1>0, <1>2, <1>a, QuietIsCalm DEF CheckBeforeTree, At, Dispatching
  <2>2. PICK position \in {"makingTree", "failing"} : Goes(f, position)
    BY <1>2 DEF CheckBeforeTree
  <2>3. PICK y : Becomes(f, y) /\ y.at = position /\ y.run = x.run /\ y.left = x.left
    BY <1>b, <2>2, GoesTo
  <2>4. CASE position = "failing"
    BY <1>0, <2>1, <2>3, <2>4, EasyHop DEF Holding
  <2>5. CASE position = "makingTree"
    BY <1>0, <2>1, <2>3, <2>5, DispatchHop DEF Dispatching, Holding
  <2> QED
    BY <2>4, <2>5
<1>3. CASE MakeTree(f)
  <2>1. /\ fiber[f].at = "makingTree" /\ x.run \in DOMAIN runs /\ turn[x.run] = "none" /\ x.run # 0
        /\ Puts(x.run, "made") /\ UNCHANGED <<runs, turn, troubles>>
    BY <1>0, <1>3, <1>a DEF MakeTree, At, Dispatching, Puts
  <2>2. PICK y : Becomes(f, y) /\ y.at = "threadCheck" /\ y.run = x.run /\ y.left = x.left
    BY <1>b, <1>3, GoesTo DEF MakeTree
  <2>3. TreesMove(f, y) /\ TurnsMove(f)
    BY <1>0, <2>1, <2>2, TreeMoves DEF Holding
  <2> QED
    BY <1>0, <2>1, <2>2, <2>3, StayHop DEF Dispatching
<1>4. CASE CheckBeforeThread(f)
  <2>1. /\ fiber[f].at = "threadCheck" /\ x.run \in DOMAIN runs /\ turn[x.run] = "none" /\ x.run # 0
        /\ UNCHANGED <<runs, turn, troubles>>
    BY <1>0, <1>4, <1>a DEF CheckBeforeThread, At, Dispatching
  <2>2. CASE StillDispatching(f)
    <3>1. Goes(f, "creatingThread") /\ tree' = tree
      BY <1>4, <2>2 DEF CheckBeforeThread
    <3>2. PICK y : Becomes(f, y) /\ y.at = "creatingThread" /\ y.run = x.run /\ y.left = x.left
      BY <1>b, <3>1, GoesTo
    <3>3. TreesMove(f, y) /\ TurnsMove(f)
      BY <1>0, <2>1, <3>1, <3>2 DEF Holding, TreesMove, TurnsMove, FiberInv, TurnsTable
    <3> QED
      BY <1>0, <2>1, <3>2, <3>3, StayHop DEF Dispatching
  <2>3. CASE ~StillDispatching(f)
    <3>1. Goes(f, "failing") /\ tree' = CleanedUp(x.run)
      BY <1>0, <1>4, <2>3 DEF CheckBeforeThread
    <3>2. PICK y : Becomes(f, y) /\ y.at = "failing" /\ y.run = x.run /\ y.left = x.left
      BY <1>b, <3>1, GoesTo
    <3>3. TreesMove(f, y) /\ TurnsMove(f)
      BY <1>0, <2>1, <3>1, <3>2, TreeCleaned
    <3> QED
      BY <1>0, <2>1, <3>2, <3>3, StayHop DEF Dispatching
  <2> QED
    BY <2>2, <2>3
<1>5. CASE CreateThread(f)
  <2>1. /\ fiber[f].at = "creatingThread" /\ x.run \in DOMAIN runs /\ turn[x.run] = "none"
        /\ x.run # 0 /\ UNCHANGED <<runs, turn>> /\ troubles \subseteq troubles'
    BY <1>0, <1>5, <1>a, TroubleGrows DEF CreateThread, At, Dispatching
  <2>2. CASE Goes(f, "lastCheck") /\ tree' = [tree EXCEPT ![x.run] = IF @ = "made" THEN "attached" ELSE @]
    <3>1. PICK state : state = IF tree[x.run] = "made" THEN "attached" ELSE tree[x.run]
      OBVIOUS
    <3>2. Puts(x.run, state)
      BY <2>2, <3>1 DEF Puts
    <3>3. state \in {"none", "attached", "removed"}
      <4>1. tree[x.run] \in {"none", "made", "attached", "removed"}
        BY <2>1, TreeState
      <4> QED
        BY <3>1, <4>1
    <3>4. PICK y : Becomes(f, y) /\ y.at = "lastCheck" /\ y.run = x.run /\ y.left = x.left
      BY <1>b, <2>2, GoesTo
    <3>5. TreesMove(f, y) /\ TurnsMove(f)
      BY <1>0, <2>1, <3>2, <3>3, <3>4, TreeMoves
    <3> QED
      BY <1>0, <2>1, <3>4, <3>5, StayHop DEF Dispatching
  <2>3. CASE Goes(f, "failing") /\ tree' = CleanedUp(x.run)
    <3>1. PICK y : Becomes(f, y) /\ y.at = "failing" /\ y.run = x.run /\ y.left = x.left
      BY <1>b, <2>3, GoesTo
    <3>2. TreesMove(f, y) /\ TurnsMove(f)
      BY <1>0, <2>1, <2>3, <3>1, TreeCleaned
    <3> QED
      BY <1>0, <2>1, <3>1, <3>2, StayHop DEF Dispatching
  <2> QED
    BY <1>0, <1>5, <2>2, <2>3 DEF CreateThread
<1>6. CASE CheckBeforeTurn(f)
  <2>1. /\ fiber[f].at = "lastCheck" /\ x.run \in DOMAIN runs /\ turn[x.run] = "none" /\ x.run # 0
        /\ UNCHANGED rows /\ troubles' = troubles
    BY <1>0, <1>6, <1>a DEF CheckBeforeTurn, At, Dispatching
  <2>2. Calm
    BY <2>1, QuietIsCalm
  <2>3. CASE LastCheck(f)
    <3>1. Goes(f, "launching") /\ runs[x.run].status = "running"
      BY <1>0, <1>6, <2>3 DEF CheckBeforeTurn, LastCheck, StillDispatching, Run
    <3>2. PICK y : Becomes(f, y) /\ y.at = "launching" /\ y.run = x.run /\ y.left = x.left
      BY <1>b, <3>1, GoesTo
    <3>3. TreesMove(f, y) /\ TurnsMove(f)
      BY <2>1, <3>2 DEF Holding, TreesMove, TurnsMove, FiberInv, TurnsTable, rows, engine
    <3>4. Claim(f, y)'
      BY <1>0, <2>1, <3>2 DEF Claim, Dispatching, Free, rows, engine
    <3>5. Hop(f, y)
      BY <1>0, <2>1, <2>2, <3>1, <3>2, <3>3, <3>4 DEF Hop, Calm, Dispatching
    <3> QED
      BY <3>5 DEF Hops
  <2>4. CASE ~LastCheck(f)
    <3>1. Goes(f, "failing")
      BY <1>6, <2>4 DEF CheckBeforeTurn
    <3>2. PICK y : Becomes(f, y) /\ y.at = "failing" /\ y.run = x.run /\ y.left = x.left
      BY <1>b, <3>1, GoesTo
    <3> QED
      BY <1>0, <2>1, <2>2, <3>2, EasyHop DEF Holding
  <2> QED
    BY <2>3, <2>4
<1>7. CASE Launch(f)
  <2>1. /\ fiber[f].at = "launching" /\ x.run \in DOMAIN runs /\ turn[x.run] = "none" /\ x.run # 0
        /\ UNCHANGED <<runs, tree, troubles>> /\ Rest(f)
    BY <1>0, <1>7, <1>a DEF Launch, At, Dispatching
  <2>2. PICK state \in {"pending", "waiting"} : turn' = [turn EXCEPT ![x.run] = state]
    BY <1>0, <1>7 DEF Launch
  <2>3. PICK y : Becomes(f, y) /\ y.at = "idle" /\ y.run = 0 /\ y.left = x.left
    BY <1>0, <2>1, RestsTo, ZenonT(60) DEF Rest, FiberInv
  <2>4. turn' \in Seq(TurnStates) /\ Len(turn') = Len(turn)
    <3>1. turn \in Seq(TurnStates) /\ state \in TurnStates
      BY DEF FiberInv, TurnsTable, TurnStates
    <3>2. PICK n \in Nat : n = Len(turn) /\ DOMAIN turn = 1 .. n
      BY <3>1
    <3>3. turn' = [r \in 1 .. n |-> IF r = x.run THEN state ELSE turn[r]]
      BY <2>2, <3>2
    <3>4. \A r \in 1 .. n : turn[r] \in TurnStates
      BY <3>1, <3>2
    <3>5. turn' \in [1 .. n -> TurnStates]
      BY <3>1, <3>3, <3>4
    <3> QED
      BY <3>2, <3>5, RangeIsSeq
  <2>5. \A r \in DOMAIN runs : r # x.run => turn'[r] = turn[r]
    BY <2>2, Domains
  <2>6. TurnsMove(f)
    BY <1>0, <2>1, <2>4, <2>5 DEF TurnsMove, TurnsTable, FiberInv
  <2>7. TreesMove(f, y)
    BY <2>1 DEF TreesMove, Holding
  <2>8. Claim(f, y)'
    BY <1>0, <2>1, <2>3 DEF Claim, Dispatching, Free
  <2>9. Hop(f, y)
    BY <1>0, <2>1, <2>3, <2>6, <2>7, <2>8 DEF Hop, Dispatching, ResultsMove, FiberInv, SuccessStands
  <2> QED
    BY <2>9 DEF Hops
<1>8. CASE DispatchFails(f)
  <2>1. fiber[f].at \in {"starting", "makingTree", "launching"} /\ x.run \in DOMAIN runs
    BY <1>0, <1>8, <1>a DEF DispatchFails, At, Dispatching
  <2>2. Calm
    BY <1>8, QuietIsCalm, TroubleGrows DEF DispatchFails
  <2>3. PICK y : Becomes(f, y) /\ y.at = "failing" /\ y.run = x.run /\ y.left = x.left
    BY <1>b, <1>8, GoesTo DEF DispatchFails
  <2> QED
    BY <1>0, <2>1, <2>2, <2>3, EasyHop DEF Holding
<1> QED
  BY <1>1, <1>2, <1>3, <1>4, <1>5, <1>6, <1>7, <1>8 DEF Dispatch

LEMMA SettleHops ==
    ASSUME FiberInv, Table', RowsMove, NEW f \in Fibers, Settle(f)
    PROVE  Hops(f)
<1>b. PICK x : x = fiber[f] /\ FiberTable
  BY DEF FiberInv
<1>0. Claim(f, x) /\ x.left \subseteq DOMAIN runs
  BY <1>b DEF FiberInv, Claims, Claim
<1>1. CASE MarkFailed(f)
  <2>1. fiber[f].at = "failing" /\ x.run \in DOMAIN runs
    BY <1>b, <1>0, <1>1 DEF MarkFailed, At, Claim
  <2>2. Calm
    BY <1>1, MarkIsCalm DEF MarkFailed
  <2>3. CASE FailedFor(f)
    <3>1. GoesWith(f, "result", "failed") /\ runs'[x.run].status = "failed"
      BY <1>b, <1>1, <2>3 DEF MarkFailed, FailedFor
    <3>2. PICK y : /\ Becomes(f, y) /\ y.at = "result" /\ y.note = "failed" /\ y.run = x.run
                   /\ y.left = x.left
      BY <1>b, <3>1, GoesWithTo
    <3>3. Claim(f, y)'
      BY <1>0, <2>1, <3>1, <3>2 DEF Claim, Free, Dispatching, Notes, RowsMove
    <3> QED
      BY <2>1, <2>2, <3>2, <3>3, CalmHop DEF Holding, Dispatching
  <2>4. CASE ~FailedFor(f)
    BY <1>1, <2>1, <2>2, <2>4, RestHop DEF MarkFailed, Holding
  <2> QED
    BY <2>3, <2>4
<1>2. CASE WriteResult(f)
  <2>1. PICK note : note = fiber[f].note
    OBVIOUS
  <2>2. /\ fiber[f].at = "result" /\ note \in Notes
        /\ note = "failed" => x.run \in DOMAIN runs /\ (runs[x.run].status = "failed" \/ turn[x.run] = "error")
        /\ note = "skipped" => x.run \in DOMAIN runs /\ runs[x.run].thread = "none"
    BY <1>b, <1>0, <1>2, <2>1 DEF WriteResult, At, Claim
  <2>3. MarkResult(x.run, ResultOf(note)) /\ UNCHANGED <<engine, troubles>>
    BY <1>b, <1>2, <2>1 DEF WriteResult
  <2>4. ResultOf(note) \in TooLate => note \in {"failed", "skipped"}
    BY <2>2 DEF ResultOf, TooLate, Notes
  <2>5. x.run \in DOMAIN runs /\ ResultOf(note) \in TooLate => runs[x.run].status # "succeeded"
    BY <2>2, <2>4 DEF FiberInv, SuccessStands
  <2>6. Calm
    BY <2>3, <2>5, ResultIsCalm
  <2>7. CASE note \in {"failed", "interrupted"}
    <3>1. Goes(f, "settling")
      BY <1>2, <2>1, <2>7 DEF WriteResult
    <3>2. PICK y : Becomes(f, y) /\ y.at = "settling" /\ y.run = x.run /\ y.left = x.left
      BY <1>b, <3>1, GoesTo
    <3> QED
      BY <1>0, <2>2, <2>6, <3>2, EasyHop DEF Holding, Plain
  <2>8. CASE note = "skipped"
    <3>1. GoesFor(f, "advancing", 0)
      BY <1>2, <2>1, <2>8 DEF WriteResult, GoesFor
    <3>2. PICK y : Becomes(f, y) /\ y.at = "advancing" /\ y.run = 0 /\ y.left = x.left
      BY <1>b, <3>1, GoesForTo
    <3>3. Claim(f, y)'
      BY <1>0, <2>6, <3>2, CalmDomain DEF Claim, Free, Dispatching
    <3> QED
      BY <2>2, <2>6, <3>2, <3>3, CalmHop DEF Holding
  <2>9. CASE note \notin {"failed", "interrupted", "skipped"}
    <3>1. Rest(f)
      BY <1>2, <2>1, <2>9 DEF WriteResult
    <3> QED
      BY <2>2, <2>6, <3>1, RestHop DEF Holding
  <2> QED
    BY <2>7, <2>8, <2>9
<1>3. CASE StopLoop(f)
  <2>1. Calm /\ fiber[f].at = "settling"
    BY <1>3, QuietIsCalm DEF StopLoop, At
  <2>2. CASE Rest(f)
    BY <2>1, <2>2, RestHop DEF Holding
  <2>3. CASE Goes(f, "stopping")
    <3>1. PICK y : Becomes(f, y) /\ y.at = "stopping" /\ y.run = x.run /\ y.left = x.left
      BY <1>b, <2>3, GoesTo
    <3> QED
      BY <1>0, <2>1, <3>1, EasyHop DEF Holding, Plain
  <2> QED
    BY <1>3, <2>2, <2>3 DEF StopLoop
<1>4. CASE DisableStopped(f)
  <2>1. Calm /\ Rest(f) /\ fiber[f].at \notin Holding
    BY <1>4, QuietIsCalm DEF DisableStopped, At, Holding
  <2> QED
    BY <2>1, RestHop
<1> QED
  BY <1>1, <1>2, <1>3, <1>4 DEF Settle

LEMMA CallHops ==
    ASSUME FiberInv, Table', RowsMove, NEW f \in Fibers, Call(f)
    PROVE  Hops(f)
<1>b. PICK x : x = fiber[f] /\ FiberTable
  BY DEF FiberInv
<1>0. Claim(f, x) /\ x.left \subseteq DOMAIN runs
  BY <1>b DEF FiberInv, Claims, Claim
<1>1. CASE RestartLoop(f)
  <2>1. Calm /\ fiber[f].at = "restarting" /\ x.run = 0
    BY <1>b, <1>0, <1>1, QuietIsCalm DEF RestartLoop, At, Claim, Free
  <2>2. PICK y : Becomes(f, y) /\ y.at = "creating" /\ y.run = x.run /\ y.left = x.left
    BY <1>b, <1>1, GoesTo DEF RestartLoop
  <2> QED
    BY <1>0, <2>1, <2>2, EasyHop DEF Holding, Free
<1>2. CASE CreateManual(f)
  <2>1. fiber[f].at = "creating" /\ x.run = 0 /\ troubles' = troubles
    BY <1>b, <1>0, <1>2 DEF CreateManual, At, Claim, Free
  <2>2. PICK trigger, slot, thread, occurrence : CreateRun(trigger, slot, thread, occurrence)
    BY <1>2 DEF CreateManual
  <2>3. CASE runs' # runs
    <3>1. GoesFor(f, "incrementing", Len(runs'))
      BY <1>2, <2>3 DEF CreateManual, GoesFor
    <3>2. PICK y : Becomes(f, y) /\ y.at = "incrementing" /\ y.run = Len(runs') /\ y.left = x.left
      BY <1>b, <3>1, GoesForTo
    <3> QED
      BY <1>0, <2>1, <2>2, <2>3, <3>2, NewRunHop DEF Holding
  <2>4. CASE runs' = runs
    <3>1. Calm /\ Rest(f)
      BY <1>2, <2>1, <2>2, <2>4, NoNewRun DEF CreateManual
    <3> QED
      BY <2>1, <3>1, RestHop DEF Holding
  <2> QED
    BY <2>3, <2>4
<1>3. CASE CancelRun(f)
  <2>1. PICK r \in x.left :
            /\ Mark(r, Active, "cancelled")
            /\ fiber' = [fiber EXCEPT ![f].left = x.left \ {r}, ![f].run = r,
                    ![f].at = IF runs'[r].status = "cancelled" THEN "cancelled" ELSE x.at]
    BY <1>b, <1>3 DEF CancelRun
  <2>2. Calm /\ fiber[f].at = "cancelling" /\ r \in DOMAIN runs
    BY <1>0, <1>3, <2>1, MarkIsCalm DEF CancelRun, At
  <2>3. PICK position, left :
            /\ position = IF runs'[r].status = "cancelled" THEN "cancelled" ELSE "cancelling"
            /\ left = x.left \ {r}
    OBVIOUS
  <2>4. GoesNext(f, left, r, position)
    BY <1>b, <2>1, <2>2, <2>3 DEF GoesNext
  <2>5. PICK y : Becomes(f, y) /\ y.at = position /\ y.run = r /\ y.left = left
    BY <1>b, <2>4, GoesNextTo
  <2>6. Claim(f, y)'
    BY <1>0, <2>2, <2>3, <2>5, CalmDomain DEF Claim, Free, Dispatching
  <2> QED
    BY <2>2, <2>3, <2>5, <2>6, CalmHop DEF Holding, Dispatching
<1>4. CASE WriteCancelled(f)
  <2>1. fiber[f].at = "cancelled" /\ x.run \in DOMAIN runs /\ runs[x.run].status = "cancelled"
    BY <1>b, <1>0, <1>4 DEF WriteCancelled, At, Claim
  <2>2. Calm
    BY <1>b, <1>4, <2>1, ResultIsCalm DEF WriteCancelled
  <2>3. PICK y : Becomes(f, y) /\ y.at = "cancelling" /\ y.run = x.run /\ y.left = x.left
    BY <1>b, <1>4, GoesTo DEF WriteCancelled
  <2> QED
    BY <1>0, <2>1, <2>2, <2>3, EasyHop DEF Holding, Plain
<1>5. CASE EndCancelling(f)
  <2>1. Calm /\ Rest(f) /\ fiber[f].at \notin Holding
    BY <1>5, QuietIsCalm DEF EndCancelling, At, Holding
  <2> QED
    BY <2>1, RestHop
<1>6. CASE SaveEdit(f)
  <2>1. Calm /\ Rest(f) /\ fiber[f].at \notin Holding
    BY <1>6, QuietIsCalm DEF SaveEdit, At, Holding
  <2> QED
    BY <2>1, RestHop
<1> QED
  BY <1>1, <1>2, <1>3, <1>4, <1>5, <1>6 DEF Call

LEMMA SuccessIsCalm ==
    ASSUME FiberInv, Table', NEW r \in DOMAIN runs, turn[r] = "completed", runs[r].thread # "none",
           runs[r].status \in Open, UNCHANGED <<engine, troubles>>,
           runs' = [runs EXCEPT ![r].status = "succeeded", ![r].result = "succeeded", ![r].evaluated = "no"]
    PROVE  Calm
<1>1. PICK V : runs \in Seq(V)
  BY DEF FiberInv, Table
<1>2. runs' = [q \in DOMAIN runs |-> runs'[q]]
  BY <1>1
<1>3. \A q \in DOMAIN runs : q # r => runs'[q] = runs[q]
  BY <1>1
<1>4. runs'[r].result = "succeeded"
  <2>1. PICK h : h = Columns(runs[r]) /\ runs[r] = h
    BY DEF FiberInv, Table
  <2>2. PICK new : new = [h EXCEPT !.status = "succeeded"]
    OBVIOUS
  <2>3. PICK newer : newer = [new EXCEPT !.result = "succeeded"]
    OBVIOUS
  <2>4. PICK newest : newest = [newer EXCEPT !.evaluated = "no"]
    OBVIOUS
  <2>5. runs'[r] = newest
    BY <1>1, <2>1, <2>2, <2>3, <2>4
  <2>6. new = [trigger |-> h.trigger, slot |-> h.slot, thread |-> h.thread,
               status |-> "succeeded", result |-> h.result, evaluated |-> h.evaluated]
    BY <2>1, <2>2 DEF Columns
  <2>7. newer = [trigger |-> h.trigger, slot |-> h.slot, thread |-> h.thread,
                 status |-> "succeeded", result |-> "succeeded", evaluated |-> h.evaluated]
    BY <2>3, <2>6
  <2>8. newest.result = "succeeded"
    BY <2>4, <2>7
  <2> QED
    BY <2>5, <2>8
<1>5. PICK W : runs' \in Seq(W)
  BY DEF Table
<1>6. Len(runs') = Len(runs) /\ DOMAIN runs' = DOMAIN runs
  BY <1>1, <1>2, <1>5
<1>7. ResultsMove
  BY <1>3, <1>4, <1>6 DEF ResultsMove, FiberInv, SuccessStands
<1> QED
  BY <1>6, <1>7 DEF Calm

\* The turn that a run is marked for has ended.
LEMMA VerdictFacts ==
    ASSUME NEW f, turn[fiber[f].run] \in TurnStates
    PROVE  /\ Verdict(f) = "succeeded" => turn[fiber[f].run] = "completed"
           /\ Verdict(f) = "failed" => turn[fiber[f].run] = "error"
<1>1. PICK state : state = turn[fiber[f].run]
  OBVIOUS
<1>2. state \in {"asking", "pending", "running", "stuck", "none", "waiting", "dropped"} =>
        Verdict(f) \in {"same", "running", "waiting"}
  BY <1>1 DEF Verdict, Unseen
<1>3. state = "interrupted" => Verdict(f) = "interrupted"
  BY <1>1 DEF Verdict, Unseen
<1>4. state = "completed" => Verdict(f) = "succeeded"
  BY <1>1 DEF Verdict, Unseen
<1>5. state = "error" => Verdict(f) = "failed"
  BY <1>1 DEF Verdict, Unseen
<1> QED
  BY <1>1, <1>2, <1>3, <1>4, <1>5 DEF TurnStates

LEMMA WatchHops ==
    ASSUME FiberInv, Table', RowsMove, NEW f \in Fibers, Watch(f)
    PROVE  Hops(f)
<1>b. PICK x : x = fiber[f] /\ FiberTable
  BY DEF FiberInv
<1>0. Claim(f, x) /\ x.left \subseteq DOMAIN runs
  BY <1>b DEF FiberInv, Claims, Claim
<1>1. CASE ReadTurn(f)
  <2>1. /\ Calm /\ fiber[f].at = "reading" /\ x.run \in DOMAIN runs /\ runs[x.run].thread # "none"
        /\ runs' = runs /\ turn' = turn
    BY <1>b, <1>0, <1>1, QuietIsCalm DEF ReadTurn, At, Claim, rows, engine
  <2>2. CASE Rest(f)
    BY <2>1, <2>2, RestHop DEF Holding
  <2>3. CASE GoesWith(f, "marking", Verdict(f))
    <3>1. PICK note : note = Verdict(f)
      OBVIOUS
    <3>2. PICK y : /\ Becomes(f, y) /\ y.at = "marking" /\ y.note = note /\ y.run = x.run
                   /\ y.left = x.left
      BY <1>b, <2>3, <3>1, GoesWithTo
    <3>3. /\ note = "succeeded" => turn[x.run] = "completed"
          /\ note = "failed" => turn[x.run] = "error"
      BY <1>b, <2>1, <3>1, VerdictFacts, Domains
    <3>4. Claim(f, y)'
      BY <1>0, <2>1, <3>2, <3>3 DEF Claim, Free, Dispatching
    <3> QED
      BY <2>1, <3>2, <3>4, CalmHop DEF Holding, Dispatching
  <2> QED
    BY <1>1, <2>2, <2>3 DEF ReadTurn
<1>2. CASE MarkVerdict(f)
  <2>1. PICK note : note = x.note
    OBVIOUS
  <2>2. /\ fiber[f].at = "marking" /\ x.run \in DOMAIN runs /\ runs[x.run].thread # "none"
        /\ note = "succeeded" => turn[x.run] = "completed"
        /\ note = "failed" => turn[x.run] = "error"
        /\ UNCHANGED <<engine, troubles>>
    BY <1>b, <1>0, <1>2, <2>1 DEF MarkVerdict, At, Claim
  <2>3. CASE note = "succeeded"
    <3>1. Calm
      <4>1. CASE runs[x.run].status \in Open
        BY <1>b, <1>2, <2>1, <2>2, <2>3, <4>1, SuccessIsCalm DEF MarkVerdict
      <4>2. CASE runs[x.run].status \notin Open
        <5>1. UNCHANGED rows /\ troubles' = troubles
          BY <1>b, <1>2, <2>1, <2>2, <2>3, <4>2 DEF MarkVerdict, rows, engine
        <5> QED
          BY <5>1, QuietIsCalm
      <4> QED
        BY <4>1, <4>2
    <3>2. Goes(f, "settling")
      BY <1>b, <1>2, <2>1, <2>3 DEF MarkVerdict
    <3>3. PICK y : Becomes(f, y) /\ y.at = "settling" /\ y.run = x.run /\ y.left = x.left
      BY <1>b, <3>2, GoesTo
    <3> QED
      BY <1>0, <2>2, <3>1, <3>3, EasyHop DEF Holding, Plain
  <2>4. CASE note # "succeeded"
    <3>1. PICK from : Mark(x.run, from, note) /\ note \in {"waiting", "running", "failed", "interrupted"}
      BY <1>b, <1>2, <2>1, <2>4 DEF MarkVerdict
    <3>2. Calm
      BY <2>2, <2>4, <3>1, MarkIsCalm
    <3>3. Goes(f, "result")
      BY <1>b, <1>2, <2>1, <2>4 DEF MarkVerdict
    <3>4. PICK y : /\ Becomes(f, y) /\ y.at = "result" /\ y.note = note /\ y.run = x.run
                   /\ y.left = x.left
      BY <1>b, <2>1, <3>3, GoesTo
    <3>5. Claim(f, y)'
      <4>1. DOMAIN runs' = DOMAIN runs /\ turn' = turn
        BY <3>2, CalmDomain DEF Calm, engine
      <4>2. note \in Notes /\ note # "skipped"
        BY <3>1 DEF Notes
      <4> QED
        BY <1>0, <2>2, <3>4, <4>1, <4>2 DEF Claim, Free, Dispatching
    <3> QED
      BY <2>2, <3>2, <3>4, <3>5, CalmHop DEF Holding, Dispatching
  <2> QED
    BY <2>3, <2>4
<1>3. CASE ListRecoverable(f)
  <2>1. Calm /\ fiber[f].at = "booting"
    BY <1>3, QuietIsCalm DEF ListRecoverable, At
  <2>2. PICK left : left = {r \in DOMAIN runs : Recoverable(r)}
    OBVIOUS
  <2>3. PICK y : Becomes(f, y) /\ y.at = "idle" /\ y.run = 0 /\ y.left = left
    BY <1>b, <1>3, <2>2, RestsTo DEF ListRecoverable
  <2> QED
    BY <2>1, <2>2, <2>3, EasyHop DEF Holding
<1>4. CASE Recover(f)
  <2>1. Calm /\ fiber[f].at = "idle" /\ f[2] = "watcher" /\ runs' = runs
    BY <1>4, QuietIsCalm DEF Recover, At, rows
  <2>a. PICK r \in x.left :
            fiber' = [fiber EXCEPT ![f].left = @ \ {r}, ![f].run = r, ![f].note = runs[r].status,
                        ![f].at = IF runs[r].thread = "none" \/ turn[r] \in Unseen THEN "retiring"
                                  ELSE IF IsActive(r) THEN "reading" ELSE "idle"]
    BY <1>b, <1>4 DEF Recover
  <2>2. PICK position, left, note :
            /\ position = IF runs[r].thread = "none" \/ turn[r] \in Unseen THEN "retiring"
                          ELSE IF IsActive(r) THEN "reading" ELSE "idle"
            /\ left = x.left \ {r} /\ note = runs[r].status
    OBVIOUS
  <2>c. GoesRecovering(f, left, r, note, position)
    BY <1>b, <2>a, <2>2 DEF GoesRecovering
  <2>3. PICK y : Becomes(f, y) /\ y.at = position /\ y.run = r /\ y.left = left
    BY <1>b, <2>c, GoesRecoveringTo
  <2>4. CASE position = "reading"
    <3>1. runs[r].thread # "none" /\ r \in DOMAIN runs /\ left \subseteq DOMAIN runs
      BY <1>0, <2>2, <2>4
    <3>2. Claim(f, y)'
      BY <2>1, <2>3, <2>4, <3>1 DEF Claim, Free, Dispatching
    <3> QED
      BY <2>1, <2>3, <2>4, <3>2, CalmHop DEF Holding, Dispatching
  <2>5. CASE position \in {"retiring", "idle"}
    BY <1>0, <2>1, <2>2, <2>3, <2>5, EasyHop DEF Holding, Plain
  <2> QED
    BY <2>2, <2>4, <2>5
<1>5. CASE Retire(f)
  <2>1. Calm /\ fiber[f].at = "retiring"
    BY <1>5, MarkIsCalm DEF Retire, At
  <2>2. CASE Rest(f)
    BY <2>1, <2>2, RestHop DEF Holding
  <2>3. CASE GoesWith(f, "result", "retired")
    <3>1. PICK y : /\ Becomes(f, y) /\ y.at = "result" /\ y.note = "retired" /\ y.run = x.run
                   /\ y.left = x.left
      BY <1>b, <2>3, GoesWithTo
    <3>2. Claim(f, y)'
      BY <1>0, <2>1, <3>1, CalmDomain DEF Claim, Free, Dispatching, Notes
    <3> QED
      BY <2>1, <3>1, <3>2, CalmHop DEF Holding, Dispatching
  <2> QED
    BY <1>5, <2>2, <2>3 DEF Retire
<1> QED
  BY <1>1, <1>2, <1>3, <1>4, <1>5 DEF Watch

LEMMA CheckHops ==
    ASSUME FiberInv, Table', NEW f \in Fibers, Check(f)
    PROVE  Hops(f)
<1>b. PICK x : x = fiber[f] /\ FiberTable
  BY DEF FiberInv
<1>0. Claim(f, x) /\ x.left \subseteq DOMAIN runs
  BY <1>b DEF FiberInv, Claims, Claim
<1>1. CASE Evaluate(f)
  <2>1. Calm /\ fiber[f].at = "evaluating"
    BY <1>1, QuietIsCalm DEF Evaluate, At
  <2>2. CASE Goes(f, "matching")
    <3>1. PICK y : Becomes(f, y) /\ y.at = "matching" /\ y.run = x.run /\ y.left = x.left
      BY <1>b, <2>2, GoesTo
    <3> QED
      BY <1>0, <2>1, <3>1, EasyHop DEF Holding, Plain
  <2>3. CASE GoesWith(f, "recording", "yes")
    <3>1. PICK y : Becomes(f, y) /\ y.at = "recording" /\ y.run = x.run /\ y.left = x.left
      BY <1>b, <2>3, GoesWithTo
    <3> QED
      BY <1>0, <2>1, <3>1, EasyHop DEF Holding, Plain
  <2> QED
    BY <1>1, <2>2, <2>3 DEF Evaluate
<1>2. CASE DisableMatched(f)
  <2>1. Calm /\ fiber[f].at = "matching"
    BY <1>2, QuietIsCalm DEF DisableMatched, At
  <2>2. PICK note : GoesWith(f, "recording", note)
    BY <1>2 DEF DisableMatched
  <2>3. PICK y : Becomes(f, y) /\ y.at = "recording" /\ y.run = x.run /\ y.left = x.left
    BY <1>b, <2>2, GoesWithTo
  <2> QED
    BY <1>0, <2>1, <2>3, EasyHop DEF Holding, Plain
<1>3. CASE Record(f)
  <2>1. fiber[f].at = "recording" /\ Rest(f) /\ UNCHANGED engine
    BY <1>3 DEF Record, At
  <2>2. Calm
    <3>1. CASE UNCHANGED runs /\ Trouble("fault")
      <4>1. UNCHANGED rows /\ troubles \subseteq troubles'
        BY <1>3, <3>1, TroubleGrows DEF Record, rows
      <4> QED
        BY <4>1, QuietIsCalm
    <3>2. CASE UNCHANGED troubles /\ runs' = [runs EXCEPT ![x.run].evaluated = x.note]
      BY <2>1, <3>2, NoteIsCalm
    <3> QED
      BY <1>b, <1>3, <3>1, <3>2 DEF Record
  <2> QED
    BY <2>1, <2>2, RestHop DEF Holding
<1> QED
  BY <1>1, <1>2, <1>3 DEF Check

\* A server that is not up has crashed.
CrashNoted == up = plan.servers \/ "crash" \in troubles

LEMMA StartHops ==
    ASSUME FiberInv, Table', CrashNoted, NEW s \in Servers,
           StartPass(s) \/ TimeOut(s) \/ TakeJob(s) \/ Boot(s)
    PROVE  \E f \in Fibers : Hops(f)
<1>1. CASE StartPass(s)
  <2>1. PICK f \in Fibers : f = <<s, "scheduler">>
    BY DEF Fibers, Kinds
  <2>b. PICK x : x = fiber[f] /\ FiberTable
    BY DEF FiberInv
  <2>0. Claim(f, x) /\ x.left \subseteq DOMAIN runs
    BY <2>b DEF FiberInv, Claims, Claim
  <2>2. Calm /\ fiber[f].at = "idle" /\ x.run = 0
    BY <1>1, <2>1, <2>b, <2>0, QuietIsCalm DEF StartPass, At, Claim
  <2>3. CASE fiber' = fiber
    <3>1. Becomes(f, x)
      BY <2>b, <2>3 DEF Becomes, FiberTable
    <3> QED
      BY <2>b, <2>0, <2>2, <3>1, EasyHop DEF Holding
  <2>4. CASE fiber' # fiber
    <3>1. PICK position \in {"capped", "missing", "counting", "creating"} :
            fiber' = [fiber EXCEPT ![f].at = position, ![f].time = clock, ![f].def = def]
      BY <1>1, <2>1, <2>4 DEF StartPass
    <3>2. GoesPlanning(f, position, clock, def)
      BY <3>1 DEF GoesPlanning
    <3>3. PICK y : Becomes(f, y) /\ y.at = position /\ y.run = x.run /\ y.left = x.left
      BY <2>b, <3>2, GoesPlanningTo
    <3> QED
      BY <2>0, <2>2, <3>1, <3>3, EasyHop DEF Holding, Free
  <2> QED
    BY <2>3, <2>4
<1>2. CASE TimeOut(s)
  <2>1. PICK f \in Fibers : f = <<s, "scheduler">>
    BY DEF Fibers, Kinds
  <2>b. PICK x : x = fiber[f] /\ FiberTable
    BY DEF FiberInv
  <2>0. Claim(f, x) /\ x.left \subseteq DOMAIN runs
    BY <2>b DEF FiberInv, Claims, Claim
  <2>2. Calm /\ fiber[f].at = "idle"
    BY <1>2, <2>1, QuietIsCalm, TroubleGrows DEF TimeOut, At
  <2>3. PICK r \in DOMAIN runs : fiber' = [fiber EXCEPT ![f].at = "failing", ![f].run = r]
    BY <1>2, <2>1 DEF TimeOut
  <2>4. GoesFor(f, "failing", r)
    BY <2>3 DEF GoesFor
  <2>5. PICK y : Becomes(f, y) /\ y.at = "failing" /\ y.run = r /\ y.left = x.left
    BY <2>b, <2>4, GoesForTo
  <2> QED
    BY <2>0, <2>2, <2>3, <2>5, EasyHop DEF Holding
<1>3. CASE TakeJob(s)
  <2>1. PICK f \in Fibers : f = <<s, "evaluator">>
    BY DEF Fibers, Kinds
  <2>b. PICK x : x = fiber[f] /\ FiberTable
    BY DEF FiberInv
  <2>0. Claim(f, x) /\ x.left \subseteq DOMAIN runs
    BY <2>b DEF FiberInv, Claims, Claim
  <2>2. Calm /\ fiber[f].at = "idle"
    BY <1>3, <2>1, QuietIsCalm DEF TakeJob, At
  <2>3. PICK run : fiber' = [fiber EXCEPT ![f].at = "evaluating", ![f].run = run]
    BY <1>3, <2>1 DEF TakeJob
  <2>4. GoesFor(f, "evaluating", run)
    BY <2>3 DEF GoesFor
  <2>5. PICK y : Becomes(f, y) /\ y.at = "evaluating" /\ y.run = run /\ y.left = x.left
    BY <2>b, <2>4, GoesForTo
  <2> QED
    BY <2>0, <2>2, <2>5, EasyHop DEF Holding, Plain
<1>4. CASE Boot(s)
  <2>1. PICK f \in Fibers : f = <<s, "watcher">>
    BY DEF Fibers, Kinds
  <2>b. PICK y : y = Booting
    OBVIOUS
  <2>2. y = [at |-> "booting", run |-> 0, def |-> NoRow, time |-> 0, note |-> "none", left |-> {}]
    BY <2>b DEF Booting, Idle
  <2>3. y = Held(y) /\ y.at = "booting" /\ y.left = {}
    BY <2>2 DEF Held
  <2>4. Becomes(f, y)
    BY <1>4, <2>1, <2>b, <2>3 DEF Boot, Becomes
  <2>5. Calm
    BY <1>4, QuietIsCalm DEF Boot
  <2>6. "crash" \in troubles
    BY <1>4 DEF Boot, CrashNoted
  <2> QED
    BY <2>3, <2>4, <2>5, <2>6, EasyHop DEF Plain
<1> QED
  BY <1>1, <1>2, <1>3, <1>4

LEMMA UserHops ==
    ASSUME FiberInv, Table', NEW s \in Servers, NEW kind, RunNow(s) \/ Cancel(s) \/ Edit(s, kind)
    PROVE  \E f \in Fibers : Hops(f)
<1>1. PICK f \in Fibers : f = <<s, "caller">>
  BY DEF Fibers, Kinds
<1>b. PICK x : x = fiber[f] /\ FiberTable
  BY DEF FiberInv
<1>0. Claim(f, x) /\ x.left \subseteq DOMAIN runs
  BY <1>b DEF FiberInv, Claims, Claim
<1>2. CASE RunNow(s)
  <2>1. Calm /\ fiber[f].at = "idle" /\ x.run = 0
    BY <1>1, <1>b, <1>0, <1>2, QuietIsCalm, TroubleGrows DEF RunNow, At, Claim
  <2>2. PICK position \in {"counting", "restarting"} :
            fiber' = [fiber EXCEPT ![f].at = position, ![f].def = def, ![f].time = clock]
    BY <1>1, <1>2 DEF RunNow
  <2>3. GoesAsking(f, position, def, clock)
    BY <2>2 DEF GoesAsking
  <2>4. PICK y : Becomes(f, y) /\ y.at = position /\ y.run = x.run /\ y.left = x.left
    BY <1>b, <2>3, GoesAskingTo
  <2> QED
    BY <1>0, <2>1, <2>2, <2>4, EasyHop DEF Holding, Free
<1>3. CASE Cancel(s)
  <2>1. Calm /\ fiber[f].at = "idle"
    BY <1>1, <1>3, QuietIsCalm, TroubleGrows DEF Cancel, At
  <2>2. CASE \E r \in DOMAIN runs :
                fiber' = [fiber EXCEPT ![f].at = "cancelling", ![f].left = {r}, ![f].note = "cancel"]
    <3>1. PICK r \in DOMAIN runs :
            fiber' = [fiber EXCEPT ![f].at = "cancelling", ![f].left = {r}, ![f].note = "cancel"]
      BY <2>2
    <3>2. GoesCancelling(f, "cancelling", {r}, "cancel")
      BY <3>1 DEF GoesCancelling
    <3>3. PICK y : Becomes(f, y) /\ y.at = "cancelling" /\ y.left = {r}
      BY <1>b, <3>2, GoesCancellingTo
    <3> QED
      BY <2>1, <3>1, <3>3, EasyHop DEF Holding, Plain
  <2>3. CASE fiber' = [fiber EXCEPT ![f].at = "cancelling", ![f].def = def,
                                    ![f].left = {r \in DOMAIN runs : IsActive(r)}]
    <3>1. PICK left : left = {r \in DOMAIN runs : IsActive(r)}
      OBVIOUS
    <3>2. GoesDeleting(f, "cancelling", def, left)
      BY <2>3, <3>1 DEF GoesDeleting
    <3>3. PICK y : Becomes(f, y) /\ y.at = "cancelling" /\ y.left = left
      BY <1>b, <3>2, GoesDeletingTo
    <3> QED
      BY <2>1, <3>1, <3>3, EasyHop DEF Holding, Plain
  <2> QED
    BY <1>1, <1>3, <2>2, <2>3 DEF Cancel
<1>4. CASE Edit(s, kind)
  <2>1. Calm /\ fiber[f].at = "idle"
    BY <1>1, <1>4, QuietIsCalm, TroubleGrows DEF Edit, At
  <2>2. PICK row : fiber' = [fiber EXCEPT ![f].at = "saving", ![f].time = clock, ![f].def = row]
    BY <1>1, <1>4 DEF Edit
  <2>3. GoesPlanning(f, "saving", clock, row)
    BY <2>2 DEF GoesPlanning
  <2>4. PICK y : Becomes(f, y) /\ y.at = "saving" /\ y.run = x.run /\ y.left = x.left
    BY <1>b, <2>3, GoesPlanningTo
  <2> QED
    BY <1>0, <2>1, <2>4, EasyHop DEF Holding, Plain
<1> QED
  BY <1>2, <1>3, <1>4

LEMMA ReadRunHops ==
    ASSUME FiberInv, Table', NEW f \in Fibers, NEW r \in DOMAIN runs, ReadRun(f, r)
    PROVE  Hops(f)
<1>b. PICK x : x = fiber[f] /\ FiberTable
  BY DEF FiberInv
<1>0. Claim(f, x) /\ x.left \subseteq DOMAIN runs
  BY <1>b DEF FiberInv, Claims, Claim
<1>1. /\ Calm /\ fiber[f].at = "idle" /\ runs' = runs /\ runs[r].thread # "none"
  BY QuietIsCalm, TroubleGrows DEF ReadRun, At, rows
<1>2. PICK note : fiber' = [fiber EXCEPT ![f].at = "reading", ![f].run = r, ![f].note = note]
  BY DEF ReadRun
<1>3. GoesReading(f, "reading", r, note)
  BY <1>2 DEF GoesReading
<1>4. PICK y : Becomes(f, y) /\ y.at = "reading" /\ y.run = r /\ y.left = x.left
  BY <1>b, <1>3, GoesReadingTo
<1>5. Claim(f, y)'
  BY <1>0, <1>1, <1>4 DEF Claim, Free, Dispatching
<1> QED
  BY <1>1, <1>4, <1>5, CalmHop DEF Holding, Dispatching

-----------------------------------------------------------------------------------
\* What happens to the fibers, and beside them.

\* No run comes or goes; turns end, and fibers are lost with their server.
World ==
    /\ runs' = runs /\ tree' = tree /\ troubles \subseteq troubles' /\ TurnsTable'
    /\ \A r \in DOMAIN runs : turn'[r] = turn[r] \/ turn[r] \notin {"none", "completed", "error"}
    /\ FiberTable'
    /\ \A g \in Fibers : fiber'[g] = fiber[g] \/ (fiber'[g] = Idle /\ "crash" \in troubles')

LEMMA WorldKeeps ==
    ASSUME FiberInv, Table', World
    PROVE  FiberInv'
<1>1. \A r \in DOMAIN runs : turn[r] \in {"none", "completed", "error"} => turn'[r] = turn[r]
  BY DEF World
<1>2. ASSUME NEW g \in Fibers
      PROVE  Claim(g, fiber[g])'
  <2>1. PICK x : x = fiber'[g]
    OBVIOUS
  <2>2. CASE x = Idle
    <3>1. x = [at |-> "idle", run |-> 0, def |-> NoRow, time |-> 0, note |-> "none", left |-> {}]
      BY <2>2 DEF Idle
    <3>2. x.at = "idle" /\ x.run = 0 /\ x.left = {}
      BY <3>1
    <3>3. Claim(g, x)'
      BY <3>2 DEF Claim, Free, Dispatching
    <3> QED
      BY <2>1, <3>3
  <2>3. CASE x = fiber[g]
    <3>1. Claim(g, x)
      BY <1>2, <2>3 DEF FiberInv, Claims
    <3>2. Claim(g, x)'
      BY <1>1, <3>1 DEF Claim, World
    <3> QED
      BY <2>1, <3>2
  <2> QED
    BY <1>2, <2>1, <2>2, <2>3 DEF World
<1>3. Claims'
  BY <1>2 DEF Claims
<1>4. Alone'
  <2>1. PICK i : i = Idle
    OBVIOUS
  <2>2. i = [at |-> "idle", run |-> 0, def |-> NoRow, time |-> 0, note |-> "none", left |-> {}]
    BY <2>1 DEF Idle
  <2>3. i.at \notin Dispatching
    BY <2>2 DEF Dispatching
  <2>4. \A g \in Fibers : fiber'[g].at \in Dispatching => fiber'[g] = fiber[g]
    BY <2>1, <2>3 DEF World
  <2> QED
    BY <2>4 DEF FiberInv, Alone
<1>5. SuccessStands'
  BY <1>1 DEF World, FiberInv, SuccessStands
<1> QED
  BY <1>3, <1>4, <1>5 DEF FiberInv, World

LEMMA StillWorld ==
    ASSUME FiberInv, UNCHANGED <<runs, tree, fiber>>, troubles \subseteq troubles', TurnsTable',
           \A r \in DOMAIN runs : turn'[r] = turn[r] \/ turn[r] \notin {"none", "completed", "error"}
    PROVE  World
BY DEF World, FiberInv, FiberTable

\* One turn goes on.
LEMMA TurnWorld ==
    ASSUME FiberInv, NEW r \in DOMAIN runs, TurnMoves(r) \/ TurnLost(r)
    PROVE  World
<1>1. UNCHANGED <<runs, tree, fiber>> /\ troubles \subseteq troubles'
  BY TroubleGrows DEF TurnMoves, TurnLost
<1>2. PICK state \in TurnStates : turn' = [turn EXCEPT ![r] = state]
  <2>1. CASE TurnMoves(r)
    <3>1. PICK state \in Moves[turn[r]] : turn' = [turn EXCEPT ![r] = state]
      BY <2>1 DEF TurnMoves
    <3>2. state \in TurnStates
      BY <2>1, <3>1 DEF TurnMoves, Moves, TurnStates
    <3> QED
      BY <3>1, <3>2
  <2>2. CASE TurnLost(r)
    BY <2>2 DEF TurnLost, TurnStates
  <2> QED
    BY <2>1, <2>2
<1>3. turn[r] \notin {"none", "completed", "error"}
  BY DEF TurnMoves, TurnLost, Moves
<1>4. turn \in Seq(TurnStates) /\ Len(turn) = Len(runs) /\ DOMAIN turn = DOMAIN runs
  BY Domains DEF FiberInv, TurnsTable
<1>5. turn' \in Seq(TurnStates) /\ Len(turn') = Len(turn)
  <2>0. turn \in Seq(TurnStates)
    BY <1>4
  <2>1. PICK n \in Nat : n = Len(turn) /\ DOMAIN turn = 1 .. n
    BY <2>0
  <2>2. turn' = [q \in 1 .. n |-> IF q = r THEN state ELSE turn[q]]
    BY <1>2, <2>1
  <2>3. \A q \in 1 .. n : turn[q] \in TurnStates
    BY <1>4, <2>1
  <2>4. turn' \in [1 .. n -> TurnStates]
    BY <1>2, <2>2, <2>3
  <2> QED
    BY <2>1, <2>4, RangeIsSeq
<1>6. TurnsTable'
  BY <1>1, <1>4, <1>5 DEF TurnsTable, FiberInv
<1>7. \A q \in DOMAIN runs : q # r => turn'[q] = turn[q]
  BY <1>2, <1>4
<1> QED
  BY <1>1, <1>3, <1>6, <1>7, StillWorld

LEMMA SettledFacts ==
    ASSUME NEW state \in TurnStates
    PROVE  /\ Settled(state) \in TurnStates
           /\ state \in {"none", "completed", "error"} => Settled(state) = state
<1>1. state \in {"none", "completed", "error", "interrupted", "dropped", "stuck"} => Settled(state) = state
  BY DEF Settled
<1>2. state = "waiting" => Settled(state) = "dropped"
  BY DEF Settled
<1>3. state = "pending" => Settled(state) = "stuck"
  BY DEF Settled
<1>4. state \in {"running", "asking"} => Settled(state) = "interrupted"
  BY DEF Settled
<1> QED
  BY <1>1, <1>2, <1>3, <1>4 DEF TurnStates

LEMMA CrashWorld ==
    ASSUME FiberInv, NEW s \in Servers, Crash(s)
    PROVE  World
<1>1. /\ UNCHANGED <<runs, tree>> /\ troubles \subseteq troubles' /\ "crash" \in troubles'
      /\ fiber' = [f \in Fibers |-> IF f[1] = s THEN Idle ELSE fiber[f]]
  BY DEF Crash, Trouble
<1>2. PICK lost : turn' = [r \in DOMAIN runs |-> IF r \in lost THEN Settled(turn[r]) ELSE turn[r]]
  BY DEF Crash
<1>3. /\ turn \in Seq(TurnStates) /\ Len(turn) = Len(runs) /\ DOMAIN turn = DOMAIN runs
      /\ \A r \in DOMAIN runs : turn[r] \in TurnStates
  BY Domains DEF FiberInv, TurnsTable
<1>4. \A r \in DOMAIN runs : turn'[r] = turn[r] \/ turn'[r] = Settled(turn[r])
  BY <1>2
<1>5. \A r \in DOMAIN runs :
        /\ turn'[r] \in TurnStates
        /\ turn'[r] = turn[r] \/ turn[r] \notin {"none", "completed", "error"}
  BY <1>3, <1>4, SettledFacts
<1>6. turn' \in Seq(TurnStates) /\ Len(turn') = Len(turn)
  <2>0. turn \in Seq(TurnStates)
    BY <1>3
  <2>1. PICK n \in Nat : n = Len(turn) /\ DOMAIN turn = 1 .. n
    BY <2>0
  <2>2. turn' = [r \in 1 .. n |-> turn'[r]]
    BY <1>2, <1>3, <2>1
  <2>3. turn' \in [1 .. n -> TurnStates]
    BY <1>3, <1>5, <2>1, <2>2
  <2> QED
    BY <2>1, <2>3, RangeIsSeq
<1>7. TurnsTable'
  BY <1>1, <1>3, <1>6 DEF TurnsTable, FiberInv
<1>8. \A g \in Fibers : fiber'[g] = fiber[g] \/ fiber'[g] = Idle
  BY <1>1
<1>9. FiberTable'
  <2>1. PICK i : i = Idle
    OBVIOUS
  <2>2. i = [at |-> "idle", run |-> 0, def |-> NoRow, time |-> 0, note |-> "none", left |-> {}]
    BY <2>1 DEF Idle
  <2>3. i = Held(i)
    BY <2>2 DEF Held
  <2>4. \A g \in Fibers : fiber'[g] = Held(fiber'[g])
    BY <1>8, <2>1, <2>3 DEF FiberInv, FiberTable
  <2>5. fiber' = [g \in Fibers |-> fiber'[g]]
    BY <1>1
  <2> QED
    BY <2>4, <2>5 DEF FiberTable
<1> QED
  BY <1>1, <1>5, <1>7, <1>8, <1>9 DEF World

\* Every step is one of a fiber or of the world.
LEMMA EveryStep ==
    ASSUME FiberInv, Table', RowsMove, CrashNoted, [Next]_vars
    PROVE  World \/ \E f \in Fibers : Hops(f)
<1>1. ASSUME NEW f \in Fibers, Works(f) \/ DispatchFails(f)
      PROVE  Hops(f)
  BY <1>1, PassHops, DispatchHops, SettleHops, CallHops, WatchHops, CheckHops DEF Works
<1>2. ASSUME NEW f \in Fibers, NEW r \in DOMAIN runs, ReadRun(f, r)
      PROVE  Hops(f)
  BY <1>2, ReadRunHops
<1>3. ASSUME NEW s \in Servers, StartPass(s) \/ TimeOut(s) \/ TakeJob(s) \/ Boot(s)
      PROVE  \E f \in Fibers : Hops(f)
  BY <1>3, StartHops
<1>4. ASSUME NEW s \in Servers, NEW kind, RunNow(s) \/ Cancel(s) \/ Edit(s, kind)
      PROVE  \E f \in Fibers : Hops(f)
  BY <1>4, UserHops
<1>5. ASSUME UNCHANGED <<runs, turn, tree, fiber, troubles>>
      PROVE  World
  BY <1>5, StillWorld DEF FiberInv, TurnsTable
<1>6. ASSUME NEW s \in Servers, EnqueueChecks(s)
      PROVE  World
  BY <1>5, <1>6 DEF EnqueueChecks, rows, engine
<1>7. Tick \/ UNCHANGED vars => World
  BY <1>5 DEF Tick, vars, history, rows, engine
<1>8. ASSUME NEW s \in Servers, NEW kind \in {"enable", "disable", "rename"}, Edit(s, kind)
      PROVE  \E f \in Fibers : Hops(f)
  BY <1>4, <1>8
<1> QED
  BY <1>1, <1>2, <1>3, <1>4, <1>6, <1>7, <1>8, TurnWorld, CrashWorld DEF Next

LEMMA FiberInvStep ==
    ASSUME FiberInv, CrashNoted, [Next]_vars
    PROVE  FiberInv'
<1>1. Table' /\ RowsMove
  BY TableMoves DEF FiberInv
<1>2. ASSUME NEW f \in Fibers, Hops(f)
      PROVE  FiberInv'
  <2>1. PICK y : Hop(f, y)
    BY <1>2 DEF Hops
  <2> QED
    BY <1>1, <1>2, <2>1, HopKeeps
<1> QED
  BY <1>1, <1>2, EveryStep, WorldKeeps

LEMMA FiberInvInit == Init => FiberInv
<1> SUFFICES ASSUME Init PROVE FiberInv
  OBVIOUS
<1>1. /\ DOMAIN runs = {} /\ Len(runs) = 0
      /\ turn = <<>> /\ tree = <<>> /\ Len(turn) = 0 /\ Len(tree) = 0
      /\ fiber = [f \in Fibers |-> Fresh[f[2]]]
  BY DEF Init
<1>2. TurnsTable
  <2>1. turn \in Seq(TurnStates) /\ tree \in Seq({"none", "made", "attached", "removed"})
    BY <1>1
  <2> QED
    BY <1>1, <2>1 DEF TurnsTable
<1>3. PICK i : i = Idle
  OBVIOUS
<1>4. i = [at |-> "idle", run |-> 0, def |-> NoRow, time |-> 0, note |-> "none", left |-> {}]
  BY <1>3 DEF Idle
<1>5. PICK b : b = Booting
  OBVIOUS
<1>6. b = [i EXCEPT !.at = "booting"]
  BY <1>3, <1>5 DEF Booting
<1>7. b = [at |-> "booting", run |-> 0, def |-> NoRow, time |-> 0, note |-> "none", left |-> {}]
  BY <1>4, <1>6
<1>8. i = Held(i) /\ i.at = "idle" /\ i.run = 0 /\ i.left = {}
  BY <1>4 DEF Held
<1>9. b = Held(b) /\ b.at = "booting" /\ b.left = {}
  BY <1>7 DEF Held
<1>10. \A f \in Fibers : fiber[f] \in {i, b}
  BY <1>1, <1>3, <1>5 DEF Fresh, Fibers
<1>11. FiberTable
  BY <1>1, <1>8, <1>9, <1>10 DEF FiberTable
<1>12. ASSUME NEW f, NEW x \in {i, b}
       PROVE  Claim(f, x)
  BY <1>8, <1>9, <1>12 DEF Claim, Free, Dispatching
<1>13. Claims
  BY <1>10, <1>12 DEF Claims
<1>14. i.at \notin Dispatching /\ b.at \notin Dispatching
  BY <1>8, <1>9 DEF Dispatching
<1>15. Alone
  BY <1>10, <1>14 DEF Alone
<1>16. SuccessStands
  BY <1>1 DEF SuccessStands
<1> QED
  BY <1>2, <1>11, <1>13, <1>15, <1>16, TableInit DEF FiberInv

\* Only a crash takes a server down.
LEMMA CrashNotedStep ==
    ASSUME CrashNoted, [Next]_vars, plan' = plan
    PROVE  CrashNoted'
<1>1. ASSUME up' = up, troubles \subseteq troubles'
      PROVE  CrashNoted'
  BY <1>1 DEF CrashNoted
<1>2. ASSUME NEW f \in Fibers, Pass(f)
      PROVE  up' = up /\ troubles' = troubles
  BY <1>2 DEF Pass, DisableCapped, CountActive, CheckPending, RecordMissed, MarkSkipped, CreateDue,
              Advance, IncrementIterations, scheduling
<1>3. ASSUME NEW f \in Fibers, Dispatch(f) \/ DispatchFails(f)
      PROVE  up' = up /\ troubles \subseteq troubles'
  BY <1>3, TroubleGrows
     DEF Dispatch, MarkStarted, CheckBeforeTree, MakeTree, CheckBeforeThread, CreateThread,
         CheckBeforeTurn, Launch, DispatchFails, scheduling
<1>4. ASSUME NEW f \in Fibers, Settle(f) \/ Call(f)
      PROVE  up' = up /\ troubles' = troubles
  BY <1>4 DEF Settle, MarkFailed, WriteResult, StopLoop, DisableStopped, Call, RestartLoop,
              CreateManual, CancelRun, WriteCancelled, EndCancelling, SaveEdit, scheduling
<1>5. ASSUME NEW f \in Fibers, Watch(f)
      PROVE  up' = up /\ troubles' = troubles
  BY <1>5 DEF Watch, ReadTurn, MarkVerdict, ListRecoverable, Recover, Retire, scheduling
<1>6. ASSUME NEW f \in Fibers, Check(f) \/ \E r \in DOMAIN runs : ReadRun(f, r)
      PROVE  up' = up /\ troubles \subseteq troubles'
  BY <1>6, TroubleGrows DEF Check, Evaluate, DisableMatched, Record, ReadRun, scheduling
<1>7. ASSUME NEW s \in Servers, StartPass(s) \/ TimeOut(s) \/ EnqueueChecks(s) \/ TakeJob(s)
      PROVE  up' = up /\ troubles \subseteq troubles'
  BY <1>7, TroubleGrows DEF StartPass, TimeOut, EnqueueChecks, TakeJob, scheduling
<1>8. ASSUME NEW s \in Servers, NEW kind, RunNow(s) \/ Cancel(s) \/ Edit(s, kind)
      PROVE  up' = up /\ troubles \subseteq troubles'
  BY <1>8, TroubleGrows DEF RunNow, Cancel, Edit, scheduling
<1>9. ASSUME NEW s \in Servers, Crash(s) \/ Boot(s)
      PROVE  CrashNoted'
  BY <1>9 DEF Crash, Boot, Trouble, CrashNoted
<1>10. ASSUME NEW r \in DOMAIN runs, TurnMoves(r) \/ TurnLost(r)
       PROVE  up' = up /\ troubles \subseteq troubles'
  BY <1>10, TroubleGrows DEF TurnMoves, TurnLost, scheduling
<1>11. Tick \/ UNCHANGED vars => up' = up /\ troubles' = troubles
  BY DEF Tick, vars
<1>12. ASSUME NEW f \in Fibers, Works(f)
       PROVE  up' = up /\ troubles \subseteq troubles'
  BY <1>2, <1>3, <1>4, <1>5, <1>6, <1>12 DEF Works
<1> QED
  BY <1>1, <1>3, <1>6, <1>7, <1>8, <1>9, <1>10, <1>11, <1>12 DEF Next

LEMMA FibersAlways == Spec => [](FiberInv /\ CrashNoted)
<1>1. Init => CrashNoted
  BY DEF Init, CrashNoted
<1>2. FiberInv /\ CrashNoted /\ [Next]_vars => FiberInv' /\ CrashNoted'
  BY FiberInvStep, CrashNotedStep, TableMoves DEF FiberInv
<1> QED
  BY <1>1, <1>2, FiberInvInit, PTL DEF Spec

-----------------------------------------------------------------------------------
\* What follows.

\* A success is never shown with what came too late, whoever times out, cancels or fails beside
\* it: the order of the guarded updates and of the results that are written after them.
THEOREM SuccessIsShown == Spec => []SucceededResultStands
<1>1. FiberInv => SucceededResultStands
  BY DEF FiberInv, SuccessStands, SucceededResultStands, TooLate
<1> QED
  BY <1>1, FibersAlways, PTL

\* A run that is settled before the last check of its dispatch is never given to a provider, on
\* any number of servers: dispatchRun against cancellations, timeouts and recoveries.
THEOREM NoLateLaunch == Spec => SettledNotLaunched
<1> DEFINE Kept(r) == ~IsActive(r) /\ ~Launched(r) /\ ~Launching(r) => ~Launching(r)' /\ ~Launched(r)'
<1>1. ASSUME FiberInv, CrashNoted, [Next]_vars, NEW r \in DOMAIN runs,
             ~IsActive(r), ~Launched(r), ~Launching(r)
      PROVE  ~Launching(r)' /\ ~Launched(r)'
  <2>1. Table' /\ RowsMove
    BY <1>1, TableMoves DEF FiberInv
  <2>2. CASE World
    <3>1. turn'[r] = "none"
      BY <1>1, <2>2 DEF World, Launched
    <3>2. PICK i : i = Idle
      OBVIOUS
    <3>3. i = [at |-> "idle", run |-> 0, def |-> NoRow, time |-> 0, note |-> "none", left |-> {}]
      BY <3>2 DEF Idle
    <3>4. i.at # "launching"
      BY <3>3
    <3>5. \A g \in Fibers : fiber'[g].at = "launching" => fiber'[g] = fiber[g]
      BY <2>2, <3>2, <3>4 DEF World
    <3> QED
      BY <1>1, <3>1, <3>5 DEF Launching, Launched
  <2>3. ASSUME NEW f \in Fibers, NEW y, Hop(f, y)
        PROVE  ~Launching(r)' /\ ~Launched(r)'
    <3>1. \A g \in Fibers : fiber'[g] = IF g = f THEN y ELSE fiber[g]
      BY <1>1, <2>3 DEF FiberInv, FiberTable, Hop, Becomes
    <3>2. y.at = "launching" => y.run # r
      BY <1>1, <2>3 DEF Hop, IsActive, Active
    <3>3. ~Launching(r)'
      BY <1>1, <3>1, <3>2 DEF Launching
    <3>4. turn'[r] = "none"
      BY <1>1, <2>3 DEF Hop, TurnsMove, Launched, Launching
    <3> QED
      BY <3>3, <3>4 DEF Launched
  <2> QED
    BY <1>1, <2>1, <2>2, <2>3, EveryStep DEF Hops
<1>2. FiberInv /\ CrashNoted /\ [Next]_vars => [\A r \in DOMAIN runs : Kept(r)]_vars
  BY <1>1
<1> QED
  BY <1>2, FibersAlways, PTL DEF SettledNotLaunched, Spec

\* Whoever has to attach or remove a worktree is still there.
TreesHeld ==
    "crash" \notin troubles =>
        \A r \in DOMAIN runs : tree[r] = "made" =>
            \E f \in Fibers : fiber[f].run = r /\ fiber[f].at \in Holding

LEMMA TreesHeldStep ==
    ASSUME FiberInv, CrashNoted, TreesHeld, [Next]_vars
    PROVE  TreesHeld'
<1>1. Table' /\ RowsMove
  BY TableMoves DEF FiberInv
<1>2. CASE World
  BY <1>2 DEF World, TreesHeld
<1>3. ASSUME NEW f \in Fibers, NEW y, Hop(f, y)
      PROVE  TreesHeld'
  <2>1. \A g \in Fibers : fiber'[g] = IF g = f THEN y ELSE fiber[g]
    BY <1>3 DEF FiberInv, FiberTable, Hop, Becomes
  <2>2. "threadCheck" \in Holding
    BY DEF Holding
  <2>3. SUFFICES ASSUME "crash" \notin troubles', NEW r \in DOMAIN runs', tree'[r] = "made"
                 PROVE  \E g \in Fibers : fiber'[g].run = r /\ fiber'[g].at \in Holding
    BY DEF TreesHeld
  <2>4. "crash" \notin troubles
    BY <1>3, <2>3 DEF Hop, TreesMove
  <2>5. CASE y.at = "threadCheck" /\ y.run = r
    BY <2>1, <2>2, <2>5
  <2>6. CASE r \in DOMAIN runs /\ tree[r] = "made"
    <3>1. PICK g \in Fibers : fiber[g].run = r /\ fiber[g].at \in Holding
      BY <2>4, <2>6 DEF TreesHeld
    <3>2. CASE g # f
      BY <2>1, <3>1, <3>2
    <3>3. CASE g = f
      <4>1. y.at \in Holding /\ y.run = r
        BY <1>3, <2>3, <2>4, <2>6, <3>1, <3>3 DEF Hop, TreesMove
      <4> QED
        BY <2>1, <4>1
    <3> QED
      BY <3>2, <3>3
  <2> QED
    BY <1>3, <2>3, <2>5, <2>6 DEF Hop, TreesMove
<1> QED
  BY <1>1, <1>2, <1>3, EveryStep DEF Hops

\* A worktree that was made is attached or removed, unless a server dies: dispatchRun and
\* cleanupUnattachedWorktree.
THEOREM NoTreeIsLost == Spec => []NoOrphanTree
<1>1. Init => TreesHeld
  BY DEF Init, TreesHeld
<1>2. FiberInv /\ CrashNoted /\ TreesHeld /\ [Next]_vars => TreesHeld'
  BY TreesHeldStep
<1>3. TreesHeld => NoOrphanTree
  BY DEF TreesHeld, NoOrphanTree, Holding
<1> QED
  BY <1>1, <1>2, <1>3, FibersAlways, PTL DEF Spec

-----------------------------------------------------------------------------------
\* Types.

Places == Free \cup Dispatching \cup Plain \cup
          {"idle", "failing", "reading", "marking", "cancelled", "skipping", "result"}
Remarks == Notes \cup Statuses \cup {"none", "busy", "cancel", "yes", "matched"}

FiberRow == [at: Places, run: Nat, def: Row, time: Nat, note: Remarks, left: SUBSET Nat]

\* Where a fiber need not have a run.
Unbound == Free \cup {"idle", "booting", "saving", "cancelling", "advancing"}

Verdicts == {"waiting", "running", "failed", "interrupted", "succeeded"}

Fits(x) ==
    /\ x.run \in 0 .. Len(runs) /\ x.left \subseteq 1 .. Len(runs)
    /\ x.at \notin Unbound => x.run # 0
    /\ x.at = "marking" => x.note \in Verdicts
    /\ x.at = "recording" => x.note \in {"yes", "matched"}

Settings ==
    /\ plan \in Plans /\ clock \in 0 .. plan.horizon
    /\ lease \in [owner: SUBSET Servers, until: Nat]
    /\ up \subseteq plan.servers /\ overlapped \in BOOLEAN /\ troubles \subseteq plan.possible
Fibered == fiber \in [Fibers -> FiberRow] /\ \A f \in Fibers : Fits(fiber[f])
Rowed == def \in Row /\ runs \in Seq(RunRow)
Job == [run: Nat \ {0}, stale: BOOLEAN]
Checking ==
    /\ jobs \in [Servers -> SUBSET Job]
    /\ \A s \in Servers : \A job \in jobs[s] : job.run <= Len(runs)

Typed == Settings /\ Fibered /\ Rowed /\ Checking

LEMMA TypedOK == Typed /\ FiberInv => TypeOK
<1> SUFFICES ASSUME Typed, FiberInv PROVE TypeOK
  OBVIOUS
<1>1. DOMAIN runs = 1 .. Len(runs) /\ Len(runs) \in Nat
  BY DEF Typed, Rowed
<1>2. DOMAIN turn = DOMAIN runs /\ DOMAIN tree = DOMAIN runs
  BY Domains
<1>3. DOMAIN planned = DOMAIN runs
  <2>1. PICK W : planned \in Seq(W)
    BY DEF FiberInv, Table
  <2> QED
    BY <1>1, <2>1 DEF FiberInv, Table
<1>4. \A s \in Servers : \A job \in jobs[s] : job.run \in DOMAIN runs /\ job.stale \in BOOLEAN
  BY <1>1 DEF Typed, Checking, Job
<1>5. \A f \in Fibers : fiber[f].run \in 0 .. Len(runs) /\ fiber[f].left \subseteq DOMAIN runs
  BY <1>1 DEF Typed, Fibered, Fits
<1> QED
  BY <1>2, <1>3, <1>4, <1>5 DEF Typed, Settings, Rowed, TypeOK

LEMMA InitTyped == Init => Typed
<1> SUFFICES ASSUME Init PROVE Typed
  OBVIOUS
<1>1. Settings
  <2>1. plan \in Plan /\ plan.horizon \in Nat
    BY PlansAssumption DEF Init, Plan
  <2>2. [owner |-> {}, until |-> 0] \in [owner: SUBSET Servers, until: Nat]
    OBVIOUS
  <2> QED
    <3>1. /\ clock = 0 /\ plan \in Plans /\ up = plan.servers /\ overlapped = FALSE
          /\ troubles = {} /\ lease = [owner |-> {}, until |-> 0]
      BY DEF Init
    <3>2. clock \in 0 .. plan.horizon
      BY <2>1, <3>1
    <3> QED
      BY <2>2, <3>1, <3>2 DEF Settings
<1>2. Rowed
  BY DEF Init, Rowed, Row
<1>3. Len(runs) = 0
  BY DEF Init
<1>4. NoRow \in Row
  BY DEF NoRow, Row
<1>5. /\ Idle \in FiberRow /\ Booting \in FiberRow
      /\ Idle.run = 0 /\ Idle.left = {} /\ Idle.at = "idle"
      /\ Booting.run = 0 /\ Booting.left = {} /\ Booting.at = "booting"
  <2>1. "idle" \in Places /\ "booting" \in Places /\ "none" \in Remarks
    BY DEF Places, Plain, Remarks
  <2> QED
    BY <1>4, <2>1 DEF Booting, Idle, FiberRow
<1>6. Fits(Idle) /\ Fits(Booting)
  BY <1>3, <1>5 DEF Fits, Unbound
<1>7. \A k \in Kinds : Fresh[k] = Idle \/ Fresh[k] = Booting
  BY DEF Fresh
<1>8. \A f \in Fibers : f[2] \in Kinds
  BY DEF Fibers
<1>9. Fibered
  BY <1>5, <1>6, <1>7, <1>8 DEF Init, Fibered
<1>10. Checking
  BY DEF Init, Checking
<1> QED
  BY <1>1, <1>2, <1>9, <1>10 DEF Typed

-----------------------------------------------------------------------------------
\* What a step does to the table of runs, row by row.

\* The run succeeded, and was not yet looked at by a stop check.
Done(r) == runs[r].status = "succeeded" /\ runs[r].result = "succeeded" /\ runs[r].evaluated = "no"

RowPath(f, r) ==
    /\ runs'[r].evaluated = "matched" =>
        \/ r \in DOMAIN runs /\ runs[r].evaluated = "matched"
        \/ fiber[f].at = "recording" /\ fiber[f].note = "matched"
    /\ runs'[r].status = "skipped" =>
        \/ r \in DOMAIN runs /\ runs[r].status = "skipped"
        \/ fiber[f].at = "skipping" /\ fiber[f].run = r
    /\ Done(r)' => r \in DOMAIN runs /\ (Done(r) \/ (runs[r].status \in Open /\ runs[r].thread # "none"))
    /\ r \notin DOMAIN runs =>
        runs'[r].thread = "none" \/ (fiber[f].at = "creating" /\ runs'[r].thread = PlannedThread)

RowsPath(f) ==
    /\ runs' \in Seq(RunRow) /\ Len(runs) <= Len(runs')
    /\ \A r \in DOMAIN runs' : RowPath(f, r)

LEMMA SamePath == ASSUME runs \in Seq(RunRow), NEW f, runs' = runs PROVE RowsPath(f)
BY DEF RowsPath, RowPath, Done

LEMMA CreatePath ==
    ASSUME runs \in Seq(RunRow), NEW f, NEW trigger \in {"scheduled", "manual"}, NEW slot \in Nat,
           NEW thread \in {"target", "own", "none"}, NEW occurrence,
           CreateRun(trigger, slot, thread, occurrence),
           thread = "none" \/ (fiber[f].at = "creating" /\ thread = PlannedThread)
    PROVE  RowsPath(f) /\ (runs' # runs => Len(runs') = Len(runs) + 1)
<1>1. PICK row : row = [trigger |-> trigger, slot |-> slot, thread |-> thread,
                        status |-> "pending", result |-> "none", evaluated |-> "no"]
  OBVIOUS
<1>2. /\ row \in RunRow /\ row.status = "pending" /\ row.evaluated = "no" /\ row.thread = thread
  BY <1>1 DEF RunRow, Statuses, Active, Outcomes
<1>3. runs' = Append(runs, row) \/ runs' = runs
  BY <1>1 DEF CreateRun
<1>4. CASE runs' = Append(runs, row)
  <2>1. /\ runs' \in Seq(RunRow) /\ Len(runs') = Len(runs) + 1 /\ Len(runs) \in Nat
        /\ \A r \in DOMAIN runs' : IF r \in DOMAIN runs THEN runs'[r] = runs[r] ELSE runs'[r] = row
    BY <1>2, <1>4
  <2>2. ASSUME NEW r \in DOMAIN runs'
        PROVE  RowPath(f, r)
    <3>1. CASE r \in DOMAIN runs
      BY <2>1, <3>1 DEF RowPath, Done
    <3>2. CASE r \notin DOMAIN runs
      BY <1>2, <2>1, <3>2 DEF RowPath, Done
    <3> QED
      BY <3>1, <3>2
  <2> QED
    BY <2>1, <2>2 DEF RowsPath
<1>5. CASE runs' = runs
  BY <1>5, SamePath
<1> QED
  BY <1>3, <1>4, <1>5

LEMMA RowTyped == ASSUME runs \in Seq(RunRow), NEW r \in DOMAIN runs PROVE runs[r] \in RunRow
OBVIOUS

\* One row is replaced.
Replaces(f, q, row) ==
    /\ row \in RunRow
    /\ row.evaluated = "matched" =>
        runs[q].evaluated = "matched" \/ (fiber[f].at = "recording" /\ fiber[f].note = "matched")
    /\ row.status = "skipped" =>
        runs[q].status = "skipped" \/ (fiber[f].at = "skipping" /\ fiber[f].run = q)
    /\ row.status = "succeeded" /\ row.result = "succeeded" /\ row.evaluated = "no" =>
        Done(q) \/ (runs[q].status \in Open /\ runs[q].thread # "none")

LEMMA OnePath ==
    ASSUME runs \in Seq(RunRow), NEW f, NEW q, NEW row, runs' = [runs EXCEPT ![q] = row],
           q \in DOMAIN runs => Replaces(f, q, row)
    PROVE  RowsPath(f) /\ Len(runs') = Len(runs)
<1>1. PICK n \in Nat : n = Len(runs) /\ DOMAIN runs = 1 .. n
  OBVIOUS
<1>2. runs' = [j \in 1 .. n |-> IF j = q THEN row ELSE runs[j]]
  BY <1>1
<1>3. runs' \in [1 .. n -> RunRow]
  BY <1>1, <1>2, RowTyped DEF Replaces
<1>4. runs' \in Seq(RunRow) /\ Len(runs') = Len(runs) /\ DOMAIN runs' = DOMAIN runs
  BY <1>1, <1>3, RangeIsSeq, ZenonT(60)
<1>5. ASSUME NEW r \in DOMAIN runs'
      PROVE  RowPath(f, r)
  <2>1. r \in DOMAIN runs /\ runs'[r] = IF r = q THEN row ELSE runs[r]
    BY <1>1, <1>2, <1>4
  <2>2. CASE r = q
    BY <2>1, <2>2 DEF RowPath, Done, Replaces
  <2>3. CASE r # q
    BY <2>1, <2>3 DEF RowPath, Done
  <2> QED
    BY <2>2, <2>3
<1> QED
  BY <1>1, <1>4, <1>5 DEF RowsPath

LEMMA MarkPath ==
    ASSUME runs \in Seq(RunRow), NEW f, NEW r, NEW from, NEW status \in Statuses \ {"succeeded"},
           Mark(r, from, status), status = "skipped" => fiber[f].at = "skipping" /\ fiber[f].run = r
    PROVE  RowsPath(f) /\ Len(runs') = Len(runs)
<1>1. CASE runs' = runs
  BY <1>1, SamePath
<1>2. CASE runs' = [runs EXCEPT ![r].status = status]
  <2>1. PICK x : x = runs[r]
    OBVIOUS
  <2>2. PICK row : row = [x EXCEPT !.status = status]
    OBVIOUS
  <2>3. x \in RunRow => row \in RunRow /\ row.evaluated = x.evaluated /\ row.status = status
    BY <2>2 DEF RunRow
  <2>4. runs' = [runs EXCEPT ![r] = row]
    BY <1>2, <2>1, <2>2
  <2>5. r \in DOMAIN runs => Replaces(f, r, row)
    BY <2>1, <2>3, RowTyped DEF Replaces
  <2> QED
    BY <2>4, <2>5, OnePath
<1> QED
  BY <1>1, <1>2 DEF Mark

LEMMA ResultPath ==
    ASSUME runs \in Seq(RunRow), NEW f, NEW r, NEW result \in Outcomes \ {"succeeded"}, MarkResult(r, result)
    PROVE  RowsPath(f) /\ Len(runs') = Len(runs)
<1>1. PICK x : x = runs[r]
  OBVIOUS
<1>2. PICK row : row = [x EXCEPT !.result = result, !.evaluated = "no"]
  OBVIOUS
<1>3. x \in RunRow => /\ row \in RunRow /\ row.evaluated = "no" /\ row.status = x.status
                      /\ row.result = result
  BY <1>2 DEF RunRow
<1>4. runs' = [runs EXCEPT ![r] = row]
  BY <1>1, <1>2 DEF MarkResult
<1>5. r \in DOMAIN runs => Replaces(f, r, row)
  BY <1>1, <1>3, RowTyped DEF Replaces
<1> QED
  BY <1>4, <1>5, OnePath

LEMMA SuccessPath ==
    ASSUME runs \in Seq(RunRow), NEW f, NEW r, Succeeds(r), runs[r].thread # "none"
    PROVE  RowsPath(f) /\ Len(runs') = Len(runs)
<1>1. PICK x : x = runs[r]
  OBVIOUS
<1>2. PICK row : row = [x EXCEPT !.status = "succeeded", !.result = "succeeded", !.evaluated = "no"]
  OBVIOUS
<1>3. x \in RunRow => row \in RunRow /\ row.evaluated = "no" /\ row.status = "succeeded"
  BY <1>2 DEF RunRow, Statuses, Outcomes, Final
<1>4. runs' = [runs EXCEPT ![r] = row]
  BY <1>1, <1>2 DEF Succeeds
<1>5. r \in DOMAIN runs => Replaces(f, r, row)
  BY <1>1, <1>3, RowTyped DEF Replaces, Succeeds
<1> QED
  BY <1>4, <1>5, OnePath

LEMMA EvaluatedPath ==
    ASSUME runs \in Seq(RunRow), NEW f, NEW r, fiber[f].note \in {"yes", "matched"},
           fiber[f].at = "recording", Evaluated(r, fiber[f].note)
    PROVE  RowsPath(f) /\ Len(runs') = Len(runs)
<1>1. PICK x : x = runs[r]
  OBVIOUS
<1>2. PICK note \in {"yes", "matched"} : note = fiber[f].note
  OBVIOUS
<1>3. PICK row : row = [x EXCEPT !.evaluated = note]
  OBVIOUS
<1>4. x \in RunRow => row \in RunRow /\ row.evaluated = note /\ row.status = x.status
  BY <1>3 DEF RunRow
<1>5. runs' = [runs EXCEPT ![r] = row]
  BY <1>1, <1>2, <1>3 DEF Evaluated
<1>6. r \in DOMAIN runs => Replaces(f, r, row)
  BY <1>1, <1>2, <1>4, RowTyped DEF Replaces
<1> QED
  BY <1>5, <1>6, OnePath

\* The next time of a schedule is a time.
LEMMA TimesAre ==
    /\ \A slot, time \in Nat : NextAfter(slot, time) \in Nat
    /\ \A time \in Nat : NextFrom(time) \in Nat
<1>1. Every \in Nat \ {0}
  BY TimesAssumption
<1>2. ASSUME NEW slot \in Nat, NEW time \in Nat
      PROVE  NextAfter(slot, time) \in Nat
  <2>1. CASE slot + Every > time
    BY <1>1, <2>1 DEF NextAfter
  <2>2. CASE ~(slot + Every > time)
    <3>1. time - slot \in Nat
      BY <1>1, <2>2
    <3>2. (time - slot) \div Every \in Nat
      BY <1>1, <3>1
    <3>3. PICK k \in Nat : k = ((time - slot) \div Every) + 1
      BY <3>2
    <3>4. Every * k \in Nat
      BY <1>1
    <3> QED
      BY <2>2, <3>3, <3>4 DEF NextAfter
  <2> QED
    BY <2>1, <2>2
<1> QED
  BY <1>1, <1>2 DEF NextFrom
-----------------------------------------------------------------------------------
\* What a step of a fiber does to the definition, and where it takes the fiber.

\* Where a run is about to be created; a caller gets there, and anybody to a restart of the loop,
\* only as a user asked for a run.
Asked == {"counting", "checking", "restarting", "creating"}
ByUser(f, x) == x.at \in Asked /\ (f[2] = "caller" \/ x.at = "restarting")

DefPath(f) ==
    /\ def' \in Row /\ Checking'
    /\ def'.enabled => \/ def.enabled \/ fiber[f].at = "restarting"
                       \/ fiber[f].at = "saving" /\ fiber[f].def.enabled
    /\ def'.enabled /\ ~def'.archived =>
        (def.enabled /\ ~def.archived) \/ fiber[f].at \in {"restarting", "saving"}

FiberPath(f, y) ==
    /\ Becomes(f, y) /\ y \in FiberRow /\ Fits(y)'
    /\ y.at = "saving" =>
        /\ Edits \cap troubles' # {}
        /\ y.def.enabled => {"enable", "rename"} \cap troubles' # {}
    /\ ByUser(f, y) => ByUser(f, fiber[f]) \/ "runNow" \in troubles'
    /\ y.at = "recording" /\ y.note = "matched" => ~def'.enabled
    /\ f[2] # "caller" /\ y.at \in Asked => f[2] = "scheduler" /\ y.at # "restarting" /\ y.time # 0
    /\ f[2] = "scheduler" /\ y.time # 0 =>
        \/ fiber[f].time # 0 \/ overlapped'
        \/ \A o \in up \ {f[1]} : fiber[<<o, "scheduler">>].time = 0
    /\ y.time # 0 => f[1] \in up
    /\ y.at = "checking" => fiber[f].at = "counting" /\ (y.note # "busy" => Busy("target") = {})
    /\ Heartbeat /\ y.at = "creating" /\ f[2] # "caller" =>
        fiber[f].at = "checking" /\ fiber[f].note # "busy" /\ ~AnyStopCheck

Path(f, y) == FiberPath(f, y) /\ DefPath(f) /\ RowsPath(f) /\ Settings' /\ up \subseteq up' /\ plan' = plan
              /\ troubles \subseteq troubles' /\ (overlapped => overlapped')
Paths(f) == \E y : Path(f, y)

LEMMA SettingsKept ==
    ASSUME Typed, UNCHANGED scheduling, troubles' = troubles \/ \E kind : Trouble(kind)
    PROVE  /\ Settings' /\ up' = up /\ plan' = plan /\ overlapped' = overlapped
           /\ troubles \subseteq troubles'
<1>1. troubles \subseteq troubles' /\ troubles' \subseteq plan.possible
  BY DEF Trouble, Typed, Settings
<1> QED
  BY <1>1 DEF Typed, Settings, scheduling

LEMMA HeldTyped ==
    ASSUME NEW y, y = Held(y), y.at \in Places, y.run \in Nat, y.def \in Row, y.time \in Nat,
           y.note \in Remarks, y.left \subseteq Nat
    PROVE  y \in FiberRow
<1>1. PICK h : h = Held(y)
  OBVIOUS
<1>2. h \in FiberRow
  BY <1>1 DEF Held, FiberRow
<1> QED
  BY <1>1, <1>2

LEMMA FiberFacts ==
    ASSUME Typed, NEW f \in Fibers
    PROVE  /\ fiber[f].at \in Places /\ fiber[f].run \in Nat /\ fiber[f].def \in Row
           /\ fiber[f].time \in Nat /\ fiber[f].note \in Remarks /\ fiber[f].left \subseteq Nat
           /\ fiber[f].run <= Len(runs) /\ fiber[f].left \subseteq 1 .. Len(runs)
           /\ Fits(fiber[f]) /\ Len(runs) \in Nat /\ DOMAIN runs = 1 .. Len(runs)
<1>1. fiber[f] \in FiberRow /\ Fits(fiber[f])
  BY DEF Typed, Fibered
<1>2. Len(runs) \in Nat /\ DOMAIN runs = 1 .. Len(runs)
  BY DEF Typed, Rowed
<1> QED
  BY <1>1, <1>2 DEF FiberRow, Fits

\* Where a fiber goes on to a place at which nothing is yet decided.
LEMMA EasyPath ==
    ASSUME Typed, NEW f \in Fibers, f[1] \in up, NEW y, Becomes(f, y), y.at \in Places,
           y.at \notin Asked \cup {"saving", "recording"},
           y.run \in Nat, y.run <= Len(runs'), y.at \notin Unbound => y.run # 0,
           y.left \subseteq fiber[f].left \cup DOMAIN runs, y.note \in Remarks,
           y.at = "marking" => y.note \in Verdicts,
           y.def \in {fiber[f].def, def, NoRow}, y.time \in {fiber[f].time, 0},
           DefPath(f), RowsPath(f), UNCHANGED scheduling,
           troubles' = troubles \/ \E kind : Trouble(kind)
    PROVE  Paths(f)
<1>1. NoRow \in Row
  BY DEF NoRow, Row
<1>2. y.def \in Row /\ y.time \in Nat /\ y.left \subseteq Nat
  BY <1>1, FiberFacts DEF Typed, Rowed
<1>3. y = Held(y)
  BY DEF Becomes
<1>4. y \in FiberRow
  BY <1>2, <1>3, HeldTyped
<1>5. Len(runs) \in Nat /\ Len(runs') \in Nat /\ Len(runs) <= Len(runs')
  BY FiberFacts DEF RowsPath
<1>6. Fits(y)'
  <2>1. y.left \subseteq 1 .. Len(runs)
    BY FiberFacts
  <2>2. y.left \subseteq 1 .. Len(runs')
    BY <1>5, <2>1
  <2> QED
    BY <1>5, <2>2 DEF Fits
<1>7. y.at # "checking" /\ y.at # "creating" /\ ~ByUser(f, y)
  BY DEF Asked, ByUser
<1>8. FiberPath(f, y)
  BY <1>4, <1>6, <1>7 DEF FiberPath
<1>9. Path(f, y)
  BY <1>8, SettingsKept DEF Path
<1> QED
  BY <1>9 DEF Paths

\* The definition and its stop checks.
LEMMA JobsKept ==
    ASSUME Typed, jobs' = jobs, Len(runs) <= Len(runs'), runs' \in Seq(RunRow)
    PROVE  Checking'
BY DEF Typed, Checking, Rowed, Job

LEMMA JobsStale ==
    ASSUME Typed, jobs' = Stale, runs' = runs
    PROVE  Checking'
<1>1. ASSUME NEW s \in Servers
      PROVE  jobs'[s] \subseteq Job /\ \A job \in jobs'[s] : job.run <= Len(runs)
  <2>1. ASSUME NEW job \in jobs'[s]
        PROVE  job \in Job /\ job.run <= Len(runs)
    <3>1. PICK old \in jobs[s] : job = [old EXCEPT !.stale = TRUE]
      BY DEF Stale
    <3>2. old \in Job /\ old.run <= Len(runs)
      BY DEF Typed, Checking
    <3> QED
      BY <3>1, <3>2 DEF Job
  <2> QED
    BY <2>1
<1>2. jobs' \in [Servers -> SUBSET Job]
  BY <1>1 DEF Stale
<1> QED
  BY <1>1, <1>2 DEF Checking

LEMMA SameDef ==
    ASSUME Typed, NEW f, UNCHANGED definition, RowsPath(f)
    PROVE  DefPath(f)
<1>1. Checking'
  BY JobsKept DEF definition, RowsPath
<1> QED
  BY <1>1 DEF DefPath, definition, Typed, Rowed

LEMMA NewDef ==
    ASSUME Typed, NEW f, NEW row \in Row, WriteDef(row), runs' = runs,
           row.enabled => \/ def.enabled \/ fiber[f].at = "restarting"
                          \/ fiber[f].at = "saving" /\ fiber[f].def.enabled,
           row.enabled /\ ~row.archived =>
               (def.enabled /\ ~def.archived) \/ fiber[f].at \in {"restarting", "saving"}
    PROVE  DefPath(f)
<1>1. Checking' /\ def' = row
  BY JobsStale DEF WriteDef
<1> QED
  BY <1>1 DEF DefPath

LEMMA DisabledIs == ASSUME Typed PROVE Disabled \in Row /\ ~Disabled.enabled
BY DEF Typed, Rowed, Row, Disabled
\* The updates that most actions make.
LEMMA RestPath ==
    ASSUME Typed, FiberInv, NEW f \in Fibers, f[1] \in up, Rest(f), DefPath(f), RowsPath(f),
           UNCHANGED scheduling, troubles' = troubles \/ \E kind : Trouble(kind)
    PROVE  Paths(f)
<1>1. PICK y : /\ Becomes(f, y) /\ y.at = "idle" /\ y.run = 0 /\ y.left = fiber[f].left
               /\ y.def = NoRow /\ y.time = 0 /\ y.note = "none"
  BY RestsWith DEF FiberInv
<1>2. "idle" \in Places /\ "idle" \in Unbound /\ "none" \in Remarks
      /\ "idle" \notin Asked \cup {"saving", "recording"}
  BY DEF Places, Unbound, Remarks, Asked
<1>3. 0 <= Len(runs')
  BY FiberFacts DEF RowsPath
<1> QED
  BY <1>1, <1>2, <1>3, EasyPath

LEMMA GoPath ==
    ASSUME Typed, FiberInv, NEW f \in Fibers, f[1] \in up, NEW at1 \in Places, Goes(f, at1),
           at1 \notin Asked \cup {"saving", "recording", "marking"}, at1 \notin Unbound => fiber[f].run # 0,
           DefPath(f), RowsPath(f), UNCHANGED scheduling,
           troubles' = troubles \/ \E kind : Trouble(kind)
    PROVE  Paths(f)
<1>1. PICK y : /\ Becomes(f, y) /\ y.at = at1 /\ y.run = fiber[f].run /\ y.note = fiber[f].note
               /\ y.left = fiber[f].left /\ y.def = fiber[f].def /\ y.time = fiber[f].time
  BY GoesTo DEF FiberInv
<1>2. y.run \in Nat /\ y.run <= Len(runs') /\ y.note \in Remarks
  BY <1>1, FiberFacts DEF RowsPath
<1> QED
  BY <1>1, <1>2, EasyPath

LEMMA GoWithPath ==
    ASSUME Typed, FiberInv, NEW f \in Fibers, f[1] \in up, NEW at1 \in Places, NEW note1 \in Remarks,
           GoesWith(f, at1, note1), at1 = "marking" => note1 \in Verdicts,
           at1 \notin Asked \cup {"saving", "recording"}, at1 \notin Unbound => fiber[f].run # 0,
           DefPath(f), RowsPath(f), UNCHANGED scheduling,
           troubles' = troubles \/ \E kind : Trouble(kind)
    PROVE  Paths(f)
<1>1. PICK y : /\ Becomes(f, y) /\ y.at = at1 /\ y.note = note1 /\ y.run = fiber[f].run
               /\ y.left = fiber[f].left /\ y.def = fiber[f].def /\ y.time = fiber[f].time
  BY GoesWithTo DEF FiberInv
<1>2. y.run \in Nat /\ y.run <= Len(runs')
  BY <1>1, FiberFacts DEF RowsPath
<1> QED
  BY <1>1, <1>2, EasyPath

\* A fiber goes to the run of a row that is there, or that it has just made.
LEMMA GoForPath ==
    ASSUME Typed, FiberInv, NEW f \in Fibers, f[1] \in up, NEW at1 \in Places, NEW run1 \in Nat,
           GoesFor(f, at1, run1), run1 <= Len(runs'), at1 \notin Unbound => run1 # 0,
           at1 \notin Asked \cup {"saving", "recording", "marking"},
           DefPath(f), RowsPath(f), UNCHANGED scheduling,
           troubles' = troubles \/ \E kind : Trouble(kind)
    PROVE  Paths(f)
<1>1. PICK y : /\ Becomes(f, y) /\ y.at = at1 /\ y.run = run1 /\ y.note = fiber[f].note
               /\ y.left = fiber[f].left /\ y.def = fiber[f].def /\ y.time = fiber[f].time
  BY GoesForTo DEF FiberInv
<1>2. y.note \in Remarks
  BY <1>1, FiberFacts
<1> QED
  BY <1>1, <1>2, EasyPath

\* Most steps write neither a run nor the definition.
LEMMA NothingWritten ==
    ASSUME Typed, NEW f, runs' = runs, UNCHANGED definition
    PROVE  DefPath(f) /\ RowsPath(f)
BY SamePath, SameDef DEF Typed, Rowed

LEMMA OnlyRuns ==
    ASSUME Typed, NEW f, RowsPath(f), UNCHANGED definition
    PROVE  DefPath(f)
BY SameDef

\* The places a step goes to.
LEMMA PlaceFacts ==
    /\ Dispatching \cup Plain \cup {"idle", "failing", "reading", "cancelled", "skipping", "result"} \subseteq Places
    /\ "marking" \in Places
    /\ \A at \in (Dispatching \cup Plain \cup {"failing", "cancelled", "skipping", "result", "reading", "idle"})
                 \ {"saving", "recording"} :
          at \notin Asked \cup {"saving", "recording", "marking"}
BY DEF Places, Dispatching, Plain, Asked

\* A fiber that is not at ease has a run.
LEMMA HasRun ==
    ASSUME Typed, NEW f \in Fibers, fiber[f].at \notin Unbound
    PROVE  fiber[f].run \in 1 .. Len(runs) /\ fiber[f].run # 0
BY FiberFacts DEF Fits

LEMMA DispatchPaths ==
    ASSUME Typed, FiberInv, NEW f \in Fibers, Dispatch(f) \/ DispatchFails(f)
    PROVE  Paths(f)
<1>0. /\ {"failing", "treeCheck", "makingTree", "threadCheck", "creatingThread", "lastCheck", "launching"}
            \cap (Unbound \cup Asked \cup {"saving", "recording", "marking"}) = {}
      /\ {"failing", "treeCheck", "makingTree", "threadCheck", "creatingThread", "lastCheck", "launching"}
            \subseteq Places
      /\ "starting" \notin Unbound /\ AfterStart \in {"treeCheck", "threadCheck", "lastCheck"}
  BY DEF Unbound, Asked, Free, Places, Dispatching, AfterStart
<1> DEFINE Onward == {"failing", "treeCheck", "makingTree", "threadCheck", "creatingThread",
                      "lastCheck", "launching"}
<1> HIDE DEF Onward
<1>1. ASSUME NEW at1 \in Onward, Goes(f, at1), f[1] \in up, fiber[f].at \notin Unbound,
             DefPath(f), RowsPath(f), UNCHANGED scheduling,
             troubles' = troubles \/ \E kind : Trouble(kind)
      PROVE  Paths(f)
  BY <1>0, <1>1, HasRun, GoPath DEF Onward
<1>2. CASE MarkStarted(f)
  <2>1. RowsPath(f)
    BY <1>2, MarkPath DEF MarkStarted, Statuses, Active, Typed, Rowed
  <2>2. DefPath(f)
    BY <1>2, <2>1, OnlyRuns DEF MarkStarted
  <2>3. PICK at1 \in Onward : Goes(f, at1)
    BY <1>0, <1>2 DEF MarkStarted, Onward
  <2> QED
    BY <1>0, <1>1, <1>2, <2>1, <2>2, <2>3 DEF MarkStarted, At
<1>3. CASE ~MarkStarted(f) /\ ~Launch(f)
  <2>1. runs' = runs /\ UNCHANGED definition /\ UNCHANGED scheduling
        /\ (troubles' = troubles \/ \E kind : Trouble(kind))
    BY <1>3 DEF Dispatch, DispatchFails, CheckBeforeTree, MakeTree, CheckBeforeThread, CreateThread,
       CheckBeforeTurn, rows
  <2>2. f[1] \in up /\ fiber[f].at \in Onward \cup {"starting"}
    BY <1>3 DEF Dispatch, DispatchFails, CheckBeforeTree, MakeTree, CheckBeforeThread, CreateThread,
       CheckBeforeTurn, At, Onward
  <2>3. \E at1 \in Onward : Goes(f, at1)
    BY <1>3 DEF Dispatch, DispatchFails, CheckBeforeTree, MakeTree, CheckBeforeThread, CreateThread,
       CheckBeforeTurn, Onward
  <2>4. fiber[f].at \notin Unbound
    BY <1>0, <2>2 DEF Onward
  <2> QED
    BY <1>1, <2>1, <2>2, <2>3, <2>4, NothingWritten
<1>4. CASE Launch(f)
  <2>1. runs' = runs /\ UNCHANGED definition /\ Rest(f) /\ f[1] \in up /\ UNCHANGED scheduling
        /\ troubles' = troubles
    BY <1>4 DEF Launch, At
  <2> QED
    BY <2>1, RestPath, NothingWritten
<1> QED
  BY <1>2, <1>3, <1>4
\* A fiber of a pass, or of a call, that is about to create a run.
Passing(f) ==
    f[2] # "caller" /\ fiber[f].at \in Asked =>
        f[2] = "scheduler" /\ fiber[f].at # "restarting" /\ fiber[f].time # 0

LEMMA AskedPath ==
    ASSUME Typed, NEW f \in Fibers, f[1] \in up, Passing(f), NEW y, Becomes(f, y),
           y.at \in Asked, fiber[f].at \in Asked, f[2] # "caller" => y.at # "restarting",
           y.run = fiber[f].run, y.left = fiber[f].left, y.note \in Remarks,
           y.def = fiber[f].def, y.time = fiber[f].time,
           y.at = "checking" => fiber[f].at = "counting" /\ (y.note # "busy" => Busy("target") = {}),
           Heartbeat /\ y.at = "creating" /\ f[2] # "caller" =>
               fiber[f].at = "checking" /\ fiber[f].note # "busy" /\ ~AnyStopCheck,
           DefPath(f), RowsPath(f), UNCHANGED scheduling, troubles' = troubles
    PROVE  Paths(f)
<1>0. y.at \in Places /\ y.at \in Unbound /\ y.at \notin {"saving", "recording", "marking"}
  BY DEF Asked, Places, Unbound, Free
<1>1. /\ y.def \in Row /\ y.time \in Nat /\ y.left \subseteq 1 .. Len(runs) /\ y.left \subseteq Nat
      /\ y.run \in 0 .. Len(runs) /\ Len(runs) \in Nat
  BY FiberFacts
<1>2. y = Held(y)
  BY DEF Becomes
<1>3. y \in FiberRow
  BY <1>0, <1>1, <1>2, HeldTyped
<1>4. Len(runs') \in Nat /\ Len(runs) <= Len(runs')
  BY DEF RowsPath
<1>5. Fits(y)'
  <2>1. y.left \subseteq 1 .. Len(runs') /\ y.run \in 0 .. Len(runs')
    BY <1>1, <1>4
  <2> QED
    BY <1>0, <2>1 DEF Fits
<1>6. ByUser(f, y) => ByUser(f, fiber[f])
  BY DEF ByUser
<1>7. f[2] # "caller" => f[2] = "scheduler" /\ y.at # "restarting" /\ y.time # 0
  BY DEF Passing
<1>8. FiberPath(f, y)
  BY <1>0, <1>3, <1>5, <1>6, <1>7 DEF FiberPath
<1>9. Path(f, y)
  BY <1>8, SettingsKept DEF Path
<1> QED
  BY <1>9 DEF Paths

LEMMA SlotIs == ASSUME Typed, NEW f \in Fibers PROVE ScheduledFor(f) \in Nat
<1>1. fiber[f].def.next \in Nat /\ fiber[f].time \in Nat
  BY FiberFacts DEF Row
<1> QED
  BY <1>1 DEF ScheduledFor

LEMMA RowsAre == ASSUME Typed PROVE def \in Row /\ runs \in Seq(RunRow)
BY DEF Typed, Rowed

LEMMA PassPaths ==
    ASSUME Typed, FiberInv, NEW f \in Fibers, Passing(f), Pass(f)
    PROVE  Paths(f)
<1>0. /\ {"missing", "skipping", "advancing", "starting", "result"} \subseteq Places
      /\ {"missing", "skipping", "advancing", "starting", "result"}
            \cap (Asked \cup {"saving", "recording", "marking"}) = {}
      /\ "missing" \in Unbound /\ "advancing" \in Unbound
      /\ "skipping" \notin Unbound /\ "incrementing" \notin Unbound /\ "starting" \notin Unbound
      /\ {"counting", "checking", "restarting", "creating"} \subseteq Asked
      /\ "incrementing" \in Places
      /\ "incrementing" \notin Asked \cup {"saving", "recording", "marking"}
      /\ {"busy", "none", "skipped"} \subseteq Remarks
  BY DEF Unbound, Asked, Free, Places, Dispatching, Remarks, Notes
<1>1. CASE DisableCapped(f)
  <2>1. /\ runs' = runs /\ Rest(f) /\ f[1] \in up /\ UNCHANGED scheduling /\ troubles' = troubles
        /\ WriteDef(Disabled)
    BY <1>1 DEF DisableCapped, At, rows
  <2>2. DefPath(f) /\ RowsPath(f)
    BY <2>1, NewDef, DisabledIs, SamePath, RowsAre
  <2> QED
    BY <2>1, <2>2, RestPath
<1>2. CASE CountActive(f)
  <2>1. /\ runs' = runs /\ UNCHANGED definition /\ f[1] \in up /\ UNCHANGED scheduling
        /\ troubles' = troubles /\ fiber[f].at = "counting"
    BY <1>2 DEF CountActive, At, rows
  <2>2. PICK note \in {"busy", "none"} :
            GoesWith(f, "checking", note) /\ (note # "busy" => Busy("target") = {})
    BY <1>2 DEF CountActive
  <2>3. PICK y : /\ Becomes(f, y) /\ y.at = "checking" /\ y.note = note /\ y.run = fiber[f].run
                 /\ y.left = fiber[f].left /\ y.def = fiber[f].def /\ y.time = fiber[f].time
    BY <2>2, GoesWithTo DEF FiberInv
  <2>4. DefPath(f) /\ RowsPath(f)
    BY <2>1, NothingWritten
  <2>5. y.at \in Asked /\ fiber[f].at \in Asked /\ y.at # "restarting" /\ y.at # "creating"
        /\ y.note \in Remarks /\ (y.note # "busy" => Busy("target") = {})
    BY <1>0, <2>1, <2>2, <2>3
  <2> QED
    BY <2>1, <2>3, <2>4, <2>5, AskedPath
<1>3. CASE CheckPending(f)
  <2>1. /\ runs' = runs /\ UNCHANGED definition /\ f[1] \in up /\ UNCHANGED scheduling
        /\ troubles' = troubles /\ fiber[f].at = "checking"
    BY <1>3 DEF CheckPending, At, rows
  <2>2. DefPath(f) /\ RowsPath(f)
    BY <2>1, NothingWritten
  <2>3. CASE Rest(f)
    BY <2>1, <2>2, <2>3, RestPath
  <2>4. CASE Goes(f, "missing")
    BY <1>0, <2>1, <2>2, <2>4, GoPath
  <2>5. ASSUME NEW at1 \in {"restarting", "creating"}, Goes(f, at1),
               at1 = "restarting" => f[2] = "caller",
               at1 = "creating" => fiber[f].note # "busy" /\ ~AnyStopCheck
        PROVE  Paths(f)
    <3>1. PICK y : /\ Becomes(f, y) /\ y.at = at1 /\ y.run = fiber[f].run /\ y.note = fiber[f].note
                   /\ y.left = fiber[f].left /\ y.def = fiber[f].def /\ y.time = fiber[f].time
      BY <2>5, GoesTo DEF FiberInv
    <3>2. y.at \in Asked /\ fiber[f].at \in Asked /\ y.note \in Remarks /\ y.at # "checking"
      BY <1>0, <2>1, <2>5, <3>1, FiberFacts
    <3>3. (f[2] # "caller" => y.at # "restarting")
          /\ (y.at = "creating" => fiber[f].note # "busy" /\ ~AnyStopCheck)
      BY <2>5, <3>1
    <3> QED
      BY <2>1, <2>2, <3>1, <3>2, <3>3, AskedPath
  <2> QED
    BY <1>3, <2>3, <2>4, <2>5 DEF CheckPending, HasStopCheck
<1>4. CASE RecordMissed(f)
  <2>1. /\ UNCHANGED definition /\ f[1] \in up /\ UNCHANGED scheduling /\ troubles' = troubles
        /\ CreateRun("scheduled", ScheduledFor(f), "none", fiber[f].def.next)
    BY <1>4 DEF RecordMissed, At
  <2>2. RowsPath(f) /\ (runs' # runs => Len(runs') = Len(runs) + 1)
    BY <2>1, CreatePath, SlotIs, RowsAre
  <2>3. DefPath(f)
    BY <2>1, <2>2, OnlyRuns
  <2>4. CASE runs' # runs
    <3>1. GoesFor(f, "skipping", Len(runs'))
      BY <1>4, <2>4 DEF RecordMissed, GoesFor
    <3>2. Len(runs') \in Nat /\ Len(runs') # 0 /\ Len(runs') <= Len(runs')
      BY <2>2, <2>4, FiberFacts
    <3> QED
      BY <1>0, <2>1, <2>2, <2>3, <3>1, <3>2, GoForPath
  <2>5. CASE runs' = runs
    <3>1. Goes(f, "advancing")
      BY <1>4, <2>5 DEF RecordMissed
    <3> QED
      BY <1>0, <2>1, <2>2, <2>3, <3>1, GoPath
  <2> QED
    BY <2>4, <2>5
<1>5. CASE MarkSkipped(f)
  <2>1. /\ UNCHANGED definition /\ f[1] \in up /\ UNCHANGED scheduling /\ troubles' = troubles
        /\ fiber[f].at = "skipping" /\ Mark(fiber[f].run, {"pending"}, "skipped")
        /\ GoesWith(f, "result", "skipped")
    BY <1>5 DEF MarkSkipped, At
  <2>2. RowsPath(f)
    <3>1. "skipped" \in Statuses \ {"succeeded"}
      BY DEF Statuses, Final
    <3> QED
      BY <2>1, <3>1, MarkPath, RowsAre
  <2>3. DefPath(f)
    BY <2>1, <2>2, OnlyRuns
  <2>4. fiber[f].run # 0
    BY <1>0, <2>1, HasRun
  <2> QED
    BY <1>0, <2>1, <2>2, <2>3, <2>4, GoWithPath
<1>6. CASE CreateDue(f)
  <2>1. /\ UNCHANGED definition /\ f[1] \in up /\ UNCHANGED scheduling /\ troubles' = troubles
        /\ fiber[f].at = "creating"
        /\ CreateRun("scheduled", ScheduledFor(f), PlannedThread, fiber[f].def.next)
    BY <1>6 DEF CreateDue, At
  <2>2. RowsPath(f)
    <3>1. PlannedThread \in {"target", "own", "none"}
      BY DEF PlannedThread
    <3> QED
      BY <2>1, <3>1, CreatePath, SlotIs, RowsAre
  <2>3. DefPath(f)
    BY <2>1, <2>2, OnlyRuns
  <2>4. Len(runs') \in Nat
    BY <2>2 DEF RowsPath
  <2>5. PICK n \in Nat : n <= Len(runs') /\ GoesFor(f, "advancing", n)
    <3>1. PICK n : n = IF runs' # runs THEN Len(runs') ELSE 0
      OBVIOUS
    <3>2. n \in Nat /\ n <= Len(runs')
      BY <2>4, <3>1
    <3>3. GoesFor(f, "advancing", n)
      BY <1>6, <3>1 DEF CreateDue, GoesFor
    <3> QED
      BY <3>2, <3>3
  <2> QED
    BY <1>0, <2>1, <2>2, <2>3, <2>5, GoForPath
<1>7. CASE Advance(f)
  <2>1. /\ runs' = runs /\ f[1] \in up /\ UNCHANGED scheduling /\ troubles' = troubles
    BY <1>7 DEF Advance, At, rows
  <2>2. PICK next \in Nat : WriteDef(IF next = 0 THEN Disabled ELSE [def EXCEPT !.next = next])
    BY <1>7, TimesAre, SlotIs, FiberFacts DEF Advance
  <2>3. PICK row : row = IF next = 0 THEN Disabled ELSE [def EXCEPT !.next = next]
    OBVIOUS
  <2>4. row \in Row /\ (row.enabled => def.enabled /\ row.archived = def.archived)
    BY <2>3, DisabledIs, RowsAre DEF Row
  <2>5. DefPath(f) /\ RowsPath(f)
    BY <2>1, <2>2, <2>3, <2>4, NewDef, SamePath, RowsAre
  <2>6. CASE fiber[f].run = 0
    <3>1. Rest(f)
      BY <1>7, <2>6 DEF Advance
    <3> QED
      BY <2>1, <2>5, <3>1, RestPath
  <2>7. CASE fiber[f].run # 0
    <3>1. Goes(f, "incrementing")
      BY <1>7, <2>7 DEF Advance
    <3> QED
      BY <1>0, <2>1, <2>5, <2>7, <3>1, GoPath
  <2> QED
    BY <2>6, <2>7
<1>8. CASE IncrementIterations(f)
  <2>1. /\ runs' = runs /\ f[1] \in up /\ UNCHANGED scheduling /\ troubles' = troubles
        /\ Goes(f, "starting") /\ WriteDef([def EXCEPT !.count = @ + 1])
        /\ fiber[f].at = "incrementing"
    BY <1>8 DEF IncrementIterations, At, rows
  <2>2. PICK row : row = [def EXCEPT !.count = @ + 1]
    OBVIOUS
  <2>3. row \in Row /\ row.enabled = def.enabled /\ row.archived = def.archived
    BY <2>2, RowsAre DEF Row
  <2>4. DefPath(f) /\ RowsPath(f)
    BY <2>1, <2>2, <2>3, NewDef, SamePath, RowsAre
  <2>5. fiber[f].run # 0
    BY <1>0, <2>1, HasRun
  <2> QED
    BY <1>0, <2>1, <2>4, <2>5, GoPath
<1> QED
  BY <1>1, <1>2, <1>3, <1>4, <1>5, <1>6, <1>7, <1>8 DEF Pass
\* A stop check of a run that is there.
LEMMA QueuedIs ==
    ASSUME Typed, NEW s \in Servers, NEW r \in 1 .. Len(runs), jobs' = Queued(s, r), runs' = runs
    PROVE  Checking'
<1>1. Len(runs) \in Nat /\ jobs \in [Servers -> SUBSET Job]
      /\ \A t \in Servers : \A job \in jobs[t] : job.run <= Len(runs)
  BY RowsAre DEF Typed, Checking
<1>2. PICK new : new = [run |-> r, stale |-> FALSE]
  OBVIOUS
<1>3. new \in Job /\ new.run <= Len(runs)
  BY <1>1, <1>2 DEF Job
<1>4. jobs' = jobs \/ jobs' = [jobs EXCEPT ![s] = @ \cup {new}]
  BY <1>2 DEF Queued
<1>5. \A t \in Servers : jobs'[t] \subseteq jobs[t] \cup {new}
  BY <1>1, <1>4
<1>6. jobs' \in [Servers -> SUBSET Job]
  BY <1>1, <1>3, <1>4
<1> QED
  BY <1>1, <1>3, <1>5, <1>6 DEF Checking

LEMMA FiberServer == ASSUME NEW f \in Fibers PROVE f[1] \in Servers /\ f[2] \in Kinds
BY DEF Fibers

LEMMA SettlePaths ==
    ASSUME Typed, FiberInv, NEW f \in Fibers, Settle(f)
    PROVE  Paths(f)
<1>0. /\ {"result", "settling", "advancing", "stopping"} \subseteq Places
      /\ {"result", "settling", "advancing", "stopping"}
            \cap (Asked \cup {"saving", "recording", "marking"}) = {}
      /\ {"failing", "result", "settling", "stopping"} \cap Unbound = {} /\ "advancing" \in Unbound
      /\ "failed" \in Remarks
  BY DEF Unbound, Asked, Free, Places, Plain, Dispatching, Remarks, Notes
<1>1. CASE MarkFailed(f)
  <2>1. /\ UNCHANGED definition /\ f[1] \in up /\ UNCHANGED scheduling /\ troubles' = troubles
        /\ fiber[f].at = "failing" /\ Mark(fiber[f].run, Open, "failed")
        /\ (GoesWith(f, "result", "failed") \/ Rest(f))
    BY <1>1 DEF MarkFailed, At
  <2>2. RowsPath(f)
    <3>1. "failed" \in Statuses \ {"succeeded"}
      BY DEF Statuses, Final
    <3> QED
      BY <2>1, <3>1, MarkPath, RowsAre
  <2>3. DefPath(f)
    BY <2>1, <2>2, OnlyRuns
  <2>4. fiber[f].run # 0
    BY <1>0, <2>1, HasRun
  <2> QED
    BY <1>0, <2>1, <2>2, <2>3, <2>4, GoWithPath, RestPath
<1>2. CASE WriteResult(f)
  <2>1. /\ UNCHANGED definition /\ f[1] \in up /\ UNCHANGED scheduling /\ troubles' = troubles
        /\ fiber[f].at = "result" /\ MarkResult(fiber[f].run, ResultOf(fiber[f].note))
        /\ \/ Goes(f, "settling") \/ Rest(f)
           \/ fiber' = [fiber EXCEPT ![f].at = "advancing", ![f].run = 0]
    BY <1>2 DEF WriteResult, At
  <2>2. ResultOf(fiber[f].note) \in Outcomes \ {"succeeded"}
    <3>1. fiber[f].note \in Notes
      BY <2>1 DEF FiberInv, Claims, Claim
    <3> QED
      BY <3>1 DEF ResultOf, Notes, Outcomes, Final
  <2>3. RowsPath(f)
    BY <2>1, <2>2, ResultPath, RowsAre
  <2>4. DefPath(f)
    BY <2>1, <2>3, OnlyRuns
  <2>5. fiber[f].run # 0
    BY <1>0, <2>1, HasRun
  <2>6. CASE Goes(f, "settling")
    BY <1>0, <2>1, <2>3, <2>4, <2>5, <2>6, GoPath
  <2>7. CASE Rest(f)
    BY <2>1, <2>3, <2>4, <2>7, RestPath
  <2>8. CASE fiber' = [fiber EXCEPT ![f].at = "advancing", ![f].run = 0]
    <3>1. GoesFor(f, "advancing", 0)
      BY <2>8 DEF GoesFor
    <3>2. 0 <= Len(runs')
      BY <2>3 DEF RowsPath
    <3> QED
      BY <1>0, <2>1, <2>3, <2>4, <3>1, <3>2, GoForPath
  <2> QED
    BY <2>1, <2>6, <2>7, <2>8
<1>3. CASE StopLoop(f)
  <2>1. /\ runs' = runs /\ def' = def /\ f[1] \in up /\ UNCHANGED scheduling /\ troubles' = troubles
        /\ fiber[f].at = "settling" /\ (Goes(f, "stopping") \/ Rest(f))
        /\ (jobs' = Queued(f[1], fiber[f].run) \/ jobs' = jobs)
    BY <1>3 DEF StopLoop, At, rows
  <2>2. fiber[f].run \in 1 .. Len(runs) /\ fiber[f].run # 0
    BY <1>0, <2>1, HasRun
  <2>3. RowsPath(f)
    BY <2>1, SamePath, RowsAre
  <2>4. Checking'
    BY <2>1, <2>2, <2>3, QueuedIs, JobsKept, FiberServer DEF RowsPath
  <2>5. DefPath(f)
    BY <2>1, <2>4, RowsAre DEF DefPath
  <2> QED
    BY <1>0, <2>1, <2>2, <2>3, <2>5, GoPath, RestPath
<1>4. CASE DisableStopped(f)
  <2>1. /\ runs' = runs /\ Rest(f) /\ f[1] \in up /\ UNCHANGED scheduling /\ troubles' = troubles
        /\ WriteDef(Disabled)
    BY <1>4 DEF DisableStopped, At, rows
  <2>2. DefPath(f) /\ RowsPath(f)
    BY <2>1, NewDef, DisabledIs, SamePath, RowsAre
  <2> QED
    BY <2>1, <2>2, RestPath
<1> QED
  BY <1>1, <1>2, <1>3, <1>4 DEF Settle

LEMMA CallPaths ==
    ASSUME Typed, FiberInv, NEW f \in Fibers, Passing(f), Call(f)
    PROVE  Paths(f)
<1>0. /\ {"incrementing", "cancelled", "cancelling"} \subseteq Places
      /\ {"incrementing", "cancelled", "cancelling"}
            \cap (Asked \cup {"saving", "recording", "marking"}) = {}
      /\ "cancelled" \notin Unbound /\ "cancelling" \in Unbound
      /\ "restarting" \in Asked /\ "creating" \in Asked
  BY DEF Unbound, Asked, Free, Places, Plain, Dispatching
<1>1. CASE RestartLoop(f)
  <2>1. /\ runs' = runs /\ f[1] \in up /\ UNCHANGED scheduling /\ troubles' = troubles
        /\ fiber[f].at = "restarting" /\ Goes(f, "creating") /\ f[2] = "caller"
    BY <1>0, <1>1 DEF RestartLoop, At, rows, Passing
  <2>2. PICK next \in Nat :
            \/ WriteDef([def EXCEPT !.enabled = next # 0, !.count = 0, !.next = next])
            \/ UNCHANGED definition
    <3>1. PICK next : next = IF plan.schedule = "once" THEN 0 ELSE fiber[f].time + Every
      OBVIOUS
    <3>2. next \in Nat
      BY <3>1, FiberFacts, TimesAssumption
    <3> QED
      BY <1>1, <3>1, <3>2 DEF RestartLoop
  <2>3. RowsPath(f)
    BY <2>1, SamePath, RowsAre
  <2>4. DefPath(f)
    <3>1. PICK row : row = [def EXCEPT !.enabled = next # 0, !.count = 0, !.next = next]
      OBVIOUS
    <3>2. row \in Row
      BY <3>1, RowsAre DEF Row
    <3> QED
      BY <2>1, <2>2, <2>3, <3>1, <3>2, NewDef, SameDef
  <2>5. PICK y : /\ Becomes(f, y) /\ y.at = "creating" /\ y.run = fiber[f].run
                 /\ y.note = fiber[f].note /\ y.left = fiber[f].left /\ y.def = fiber[f].def
                 /\ y.time = fiber[f].time
    BY <2>1, GoesTo DEF FiberInv
  <2>6. y.note \in Remarks
    BY <2>5, FiberFacts
  <2> QED
    BY <1>0, <2>1, <2>3, <2>4, <2>5, <2>6, AskedPath
<1>2. CASE CreateManual(f)
  <2>1. /\ UNCHANGED definition /\ f[1] \in up /\ UNCHANGED scheduling /\ troubles' = troubles
        /\ fiber[f].at = "creating" /\ CreateRun("manual", fiber[f].time, PlannedThread, 0)
    BY <1>2 DEF CreateManual, At
  <2>2. RowsPath(f) /\ (runs' # runs => Len(runs') = Len(runs) + 1)
    <3>1. PlannedThread \in {"target", "own", "none"} /\ fiber[f].time \in Nat
      BY FiberFacts DEF PlannedThread
    <3> QED
      BY <2>1, <3>1, CreatePath, RowsAre
  <2>3. DefPath(f)
    BY <2>1, <2>2, OnlyRuns
  <2>4. CASE runs' # runs
    <3>1. GoesFor(f, "incrementing", Len(runs'))
      BY <1>2, <2>4 DEF CreateManual, GoesFor
    <3>2. Len(runs') \in Nat /\ Len(runs') # 0 /\ Len(runs') <= Len(runs')
      BY <2>2, <2>4, FiberFacts
    <3> QED
      BY <1>0, <2>1, <2>2, <2>3, <3>1, <3>2, GoForPath
  <2>5. CASE runs' = runs
    <3>1. Rest(f)
      BY <1>2, <2>5 DEF CreateManual
    <3> QED
      BY <2>1, <2>2, <2>3, <3>1, RestPath
  <2> QED
    BY <2>4, <2>5
<1>3. CASE CancelRun(f)
  <2>1. /\ UNCHANGED definition /\ f[1] \in up /\ UNCHANGED scheduling /\ troubles' = troubles
        /\ fiber[f].at = "cancelling"
    BY <1>3 DEF CancelRun, At
  <2>2. PICK r \in fiber[f].left, at1 \in {"cancelled", "cancelling"} :
            Mark(r, Active, "cancelled") /\ GoesNext(f, fiber[f].left \ {r}, r, at1)
    <3>1. PICK r \in fiber[f].left :
            /\ Mark(r, Active, "cancelled")
            /\ fiber' = [fiber EXCEPT ![f].left = @ \ {r}, ![f].run = r,
                         ![f].at = IF runs'[r].status = "cancelled" THEN "cancelled" ELSE @]
      BY <1>3 DEF CancelRun
    <3>2. PICK at1 : at1 = IF runs'[r].status = "cancelled" THEN "cancelled" ELSE fiber[f].at
      OBVIOUS
    <3>3. GoesNext(f, fiber[f].left \ {r}, r, at1)
      BY <3>1, <3>2 DEF GoesNext
    <3>4. at1 \in {"cancelled", "cancelling"}
      BY <2>1, <3>2
    <3> QED
      BY <3>1, <3>3, <3>4
  <2>3. RowsPath(f)
    <3>1. "cancelled" \in Statuses \ {"succeeded"}
      BY DEF Statuses, Final
    <3> QED
      BY <2>2, <3>1, MarkPath, RowsAre
  <2>4. DefPath(f)
    BY <2>1, <2>3, OnlyRuns
  <2>5. PICK y : /\ Becomes(f, y) /\ y.at = at1 /\ y.run = r /\ y.note = fiber[f].note
                 /\ y.left = fiber[f].left \ {r} /\ y.def = fiber[f].def /\ y.time = fiber[f].time
    BY <2>2, GoesNextTo DEF FiberInv
  <2>6. y.run \in Nat /\ y.run <= Len(runs') /\ y.run # 0 /\ y.note \in Remarks
        /\ y.left \subseteq fiber[f].left
    BY <2>2, <2>3, <2>5, FiberFacts DEF RowsPath
  <2> QED
    BY <1>0, <2>1, <2>2, <2>3, <2>4, <2>5, <2>6, EasyPath
<1>4. CASE WriteCancelled(f)
  <2>1. /\ UNCHANGED definition /\ f[1] \in up /\ UNCHANGED scheduling /\ troubles' = troubles
        /\ MarkResult(fiber[f].run, "cancelled") /\ Goes(f, "cancelling")
    BY <1>4 DEF WriteCancelled, At
  <2>2. RowsPath(f)
    <3>1. "cancelled" \in Outcomes \ {"succeeded"}
      BY DEF Outcomes, Final
    <3> QED
      BY <2>1, <3>1, ResultPath, RowsAre
  <2>3. DefPath(f)
    BY <2>1, <2>2, OnlyRuns
  <2> QED
    BY <1>0, <2>1, <2>2, <2>3, GoPath
<1>5. CASE EndCancelling(f)
  <2>1. /\ runs' = runs /\ Rest(f) /\ f[1] \in up /\ UNCHANGED scheduling /\ troubles' = troubles
        /\ \/ UNCHANGED definition
           \/ WriteDef([def EXCEPT !.archived = TRUE, !.enabled = FALSE])
    BY <1>5 DEF EndCancelling, At, rows
  <2>2. RowsPath(f)
    BY <2>1, SamePath, RowsAre
  <2>3. DefPath(f)
    <3>1. PICK row : row = [def EXCEPT !.archived = TRUE, !.enabled = FALSE]
      OBVIOUS
    <3>2. row \in Row /\ row.enabled = FALSE
      BY <3>1, RowsAre DEF Row
    <3> QED
      BY <2>1, <2>2, <3>1, <3>2, NewDef, SameDef
  <2> QED
    BY <2>1, <2>2, <2>3, RestPath
<1>6. CASE SaveEdit(f)
  <2>1. /\ runs' = runs /\ Rest(f) /\ f[1] \in up /\ UNCHANGED scheduling /\ troubles' = troubles
        /\ fiber[f].at = "saving"
    BY <1>6 DEF SaveEdit, At, rows
  <2>2. PICK next \in Nat : WriteDef([fiber[f].def EXCEPT !.next = next, !.count = def.count])
    <3>1. PICK next : next = IF fiber[f].def.next # 0 THEN fiber[f].def.next
                             ELSE NextFrom(fiber[f].time)
      OBVIOUS
    <3>2. next \in Nat
      BY <3>1, FiberFacts, TimesAre DEF Row
    <3> QED
      BY <1>6, <3>1, <3>2 DEF SaveEdit
  <2>3. PICK row : row = [fiber[f].def EXCEPT !.next = next, !.count = def.count]
    OBVIOUS
  <2>4. row \in Row /\ row.enabled = fiber[f].def.enabled
    <3>1. PICK old : old = fiber[f].def /\ old \in Row
      BY FiberFacts
    <3>2. def.count \in Nat
      BY RowsAre DEF Row
    <3> QED
      BY <2>3, <3>1, <3>2 DEF Row
  <2>5. DefPath(f) /\ RowsPath(f)
    BY <2>1, <2>2, <2>3, <2>4, NewDef, SamePath, RowsAre
  <2> QED
    BY <2>1, <2>5, RestPath
<1> QED
  BY <1>1, <1>2, <1>3, <1>4, <1>5, <1>6 DEF Call
LEMMA VerdictIs ==
    ASSUME NEW f, turn[fiber[f].run] \in TurnStates
    PROVE  Verdict(f) \in Verdicts \cup {"same"}
<1>1. PICK state : state = turn[fiber[f].run]
  OBVIOUS
<1>2. state \in {"asking", "pending", "running", "stuck", "none", "waiting", "dropped"} =>
        Verdict(f) \in {"same", "running", "waiting"}
  BY <1>1 DEF Verdict, Unseen
<1>3. state \in {"interrupted", "completed", "error"} =>
        Verdict(f) \in {"interrupted", "succeeded", "failed"}
  BY <1>1 DEF Verdict, Unseen
<1> QED
  BY <1>1, <1>2, <1>3 DEF TurnStates, Verdicts

LEMMA WatchPaths ==
    ASSUME Typed, FiberInv, NEW f \in Fibers, Watch(f)
    PROVE  Paths(f)
<1>0. /\ {"result", "settling", "marking", "idle", "reading", "retiring"} \subseteq Places
      /\ {"result", "settling", "idle", "reading", "retiring"}
            \cap (Asked \cup {"saving", "recording", "marking"}) = {}
      /\ "marking" \notin Asked /\ "idle" \in Unbound
      /\ {"reading", "marking", "result", "settling", "retiring"} \cap Unbound = {}
      /\ "retired" \in Remarks /\ Verdicts \subseteq Remarks /\ "none" \in Remarks
      /\ Statuses \subseteq Remarks
  BY DEF Unbound, Asked, Free, Places, Plain, Dispatching, Remarks, Notes, Verdicts, Statuses, Final
<1>1. CASE ReadTurn(f)
  <2>1. /\ runs' = runs /\ UNCHANGED definition /\ f[1] \in up /\ UNCHANGED scheduling
        /\ troubles' = troubles /\ fiber[f].at = "reading"
    BY <1>1 DEF ReadTurn, At, rows
  <2>2. DefPath(f) /\ RowsPath(f)
    BY <2>1, NothingWritten
  <2>3. fiber[f].run # 0
    BY <1>0, <2>1, HasRun
  <2>4. Verdict(f) \in Verdicts \cup {"same"}
    <3>1. fiber[f].run \in DOMAIN runs
      BY <2>1 DEF FiberInv, Claims, Claim
    <3>2. turn[fiber[f].run] \in TurnStates
      BY <3>1, Domains DEF FiberInv, TurnsTable
    <3> QED
      BY <3>2, VerdictIs
  <2>5. CASE Verdict(f) = "same"
    <3>1. Rest(f)
      BY <1>1, <2>5 DEF ReadTurn
    <3> QED
      BY <2>1, <2>2, <3>1, RestPath
  <2>6. CASE Verdict(f) # "same"
    <3>1. PICK note \in Verdicts : GoesWith(f, "marking", note)
      BY <1>1, <2>4, <2>6 DEF ReadTurn
    <3>2. note \in Remarks
      BY <1>0, <3>1
    <3> QED
      BY <1>0, <2>1, <2>2, <2>3, <3>1, <3>2, GoWithPath
  <2> QED
    BY <2>5, <2>6
<1>2. CASE MarkVerdict(f)
  <2>1. /\ UNCHANGED definition /\ f[1] \in up /\ UNCHANGED scheduling /\ troubles' = troubles
        /\ fiber[f].at = "marking" /\ planned' = planned
        /\ (Goes(f, "settling") \/ Goes(f, "result"))
    BY <1>2 DEF MarkVerdict, At
  <2>2. runs[fiber[f].run].thread # "none"
    BY <2>1 DEF FiberInv, Claims, Claim
  <2>3. RowsPath(f)
    <3> DEFINE r == fiber[f].run
    <3>1. {"waiting", "running", "failed", "interrupted"} \subseteq Statuses \ {"succeeded", "skipped"}
      BY DEF Statuses, Active, Final
    <3>2. CASE Succeeds(r)
      BY <2>2, <3>2, SuccessPath, RowsAre
    <3>3. CASE runs' = runs
      BY <3>3, SamePath, RowsAre
    <3>4. CASE \E from : \E note \in {"waiting", "running", "failed", "interrupted"} : Mark(r, from, note)
      BY <3>1, <3>4, MarkPath, RowsAre
    <3> QED
      BY <1>2, <2>1, <3>2, <3>3, <3>4 DEF MarkVerdict, Succeeds
  <2>4. DefPath(f)
    BY <2>1, <2>3, OnlyRuns
  <2>5. fiber[f].run # 0
    BY <1>0, <2>1, HasRun
  <2> QED
    BY <1>0, <2>1, <2>3, <2>4, <2>5, GoPath
<1>3. CASE ListRecoverable(f)
  <2>1. /\ runs' = runs /\ UNCHANGED definition /\ f[1] \in up /\ UNCHANGED scheduling
        /\ troubles' = troubles
    BY <1>3 DEF ListRecoverable, At, rows
  <2>2. DefPath(f) /\ RowsPath(f)
    BY <2>1, NothingWritten
  <2>3. PICK left1 : left1 = {r \in DOMAIN runs : Recoverable(r)}
    OBVIOUS
  <2>4. fiber' = [fiber EXCEPT ![f] = [Idle EXCEPT !.left = left1]]
    BY <1>3, <2>3 DEF ListRecoverable
  <2>5. PICK y : /\ Becomes(f, y) /\ y.at = "idle" /\ y.run = 0 /\ y.left = left1
                 /\ y.def = NoRow /\ y.time = 0 /\ y.note = "none"
    <3>1. PICK i : i = Idle
      OBVIOUS
    <3>2. i = [at |-> "idle", run |-> 0, def |-> NoRow, time |-> 0, note |-> "none", left |-> {}]
      BY <3>1 DEF Idle
    <3>3. PICK y : y = [i EXCEPT !.left = left1]
      OBVIOUS
    <3>4. y = [at |-> "idle", run |-> 0, def |-> NoRow, time |-> 0, note |-> "none", left |-> left1]
      BY <3>2, <3>3
    <3>5. y = Held(y) /\ y.at = "idle" /\ y.run = 0 /\ y.left = left1
          /\ y.def = NoRow /\ y.time = 0 /\ y.note = "none"
      BY <3>4 DEF Held
    <3>6. fiber' = [fiber EXCEPT ![f] = y]
      BY <2>4, <3>1, <3>3
    <3> QED
      BY <3>5, <3>6 DEF Becomes
  <2>6. 0 <= Len(runs') /\ left1 \subseteq DOMAIN runs
    BY <2>2, <2>3 DEF RowsPath
  <2> QED
    BY <1>0, <2>1, <2>2, <2>5, <2>6, EasyPath
<1>4. CASE Recover(f)
  <2>1. /\ runs' = runs /\ UNCHANGED definition /\ f[1] \in up /\ UNCHANGED scheduling
        /\ troubles' = troubles
    BY <1>4 DEF Recover, At, rows
  <2>2. DefPath(f) /\ RowsPath(f)
    BY <2>1, NothingWritten
  <2>3. PICK r \in fiber[f].left :
            fiber' = [fiber EXCEPT ![f].left = @ \ {r}, ![f].run = r, ![f].note = runs[r].status,
                ![f].at = IF runs[r].thread = "none" \/ turn[r] \in Unseen THEN "retiring"
                          ELSE IF IsActive(r) THEN "reading" ELSE "idle"]
    BY <1>4 DEF Recover
  <2>4. PICK at1 : at1 = IF runs[r].thread = "none" \/ turn[r] \in Unseen THEN "retiring"
                         ELSE IF IsActive(r) THEN "reading" ELSE "idle"
    OBVIOUS
  <2>5. /\ at1 \in {"retiring", "reading", "idle"}
        /\ GoesRecovering(f, fiber[f].left \ {r}, r, runs[r].status, at1)
    BY <2>3, <2>4 DEF GoesRecovering
  <2>6. PICK y : /\ Becomes(f, y) /\ y.at = at1 /\ y.run = r /\ y.note = runs[r].status
                 /\ y.left = fiber[f].left \ {r} /\ y.def = fiber[f].def /\ y.time = fiber[f].time
    BY <2>5, GoesRecoveringTo DEF FiberInv
  <2>7. y.run \in Nat /\ y.run <= Len(runs') /\ y.run # 0
    BY <2>1, <2>3, <2>6, FiberFacts
  <2>8. y.note \in Remarks
    <3>1. r \in DOMAIN runs
      BY <2>3, FiberFacts
    <3>2. runs[r].status \in Statuses
      BY <3>1, RowsAre, RowTyped DEF RunRow
    <3> QED
      BY <1>0, <2>6, <3>2
  <2>9. y.at \in Places /\ y.at \notin Asked \cup {"saving", "recording", "marking"}
    BY <1>0, <2>5, <2>6
  <2> QED
    BY <2>1, <2>2, <2>6, <2>7, <2>8, <2>9, EasyPath
<1>5. CASE Retire(f)
  <2>1. /\ UNCHANGED definition /\ f[1] \in up /\ UNCHANGED scheduling /\ troubles' = troubles
        /\ fiber[f].at = "retiring" /\ Mark(fiber[f].run, Open, "interrupted")
        /\ (GoesWith(f, "result", "retired") \/ Rest(f))
    BY <1>5 DEF Retire, At
  <2>2. RowsPath(f)
    <3>1. "interrupted" \in Statuses \ {"succeeded"}
      BY DEF Statuses, Final
    <3> QED
      BY <2>1, <3>1, MarkPath, RowsAre
  <2>3. DefPath(f)
    BY <2>1, <2>2, OnlyRuns
  <2>4. fiber[f].run # 0
    BY <1>0, <2>1, HasRun
  <2> QED
    BY <1>0, <2>1, <2>2, <2>3, <2>4, GoWithPath, RestPath
<1> QED
  BY <1>1, <1>2, <1>3, <1>4, <1>5 DEF Watch

\* The worker writes down what a stop check has found.
LEMMA RecordingPath ==
    ASSUME Typed, FiberInv, NEW f \in Fibers, f[1] \in up, NEW note1 \in {"yes", "matched"},
           GoesWith(f, "recording", note1), note1 = "matched" => ~def'.enabled, fiber[f].run # 0,
           DefPath(f), RowsPath(f), UNCHANGED scheduling, troubles' = troubles
    PROVE  Paths(f)
<1>0. "recording" \in Places /\ "recording" \notin Asked /\ {"yes", "matched"} \subseteq Remarks
  BY DEF Places, Plain, Asked, Remarks
<1>1. PICK y : /\ Becomes(f, y) /\ y.at = "recording" /\ y.note = note1 /\ y.run = fiber[f].run
               /\ y.left = fiber[f].left /\ y.def = fiber[f].def /\ y.time = fiber[f].time
  BY GoesWithTo DEF FiberInv
<1>2. /\ y.def \in Row /\ y.time \in Nat /\ y.left \subseteq 1 .. Len(runs) /\ y.left \subseteq Nat
      /\ y.run \in 0 .. Len(runs) /\ Len(runs) \in Nat
  BY <1>1, FiberFacts
<1>3. y = Held(y)
  BY <1>1 DEF Becomes
<1>4. y \in FiberRow
  BY <1>0, <1>1, <1>2, <1>3, HeldTyped
<1>5. Len(runs') \in Nat /\ Len(runs) <= Len(runs')
  BY DEF RowsPath
<1>6. Fits(y)'
  <2>1. y.left \subseteq 1 .. Len(runs') /\ y.run \in 0 .. Len(runs')
    BY <1>2, <1>5
  <2> QED
    BY <1>1, <2>1 DEF Fits
<1>7. ~ByUser(f, y) /\ y.at \notin Asked /\ y.at # "saving" /\ y.at # "checking" /\ y.at # "creating"
  BY <1>0, <1>1 DEF ByUser
<1>8. FiberPath(f, y)
  BY <1>1, <1>4, <1>6, <1>7 DEF FiberPath
<1>9. Path(f, y)
  BY <1>8, SettingsKept DEF Path
<1> QED
  BY <1>9 DEF Paths

LEMMA JobDone ==
    ASSUME Typed, NEW s \in Servers, NEW r, jobs' = [jobs EXCEPT ![s] = {job \in @ : job.run # r}],
           Len(runs') = Len(runs)
    PROVE  Checking'
<1>1. jobs \in [Servers -> SUBSET Job] /\ \A t \in Servers : \A job \in jobs[t] : job.run <= Len(runs)
  BY DEF Typed, Checking
<1>2. jobs' \in [Servers -> SUBSET Job] /\ \A t \in Servers : jobs'[t] \subseteq jobs[t]
  BY <1>1
<1> QED
  BY <1>1, <1>2 DEF Checking

LEMMA CheckPaths ==
    ASSUME Typed, FiberInv, NEW f \in Fibers, Check(f)
    PROVE  Paths(f)
<1>0. /\ "matching" \in Places /\ "matching" \notin Asked \cup {"saving", "recording", "marking"}
      /\ {"evaluating", "matching", "recording"} \cap Unbound = {}
  BY DEF Unbound, Asked, Free, Places, Plain
<1>1. CASE Evaluate(f)
  <2>1. /\ runs' = runs /\ UNCHANGED definition /\ f[1] \in up /\ UNCHANGED scheduling
        /\ troubles' = troubles /\ fiber[f].at = "evaluating"
        /\ (Goes(f, "matching") \/ GoesWith(f, "recording", "yes"))
    BY <1>1 DEF Evaluate, At, rows
  <2>2. DefPath(f) /\ RowsPath(f)
    BY <2>1, NothingWritten
  <2>3. fiber[f].run # 0
    BY <1>0, <2>1, HasRun
  <2> QED
    BY <1>0, <2>1, <2>2, <2>3, GoPath, RecordingPath
<1>2. CASE DisableMatched(f)
  <2>1. /\ runs' = runs /\ f[1] \in up /\ UNCHANGED scheduling /\ troubles' = troubles
        /\ fiber[f].at = "matching" /\ GoesWith(f, "recording", Found(PolicyCurrent(f)))
    BY <1>2 DEF DisableMatched, At, rows
  <2>2. RowsPath(f)
    BY <2>1, SamePath, RowsAre
  <2>3. fiber[f].run # 0
    BY <1>0, <2>1, HasRun
  <2>4. CASE PolicyCurrent(f)
    <3>1. WriteDef(Disabled) /\ GoesWith(f, "recording", "matched")
      BY <1>2, <2>4 DEF DisableMatched, Found
    <3>2. DefPath(f) /\ ~def'.enabled
      BY <2>1, <3>1, NewDef, DisabledIs DEF WriteDef
    <3> QED
      BY <2>1, <2>2, <2>3, <3>1, <3>2, RecordingPath
  <2>5. CASE ~PolicyCurrent(f)
    <3>1. UNCHANGED definition /\ GoesWith(f, "recording", "yes")
      BY <1>2, <2>5 DEF DisableMatched, Found
    <3> QED
      BY <2>1, <2>2, <2>3, <3>1, SameDef, RecordingPath
  <2> QED
    BY <2>4, <2>5
<1>3. CASE Record(f)
  <2>1. /\ def' = def /\ f[1] \in up /\ UNCHANGED scheduling /\ planned' = planned
        /\ fiber[f].at = "recording" /\ Rest(f)
        /\ jobs' = [jobs EXCEPT ![f[1]] = {job \in @ : job.run # fiber[f].run}]
        /\ (troubles' = troubles \/ \E kind : Trouble(kind))
        /\ (runs' = runs \/ Evaluated(fiber[f].run, fiber[f].note))
    BY <1>3 DEF Record, At, Evaluated
  <2>2. fiber[f].note \in {"yes", "matched"}
    BY <2>1, FiberFacts DEF Fits
  <2>3. RowsPath(f) /\ Len(runs') = Len(runs)
    BY <2>1, <2>2, SamePath, EvaluatedPath, RowsAre
  <2>4. Checking'
    BY <2>1, <2>3, JobDone, FiberServer
  <2>5. DefPath(f)
    BY <2>1, <2>4, RowsAre DEF DefPath
  <2> QED
    BY <2>1, <2>3, <2>5, RestPath
<1> QED
  BY <1>1, <1>2, <1>3 DEF Check
\* A fiber that is at rest sets out with what it has read of the definition.
LEMMA BeginPath ==
    ASSUME Typed, NEW f \in Fibers, f[1] \in up, NEW y, Becomes(f, y),
           y.at \in Places, y.at \in Unbound, y.run = fiber[f].run, y.note = fiber[f].note,
           y.left = fiber[f].left, y.def \in Row, y.time \in Nat,
           runs' = runs, UNCHANGED definition, Settings', up' = up, plan' = plan,
           troubles \subseteq troubles', overlapped => overlapped',
           y.at = "saving" =>
               /\ Edits \cap troubles' # {}
               /\ y.def.enabled => {"enable", "rename"} \cap troubles' # {},
           ByUser(f, y) => "runNow" \in troubles', y.at # "checking",
           f[2] # "caller" /\ y.at \in Asked => f[2] = "scheduler" /\ y.at # "restarting" /\ y.time # 0,
           f[2] = "scheduler" /\ y.time # 0 =>
               overlapped' \/ \A o \in up \ {f[1]} : fiber[<<o, "scheduler">>].time = 0,
           Heartbeat /\ y.at = "creating" => f[2] = "caller"
    PROVE  Paths(f)
<1>1. y.at # "recording" /\ y.at # "marking"
  BY DEF Unbound, Free
<1>2. /\ y.run \in 0 .. Len(runs) /\ y.run \in Nat /\ y.note \in Remarks
      /\ y.left \subseteq 1 .. Len(runs) /\ y.left \subseteq Nat
  BY FiberFacts
<1>3. y = Held(y)
  BY DEF Becomes
<1>4. y \in FiberRow
  BY <1>2, <1>3, HeldTyped
<1>5. Fits(y)'
  BY <1>1, <1>2 DEF Fits
<1>6. FiberPath(f, y)
  BY <1>1, <1>4, <1>5 DEF FiberPath
<1>7. DefPath(f) /\ RowsPath(f)
  BY NothingWritten
<1>8. Path(f, y)
  BY <1>6, <1>7 DEF Path
<1> QED
  BY <1>8 DEF Paths

LEMMA ClockIs == ASSUME Typed PROVE clock \in Nat /\ plan.horizon \in Nat
<1>1. plan.horizon \in Nat
  BY PlansAssumption DEF Typed, Settings, Plan
<1> QED
  BY <1>1 DEF Typed, Settings

\* Nothing happens to the runs, the definition and the fibers.
Stays ==
    /\ UNCHANGED <<runs, def, fiber, up, plan>> /\ Checking' /\ Settings'
    /\ troubles \subseteq troubles' /\ (overlapped => overlapped')

LEMMA StartPassPaths ==
    ASSUME Typed, FiberInv, NEW s \in Servers, StartPass(s)
    PROVE  Stays \/ \E f \in Fibers : Paths(f)
<1>1. PICK f \in Fibers : f = <<s, "scheduler">>
  BY DEF Fibers, Kinds
<1>2. /\ runs' = runs /\ UNCHANGED definition /\ f[1] \in up /\ up' = up /\ plan' = plan
      /\ troubles' = troubles /\ clock' = clock /\ f[1] = s /\ f[2] = "scheduler"
      /\ fiber[f].at = "idle" /\ lease' = [owner |-> {s}, until |-> clock + Ttl]
  BY <1>1 DEF StartPass, At, rows
<1>3. overlapped' = (overlapped \/ \E o \in up \ {s} : fiber[<<o, "scheduler">>].time # 0)
  BY DEF StartPass
<1>4. Settings'
  <2>1. lease' \in [owner: SUBSET Servers, until: Nat]
    BY <1>2, ClockIs, TimesAssumption
  <2> QED
    BY <1>2, <1>3, <2>1 DEF Typed, Settings
<1>5. CASE fiber' = fiber
  <2>1. Checking'
    BY <1>2, JobsKept, RowsAre, FiberFacts DEF definition
  <2> QED
    BY <1>2, <1>3, <1>4, <1>5, <2>1 DEF Stays, definition
<1>6. CASE fiber' # fiber
  <2>1. PICK position \in {"capped", "missing", "counting", "creating"} :
            /\ fiber' = [fiber EXCEPT ![f].at = position, ![f].time = clock, ![f].def = def]
            /\ position = "creating" => ~Heartbeat
    BY <1>1, <1>6 DEF StartPass
  <2>2. GoesPlanning(f, position, clock, def)
    BY <2>1 DEF GoesPlanning
  <2>3. PICK y : /\ Becomes(f, y) /\ y.at = position /\ y.time = clock /\ y.def = def
                 /\ y.run = fiber[f].run /\ y.note = fiber[f].note /\ y.left = fiber[f].left
    BY <2>2, GoesPlanningTo DEF FiberInv
  <2>4. clock # 0
    <3>1. IsDue(clock)
      BY <1>6 DEF StartPass
    <3>2. def.next \in Nat /\ clock \in Nat
      BY ClockIs, RowsAre DEF Row
    <3> QED
      BY <3>1, <3>2 DEF IsDue
  <2>5. /\ y.at \in Places /\ y.at \in Unbound /\ y.at # "saving" /\ y.at # "checking"
        /\ y.at # "restarting" /\ ~ByUser(f, y)
    BY <1>2, <2>1, <2>3 DEF Places, Unbound, Free, ByUser
  <2>6. y.def \in Row /\ y.time \in Nat /\ y.time # 0
    BY <2>3, <2>4, ClockIs, RowsAre
  <2>7. overlapped' \/ \A o \in up \ {f[1]} : fiber[<<o, "scheduler">>].time = 0
    BY <1>2, <1>3
  <2>8. Heartbeat => y.at # "creating"
    BY <2>1, <2>3
  <2>9. (overlapped => overlapped') /\ troubles \subseteq troubles'
    BY <1>2, <1>3
  <2>10. Paths(f)
    BY <1>2, <1>4, <2>3, <2>5, <2>6, <2>7, <2>8, <2>9, BeginPath
  <2> QED
    BY <2>10
<1> QED
  BY <1>5, <1>6

LEMMA TakesPaths ==
    ASSUME Typed, FiberInv, NEW s \in Servers, TimeOut(s) \/ TakeJob(s)
    PROVE  \E f \in Fibers : Paths(f)
<1>0. /\ {"failing", "evaluating"} \subseteq Places
      /\ {"failing", "evaluating"} \cap (Asked \cup {"saving", "recording", "marking"}) = {}
  BY DEF Places, Plain, Asked
<1>1. \A q \in 1 .. Len(runs) : q \in Nat /\ q <= Len(runs) /\ q # 0
  BY RowsAre
<1>2. CASE TimeOut(s)
  <2>1. PICK f \in Fibers : f = <<s, "scheduler">>
    BY DEF Fibers, Kinds
  <2>2. /\ runs' = runs /\ UNCHANGED definition /\ UNCHANGED scheduling /\ f[1] \in up
        /\ (troubles' = troubles \/ \E kind : Trouble(kind))
    BY <1>2, <2>1 DEF TimeOut, At, rows
  <2>3. PICK r \in DOMAIN runs : fiber' = [fiber EXCEPT ![f].at = "failing", ![f].run = r]
    BY <1>2, <2>1 DEF TimeOut
  <2>4. GoesFor(f, "failing", r) /\ r \in Nat /\ r <= Len(runs') /\ r # 0
    BY <1>1, <2>2, <2>3, RowsAre DEF GoesFor
  <2>5. DefPath(f) /\ RowsPath(f)
    BY <2>2, NothingWritten
  <2>6. Paths(f)
    BY <1>0, <2>2, <2>4, <2>5, GoForPath
  <2> QED
    BY <2>6
<1>3. CASE TakeJob(s)
  <2>1. PICK f \in Fibers : f = <<s, "evaluator">>
    BY DEF Fibers, Kinds
  <2>2. /\ runs' = runs /\ UNCHANGED definition /\ UNCHANGED scheduling /\ f[1] \in up
        /\ troubles' = troubles
    BY <1>3, <2>1 DEF TakeJob, At, rows
  <2>3. PICK job \in jobs[s] : fiber' = [fiber EXCEPT ![f].at = "evaluating", ![f].run = job.run]
    BY <1>3, <2>1 DEF TakeJob
  <2>4. PICK r : r = job.run
    OBVIOUS
  <2>5. r \in Nat /\ r <= Len(runs') /\ r # 0
    BY <2>2, <2>3, <2>4 DEF Typed, Checking, Job
  <2>6. GoesFor(f, "evaluating", r)
    BY <2>3, <2>4 DEF GoesFor
  <2>7. DefPath(f) /\ RowsPath(f)
    BY <2>2, NothingWritten
  <2>8. Paths(f)
    BY <1>0, <2>2, <2>5, <2>6, <2>7, GoForPath
  <2> QED
    BY <2>8
<1> QED
  BY <1>2, <1>3

LEMMA ReadRunPaths ==
    ASSUME Typed, FiberInv, NEW f \in Fibers, NEW r \in DOMAIN runs, ReadRun(f, r)
    PROVE  Paths(f)
<1>0. /\ "reading" \in Places /\ "reading" \notin Asked \cup {"saving", "recording", "marking"}
      /\ Statuses \subseteq Remarks
  BY DEF Places, Asked, Remarks
<1>1. /\ runs' = runs /\ UNCHANGED definition /\ UNCHANGED scheduling /\ f[1] \in up
      /\ (troubles' = troubles \/ \E kind : Trouble(kind))
      /\ GoesReading(f, "reading", r, runs[r].status)
  BY DEF ReadRun, At, rows, GoesReading
<1>2. PICK y : /\ Becomes(f, y) /\ y.at = "reading" /\ y.run = r /\ y.note = runs[r].status
               /\ y.left = fiber[f].left /\ y.def = fiber[f].def /\ y.time = fiber[f].time
  BY <1>1, GoesReadingTo DEF FiberInv
<1>3. y.run \in Nat /\ y.run <= Len(runs') /\ y.run # 0
  BY <1>1, <1>2, FiberFacts
<1>4. y.note \in Remarks
  BY <1>0, <1>2, RowsAre, RowTyped DEF RunRow
<1>5. DefPath(f) /\ RowsPath(f)
  BY <1>1, NothingWritten
<1> QED
  BY <1>0, <1>1, <1>2, <1>3, <1>4, <1>5, EasyPath

LEMMA TroubleIs ==
    ASSUME Typed, NEW kind, Trouble(kind), UNCHANGED scheduling
    PROVE  /\ kind \in troubles' /\ troubles \subseteq troubles' /\ Settings' /\ up' = up
           /\ plan' = plan /\ (overlapped => overlapped')
<1>1. overlapped' = overlapped
  BY DEF scheduling
<1> QED
  BY <1>1, SettingsKept DEF Trouble

LEMMA UserPaths ==
    ASSUME Typed, FiberInv, NEW s \in Servers, NEW kind \in Edits, RunNow(s) \/ Cancel(s) \/ Edit(s, kind)
    PROVE  \E f \in Fibers : Paths(f)
<1>1. PICK f \in Fibers : f = <<s, "caller">>
  BY DEF Fibers, Kinds
<1>2. f[2] = "caller"
  BY <1>1
<1>3. CASE RunNow(s)
  <2>1. /\ runs' = runs /\ UNCHANGED definition /\ UNCHANGED scheduling /\ f[1] \in up
        /\ Trouble("runNow")
    BY <1>1, <1>3 DEF RunNow, At, rows
  <2>2. PICK at1 \in {"counting", "restarting"} :
            fiber' = [fiber EXCEPT ![f].at = at1, ![f].def = def, ![f].time = clock]
    BY <1>1, <1>3 DEF RunNow
  <2>3. GoesAsking(f, at1, def, clock)
    BY <2>2 DEF GoesAsking
  <2>4. PICK y : /\ Becomes(f, y) /\ y.at = at1 /\ y.time = clock /\ y.def = def
                 /\ y.run = fiber[f].run /\ y.note = fiber[f].note /\ y.left = fiber[f].left
    BY <2>3, GoesAskingTo DEF FiberInv
  <2>5. /\ y.at \in Places /\ y.at \in Unbound /\ y.at # "saving" /\ y.at # "checking"
        /\ y.at # "creating"
    BY <2>2, <2>4 DEF Places, Unbound, Free
  <2>6. y.def \in Row /\ y.time \in Nat
    BY <2>4, ClockIs, RowsAre
  <2>7. Paths(f)
    BY <1>2, <2>1, <2>4, <2>5, <2>6, TroubleIs, BeginPath
  <2> QED
    BY <2>7
<1>4. CASE Cancel(s)
  <2>0. /\ "cancelling" \in Places /\ "cancelling" \notin Asked \cup {"saving", "recording", "marking"}
        /\ "cancelling" \in Unbound /\ "cancel" \in Remarks
    BY DEF Places, Plain, Asked, Remarks, Unbound
  <2>1. /\ runs' = runs /\ UNCHANGED definition /\ UNCHANGED scheduling /\ f[1] \in up
        /\ \E k : Trouble(k)
    BY <1>1, <1>4 DEF Cancel, At, rows
  <2>2. DefPath(f) /\ RowsPath(f)
    BY <2>1, NothingWritten
  <2>3. fiber[f].run \in Nat /\ fiber[f].run <= Len(runs') /\ fiber[f].note \in Remarks
    BY <2>1, FiberFacts
  <2>4. ASSUME NEW left1 \in SUBSET DOMAIN runs, GoesCancelling(f, "cancelling", left1, "cancel")
        PROVE  Paths(f)
    <3>1. PICK y : /\ Becomes(f, y) /\ y.at = "cancelling" /\ y.left = left1 /\ y.note = "cancel"
                   /\ y.run = fiber[f].run /\ y.def = fiber[f].def /\ y.time = fiber[f].time
      BY <2>4, GoesCancellingTo DEF FiberInv
    <3> QED
      BY <2>0, <2>1, <2>2, <2>3, <2>4, <3>1, EasyPath
  <2>5. ASSUME NEW left1 \in SUBSET DOMAIN runs, GoesDeleting(f, "cancelling", def, left1)
        PROVE  Paths(f)
    <3>1. PICK y : /\ Becomes(f, y) /\ y.at = "cancelling" /\ y.left = left1 /\ y.def = def
                   /\ y.run = fiber[f].run /\ y.note = fiber[f].note /\ y.time = fiber[f].time
      BY <2>5, GoesDeletingTo DEF FiberInv
    <3> QED
      BY <2>0, <2>1, <2>2, <2>3, <2>5, <3>1, EasyPath
  <2>6. \/ \E left1 \in SUBSET DOMAIN runs : GoesCancelling(f, "cancelling", left1, "cancel")
        \/ \E left1 \in SUBSET DOMAIN runs : GoesDeleting(f, "cancelling", def, left1)
    <3>1. CASE \E r \in DOMAIN runs : fiber' = [fiber EXCEPT ![f].at = "cancelling",
                                                       ![f].left = {r}, ![f].note = "cancel"]
      <4>1. PICK r \in DOMAIN runs : GoesCancelling(f, "cancelling", {r}, "cancel")
        BY <3>1 DEF GoesCancelling
      <4> QED
        BY <4>1
    <3>2. CASE fiber' = [fiber EXCEPT ![f].at = "cancelling", ![f].def = def,
                                      ![f].left = {r \in DOMAIN runs : IsActive(r)}]
      <4>1. GoesDeleting(f, "cancelling", def, {r \in DOMAIN runs : IsActive(r)})
        BY <3>2 DEF GoesDeleting
      <4>2. {r \in DOMAIN runs : IsActive(r)} \in SUBSET DOMAIN runs
        OBVIOUS
      <4> QED
        BY <4>1, <4>2
    <3> QED
      BY <1>1, <1>4, <3>1, <3>2 DEF Cancel
  <2> QED
    BY <2>4, <2>5, <2>6
<1>5. CASE Edit(s, kind)
  <2>1. /\ runs' = runs /\ UNCHANGED definition /\ UNCHANGED scheduling /\ f[1] \in up
        /\ Trouble(kind)
    BY <1>1, <1>5 DEF Edit, At, rows
  <2>2. PICK enabled : enabled = (IF kind = "rename" THEN def.enabled ELSE kind = "enable")
    OBVIOUS
  <2>3. PICK row : row = [def EXCEPT !.enabled = enabled]
    OBVIOUS
  <2>4. row \in Row /\ row.enabled = enabled /\ (enabled => kind \in {"enable", "rename"})
    BY <2>2, <2>3, RowsAre DEF Row
  <2>5. GoesPlanning(f, "saving", clock, row)
    BY <1>1, <1>5, <2>2, <2>3 DEF Edit, GoesPlanning
  <2>6. PICK y : /\ Becomes(f, y) /\ y.at = "saving" /\ y.time = clock /\ y.def = row
                 /\ y.run = fiber[f].run /\ y.note = fiber[f].note /\ y.left = fiber[f].left
    BY <2>5, GoesPlanningTo DEF FiberInv
  <2>7. "saving" \in Places /\ "saving" \in Unbound /\ ~ByUser(f, y)
    BY <2>6 DEF Places, Plain, Unbound, ByUser, Asked
  <2>8. clock \in Nat
    BY ClockIs
  <2>9. /\ Edits \cap troubles' # {}
        /\ row.enabled => {"enable", "rename"} \cap troubles' # {}
    BY <2>1, <2>4, TroubleIs DEF Edits
  <2>10. Paths(f)
    BY <1>2, <2>1, <2>4, <2>6, <2>7, <2>8, <2>9, TroubleIs, BeginPath
  <2> QED
    BY <2>10
<1> QED
  BY <1>3, <1>4, <1>5
LEMMA BootPaths ==
    ASSUME Typed, FiberInv, NEW s \in Servers, Boot(s)
    PROVE  \E f \in Fibers : Paths(f)
<1>1. PICK f \in Fibers : f = <<s, "watcher">>
  BY DEF Fibers, Kinds
<1>2. PICK y : y = Booting
  OBVIOUS
<1>3. y = [at |-> "booting", run |-> 0, def |-> NoRow, time |-> 0, note |-> "none", left |-> {}]
  BY <1>2 DEF Booting, Idle
<1>4. /\ y = Held(y) /\ y.at = "booting" /\ y.left = {} /\ y.run = 0 /\ y.def = NoRow /\ y.time = 0
      /\ y.note = "none"
  BY <1>3 DEF Held
<1>5. Becomes(f, y)
  BY <1>1, <1>2, <1>4 DEF Boot, Becomes
<1>6. /\ "booting" \in Places /\ "booting" \in Unbound /\ "none" \in Remarks /\ NoRow \in Row
      /\ "booting" \notin Asked \cup {"saving", "recording", "marking"}
  BY DEF Places, Plain, Unbound, Remarks, NoRow, Row, Asked
<1>7. y \in FiberRow
  BY <1>4, <1>6, HeldTyped
<1>8. /\ runs' = runs /\ UNCHANGED definition /\ UNCHANGED <<clock, plan, lease, overlapped, troubles>>
      /\ up' = up \cup {s} /\ s \in plan.servers
  BY DEF Boot, rows
<1>9. Fits(y)'
  BY <1>4, <1>6, <1>8, FiberFacts DEF Fits
<1>10. FiberPath(f, y)
  BY <1>4, <1>5, <1>6, <1>7, <1>9 DEF FiberPath, ByUser
<1>11. Settings'
  BY <1>8 DEF Typed, Settings
<1>12. DefPath(f) /\ RowsPath(f)
  BY <1>8, NothingWritten
<1>13. Path(f, y)
  BY <1>8, <1>10, <1>11, <1>12 DEF Path
<1> QED
  BY <1>13 DEF Paths

LEMMA StillStays ==
    ASSUME Typed, FiberInv,
           \/ \E s \in Servers : EnqueueChecks(s)
           \/ \E r \in DOMAIN runs : TurnMoves(r) \/ TurnLost(r)
           \/ Tick \/ UNCHANGED vars
    PROVE  Stays
<1>1. CASE \E s \in Servers : EnqueueChecks(s)
  <2>1. PICK s \in Servers : EnqueueChecks(s)
    BY <1>1
  <2>2. runs' = runs /\ UNCHANGED <<def, fiber, troubles>> /\ UNCHANGED scheduling
    BY <2>1 DEF EnqueueChecks, rows
  <2>3. PICK r \in DOMAIN runs : jobs' = Queued(s, r)
    BY <2>1 DEF EnqueueChecks
  <2>4. Checking'
    BY <2>2, <2>3, QueuedIs, RowsAre
  <2> QED
    BY <2>2, <2>4, SettingsKept DEF Stays
<1>2. CASE \E r \in DOMAIN runs : TurnMoves(r) \/ TurnLost(r)
  <2>1. /\ runs' = runs /\ UNCHANGED definition /\ fiber' = fiber /\ UNCHANGED scheduling
        /\ (troubles' = troubles \/ \E kind : Trouble(kind))
    BY <1>2 DEF TurnMoves, TurnLost
  <2>2. Checking'
    BY <2>1, JobsKept, RowsAre, FiberFacts DEF definition
  <2> QED
    BY <2>1, <2>2, SettingsKept DEF Stays, definition
<1>3. CASE Tick \/ UNCHANGED vars
  <2>1. /\ runs' = runs /\ UNCHANGED definition /\ UNCHANGED <<fiber, plan, lease, up, overlapped, troubles>>
        /\ (clock' = clock \/ (clock < plan.horizon /\ clock' = clock + 1))
    BY <1>3 DEF Tick, vars, rows, definition, history
  <2>2. Checking'
    BY <2>1, JobsKept, RowsAre, FiberFacts DEF definition
  <2>3. clock' \in 0 .. plan.horizon
    BY <2>1, ClockIs DEF Typed, Settings
  <2>4. Settings'
    BY <2>1, <2>3 DEF Typed, Settings
  <2> QED
    BY <2>1, <2>2, <2>4 DEF Stays, definition
<1> QED
  BY <1>1, <1>2, <1>3

\* A server goes down, and its fibers with it.
Falls ==
    /\ UNCHANGED <<runs, def, plan, overlapped>> /\ Checking' /\ Settings' /\ troubles \subseteq troubles'
    /\ \E s : fiber' = [f \in Fibers |-> IF f[1] = s THEN Idle ELSE fiber[f]] /\ up' = up \ {s}

LEMMA CrashFalls ==
    ASSUME Typed, NEW s \in Servers, Crash(s)
    PROVE  Falls
<1>1. /\ UNCHANGED <<clock, plan, overlapped, runs, def>> /\ Trouble("crash")
      /\ up' = up \ {s} /\ fiber' = [f \in Fibers |-> IF f[1] = s THEN Idle ELSE fiber[f]]
      /\ jobs' = [jobs EXCEPT ![s] = {}]
      /\ lease' = IF lease.owner = {s} THEN [lease EXCEPT !.owner = {}] ELSE lease
  BY DEF Crash
<1>2. lease' \in [owner: SUBSET Servers, until: Nat]
  BY <1>1 DEF Typed, Settings
<1>3. troubles \subseteq troubles' /\ troubles' \subseteq plan.possible
  BY <1>1 DEF Trouble, Typed, Settings
<1>4. Settings'
  BY <1>1, <1>2, <1>3 DEF Typed, Settings
<1>5. Checking'
  <2>1. jobs \in [Servers -> SUBSET Job]
    BY DEF Typed, Checking
  <2>2. jobs' \in [Servers -> SUBSET Job] /\ \A t \in Servers : jobs'[t] \subseteq jobs[t]
    BY <1>1, <2>1
  <2> QED
    BY <1>1, <2>2 DEF Typed, Checking
<1> QED
  BY <1>1, <1>3, <1>4, <1>5 DEF Falls

LEMMA EveryPath ==
    ASSUME Typed, FiberInv, \A f \in Fibers : Passing(f), [Next]_vars
    PROVE  Stays \/ Falls \/ \E f \in Fibers : Paths(f)
<1>1. ASSUME NEW f \in Fibers, Works(f) \/ DispatchFails(f)
      PROVE  Paths(f)
  BY <1>1, PassPaths, DispatchPaths, SettlePaths, CallPaths, WatchPaths, CheckPaths DEF Works
<1>2. ASSUME NEW s \in Servers, NEW kind \in Edits, RunNow(s) \/ Cancel(s) \/ Edit(s, kind)
      PROVE  \E f \in Fibers : Paths(f)
  BY <1>2, UserPaths
<1>3. {"enable", "disable", "rename"} = Edits
  BY DEF Edits
<1>4. ASSUME NEW s \in Servers, RunNow(s) \/ Cancel(s)
      PROVE  \E f \in Fibers : Paths(f)
  BY <1>2, <1>3, <1>4
<1>5. ASSUME NEW s \in Servers, StartPass(s) \/ TimeOut(s) \/ TakeJob(s) \/ Boot(s) \/ Crash(s)
      PROVE  Stays \/ Falls \/ \E f \in Fibers : Paths(f)
  BY <1>5, StartPassPaths, TakesPaths, BootPaths, CrashFalls
<1>6. ASSUME NEW f \in Fibers, NEW r \in DOMAIN runs, ReadRun(f, r)
      PROVE  Paths(f)
  BY <1>6, ReadRunPaths
<1> QED
  BY <1>1, <1>2, <1>3, <1>4, <1>5, <1>6, StillStays DEF Next

LEMMA OthersStay ==
    ASSUME FiberTable, NEW f \in Fibers, NEW y, Becomes(f, y)
    PROVE  fiber'[f] = y /\ \A g \in Fibers \ {f} : fiber'[g] = fiber[g]
BY DEF FiberTable, Becomes

LEMMA IdleFacts ==
    /\ Idle.at = "idle" /\ Idle.run = 0 /\ Idle.left = {} /\ Idle.time = 0 /\ Idle.note = "none"
    /\ Idle \in FiberRow
<1>1. "idle" \in Places /\ "none" \in Remarks /\ NoRow \in Row
  BY DEF Places, Remarks, NoRow, Row
<1> QED
  BY <1>1 DEF Idle, FiberRow

LEMMA TypedStep ==
    ASSUME Typed, FiberInv, Stays \/ Falls \/ \E f \in Fibers : Paths(f)
    PROVE  Typed'
<1>1. CASE Stays
  <2>1. Fibered' /\ Rowed'
    BY <1>1 DEF Stays, Typed, Fibered, Rowed, Fits
  <2> QED
    BY <1>1, <2>1 DEF Stays, Typed
<1>2. CASE Falls
  <2>1. Rowed' /\ runs' = runs /\ Checking' /\ Settings'
    BY <1>2 DEF Falls, Typed, Rowed
  <2>2. PICK s : fiber' = [f \in Fibers |-> IF f[1] = s THEN Idle ELSE fiber[f]]
    BY <1>2 DEF Falls
  <2>3. ASSUME NEW f \in Fibers
        PROVE  fiber'[f] \in FiberRow /\ Fits(fiber[f])'
    <3>1. PICK x : x = fiber'[f]
      OBVIOUS
    <3>2. x = Idle \/ x = fiber[f]
      BY <2>2, <3>1
    <3>3. x \in FiberRow
      BY <3>2, IdleFacts DEF Typed, Fibered
    <3>4. Fits(x)
      <4>1. CASE x = Idle
        BY <4>1, IdleFacts, RowsAre DEF Fits, Unbound
      <4>2. CASE x = fiber[f]
        BY <4>2 DEF Typed, Fibered
      <4> QED
        BY <3>2, <4>1, <4>2
    <3>5. Fits(x)'
      BY <2>1, <3>4 DEF Fits
    <3> QED
      BY <3>1, <3>3, <3>5
  <2>4. Fibered'
    BY <2>2, <2>3 DEF Fibered
  <2> QED
    BY <2>1, <2>4 DEF Typed
<1>3. ASSUME NEW f \in Fibers, NEW y, Path(f, y)
      PROVE  Typed'
  <2>1. /\ FiberPath(f, y) /\ DefPath(f) /\ RowsPath(f) /\ Settings'
    BY <1>3 DEF Path
  <2>2. Becomes(f, y) /\ y \in FiberRow /\ Fits(y)'
    BY <2>1 DEF FiberPath
  <2>3. fiber' = [fiber EXCEPT ![f] = y] /\ fiber \in [Fibers -> FiberRow]
    BY <2>2 DEF Becomes, Typed, Fibered
  <2>4. fiber' \in [Fibers -> FiberRow]
    BY <2>2, <2>3
  <2>5. Len(runs) \in Nat /\ Len(runs') \in Nat /\ Len(runs) <= Len(runs')
    BY <2>1, RowsAre DEF RowsPath
  <2>6. ASSUME NEW g \in Fibers
        PROVE  Fits(fiber[g])'
    <3>1. CASE g = f
      <4>1. fiber'[g] = y
        BY <2>3, <3>1
      <4> QED
        BY <2>2, <4>1
    <3>2. CASE g # f
      <4>1. PICK x : x = fiber[g] /\ x = fiber'[g]
        BY <2>3, <3>2
      <4>2. Fits(x)
        BY <4>1 DEF Typed, Fibered
      <4>3. 0 .. Len(runs) \subseteq 0 .. Len(runs') /\ 1 .. Len(runs) \subseteq 1 .. Len(runs')
        BY <2>5
      <4>4. Fits(x)'
        BY <4>2, <4>3 DEF Fits
      <4> QED
        BY <4>1, <4>4
    <3> QED
      BY <3>1, <3>2
  <2>7. Fibered'
    BY <2>4, <2>6 DEF Fibered
  <2>8. Rowed' /\ Checking'
    BY <2>1 DEF Rowed, DefPath, RowsPath
  <2> QED
    BY <2>1, <2>7, <2>8 DEF Typed
<1> QED
  BY <1>1, <1>2, <1>3 DEF Paths
\* What brings a fiber to where it is: a user for a call, a lease for a pass, and no pass begins
\* beside another one unless that is noted.
Course(f) ==
    /\ Passing(f)
    /\ fiber[f].time # 0 => f[1] \in up
    /\ ByUser(f, fiber[f]) => "runNow" \in troubles
    /\ fiber[f].at = "saving" =>
        /\ Edits \cap troubles # {}
        /\ fiber[f].def.enabled => {"enable", "rename"} \cap troubles # {}

OnePass ==
    \A f, g \in Fibers :
        f # g /\ f[2] = "scheduler" /\ g[2] = "scheduler" /\ fiber[f].time # 0 /\ fiber[g].time # 0
        => overlapped

Courses == OnePass /\ \A f \in Fibers : Course(f)

LEMMA FibersBegin ==
    ASSUME Init, NEW f \in Fibers
    PROVE  fiber[f].time = 0 /\ fiber[f].at \in {"idle", "booting"}
<1>1. /\ Idle.at = "idle" /\ Idle.time = 0 /\ Booting.at = "booting" /\ Booting.time = 0
  BY DEF Idle, Booting
<1>2. f[2] \in Kinds
  BY DEF Fibers
<1>3. fiber[f] = Idle \/ fiber[f] = Booting
  BY <1>2 DEF Init, Fresh
<1> QED
  BY <1>1, <1>3

LEMMA CoursesInit == Init => Courses
<1> SUFFICES ASSUME Init PROVE Courses
  OBVIOUS
<1>1. \A f \in Fibers : fiber[f].time = 0 /\ fiber[f].at \in {"idle", "booting"}
  BY FibersBegin
<1>2. \A f \in Fibers : Course(f)
  BY <1>1 DEF Course, Passing, ByUser, Asked
<1> QED
  BY <1>1, <1>2 DEF Courses, OnePass

LEMMA CoursesStep ==
    ASSUME Typed, FiberInv, Courses, Stays \/ Falls \/ \E f \in Fibers : Paths(f)
    PROVE  Courses'
<1>1. CASE Stays
  BY <1>1 DEF Stays, Courses, OnePass, Course, Passing, ByUser
<1>2. CASE Falls
  <2>1. PICK s : /\ fiber' = [f \in Fibers |-> IF f[1] = s THEN Idle ELSE fiber[f]]
                 /\ up' = up \ {s}
    BY <1>2 DEF Falls
  <2>2. troubles \subseteq troubles' /\ overlapped' = overlapped
    BY <1>2 DEF Falls
  <2>3. ASSUME NEW f \in Fibers
        PROVE  Course(f)'
    <3>1. CASE f[1] = s
      <4>1. fiber'[f].at = "idle" /\ fiber'[f].time = 0
        BY <2>1, <3>1, IdleFacts
      <4> QED
        BY <4>1 DEF Course, Passing, ByUser, Asked
    <3>2. CASE f[1] # s
      <4>1. fiber'[f] = fiber[f] /\ Course(f)
        BY <2>1, <3>2 DEF Courses
      <4> QED
        BY <2>1, <2>2, <3>2, <4>1 DEF Course, Passing, ByUser
    <3> QED
      BY <3>1, <3>2
  <2>4. OnePass'
    <3>1. \A f \in Fibers : fiber'[f].time # 0 => fiber[f].time # 0
      BY <2>1, IdleFacts
    <3> QED
      BY <2>2, <3>1 DEF Courses, OnePass
  <2> QED
    BY <2>3, <2>4 DEF Courses
<1>3. ASSUME NEW f \in Fibers, NEW y, Path(f, y)
      PROVE  Courses'
  <2>1. /\ FiberPath(f, y) /\ troubles \subseteq troubles' /\ (overlapped => overlapped')
        /\ up \subseteq up'
    BY <1>3 DEF Path
  <2>2. fiber'[f] = y /\ \A g \in Fibers \ {f} : fiber'[g] = fiber[g]
    BY <2>1, OthersStay DEF FiberPath, FiberInv
  <2>3. ASSUME NEW g \in Fibers
        PROVE  Course(g)'
    <3>1. CASE g = f
      <4>1. ByUser(f, y) => "runNow" \in troubles'
        BY <2>1 DEF FiberPath, Courses, Course
      <4>2. (y.time # 0 => f[1] \in up')
            /\ (f[2] # "caller" /\ y.at \in Asked => f[2] = "scheduler" /\ y.at # "restarting" /\ y.time # 0)
        BY <2>1 DEF FiberPath
      <4>3. y.at = "saving" => /\ Edits \cap troubles' # {}
                               /\ y.def.enabled => {"enable", "rename"} \cap troubles' # {}
        BY <2>1 DEF FiberPath
      <4>4. Passing(f)'
        BY <2>2, <4>2 DEF Passing
      <4>5. ByUser(f, fiber[f])' => "runNow" \in troubles'
        BY <2>2, <4>1 DEF ByUser
      <4> QED
        BY <2>2, <3>1, <4>2, <4>3, <4>4, <4>5 DEF Course
    <3>2. CASE g # f
      <4>1. fiber'[g] = fiber[g] /\ Course(g)
        BY <2>2, <3>2 DEF Courses
      <4> QED
        BY <2>1, <4>1 DEF Course, Passing, ByUser
    <3> QED
      BY <3>1, <3>2
  <2>4. OnePass'
    <3>1. ASSUME NEW g \in Fibers, g # f, f[2] = "scheduler", g[2] = "scheduler",
                 y.time # 0, fiber[g].time # 0
          PROVE  overlapped'
      <4>1. fiber[f].time # 0 => overlapped
        BY <3>1 DEF Courses, OnePass
      <4>2. CASE \A o \in up \ {f[1]} : fiber[<<o, "scheduler">>].time = 0
        <5>1. g[1] \in up
          BY <3>1 DEF Courses, Course
        <5>2. g = <<g[1], "scheduler">> /\ f = <<f[1], "scheduler">>
          BY <3>1 DEF Fibers
        <5> QED
          BY <3>1, <4>2, <5>1, <5>2
      <4>3. \/ fiber[f].time # 0 \/ overlapped'
            \/ \A o \in up \ {f[1]} : fiber[<<o, "scheduler">>].time = 0
        BY <2>1, <3>1 DEF FiberPath
      <4> QED
        BY <2>1, <4>1, <4>2, <4>3
    <3>2. ASSUME NEW g \in Fibers, NEW h \in Fibers, g # h, g[2] = "scheduler", h[2] = "scheduler",
                 fiber'[g].time # 0, fiber'[h].time # 0
          PROVE  overlapped'
      <4>1. CASE g # f /\ h # f
        BY <2>1, <2>2, <3>2, <4>1 DEF Courses, OnePass
      <4>2. CASE g = f
        BY <2>2, <3>1, <3>2, <4>2
      <4>3. CASE h = f
        BY <2>2, <3>1, <3>2, <4>3
      <4> QED
        BY <4>1, <4>2, <4>3
    <3> QED
      BY <3>2 DEF OnePass
  <2> QED
    BY <2>3, <2>4 DEF Courses
<1> QED
  BY <1>1, <1>2, <1>3 DEF Paths

\* A stop condition that is met, in a row or in the hands of the worker that will write it.
Stopped ==
    troubles \cap {"enable", "rename", "runNow"} = {} =>
        /\ (\E r \in DOMAIN runs : runs[r].evaluated = "matched") => ~def.enabled
        /\ \A f \in Fibers : fiber[f].at = "recording" /\ fiber[f].note = "matched" => ~def.enabled

LEMMA StoppedStep ==
    ASSUME Typed, FiberInv, Courses, Stopped, Stays \/ Falls \/ \E f \in Fibers : Paths(f)
    PROVE  Stopped'
<1> SUFFICES ASSUME troubles' \cap {"enable", "rename", "runNow"} = {}, def'.enabled
             PROVE  /\ ~\E r \in DOMAIN runs' : runs'[r].evaluated = "matched"
                    /\ ~\E f \in Fibers : fiber'[f].at = "recording" /\ fiber'[f].note = "matched"
  BY DEF Stopped
<1>1. CASE Stays
  BY <1>1 DEF Stays, Stopped
<1>2. CASE Falls
  <2>1. \A f \in Fibers : fiber'[f].at = "recording" => fiber'[f] = fiber[f]
    BY <1>2, IdleFacts DEF Falls
  <2> QED
    BY <1>2, <2>1 DEF Falls, Stopped
<1>3. ASSUME NEW f \in Fibers, NEW y, Path(f, y)
      PROVE  /\ ~\E r \in DOMAIN runs' : runs'[r].evaluated = "matched"
             /\ ~\E g \in Fibers : fiber'[g].at = "recording" /\ fiber'[g].note = "matched"
  <2>1. FiberPath(f, y) /\ DefPath(f) /\ RowsPath(f) /\ troubles \subseteq troubles'
    BY <1>3 DEF Path
  <2>2. troubles \cap {"enable", "rename", "runNow"} = {}
    BY <2>1
  <2>3. Course(f)
    BY DEF Courses
  <2>4. fiber[f].at # "restarting"
    BY <2>2, <2>3 DEF Course, ByUser, Asked
  <2>5. ~(fiber[f].at = "saving" /\ fiber[f].def.enabled)
    BY <2>2, <2>3 DEF Course
  <2>6. def.enabled
    BY <2>1, <2>4, <2>5 DEF DefPath
  <2>7. /\ ~\E r \in DOMAIN runs : runs[r].evaluated = "matched"
        /\ ~\E g \in Fibers : fiber[g].at = "recording" /\ fiber[g].note = "matched"
    BY <2>2, <2>6 DEF Stopped
  <2>8. ~\E r \in DOMAIN runs' : runs'[r].evaluated = "matched"
    BY <2>1, <2>7 DEF RowsPath, RowPath
  <2>9. fiber'[f] = y /\ \A g \in Fibers \ {f} : fiber'[g] = fiber[g]
    BY <2>1, OthersStay DEF FiberPath, FiberInv
  <2>10. ~(y.at = "recording" /\ y.note = "matched")
    BY <2>1 DEF FiberPath
  <2> QED
    BY <2>7, <2>8, <2>9, <2>10
<1> QED
  BY <1>1, <1>2, <1>3 DEF Paths

Kept == Typed /\ Courses /\ Stopped

LEMMA KeptInit == Init => Kept
<1>1. Init => Stopped
  <2> SUFFICES ASSUME Init PROVE Stopped
    OBVIOUS
  <2>1. DOMAIN runs = {}
    BY DEF Init
  <2>2. \A f \in Fibers : fiber[f].at # "recording"
    BY FibersBegin
  <2> QED
    BY <2>1, <2>2 DEF Stopped
<1> QED
  BY <1>1, InitTyped, CoursesInit DEF Kept

LEMMA KeptStep ==
    ASSUME FiberInv, Kept, [Next]_vars
    PROVE  Kept'
<1>1. Stays \/ Falls \/ \E f \in Fibers : Paths(f)
  BY EveryPath DEF Kept, Courses, Course
<1> QED
  BY <1>1, TypedStep, CoursesStep, StoppedStep DEF Kept

LEMMA KeptAlways == Spec => [](FiberInv /\ Kept)
<1>1. FiberInv /\ Kept /\ [Next]_vars => Kept'
  BY KeptStep
<1> QED
  BY <1>1, KeptInit, FibersAlways, PTL DEF Spec

\* Whatever the fibers of any number of servers do, every row, every reading and every stop check
\* that is queued keeps to its type, and points to a run that is there.
THEOREM TypeCorrect == Spec => []TypeOK
<1>1. FiberInv /\ Kept => TypeOK
  BY TypedOK DEF Kept
<1> QED
  BY <1>1, KeptAlways, PTL

\* A stop condition that was met stays met: no dispatch, pass, settlement or late stop check turns
\* the automation on again, only a user does: disableDefinitionForCompletionMatch.
THEOREM StopsStand == Spec => []StopStands
<1>1. FiberInv /\ Kept => StopStands
  BY DEF Kept, Stopped, StopStands
<1> QED
  BY <1>1, KeptAlways, PTL
-----------------------------------------------------------------------------------
\* A pass waits for the stop checks of the runs before it.

\* No user has pressed for a run or saved an edit, and no pass was overtaken.
Unhurried == ({"runNow"} \cup Edits) \cap troubles = {} /\ ~overlapped

Live == def.enabled /\ ~def.archived

\* Only a row that is skipped, and so has no thread, is open and not active.
Threads ==
    \A r \in DOMAIN runs :
        /\ Heartbeat => runs[r].thread # "own"
        /\ runs[r].status = "skipped" => runs[r].thread = "none"

\* From the list of active runs to the new row the thread is free, and at the new row no run is
\* left to be checked either.
Clear(x) ==
    /\ x.at = "checking" /\ x.note # "busy" => Busy("target") = {}
    /\ x.at = "creating" =>
        /\ Busy("target") = {}
        /\ plan.stopCheck /\ Live => ~\E r \in DOMAIN runs : Done(r)

Waiting == Threads /\ (Heartbeat /\ Unhurried => \A f \in Fibers : Clear(fiber[f]))

LEMMA ThreadsStep ==
    ASSUME FiberInv, RowsMove, Threads, NEW f \in Fibers, RowsPath(f), plan' = plan
    PROVE  Threads'
<1>1. ASSUME NEW r \in DOMAIN runs'
      PROVE  (Heartbeat => runs'[r].thread # "own") /\ (runs'[r].status = "skipped" => runs'[r].thread = "none")
  <2>1. RowPath(f, r)
    BY <1>1 DEF RowsPath
  <2>2. fiber[f].at = "skipping" => fiber[f].run \in DOMAIN runs /\ runs[fiber[f].run].thread = "none"
    BY DEF FiberInv, Claims, Claim
  <2>3. CASE r \in DOMAIN runs
    BY <2>1, <2>2, <2>3 DEF RowPath, RowsMove, Threads
  <2>4. CASE r \notin DOMAIN runs
    BY <2>1, <2>2, <2>4 DEF RowPath, PlannedThread
  <2> QED
    BY <2>3, <2>4
<1> QED
  BY <1>1 DEF Threads, Heartbeat

\* Where nobody creates a run the thread stays free; a run that ends was active until then.
LEMMA ClearStays ==
    ASSUME Typed, FiberInv, RowsMove, Threads, NEW f \in Fibers, RowsPath(f), Heartbeat,
           Busy("target") = {}, fiber[f].at # "creating"
    PROVE  Busy("target")' = {} /\ \A r \in DOMAIN runs' : Done(r)' => r \in DOMAIN runs /\ Done(r)
<1>1. \A r \in DOMAIN runs : runs[r].thread # "target" \/ runs[r].status \notin Active
  BY DEF Busy, IsActive
<1>2. ASSUME NEW r \in DOMAIN runs', runs'[r].thread = "target", runs'[r].status \in Active
      PROVE  FALSE
  <2>1. RowPath(f, r)
    BY <1>2 DEF RowsPath
  <2>2. r \in DOMAIN runs
    BY <1>2, <2>1 DEF RowPath
  <2> QED
    BY <1>1, <1>2, <2>2 DEF RowsMove
<1>3. Busy("target")' = {}
  BY <1>2 DEF Busy, IsActive
<1>4. ASSUME NEW r \in DOMAIN runs', Done(r)'
      PROVE  r \in DOMAIN runs /\ Done(r)
  <2>1. r \in DOMAIN runs /\ (Done(r) \/ (runs[r].status \in Open /\ runs[r].thread # "none"))
    BY <1>4 DEF RowsPath, RowPath
  <2>2. CASE runs[r].status \in Open /\ runs[r].thread # "none"
    <3>1. runs[r].thread = "target"
      BY <2>1, <2>2, RowsAre, RowTyped DEF RunRow, Threads
    <3>2. runs[r].status \in Active
      BY <2>1, <2>2 DEF Open, Threads
    <3> QED
      BY <1>1, <2>1, <3>1, <3>2
  <2> QED
    BY <2>1, <2>2
<1> QED
  BY <1>3, <1>4

\* A fiber that is about to create a run is the only pass there is.
LEMMA AskedIsPass ==
    ASSUME Courses, Unhurried, NEW f \in Fibers, fiber[f].at \in Asked
    PROVE  f[2] = "scheduler" /\ fiber[f].time # 0 /\ fiber[f].at # "restarting"
<1>1. Course(f) /\ "runNow" \notin troubles
  BY DEF Courses, Unhurried
<1> QED
  BY <1>1 DEF Course, ByUser, Passing

LEMMA WaitingStep ==
    ASSUME Typed, FiberInv, Courses, Waiting, RowsMove, Stays \/ Falls \/ \E f \in Fibers : Paths(f)
    PROVE  Waiting'
<1>1. CASE Stays
  BY <1>1 DEF Stays, Waiting, Threads, Heartbeat, Unhurried, Clear, Live, Busy, IsActive, Done
<1>2. CASE Falls
  <2>1. \A f \in Fibers : fiber'[f].at \in {"checking", "creating"} => fiber'[f] = fiber[f]
    BY <1>2, IdleFacts DEF Falls
  <2> QED
    BY <1>2, <2>1 DEF Falls, Waiting, Threads, Heartbeat, Unhurried, Clear, Live, Busy, IsActive, Done
<1>3. ASSUME NEW f \in Fibers, NEW y, Path(f, y)
      PROVE  Waiting'
  <2>1. /\ FiberPath(f, y) /\ DefPath(f) /\ RowsPath(f) /\ troubles \subseteq troubles'
        /\ (overlapped => overlapped') /\ plan' = plan
    BY <1>3 DEF Path
  <2>2. Threads'
    BY <2>1, ThreadsStep DEF Waiting
  <2>3. fiber'[f] = y /\ \A g \in Fibers \ {f} : fiber'[g] = fiber[g]
    BY <2>1, OthersStay DEF FiberPath, FiberInv
  <2>4. ASSUME Heartbeat', Unhurried', NEW g \in Fibers
        PROVE  Clear(fiber[g])'
    <3>1. Heartbeat /\ Unhurried
      BY <2>1, <2>4 DEF Heartbeat, Unhurried
    <3>2. \A h \in Fibers : Clear(fiber[h])
      BY <3>1 DEF Waiting
    <3>3. Threads
      BY DEF Waiting
    <3>4. Live' => Live
      <4>1. fiber[f].at # "restarting"
        BY <3>1, AskedIsPass DEF Asked
      <4>2. fiber[f].at # "saving"
        BY <3>1 DEF Courses, Course, Unhurried
      <4> QED
        BY <2>1, <4>1, <4>2 DEF DefPath, Live
    <3>5. CASE g # f
      <4>1. PICK x : x = fiber[g] /\ x = fiber'[g]
        BY <2>3, <3>5
      <4>2. ASSUME x.at \in {"checking", "creating"}
            PROVE  fiber[f].at # "creating"
        <5>1. g[2] = "scheduler" /\ fiber[g].time # 0
          BY <3>1, <4>1, <4>2, AskedIsPass DEF Asked
        <5>2. fiber[f].at = "creating" => f[2] = "scheduler" /\ fiber[f].time # 0
          BY <3>1, AskedIsPass DEF Asked
        <5> QED
          BY <3>1, <3>5, <5>1, <5>2 DEF Courses, OnePass, Unhurried
      <4>3. Clear(x)
        BY <3>2, <4>1
      <4>4. CASE x.at = "checking" /\ x.note # "busy"
        <5>1. Busy("target")' = {}
          BY <2>1, <3>1, <3>3, <4>2, <4>3, <4>4, ClearStays DEF Clear
        <5> QED
          BY <4>1, <4>4, <5>1 DEF Clear
      <4>5. CASE x.at = "creating"
        <5>1. /\ Busy("target")' = {}
              /\ \A r \in DOMAIN runs' : Done(r)' => r \in DOMAIN runs /\ Done(r)
          BY <2>1, <3>1, <3>3, <4>2, <4>3, <4>5, ClearStays DEF Clear
        <5>2. plan.stopCheck /\ Live => ~\E r \in DOMAIN runs : Done(r)
          BY <4>3, <4>5 DEF Clear
        <5>3. (plan.stopCheck /\ Live => ~\E r \in DOMAIN runs : Done(r))'
          BY <2>1, <3>4, <5>1, <5>2
        <5> QED
          BY <4>1, <4>5, <5>1, <5>3 DEF Clear
      <4> QED
        BY <4>1, <4>4, <4>5 DEF Clear
    <3>6. CASE g = f
      <4>1. CASE y.at = "checking" /\ y.note # "busy"
        <5>1. fiber[f].at # "creating" /\ Busy("target") = {}
          BY <2>1, <4>1 DEF FiberPath
        <5>2. Busy("target")' = {}
          BY <2>1, <3>1, <3>3, <5>1, ClearStays
        <5> QED
          BY <2>3, <3>6, <4>1, <5>2 DEF Clear
      <4>2. CASE y.at = "creating"
        <5>1. f[2] # "caller"
          <6>1. "runNow" \notin troubles' /\ "runNow" \notin troubles
            BY <2>4, <3>1 DEF Unhurried
          <6>2. ~ByUser(f, fiber[f])
            BY <6>1 DEF Courses, Course
          <6>3. ~ByUser(f, y)
            BY <2>1, <6>1, <6>2 DEF FiberPath
          <6> QED
            BY <4>2, <6>3 DEF ByUser, Asked
        <5>2. fiber[f].at = "checking" /\ fiber[f].note # "busy" /\ ~AnyStopCheck
          BY <2>1, <3>1, <4>2, <5>1 DEF FiberPath
        <5>3. Busy("target") = {}
          BY <3>2, <5>2 DEF Clear
        <5>4. /\ Busy("target")' = {}
              /\ \A r \in DOMAIN runs' : Done(r)' => r \in DOMAIN runs /\ Done(r)
          BY <2>1, <3>1, <3>3, <5>2, <5>3, ClearStays
        <5>5. plan.stopCheck /\ Live => ~\E r \in DOMAIN runs : Done(r)
          BY <3>1, <5>2 DEF AnyStopCheck, StopCheckPending, Live, Done
        <5>6. (plan.stopCheck /\ Live => ~\E r \in DOMAIN runs : Done(r))'
          BY <2>1, <3>4, <5>4, <5>5
        <5> QED
          BY <2>3, <3>6, <4>2, <5>4, <5>6 DEF Clear
      <4> QED
        BY <2>3, <3>6, <4>1, <4>2 DEF Clear
    <3> QED
      BY <3>5, <3>6
  <2> QED
    BY <2>2, <2>4 DEF Waiting
<1> QED
  BY <1>1, <1>2, <1>3 DEF Paths

LEMMA WaitingInit == Init => Waiting
<1> SUFFICES ASSUME Init PROVE Waiting
  OBVIOUS
<1>1. DOMAIN runs = {}
  BY DEF Init
<1>2. \A f \in Fibers : fiber[f].at \in {"idle", "booting"}
  BY FibersBegin
<1> QED
  BY <1>1, <1>2 DEF Waiting, Threads, Clear

LEMMA WaitingAlways == Spec => [](FiberInv /\ Kept /\ Waiting)
<1>1. FiberInv /\ Kept /\ Waiting /\ [Next]_vars => Waiting'
  <2> SUFFICES ASSUME FiberInv, Kept, Waiting, [Next]_vars PROVE Waiting'
    OBVIOUS
  <2>1. RowsMove
    BY TableMoves DEF FiberInv
  <2>2. Stays \/ Falls \/ \E f \in Fibers : Paths(f)
    BY EveryPath DEF Kept, Courses, Course
  <2> QED
    BY <2>1, <2>2, WaitingStep DEF Kept
<1> QED
  BY <1>1, WaitingInit, KeptAlways, PTL DEF Spec

\* While it is being asked whether a heartbeat is done no pass of the schedule starts another run,
\* though the list of what is due, the active runs and the stop checks are read one after the
\* other: heartbeatThreadRunState.
THEOREM ChecksComeFirst == Spec => HeartbeatWaitsForCheck
<1>1. ASSUME FiberInv, Kept, Waiting, [Next]_vars,
             \E r \in DOMAIN runs : StopCheckPending(r) /\ runs[r].result = "succeeded", Unhurried,
             NEW q \in DOMAIN runs' \ DOMAIN runs
      PROVE  runs'[q].thread = "none"
  <2>1. Stays \/ Falls \/ \E f \in Fibers : Paths(f)
    BY <1>1, EveryPath DEF Kept, Courses, Course
  <2>2. PICK f \in Fibers : Paths(f)
    BY <1>1, <2>1 DEF Stays, Falls
  <2>3. RowPath(f, q)
    BY <1>1, <2>2 DEF Paths, Path, RowsPath
  <2>4. fiber[f].at # "creating"
    <3>1. Heartbeat /\ plan.stopCheck /\ Live /\ \E r \in DOMAIN runs : Done(r)
      BY <1>1 DEF StopCheckPending, Live, Done
    <3>2. Clear(fiber[f])
      BY <1>1, <3>1 DEF Waiting
    <3> QED
      BY <3>1, <3>2 DEF Clear
  <2> QED
    BY <1>1, <2>3, <2>4 DEF RowPath
<1>2. FiberInv /\ Kept /\ Waiting /\ [Next]_vars =>
        [/\ \E r \in DOMAIN runs : StopCheckPending(r) /\ runs[r].result = "succeeded"
         /\ ({"runNow"} \cup Edits) \cap troubles = {} /\ ~overlapped
         => \A r \in DOMAIN runs' \ DOMAIN runs : runs'[r].thread = "none"]_vars
  BY <1>1 DEF Unhurried
<1> QED
  BY <1>2, WaitingAlways, PTL DEF HeartbeatWaitsForCheck, Spec

-----------------------------------------------------------------------------------
\* One run for an occurrence where a late run is named for the time of its pass.

\* A pass that none overtook, while nobody edits the automation.
Latest == plan.misfire = "run-latest" /\ ~overlapped /\ Edits \cap troubles = {}

\* A run that was launched, or that a fiber takes to its launch.  One that a crash takes from its
\* fiber before that stays as it is.
Handed(r) == Launched(r) \/ \E f \in Fibers : fiber[f].at \in Dispatching /\ fiber[f].run = r

\* A pass that has not yet made the row of the occurrence it is at, one that has, and a call that
\* may start a loop at its cap over.
Ahead == {"counting", "checking", "missing", "creating"}
Planning(f, x) == f[2] = "scheduler" /\ x.at \in Ahead
Onward(x) == x.at \in {"missing", "skipping", "advancing"} \/ (x.at = "result" /\ x.note = "skipped")
Restarting(f, x) ==
    f[2] = "caller" /\ x.at \in {"counting", "checking", "restarting"} /\ CapReached(x.def)

OfPass == \A f \in Fibers : Onward(fiber[f]) => f[2] = "scheduler" /\ fiber[f].time # 0

OneCall == \A f, g \in Fibers : ByUser(f, fiber[f]) /\ ByUser(g, fiber[g]) => f = g

\* Nothing is planned for a time to come, nor for one after the pass that is at work.
Timely ==
    /\ \A r \in DOMAIN planned : planned[r] \in Nat /\ planned[r] <= clock
    /\ \A f \in Fibers : f[2] = "scheduler" /\ fiber[f].time # 0 =>
        /\ fiber[f].time <= clock /\ fiber[f].def.next # 0 /\ fiber[f].def.next <= fiber[f].time
        /\ \A r \in DOMAIN planned : planned[r] <= fiber[f].time

\* A loop that is to start over creates nothing for a time after it was asked to.
Restarts ==
    \A c \in Fibers : Restarting(c, fiber[c]) =>
        /\ CapReached(def)
        /\ \A r \in DOMAIN planned : planned[r] <= fiber[c].time
        /\ \A f \in Fibers : Planning(f, fiber[f]) => fiber[f].def.next <= fiber[c].time

\* No run of the occurrence a pass is at has been handed on ...
NotYet ==
    \A f \in Fibers : Planning(f, fiber[f]) =>
        \A r \in DOMAIN planned : planned[r] = fiber[f].def.next => ~Handed(r)

\* ... and once one is, the schedule moves on before its fiber does.
Moved ==
    def.next # 0 =>
        \A r \in DOMAIN planned : planned[r] = def.next /\ Handed(r) =>
            \E f \in Fibers : f[2] = "scheduler" /\ fiber[f].at = "advancing" /\ fiber[f].run = r

HandedOnce ==
    \A r, q \in DOMAIN planned :
        r # q /\ planned[r] = planned[q] /\ planned[r] # 0 => ~Handed(r) \/ ~Handed(q)

Orderly ==
    /\ OfPass /\ OneCall
    /\ Latest => Timely /\ Restarts /\ NotYet /\ Moved /\ HandedOnce

-----------------------------------------------------------------------------------
\* What a step of a fiber does to the schedule.

NewOccurrences(f, y) ==
    \A r \in DOMAIN planned' \ DOMAIN planned :
        \/ planned'[r] = 0
        \/ /\ Planning(f, fiber[f]) /\ planned'[r] = fiber[f].def.next /\ turn'[r] = "none"
           /\ y.at = "skipping" \/ (y.at = "advancing" /\ y.run = r)

NextPath(f) ==
    /\ fiber[f].at = "advancing" =>
        \E slot \in {fiber[f].time, fiber[f].def.next} : def'.next = NextAfter(slot, fiber[f].time)
    /\ fiber[f].at # "advancing" =>
        \/ def'.next \in {0, def.next} \/ fiber[f].at = "saving"
        \/ /\ fiber[f].at = "restarting" /\ CapReached(fiber[f].def)
           /\ def'.next = fiber[f].time + Every
    /\ CapReached(def) => CapReached(def') \/ fiber[f].at = "restarting"

\* The fiber keeps what it has read, or forgets all of it.
KeepsReading(f, y) ==
    /\ f[2] = "scheduler" /\ y.time # 0 => y.time = fiber[f].time /\ y.def = fiber[f].def
    /\ Planning(f, y) => Planning(f, fiber[f]) /\ y.time = fiber[f].time /\ y.def = fiber[f].def
    /\ Onward(y) => (Onward(fiber[f]) \/ Planning(f, fiber[f])) /\ y.time = fiber[f].time
    /\ ByUser(f, y) => ByUser(f, fiber[f])
    /\ Restarting(f, y) =>
        fiber[f].at \in {"counting", "checking"} /\ y.time = fiber[f].time /\ y.def = fiber[f].def

BeginsPass(f, y) ==
    /\ f[2] = "scheduler" /\ fiber[f].at = "idle" /\ planned' = planned
    /\ y.at \in Ahead \cup {"capped"} /\ y.time = clock /\ y.def = def
    /\ def.next # 0 /\ def.next <= clock /\ (CapReached(def) => y.at = "capped")
    /\ overlapped' \/ \A o \in up \ {f[1]} : fiber[<<o, "scheduler">>].time = 0

BeginsCall(f, y) ==
    /\ f[2] = "caller" /\ fiber[f].at = "idle" /\ "runNow" \notin troubles /\ planned' = planned
    /\ y.at \in {"counting", "restarting"} /\ y.time = clock /\ y.def = def

Schedules(f, y) ==
    /\ Becomes(f, y) /\ UNCHANGED <<clock, plan>> /\ NewOccurrences(f, y) /\ NextPath(f)
    /\ KeepsReading(f, y) \/ BeginsPass(f, y) \/ BeginsCall(f, y)

Quiet ==
    /\ UNCHANGED <<plan, planned, def>> /\ clock <= clock'
    /\ \A f \in Fibers :
        fiber'[f] = fiber[f] \/ (fiber'[f].at \in {"idle", "booting"} /\ fiber'[f].time = 0)

ScheduleMove == Quiet \/ \E f \in Fibers : \E y : Schedules(f, y)

\* A run that was not handed on is handed on only where it is created.
LEMMA HandedStays ==
    ASSUME FiberInv, CrashNoted, [Next]_vars, NEW r \in DOMAIN runs, Handed(r)'
    PROVE  Handed(r)
<1>1. Table' /\ RowsMove
  BY TableMoves DEF FiberInv
<1>2. CASE World
  <2>1. \A g \in Fibers : fiber'[g].at \in Dispatching => fiber'[g] = fiber[g]
    BY <1>2, IdleFacts DEF World, Dispatching
  <2> QED
    BY <1>2, <2>1 DEF World, Handed, Launched
<1>3. ASSUME NEW f \in Fibers, NEW y, Hop(f, y)
      PROVE  Handed(r)
  <2>1. \A g \in Fibers : fiber'[g] = IF g = f THEN y ELSE fiber[g]
    BY <1>3 DEF FiberInv, FiberTable, Hop, Becomes
  <2>2. r # 0
    BY DEF FiberInv, Table
  <2>3. y.at \in Dispatching /\ y.run = r => fiber[f].at \in Dispatching /\ fiber[f].run = r
    BY <1>3, <2>2 DEF Hop
  <2>4. turn'[r] # "none" => turn[r] # "none" \/ (fiber[f].at = "launching" /\ fiber[f].run = r)
    BY <1>3 DEF Hop, TurnsMove
  <2>5. "launching" \in Dispatching
    BY DEF Dispatching
  <2> QED
    BY <2>1, <2>3, <2>4, <2>5 DEF Handed, Launched
<1> QED
  BY <1>1, <1>2, <1>3, EveryStep DEF Hops

\* A run that loses its fiber before its launch is never handed on.
LEMMA LostInAdvance ==
    ASSUME FiberInv, CrashNoted, [Next]_vars, NEW r \in DOMAIN runs, NEW g \in Fibers,
           fiber[g].at = "advancing", fiber[g].run = r, fiber'[g].at \notin Dispatching
    PROVE  ~Handed(r)'
<1>1. Table' /\ RowsMove
  BY TableMoves DEF FiberInv
<1>2. r # 0 /\ {"advancing", "launching"} \subseteq Dispatching
  BY DEF FiberInv, Table, Dispatching
<1>3. turn[r] = "none"
  BY <1>2 DEF FiberInv, Claims, Claim
<1>4. \A h \in Fibers : h # g /\ fiber[h].at \in Dispatching => fiber[h].run # r
  BY <1>2 DEF FiberInv, Alone
<1>5. CASE World
  <2>1. \A h \in Fibers : fiber'[h].at \in Dispatching => fiber'[h] = fiber[h]
    BY <1>5, IdleFacts DEF World, Dispatching
  <2> QED
    BY <1>3, <1>4, <1>5, <2>1 DEF World, Handed, Launched
<1>6. ASSUME NEW f \in Fibers, NEW y, Hop(f, y)
      PROVE  ~Handed(r)'
  <2>1. \A h \in Fibers : fiber'[h] = IF h = f THEN y ELSE fiber[h]
    BY <1>6 DEF FiberInv, FiberTable, Hop, Becomes
  <2>2. y.at \in Dispatching /\ y.run = r => fiber[f].at \in Dispatching /\ fiber[f].run = r
    BY <1>2, <1>6 DEF Hop
  <2>3. turn'[r] = "none"
    BY <1>2, <1>3, <1>4, <1>6 DEF Hop, TurnsMove
  <2>4. ASSUME NEW h \in Fibers, fiber'[h].at \in Dispatching, fiber'[h].run = r
        PROVE  FALSE
    BY <1>4, <2>1, <2>2, <2>4
  <2> QED
    BY <2>3, <2>4 DEF Handed, Launched
<1> QED
  BY <1>1, <1>5, <1>6, EveryStep DEF Hops

LEMMA PlanningIsPass ==
    ASSUME Courses, OfPass, NEW f \in Fibers, Planning(f, fiber[f]) \/ Onward(fiber[f])
    PROVE  f[2] = "scheduler" /\ fiber[f].time # 0 /\ f[1] \in up
<1>1. Course(f)
  BY DEF Courses
<1> QED
  BY <1>1 DEF OfPass, Onward, Course, Passing, Planning, Ahead, Asked

\* There is one pass at a time.
LEMMA OnlyPass ==
    ASSUME Courses, OfPass, ~overlapped, NEW f \in Fibers, NEW g \in Fibers,
           Planning(f, fiber[f]) \/ Onward(fiber[f]), g[2] = "scheduler", fiber[g].time # 0
    PROVE  g = f
BY PlanningIsPass DEF Courses, OnePass

\* A time that comes is after the pass.
LEMMA NextIsLater ==
    ASSUME NEW slot \in Nat, NEW time \in Nat, slot <= time
    PROVE  NextAfter(slot, time) = 0 \/ NextAfter(slot, time) > time
<1>1. PICK n \in Nat \ {0} : n = Every
  BY TimesAssumption
<1>2. CASE plan.schedule = "once"
  BY <1>2 DEF NextAfter
<1>3. CASE plan.schedule # "once" /\ slot + n > time
  <2>1. NextAfter(slot, time) = slot + n
    BY <1>1, <1>3 DEF NextAfter
  <2> QED
    BY <1>3, <2>1
<1>4. CASE plan.schedule # "once" /\ ~(slot + n > time)
  <2>1. PICK d \in Nat : d = time - slot
    OBVIOUS
  <2>2. PICK k \in Nat : k = d \div n
    BY <1>1
  <2>3. d < n * (k + 1)
    BY <1>1, <2>1, <2>2
  <2>4. NextAfter(slot, time) = slot + n * (k + 1)
    BY <1>1, <1>4, <2>1, <2>2 DEF NextAfter
  <2>5. PICK m \in Nat : m = n * (k + 1)
    BY <1>1
  <2> QED
    BY <2>1, <2>3, <2>4, <2>5
<1> QED
  BY <1>1, <1>2, <1>3, <1>4

-----------------------------------------------------------------------------------
\* Each part of the order outlives a step.

LEMMA SchedulesTo ==
    ASSUME FiberInv, NEW f \in Fibers, NEW y, Schedules(f, y)
    PROVE  fiber'[f] = y /\ \A g \in Fibers \ {f} : fiber'[g] = fiber[g]
BY OthersStay DEF FiberInv, Schedules

LEMMA PlannedStays ==
    ASSUME Table, Table', RowsMove
    PROVE  /\ DOMAIN planned = DOMAIN runs /\ DOMAIN planned' = DOMAIN runs'
           /\ \A r \in DOMAIN planned : r \in DOMAIN planned' /\ planned'[r] = planned[r]
           /\ \A r, q \in DOMAIN planned' \ DOMAIN planned : r = q
<1>1. DOMAIN planned = DOMAIN runs /\ DOMAIN planned' = DOMAIN runs'
  BY DEF Table
<1> QED
  BY <1>1 DEF RowsMove

LEMMA OfPassStep ==
    ASSUME Typed, FiberInv, Courses, OfPass, ScheduleMove
    PROVE  OfPass'
<1>1. CASE Quiet
  BY <1>1 DEF Quiet, OfPass, Onward
<1>2. ASSUME NEW f \in Fibers, NEW y, Schedules(f, y)
      PROVE  OfPass'
  <2>1. fiber'[f] = y /\ \A g \in Fibers \ {f} : fiber'[g] = fiber[g]
    BY <1>2, SchedulesTo
  <2>2. Onward(y) => f[2] = "scheduler" /\ y.time # 0
    <3>1. CASE KeepsReading(f, y)
      BY <3>1, PlanningIsPass DEF KeepsReading
    <3>2. CASE BeginsPass(f, y)
      <4>1. clock \in Nat /\ def.next \in Nat
        BY ClockIs, RowsAre DEF Row
      <4> QED
        BY <3>2, <4>1 DEF BeginsPass
    <3>3. CASE BeginsCall(f, y)
      BY <3>3 DEF BeginsCall, Onward
    <3> QED
      BY <1>2, <3>1, <3>2, <3>3 DEF Schedules
  <2>3. ASSUME NEW g \in Fibers, Onward(fiber'[g])
        PROVE  g[2] = "scheduler" /\ fiber'[g].time # 0
    BY <2>1, <2>2, <2>3 DEF OfPass
  <2> QED
    BY <2>3 DEF OfPass, Onward
<1> QED
  BY <1>1, <1>2 DEF ScheduleMove

LEMMA OneCallStep ==
    ASSUME FiberInv, Courses, OneCall, ScheduleMove
    PROVE  OneCall'
<1>1. CASE Quiet
  BY <1>1 DEF Quiet, OneCall, ByUser, Asked
<1>2. ASSUME NEW f \in Fibers, NEW y, Schedules(f, y)
      PROVE  OneCall'
  <2>1. fiber'[f] = y /\ \A g \in Fibers \ {f} : fiber'[g] = fiber[g]
    BY <1>2, SchedulesTo
  <2>2. ASSUME NEW g \in Fibers \ {f}, ByUser(g, fiber[g]), ByUser(f, y)
        PROVE  FALSE
    <3>1. "runNow" \in troubles
      BY <2>2 DEF Courses, Course
    <3>2. CASE KeepsReading(f, y)
      BY <2>2, <3>2 DEF KeepsReading, OneCall
    <3>3. CASE BeginsPass(f, y)
      BY <2>2, <3>3 DEF BeginsPass, ByUser, Ahead, Asked
    <3> QED
      BY <1>2, <3>1, <3>2, <3>3 DEF Schedules, BeginsCall
  <2>3. ASSUME NEW g \in Fibers, NEW h \in Fibers, ByUser(g, fiber'[g]), ByUser(h, fiber'[h])
        PROVE  g = h
    BY <2>1, <2>2, <2>3 DEF OneCall
  <2> QED
    BY <2>3 DEF OneCall, ByUser
<1> QED
  BY <1>1, <1>2 DEF ScheduleMove

LEMMA TimelyStep ==
    ASSUME Typed, Typed', FiberInv, Table', RowsMove, Courses, OfPass, Timely, Latest, Latest', ScheduleMove
    PROVE  Timely'
<1>0. clock \in Nat /\ clock' \in Nat
  BY ClockIs DEF Typed, Settings
<1>1. /\ \A r \in DOMAIN planned : r \in DOMAIN planned' /\ planned'[r] = planned[r]
  BY PlannedStays DEF FiberInv
<1>2. CASE Quiet
  <2>1. planned' = planned /\ clock <= clock'
    BY <1>2 DEF Quiet
  <2>2. \A r \in DOMAIN planned' : planned'[r] \in Nat /\ planned'[r] <= clock'
    BY <1>0, <2>1 DEF Timely
  <2>3. ASSUME NEW f \in Fibers, f[2] = "scheduler", fiber'[f].time # 0
        PROVE  /\ fiber'[f].time <= clock' /\ fiber'[f].def.next # 0
               /\ fiber'[f].def.next <= fiber'[f].time
               /\ \A r \in DOMAIN planned' : planned'[r] <= fiber'[f].time
    <3>1. fiber'[f] = fiber[f]
      BY <1>2, <2>3 DEF Quiet
    <3>2. fiber[f].time \in Nat
      BY FiberFacts
    <3> QED
      BY <1>0, <2>1, <2>3, <3>1, <3>2 DEF Timely
  <2> QED
    BY <2>2, <2>3 DEF Timely
<1>3. ASSUME NEW f \in Fibers, NEW y, Schedules(f, y)
      PROVE  Timely'
  <2>1. fiber'[f] = y /\ \A g \in Fibers \ {f} : fiber'[g] = fiber[g]
    BY <1>3, SchedulesTo
  <2>2. clock' = clock /\ NewOccurrences(f, y)
    BY <1>3 DEF Schedules
  <2>3. \A g \in Fibers : fiber[g].time \in Nat /\ fiber[g].def.next \in Nat
    BY FiberFacts DEF Row
  <2>4. ASSUME NEW r \in DOMAIN planned' \ DOMAIN planned, planned'[r] # 0
        PROVE  /\ f[2] = "scheduler" /\ fiber[f].time # 0 /\ Planning(f, fiber[f])
               /\ planned'[r] = fiber[f].def.next
    BY <2>2, <2>4, PlanningIsPass DEF NewOccurrences
  <2>5. \A r \in DOMAIN planned' : planned'[r] \in Nat /\ planned'[r] <= clock'
    <3>1. ASSUME NEW r \in DOMAIN planned' \ DOMAIN planned, planned'[r] # 0
          PROVE  planned'[r] \in Nat /\ planned'[r] <= clock
      BY <1>0, <2>3, <2>4, <3>1 DEF Timely
    <3>2. \A r \in DOMAIN planned' \ DOMAIN planned : planned'[r] \in Nat /\ planned'[r] <= clock
      BY <1>0, <3>1
    <3> QED
      BY <1>1, <2>2, <3>2 DEF Timely
  <2>6. ASSUME NEW g \in Fibers, g[2] = "scheduler", fiber'[g].time # 0
        PROVE  /\ fiber'[g].time <= clock /\ fiber'[g].def.next # 0
               /\ fiber'[g].def.next <= fiber'[g].time
               /\ \A r \in DOMAIN planned' : planned'[r] <= fiber'[g].time
    <3>1. CASE g # f
      <4>1. PICK t \in Nat : t = fiber[g].time /\ fiber'[g] = fiber[g]
        BY <2>1, <2>3, <3>1
      <4>2. \A r \in DOMAIN planned' \ DOMAIN planned : planned'[r] = 0
        BY <2>4, <2>6, <3>1, <4>1, OnlyPass DEF Latest
      <4>3. \A r \in DOMAIN planned' : planned'[r] <= t
        BY <1>1, <2>6, <4>1, <4>2 DEF Timely
      <4> QED
        BY <2>6, <4>1, <4>3 DEF Timely
    <3>2. CASE g = f /\ KeepsReading(f, y)
      <4>1. PICK t \in Nat : t = fiber[f].time /\ t = y.time /\ y.def = fiber[f].def /\ t # 0
        BY <2>1, <2>3, <2>6, <3>2 DEF KeepsReading
      <4>2. \A r \in DOMAIN planned' \ DOMAIN planned : planned'[r] <= t
        <5>1. fiber[f].def.next <= t
          BY <2>6, <3>2, <4>1 DEF Timely
        <5>2. \A r \in DOMAIN planned' \ DOMAIN planned :
                planned'[r] = 0 \/ planned'[r] = fiber[f].def.next
          BY <2>4
        <5> QED
          BY <5>1, <5>2
      <4>3. \A r \in DOMAIN planned' : planned'[r] <= t
        BY <1>1, <2>6, <3>2, <4>1, <4>2 DEF Timely
      <4> QED
        BY <2>1, <2>6, <3>2, <4>1, <4>3 DEF Timely
    <3>3. CASE g = f /\ BeginsPass(f, y)
      <4>1. fiber'[g].time = clock /\ fiber'[g].def = def /\ planned' = planned
        BY <2>1, <3>3 DEF BeginsPass
      <4> QED
        BY <1>0, <3>3, <4>1 DEF BeginsPass, Timely
    <3>4. CASE g = f /\ BeginsCall(f, y)
      BY <2>6, <3>4 DEF BeginsCall
    <3> QED
      BY <1>3, <3>1, <3>2, <3>3, <3>4 DEF Schedules
  <2> QED
    BY <2>2, <2>5, <2>6 DEF Timely
<1> QED
  BY <1>2, <1>3 DEF ScheduleMove

LEMMA RestartsStep ==
    ASSUME Typed, FiberInv, Table', RowsMove, Courses, OfPass, OneCall, Timely, Restarts, ScheduleMove
    PROVE  Restarts'
<1>1. \A r \in DOMAIN planned : r \in DOMAIN planned' /\ planned'[r] = planned[r]
  BY PlannedStays DEF FiberInv
<1>2. \A g \in Fibers : fiber[g].time \in Nat /\ fiber[g].def.next \in Nat
  BY FiberFacts DEF Row
<1>3. ASSUME plan' = plan,
             \A c \in Fibers : Restarting(c, fiber'[c]) =>
                /\ CapReached(def')
                /\ \A r \in DOMAIN planned' : planned'[r] <= fiber'[c].time
                /\ \A f \in Fibers : Planning(f, fiber'[f]) => fiber'[f].def.next <= fiber'[c].time
      PROVE  Restarts'
  BY <1>3 DEF Restarts, Restarting, CapReached, Planning
<1>4. CASE Quiet
  <2>1. \A c \in Fibers : Restarting(c, fiber'[c]) => fiber'[c] = fiber[c]
    BY <1>4 DEF Quiet, Restarting
  <2>2. \A f \in Fibers : Planning(f, fiber'[f]) => fiber'[f] = fiber[f]
    BY <1>4 DEF Quiet, Planning, Ahead
  <2> QED
    BY <1>3, <1>4, <2>1, <2>2 DEF Quiet, Restarts
<1>5. ASSUME NEW f \in Fibers, NEW y, Schedules(f, y)
      PROVE  Restarts'
  <2>1. fiber'[f] = y /\ \A g \in Fibers \ {f} : fiber'[g] = fiber[g]
    BY <1>5, SchedulesTo
  <2>2. plan' = plan /\ NewOccurrences(f, y) /\ NextPath(f)
    BY <1>5 DEF Schedules
  <2>3. ASSUME NEW c \in Fibers, Restarting(c, fiber'[c])
        PROVE  /\ CapReached(def')
               /\ \A r \in DOMAIN planned' : planned'[r] <= fiber'[c].time
               /\ \A g \in Fibers : Planning(g, fiber'[g]) => fiber'[g].def.next <= fiber'[c].time
    <3>1. CASE c # f
      <4>1. PICK t \in Nat : t = fiber[c].time /\ fiber'[c] = fiber[c] /\ Restarting(c, fiber[c])
        BY <1>2, <2>1, <2>3, <3>1
      <4>2. /\ CapReached(def) /\ \A r \in DOMAIN planned : planned[r] <= t
            /\ \A g \in Fibers : Planning(g, fiber[g]) => fiber[g].def.next <= t
        BY <4>1 DEF Restarts
      <4>3. fiber[f].at # "restarting"
        BY <3>1, <4>1 DEF OneCall, ByUser, Restarting, Asked
      <4>4. \A r \in DOMAIN planned' : planned'[r] <= t
        BY <1>1, <2>2, <4>2 DEF NewOccurrences
      <4>5. Planning(f, y) => y.def.next <= t
        <5>1. CASE KeepsReading(f, y)
          BY <4>2, <5>1 DEF KeepsReading
        <5>2. CASE BeginsPass(f, y)
          BY <4>2, <5>2 DEF BeginsPass, Planning, Ahead
        <5>3. CASE BeginsCall(f, y)
          BY <5>3 DEF BeginsCall, Planning
        <5> QED
          BY <1>5, <5>1, <5>2, <5>3 DEF Schedules
      <4>6. \A g \in Fibers : Planning(g, fiber'[g]) => fiber'[g].def.next <= t
        BY <2>1, <4>2, <4>5
      <4> QED
        BY <2>2, <4>1, <4>2, <4>3, <4>4, <4>6 DEF NextPath
    <3>2. CASE c = f
      <4>0. f[2] = "caller" /\ Restarting(f, y)
        BY <2>1, <2>3, <3>2 DEF Restarting
      <4>1. \A g \in Fibers : Planning(g, fiber'[g]) => Planning(g, fiber[g]) /\ fiber'[g] = fiber[g]
        BY <2>1, <4>0 DEF Planning
      <4>2. \A r \in DOMAIN planned' \ DOMAIN planned : planned'[r] = 0
        BY <2>2, <4>0 DEF NewOccurrences, Planning
      <4>3. CASE KeepsReading(f, y)
        <5>1. PICK t \in Nat : t = fiber[f].time /\ t = y.time /\ y.def = fiber[f].def
                               /\ fiber[f].at \in {"counting", "checking"}
          BY <1>2, <4>0, <4>3 DEF KeepsReading
        <5>2. Restarting(f, fiber[f])
          BY <4>0, <5>1 DEF Restarting
        <5>3. /\ CapReached(def) /\ \A r \in DOMAIN planned : planned[r] <= t
              /\ \A g \in Fibers : Planning(g, fiber[g]) => fiber[g].def.next <= t
          BY <5>1, <5>2 DEF Restarts
        <5>4. \A r \in DOMAIN planned' : planned'[r] <= t
          BY <1>1, <4>2, <5>3
        <5>5. CapReached(def')
          BY <2>2, <5>1, <5>3 DEF NextPath
        <5> QED
          BY <2>1, <3>2, <4>1, <5>1, <5>3, <5>4, <5>5
      <4>4. CASE BeginsCall(f, y)
        <5>1. y.time = clock /\ y.def = def /\ planned' = planned /\ fiber[f].at = "idle"
          BY <4>4 DEF BeginsCall
        <5>2. CapReached(def')
          BY <2>2, <4>0, <5>1 DEF NextPath, Restarting
        <5>3. \A g \in Fibers : Planning(g, fiber[g]) => fiber[g].def.next <= clock
          <6>1. ASSUME NEW g \in Fibers, Planning(g, fiber[g])
                PROVE  fiber[g].def.next <= clock
            <7>1. g[2] = "scheduler" /\ fiber[g].time # 0
              BY <6>1, PlanningIsPass
            <7>2. fiber[g].time <= clock /\ fiber[g].def.next <= fiber[g].time
              BY <7>1 DEF Timely
            <7> QED
              BY <1>2, <7>2, ClockIs
          <6> QED
            BY <6>1
        <5> QED
          BY <2>1, <3>2, <4>1, <5>1, <5>2, <5>3 DEF Timely
      <4>5. CASE BeginsPass(f, y)
        BY <4>0, <4>5 DEF BeginsPass
      <4> QED
        BY <1>5, <4>3, <4>4, <4>5 DEF Schedules
    <3> QED
      BY <3>1, <3>2
  <2> QED
    BY <1>3, <2>2, <2>3
<1> QED
  BY <1>4, <1>5 DEF ScheduleMove

LEMMA NotYetStep ==
    ASSUME Typed, FiberInv, CrashNoted, [Next]_vars, Courses, OfPass, Timely, NotYet, Moved,
           Latest, Latest', ScheduleMove
    PROVE  NotYet'
<1>0. Table' /\ RowsMove
  BY TableMoves DEF FiberInv
<1>1. /\ DOMAIN planned = DOMAIN runs
      /\ \A r \in DOMAIN planned : r \in DOMAIN planned' /\ planned'[r] = planned[r]
  BY <1>0, PlannedStays DEF FiberInv
<1>2. \A r \in DOMAIN planned : Handed(r)' => Handed(r)
  BY <1>1, HandedStays
<1>3. ASSUME \A g \in Fibers : Planning(g, fiber'[g]) =>
                \A r \in DOMAIN planned' : planned'[r] = fiber'[g].def.next => ~Handed(r)'
      PROVE  NotYet'
  BY <1>3 DEF NotYet, Planning
<1>4. CASE Quiet
  <2>1. \A f \in Fibers : Planning(f, fiber'[f]) => fiber'[f] = fiber[f]
    BY <1>4 DEF Quiet, Planning, Ahead
  <2>2. planned' = planned
    BY <1>4 DEF Quiet
  <2> QED
    BY <1>2, <1>3, <2>1, <2>2 DEF NotYet
<1>5. ASSUME NEW f \in Fibers, NEW y, Schedules(f, y)
      PROVE  NotYet'
  <2>1. fiber'[f] = y /\ \A g \in Fibers \ {f} : fiber'[g] = fiber[g]
    BY <1>5, SchedulesTo
  <2>2. NewOccurrences(f, y)
    BY <1>5 DEF Schedules
  <2>3. ASSUME NEW g \in Fibers, Planning(g, fiber'[g]), Planning(g, fiber[g]),
               fiber'[g].def = fiber[g].def, NEW r \in DOMAIN planned', planned'[r] = fiber'[g].def.next
        PROVE  ~Handed(r)'
    <3>1. CASE r \in DOMAIN planned
      BY <1>1, <1>2, <2>3, <3>1 DEF NotYet
    <3>2. CASE r \notin DOMAIN planned
      <4>1. fiber[g].def.next # 0
        BY <2>3, PlanningIsPass DEF Timely
      <4>2. Planning(f, fiber[f]) /\ y.at \in {"skipping", "advancing"}
        BY <2>2, <2>3, <3>2, <4>1 DEF NewOccurrences
      <4>3. g = f
        BY <2>3, <4>2, PlanningIsPass, OnlyPass DEF Latest
      <4> QED
        BY <2>1, <2>3, <4>2, <4>3 DEF Planning, Ahead
    <3> QED
      BY <3>1, <3>2
  <2>4. ASSUME NEW g \in Fibers, Planning(g, fiber'[g]), NEW r \in DOMAIN planned',
               planned'[r] = fiber'[g].def.next
        PROVE  ~Handed(r)'
    <3>1. CASE g # f
      BY <2>1, <2>3, <2>4, <3>1
    <3>2. CASE g = f /\ KeepsReading(f, y)
      BY <2>1, <2>3, <2>4, <3>2 DEF KeepsReading
    <3>3. CASE g = f /\ BeginsPass(f, y)
      <4>1. y.def = def /\ planned' = planned /\ def.next # 0 /\ fiber[f].at = "idle" /\ f[2] = "scheduler"
            /\ \A o \in up \ {f[1]} : fiber[<<o, "scheduler">>].time = 0
        BY <3>3 DEF BeginsPass, Latest
      <4>2. SUFFICES ASSUME Handed(r)
                     PROVE  FALSE
        BY <1>2, <2>4, <4>1
      <4>3. PICK h \in Fibers : h[2] = "scheduler" /\ fiber[h].at = "advancing"
        BY <2>1, <2>4, <3>3, <4>1, <4>2 DEF Moved
      <4>4. fiber[h].time # 0 /\ h[1] \in up
        BY <4>3, PlanningIsPass DEF Onward
      <4>5. h = <<h[1], "scheduler">> /\ f = <<f[1], "scheduler">>
        BY <4>1, <4>3 DEF Fibers
      <4> QED
        BY <4>1, <4>3, <4>4, <4>5
    <3>4. CASE g = f /\ BeginsCall(f, y)
      BY <2>4, <3>4 DEF BeginsCall, Planning
    <3> QED
      BY <1>5, <3>1, <3>2, <3>3, <3>4 DEF Schedules
  <2> QED
    BY <1>3, <2>4
<1> QED
  BY <1>4, <1>5 DEF ScheduleMove

LEMMA MovedStep ==
    ASSUME Typed, FiberInv, CrashNoted, [Next]_vars, Courses, OfPass, Timely, Restarts, Moved,
           Latest, Latest', ScheduleMove
    PROVE  Moved'
<1>0. Table' /\ RowsMove
  BY TableMoves DEF FiberInv
<1>1. /\ DOMAIN planned = DOMAIN runs
      /\ \A r \in DOMAIN planned : r \in DOMAIN planned' /\ planned'[r] = planned[r]
  BY <1>0, PlannedStays DEF FiberInv
<1> SUFFICES ASSUME def'.next # 0, NEW r \in DOMAIN planned', planned'[r] = def'.next, Handed(r)'
             PROVE  \E g \in Fibers : g[2] = "scheduler" /\ fiber'[g].at = "advancing" /\ fiber'[g].run = r
  BY DEF Moved
<1>2. r \in DOMAIN planned => Handed(r)
  BY <1>1, HandedStays
<1>3. \A g \in Fibers : fiber[g].time \in Nat /\ fiber[g].def.next \in Nat
  BY FiberFacts DEF Row
<1>4. CASE Quiet
  <2>1. def' = def /\ planned' = planned
    BY <1>4 DEF Quiet
  <2>2. PICK g \in Fibers : g[2] = "scheduler" /\ fiber[g].at = "advancing" /\ fiber[g].run = r
    BY <1>2, <2>1 DEF Moved
  <2>3. fiber'[g] = fiber[g] \/ fiber'[g].at \notin Dispatching
    BY <1>4 DEF Quiet, Dispatching
  <2> QED
    BY <1>1, <2>1, <2>2, <2>3, LostInAdvance
<1>5. ASSUME NEW f \in Fibers, NEW y, Schedules(f, y)
      PROVE  \E g \in Fibers : g[2] = "scheduler" /\ fiber'[g].at = "advancing" /\ fiber'[g].run = r
  <2>1. fiber'[f] = y /\ \A g \in Fibers \ {f} : fiber'[g] = fiber[g]
    BY <1>5, SchedulesTo
  <2>2. NewOccurrences(f, y) /\ NextPath(f)
    BY <1>5 DEF Schedules
  <2>3. CASE fiber[f].at = "advancing"
    <3>1. f[2] = "scheduler" /\ fiber[f].time # 0 /\ ~Planning(f, fiber[f])
      BY <2>3, PlanningIsPass DEF Onward, Planning, Ahead
    <3>2. PICK t \in Nat, slot \in Nat : t = fiber[f].time /\ slot <= t /\ def'.next = NextAfter(slot, t)
      <4>1. PICK slot \in {fiber[f].time, fiber[f].def.next} : def'.next = NextAfter(slot, fiber[f].time)
        BY <2>2, <2>3 DEF NextPath
      <4>2. slot \in Nat /\ slot <= fiber[f].time
        BY <1>3, <3>1, <4>1 DEF Timely
      <4> QED
        BY <1>3, <4>1, <4>2
    <3>3. def'.next > t
      BY <3>2, NextIsLater
    <3>4. planned'[r] <= t
      <4>1. CASE r \in DOMAIN planned
        BY <1>1, <3>1, <3>2, <4>1 DEF Timely
      <4>2. CASE r \notin DOMAIN planned
        BY <2>2, <3>1, <4>2 DEF NewOccurrences
      <4> QED
        BY <4>1, <4>2
    <3>5. def'.next \in Nat
      BY <3>2, TimesAre
    <3> QED
      BY <3>2, <3>3, <3>4, <3>5
  <2>4. CASE fiber[f].at = "restarting" /\ CapReached(fiber[f].def) /\ def'.next = fiber[f].time + Every
    <3>1. f[2] = "caller"
      BY <2>4 DEF Courses, Course, Passing, Asked
    <3>2. \A q \in DOMAIN planned : planned[q] <= fiber[f].time
      BY <2>4, <3>1 DEF Restarts, Restarting
    <3>3. PICK t \in Nat, n \in Nat \ {0} : t = fiber[f].time /\ n = Every
      BY <1>3, TimesAssumption
    <3>4. r \in DOMAIN planned
      BY <2>2, <3>1 DEF NewOccurrences, Planning
    <3>5. planned'[r] <= t /\ planned'[r] = t + n
      BY <1>1, <2>4, <3>2, <3>3, <3>4
    <3> QED
      BY <3>5
  <2>5. CASE fiber[f].at \notin {"advancing", "saving"} /\ def'.next = def.next
    <3>1. CASE r \in DOMAIN planned
      <4>1. PICK g \in Fibers : g[2] = "scheduler" /\ fiber[g].at = "advancing" /\ fiber[g].run = r
        BY <1>1, <1>2, <2>5, <3>1 DEF Moved
      <4>2. g # f
        BY <2>5, <4>1
      <4> QED
        BY <2>1, <4>1, <4>2
    <3>2. CASE r \notin DOMAIN planned
      <4>1. /\ Planning(f, fiber[f]) /\ turn'[r] = "none"
            /\ y.at = "skipping" \/ (y.at = "advancing" /\ y.run = r)
        BY <2>2, <3>2 DEF NewOccurrences
      <4>2. CASE y.at = "advancing" /\ y.run = r
        BY <2>1, <4>1, <4>2 DEF Planning
      <4>3. CASE y.at = "skipping"
        <5>1. PICK h \in Fibers : fiber'[h].at \in Dispatching /\ fiber'[h].run = r
          BY <4>1 DEF Handed, Launched
        <5>2. h # f
          BY <2>1, <4>3, <5>1 DEF Dispatching
        <5>3. fiber[h].at \in Dispatching /\ fiber[h].run = r
          BY <2>1, <5>1, <5>2
        <5>4. r # 0
          BY <1>0, PlannedStays DEF Table, FiberInv
        <5> QED
          BY <1>1, <3>2, <5>3, <5>4 DEF FiberInv, Claims, Claim
      <4> QED
        BY <4>1, <4>2, <4>3
    <3> QED
      BY <3>1, <3>2
  <2>6. fiber[f].at # "saving"
    BY DEF Courses, Course, Latest
  <2> QED
    BY <2>2, <2>3, <2>4, <2>5, <2>6 DEF NextPath
<1> QED
  BY <1>4, <1>5 DEF ScheduleMove

LEMMA HandedOnceStep ==
    ASSUME FiberInv, CrashNoted, [Next]_vars, NotYet, HandedOnce, ScheduleMove
    PROVE  HandedOnce'
<1>0. Table' /\ RowsMove
  BY TableMoves DEF FiberInv
<1>1. /\ DOMAIN planned = DOMAIN runs
      /\ \A r \in DOMAIN planned : r \in DOMAIN planned' /\ planned'[r] = planned[r]
      /\ \A r, q \in DOMAIN planned' \ DOMAIN planned : r = q
  BY <1>0, PlannedStays DEF FiberInv
<1>2. \A r \in DOMAIN planned : Handed(r)' => Handed(r)
  BY <1>1, HandedStays
<1>3. ASSUME NEW r \in DOMAIN planned' \ DOMAIN planned, planned'[r] # 0,
             NEW q \in DOMAIN planned, planned[q] = planned'[r]
      PROVE  ~Handed(q)
  <2>1. PICK f \in Fibers : \E y : Schedules(f, y)
    BY <1>3 DEF ScheduleMove, Quiet
  <2>2. Planning(f, fiber[f]) /\ planned'[r] = fiber[f].def.next
    BY <1>3, <2>1 DEF Schedules, NewOccurrences
  <2> QED
    BY <1>3, <2>2 DEF NotYet
<1>4. ASSUME NEW r \in DOMAIN planned', NEW q \in DOMAIN planned', r # q,
             planned'[r] = planned'[q], planned'[r] # 0
      PROVE  ~Handed(r)' \/ ~Handed(q)'
  <2>1. CASE r \in DOMAIN planned /\ q \in DOMAIN planned
    BY <1>1, <1>2, <1>4, <2>1 DEF HandedOnce
  <2>2. CASE r \notin DOMAIN planned
    BY <1>1, <1>2, <1>3, <1>4, <2>2
  <2>3. CASE q \notin DOMAIN planned
    BY <1>1, <1>2, <1>3, <1>4, <2>3
  <2> QED
    BY <2>1, <2>2, <2>3
<1> QED
  BY <1>4 DEF HandedOnce

-----------------------------------------------------------------------------------
\* What each action does to the schedule.

Scheduled(f) == \E y : Schedules(f, y)

\* Where nothing of a pass or a call is to come.
Elsewhere == {"idle", "booting", "capped", "incrementing", "starting", "treeCheck", "makingTree",
              "threadCheck", "creatingThread", "lastCheck", "launching", "failing", "settling",
              "stopping", "cancelling", "cancelled", "saving", "reading", "marking", "retiring",
              "evaluating", "matching", "recording"}

LEMMA AsideSchedules ==
    ASSUME NEW f, NEW y, Becomes(f, y),
           y.at \in Elsewhere \/ (y.at = "result" /\ y.note # "skipped"),
           f[2] = "scheduler" /\ y.time # 0 => y.time = fiber[f].time /\ y.def = fiber[f].def,
           UNCHANGED <<clock, plan, planned>>, NextPath(f)
    PROVE  Scheduled(f)
<1>1. y.at \notin Ahead \cup Asked \cup {"skipping", "advancing"} /\ ~Onward(y)
  BY DEF Elsewhere, Ahead, Asked, Onward
<1>2. KeepsReading(f, y)
  BY <1>1 DEF KeepsReading, Planning, ByUser, Restarting, Asked
<1> QED
  BY <1>2 DEF Scheduled, Schedules, NewOccurrences

LEMMA SameNext ==
    ASSUME NEW f, def' = def, fiber[f].at # "advancing"
    PROVE  NextPath(f)
BY DEF NextPath

LEMMA OffNext ==
    ASSUME Typed, NEW f, WriteDef(Disabled), fiber[f].at # "advancing"
    PROVE  NextPath(f)
<1>1. PICK row : row = Disabled
  OBVIOUS
<1>2. row.next = 0 /\ row.count = def.count
  BY <1>1, RowsAre DEF Disabled, Row
<1>3. def' = row
  BY <1>1 DEF WriteDef
<1> QED
  BY <1>2, <1>3 DEF NextPath, CapReached

LEMMA RestAside ==
    ASSUME FiberInv, NEW f \in Fibers, Rest(f), UNCHANGED <<clock, plan, planned>>, NextPath(f)
    PROVE  Scheduled(f)
<1>1. PICK y : Becomes(f, y) /\ y.at = "idle" /\ y.time = 0
  BY RestsWith DEF FiberInv
<1> QED
  BY <1>1, AsideSchedules DEF Elsewhere

LEMMA GoAside ==
    ASSUME FiberInv, NEW f \in Fibers, NEW at1 \in Elsewhere, Goes(f, at1),
           UNCHANGED <<clock, plan, planned>>, NextPath(f)
    PROVE  Scheduled(f)
<1>1. PICK y : Becomes(f, y) /\ y.at = at1 /\ y.def = fiber[f].def /\ y.time = fiber[f].time
  BY GoesTo DEF FiberInv
<1> QED
  BY <1>1, AsideSchedules

LEMMA GoWithAside ==
    ASSUME FiberInv, NEW f \in Fibers, NEW at1, NEW note1, GoesWith(f, at1, note1),
           at1 \in Elsewhere \/ (at1 = "result" /\ note1 # "skipped"),
           UNCHANGED <<clock, plan, planned>>, NextPath(f)
    PROVE  Scheduled(f)
<1>1. PICK y : /\ Becomes(f, y) /\ y.at = at1 /\ y.note = note1
               /\ y.def = fiber[f].def /\ y.time = fiber[f].time
  BY GoesWithTo DEF FiberInv
<1> QED
  BY <1>1, AsideSchedules

LEMMA GoForAside ==
    ASSUME FiberInv, NEW f \in Fibers, NEW at1 \in Elsewhere, NEW run1, GoesFor(f, at1, run1),
           UNCHANGED <<clock, plan, planned>>, NextPath(f)
    PROVE  Scheduled(f)
<1>1. PICK y : Becomes(f, y) /\ y.at = at1 /\ y.def = fiber[f].def /\ y.time = fiber[f].time
  BY GoesForTo DEF FiberInv
<1> QED
  BY <1>1, AsideSchedules

\* The row of a run that is created, if any is.
LEMMA CreateAdds ==
    ASSUME FiberInv, NEW trigger, NEW slot, NEW thread, NEW occurrence,
           CreateRun(trigger, slot, thread, occurrence)
    PROVE  \/ runs' = runs /\ planned' = planned
           \/ /\ runs' # runs /\ DOMAIN planned' = DOMAIN planned \cup {Len(runs')}
              /\ planned'[Len(runs')] = occurrence /\ turn'[Len(runs')] = "none"
<1>1. CASE Inserts(trigger, slot, thread)
  <2>1. PICK V : runs \in Seq(V)
    BY DEF FiberInv, Table
  <2>2. PICK W : planned \in Seq(W)
    BY DEF FiberInv, Table
  <2>3. turn \in Seq(TurnStates)
    BY DEF FiberInv, TurnsTable
  <2>4. PICK n \in Nat : n = Len(runs) /\ n = Len(planned) /\ n = Len(turn)
    BY <2>1 DEF FiberInv, Table, TurnsTable
  <2>5. PICK row : runs' = Append(runs, row)
    BY <1>1 DEF CreateRun
  <2>6. planned' = Append(planned, occurrence) /\ turn' = Append(turn, "none")
    BY <1>1 DEF CreateRun
  <2>11. Len(Append(runs, row)) = Len(runs) + 1
    BY <2>1, AppendFacts
  <2>7. Len(runs') = n + 1
    BY <2>4, <2>5, <2>11
  <2>12. DOMAIN Append(planned, occurrence) = DOMAIN planned \cup {Len(planned) + 1}
    BY <2>2, AppendFacts
  <2>13. Append(planned, occurrence)[Len(planned) + 1] = occurrence
    BY <2>2, AppendFacts
  <2>8. DOMAIN planned' = DOMAIN planned \cup {n + 1} /\ planned'[n + 1] = occurrence
    BY <2>4, <2>6, <2>12, <2>13
  <2>9. turn'[n + 1] = "none"
    BY <2>3, <2>4, <2>6, AppendFacts
  <2>14. Append(runs, row) # runs
    BY <2>4, <2>11
  <2>10. runs' # runs
    BY <2>5, <2>14
  <2> QED
    BY <2>7, <2>8, <2>9, <2>10
<1>2. CASE ~Inserts(trigger, slot, thread)
  BY <1>2 DEF CreateRun
<1> QED
  BY <1>1, <1>2

\* A pass or a call that goes on to its run.
LEMMA AskedSchedules ==
    ASSUME NEW f \in Fibers, Passing(f), NEW y, Becomes(f, y), fiber[f].at \in Asked,
           y.at \in {"checking", "restarting", "creating"} \/ (y.at = "missing" /\ f[2] # "caller"),
           y.at = "checking" => fiber[f].at = "counting",
           y.at = "restarting" => fiber[f].at = "checking" /\ f[2] = "caller",
           y.def = fiber[f].def, y.time = fiber[f].time,
           f[2] = "scheduler" => fiber[f].at \in Ahead,
           UNCHANGED <<clock, plan, planned>>, NextPath(f)
    PROVE  Scheduled(f)
<1>1. f[2] # "caller" => f[2] = "scheduler"
  BY DEF Passing
<1>2. Planning(f, y) => Planning(f, fiber[f])
  BY DEF Planning
<1>3. Onward(y) => Planning(f, fiber[f])
  BY <1>1 DEF Onward, Planning
<1>4. ByUser(f, y) => ByUser(f, fiber[f])
  BY DEF ByUser
<1>5. Restarting(f, y) => fiber[f].at \in {"counting", "checking"}
  BY DEF Restarting
<1>6. KeepsReading(f, y)
  BY <1>2, <1>3, <1>4, <1>5 DEF KeepsReading
<1> QED
  BY <1>6 DEF Scheduled, Schedules, NewOccurrences

LEMMA PassSchedules ==
    ASSUME Typed, FiberInv, Courses, OfPass, NEW f \in Fibers, Pass(f)
    PROVE  Scheduled(f)
<1>p. Passing(f)
  BY DEF Courses, Course
<1>0. {"incrementing", "starting"} \subseteq Elsewhere
  BY DEF Elsewhere
<1>1. CASE DisableCapped(f)
  <2>1. /\ Rest(f) /\ UNCHANGED <<clock, plan, planned>> /\ WriteDef(Disabled) /\ fiber[f].at = "capped"
    BY <1>1 DEF DisableCapped, At, rows, scheduling
  <2> QED
    BY <2>1, OffNext, RestAside
<1>2. CASE CountActive(f)
  <2>1. /\ UNCHANGED <<clock, plan, planned>> /\ def' = def /\ fiber[f].at = "counting"
    BY <1>2 DEF CountActive, At, rows, scheduling, definition
  <2>2. PICK note : GoesWith(f, "checking", note)
    BY <1>2 DEF CountActive
  <2>3. PICK y : Becomes(f, y) /\ y.at = "checking" /\ y.def = fiber[f].def /\ y.time = fiber[f].time
    BY <2>2, GoesWithTo DEF FiberInv
  <2>4. fiber[f].at \in Asked /\ fiber[f].at \in Ahead
    BY <2>1 DEF Asked, Ahead
  <2> QED
    BY <1>p, <2>1, <2>3, <2>4, SameNext, AskedSchedules
<1>3. CASE CheckPending(f)
  <2>1. /\ UNCHANGED <<clock, plan, planned>> /\ def' = def /\ fiber[f].at = "checking"
    BY <1>3 DEF CheckPending, At, rows, scheduling, definition
  <2>2. NextPath(f) /\ fiber[f].at \in Asked /\ fiber[f].at \in Ahead
    BY <2>1, SameNext DEF Asked, Ahead
  <2>3. CASE Rest(f)
    BY <2>1, <2>2, <2>3, RestAside
  <2>4. ASSUME NEW at1 \in {"missing", "restarting", "creating"}, Goes(f, at1),
               at1 = "restarting" => f[2] = "caller", at1 = "missing" => f[2] # "caller"
        PROVE  Scheduled(f)
    <3>1. PICK y : Becomes(f, y) /\ y.at = at1 /\ y.def = fiber[f].def /\ y.time = fiber[f].time
      BY <2>4, GoesTo DEF FiberInv
    <3> QED
      BY <1>p, <2>1, <2>2, <2>4, <3>1, AskedSchedules
  <2>5. \/ Rest(f) \/ (Goes(f, "missing") /\ f[2] # "caller")
        \/ (Goes(f, "restarting") /\ f[2] = "caller") \/ Goes(f, "creating")
    BY <1>3 DEF CheckPending
  <2> QED
    BY <2>3, <2>4, <2>5
<1>4. CASE RecordMissed(f)
  <2>1. /\ UNCHANGED <<clock, plan>> /\ def' = def /\ fiber[f].at = "missing" /\ Onward(fiber[f])
    BY <1>4 DEF RecordMissed, At, scheduling, definition, Onward
  <2>2. NextPath(f) /\ Planning(f, fiber[f])
    BY <2>1, SameNext, PlanningIsPass DEF Planning, Ahead
  <2>3. CreateRun("scheduled", ScheduledFor(f), "none", fiber[f].def.next)
    BY <1>4 DEF RecordMissed
  <2>4. ASSUME NEW y, Becomes(f, y), y.at \in {"skipping", "advancing"}, y.def = fiber[f].def,
               y.time = fiber[f].time, NewOccurrences(f, y)
        PROVE  Scheduled(f)
    <3>1. KeepsReading(f, y)
      BY <2>1, <2>4 DEF KeepsReading, Planning, Ahead, ByUser, Asked, Restarting
    <3> QED
      BY <2>1, <2>2, <2>4, <3>1 DEF Scheduled, Schedules
  <2>5. CASE runs' = runs
    <3>1. Goes(f, "advancing") /\ planned' = planned
      BY <1>4, <2>3, <2>5, CreateAdds DEF RecordMissed
    <3>2. PICK y : Becomes(f, y) /\ y.at = "advancing" /\ y.def = fiber[f].def /\ y.time = fiber[f].time
      BY <3>1, GoesTo DEF FiberInv
    <3> QED
      BY <2>4, <3>1, <3>2 DEF NewOccurrences
  <2>6. CASE runs' # runs
    <3>1. GoesFor(f, "skipping", Len(runs'))
      BY <1>4, <2>6 DEF RecordMissed, GoesFor
    <3>2. PICK y : Becomes(f, y) /\ y.at = "skipping" /\ y.def = fiber[f].def /\ y.time = fiber[f].time
      BY <3>1, GoesForTo DEF FiberInv
    <3>3. NewOccurrences(f, y)
      BY <2>2, <2>3, <2>6, <3>2, CreateAdds DEF NewOccurrences
    <3> QED
      BY <2>4, <3>2, <3>3
  <2> QED
    BY <2>5, <2>6
<1>5. CASE MarkSkipped(f)
  <2>1. /\ UNCHANGED <<clock, plan, planned>> /\ def' = def /\ fiber[f].at = "skipping"
        /\ GoesWith(f, "result", "skipped")
    BY <1>5 DEF MarkSkipped, At, scheduling, definition
  <2>2. PICK y : /\ Becomes(f, y) /\ y.at = "result" /\ y.def = fiber[f].def /\ y.time = fiber[f].time
    BY <2>1, GoesWithTo DEF FiberInv
  <2>3. KeepsReading(f, y)
    BY <2>1, <2>2 DEF KeepsReading, Planning, Ahead, ByUser, Asked, Restarting, Onward
  <2> QED
    BY <2>1, <2>2, <2>3, SameNext DEF Scheduled, Schedules, NewOccurrences
<1>6. CASE CreateDue(f)
  <2>1. /\ UNCHANGED <<clock, plan>> /\ def' = def /\ fiber[f].at = "creating" /\ f[2] = "scheduler"
    BY <1>6 DEF CreateDue, At, scheduling, definition
  <2>2. CreateRun("scheduled", ScheduledFor(f), PlannedThread, fiber[f].def.next)
    BY <1>6 DEF CreateDue
  <2>3. PICK run : run = IF runs' # runs THEN Len(runs') ELSE 0
    OBVIOUS
  <2>4. GoesFor(f, "advancing", run)
    BY <1>6, <2>3 DEF CreateDue, GoesFor
  <2>5. PICK y : /\ Becomes(f, y) /\ y.at = "advancing" /\ y.run = run /\ y.def = fiber[f].def
                 /\ y.time = fiber[f].time
    BY <2>4, GoesForTo DEF FiberInv
  <2>6. Planning(f, fiber[f])
    BY <2>1 DEF Planning, Ahead
  <2>7. NewOccurrences(f, y)
    BY <2>2, <2>3, <2>5, <2>6, CreateAdds DEF NewOccurrences
  <2>8. KeepsReading(f, y)
    BY <2>5, <2>6 DEF KeepsReading, Planning, Ahead, ByUser, Asked, Restarting
  <2> QED
    BY <2>1, <2>5, <2>7, <2>8, SameNext DEF Scheduled, Schedules
<1>7. CASE Advance(f)
  <2>1. /\ UNCHANGED <<clock, plan, planned>> /\ fiber[f].at = "advancing"
        /\ (Rest(f) \/ Goes(f, "incrementing"))
    BY <1>7 DEF Advance, At, rows, scheduling
  <2>2. PICK slot \in {fiber[f].time, fiber[f].def.next} : slot = ScheduledFor(f)
    BY DEF ScheduledFor
  <2>3. PICK next : next = NextAfter(slot, fiber[f].time)
    OBVIOUS
  <2>4. WriteDef(IF next = 0 THEN Disabled ELSE [def EXCEPT !.next = next])
    BY <1>7, <2>2, <2>3 DEF Advance
  <2>5. def'.next = next /\ def'.count = def.count
    <3>1. PICK off, on : off = Disabled /\ on = [def EXCEPT !.next = next]
      OBVIOUS
    <3>2. off.next = 0 /\ off.count = def.count /\ on.next = next /\ on.count = def.count
      BY <3>1, RowsAre DEF Disabled, Row
    <3>3. def' = IF next = 0 THEN off ELSE on
      BY <2>4, <3>1 DEF WriteDef
    <3> QED
      BY <3>2, <3>3
  <2>6. NextPath(f)
    BY <2>1, <2>2, <2>3, <2>5 DEF NextPath, CapReached
  <2> QED
    BY <1>0, <2>1, <2>6, RestAside, GoAside
<1>8. CASE IncrementIterations(f)
  <2>1. /\ UNCHANGED <<clock, plan, planned>> /\ fiber[f].at = "incrementing" /\ Goes(f, "starting")
        /\ WriteDef([def EXCEPT !.count = @ + 1])
    BY <1>8 DEF IncrementIterations, At, rows, scheduling
  <2>2. PICK n \in Nat, cap \in Nat : n = def.count /\ cap = plan.cap
    BY RowsAre, PlansAssumption DEF Row, Typed, Settings, Plan
  <2>3. def'.next = def.next /\ def'.count = n + 1
    <3>1. PICK row : row = [def EXCEPT !.count = n + 1]
      OBVIOUS
    <3>2. row.next = def.next /\ row.count = n + 1
      BY <3>1, RowsAre DEF Row
    <3> QED
      BY <2>1, <2>2, <3>1, <3>2 DEF WriteDef
  <2>4. CapReached(def) => CapReached(def')
    BY <2>2, <2>3 DEF CapReached
  <2> QED
    BY <1>0, <2>1, <2>3, <2>4, GoAside DEF NextPath
<1> QED
  BY <1>1, <1>2, <1>3, <1>4, <1>5, <1>6, <1>7, <1>8 DEF Pass

LEMMA DispatchSchedules ==
    ASSUME FiberInv, NEW f \in Fibers, Dispatch(f) \/ DispatchFails(f)
    PROVE  Scheduled(f)
<1>0. {"failing", "makingTree", "threadCheck", "creatingThread", "lastCheck", "launching", "treeCheck"}
        \subseteq Elsewhere
  BY DEF Elsewhere
<1>1. UNCHANGED <<clock, plan, planned>> /\ def' = def /\ fiber[f].at # "advancing"
  BY DEF Dispatch, DispatchFails, MarkStarted, CheckBeforeTree, MakeTree, CheckBeforeThread,
         CreateThread, CheckBeforeTurn, Launch, At, rows, scheduling, definition
<1>2. NextPath(f)
  BY <1>1, SameNext
<1>3. \/ Rest(f)
      \/ \E at1 \in {"failing", "makingTree", "threadCheck", "creatingThread", "lastCheck",
                     "launching", "treeCheck"} : Goes(f, at1)
  <2>1. CASE MarkStarted(f)
    <3>1. AfterStart \in {"lastCheck", "treeCheck", "threadCheck"}
      BY DEF AfterStart
    <3>2. Goes(f, AfterStart) \/ Goes(f, "failing")
      BY <2>1 DEF MarkStarted
    <3> QED
      BY <3>1, <3>2
  <2>2. CASE DispatchFails(f)
    BY <2>2 DEF DispatchFails
  <2>3. CASE CheckBeforeTree(f) \/ MakeTree(f) \/ CheckBeforeThread(f)
    BY <2>3 DEF CheckBeforeTree, MakeTree, CheckBeforeThread
  <2>4. CASE CreateThread(f) \/ CheckBeforeTurn(f) \/ Launch(f)
    BY <2>4 DEF CreateThread, CheckBeforeTurn, Launch
  <2> QED
    BY <2>1, <2>2, <2>3, <2>4 DEF Dispatch
<1> QED
  BY <1>0, <1>1, <1>2, <1>3, RestAside, GoAside

LEMMA SettleSchedules ==
    ASSUME Typed, FiberInv, NEW f \in Fibers, Settle(f)
    PROVE  Scheduled(f)
<1>0. {"settling", "stopping"} \subseteq Elsewhere
  BY DEF Elsewhere
<1>1. CASE MarkFailed(f)
  <2>1. /\ UNCHANGED <<clock, plan, planned>> /\ def' = def /\ fiber[f].at = "failing"
        /\ (GoesWith(f, "result", "failed") \/ Rest(f))
    BY <1>1 DEF MarkFailed, At, scheduling, definition
  <2> QED
    BY <2>1, SameNext, GoWithAside, RestAside
<1>2. CASE WriteResult(f)
  <2>1. /\ UNCHANGED <<clock, plan, planned>> /\ def' = def /\ fiber[f].at = "result"
    BY <1>2 DEF WriteResult, At, scheduling, definition
  <2>2. NextPath(f)
    BY <2>1, SameNext
  <2>3. \/ Goes(f, "settling") \/ Rest(f)
        \/ /\ fiber[f].note = "skipped"
           /\ fiber' = [fiber EXCEPT ![f].at = "advancing", ![f].run = 0]
    BY <1>2 DEF WriteResult
  <2>4. CASE fiber[f].note = "skipped" /\ fiber' = [fiber EXCEPT ![f].at = "advancing", ![f].run = 0]
    <3>1. GoesFor(f, "advancing", 0)
      BY <2>4 DEF GoesFor
    <3>2. PICK y : Becomes(f, y) /\ y.at = "advancing" /\ y.def = fiber[f].def /\ y.time = fiber[f].time
      BY <3>1, GoesForTo DEF FiberInv
    <3>3. KeepsReading(f, y)
      BY <2>1, <2>4, <3>2 DEF KeepsReading, Planning, Ahead, ByUser, Asked, Restarting, Onward
    <3> QED
      BY <2>1, <2>2, <3>2, <3>3 DEF Scheduled, Schedules, NewOccurrences
  <2> QED
    BY <1>0, <2>1, <2>2, <2>3, <2>4, GoAside, RestAside
<1>3. CASE StopLoop(f)
  <2>1. /\ UNCHANGED <<clock, plan, planned>> /\ def' = def /\ fiber[f].at = "settling"
        /\ (Goes(f, "stopping") \/ Rest(f))
    BY <1>3 DEF StopLoop, At, rows, scheduling
  <2> QED
    BY <1>0, <2>1, SameNext, GoAside, RestAside
<1>4. CASE DisableStopped(f)
  <2>1. /\ UNCHANGED <<clock, plan, planned>> /\ Rest(f) /\ WriteDef(Disabled) /\ fiber[f].at = "stopping"
    BY <1>4 DEF DisableStopped, At, rows, scheduling
  <2> QED
    BY <2>1, OffNext, RestAside
<1> QED
  BY <1>1, <1>2, <1>3, <1>4 DEF Settle

LEMMA CallSchedules ==
    ASSUME Typed, FiberInv, Courses, NEW f \in Fibers, Call(f)
    PROVE  Scheduled(f)
<1>0. {"incrementing", "cancelled", "cancelling"} \subseteq Elsewhere
  BY DEF Elsewhere
<1>1. CASE RestartLoop(f)
  <2>1. /\ UNCHANGED <<clock, plan, planned>> /\ fiber[f].at = "restarting" /\ Goes(f, "creating")
        /\ fiber[f].at \in Asked
    BY <1>1 DEF RestartLoop, At, rows, scheduling, Asked
  <2>2. Passing(f) /\ f[2] = "caller"
    BY <2>1 DEF Courses, Course, Passing
  <2>3. PICK next : next = IF plan.schedule = "once" THEN 0 ELSE fiber[f].time + Every
    OBVIOUS
  <2>4. NextPath(f)
    <3>1. CASE CapReached(fiber[f].def)
      <4>1. PICK row : row = [def EXCEPT !.enabled = next # 0, !.count = 0, !.next = next]
        OBVIOUS
      <4>2. row.next = next
        BY <4>1, RowsAre DEF Row
      <4>3. def' = row
        BY <1>1, <2>3, <3>1, <4>1 DEF RestartLoop, WriteDef
      <4>4. def'.next = 0 \/ def'.next = fiber[f].time + Every
        BY <2>3, <4>2, <4>3
      <4> QED
        BY <2>1, <3>1, <4>4 DEF NextPath
    <3>2. CASE ~CapReached(fiber[f].def)
      BY <1>1, <2>1, <3>2, SameNext DEF RestartLoop, definition
    <3> QED
      BY <3>1, <3>2
  <2>5. PICK y : Becomes(f, y) /\ y.at = "creating" /\ y.def = fiber[f].def /\ y.time = fiber[f].time
    BY <2>1, GoesTo DEF FiberInv
  <2> QED
    BY <2>1, <2>2, <2>4, <2>5, AskedSchedules
<1>2. CASE CreateManual(f)
  <2>1. /\ UNCHANGED <<clock, plan>> /\ def' = def /\ fiber[f].at = "creating"
        /\ CreateRun("manual", fiber[f].time, PlannedThread, 0)
    BY <1>2 DEF CreateManual, At, scheduling, definition
  <2>2. NextPath(f)
    BY <2>1, SameNext
  <2>3. CASE runs' # runs
    <3>1. GoesFor(f, "incrementing", Len(runs'))
      BY <1>2, <2>3 DEF CreateManual, GoesFor
    <3>2. PICK y : Becomes(f, y) /\ y.at = "incrementing" /\ y.def = fiber[f].def /\ y.time = fiber[f].time
      BY <3>1, GoesForTo DEF FiberInv
    <3>3. NewOccurrences(f, y)
      BY <2>1, <2>3, CreateAdds DEF NewOccurrences
    <3>4. KeepsReading(f, y)
      BY <3>2 DEF KeepsReading, Planning, Ahead, ByUser, Asked, Restarting, Onward
    <3> QED
      BY <2>1, <2>2, <3>2, <3>3, <3>4 DEF Scheduled, Schedules
  <2>4. CASE runs' = runs
    <3>1. Rest(f) /\ planned' = planned
      BY <1>2, <2>1, <2>4, CreateAdds DEF CreateManual
    <3> QED
      BY <2>1, <2>2, <3>1, RestAside
  <2> QED
    BY <2>3, <2>4
<1>3. CASE CancelRun(f)
  <2>1. /\ UNCHANGED <<clock, plan, planned>> /\ def' = def /\ fiber[f].at = "cancelling"
    BY <1>3 DEF CancelRun, At, scheduling, definition
  <2>2. PICK r \in fiber[f].left :
            fiber' = [fiber EXCEPT ![f].left = @ \ {r}, ![f].run = r,
                        ![f].at = IF runs'[r].status = "cancelled" THEN "cancelled" ELSE @]
    BY <1>3 DEF CancelRun
  <2>3. PICK at1, left1 :
            /\ at1 = IF runs'[r].status = "cancelled" THEN "cancelled" ELSE fiber[f].at
            /\ left1 = fiber[f].left \ {r}
    OBVIOUS
  <2>4. GoesNext(f, left1, r, at1) /\ at1 \in Elsewhere
    BY <1>0, <2>1, <2>2, <2>3 DEF GoesNext
  <2>5. PICK y : Becomes(f, y) /\ y.at = at1 /\ y.def = fiber[f].def /\ y.time = fiber[f].time
    BY <2>4, GoesNextTo DEF FiberInv
  <2> QED
    BY <2>1, <2>4, <2>5, SameNext, AsideSchedules
<1>4. CASE WriteCancelled(f)
  <2>1. /\ UNCHANGED <<clock, plan, planned>> /\ def' = def /\ fiber[f].at = "cancelled"
        /\ Goes(f, "cancelling")
    BY <1>4 DEF WriteCancelled, At, scheduling, definition
  <2> QED
    BY <1>0, <2>1, SameNext, GoAside
<1>5. CASE EndCancelling(f)
  <2>1. /\ UNCHANGED <<clock, plan, planned>> /\ fiber[f].at = "cancelling" /\ Rest(f)
        /\ \/ def' = def
           \/ WriteDef([def EXCEPT !.archived = TRUE, !.enabled = FALSE])
    BY <1>5 DEF EndCancelling, At, rows, scheduling, definition
  <2>2. def'.next = def.next /\ def'.count = def.count
    <3>1. PICK row : row = [def EXCEPT !.archived = TRUE, !.enabled = FALSE]
      OBVIOUS
    <3>2. row.next = def.next /\ row.count = def.count
      BY <3>1, RowsAre DEF Row
    <3> QED
      BY <2>1, <3>1, <3>2 DEF WriteDef
  <2> QED
    BY <2>1, <2>2, RestAside DEF NextPath, CapReached
<1>6. CASE SaveEdit(f)
  <2>1. /\ UNCHANGED <<clock, plan, planned>> /\ fiber[f].at = "saving" /\ Rest(f)
    BY <1>6 DEF SaveEdit, At, rows, scheduling
  <2>2. PICK next : WriteDef([fiber[f].def EXCEPT !.next = next, !.count = def.count])
    BY <1>6 DEF SaveEdit
  <2>3. def'.count = def.count
    <3>1. PICK old, row : /\ old = fiber[f].def /\ old \in Row
                          /\ row = [old EXCEPT !.next = next, !.count = def.count]
      BY FiberFacts
    <3>2. row.count = def.count
      BY <3>1 DEF Row
    <3> QED
      BY <2>2, <3>1, <3>2 DEF WriteDef
  <2> QED
    BY <2>1, <2>3, RestAside DEF NextPath, CapReached
<1> QED
  BY <1>1, <1>2, <1>3, <1>4, <1>5, <1>6 DEF Call

LEMMA WatchSchedules ==
    ASSUME FiberInv, NEW f \in Fibers, Watch(f)
    PROVE  Scheduled(f)
<1>0. {"marking", "settling", "idle", "retiring", "reading"} \subseteq Elsewhere
  BY DEF Elsewhere
<1>1. /\ UNCHANGED <<clock, plan, planned>> /\ def' = def /\ fiber[f].at # "advancing"
  BY DEF Watch, ReadTurn, MarkVerdict, ListRecoverable, Recover, Retire, At, rows, scheduling, definition
<1>2. NextPath(f)
  BY <1>1, SameNext
<1>3. CASE ReadTurn(f)
  <2>1. Rest(f) \/ \E note : GoesWith(f, "marking", note)
    BY <1>3 DEF ReadTurn
  <2> QED
    BY <1>0, <1>1, <1>2, <2>1, RestAside, GoWithAside
<1>4. CASE MarkVerdict(f)
  <2>1. Goes(f, "settling") \/ (Goes(f, "result") /\ fiber[f].note # "skipped")
    BY <1>4 DEF MarkVerdict
  <2>2. CASE Goes(f, "result") /\ fiber[f].note # "skipped"
    <3>1. PICK y : /\ Becomes(f, y) /\ y.at = "result" /\ y.note = fiber[f].note
                   /\ y.def = fiber[f].def /\ y.time = fiber[f].time
      BY <2>2, GoesTo DEF FiberInv
    <3> QED
      BY <1>1, <1>2, <2>2, <3>1, AsideSchedules
  <2> QED
    BY <1>0, <1>1, <1>2, <2>1, <2>2, GoAside
<1>5. CASE ListRecoverable(f)
  <2>1. PICK left : left = {r \in DOMAIN runs : Recoverable(r)}
    OBVIOUS
  <2>2. PICK y : Becomes(f, y) /\ y.at = "idle" /\ y.time = 0
    BY <1>5, <2>1, RestsIdle DEF ListRecoverable, FiberInv
  <2> QED
    BY <1>0, <1>1, <1>2, <2>2, AsideSchedules
<1>6. CASE Recover(f)
  <2>1. PICK r \in fiber[f].left :
            fiber' = [fiber EXCEPT ![f].left = @ \ {r}, ![f].run = r, ![f].note = runs[r].status,
                        ![f].at = IF runs[r].thread = "none" \/ turn[r] \in Unseen THEN "retiring"
                                  ELSE IF IsActive(r) THEN "reading" ELSE "idle"]
    BY <1>6 DEF Recover
  <2>2. PICK position, left, note :
            /\ position = IF runs[r].thread = "none" \/ turn[r] \in Unseen THEN "retiring"
                          ELSE IF IsActive(r) THEN "reading" ELSE "idle"
            /\ left = fiber[f].left \ {r} /\ note = runs[r].status
    OBVIOUS
  <2>3. GoesRecovering(f, left, r, note, position) /\ position \in Elsewhere
    BY <1>0, <2>1, <2>2 DEF GoesRecovering
  <2>4. PICK y : Becomes(f, y) /\ y.at = position /\ y.def = fiber[f].def /\ y.time = fiber[f].time
    BY <2>3, GoesRecoveringTo DEF FiberInv
  <2> QED
    BY <1>1, <1>2, <2>3, <2>4, AsideSchedules
<1>7. CASE Retire(f)
  <2>1. Rest(f) \/ GoesWith(f, "result", "retired")
    BY <1>7 DEF Retire
  <2> QED
    BY <1>1, <1>2, <2>1, RestAside, GoWithAside
<1> QED
  BY <1>3, <1>4, <1>5, <1>6, <1>7 DEF Watch

LEMMA CheckSchedules ==
    ASSUME Typed, FiberInv, NEW f \in Fibers, Check(f)
    PROVE  Scheduled(f)
<1>0. {"matching", "recording"} \subseteq Elsewhere
  BY DEF Elsewhere
<1>1. CASE Evaluate(f)
  <2>1. /\ UNCHANGED <<clock, plan, planned>> /\ def' = def /\ fiber[f].at = "evaluating"
        /\ (Goes(f, "matching") \/ GoesWith(f, "recording", "yes"))
    BY <1>1 DEF Evaluate, At, rows, scheduling, definition
  <2> QED
    BY <1>0, <2>1, SameNext, GoAside, GoWithAside
<1>2. CASE DisableMatched(f)
  <2>1. /\ UNCHANGED <<clock, plan, planned>> /\ fiber[f].at = "matching"
        /\ (WriteDef(Disabled) \/ def' = def)
    BY <1>2 DEF DisableMatched, At, rows, scheduling, definition
  <2>2. PICK note : GoesWith(f, "recording", note)
    BY <1>2 DEF DisableMatched
  <2> QED
    BY <1>0, <2>1, <2>2, SameNext, OffNext, GoWithAside
<1>3. CASE Record(f)
  <2>1. /\ UNCHANGED <<clock, plan, planned>> /\ def' = def /\ fiber[f].at = "recording" /\ Rest(f)
    BY <1>3 DEF Record, At, scheduling
  <2> QED
    BY <2>1, SameNext, RestAside
<1> QED
  BY <1>1, <1>2, <1>3 DEF Check

LEMMA ReadSchedules ==
    ASSUME FiberInv, NEW f \in Fibers, NEW r \in DOMAIN runs, ReadRun(f, r)
    PROVE  Scheduled(f)
<1>1. /\ UNCHANGED <<clock, plan, planned>> /\ def' = def /\ fiber[f].at = "idle"
  BY DEF ReadRun, At, rows, scheduling, definition
<1>2. PICK note : fiber' = [fiber EXCEPT ![f].at = "reading", ![f].run = r, ![f].note = note]
  BY DEF ReadRun
<1>3. GoesReading(f, "reading", r, note)
  BY <1>2 DEF GoesReading
<1>4. PICK y : Becomes(f, y) /\ y.at = "reading" /\ y.def = fiber[f].def /\ y.time = fiber[f].time
  BY <1>3, GoesReadingTo DEF FiberInv
<1> QED
  BY <1>1, <1>4, SameNext, AsideSchedules DEF Elsewhere

LEMMA StartSchedules ==
    ASSUME Typed, FiberInv, NEW s \in Servers, StartPass(s) \/ TimeOut(s) \/ TakeJob(s)
    PROVE  ScheduleMove
<1>0. clock \in Nat /\ def.next \in Nat
  BY ClockIs, RowsAre DEF Row
<1>1. CASE StartPass(s)
  <2>1. PICK f \in Fibers : f = <<s, "scheduler">>
    BY DEF Fibers, Kinds
  <2>2. /\ UNCHANGED <<clock, plan, planned>> /\ def' = def /\ fiber[f].at = "idle"
        /\ overlapped' = (overlapped \/ \E o \in up \ {s} : fiber[<<o, "scheduler">>].time # 0)
    BY <1>1, <2>1 DEF StartPass, At, rows, definition
  <2>3. CASE ~IsDue(clock)
    <3>1. fiber' = fiber
      BY <1>1, <2>3 DEF StartPass
    <3> QED
      BY <1>0, <2>2, <3>1 DEF ScheduleMove, Quiet
  <2>4. CASE IsDue(clock)
    <3>1. PICK position \in {"capped", "missing", "counting", "creating"} :
            /\ fiber' = [fiber EXCEPT ![f].at = position, ![f].time = clock, ![f].def = def]
            /\ CapReached(def) => position = "capped"
      BY <1>1, <2>1, <2>4 DEF StartPass
    <3>2. GoesPlanning(f, position, clock, def)
      BY <3>1 DEF GoesPlanning
    <3>3. PICK y : Becomes(f, y) /\ y.at = position /\ y.def = def /\ y.time = clock
      BY <3>2, GoesPlanningTo DEF FiberInv
    <3>4. f[1] = s /\ f[2] = "scheduler" /\ def.next # 0 /\ def.next <= clock
      BY <2>1, <2>4 DEF IsDue
    <3>5. BeginsPass(f, y)
      BY <2>2, <3>1, <3>3, <3>4 DEF BeginsPass, Ahead
    <3> QED
      BY <2>2, <3>3, <3>5, SameNext DEF ScheduleMove, Schedules, NewOccurrences
  <2> QED
    BY <2>3, <2>4
<1>2. CASE TimeOut(s)
  <2>1. PICK f \in Fibers : f = <<s, "scheduler">>
    BY DEF Fibers, Kinds
  <2>2. /\ UNCHANGED <<clock, plan, planned>> /\ def' = def /\ fiber[f].at = "idle"
    BY <1>2, <2>1 DEF TimeOut, At, rows, scheduling, definition
  <2>3. PICK r : fiber' = [fiber EXCEPT ![f].at = "failing", ![f].run = r]
    BY <1>2, <2>1 DEF TimeOut
  <2>4. GoesFor(f, "failing", r) /\ "failing" \in Elsewhere
    BY <2>3 DEF GoesFor, Elsewhere
  <2> QED
    BY <2>2, <2>4, SameNext, GoForAside DEF ScheduleMove, Scheduled
<1>3. CASE TakeJob(s)
  <2>1. PICK f \in Fibers : f = <<s, "evaluator">>
    BY DEF Fibers, Kinds
  <2>2. /\ UNCHANGED <<clock, plan, planned>> /\ def' = def /\ fiber[f].at = "idle"
    BY <1>3, <2>1 DEF TakeJob, At, rows, scheduling, definition
  <2>3. PICK run : fiber' = [fiber EXCEPT ![f].at = "evaluating", ![f].run = run]
    BY <1>3, <2>1 DEF TakeJob
  <2>4. GoesFor(f, "evaluating", run) /\ "evaluating" \in Elsewhere
    BY <2>3 DEF GoesFor, Elsewhere
  <2> QED
    BY <2>2, <2>4, SameNext, GoForAside DEF ScheduleMove, Scheduled
<1> QED
  BY <1>1, <1>2, <1>3

LEMMA UserSchedules ==
    ASSUME FiberInv, NEW s \in Servers, NEW kind, RunNow(s) \/ Cancel(s) \/ Edit(s, kind)
    PROVE  ScheduleMove
<1>1. PICK f \in Fibers : f = <<s, "caller">>
  BY DEF Fibers, Kinds
<1>2. /\ UNCHANGED <<clock, plan, planned>> /\ def' = def /\ fiber[f].at = "idle" /\ f[2] = "caller"
  BY <1>1 DEF RunNow, Cancel, Edit, At, rows, scheduling, definition
<1>3. NextPath(f)
  BY <1>2, SameNext
<1>4. CASE RunNow(s)
  <2>1. PICK position \in {"counting", "restarting"} :
            fiber' = [fiber EXCEPT ![f].at = position, ![f].def = def, ![f].time = clock]
    BY <1>1, <1>4 DEF RunNow
  <2>2. GoesAsking(f, position, def, clock)
    BY <2>1 DEF GoesAsking
  <2>3. PICK y : Becomes(f, y) /\ y.at = position /\ y.def = def /\ y.time = clock
    BY <2>2, GoesAskingTo DEF FiberInv
  <2>4. BeginsCall(f, y)
    BY <1>2, <1>4, <2>1, <2>3 DEF BeginsCall, RunNow, Trouble
  <2> QED
    BY <1>2, <1>3, <2>3, <2>4 DEF ScheduleMove, Schedules, NewOccurrences
<1>5. ASSUME NEW y, Becomes(f, y), y.at \in {"cancelling", "saving"}
      PROVE  ScheduleMove
  BY <1>2, <1>3, <1>5, AsideSchedules DEF ScheduleMove, Scheduled, Elsewhere
<1>6. CASE Cancel(s)
  <2>1. CASE \E r \in DOMAIN runs :
                fiber' = [fiber EXCEPT ![f].at = "cancelling", ![f].left = {r}, ![f].note = "cancel"]
    <3>1. PICK left : GoesCancelling(f, "cancelling", left, "cancel")
      BY <2>1 DEF GoesCancelling
    <3>2. PICK y : Becomes(f, y) /\ y.at = "cancelling"
      BY <3>1, GoesCancellingTo DEF FiberInv
    <3> QED
      BY <1>5, <3>2
  <2>2. CASE fiber' = [fiber EXCEPT ![f].at = "cancelling", ![f].def = def,
                                    ![f].left = {r \in DOMAIN runs : IsActive(r)}]
    <3>1. PICK left : left = {r \in DOMAIN runs : IsActive(r)}
      OBVIOUS
    <3>2. GoesDeleting(f, "cancelling", def, left)
      BY <2>2, <3>1 DEF GoesDeleting
    <3>3. PICK y : Becomes(f, y) /\ y.at = "cancelling"
      BY <3>2, GoesDeletingTo DEF FiberInv
    <3> QED
      BY <1>5, <3>3
  <2> QED
    BY <1>1, <1>6, <2>1, <2>2 DEF Cancel
<1>7. CASE Edit(s, kind)
  <2>1. PICK row : fiber' = [fiber EXCEPT ![f].at = "saving", ![f].time = clock, ![f].def = row]
    BY <1>1, <1>7 DEF Edit
  <2>2. GoesPlanning(f, "saving", clock, row)
    BY <2>1 DEF GoesPlanning
  <2>3. PICK y : Becomes(f, y) /\ y.at = "saving"
    BY <2>2, GoesPlanningTo DEF FiberInv
  <2> QED
    BY <1>5, <2>3
<1> QED
  BY <1>4, <1>6, <1>7

LEMMA QuietSteps ==
    ASSUME Typed, FiberInv,
           \/ \E s \in Servers : EnqueueChecks(s) \/ Crash(s) \/ Boot(s)
           \/ \E r \in DOMAIN runs : TurnMoves(r) \/ TurnLost(r)
           \/ Tick \/ UNCHANGED vars
    PROVE  Quiet
<1>0. clock \in Nat
  BY ClockIs
<1>1. CASE \E s \in Servers : EnqueueChecks(s)
  BY <1>0, <1>1 DEF EnqueueChecks, rows, scheduling, Quiet
<1>2. CASE \E s \in Servers : Crash(s)
  <2>1. Idle.at = "idle" /\ Idle.time = 0
    BY IdleFacts
  <2>2. \A f \in Fibers : fiber'[f] = fiber[f] \/ fiber'[f] = Idle
    BY <1>2 DEF Crash
  <2> QED
    BY <1>0, <1>2, <2>1, <2>2 DEF Crash, Quiet
<1>3. CASE \E s \in Servers : Boot(s)
  <2>1. PICK b : b = Booting
    OBVIOUS
  <2>2. b.at = "booting" /\ b.time = 0
    BY <2>1 DEF Booting, Idle
  <2>3. \A f \in Fibers : fiber'[f] = fiber[f] \/ fiber'[f] = b
    BY <1>3, <2>1 DEF Boot, FiberInv, FiberTable
  <2> QED
    BY <1>0, <1>3, <2>2, <2>3 DEF Boot, rows, definition, Quiet
<1>4. CASE \E r \in DOMAIN runs : TurnMoves(r) \/ TurnLost(r)
  BY <1>0, <1>4 DEF TurnMoves, TurnLost, scheduling, definition, Quiet
<1>5. CASE Tick \/ UNCHANGED vars
  BY <1>0, <1>5 DEF Tick, rows, definition, vars, history, Quiet
<1> QED
  BY <1>1, <1>2, <1>3, <1>4, <1>5

LEMMA EverySchedule ==
    ASSUME Typed, FiberInv, Courses, OfPass, [Next]_vars
    PROVE  ScheduleMove
<1>1. ASSUME NEW f \in Fibers, Works(f) \/ DispatchFails(f)
      PROVE  Scheduled(f)
  BY <1>1, PassSchedules, DispatchSchedules, SettleSchedules, CallSchedules, WatchSchedules,
     CheckSchedules DEF Works
<1>2. ASSUME NEW f \in Fibers, NEW r \in DOMAIN runs, ReadRun(f, r)
      PROVE  Scheduled(f)
  BY <1>2, ReadSchedules
<1>3. ASSUME NEW f \in Fibers, Scheduled(f)
      PROVE  ScheduleMove
  BY <1>3 DEF ScheduleMove, Scheduled
<1>4. ASSUME NEW s \in Servers, NEW kind, RunNow(s) \/ Cancel(s) \/ Edit(s, kind)
      PROVE  ScheduleMove
  BY <1>4, UserSchedules
<1>5. ASSUME NEW s \in Servers, StartPass(s) \/ TimeOut(s) \/ TakeJob(s)
      PROVE  ScheduleMove
  BY <1>5, StartSchedules
<1>6. ASSUME NEW s \in Servers, EnqueueChecks(s) \/ Crash(s) \/ Boot(s)
      PROVE  ScheduleMove
  BY <1>6, QuietSteps DEF ScheduleMove
<1>7. ASSUME (\E r \in DOMAIN runs : TurnMoves(r) \/ TurnLost(r)) \/ Tick \/ UNCHANGED vars
      PROVE  ScheduleMove
  BY <1>7, QuietSteps DEF ScheduleMove
<1>8. ASSUME NEW s \in Servers, RunNow(s) \/ Cancel(s)
      PROVE  ScheduleMove
  BY <1>4, <1>8
<1> QED
  BY <1>1, <1>2, <1>3, <1>4, <1>5, <1>6, <1>7, <1>8 DEF Next

-----------------------------------------------------------------------------------
\* The order of the schedule, and what it promises.

LEMMA OrderlyInit == Init => Orderly
<1> SUFFICES ASSUME Init PROVE Orderly
  OBVIOUS
<1>1. DOMAIN planned = {}
  BY DEF Init
<1>2. \A f \in Fibers : fiber[f].time = 0 /\ fiber[f].at \in {"idle", "booting"}
  BY FibersBegin
<1>3. OfPass /\ OneCall
  BY <1>2 DEF OfPass, OneCall, Onward, ByUser, Asked
<1>4. Timely /\ Restarts /\ NotYet /\ Moved /\ HandedOnce
  BY <1>1, <1>2 DEF Timely, Restarts, Restarting, NotYet, Planning, Moved, HandedOnce, Ahead
<1> QED
  BY <1>3, <1>4 DEF Orderly

LEMMA LatestStays ==
    ASSUME Typed, FiberInv, Courses, [Next]_vars, Latest'
    PROVE  Latest
<1>1. Stays \/ Falls \/ \E f \in Fibers : Paths(f)
  BY EveryPath DEF Courses, Course
<1>2. plan' = plan /\ troubles \subseteq troubles' /\ (overlapped => overlapped')
  BY <1>1 DEF Stays, Falls, Paths, Path
<1> QED
  BY <1>2 DEF Latest

LEMMA OrderlyStep ==
    ASSUME FiberInv, CrashNoted, Kept, Kept', Orderly, [Next]_vars
    PROVE  Orderly'
<1>0. Typed /\ Typed' /\ Courses /\ OfPass /\ OneCall
  BY DEF Kept, Orderly
<1>1. ScheduleMove
  BY <1>0, EverySchedule
<1>2. Table' /\ RowsMove
  BY TableMoves DEF FiberInv
<1>3. OfPass' /\ OneCall'
  BY <1>0, <1>1, OfPassStep, OneCallStep
<1>4. ASSUME Latest'
      PROVE  Timely' /\ Restarts' /\ NotYet' /\ Moved' /\ HandedOnce'
  <2>1. Latest
    BY <1>0, <1>4, LatestStays
  <2>2. Timely /\ Restarts /\ NotYet /\ Moved /\ HandedOnce
    BY <2>1 DEF Orderly
  <2>3. Timely'
    BY <1>0, <1>1, <1>2, <1>4, <2>1, <2>2, TimelyStep
  <2>4. Restarts'
    BY <1>0, <1>1, <1>2, <2>2, RestartsStep
  <2>5. NotYet'
    BY <1>0, <1>1, <1>4, <2>1, <2>2, NotYetStep
  <2>6. Moved'
    BY <1>0, <1>1, <1>4, <2>1, <2>2, MovedStep
  <2>7. HandedOnce'
    BY <1>1, <2>2, HandedOnceStep
  <2> QED
    BY <2>3, <2>4, <2>5, <2>6, <2>7
<1> QED
  BY <1>3, <1>4 DEF Orderly

LEMMA OrderlyAlways == Spec => [](Kept /\ FiberInv /\ Orderly)
<1>1. FiberInv /\ CrashNoted /\ Kept /\ Kept' /\ Orderly /\ [Next]_vars => Orderly'
  BY OrderlyStep
<1> QED
  BY <1>1, OrderlyInit, FibersAlways, KeptAlways, PTL DEF Spec

\* No occurrence is run twice, whichever schedulers, users and crashes there are.  Where a run is
\* named for its occurrence the unique index sees to it; where a late one is named for the time
\* of its pass, the order in which a pass creates the run, moves the schedule on and launches,
\* as long as no pass overtakes another and no edit puts an old time back: runDueDefinition.
THEOREM NoOccurrenceTwice == Spec => []OncePerOccurrence
<1>1. FiberInv /\ Orderly => (plan.misfire = "run-latest" => OncePerOccurrence)
  <2> SUFFICES ASSUME FiberInv, Orderly, Latest
               PROVE  \A r, q \in DOMAIN runs :
                          r # q /\ planned[r] = planned[q] =>
                              planned[r] = 0 \/ ~Launched(r) \/ ~Launched(q)
    BY DEF OncePerOccurrence, Latest
  <2>1. DOMAIN planned = DOMAIN runs
    BY DEF FiberInv, Table
  <2>2. HandedOnce
    BY DEF Orderly
  <2> QED
    BY <2>1, <2>2 DEF HandedOnce, Handed
<1>2. FiberInv /\ Orderly /\ (plan.misfire # "run-latest" => OncePerOccurrence) => OncePerOccurrence
  BY <1>1
<1> QED
  BY <1>2, OrderlyAlways, NamedOnce, PTL
=============================================================================
