------------------------------ MODULE AutomationRuns ------------------------------
(***************************************************************************)
(* One automation: its definition and its runs, which are rows of SQLite,  *)
(* and the fibers of AutomationService.ts that read and write them: the    *)
(* scheduler that starts what is due under a lease, the user's calls, the  *)
(* watcher that recovers and reconciles runs with their turns, and the     *)
(* worker that asks a model whether a heartbeat is done.  Several servers  *)
(* may share the database.  A statement of SQL is one step, and so is a    *)
(* command to the engine.                                                  *)
(*                                                                         *)
(* Schedules are intervals or one moment; edits change neither schedule    *)
(* nor policies.  The provider's turns are what QueuedTurns lets them be.  *)
(* An interrupt is a request, which TurnMoves may follow.                  *)
(***************************************************************************)
EXTENDS Naturals, Sequences, FiniteSets

CONSTANTS
    Servers,        \* server processes on one database
    Plans,          \* the automations that are considered, with the bounds for each
    Every,          \* the interval of a schedule
    Ttl,            \* SCHEDULER_LEASE_TTL_MS
    MaxRuns         \* bound of the fairness conditions: the runs they are stated for

VARIABLES
    clock,
    plan,           \* what of the definition is never changed, and the bounds
    def,            \* what is changed: the row of automation_definitions
    runs,           \* the rows of automation_runs
    lease,          \* the scheduler's lease
    fiber,          \* where each fiber is, and what it has read
    jobs,           \* each server's stop checks, queued or at work
    up,             \* the servers that run
    turn,           \* the turn of each run's message
    tree,           \* the worktree of each run
    planned,        \* history: the occurrence each run was created for, 0 if none
    overlapped,     \* history: a lease was taken from a pass that still runs
    troubles        \* history: what users did and what went wrong

engine == <<turn, tree>>
history == <<planned, overlapped>>
vars == <<clock, plan, def, runs, lease, fiber, jobs, up, engine, history, troubles>>

-----------------------------------------------------------------------------------
\* Values.  0 is no time and no run.

Troubles == {"runNow", "cancel", "delete", "enable", "disable", "rename",
             "sweep", "ask", "fault", "crash", "start", "drop"}

Plan == [mode: {"standalone", "heartbeat"}, schedule: {"interval", "once"},
         misfire: {"skip", "coalesce", "run-latest"}, cap: Nat,  \* maxIterations, 0 for null
         stopOnError: BOOLEAN, stopCheck: BOOLEAN, worktree: BOOLEAN, timed: BOOLEAN,
         \* Bounds: the servers that share the database, where the clock stops, and what users may
         \* do and what may go wrong, each once at most.
         servers: SUBSET Servers, horizon: Nat, possible: SUBSET Troubles]

Kinds == {"scheduler", "caller", "watcher", "evaluator"}
Fibers == Servers \X Kinds

Active == {"pending", "running", "waiting"}
Final == {"succeeded", "failed", "cancelled", "interrupted", "skipped"}
Statuses == Active \cup Final
Outcomes == {"none", "waiting"} \cup Final

ASSUME PlansAssumption == Plans \subseteq Plan
ASSUME TimesAssumption == Every \in Nat \ {0} /\ Ttl \in Nat \ {0} /\ MaxRuns \in Nat

NoRow == [enabled |-> FALSE, archived |-> FALSE, next |-> 0, count |-> 0]
Idle == [at |-> "idle", run |-> 0, def |-> NoRow, time |-> 0, note |-> "none", left |-> {}]
Booting == [Idle EXCEPT !.at = "booting"]
Fresh == [k \in Kinds |-> IF k = "watcher" THEN Booting ELSE Idle]

Heartbeat == plan.mode = "heartbeat"

Trouble(kind) ==
    kind \in plan.possible \ troubles /\ troubles' = troubles \cup {kind}

IsActive(r) == runs[r].status \in Active

\* The view automation_pending_completion_evaluations.
StopCheckPending(r) ==
    /\ Heartbeat /\ plan.stopCheck /\ def.enabled /\ ~def.archived
    /\ runs[r].status = "succeeded" /\ runs[r].evaluated = "no"

AnyStopCheck == \E r \in DOMAIN runs : StopCheckPending(r)

\* Every write moves updated_at: a stop check that was given the row before is out of date.
Stale == [s \in Servers |-> {[job EXCEPT !.stale = TRUE] : job \in jobs[s]}]
WriteDef(row) == def' = row /\ jobs' = Stale

Disabled == [def EXCEPT !.enabled = FALSE, !.next = 0]

CapReached(row) == plan.cap # 0 /\ row.count >= plan.cap

\* computeNextAutomationRunAtAfter: the first slot after `slot` that is after `time`.
NextAfter(slot, time) ==
    IF plan.schedule = "once" THEN 0
    ELSE slot + Every * (IF slot + Every > time THEN 1 ELSE ((time - slot) \div Every) + 1)

\* computeNextAutomationRunAt; the one moment of a "once" schedule is time 1.
NextFrom(time) ==
    IF plan.schedule = "interval" THEN time + Every ELSE IF time < 1 THEN 1 ELSE 0

Init ==
    /\ clock = 0
    /\ plan \in Plans
    /\ def = [enabled |-> TRUE, archived |-> FALSE, next |-> 1, count |-> 0]
    /\ runs = <<>> /\ turn = <<>> /\ tree = <<>> /\ planned = <<>>
    /\ lease = [owner |-> {}, until |-> 0]      \* no row, or a process that is gone
    /\ fiber = [f \in Fibers |-> Fresh[f[2]]]
    /\ jobs = [s \in Servers |-> {}]
    /\ up = plan.servers /\ overlapped = FALSE /\ troubles = {}

-----------------------------------------------------------------------------------
\* Rows of automation_runs.

\* INSERT OR IGNORE: the unique index on scheduled occurrences, and the guard against a second
\* active run of a thread.
Taken(trigger, slot) ==
    {r \in DOMAIN runs : trigger = "scheduled" /\ runs[r].trigger = trigger /\ runs[r].slot = slot}

Busy(thread) ==
    {r \in DOMAIN runs : thread = "target" /\ runs[r].thread = thread /\ IsActive(r)}

\* Mutant of Inserts: any number of active runs on one thread.
InsertsBeside(trigger, slot, thread) == Taken(trigger, slot) = {}

Inserts(trigger, slot, thread) == Taken(trigger, slot) = {} /\ Busy(thread) = {}

PlannedThread == IF Heartbeat THEN "target" ELSE "own"

\* createPendingRun: the new row, or none where there was one already.  `occurrence` is what it
\* is for.
CreateRun(trigger, slot, thread, occurrence) ==
    IF Inserts(trigger, slot, thread)
    THEN /\ runs' = Append(runs, [trigger |-> trigger, slot |-> slot, thread |-> thread,
                                  status |-> "pending", result |-> "none", evaluated |-> "no"])
         /\ turn' = Append(turn, "none") /\ tree' = Append(tree, "none")
         /\ planned' = Append(planned, occurrence)
    ELSE UNCHANGED <<runs, turn, tree, planned>>

\* UPDATE ... WHERE status IN (from): the other rows stay as they are.
Mark(r, from, status) ==
    runs' = IF runs[r].status \in from THEN [runs EXCEPT ![r].status = status] ELSE runs

\* markRunResult writes whatever the status is, and takes an evaluation away.
MarkResult(r, outcome) ==
    runs' = [runs EXCEPT ![r].result = outcome, ![r].evaluated = "no"]

-----------------------------------------------------------------------------------
\* Fibers.

At(f, position) == f[1] \in up /\ fiber[f].at = position

Goes(f, position) == fiber' = [fiber EXCEPT ![f].at = position]
GoesWith(f, position, note) == fiber' = [fiber EXCEPT ![f].at = position, ![f].note = note]

\* A fiber that has finished keeps only the runs it has yet to recover.
Rest(f) == fiber' = [fiber EXCEPT ![f] = [Idle EXCEPT !.left = fiber[f].left]]

scheduling == <<clock, plan, lease, up, overlapped>>
rows == <<runs, planned, engine>>
definition == <<def, jobs>>

-----------------------------------------------------------------------------------
\* runDueOnce and runDueDefinition.

IsDue(time) == def.enabled /\ ~def.archived /\ def.next # 0 /\ def.next <= time /\ ~AnyStopCheck

Missed(f) == fiber[f].def.next < fiber[f].time

\* Mutant of ScheduledFor: a run is named for the time of the pass.
PassTime(f) == fiber[f].time

ScheduledFor(f) ==
    IF Missed(f) /\ plan.misfire = "run-latest" THEN fiber[f].time ELSE fiber[f].def.next

\* A pass takes or renews the lease, by its own clock, and lists what is due: nothing that
\* happens between the two statements matters to either.  What is done with a due definition is
\* settled by the row as it is listed.
StartPass(s) ==
    LET f == <<s, "scheduler">>
        missed == def.next < clock
        position == IF CapReached(def) THEN "capped"
                    ELSE IF missed /\ plan.misfire = "skip" THEN "missing"
                    ELSE IF Heartbeat THEN "counting" ELSE "creating"
    IN  /\ At(f, "idle")
        /\ lease.owner = {s} \/ lease.until <= clock
        /\ lease' = [owner |-> {s}, until |-> clock + Ttl]
        /\ overlapped' = (overlapped \/ \E o \in up \ {s} : fiber[<<o, "scheduler">>].time # 0)
        /\ IF IsDue(clock)
           THEN fiber' = [fiber EXCEPT ![f].at = position, ![f].time = clock, ![f].def = def]
           ELSE UNCHANGED fiber
        /\ UNCHANGED <<clock, plan, up, rows, definition, troubles>>

DisableCapped(f) ==
    /\ At(f, "capped")
    /\ WriteDef(Disabled)
    /\ Rest(f)
    /\ UNCHANGED <<scheduling, rows, troubles>>

\* heartbeatThreadRunState reads the active runs of the thread ...
CountActive(f) ==
    /\ At(f, "counting")
    /\ GoesWith(f, "checking", IF Busy("target") # {} THEN "busy" ELSE "none")
    /\ UNCHANGED <<scheduling, rows, definition, troubles>>

\* Mutant of HasStopCheck: that the list had no such row is taken as enough.
ListedWithout(f) == FALSE

HasStopCheck(f) == AnyStopCheck

\* ... and then its stop checks; the scheduler waits for these, and records what it skips.
CheckPending(f) ==
    LET checked == HasStopCheck(f)
        busy == fiber[f].note = "busy"
    IN  /\ At(f, "checking")
        /\ IF checked \/ (busy /\ f[2] = "caller") THEN Rest(f)
           ELSE Goes(f, IF busy THEN "missing"
                        ELSE IF f[2] = "caller" THEN "restarting" ELSE "creating")
        /\ UNCHANGED <<scheduling, rows, definition, troubles>>

\* An occurrence that is not run gets a row without a thread.
RecordMissed(f) ==
    /\ At(f, "missing")
    /\ CreateRun("scheduled", ScheduledFor(f), "none", fiber[f].def.next)
    /\ IF runs' # runs
       THEN fiber' = [fiber EXCEPT ![f].at = "skipping", ![f].run = Len(runs')]
       ELSE Goes(f, "advancing")
    /\ UNCHANGED <<scheduling, definition, troubles>>

MarkSkipped(f) ==
    /\ At(f, "skipping")
    /\ Mark(fiber[f].run, {"pending"}, "skipped")
    /\ GoesWith(f, "result", "skipped")
    /\ UNCHANGED <<scheduling, planned, engine, definition, troubles>>

\* Mutant of CreateDue: an occurrence that has its row is left alone.
CreateOrStop(f) ==
    /\ At(f, "creating") /\ f[2] = "scheduler"
    /\ CreateRun("scheduled", ScheduledFor(f), PlannedThread, fiber[f].def.next)
    /\ IF runs' # runs
       THEN fiber' = [fiber EXCEPT ![f].at = "advancing", ![f].run = Len(runs')]
       ELSE Rest(f)
    /\ UNCHANGED <<scheduling, definition, troubles>>

CreateDue(f) ==
    /\ At(f, "creating") /\ f[2] = "scheduler"
    /\ CreateRun("scheduled", ScheduledFor(f), PlannedThread, fiber[f].def.next)
    /\ fiber' = [fiber EXCEPT ![f].at = "advancing",
                              ![f].run = IF runs' # runs THEN Len(runs') ELSE 0]
    /\ UNCHANGED <<scheduling, definition, troubles>>

\* advanceScheduledDefinition, by the row as it was listed; then only a new run is dispatched.
Advance(f) ==
    LET next == NextAfter(ScheduledFor(f), fiber[f].time) IN
    /\ At(f, "advancing")
    /\ WriteDef(IF next = 0 THEN Disabled ELSE [def EXCEPT !.next = next])
    /\ IF fiber[f].run = 0 THEN Rest(f) ELSE Goes(f, "incrementing")
    /\ UNCHANGED <<scheduling, rows, troubles>>

IncrementIterations(f) ==
    /\ At(f, "incrementing")
    /\ WriteDef([def EXCEPT !.count = @ + 1])
    /\ Goes(f, "starting")
    /\ UNCHANGED <<scheduling, rows, troubles>>

-----------------------------------------------------------------------------------
\* dispatchRun, for the scheduler and for runNow.

Run(f) == runs[fiber[f].run]

\* The last check before the turn starts comes after every other step.
AfterStart ==
    IF Heartbeat THEN "lastCheck" ELSE IF plan.worktree THEN "treeCheck" ELSE "threadCheck"

\* Mutant of Startable: a run that was retired is started again.
StartableAgain == Active \cup {"cancelled", "interrupted"}

Startable == {"pending", "waiting"}

MarkStarted(f) ==
    /\ At(f, "starting")
    /\ Mark(fiber[f].run, Startable, "running")
    /\ Goes(f, IF runs'[fiber[f].run].status = "running" THEN AfterStart ELSE "failing")
    /\ UNCHANGED <<scheduling, planned, engine, definition, troubles>>

\* A gate refuses the run, or the worktree cannot be made.
DispatchFails(f) ==
    /\ \/ At(f, "starting") \/ At(f, "makingTree") \/ At(f, "launching")
    /\ Trouble("fault")
    /\ Goes(f, "failing")
    /\ UNCHANGED <<scheduling, rows, definition>>

StillDispatching(f) == Run(f).status = "running"

CheckBeforeTree(f) ==
    /\ At(f, "treeCheck")
    /\ Goes(f, IF StillDispatching(f) THEN "makingTree" ELSE "failing")
    /\ UNCHANGED <<scheduling, rows, definition, troubles>>

MakeTree(f) ==
    /\ At(f, "makingTree")
    /\ tree' = [tree EXCEPT ![fiber[f].run] = "made"]
    /\ Goes(f, "threadCheck")
    /\ UNCHANGED <<scheduling, runs, planned, turn, definition, troubles>>

\* Mutant of CleanedUp: a worktree stays where it was made.
LeftBehind(r) == tree

\* cleanupUnattachedWorktree
CleanedUp(r) == IF tree[r] = "made" THEN [tree EXCEPT ![r] = "removed"] ELSE tree

CheckBeforeThread(f) ==
    /\ At(f, "threadCheck")
    /\ IF StillDispatching(f)
       THEN Goes(f, "creatingThread") /\ UNCHANGED tree
       ELSE Goes(f, "failing") /\ tree' = CleanedUp(fiber[f].run)
    /\ UNCHANGED <<scheduling, runs, planned, turn, definition, troubles>>

CreateThread(f) ==
    /\ At(f, "creatingThread")
    /\ \/ /\ tree' = [tree EXCEPT ![fiber[f].run] = IF @ = "made" THEN "attached" ELSE @]
          /\ Goes(f, "lastCheck")
          /\ UNCHANGED troubles
       \/ /\ Trouble("fault")
          /\ tree' = CleanedUp(fiber[f].run)
          /\ Goes(f, "failing")
    /\ UNCHANGED <<scheduling, runs, planned, turn, definition>>

\* Mutant of LastCheck: the turn is started without a last look at the run.
NoLastCheck(f) == TRUE

LastCheck(f) == StillDispatching(f)

CheckBeforeTurn(f) ==
    /\ At(f, "lastCheck")
    /\ Goes(f, IF LastCheck(f) THEN "launching" ELSE "failing")
    /\ UNCHANGED <<scheduling, rows, definition, troubles>>

\* thread.turn.start: behind a turn that runs the message waits in the reactor's queue.
Launch(f) ==
    /\ At(f, "launching")
    /\ \E state \in {"pending"} \cup (IF Heartbeat THEN {"waiting"} ELSE {}) :
            turn' = [turn EXCEPT ![fiber[f].run] = state]
    /\ Rest(f)
    /\ UNCHANGED <<scheduling, runs, planned, tree, definition, troubles>>

\* The statuses that markRunFailed, markRunSucceeded and markRunInterrupted may replace.
Open == Active \cup {"skipped"}

\* Mutant of FailedFor: the result is written whatever the row says.
FailedAnyway(f) == TRUE

\* Only the fiber whose failure, or one like it, is in the row goes on.
FailedFor(f) == runs'[fiber[f].run].status = "failed"

MarkFailed(f) ==
    /\ At(f, "failing")
    /\ Mark(fiber[f].run, Open, "failed")
    /\ IF FailedFor(f) THEN GoesWith(f, "result", "failed") ELSE Rest(f)
    /\ UNCHANGED <<scheduling, planned, engine, definition, troubles>>

\* Mutant of ResultOf: the result is called what the verdict was.
ResultAsNoted(note) == note

ResultOf(note) ==
    CASE note = "running" -> "none" [] note = "retired" -> "interrupted" [] OTHER -> note

\* markRunResult, on behalf of whoever marked the run.
WriteResult(f) ==
    LET note == fiber[f].note IN
    /\ At(f, "result")
    /\ MarkResult(fiber[f].run, ResultOf(note))
    /\ IF note \in {"failed", "interrupted"} THEN Goes(f, "settling")
       ELSE IF note = "skipped" THEN fiber' = [fiber EXCEPT ![f].at = "advancing", ![f].run = 0]
       ELSE Rest(f)
    /\ UNCHANGED <<scheduling, planned, engine, definition, troubles>>

\* A stop check is queued unless the server has one of this run, with the row just read.
Queued(s, r) ==
    IF \E job \in jobs[s] : job.run = r THEN jobs
    ELSE [jobs EXCEPT ![s] = @ \cup {[run |-> r, stale |-> FALSE]}]

\* maybeStopLoop
StopLoop(f) ==
    LET stops == CapReached(def) \/ (Run(f).status = "failed" /\ plan.stopOnError)
        checks == ~CapReached(def) /\ Run(f).status = "succeeded" /\ Heartbeat /\ plan.stopCheck
        live == def.enabled /\ ~def.archived
    IN  /\ At(f, "settling")
        /\ jobs' = IF live /\ checks THEN Queued(f[1], fiber[f].run) ELSE jobs
        /\ IF live /\ stops THEN Goes(f, "stopping") ELSE Rest(f)
        /\ UNCHANGED <<scheduling, rows, def, troubles>>

DisableStopped(f) ==
    /\ At(f, "stopping")
    /\ WriteDef(Disabled)
    /\ Rest(f)
    /\ UNCHANGED <<scheduling, rows, troubles>>

-----------------------------------------------------------------------------------
\* Calls of users.

RunNow(s) ==
    LET f == <<s, "caller">> IN
    /\ At(f, "idle") /\ Trouble("runNow") /\ ~def.archived
    /\ fiber' = [fiber EXCEPT ![f].at = IF Heartbeat THEN "counting" ELSE "restarting",
                              ![f].def = def, ![f].time = clock]
    /\ UNCHANGED <<scheduling, rows, definition>>

\* restartExhaustedBoundedDefinition: a loop at its cap starts over.
RestartLoop(f) ==
    LET next == IF plan.schedule = "once" THEN 0 ELSE fiber[f].time + Every
    IN  /\ At(f, "restarting")
        /\ IF CapReached(fiber[f].def)
           THEN WriteDef([def EXCEPT !.enabled = next # 0, !.count = 0, !.next = next])
           ELSE UNCHANGED definition
        /\ Goes(f, "creating")
        /\ UNCHANGED <<scheduling, rows, troubles>>

CreateManual(f) ==
    /\ At(f, "creating") /\ f[2] = "caller"
    /\ CreateRun("manual", fiber[f].time, PlannedThread, 0)
    /\ IF runs' # runs
       THEN fiber' = [fiber EXCEPT ![f].at = "incrementing", ![f].run = Len(runs')]
       ELSE Rest(f)
    /\ UNCHANGED <<scheduling, definition, troubles>>

\* cancelRun is for one run; deleting an automation first cancels its active runs.
Cancel(s) ==
    LET f == <<s, "caller">> IN
    /\ At(f, "idle")
    /\ \/ Trouble("cancel") /\ \E r \in DOMAIN runs :
            fiber' = [fiber EXCEPT ![f].at = "cancelling", ![f].left = {r}, ![f].note = "cancel"]
       \/ /\ Trouble("delete")
          /\ fiber' = [fiber EXCEPT ![f].at = "cancelling", ![f].def = def,
                                    ![f].left = {r \in DOMAIN runs : IsActive(r)}]
    /\ UNCHANGED <<scheduling, rows, definition>>

\* cancelRunById, of one run after the other.
CancelRun(f) ==
    /\ At(f, "cancelling")
    /\ \E r \in fiber[f].left :
        /\ Mark(r, Active, "cancelled")
        /\ fiber' = [fiber EXCEPT ![f].left = @ \ {r}, ![f].run = r,
                ![f].at = IF runs'[r].status = "cancelled" THEN "cancelled" ELSE @]
    /\ UNCHANGED <<scheduling, planned, engine, definition, troubles>>

WriteCancelled(f) ==
    /\ At(f, "cancelled")
    /\ MarkResult(fiber[f].run, "cancelled")
    /\ Goes(f, "cancelling")
    /\ UNCHANGED <<scheduling, planned, engine, definition, troubles>>

\* archiveDefinition ends a deletion.
EndCancelling(f) ==
    /\ At(f, "cancelling") /\ fiber[f].left = {}
    /\ IF fiber[f].note = "cancel" THEN UNCHANGED definition
       ELSE WriteDef([def EXCEPT !.archived = TRUE, !.enabled = FALSE])
    /\ Rest(f)
    /\ UNCHANGED <<scheduling, rows, troubles>>

\* update reads the row; an automation that would be enabled needs a time to come.
Edit(s, kind) ==
    LET f == <<s, "caller">>
        enabled == IF kind = "rename" THEN def.enabled ELSE kind = "enable"
    IN  /\ At(f, "idle") /\ Trouble(kind) /\ ~def.archived
        /\ enabled => NextFrom(clock) # 0
        /\ fiber' = [fiber EXCEPT ![f].at = "saving", ![f].time = clock,
                                  ![f].def = [def EXCEPT !.enabled = enabled]]
        /\ UNCHANGED <<scheduling, rows, definition>>

\* saveDefinition writes every column but the count of iterations.
SaveEdit(f) ==
    LET row == fiber[f].def
        next == IF row.next # 0 THEN row.next ELSE NextFrom(fiber[f].time)
    IN  /\ At(f, "saving")
        /\ WriteDef([row EXCEPT !.next = next, !.count = def.count])
        /\ Rest(f)
        /\ UNCHANGED <<scheduling, rows, troubles>>

-----------------------------------------------------------------------------------
\* reconcileThread, recoverPendingRuns and the limit on a run's time.

\* The states of a turn in which nothing of the run shows: a message that waits in the queue has
\* no row, and the latest turn of a thread is never one that has not begun.
Unseen == IF Heartbeat THEN {"none", "waiting", "dropped"}
          ELSE {"none", "waiting", "dropped", "pending", "stuck"}

\* The reactor looks at a run when its thread changes, and the scheduler at all of them.
ReadRun(f, r) ==
    /\ At(f, "idle") /\ fiber[f].left = {}
    /\ \/ f[2] = "watcher" /\ UNCHANGED troubles
       \/ f[2] = "scheduler" /\ Trouble("sweep")
    /\ IsActive(r) /\ runs[r].thread # "none"
    /\ fiber' = [fiber EXCEPT ![f].at = "reading", ![f].run = r, ![f].note = runs[r].status]
    /\ UNCHANGED <<scheduling, rows, definition>>

\* What the turn, read after the run, makes of it.
Verdict(f) ==
    LET state == turn[fiber[f].run]
        waits == fiber[f].note = "waiting"
    IN  CASE state = "asking" -> IF waits THEN "same" ELSE "waiting"
          [] state \in Unseen -> IF waits /\ ~Heartbeat THEN "running" ELSE "same"
          [] state \in {"pending", "running", "stuck"} -> IF waits THEN "running" ELSE "same"
          [] state = "completed" -> "succeeded"
          [] state = "error" -> "failed"
          [] state = "interrupted" -> "interrupted"

ReadTurn(f) ==
    /\ At(f, "reading")
    /\ IF Verdict(f) = "same" THEN Rest(f) ELSE GoesWith(f, "marking", Verdict(f))
    /\ UNCHANGED <<scheduling, rows, definition, troubles>>

\* markRunSucceeded writes the result as well.
MarkVerdict(f) ==
    LET r == fiber[f].run
        note == fiber[f].note
    IN  /\ At(f, "marking")
        /\ \/ note = "waiting" /\ Mark(r, {"pending", "running"}, note)
           \/ note = "running" /\ Mark(r, Startable, note)
           \/ note \in {"failed", "interrupted"} /\ Mark(r, Open, note)
           \/ /\ note = "succeeded"
              /\ runs' = IF runs[r].status \in Open
                         THEN [runs EXCEPT ![r].status = note, ![r].result = note,
                                           ![r].evaluated = "no"]
                         ELSE runs
        /\ Goes(f, IF note = "succeeded" THEN "settling" ELSE "result")
        /\ UNCHANGED <<scheduling, planned, engine, definition, troubles>>

\* failRunForTimeout: a run that was started has been at work for too long.
TimeOut(s) ==
    LET f == <<s, "scheduler">> IN
    /\ At(f, "idle") /\ plan.timed /\ Trouble("sweep")
    /\ \E r \in DOMAIN runs :
        /\ runs[r].status \in {"running", "waiting"}
        /\ fiber' = [fiber EXCEPT ![f].at = "failing", ![f].run = r]
    /\ UNCHANGED <<scheduling, rows, definition>>

\* Mutant of Recoverable: a run that was started is left to its turn.
NotStarted(r) == runs[r].status = "pending"

Recoverable(r) == IsActive(r)

\* Recovery lists what is active when it gets to it: the scheduler is already at work.
ListRecoverable(f) ==
    /\ At(f, "booting")
    /\ fiber' = [fiber EXCEPT ![f] = [Idle EXCEPT !.left = {r \in DOMAIN runs : Recoverable(r)}]]
    /\ UNCHANGED <<scheduling, rows, definition, troubles>>

\* A run of whose turn nothing shows is retired, any other is reconciled.
Recover(f) ==
    /\ At(f, "idle") /\ f[2] = "watcher"
    /\ \E r \in fiber[f].left :
        LET position == IF runs[r].thread = "none" \/ turn[r] \in Unseen THEN "retiring"
                        ELSE IF IsActive(r) THEN "reading" ELSE "idle"
        IN  /\ \A other \in fiber[f].left : r <= other
            /\ fiber' = [fiber EXCEPT ![f].left = @ \ {r}, ![f].run = r,
                    ![f].note = runs[r].status, ![f].at = position]
    /\ UNCHANGED <<scheduling, rows, definition, troubles>>

Retire(f) ==
    /\ At(f, "retiring")
    /\ Mark(fiber[f].run, Open, "interrupted")
    /\ IF runs'[fiber[f].run].status = "interrupted" THEN GoesWith(f, "result", "retired") ELSE Rest(f)
    /\ UNCHANGED <<scheduling, planned, engine, definition, troubles>>

-----------------------------------------------------------------------------------
\* evaluateCompletionPolicy

\* enqueuePendingCompletionEvaluations, after a pass, a recovery or a job.
EnqueueChecks(s) ==
    /\ s \in up
    /\ \E r \in DOMAIN runs : StopCheckPending(r) /\ jobs' = Queued(s, r) /\ jobs' # jobs
    /\ UNCHANGED <<scheduling, rows, def, fiber, troubles>>

TakeJob(s) ==
    LET f == <<s, "evaluator">> IN
    /\ At(f, "idle")
    /\ \E job \in jobs[s] :
            fiber' = [fiber EXCEPT ![f].at = "evaluating", ![f].run = job.run]
    /\ UNCHANGED <<scheduling, rows, definition, troubles>>

\* loadCurrentStopDefinition: the row is as it was when the job was made, and still enabled.
PolicyCurrent(f) ==
    /\ [run |-> fiber[f].run, stale |-> FALSE] \in jobs[f[1]]
    /\ def.enabled /\ ~def.archived

\* The model says that the condition holds, or that it does not; or it fails or hangs.
Evaluate(f) ==
    /\ At(f, "evaluating")
    /\ \/ PolicyCurrent(f) /\ Goes(f, "matching")
       \/ GoesWith(f, "recording", "yes")
    /\ UNCHANGED <<scheduling, rows, definition, troubles>>

\* Mutant of Found: whether the update changed a row is not looked at.
FoundAnyway(disabled) == "matched"

Found(disabled) == IF disabled THEN "matched" ELSE "yes"

\* disableDefinitionIfUnchanged comes before the record that ends the stop check.
DisableMatched(f) ==
    /\ At(f, "matching")
    /\ IF PolicyCurrent(f) THEN WriteDef(Disabled) ELSE UNCHANGED definition
    /\ GoesWith(f, "recording", Found(PolicyCurrent(f)))
    /\ UNCHANGED <<scheduling, rows, troubles>>

\* recordCompletionEvaluation, or a failure of it; the run is forgotten either way.
Record(f) ==
    LET r == fiber[f].run IN
    /\ At(f, "recording")
    /\ \/ runs' = [runs EXCEPT ![r].evaluated = fiber[f].note] /\ UNCHANGED troubles
       \/ Trouble("fault") /\ UNCHANGED runs
    /\ jobs' = [jobs EXCEPT ![f[1]] = {job \in @ : job.run # r}]
    /\ Rest(f)
    /\ UNCHANGED <<scheduling, planned, engine, def>>

-----------------------------------------------------------------------------------
\* Crashes and restarts of servers, time, and turns.

Settled(state) ==
    CASE state = "waiting" -> "dropped"
      [] state = "pending" -> "stuck"
      [] state \in {"running", "asking"} -> "interrupted"
      [] OTHER -> state

\* The turns that a server gives to its providers end with it, and its lease is one of a process
\* that will not come back.
Crash(s) ==
    /\ s \in up /\ Trouble("crash")
    /\ up' = up \ {s}
    /\ fiber' = [f \in Fibers |-> IF f[1] = s THEN Idle ELSE fiber[f]]
    /\ jobs' = [jobs EXCEPT ![s] = {}]
    /\ lease' = IF lease.owner = {s} THEN [lease EXCEPT !.owner = {}] ELSE lease
    /\ \E lost \in SUBSET DOMAIN runs :
        /\ up = {s} => lost = DOMAIN runs
        /\ turn' = [r \in DOMAIN runs |-> IF r \in lost THEN Settled(turn[r]) ELSE turn[r]]
    /\ UNCHANGED <<clock, plan, overlapped, runs, planned, tree, def>>

Boot(s) ==
    /\ s \in plan.servers \ up
    /\ up' = up \cup {s}
    /\ fiber' = [fiber EXCEPT ![<<s, "watcher">>] = Booting]
    /\ UNCHANGED <<clock, plan, lease, overlapped, rows, definition, troubles>>

Tick ==
    /\ clock < plan.horizon
    /\ clock' = clock + 1
    /\ UNCHANGED <<plan, lease, up, overlapped, rows, definition, fiber, troubles>>

\* A message that waits is sent and its turn runs, may ask the user, and ends.
Moves == [waiting |-> {"pending"}, pending |-> {"running"},
          running |-> {"asking", "completed", "error", "interrupted"},
          asking |-> {"running", "completed", "error", "interrupted"}]

TurnMoves(r) ==
    /\ turn[r] \in DOMAIN Moves
    /\ \E state \in Moves[turn[r]] :
        /\ turn' = [turn EXCEPT ![r] = state]
        /\ IF state = "asking" THEN Trouble("ask") ELSE UNCHANGED troubles
    /\ UNCHANGED <<scheduling, runs, planned, tree, definition, fiber>>

\* The queue loses the message, or the provider refuses the turn: the pending row stays.
TurnLost(r) ==
    /\ \/ turn[r] = "waiting" /\ Trouble("drop") /\ turn' = [turn EXCEPT ![r] = "dropped"]
       \/ turn[r] = "pending" /\ Trouble("start") /\ turn' = [turn EXCEPT ![r] = "stuck"]
    /\ UNCHANGED <<scheduling, runs, planned, tree, definition, fiber>>

-----------------------------------------------------------------------------------
Pass(f) ==
    \/ DisableCapped(f) \/ CountActive(f) \/ CheckPending(f)
    \/ RecordMissed(f) \/ MarkSkipped(f) \/ CreateDue(f) \/ Advance(f) \/ IncrementIterations(f)

Dispatch(f) ==
    \/ MarkStarted(f) \/ CheckBeforeTree(f) \/ MakeTree(f) \/ CheckBeforeThread(f)
    \/ CreateThread(f) \/ CheckBeforeTurn(f) \/ Launch(f)

Settle(f) == MarkFailed(f) \/ WriteResult(f) \/ StopLoop(f) \/ DisableStopped(f)

Call(f) ==
    \/ RestartLoop(f) \/ CreateManual(f)
    \/ CancelRun(f) \/ WriteCancelled(f) \/ EndCancelling(f) \/ SaveEdit(f)

Watch(f) == ReadTurn(f) \/ MarkVerdict(f) \/ ListRecoverable(f) \/ Recover(f) \/ Retire(f)

Check(f) == Evaluate(f) \/ DisableMatched(f) \/ Record(f)

\* What a fiber does by itself once it is at work.
Works(f) == Pass(f) \/ Dispatch(f) \/ Settle(f) \/ Call(f) \/ Watch(f) \/ Check(f)

Next ==
    \/ \E f \in Fibers : Works(f) \/ DispatchFails(f)
    \/ \E f \in Fibers, r \in DOMAIN runs : ReadRun(f, r)
    \/ \E s \in Servers : StartPass(s) \/ TimeOut(s) \/ EnqueueChecks(s) \/ TakeJob(s)
    \/ \E s \in Servers : RunNow(s) \/ Cancel(s) \/ Crash(s) \/ Boot(s)
    \/ \E s \in Servers, kind \in {"enable", "disable", "rename"} : Edit(s, kind)
    \/ \E r \in DOMAIN runs : TurnMoves(r) \/ TurnLost(r)
    \/ Tick

Spec == Init /\ [][Next]_vars

\* The runtime gives every fiber its turn, a server that stopped is started again, schedulers
\* wake, time goes on, a turn that begins ends, and its events bring the reactor to its run.
FairSpec ==
    /\ Spec
    /\ \A f \in Fibers : WF_vars(Works(f))
    /\ \A s \in Servers :
        /\ WF_vars(Boot(s)) /\ SF_vars(StartPass(s)) /\ WF_vars(TakeJob(s))
        /\ WF_vars(EnqueueChecks(s))
        /\ \A r \in 1 .. MaxRuns : SF_vars(r \in DOMAIN runs /\ ReadRun(<<s, "watcher">>, r))
    /\ \A r \in 1 .. MaxRuns : WF_vars(r \in DOMAIN runs /\ TurnMoves(r))
    /\ WF_vars(Tick)
=============================================================================
