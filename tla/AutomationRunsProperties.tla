------------------------- MODULE AutomationRunsProperties -------------------------
(***************************************************************************)
(* What AutomationService.ts and its tables are to keep to, for one        *)
(* automation on servers that may crash, with a user who may act at any    *)
(* moment.                                                                 *)
(***************************************************************************)
EXTENDS AutomationRuns

Row == [enabled: BOOLEAN, archived: BOOLEAN, next: Nat, count: Nat]

RunRow == [trigger: {"scheduled", "manual"}, slot: Nat, thread: {"target", "own", "none"},
           status: Statuses, result: Outcomes, evaluated: {"no", "yes", "matched"}]

\* The type of every variable.
TypeOK ==
    /\ clock \in 0 .. plan.horizon /\ plan \in Plans /\ def \in Row
    /\ runs \in Seq(RunRow)
    /\ lease \in [owner: SUBSET Servers, until: Nat]
    /\ \A f \in Fibers : fiber[f].run \in 0 .. Len(runs) /\ fiber[f].left \subseteq DOMAIN runs
    /\ \A s \in Servers : \A job \in jobs[s] : job.run \in DOMAIN runs /\ job.stale \in BOOLEAN
    /\ DOMAIN turn = DOMAIN runs /\ DOMAIN tree = DOMAIN runs /\ DOMAIN planned = DOMAIN runs
    /\ up \subseteq plan.servers /\ overlapped \in BOOLEAN /\ troubles \subseteq plan.possible

Launched(r) == turn[r] # "none"

Edits == {"enable", "disable", "rename"}

\* No occurrence of a schedule is run twice, whoever crashes, however passes overlap and whatever
\* edit puts an old time back: runDueDefinition and the unique index.  A misfire policy of
\* run-latest is left out where it breaks this.
OncePerOccurrence ==
    plan.misfire # "run-latest" \/ (~overlapped /\ Edits \cap troubles = {}) =>
    \A r, q \in DOMAIN runs :
        r # q /\ planned[r] = planned[q] => planned[r] = 0 \/ ~Launched(r) \/ ~Launched(q)

\* A thread has one run at a time that is not settled, also where the scheduler, another server's
\* scheduler and a user's run-now claim it together: createRun.
ThreadExclusive == Cardinality(Busy("target")) <= 1

\* A run that is settled stays as it is, whatever a dispatch, a reconciliation, a recovery, a
\* timeout or a cancellation still does: the guards of AutomationRepository's updates.  They let
\* a skipped run, which is no work, be called interrupted.
FinalStays ==
    [][\A r \in DOMAIN runs : runs[r].status \in Final \ {"skipped"} => runs'[r].status = runs[r].status]_vars

\* A run that succeeded is never shown with a failure or a cancellation that came too late:
\* failRunForTimeout, cancelRunById, dispatchRun.
SucceededResultStands ==
    \A r \in DOMAIN runs :
        runs[r].status = "succeeded" => runs[r].result \notin {"failed", "cancelled", "skipped"}

\* A worktree that was made for a run is attached to its thread or removed, unless the server dies
\* before it gets there: cleanupUnattachedWorktree.
NoOrphanTree ==
    \A r \in DOMAIN runs :
        tree[r] = "made" /\ "crash" \notin troubles =>
            \E f \in Fibers : fiber[f].run = r /\ fiber[f].at \in {"threadCheck", "creatingThread"}

Launching(r) == \E f \in Fibers : fiber[f].at = "launching" /\ fiber[f].run = r

\* A run that is settled before the last check of its dispatch is never given to a provider:
\* dispatchRun, against a cancellation, a timeout and a recovery.
SettledNotLaunched ==
    [][\A r \in DOMAIN runs :
        ~IsActive(r) /\ ~Launched(r) /\ ~Launching(r) => ~Launching(r)' /\ ~Launched(r)']_vars

\* While it is being asked whether a heartbeat is done the scheduler starts no other one, also
\* where its run ended after the automation was listed: heartbeatThreadRunState.  A run of the
\* user's or of another pass may come between that and the new row; a late write of another
\* result, or of an edit, may open a check again.
HeartbeatWaitsForCheck ==
    [][/\ \E r \in DOMAIN runs : StopCheckPending(r) /\ runs[r].result = "succeeded"
       /\ ({"runNow"} \cup Edits) \cap troubles = {} /\ ~overlapped
       => \A r \in DOMAIN runs' \ DOMAIN runs : runs'[r].thread = "none"]_vars

\* Once a stop condition is noted as met the automation is off, unless a user turns it on or
\* wrote back what was read before: disableDefinitionForCompletionMatch.
StopStands ==
    (\E r \in DOMAIN runs : runs[r].evaluated = "matched")
        /\ troubles \cap {"enable", "rename", "runNow"} = {} => ~def.enabled

Runnable == def.enabled /\ ~def.archived /\ def.next # 0 /\ def.next <= clock

\* A schedule moves on: what is due is run, skipped or switched off, also where a stop check, a
\* run that does not end or a crash stands in its way: runDueOnce.  The lease of a process that is
\* gone must expire before the bounded clock stops.
ScheduleMoves ==
    Runnable ~> (~Runnable \/ (lease.owner = {} /\ lease.until > plan.horizon))

Unsettled(r) == r \in DOMAIN runs /\ IsActive(r)

Lost(r) == r \in DOMAIN runs /\ turn[r] \in {"dropped", "stuck"}

\* A run is settled in the end, also where servers stop: recoverPendingRuns and reconcileThread.
\* One whose message was lost by the queue, or refused by the provider, is left out.
RunsSettle == \A r \in 1 .. MaxRuns : Unsettled(r) ~> (~Unsettled(r) \/ Lost(r))

\* An automation that is to run once is launched once: plans/002, "One-shot due runs are not
\* duplicated across repeated scheduler passes/restarts".
OnceMeansOnce ==
    plan.schedule = "once" =>
        Cardinality({r \in DOMAIN runs : runs[r].trigger = "scheduled" /\ Launched(r)}) <= 1
=============================================================================
