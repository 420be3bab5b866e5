------------------------------- MODULE MCServerParts -------------------------------
(* Instances of four parts that share no state.  A behaviour is one of one of  *)
(* them: `part` says of which, and the others stand still.                     *)
EXTENDS KeyedSingleFlightCache, DrainableWorker, ThreadView, Checkpoints

CONSTANTS k1, k2, c1, c2

VARIABLE part

\* Three events, so that one can be lost between two; a stream that is lost, or a thread that is
\* closed; replays; a replay that fails.
SmallBudgets == {
    [events |-> 3, replays |-> 0, troubles |-> 0],
    [events |-> 2, replays |-> 0, troubles |-> 1],
    [events |-> 2, replays |-> 1, troubles |-> 0],
    [events |-> 1, replays |-> 1, troubles |-> 1]}

\* Three turns and a revert, so that turn counts are given again after kept turns; two turns with
\* live diffs; a turn that may be interrupted, after an edit of the user, and a step that fails.
SmallPlans == {
    [turns |-> 3, diffs |-> 0, reverts |-> 1, faults |-> 0,
     stops |-> FALSE, user |-> FALSE, tracks |-> FALSE],
    [turns |-> 2, diffs |-> 1, reverts |-> 1, faults |-> 0,
     stops |-> FALSE, user |-> FALSE, tracks |-> TRUE],
    [turns |-> 1, diffs |-> 1, reverts |-> 1, faults |-> 1,
     stops |-> TRUE, user |-> TRUE, tracks |-> FALSE]}

PartsInit ==
    /\ part \in {"cache", "worker", "view", "checkpoints"}
    /\ CacheInit /\ WorkerInit /\ ViewInit /\ CheckpointsInit
    /\ part # "view" => budget.events = 1
    /\ part # "checkpoints" => plan.turns = 1

PartsNext ==
    /\ \/ part = "cache" /\ CacheNext /\ UNCHANGED <<workerVars, viewVars, checkpointVars>>
       \/ part = "worker" /\ WorkerNext /\ UNCHANGED <<cacheVars, viewVars, checkpointVars>>
       \/ part = "view" /\ ViewNext /\ UNCHANGED <<cacheVars, workerVars, checkpointVars>>
       \/ part = "checkpoints" /\ CheckpointsNext /\ UNCHANGED <<cacheVars, workerVars, viewVars>>
    /\ UNCHANGED part

partsVars == <<part, cacheVars, workerVars, viewVars, checkpointVars>>

PartsSpec ==
    /\ PartsInit /\ [][PartsNext]_partsVars
    /\ WorkerFairness /\ ViewFairness

ViewOnlySpec == PartsInit /\ part = "view" /\ [][PartsNext]_partsVars
=============================================================================
