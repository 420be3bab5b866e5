--------------------------- MODULE ProjectionPipeline ---------------------------
(***************************************************************************)
(* The projection tables that ProjectionPipeline.ts derives from the       *)
(* orchestration event log, as operators over the log, the replay cursors  *)
(* and the rows.  The ten projectors of the code fall into three groups    *)
(* that differ in what the properties can see:                             *)
(*                                                                         *)
(*   "projects"   projection.projects: upserts project rows;               *)
(*   "chat"       the thread, message, plan, activity, session and         *)
(*                checkpoint projectors;                                   *)
(*   "summaries"  projection.thread-shell-summaries, the one deferred      *)
(*                projector, which skips events that touch no summary.     *)
(*                                                                         *)
(* The turn and pending-approval projectors keep cursors of their own that *)
(* nothing here resets; they are left out.                                 *)
(***************************************************************************)
EXTENDS Integers, Sequences

CONSTANTS
    ReadLimit,      \* events one readFromSequence call returns at most
    Aggregates      \* project and thread ids

ASSUME ReadLimitAssumption == ReadLimit \in Nat \ {0}

(***************************************************************************)
(* What an event does to the tables.  "project" stands for the project     *)
(* metadata events, "created" for thread.created, "delta" for a streaming  *)
(* thread.message-sent, whose text is appended to the stored row, and      *)
(* "refresh" for the events that rewrite a row and recompute the thread's  *)
(* shell summary (user messages, session changes, turn diffs).             *)
(***************************************************************************)
Kinds == {"project", "created", "delta", "refresh"}

\* What brings an aggregate into being.
Creations == {"project", "created"}

EventBody == [kind: Kinds, of: Aggregates]

Projectors == {"projects", "chat", "summaries"}

\* The order bootstrap visits the projectors in.
Rank == [p \in Projectors |->
            CASE p = "projects" -> 1 [] p = "chat" -> 2 [] p = "summaries" -> 3]

ShouldRefreshSummary(event) == event.kind = "refresh"

ShouldApply(p, event) == p = "summaries" => ShouldRefreshSummary(event)

\* The group whose tables hold what an event says.
RowsOf(event) == IF event.kind = "project" THEN "projects" ELSE "chat"

\* How often a row shows an event after one more application: streaming text
\* is appended again, every other write replaces what it finds.
Reflect(event, times) == IF event.kind = "delta" THEN times + 1 ELSE 1

\* The last sequence one replay of p reads: readFromSequence with its default limit.
Reach(log, cursors, p) ==
    IF cursors[p] + ReadLimit < Len(log) THEN cursors[p] + ReadLimit ELSE Len(log)

\* Where the cursors stand after a bootstrap that finishes: trailing events the
\* projector skips move its cursor too.
FullReplay(log, cursors) == [p \in Projectors |-> Reach(log, cursors, p)]

\* Where they may stand after a bootstrap that fails in projector q: the projectors
\* before q are done, those after q untouched, and q stopped after some event it applies.
PartialReplays(log, cursors) ==
    UNION {{[p \in Projectors |-> IF p = q THEN n
                                  ELSE IF Rank[p] < Rank[q] THEN Reach(log, cursors, p)
                                  ELSE cursors[p]] :
              n \in {cursors[q]} \cup
                    {i \in cursors[q] + 1 .. Reach(log, cursors, q) : ShouldApply(q, log[i])}} :
           q \in Projectors}

\* runProjectorForEvent over the events each group replays from `from` to `to`.
ReplayedRows(log, rows, from, to) ==
    [i \in 1..Len(log) |->
        LET owner == RowsOf(log[i])
        IN  IF from[owner] < i /\ i <= to[owner] THEN Reflect(log[i], rows[i]) ELSE rows[i]]

\* thread.created rewrites the thread row without its summary; a summary event
\* recomputes the summary from all the rows there are.
ReplayedSummaries(log, summaryAt, from, to) ==
    [t \in Aggregates |->
        IF \E i \in from["summaries"] + 1 .. to["summaries"] :
              ShouldRefreshSummary(log[i]) /\ log[i].of = t
        THEN Len(log)
        ELSE IF \E i \in from["chat"] + 1 .. to["chat"] : log[i].kind = "created" /\ log[i].of = t
             THEN 0
             ELSE summaryAt[t]]

\* computeSnapshotSequence: the lowest of the cursors a snapshot depends on.
ComputeSnapshotSequence(cursors) ==
    CHOOSE n \in {cursors[p] : p \in Projectors} : \A p \in Projectors : n <= cursors[p]

\* projectEvent over the events first..last on the in-memory read model: a
\* thread.created among them starts its thread afresh, with no messages.
ProjectedModel(log, model, first, last) ==
    LET Restarts(j, i) == log[j].kind = "created" /\ log[j].of = log[i].of
    IN  [i \in 1..Len(log) |->
            IF log[i].kind = "delta" /\ \E j \in first..last : i < j /\ Restarts(j, i) THEN 0
            ELSE IF i \notin first..last THEN model[i]
            ELSE IF \E j \in first..i : Restarts(j, i) THEN 1
            ELSE Reflect(log[i], model[i])]

\* getCommandReadModel: the model as the rows have it, with no message loaded.
LoadedModel(log, rows) ==
    [i \in 1..Len(log) |-> IF log[i].kind = "delta" \/ rows[i] = 0 THEN 0 ELSE 1]
=================================================================================
