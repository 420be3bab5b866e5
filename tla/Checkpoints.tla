-------------------------------- MODULE Checkpoints --------------------------------
(***************************************************************************)
(* The checkpoints of one thread: what ProviderCommandReactor captures     *)
(* before a turn, what CheckpointReactor captures around it and restores   *)
(* when the user reverts, and the rows of projection_turns that say which  *)
(* turn has which checkpoint, which ProviderRuntimeIngestion writes too.   *)
(* The turns are numbered as they are asked for; a message has the number  *)
(* of its turn.  A tree is the set of the turns whose edits it holds, and  *)
(* ByUser where it holds the edit of the user.                             *)
(***************************************************************************)
EXTENDS Integers, Sequences, FiniteSets, SequencesExt

CONSTANTS
    Turns,          \* 1 .. n
    Plans           \* bounds: of turns, diffs of a turn, reverts, faults; may turns be
                    \* interrupted, does the user edit, are the provider's diffs tracked

VARIABLES
    disk,           \* the workspace
    refs,           \* the checkpoint refs and their trees
    provider,       \* where its last turn is, and the conversation it remembers
    rows,           \* projection_turns
    active,         \* session.activeTurnId as projected, 0: null
    ingest,         \* inputs of ProviderRuntimeIngestion
    live,           \* the placeholder ingestion is about to dispatch
    tracked,        \* providerDiffPlaceholdersRef: turn count by turn, 0: none
    inbox,          \* inputs of CheckpointReactor
    work,           \* where its worker is
    edited,         \* history: the turns that changed files
    mishaps,        \* history: what the properties take exception to
    plan            \* what is left of the bounds

repository == <<disk, refs>>
ingestion == <<active, ingest, live, tracked>>
reactor == <<inbox, work>>
history == <<edited, mishaps>>
checkpointVars == <<repository, provider, rows, ingestion, reactor, history, plan>>

Plan == [turns: Turns \cup {0}, diffs: Nat, reverts: Nat, faults: Nat, stops: BOOLEAN,
         user: BOOLEAN, tracks: BOOLEAN]

ASSUME CheckpointsAssumption ==
    IsFiniteSet(Turns) /\ Turns = 1 .. Cardinality(Turns) /\ Plans \subseteq Plan

ByUser == 0
Trees == SUBSET (Turns \cup {ByUser})
TurnRef(count) == <<"turn", count>>
MessageStart(t) == <<"message", t>>
TurnStart(t) == <<"start", t>>

NoRow == [kind |-> "absent", count |-> 0, ready |-> FALSE, closed |-> FALSE, files |-> {}]
NoLive == [turn |-> 0, count |-> 0]
Rest == [at |-> "idle", n |-> 0, max |-> 0, ready |-> FALSE, files |-> {}, stale |-> {}]
Input(kind, n) == [kind |-> kind, n |-> n, ready |-> TRUE]

CheckpointsInit ==
    /\ disk = {} /\ refs = <<>>
    /\ provider = [at |-> "idle", turn |-> 0, thread |-> <<>>, diffs |-> 0]
    /\ rows = [t \in Turns |-> NoRow]
    /\ active = 0 /\ ingest = <<>> /\ live = NoLive /\ tracked = [t \in Turns |-> 0]
    /\ inbox = <<>> /\ work = Rest
    /\ edited = {} /\ mishaps = {} /\ plan \in Plans

\* captureCheckpoint: the tree of the workspace, whatever the ref named before.
WithRef(name, tree) == [r \in DOMAIN refs \cup {name} |-> IF r = name THEN tree ELSE refs[r]]
Capture(name) == refs' = WithRef(name, disk)
Exists(name) == name \in DOMAIN refs

Note(mishap, happens) == mishaps' = IF happens THEN mishaps \cup {mishap} ELSE mishaps

At(place) == work.at = place

\* Turns that have ended, and the reactor has not captured, or not given their checkpoint, yet.
Ended == {inbox[i].n : i \in {j \in 1 .. Len(inbox) : inbox[j].kind = "completed"}}
Uncaptured == Ended \cup (IF At("capturing") THEN {work.n} ELSE {})
Unrecorded == Uncaptured \cup (IF At("captured") THEN {work.n} ELSE {})

Fault ==
    /\ plan.faults > 0 /\ plan' = [plan EXCEPT !.faults = @ - 1]
    /\ mishaps' = mishaps \cup {"fault"}

-----------------------------------------------------------------------------------
\* The thread's checkpoints as getThreadDetailById reads them: rows with a count, closed.

Visible == {t \in Turns : rows[t].count > 0 /\ rows[t].closed}
MaxTurnCount(turns) == CHOOSE n \in {rows[t].count : t \in turns} \cup {0} :
                           \A t \in turns : rows[t].count <= n

\* clearCheckpointTurnConflict
Cleared(row, count) ==
    IF row.count = count
    THEN [row EXCEPT !.kind = "none", !.count = 0, !.ready = FALSE, !.files = {}] ELSE row

\* The projector of thread.turn-diff-completed; a provider's placeholder does not close a turn.
DiffCompleted(t, kind, count, ready, files) ==
    rows' = [u \in Turns |->
                IF u = t THEN [kind |-> kind, count |-> count, ready |-> ready, files |-> files,
                               closed |-> rows[t].closed \/ kind = "real"]
                ELSE Cleared(rows[u], count)]

-----------------------------------------------------------------------------------
\* The user, ProviderCommandReactor and the provider.

RevertPending == work.at \in {"restoring", "rolling", "deleting", "completing"}
                 \/ \E i \in 1 .. Len(inbox) : inbox[i].kind = "revert"

UserEdits ==
    /\ plan.user /\ provider.at = "idle" /\ ~RevertPending
    /\ disk' = disk \cup {ByUser} /\ plan' = [plan EXCEPT !.user = FALSE]
    /\ Note("capture late", Uncaptured # {})
    /\ UNCHANGED <<refs, provider, rows, ingestion, reactor, edited>>

\* A message starts a turn, at once or when the turn before it has ended.
AskTurn ==
    LET t == provider.turn + 1
    IN  /\ provider.at = "idle" /\ t <= plan.turns /\ ~RevertPending
        /\ provider' = [provider EXCEPT !.at = "asked", !.turn = t, !.diffs = 0]
        /\ inbox' = inbox \o <<Input("message", t), Input("start", t)>>
        /\ UNCHANGED <<repository, rows, ingestion, work, history, plan>>

\* Mutant of CaptureMessageStart: the reactor's own capture is thought to be enough.
NoCapture ==
    /\ provider.at = "asked" /\ provider' = [provider EXCEPT !.at = "hooked"]
    /\ UNCHANGED <<repository, rows, ingestion, reactor, history, plan>>

\* captureMessageStartCheckpoint, before the turn is sent.
CaptureMessageStart ==
    /\ provider.at = "asked"
    /\ Capture(MessageStart(provider.turn))
    /\ provider' = [provider EXCEPT !.at = "hooked"]
    /\ UNCHANGED <<disk, rows, ingestion, reactor, history, plan>>

\* A capture that fails is logged, and the turn is sent.
CaptureMessageStartFails ==
    /\ provider.at = "asked" /\ Fault
    /\ provider' = [provider EXCEPT !.at = "hooked"]
    /\ UNCHANGED <<repository, rows, ingestion, reactor, edited>>

SendTurn ==
    /\ provider.at = "hooked"
    /\ provider' = [provider EXCEPT !.at = "running", !.thread = Append(@, provider.turn)]
    /\ inbox' = Append(inbox, Input("started", provider.turn))
    /\ ingest' = Append(ingest, Input("started", provider.turn))
    /\ UNCHANGED <<repository, rows, active, live, tracked, work, history, plan>>

\* The provider changes files.  The reactor may be behind: with the backup of the message's
\* start, which it has found missing, with the capture of the turn before, or with anything.
EditFiles ==
    LET t == provider.turn
    IN  /\ provider.at = "running" /\ t \notin edited
        /\ disk' = disk \cup {t} /\ edited' = edited \cup {t}
        /\ mishaps' = mishaps
             \cup (IF work.at = "backup" THEN {"backup late"} ELSE {})
             \cup (IF Uncaptured # {} THEN {"capture late"} ELSE {})
             \cup (IF work # Rest \/ inbox # <<>> THEN {"reactor late"} ELSE {})
        /\ UNCHANGED <<refs, provider, rows, ingestion, reactor, plan>>

UpdateDiff ==
    /\ provider.at = "running" /\ provider.turn \in disk /\ provider.diffs < plan.diffs
    /\ provider' = [provider EXCEPT !.diffs = @ + 1]
    /\ ingest' = Append(ingest, Input("diff", provider.turn))
    /\ UNCHANGED <<repository, rows, active, live, tracked, reactor, history, plan>>

EndTurn ==
    /\ provider.at = "running"
    /\ \E ready \in {TRUE, ~plan.stops} :
          LET end == [Input("completed", provider.turn) EXCEPT !.ready = ready]
          IN  inbox' = Append(inbox, end) /\ ingest' = Append(ingest, end)
    /\ provider' = [provider EXCEPT !.at = "idle"]
    /\ UNCHANGED <<repository, rows, active, live, tracked, work, history, plan>>

\* onRevertToTurnCount: not while a turn is live or being sent, as far as the client can see.
RequestRevert ==
    /\ plan.reverts > 0 /\ provider.at = "idle" /\ active = 0 /\ ingest = <<>>
    /\ \E t \in Visible : inbox' = Append(inbox, Input("revert", rows[t].count - 1))
    /\ plan' = [plan EXCEPT !.reverts = @ - 1]
    /\ UNCHANGED <<repository, provider, rows, ingestion, work, history>>

-----------------------------------------------------------------------------------
\* ProviderRuntimeIngestion

NextIs(kind) == ingest # <<>> /\ Head(ingest).kind = kind

IngestStarted ==
    LET t == Head(ingest).n
    IN  /\ NextIs("started")
        /\ ingest' = Tail(ingest) /\ active' = t
        /\ rows' = IF rows[t].kind = "absent" THEN [rows EXCEPT ![t].kind = "none"] ELSE rows
        /\ UNCHANGED <<repository, provider, live, tracked, reactor, history, plan>>

\* The newest turn that is still open is closed with the session.
NewestOpen == {t \in Turns : rows[t].kind # "absent" /\ ~rows[t].closed
                             /\ \A u \in Turns : u > t => rows[u].kind = "absent" \/ rows[u].closed}

IngestCompleted ==
    /\ NextIs("completed")
    /\ ingest' = Tail(ingest) /\ active' = 0
    /\ rows' = [t \in Turns |-> IF t \in NewestOpen THEN [rows[t] EXCEPT !.closed = TRUE]
                                                    ELSE rows[t]]
    /\ tracked' = [tracked EXCEPT ![Head(ingest).n] = 0]
    /\ UNCHANGED <<repository, provider, live, reactor, history, plan>>

\* Mutant of Authoritative: a captured checkpoint is written over.
NeverAuthoritative(t) == FALSE

\* Has the turn a checkpoint that no live diff may replace?
Authoritative(t) == t \in Visible /\ rows[t].kind = "real"

PlaceholderCount(t) ==
    CASE tracked[t] > 0 -> tracked[t]
      [] tracked[t] = 0 /\ t \in Visible -> rows[t].count
      [] OTHER -> MaxTurnCount(Visible) + 1

\* A live diff is read against the thread ...
ReadDiff ==
    LET t == Head(ingest).n
    IN  /\ NextIs("diff") /\ live = NoLive
        /\ IF Authoritative(t)
           THEN ingest' = Tail(ingest) /\ tracked' = [tracked EXCEPT ![t] = 0] /\ UNCHANGED live
           ELSE live' = [turn |-> t, count |-> PlaceholderCount(t)] /\ UNCHANGED <<ingest, tracked>>
        /\ Note("overtaken", Unrecorded \ {t} # {})
        /\ UNCHANGED <<repository, provider, rows, active, reactor, edited, plan>>

\* ... and becomes a placeholder in a later transaction.
DispatchPlaceholder ==
    /\ live # NoLive
    /\ DiffCompleted(live.turn, "diff", live.count, FALSE, {})
    /\ ingest' = Tail(ingest) /\ live' = NoLive
    /\ tracked' = IF plan.tracks THEN [tracked EXCEPT ![live.turn] = live.count] ELSE tracked
    /\ UNCHANGED <<repository, provider, active, reactor, history, plan>>

-----------------------------------------------------------------------------------
\* CheckpointReactor: the worker takes one input after the other.

Takes(kind) == work = Rest /\ inbox # <<>> /\ Head(inbox).kind = kind
Goes(place) == work' = [work EXCEPT !.at = place]
Continue(place, n) == [Rest EXCEPT !.at = place, !.n = n, !.max = MaxTurnCount(Visible)]

TakeMessage ==
    /\ Takes("message")
    /\ inbox' = Tail(inbox) /\ work' = Continue("baseline", Head(inbox).n)
    /\ UNCHANGED <<repository, provider, rows, ingestion, history, plan>>

\* ensurePreTurnBaselineFromDomainTurnStart: is the start of the message captured?
TakeStart ==
    LET t == Head(inbox).n
    IN  /\ Takes("start")
        /\ inbox' = Tail(inbox)
        /\ work' = Continue(IF Exists(MessageStart(t)) THEN "baseline" ELSE "backup", t)
        /\ UNCHANGED <<repository, provider, rows, ingestion, history, plan>>

\* If it was not, it is captured now, whoever has done so since.
CaptureBackup ==
    /\ At("backup")
    /\ Capture(MessageStart(work.n)) /\ Goes("baseline")
    /\ UNCHANGED <<disk, provider, rows, ingestion, inbox, history, plan>>

\* ensurePreTurnBaselineFromTurnStart: the start of the turn is that of its message.
TakeStarted ==
    LET t == Head(inbox).n
    IN  /\ Takes("started")
        /\ inbox' = Tail(inbox) /\ work' = Continue("baseline", t)
        /\ IF Exists(MessageStart(t)) THEN refs' = WithRef(TurnStart(t), refs[MessageStart(t)])
                                      ELSE Capture(TurnStart(t))
        /\ UNCHANGED <<disk, provider, rows, ingestion, history, plan>>

\* ensureLegacyBaselineCheckpoint: what the next turn starts from has a ref.
EnsureBaseline ==
    /\ At("baseline")
    /\ work' = Rest
    /\ IF Exists(TurnRef(work.max)) THEN UNCHANGED refs ELSE Capture(TurnRef(work.max))
    /\ UNCHANGED <<disk, provider, rows, ingestion, inbox, history, plan>>

\* captureCheckpointFromTurnCompletion
Skipped(t) == active # 0 /\ active # t
Captured(t) == t \in Visible /\ rows[t].ready

\* Mutant of NextTurnCount: the placeholder of the turn is not looked for.
CountBesides(t) == MaxTurnCount(Visible) + 1

\* A placeholder of the turn has its count already.
NextTurnCount(t) == IF t \in Visible THEN rows[t].count ELSE MaxTurnCount(Visible) + 1

TakeCompleted ==
    LET t == Head(inbox).n
    IN  /\ Takes("completed")
        /\ inbox' = Tail(inbox)
        /\ work' = IF Skipped(t) \/ Captured(t) THEN Rest
                   ELSE [Rest EXCEPT !.at = "capturing", !.n = t, !.max = NextTurnCount(t),
                                     !.ready = Head(inbox).ready]
        /\ Note("skipped", Skipped(t))
        /\ UNCHANGED <<repository, provider, rows, ingestion, edited, plan>>

\* What differs between two trees.
Difference(a, b) == (a \ b) \cup (b \ a)

\* captureAndDispatchCheckpoint
CaptureTurn ==
    LET hasStart == Exists(TurnStart(work.n))
    IN  /\ At("capturing")
        /\ Capture(TurnRef(work.max))
        /\ work' = [work EXCEPT !.at = "captured", !.ready = @ /\ hasStart,
                                !.files = IF hasStart THEN Difference(refs[TurnStart(work.n)], disk)
                                                      ELSE {}]
        /\ UNCHANGED <<disk, provider, rows, ingestion, inbox, history, plan>>

DispatchCheckpoint ==
    /\ At("captured")
    /\ DiffCompleted(work.n, "real", work.max, work.ready, work.files)
    /\ work' = Rest /\ Note("overtaken", live # NoLive)
    /\ UNCHANGED <<repository, provider, ingestion, inbox, edited, plan>>

\* handleRevertRequested
WithCount(n) == {t \in Visible : rows[t].count = n}
Stale(n) == {rows[t].count : t \in {u \in Visible : rows[u].count > n /\ rows[u].kind = "real"}}
Restorable(n) == \/ n = 0
                 \/ Exists(TurnRef(n)) /\ \E t \in WithCount(n) : rows[t].kind = "real"

TakeRevert ==
    LET n == Head(inbox).n
    IN  /\ Takes("revert")
        /\ inbox' = Tail(inbox)
        /\ work' = IF n <= MaxTurnCount(Visible) /\ Restorable(n)
                   THEN [Continue("restoring", n) EXCEPT !.stale = Stale(n)] ELSE Rest
        /\ UNCHANGED <<repository, provider, rows, ingestion, history, plan>>

\* restoreCheckpoint; the state before the first turn is HEAD if it has no ref.
Restore ==
    /\ At("restoring")
    /\ disk' = IF Exists(TurnRef(work.n)) THEN refs[TurnRef(work.n)] ELSE {}
    /\ Goes("rolling")
    /\ UNCHANGED <<refs, provider, rows, ingestion, inbox, history, plan>>

RolledBackTurns == work.max - work.n

\* rollbackConversation
RollBack ==
    /\ At("rolling")
    /\ provider' = [provider EXCEPT
                       !.thread = SubSeq(@, 1, IF Len(@) > RolledBackTurns
                                               THEN Len(@) - RolledBackTurns ELSE 0)]
    /\ Goes("deleting")
    /\ UNCHANGED <<repository, rows, ingestion, inbox, history, plan>>

\* deleteCheckpointRefs
DeleteStale ==
    /\ At("deleting")
    /\ refs' = [r \in DOMAIN refs \ {TurnRef(n) : n \in work.stale} |-> refs[r]]
    /\ Goes("completing")
    /\ UNCHANGED <<disk, provider, rows, ingestion, inbox, history, plan>>

\* thread.revert.complete, and the projector of thread.reverted.
CompleteRevert ==
    /\ At("completing")
    /\ rows' = [t \in Turns |-> IF rows[t].count \in 1 .. work.n THEN rows[t] ELSE NoRow]
    /\ work' = Rest
    /\ UNCHANGED <<repository, provider, ingestion, inbox, history, plan>>

\* git, the provider or a dispatch fails: it is logged or shown, and the input given up.
ReactorFails ==
    /\ work # Rest /\ Fault
    /\ work' = Rest
    /\ UNCHANGED <<repository, provider, rows, ingestion, inbox, edited>>

-----------------------------------------------------------------------------------
CheckpointsNext ==
    \/ UserEdits \/ AskTurn \/ CaptureMessageStart \/ CaptureMessageStartFails \/ SendTurn
    \/ EditFiles \/ UpdateDiff \/ EndTurn \/ RequestRevert
    \/ IngestStarted \/ IngestCompleted \/ ReadDiff \/ DispatchPlaceholder
    \/ TakeMessage \/ TakeStart \/ CaptureBackup \/ TakeStarted \/ EnsureBaseline
    \/ TakeCompleted \/ CaptureTurn \/ DispatchCheckpoint
    \/ TakeRevert \/ Restore \/ RollBack \/ DeleteStale \/ CompleteRevert
    \/ ReactorFails

CheckpointsSpec == CheckpointsInit /\ [][CheckpointsNext]_checkpointVars

-----------------------------------------------------------------------------------
Row == [kind: {"absent", "none", "diff", "real"}, count: Nat, ready: BOOLEAN, closed: BOOLEAN,
        files: Trees]

CheckpointsTypeOK ==
    /\ disk \in Trees /\ \A r \in DOMAIN refs : refs[r] \in Trees
    /\ provider.thread \in Seq(Turns) /\ rows \in [Turns -> Row]
    /\ active \in Turns \cup {0} /\ tracked \in [Turns -> Nat]
    /\ edited \subseteq Turns /\ plan \in Plan

\* A captured checkpoint stays with its turn until a revert: later live diffs and captures of
\* other turns neither replace it by a placeholder nor take its turn count.  A live diff that is
\* read before the turn that has ended got its checkpoint is the exception.
CapturedStays ==
    [][\A t \in Turns : rows[t].kind = "real" /\ rows'[t].kind # "real" =>
          At("completing") \/ "overtaken" \in mishaps]_checkpointVars

\* Nothing is on its way.
AtRest == provider.at = "idle" /\ ingest = <<>> /\ inbox = <<>> /\ work = Rest

\* Conversation, rows and workspace agree whenever all is at rest.  The k-th turn the provider
\* remembers has the checkpoint with count k, and no other turn has one: a revert rolls back
\* max - n turns, so a turn without a checkpoint, or a count that is used up by two, would cost
\* the user a turn too few or too many.  And the workspace holds the edits of these turns and of
\* no other ones, however many turns and reverts there were.
ThreadAgrees ==
    AtRest /\ mishaps \cap {"fault", "overtaken", "skipped"} = {} =>
        /\ \A k \in 1 .. Len(provider.thread) :
              rows[provider.thread[k]].kind = "real" /\ rows[provider.thread[k]].count = k
        /\ Visible = ToSet(provider.thread)
        /\ "reactor late" \notin mishaps => disk \ {ByUser} = edited \cap ToSet(provider.thread)

\* The comment in captureMessageStartCheckpoint: "Capture before provider dispatch so the later
\* turn diff is bounded by the user's submit moment, not an async runtime event".  The diff of a
\* turn holds its own edits and nothing else, however late the reactor hears of its start.
DiffsAreOwn ==
    mishaps \cap {"fault", "backup late", "capture late"} = {} =>
        \A t \in Visible : rows[t].ready => rows[t].files = edited \cap {t}
=============================================================================
