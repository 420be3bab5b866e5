--------------------------- MODULE KeyedSingleFlightCache ---------------------------
(***************************************************************************)
(* pullRequests/KeyedSingleFlightCache.ts: callers of `get` share a cached *)
(* value or one load in flight, a load runs in a fiber of the cache's own  *)
(* and ends when nobody waits for it, and what is invalidated must not be  *)
(* published by work that is older.  A section under the lock is one step. *)
(*                                                                         *)
(* A value is the number of invalidations of its key that came before its  *)
(* load: what the remote side said then.  Time is left out: any entry may  *)
(* expire, and any entry may be the least recently used.                   *)
(***************************************************************************)
EXTENDS Naturals, Sequences, FiniteSets

CONSTANTS
    Keys,
    Callers,
    MaxEntries,
    MaxFlights,         \* bound: loads
    MaxInvalidations    \* bound: invalidations of a key

VARIABLES
    cached,             \* the entry of each key; generation 0 for none
    generations,        \* the current generation of each key, 0 for none
    nextGeneration,
    flights,            \* every load that was begun; `open` while the map inFlight has it
    caller,             \* where each caller of get is
    epoch               \* history: how often each key was invalidated

cacheVars == <<cached, generations, nextGeneration, flights, caller, epoch>>

ASSUME CacheAssumption ==
    /\ IsFiniteSet(Keys) /\ IsFiniteSet(Callers) /\ MaxEntries \in Nat \ {0}
    /\ MaxFlights \in Nat /\ MaxInvalidations \in Nat

-----------------------------------------------------------------------------------
NoValue == [generation |-> 0, value |-> 0, live |-> FALSE]
Away == [at |-> "away", flight |-> 0, since |-> 0]

Cached(k) == cached[k].generation # 0

CacheInit ==
    /\ cached = [k \in Keys |-> NoValue]
    /\ generations = [k \in Keys |-> 0] /\ nextGeneration = 0
    /\ flights = <<>>
    /\ caller = [c \in Callers |-> Away]
    /\ epoch = [k \in Keys |-> 0]

\* The key's generation is of no use when neither its entry nor an open flight has it.
Unused(k, generation, open) ==
    ~\E i \in open : flights[i].key = k /\ flights[i].generation = generation

Open == {i \in DOMAIN flights : flights[i].open}

\* deleteCached, of every key in `gone`, with releaseGenerationIfUnused.
WithoutEntries(gone) == [k \in Keys |-> IF k \in gone THEN NoValue ELSE cached[k]]

Released(gone, open) ==
    [k \in Keys |->
        IF k \in gone /\ generations[k] = cached[k].generation
           /\ Unused(k, generations[k], open)
        THEN 0 ELSE generations[k]]

-----------------------------------------------------------------------------------
\* get

Hit(k) == Cached(k) /\ cached[k].live /\ generations[k] = cached[k].generation

\* The value is there; its caller has it at once.
GetCached(c, k) ==
    /\ caller[c].at = "away" /\ Hit(k)
    /\ UNCHANGED cacheVars

\* Mutant of Joinable: any load of the key will do.
JoinableOfKey(i, k, generation) == flights[i].open /\ flights[i].key = k

Joinable(i, k, generation) ==
    flights[i].open /\ flights[i].key = k /\ flights[i].generation = generation

\* Mutant of GenerationFor: every load has one of its own.
AlwaysNext(current) == nextGeneration + 1

\* generationFor: the current one, or the next that was never given to any key.
GenerationFor(current) == IF current # 0 THEN current ELSE nextGeneration + 1

\* An expired entry goes first; then the caller joins the load of its generation, or begins it.
GetShared(c, k) ==
    LET gone == IF Cached(k) /\ ~cached[k].live THEN {k} ELSE {}
        generation == GenerationFor(Released(gone, Open)[k])
        joined == {i \in DOMAIN flights : Joinable(i, k, generation)}
        entry == [key |-> k, generation |-> generation, value |-> epoch[k], state |-> "loading",
                  waiters |-> 1, open |-> TRUE, settled |-> FALSE]
    IN  /\ caller[c].at = "away" /\ ~Hit(k)
        /\ joined = {} => Len(flights) < MaxFlights
        /\ cached' = WithoutEntries(gone)
        /\ generations' = [Released(gone, Open) EXCEPT ![k] = generation]
        /\ nextGeneration' = IF generation > nextGeneration THEN generation ELSE nextGeneration
        /\ IF joined = {}
           THEN /\ flights' = Append(flights, entry)
                /\ caller' = [caller EXCEPT ![c] = [at |-> "waiting", flight |-> Len(flights) + 1,
                                                    since |-> epoch[k]]]
           ELSE \E i \in joined :
                /\ flights' = [flights EXCEPT ![i].waiters = @ + 1]
                /\ caller' = [caller EXCEPT ![c] = [at |-> "waiting", flight |-> i,
                                                    since |-> epoch[k]]]
        /\ UNCHANGED epoch

\* The load is done, or the caller is interrupted: either way it gives its place back.
Wakes(c) ==
    /\ caller[c].at = "waiting" /\ flights[caller[c].flight].settled
    /\ caller' = [caller EXCEPT ![c].at = "leaving"]
    /\ UNCHANGED <<cached, generations, nextGeneration, flights, epoch>>

CallerInterrupted(c) ==
    /\ caller[c].at = "waiting"
    /\ caller' = [caller EXCEPT ![c].at = "leaving"]
    /\ UNCHANGED <<cached, generations, nextGeneration, flights, epoch>>

\* Mutant of IsLast: one that still waits is overlooked.
IsNearlyLast(waiters) == waiters <= 2

IsLast(waiters) == waiters <= 1

\* releaseWaiter: the last one that waits closes the flight, and its generation with it.
ReleaseWaiter(c) ==
    LET i == caller[c].flight
        flight == flights[i]
        k == flight.key
        last == IsLast(flight.waiters) /\ ~flight.settled
    IN  /\ caller[c].at = "leaving"
        /\ flights' = [flights EXCEPT ![i].waiters = @ - 1, ![i].open = @ /\ ~last]
        /\ generations' = IF last /\ generations[k] = flight.generation
                          THEN [generations EXCEPT ![k] = 0] ELSE generations
        /\ caller' = [caller EXCEPT ![c] = IF last THEN [@ EXCEPT !.at = "stopping"] ELSE Away]
        /\ UNCHANGED <<cached, nextGeneration, epoch>>

\* Fiber.interrupt cuts the load off where it still runs; finish follows either way.
StopLoad(c) ==
    /\ caller[c].at = "stopping"
    /\ flights' = [flights EXCEPT ![caller[c].flight].state = IF @ = "loading" THEN "cut" ELSE @]
    /\ caller' = [caller EXCEPT ![c] = Away]
    /\ UNCHANGED <<cached, generations, nextGeneration, epoch>>

-----------------------------------------------------------------------------------
\* The fiber of a load.

LoadEnds(i) ==
    /\ flights[i].state = "loading"
    /\ \E state \in {"loaded", "failed"} : flights' = [flights EXCEPT ![i].state = state]
    /\ UNCHANGED <<cached, generations, nextGeneration, caller, epoch>>

\* Mutant of Publishes: whatever was loaded is published.
PublishesAnyway(i) == flights[i].state = "loaded"

Publishes(i) ==
    flights[i].state = "loaded" /\ generations[flights[i].key] = flights[i].generation

\* pruneForInsert leaves room for the new entry.
MustLeave(kept) ==
    IF Cardinality(kept) >= MaxEntries THEN Cardinality(kept) + 1 - MaxEntries ELSE 0

Settled(i) == [flights EXCEPT ![i].settled = TRUE, ![i].open = FALSE]

\* finish, where the value is published ...
FinishPublished(i) ==
    LET expired == {k \in Keys : Cached(k) /\ ~cached[k].live}
        kept == {k \in Keys : Cached(k)} \ expired
        flight == flights[i]
    IN  /\ flights[i].state # "loading" /\ ~flights[i].settled /\ Publishes(i)
        /\ \E oldest \in SUBSET kept :
            /\ Cardinality(oldest) = MustLeave(kept)
            /\ cached' = [WithoutEntries(expired \cup oldest) EXCEPT ![flight.key] =
                            [generation |-> flight.generation, value |-> flight.value,
                             live |-> TRUE]]
            /\ generations' = Released(expired \cup oldest, Open \ {i})
        /\ flights' = Settled(i)
        /\ UNCHANGED <<nextGeneration, caller, epoch>>

\* ... and where it is not: it is out of date, the load failed or was cut off, or ttlMs throws.
FinishUnpublished(i) ==
    LET k == flights[i].key
        generation == flights[i].generation
        unused == /\ generations[k] = generation /\ cached[k].generation # generation
                  /\ Unused(k, generation, Open \ {i})
    IN  /\ flights[i].state # "loading" /\ ~flights[i].settled
        /\ generations' = [generations EXCEPT ![k] = IF unused THEN 0 ELSE @]
        /\ flights' = Settled(i)
        /\ UNCHANGED <<cached, nextGeneration, caller, epoch>>

-----------------------------------------------------------------------------------
\* invalidate, invalidateWhere, invalidateAll
Invalidate(which) ==
    /\ \A k \in which : epoch[k] < MaxInvalidations
    /\ cached' = WithoutEntries(which)
    /\ generations' = [k \in Keys |-> IF k \in which THEN 0 ELSE generations[k]]
    /\ epoch' = [k \in Keys |-> IF k \in which THEN epoch[k] + 1 ELSE epoch[k]]
    /\ UNCHANGED <<nextGeneration, flights, caller>>

\* The time to live of an entry is over.
Expire(k) ==
    /\ Cached(k) /\ cached[k].live
    /\ cached' = [cached EXCEPT ![k].live = FALSE]
    /\ UNCHANGED <<generations, nextGeneration, flights, caller, epoch>>

CacheNext ==
    \/ \E c \in Callers, k \in Keys : GetCached(c, k) \/ GetShared(c, k)
    \/ \E c \in Callers : Wakes(c) \/ CallerInterrupted(c) \/ ReleaseWaiter(c) \/ StopLoad(c)
    \/ \E i \in DOMAIN flights : LoadEnds(i) \/ FinishPublished(i) \/ FinishUnpublished(i)
    \/ \E which \in SUBSET Keys : which # {} /\ Invalidate(which)
    \/ \E k \in Keys : Expire(k)

CacheSpec == CacheInit /\ [][CacheNext]_cacheVars

-----------------------------------------------------------------------------------
Entry == [generation: Nat, value: Nat, live: BOOLEAN]
Flight == [key: Keys, generation: Nat, value: Nat, waiters: Nat, open: BOOLEAN, settled: BOOLEAN,
           state: {"loading", "loaded", "failed", "cut"}]
Place == [at: {"away", "waiting", "leaving", "stopping"}, flight: Nat, since: Nat]

\* The type of every variable; a caller that is not away names a load.
CacheTypeOK ==
    /\ cached \in [Keys -> Entry] /\ generations \in [Keys -> Nat] /\ nextGeneration \in Nat
    /\ flights \in Seq(Flight) /\ caller \in [Callers -> Place] /\ epoch \in [Keys -> Nat]
    /\ \A c \in Callers : caller[c].at # "away" => caller[c].flight \in DOMAIN flights

\* What is cached was loaded after the last invalidation of its key: "Invalidates one key without
\* allowing older work to repopulate it".
CachedIsFresh == \A k \in Keys : Cached(k) => cached[k].value = epoch[k]

\* Nobody is made to wait for a load that began before an invalidation that came before the call.
AnswersAreFresh ==
    \A c \in Callers : caller[c].at = "waiting" => flights[caller[c].flight].value >= caller[c].since

\* A load is cut off only where nobody waits for it any more: "Cancelling one caller only cancels
\* the computation when it was the final waiter".
NotCutShort ==
    \A c \in Callers : caller[c].at = "waiting" =>
        /\ flights[caller[c].flight].state # "cut"
        /\ \A d \in Callers : caller[d].at = "stopping" => caller[d].flight # caller[c].flight

\* One load at a time for a key: two that are waited for have an invalidation between them.
SingleFlight ==
    \A i, j \in DOMAIN flights :
        /\ i # j /\ flights[i].key = flights[j].key
        /\ ~flights[i].settled /\ ~flights[j].settled
        /\ flights[i].waiters > 0 /\ flights[j].waiters > 0
        => flights[i].value # flights[j].value

\* A generation is kept no longer than its entry or its load: the map does not grow.
NoGenerationLeak ==
    \A k \in Keys : generations[k] # 0 =>
        cached[k].generation = generations[k]
        \/ \E i \in DOMAIN flights : Joinable(i, k, generations[k])
=============================================================================
