------------------------- MODULE KeyedSingleFlightCacheProofs -------------------------
(***************************************************************************)
(* The cache never serves or keeps what is out of date, for any number of  *)
(* keys, callers, loads and invalidations: CachedIsFresh, AnswersAreFresh, *)
(* SingleFlight, NoGenerationLeak and NotCutShort of                       *)
(* KeyedSingleFlightCache.                                                 *)
(***************************************************************************)
EXTENDS KeyedSingleFlightCache, Integers, FiniteSetTheorems, TLAPS

-----------------------------------------------------------------------------------
\* The inductive invariant.

\* A load as the proof sees it: it always has a generation, its waiters are any number.
Load == [key: Keys, generation: Nat \ {0}, value: Nat, waiters: Int, open: BOOLEAN,
         settled: BOOLEAN, state: {"loading", "loaded", "failed", "cut"}]

Types ==
    /\ cached \in [Keys -> Entry] /\ generations \in [Keys -> Nat] /\ nextGeneration \in Nat
    /\ flights \in Seq(Load) /\ caller \in [Callers -> Place] /\ epoch \in [Keys -> Nat]
    /\ \A c \in Callers : caller[c].at # "away" => caller[c].flight \in DOMAIN flights

\* Generations are handed out in order, by one counter for all keys.
Allocated ==
    /\ \A k \in Keys : generations[k] <= nextGeneration
    /\ \A i \in DOMAIN flights : flights[i].generation <= nextGeneration

\* A load has the current generation of its key only while nothing invalidated the key ...
CurrentIsFresh ==
    \A i \in DOMAIN flights : flights[i].generation = generations[flights[i].key] =>
        flights[i].value = epoch[flights[i].key]

\* ... and an open one has it for all of that time.
FreshIsCurrent ==
    \A i \in DOMAIN flights : flights[i].open /\ flights[i].value = epoch[flights[i].key] =>
        flights[i].generation = generations[flights[i].key]

\* No load is of the future, and the open ones of a key were begun between invalidations.
OpenDiffer ==
    /\ \A i \in DOMAIN flights : flights[i].value <= epoch[flights[i].key]
    /\ \A i, j \in DOMAIN flights :
        i # j /\ flights[i].open /\ flights[j].open /\ flights[i].key = flights[j].key =>
            flights[i].value # flights[j].value

\* A generation is of one load, also after that load is over.
OwnGeneration ==
    \A i, j \in DOMAIN flights : i # j => flights[i].generation # flights[j].generation

\* What is waited for and not done can still be joined.
WaitedIsOpen ==
    \A i \in DOMAIN flights : ~flights[i].settled /\ flights[i].waiters > 0 => flights[i].open

CacheInv ==
    /\ Types /\ Allocated /\ CurrentIsFresh /\ FreshIsCurrent /\ OpenDiffer
    /\ OwnGeneration /\ WaitedIsOpen /\ CachedIsFresh /\ AnswersAreFresh /\ NoGenerationLeak

-----------------------------------------------------------------------------------
\* Steps that begin no load and invalidate nothing.

LEMMA UpdateSeq ==
    ASSUME NEW S, NEW s \in Seq(S), NEW i \in DOMAIN s, NEW e \in S
    PROVE  /\ [s EXCEPT ![i] = e] \in Seq(S) /\ DOMAIN [s EXCEPT ![i] = e] = DOMAIN s
           /\ [s EXCEPT ![i] = e][i] = e
           /\ \A j \in DOMAIN s : j # i => [s EXCEPT ![i] = e][j] = s[j]
OBVIOUS

LEMMA AppendSeq ==
    ASSUME NEW S, NEW s \in Seq(S), NEW e \in S
    PROVE  /\ Append(s, e) \in Seq(S) /\ DOMAIN Append(s, e) = DOMAIN s \cup {Len(s) + 1}
           /\ Append(s, e)[Len(s) + 1] = e /\ Len(s) + 1 \notin DOMAIN s
           /\ \A j \in DOMAIN s : Append(s, e)[j] = s[j]
OBVIOUS

\* What such a step may do to a load: it may close it, but not with somebody waiting.
Continues(i) ==
    /\ flights'[i].key = flights[i].key /\ flights'[i].generation = flights[i].generation
    /\ flights'[i].value = flights[i].value /\ (flights'[i].open => flights[i].open)
    /\ ~flights'[i].settled /\ flights'[i].waiters > 0 => flights'[i].open

\* ... to a generation: it may be given up, but not with a load that is open.
Yields ==
    /\ \A k \in Keys : generations'[k] \in {0, generations[k]}
    /\ \A i \in DOMAIN flights :
        flights'[i].open /\ flights[i].generation = generations[flights[i].key]
            => generations'[flights[i].key] = generations[flights[i].key]

\* ... and to a caller: whoever waits afterwards waited before.
NoNewWait ==
    \A c \in Callers : caller'[c].at = "waiting" => caller'[c] = caller[c]

LEMMA LoadsTransfer ==
    ASSUME CacheInv, flights' \in Seq(Load), DOMAIN flights' = DOMAIN flights,
           \A i \in DOMAIN flights : Continues(i), Yields, UNCHANGED <<nextGeneration, epoch>>
    PROVE  /\ Allocated' /\ CurrentIsFresh' /\ FreshIsCurrent' /\ OpenDiffer'
           /\ OwnGeneration' /\ WaitedIsOpen'
<1>1. \A i \in DOMAIN flights : /\ flights[i] \in Load /\ flights'[i] \in Load
  BY DEF CacheInv, Types
<1>2. \A i \in DOMAIN flights : flights[i].key \in Keys
  BY <1>1 DEF Load
<1>3. \A i \in DOMAIN flights : flights[i].generation \in Nat \ {0}
  BY <1>1 DEF Load
<1>4. Allocated'
  <2>0. nextGeneration \in Nat
    BY DEF CacheInv, Types
  <2>1. \A k \in Keys : generations'[k] <= nextGeneration
    BY <2>0 DEF CacheInv, Allocated, Yields
  <2>2. \A i \in DOMAIN flights : flights'[i].generation <= nextGeneration
    BY DEF CacheInv, Allocated, Continues
  <2> QED
    BY <2>1, <2>2 DEF Allocated
<1>5. CurrentIsFresh'
  BY <1>2, <1>3 DEF CacheInv, CurrentIsFresh, Continues, Yields
<1>6. FreshIsCurrent'
  BY <1>2 DEF CacheInv, FreshIsCurrent, Continues, Yields
<1>7. OpenDiffer'
  BY DEF CacheInv, OpenDiffer, Continues
<1>8. WaitedIsOpen' /\ OwnGeneration'
  BY DEF CacheInv, OwnGeneration, WaitedIsOpen, Continues
<1> QED
  BY <1>4, <1>5, <1>6, <1>7, <1>8

LEMMA Transfer ==
    ASSUME CacheInv, Types', DOMAIN flights' = DOMAIN flights,
           \A i \in DOMAIN flights : Continues(i), Yields, NoNewWait,
           UNCHANGED <<nextGeneration, epoch>>, CachedIsFresh', NoGenerationLeak'
    PROVE  CacheInv'
<1>1. flights' \in Seq(Load)
  BY DEF Types
<1>2. AnswersAreFresh'
  BY DEF CacheInv, Types, AnswersAreFresh, Continues, NoNewWait
<1> QED
  BY <1>1, <1>2, LoadsTransfer DEF CacheInv

\* A step that replaces one load by another of the same key, generation and value.
LEMMA OneLoad ==
    ASSUME CacheInv, NEW i \in DOMAIN flights, NEW load \in Load,
           flights' = [flights EXCEPT ![i] = load],
           load.key = flights[i].key, load.generation = flights[i].generation,
           load.value = flights[i].value, load.open => flights[i].open,
           ~load.settled /\ load.waiters > 0 => load.open
    PROVE  /\ flights' \in Seq(Load) /\ DOMAIN flights' = DOMAIN flights /\ flights'[i] = load
           /\ \A j \in DOMAIN flights : Continues(j)
           /\ \A j \in DOMAIN flights : j # i => flights'[j] = flights[j]
<1>1. flights \in Seq(Load)
  BY DEF CacheInv, Types
<1>2. /\ flights' \in Seq(Load) /\ DOMAIN flights' = DOMAIN flights /\ flights'[i] = load
      /\ \A j \in DOMAIN flights : j # i => flights'[j] = flights[j]
  BY <1>1, UpdateSeq
<1> QED
  BY <1>2 DEF Continues, CacheInv, WaitedIsOpen

\* A step that leaves the loads alone lets them continue.
LEMMA NoLoad ==
    ASSUME CacheInv, UNCHANGED flights
    PROVE  \A j \in DOMAIN flights : Continues(j)
BY DEF Continues, CacheInv, WaitedIsOpen

\* The changes of a load: a waiter more or less, it is over, it is answered.
Joined(f) == [f EXCEPT !.waiters = @ + 1]
Left(f, open) == [f EXCEPT !.waiters = @ - 1, !.open = open]
Stopped(f, state) == [f EXCEPT !.state = state]
Answered(f) == [f EXCEPT !.settled = TRUE, !.open = FALSE]

LEMMA JoinedLoad ==
    ASSUME NEW f \in Load
    PROVE  /\ Joined(f) \in Load /\ Joined(f).key = f.key
           /\ Joined(f).generation = f.generation /\ Joined(f).value = f.value
           /\ Joined(f).settled = f.settled /\ Joined(f).open = f.open
           /\ Joined(f).waiters = f.waiters + 1 /\ Joined(f).state = f.state
<1>1. Joined(f) = [key |-> f.key, generation |-> f.generation, value |-> f.value,
         waiters |-> f.waiters + 1, open |-> f.open, settled |-> f.settled,
         state |-> f.state]
  BY DEF Joined, Load
<1>2. f.waiters + 1 \in Int
  BY DEF Load
<1> QED
  BY <1>1, <1>2 DEF Load

LEMMA LeftLoad ==
    ASSUME NEW f \in Load, NEW o \in BOOLEAN
    PROVE  /\ Left(f, o) \in Load /\ Left(f, o).key = f.key
           /\ Left(f, o).generation = f.generation /\ Left(f, o).value = f.value
           /\ Left(f, o).settled = f.settled /\ Left(f, o).open = o
           /\ Left(f, o).waiters = f.waiters - 1 /\ Left(f, o).state = f.state
<1>1. PICK load : load = [f EXCEPT !.waiters = f.waiters - 1, !.open = o]
  OBVIOUS
<1>2. f.waiters - 1 \in Int
  BY DEF Load
<1>3. load = [key |-> f.key, generation |-> f.generation, value |-> f.value,
              waiters |-> f.waiters - 1, open |-> o, settled |-> f.settled, state |-> f.state]
  BY <1>1 DEF Load
<1>4. /\ load \in Load /\ load.key = f.key /\ load.generation = f.generation
      /\ load.value = f.value /\ load.settled = f.settled /\ load.open = o
      /\ load.waiters = f.waiters - 1 /\ load.state = f.state
  BY <1>2, <1>3 DEF Load
<1> QED
  BY <1>1, <1>4 DEF Left

LEMMA StoppedLoad ==
    ASSUME NEW f \in Load, NEW st \in {"loading", "loaded", "failed", "cut"}
    PROVE  /\ Stopped(f, st) \in Load /\ Stopped(f, st).key = f.key
           /\ Stopped(f, st).generation = f.generation /\ Stopped(f, st).value = f.value
           /\ Stopped(f, st).settled = f.settled /\ Stopped(f, st).open = f.open
           /\ Stopped(f, st).waiters = f.waiters /\ Stopped(f, st).state = st
<1>1. Stopped(f, st) = [key |-> f.key, generation |-> f.generation, value |-> f.value,
         waiters |-> f.waiters, open |-> f.open, settled |-> f.settled,
         state |-> st]
  BY DEF Stopped, Load
<1>2. f.waiters \in Int
  BY DEF Load
<1> QED
  BY <1>1, <1>2 DEF Load

LEMMA AnsweredLoad ==
    ASSUME NEW f \in Load
    PROVE  /\ Answered(f) \in Load /\ Answered(f).key = f.key
           /\ Answered(f).generation = f.generation /\ Answered(f).value = f.value
           /\ Answered(f).settled = TRUE /\ Answered(f).open = FALSE
           /\ Answered(f).waiters = f.waiters /\ Answered(f).state = f.state
<1>1. PICK load : load = [f EXCEPT !.settled = TRUE, !.open = FALSE]
  OBVIOUS
<1>2. /\ load \in Load /\ load.key = f.key /\ load.generation = f.generation
      /\ load.value = f.value /\ load.settled = TRUE /\ load.open = FALSE
      /\ load.waiters = f.waiters /\ load.state = f.state
  BY <1>1 DEF Load
<1> QED
  BY <1>1, <1>2 DEF Answered

LEMMA LoadFields ==
    ASSUME NEW f \in Load
    PROVE  /\ f.key \in Keys /\ f.generation \in Nat \ {0} /\ f.value \in Nat /\ f.waiters \in Int
           /\ f.open \in BOOLEAN /\ f.settled \in BOOLEAN
BY DEF Load

LEMMA CacheInvInit == CacheInit => CacheInv
BY DEF CacheInit, CacheInv, Types, Allocated, CurrentIsFresh, FreshIsCurrent, OpenDiffer,
       WaitedIsOpen, OwnGeneration, CachedIsFresh, AnswersAreFresh, NoGenerationLeak, NoValue, Away, Entry,
       Place, Cached

\* A caller that is answered or interrupted waits no longer.
LEMMA WakeKeeps ==
    ASSUME CacheInv, NEW c \in Callers, Wakes(c) \/ CallerInterrupted(c)
    PROVE  CacheInv'
<1>1. /\ caller' = [caller EXCEPT ![c].at = "leaving"] /\ caller[c].at = "waiting"
      /\ UNCHANGED <<cached, generations, nextGeneration, flights, epoch>>
  BY DEF Wakes, CallerInterrupted
<1>2. caller \in [Callers -> Place]
  BY DEF CacheInv, Types
<1>3. /\ caller' \in [Callers -> Place] /\ NoNewWait
      /\ \A d \in Callers : caller'[d].at # "away" =>
            caller[d].at # "away" /\ caller'[d].flight = caller[d].flight
  BY <1>1, <1>2 DEF Place, NoNewWait
<1>4. Types'
  BY <1>1, <1>3 DEF CacheInv, Types
<1>5. CachedIsFresh' /\ NoGenerationLeak' /\ Yields
  BY <1>1 DEF CacheInv, CachedIsFresh, Cached, NoGenerationLeak, Joinable, Yields
<1> QED
  BY <1>1, <1>3, <1>4, <1>5, NoLoad, Transfer

\* One that gives its place back closes the load if it was the last.
LEMMA ReleaseKeeps ==
    ASSUME CacheInv, NEW c \in Callers, ReleaseWaiter(c)
    PROVE  CacheInv'
<1> DEFINE i == caller[c].flight
           k == flights[i].key
           last == IsLast(flights[i].waiters) /\ ~flights[i].settled
           load == [flights[i] EXCEPT !.waiters = @ - 1, !.open = @ /\ ~last]
<1>1. i \in DOMAIN flights /\ caller \in [Callers -> Place] /\ flights[i] \in Load
  BY DEF ReleaseWaiter, CacheInv, Types
<1>2. /\ load \in Load /\ load.key = k /\ load.generation = flights[i].generation
      /\ load.value = flights[i].value /\ load.settled = flights[i].settled
      /\ load.waiters = flights[i].waiters - 1 /\ load.open = (flights[i].open /\ ~last)
      /\ k \in Keys /\ flights[i].generation \in Nat \ {0} /\ flights[i].waiters \in Int
  <2> DEFINE o == flights[i].open /\ ~last
  <2>1. load = Left(flights[i], o) /\ o \in BOOLEAN
    BY DEF Left
  <2> HIDE DEF load, o
  <2>2. /\ load \in Load /\ load.key = k /\ load.generation = flights[i].generation
        /\ load.value = flights[i].value /\ load.settled = flights[i].settled
        /\ load.waiters = flights[i].waiters - 1 /\ load.open = o
    BY <1>1, <2>1, LeftLoad
  <2> QED
    BY <1>1, <2>2, LoadFields DEF o
<1>3. /\ flights' = [flights EXCEPT ![i] = load]
      /\ generations' = IF last /\ generations[k] = flights[i].generation
                        THEN [generations EXCEPT ![k] = 0] ELSE generations
      /\ caller' = [caller EXCEPT ![c] = IF last THEN [@ EXCEPT !.at = "stopping"] ELSE Away]
      /\ UNCHANGED <<cached, nextGeneration, epoch>>
  BY DEF ReleaseWaiter
<1>4. ~load.settled /\ load.waiters > 0 => load.open
  <2> SUFFICES ASSUME ~flights[i].settled, flights[i].waiters - 1 > 0
               PROVE  flights[i].open /\ ~last
    BY <1>2
  <2> QED
    BY <1>1, <1>2 DEF IsLast, CacheInv, WaitedIsOpen
<1> HIDE DEF load
<1>5. /\ flights' \in Seq(Load) /\ DOMAIN flights' = DOMAIN flights /\ flights'[i] = load
      /\ \A j \in DOMAIN flights : Continues(j)
      /\ \A j \in DOMAIN flights : j # i => flights'[j] = flights[j]
  BY <1>1, <1>2, <1>3, <1>4, OneLoad
<1>6. /\ caller' \in [Callers -> Place] /\ NoNewWait
      /\ \A d \in Callers : caller'[d].at # "away" =>
            caller[d].at # "away" /\ caller'[d].flight = caller[d].flight
  BY <1>1, <1>3 DEF Place, NoNewWait, ReleaseWaiter, Away
<1>7. generations \in [Keys -> Nat]
  BY DEF CacheInv, Types
<1>8. Types'
  BY <1>3, <1>5, <1>6, <1>7 DEF CacheInv, Types
<1>9. Yields
  <2>1. last => ~flights'[i].open
    BY <1>2, <1>5
  <2>2. \A j \in DOMAIN flights : j # i => flights[j].generation # flights[i].generation
    BY <1>1 DEF CacheInv, OwnGeneration
  <2> QED
    BY SMTT(30), <1>2, <1>3, <1>7, <2>1, <2>2 DEF Yields
<1>10. NoGenerationLeak'
  <2> SUFFICES ASSUME NEW l \in Keys, generations'[l] # 0, cached[l].generation # generations'[l]
               PROVE  \E j \in DOMAIN flights : /\ flights'[j].open /\ flights'[j].key = l
                                               /\ flights'[j].generation = generations'[l]
    BY <1>3, <1>5 DEF NoGenerationLeak, Joinable
  <2>1. generations'[l] = generations[l]
    BY <1>2, <1>3, <1>7
  <2>2. PICK j \in DOMAIN flights : Joinable(j, l, generations[l])
    BY <2>1 DEF CacheInv, NoGenerationLeak
  <2>3. CASE j # i
    BY <2>1, <2>2, <2>3, <1>5 DEF Joinable
  <2>4. CASE j = i
    BY ZenonT(60), <2>1, <2>2, <2>4, <1>2, <1>3, <1>5, <1>7 DEF Joinable
  <2> QED
    BY <2>3, <2>4
<1>11. CachedIsFresh'
  BY <1>3 DEF CacheInv, CachedIsFresh, Cached
<1> QED
  BY <1>3, <1>5, <1>6, <1>8, <1>9, <1>10, <1>11, Transfer
\* Cutting a load off, and its end, leave everything but its state as it was.
LEMMA StateKeeps ==
    ASSUME CacheInv, NEW i \in DOMAIN flights,
           NEW st \in {"loading", "loaded", "failed", "cut"},
           flights' = [flights EXCEPT ![i].state = st],
           caller' \in [Callers -> Place], NoNewWait,
           \A c \in Callers : caller'[c].at # "away" => caller'[c] = caller[c],
           UNCHANGED <<cached, generations, nextGeneration, epoch>>
    PROVE  CacheInv'
<1> DEFINE load == Stopped(flights[i], st)
<1>1. flights[i] \in Load
  BY DEF CacheInv, Types
<1>2. flights' = [flights EXCEPT ![i] = load]
  BY DEF Stopped
<1>3. /\ load \in Load /\ load.key = flights[i].key /\ load.generation = flights[i].generation
      /\ load.value = flights[i].value /\ load.settled = flights[i].settled
      /\ load.open = flights[i].open /\ load.waiters = flights[i].waiters
  BY <1>1, StoppedLoad
<1> HIDE DEF load
<1>4. ~load.settled /\ load.waiters > 0 => load.open
  BY <1>3 DEF CacheInv, WaitedIsOpen
<1>5. /\ flights' \in Seq(Load) /\ DOMAIN flights' = DOMAIN flights /\ flights'[i] = load
      /\ \A j \in DOMAIN flights : Continues(j)
      /\ \A j \in DOMAIN flights : j # i => flights'[j] = flights[j]
  BY <1>2, <1>3, <1>4, OneLoad
<1>6. Types'
  BY <1>5 DEF CacheInv, Types
<1>7. Yields /\ CachedIsFresh'
  BY DEF Yields, CacheInv, CachedIsFresh, Cached
<1>8. NoGenerationLeak'
  BY <1>3, <1>5 DEF CacheInv, NoGenerationLeak, Joinable
<1> QED
  BY <1>5, <1>6, <1>7, <1>8, Transfer

LEMMA StopKeeps ==
    ASSUME CacheInv, NEW c \in Callers, StopLoad(c)
    PROVE  CacheInv'
<1> DEFINE i == caller[c].flight
           st == IF flights[i].state = "loading" THEN "cut" ELSE flights[i].state
<1>1. i \in DOMAIN flights /\ caller \in [Callers -> Place] /\ flights[i] \in Load
  BY DEF StopLoad, CacheInv, Types
<1>2. st \in {"loading", "loaded", "failed", "cut"}
  BY <1>1 DEF Load
<1>3. /\ flights' = [flights EXCEPT ![i].state = st] /\ caller' = [caller EXCEPT ![c] = Away]
      /\ UNCHANGED <<cached, generations, nextGeneration, epoch>>
  BY DEF StopLoad
<1>4. /\ caller' \in [Callers -> Place] /\ NoNewWait
      /\ \A d \in Callers : caller'[d].at # "away" => caller'[d] = caller[d]
  BY <1>1, <1>3 DEF Place, Away, NoNewWait
<1> HIDE DEF st
<1> QED
  BY <1>1, <1>2, <1>3, <1>4, StateKeeps

LEMMA EndKeeps ==
    ASSUME CacheInv, NEW i \in DOMAIN flights, LoadEnds(i)
    PROVE  CacheInv'
<1>1. PICK st \in {"loaded", "failed"} : flights' = [flights EXCEPT ![i].state = st]
  BY DEF LoadEnds
<1>2. /\ UNCHANGED <<cached, generations, nextGeneration, caller, epoch>>
      /\ st \in {"loading", "loaded", "failed", "cut"}
  BY DEF LoadEnds
<1>3. caller' \in [Callers -> Place] /\ NoNewWait
  BY <1>2 DEF CacheInv, Types, NoNewWait
<1> QED
  BY <1>1, <1>2, <1>3, StateKeeps

\* What finish does to the load itself.
LEMMA SettledContinues ==
    ASSUME CacheInv, NEW i \in DOMAIN flights, flights' = Settled(i)
    PROVE  /\ flights' \in Seq(Load) /\ DOMAIN flights' = DOMAIN flights
           /\ flights[i] \in Load /\ ~flights'[i].open
           /\ \A j \in DOMAIN flights : Continues(j)
           /\ \A j \in DOMAIN flights : j # i => flights'[j] = flights[j]
<1> DEFINE load == Answered(flights[i])
<1>1. flights[i] \in Load
  BY DEF CacheInv, Types
<1>2. flights' = [flights EXCEPT ![i] = load]
  BY DEF Answered, Settled
<1>3. /\ load \in Load /\ load.key = flights[i].key /\ load.generation = flights[i].generation
      /\ load.value = flights[i].value /\ load.settled = TRUE /\ load.open = FALSE
      /\ load.waiters = flights[i].waiters
  BY <1>1, AnsweredLoad
<1> HIDE DEF load
<1> QED
  BY <1>1, <1>2, <1>3, OneLoad

\* finish without a value to publish.
LEMMA UnpublishedKeeps ==
    ASSUME CacheInv, NEW i \in DOMAIN flights, FinishUnpublished(i)
    PROVE  CacheInv'
<1> DEFINE k == flights[i].key
           g == flights[i].generation
           unused == /\ generations[k] = g /\ cached[k].generation # g
                     /\ Unused(k, g, Open \ {i})
<1>1. /\ flights' = Settled(i)
      /\ generations' = [generations EXCEPT ![k] = IF unused THEN 0 ELSE @]
      /\ UNCHANGED <<cached, nextGeneration, caller, epoch>>
  BY DEF FinishUnpublished
<1>2. /\ flights' \in Seq(Load) /\ DOMAIN flights' = DOMAIN flights
      /\ flights[i] \in Load /\ ~flights'[i].open
      /\ \A j \in DOMAIN flights : Continues(j)
      /\ \A j \in DOMAIN flights : j # i => flights'[j] = flights[j]
  BY <1>1, SettledContinues
<1>3. k \in Keys /\ g \in Nat \ {0} /\ generations \in [Keys -> Nat]
  BY <1>2, LoadFields DEF CacheInv, Types
<1>4. /\ generations' \in [Keys -> Nat]
      /\ \A l \in Keys : generations'[l] = IF l = k /\ unused THEN 0 ELSE generations[l]
  BY <1>1, <1>3
<1>5. Types'
  BY <1>1, <1>2, <1>4 DEF CacheInv, Types
<1>6. \A j \in DOMAIN flights : j # i => flights[j].generation # g
  BY DEF CacheInv, OwnGeneration
<1>7. Yields
  <2>1. \A j \in DOMAIN flights : flights[j].key \in Keys
    BY <1>2, LoadFields DEF CacheInv, Types
  <2> QED
    BY <1>2, <1>4, <1>6, <2>1 DEF Yields
<1>8. NoGenerationLeak'
  <2> SUFFICES ASSUME NEW l \in Keys, generations'[l] # 0, cached[l].generation # generations'[l]
               PROVE  \E j \in DOMAIN flights : /\ flights'[j].open /\ flights'[j].key = l
                                               /\ flights'[j].generation = generations'[l]
    BY ZenonT(60), <1>1, <1>2 DEF NoGenerationLeak, Joinable
  <2>1. generations'[l] = generations[l] /\ ~(l = k /\ unused)
    BY <1>4
  <2>2. PICK j \in DOMAIN flights :
            flights[j].open /\ flights[j].key = l /\ flights[j].generation = generations[l]
    BY <2>1 DEF CacheInv, NoGenerationLeak, Joinable
  <2>3. CASE j # i
    BY <1>2, <2>1, <2>2, <2>3
  <2>4. CASE j = i
    <3>1. l = k /\ generations[k] = g /\ ~Unused(k, g, Open \ {i})
      BY <2>1, <2>2, <2>4
    <3>2. PICK m \in Open \ {i} : flights[m].key = k /\ flights[m].generation = g
      BY <3>1 DEF Unused
    <3> QED
      BY <1>6, <3>2 DEF Open
  <2> QED
    BY <2>3, <2>4
<1>9. CachedIsFresh' /\ NoNewWait
  BY <1>1 DEF CacheInv, CachedIsFresh, Cached, NoNewWait
<1> QED
  BY <1>1, <1>2, <1>5, <1>7, <1>8, <1>9, Transfer
\* What deleteCached takes away, and what it releases.
LEMMA GoneEntries ==
    ASSUME CacheInv, NEW gone \in SUBSET Keys
    PROVE  /\ WithoutEntries(gone) \in [Keys -> Entry]
           /\ \A k \in Keys : WithoutEntries(gone)[k] = IF k \in gone THEN NoValue ELSE cached[k]
<1>1. NoValue \in Entry
  BY DEF NoValue, Entry
<1> QED
  BY <1>1 DEF WithoutEntries, CacheInv, Types

LEMMA ReleasedGenerations ==
    ASSUME CacheInv, NEW gone \in SUBSET Keys, NEW open
    PROVE  /\ Released(gone, open) \in [Keys -> Nat]
           /\ \A k \in Keys :
                Released(gone, open)[k] =
                    IF /\ k \in gone /\ generations[k] = cached[k].generation
                       /\ Unused(k, generations[k], open)
                    THEN 0 ELSE generations[k]
BY DEF Released, CacheInv, Types

\* finish with a value that is published.
LEMMA PublishedKeeps ==
    ASSUME CacheInv, NEW i \in DOMAIN flights, FinishPublished(i)
    PROVE  CacheInv'
<1> DEFINE k == flights[i].key
           g == flights[i].generation
           entry == [generation |-> g, value |-> flights[i].value, live |-> TRUE]
           expired == {l \in Keys : Cached(l) /\ ~cached[l].live}
<1>1. /\ flights' = Settled(i) /\ generations[k] = g
      /\ UNCHANGED <<nextGeneration, caller, epoch>>
      /\ \E gone \in SUBSET Keys : /\ cached' = [WithoutEntries(gone) EXCEPT ![k] = entry]
                                  /\ generations' = Released(gone, Open \ {i})
  <2>1. PICK oldest \in SUBSET ({l \in Keys : Cached(l)} \ expired) :
            /\ cached' = [WithoutEntries(expired \cup oldest) EXCEPT ![k] = entry]
            /\ generations' = Released(expired \cup oldest, Open \ {i})
    BY DEF FinishPublished
  <2>2. expired \cup oldest \in SUBSET Keys
    OBVIOUS
  <2> QED
    BY <2>1, <2>2 DEF FinishPublished, Publishes
<1>2. /\ flights' \in Seq(Load) /\ DOMAIN flights' = DOMAIN flights
      /\ flights[i] \in Load /\ ~flights'[i].open
      /\ \A j \in DOMAIN flights : Continues(j)
      /\ \A j \in DOMAIN flights : j # i => flights'[j] = flights[j]
  BY <1>1, SettledContinues
<1>3. /\ k \in Keys /\ g \in Nat \ {0} /\ generations \in [Keys -> Nat]
      /\ entry \in Entry /\ entry.generation = g /\ entry.value = flights[i].value
  BY <1>2, LoadFields DEF CacheInv, Types, Entry
<1>4. PICK gone \in SUBSET Keys : /\ cached' = [WithoutEntries(gone) EXCEPT ![k] = entry]
                                 /\ generations' = Released(gone, Open \ {i})
  BY <1>1
<1> HIDE DEF entry, expired
<1>5. /\ cached' \in [Keys -> Entry] /\ cached'[k] = entry
      /\ \A l \in Keys : l # k => cached'[l] = IF l \in gone THEN NoValue ELSE cached[l]
  BY <1>3, <1>4, GoneEntries
<1>6. /\ generations' \in [Keys -> Nat]
      /\ \A l \in Keys : generations'[l] =
            IF /\ l \in gone /\ generations[l] = cached[l].generation
               /\ Unused(l, generations[l], Open \ {i})
            THEN 0 ELSE generations[l]
  BY <1>4, ReleasedGenerations
<1>7. Types'
  BY <1>1, <1>2, <1>5, <1>6 DEF CacheInv, Types
<1>8. Yields
  <2>1. \A j \in DOMAIN flights : flights[j].key \in Keys
    BY <1>2, LoadFields DEF CacheInv, Types
  <2>2. \A j \in DOMAIN flights : flights'[j].open /\ flights[j].generation = generations[flights[j].key]
            => ~Unused(flights[j].key, generations[flights[j].key], Open \ {i})
    BY <1>2 DEF Unused, Open, Continues
  <2> QED
    BY <1>6, <2>1, <2>2 DEF Yields
<1>9. NoGenerationLeak'
  <2> SUFFICES ASSUME NEW l \in Keys, generations'[l] # 0, cached'[l].generation # generations'[l]
               PROVE  \E j \in DOMAIN flights : /\ flights'[j].open /\ flights'[j].key = l
                                               /\ flights'[j].generation = generations'[l]
    BY ZenonT(60), <1>1, <1>2 DEF NoGenerationLeak, Joinable
  <2>1. generations'[l] = generations[l]
    BY <1>6
  <2>2. l # k
    BY <1>1, <1>3, <1>5, <2>1
  <2>3. CASE cached[l].generation = generations[l]
    <3>1. l \in gone
      BY <1>5, <2>1, <2>2, <2>3
    <3>2. ~Unused(l, generations[l], Open \ {i})
      BY <1>6, <2>1, <2>3, <3>1
    <3> QED
      BY <1>2, <2>1, <3>2 DEF Unused, Open
  <2>4. CASE cached[l].generation # generations[l]
    <3>1. PICK j \in DOMAIN flights :
            flights[j].open /\ flights[j].key = l /\ flights[j].generation = generations[l]
      BY <2>1, <2>4 DEF CacheInv, NoGenerationLeak, Joinable
    <3> QED
      BY <1>2, <2>1, <2>2, <3>1
  <2> QED
    BY <2>3, <2>4
<1>10. CachedIsFresh'
  <2>1. flights[i].value = epoch[k]
    BY <1>1 DEF CacheInv, CurrentIsFresh
  <2>2. \A l \in Keys : cached'[l].generation # 0 => cached'[l].value = epoch[l]
    BY <1>3, <1>5, <2>1 DEF CacheInv, CachedIsFresh, Cached, NoValue
  <2> QED
    BY <1>1, <2>2 DEF CachedIsFresh, Cached
<1>11. NoNewWait
  BY <1>1 DEF NoNewWait
<1> QED
  BY <1>1, <1>2, <1>7, <1>8, <1>9, <1>10, <1>11, Transfer

\* Time passes over an entry.
LEMMA ExpireKeeps ==
    ASSUME CacheInv, NEW k \in Keys, Expire(k)
    PROVE  CacheInv'
<1>1. /\ cached' = [cached EXCEPT ![k].live = FALSE] /\ cached \in [Keys -> Entry]
      /\ UNCHANGED <<generations, nextGeneration, flights, caller, epoch>>
  BY DEF Expire, CacheInv, Types
<1>2. /\ cached' \in [Keys -> Entry]
      /\ \A l \in Keys : /\ cached'[l].generation = cached[l].generation
                         /\ cached'[l].value = cached[l].value
  BY <1>1 DEF Entry
<1>3. Types'
  BY <1>1, <1>2 DEF CacheInv, Types
<1>4. Yields /\ NoNewWait /\ CachedIsFresh' /\ NoGenerationLeak'
  BY <1>1, <1>2 DEF CacheInv, Yields, NoNewWait, CachedIsFresh, Cached, NoGenerationLeak, Joinable
<1> QED
  BY <1>1, <1>3, <1>4, NoLoad, Transfer
-----------------------------------------------------------------------------------
\* An invalidation takes the generations away, so that no load is of the new time.
LEMMA InvalidateKeeps ==
    ASSUME CacheInv, NEW which \in SUBSET Keys, Invalidate(which)
    PROVE  CacheInv'
<1>1. /\ cached' = WithoutEntries(which) /\ UNCHANGED <<nextGeneration, flights, caller>>
      /\ generations' = [k \in Keys |-> IF k \in which THEN 0 ELSE generations[k]]
      /\ epoch' = [k \in Keys |-> IF k \in which THEN epoch[k] + 1 ELSE epoch[k]]
  BY DEF Invalidate
<1>2. /\ generations \in [Keys -> Nat] /\ epoch \in [Keys -> Nat] /\ nextGeneration \in Nat
      /\ flights \in Seq(Load)
  BY DEF CacheInv, Types
<1>3. /\ cached' \in [Keys -> Entry]
      /\ \A k \in Keys : cached'[k] = IF k \in which THEN NoValue ELSE cached[k]
  BY <1>1, GoneEntries
<1>4. /\ generations' \in [Keys -> Nat] /\ epoch' \in [Keys -> Nat]
      /\ \A k \in Keys : /\ generations'[k] = IF k \in which THEN 0 ELSE generations[k]
                         /\ epoch'[k] = IF k \in which THEN epoch[k] + 1 ELSE epoch[k]
  BY <1>1, <1>2
<1>5. \A i \in DOMAIN flights : /\ flights[i].key \in Keys /\ flights[i].generation \in Nat \ {0}
                               /\ flights[i].value \in Nat
  BY <1>2, LoadFields
<1>6. Types'
  BY <1>1, <1>3, <1>4 DEF CacheInv, Types
<1>7. Allocated'
  <2>1. \A k \in Keys : generations[k] <= nextGeneration
    BY DEF CacheInv, Allocated
  <2>2. 0 <= nextGeneration
    BY <1>2
  <2>3. \A k \in Keys : generations'[k] <= nextGeneration
    BY <1>4, <2>1, <2>2
  <2> QED
    BY <1>1, <2>3 DEF CacheInv, Allocated
<1>8. CurrentIsFresh'
  BY <1>1, <1>4, <1>5 DEF CacheInv, CurrentIsFresh
<1>9. OpenDiffer'
  <2>1. \A i \in DOMAIN flights : flights[i].value <= epoch[flights[i].key]
    BY DEF CacheInv, OpenDiffer
  <2>2. \A k \in Keys : epoch[k] \in Nat /\ epoch'[k] \in {epoch[k], epoch[k] + 1}
    BY <1>2, <1>4
  <2>3. ASSUME NEW i \in DOMAIN flights
        PROVE  flights[i].value <= epoch'[flights[i].key]
    <3>1. flights[i].key \in Keys /\ flights[i].value \in Nat
      BY <1>5
    <3>2. flights[i].value <= epoch[flights[i].key]
      BY <2>1
    <3>3. epoch[flights[i].key] \in Nat
          /\ epoch'[flights[i].key] \in {epoch[flights[i].key], epoch[flights[i].key] + 1}
      BY <2>2, <3>1
    <3> QED
      BY <3>1, <3>2, <3>3
  <2> QED
    BY <1>1, <2>3 DEF CacheInv, OpenDiffer
<1>10. FreshIsCurrent'
  <2>1. \A i \in DOMAIN flights : flights[i].value <= epoch[flights[i].key]
    BY DEF CacheInv, OpenDiffer
  <2> QED
    BY <1>1, <1>2, <1>4, <1>5, <2>1 DEF CacheInv, FreshIsCurrent
<1>11. CachedIsFresh' /\ NoGenerationLeak'
  BY <1>1, <1>3, <1>4 DEF CacheInv, CachedIsFresh, Cached, NoGenerationLeak, Joinable, NoValue
<1>12. OwnGeneration' /\ WaitedIsOpen' /\ AnswersAreFresh'
  BY <1>1 DEF CacheInv, OwnGeneration, WaitedIsOpen, AnswersAreFresh
<1> QED
  BY <1>6, <1>7, <1>8, <1>9, <1>10, <1>11, <1>12 DEF CacheInv

\* get of a key whose entry is gone or expired, up to the choice between joining and beginning.
Gone(k) == IF Cached(k) /\ ~cached[k].live THEN {k} ELSE {}

LEMMA GetSharedFacts ==
    ASSUME CacheInv, NEW k \in Keys, ~Hit(k)
    PROVE  /\ Gone(k) \in SUBSET Keys /\ Released(Gone(k), Open) \in [Keys -> Nat]
           /\ \A l \in Keys : l # k => Released(Gone(k), Open)[l] = generations[l]
           /\ Released(Gone(k), Open)[k] \in {0, generations[k]}
           /\ Released(Gone(k), Open)[k] # 0 =>
                \E i \in DOMAIN flights : Joinable(i, k, generations[k])
           /\ \A i \in DOMAIN flights : Joinable(i, k, generations[k])
                => Released(Gone(k), Open)[k] = generations[k]
<1> DEFINE gone == Gone(k)
           released == Released(gone, Open)
<1>1. gone \in SUBSET Keys /\ \A l \in Keys : l \in gone => l = k
  BY DEF Gone
<1>2. /\ released \in [Keys -> Nat]
      /\ \A l \in Keys : released[l] =
            IF /\ l \in gone /\ generations[l] = cached[l].generation
               /\ Unused(l, generations[l], Open)
            THEN 0 ELSE generations[l]
  BY <1>1, ReleasedGenerations
<1> HIDE DEF released
<1>3. released[k] # 0 => \E i \in DOMAIN flights : Joinable(i, k, generations[k])
  <2> SUFFICES ASSUME released[k] # 0
               PROVE  \E i \in DOMAIN flights : Joinable(i, k, generations[k])
    OBVIOUS
  <2>1. generations[k] # 0
    BY <1>2
  <2>2. CASE cached[k].generation = generations[k]
    <3>1. k \in gone
      BY <2>1, <2>2 DEF Hit, Cached, Gone
    <3>2. ~Unused(k, generations[k], Open)
      BY <1>2, <2>2, <3>1
    <3> QED
      BY <3>2 DEF Unused, Open, Joinable
  <2>3. CASE cached[k].generation # generations[k]
    BY <2>1, <2>3 DEF CacheInv, NoGenerationLeak
  <2> QED
    BY <2>2, <2>3
<1>4. \A i \in DOMAIN flights : Joinable(i, k, generations[k]) => released[k] = generations[k]
  BY <1>2 DEF Joinable, Unused, Open
<1> QED
  BY <1>1, <1>2, <1>3, <1>4 DEF released
\* A caller that joins a load has one of the time it calls at.
LEMMA JoinKeeps ==
    ASSUME CacheInv, NEW c \in Callers, NEW k \in Keys,
           UNCHANGED <<generations, nextGeneration, epoch>>,
           NEW gone \in SUBSET Keys, cached' = WithoutEntries(gone),
           \A l \in gone : cached[l].generation # generations[l] \/
                \E j \in DOMAIN flights : Joinable(j, l, generations[l]),
           NEW i \in DOMAIN flights, Joinable(i, k, generations[k]),
           flights' = [flights EXCEPT ![i].waiters = @ + 1],
           caller' = [caller EXCEPT ![c] = [at |-> "waiting", flight |-> i, since |-> epoch[k]]]
    PROVE  CacheInv'
<1> DEFINE load == Joined(flights[i])
<1>1. /\ flights[i] \in Load /\ caller \in [Callers -> Place] /\ epoch \in [Keys -> Nat]
      /\ flights \in Seq(Load) /\ UNCHANGED epoch
  BY DEF CacheInv, Types
<1>2. flights' = [flights EXCEPT ![i] = load]
  BY DEF Joined
<1>3. /\ load \in Load /\ load.key = flights[i].key /\ load.generation = flights[i].generation
      /\ load.value = flights[i].value /\ load.settled = flights[i].settled
      /\ load.open = flights[i].open /\ load.waiters = flights[i].waiters + 1 /\ flights[i].open
  BY <1>1, JoinedLoad DEF Joinable
<1> HIDE DEF load
<1>4. /\ flights' \in Seq(Load) /\ DOMAIN flights' = DOMAIN flights /\ flights'[i] = load
      /\ \A j \in DOMAIN flights : Continues(j)
      /\ \A j \in DOMAIN flights : j # i => flights'[j] = flights[j]
  BY <1>2, <1>3, OneLoad
<1>5. /\ cached' \in [Keys -> Entry]
      /\ \A l \in Keys : cached'[l] = IF l \in gone THEN NoValue ELSE cached[l]
  BY GoneEntries
<1>6. i \in Nat /\ DOMAIN flights \subseteq Nat
  BY <1>1
<1>7. /\ caller' \in [Callers -> Place]
      /\ caller'[c] = [at |-> "waiting", flight |-> i, since |-> epoch[k]]
      /\ \A d \in Callers : d # c => caller'[d] = caller[d]
  BY <1>1, <1>6 DEF Place
<1>8. Types'
  BY <1>1, <1>4, <1>5, <1>7 DEF CacheInv, Types
<1>9. Yields
  BY DEF Yields
<1>10. CachedIsFresh'
  BY <1>1, <1>5 DEF CacheInv, CachedIsFresh, Cached, NoValue
<1>11. NoGenerationLeak'
  <2> SUFFICES ASSUME NEW l \in Keys, generations[l] # 0, cached'[l].generation # generations[l]
               PROVE  \E j \in DOMAIN flights : Joinable(j, l, generations[l])
    BY SMTT(30), <1>3, <1>4 DEF NoGenerationLeak, Joinable
  <2> QED
    BY <1>5 DEF CacheInv, NoGenerationLeak
<1>12. AnswersAreFresh'
  <2>1. flights[i].value = epoch[k]
    BY DEF CacheInv, CurrentIsFresh, Joinable
  <2>2. flights'[i].value >= epoch[k]
    <3>1. flights'[i].value = epoch[k]
      BY <1>3, <1>4, <2>1
    <3>2. epoch[k] \in Nat
      BY <1>1
    <3> QED
      BY <3>1, <3>2
  <2>3. ASSUME NEW d \in Callers, caller'[d].at = "waiting"
        PROVE  flights'[caller'[d].flight].value >= caller'[d].since
    BY <1>4, <1>7, <2>2, <2>3 DEF CacheInv, Types, AnswersAreFresh, Continues
  <2> QED
    BY <2>3 DEF AnswersAreFresh
<1> QED
  BY <1>1, <1>4, <1>8, <1>9, <1>10, <1>11, <1>12, LoadsTransfer DEF CacheInv
\* A caller that finds nothing to join begins a load with a generation no load ever had.
LEMMA BeginKeeps ==
    ASSUME CacheInv, NEW c \in Callers, NEW k \in Keys, UNCHANGED epoch,
           NEW gone \in SUBSET Keys, cached' = WithoutEntries(gone), \A l \in gone : l = k,
           NEW released \in [Keys -> Nat], \A l \in Keys : l # k => released[l] = generations[l],
           generations' = [released EXCEPT ![k] = nextGeneration + 1],
           nextGeneration' = nextGeneration + 1,
           \A i \in DOMAIN flights : ~Joinable(i, k, generations[k]),
           flights' = Append(flights, [key |-> k, generation |-> nextGeneration + 1,
                                       value |-> epoch[k], state |-> "loading", waiters |-> 1,
                                       open |-> TRUE, settled |-> FALSE]),
           caller' = [caller EXCEPT ![c] = [at |-> "waiting", flight |-> Len(flights) + 1,
                                            since |-> epoch[k]]]
    PROVE  CacheInv'
<1> DEFINE n == Len(flights) + 1
           g == nextGeneration + 1
           load == [key |-> k, generation |-> g, value |-> epoch[k], state |-> "loading",
                    waiters |-> 1, open |-> TRUE, settled |-> FALSE]
<1>1. /\ caller \in [Callers -> Place] /\ epoch \in [Keys -> Nat] /\ flights \in Seq(Load)
      /\ nextGeneration \in Nat /\ generations \in [Keys -> Nat]
  BY DEF CacheInv, Types
<1>2. epoch[k] \in Nat /\ g \in Nat \ {0} /\ n \in Nat /\ DOMAIN flights \subseteq Nat
  <2>1. epoch[k] \in Nat
    BY <1>1
  <2>2. Len(flights) \in Nat /\ DOMAIN flights \subseteq Nat
    BY <1>1
  <2> QED
    BY <1>1, <2>1, <2>2
<1>3. /\ load \in Load /\ load.key = k /\ load.generation = g /\ load.value = epoch[k]
      /\ load.open /\ ~load.settled
  BY <1>2 DEF Load
<1> HIDE DEF load
<1>4. flights' = Append(flights, load) /\ n \notin DOMAIN flights
  BY <1>1 DEF load
<1>5. /\ flights' \in Seq(Load) /\ DOMAIN flights' = DOMAIN flights \cup {n}
      /\ flights'[n] = load /\ \A j \in DOMAIN flights : flights'[j] = flights[j]
  BY <1>1, <1>3, <1>4, AppendSeq
<1>6. /\ cached' \in [Keys -> Entry]
      /\ \A l \in Keys : cached'[l] = IF l \in gone THEN NoValue ELSE cached[l]
  BY GoneEntries
<1>7. /\ generations' \in [Keys -> Nat] /\ generations'[k] = g
      /\ \A l \in Keys : l # k => generations'[l] = generations[l]
  BY <1>2
<1> HIDE DEF n, g
<1>8. /\ caller' \in [Callers -> Place]
      /\ caller'[c] = [at |-> "waiting", flight |-> n, since |-> epoch[k]]
      /\ \A d \in Callers : d # c => caller'[d] = caller[d]
  BY <1>1, <1>2 DEF Place, n
<1>9. \A j \in DOMAIN flights :
        /\ flights[j].key \in Keys /\ flights[j].generation \in Nat \ {0} /\ flights[j].value \in Nat
        /\ flights[j].generation <= nextGeneration
  BY <1>1, LoadFields DEF CacheInv, Allocated
<1>10. \A j \in DOMAIN flights : flights[j].generation # g
  BY <1>1, <1>9 DEF g
<1>11. Types'
  BY <1>5, <1>6, <1>7, <1>8, <1>2 DEF CacheInv, Types, g
<1>12. Allocated'
  <2>1. nextGeneration' = g /\ g = nextGeneration + 1
    BY DEF g
  <2>2. ASSUME NEW l \in Keys
        PROVE  generations'[l] <= nextGeneration'
    <3>1. generations[l] <= nextGeneration /\ generations[l] \in Nat
      BY <1>1 DEF CacheInv, Allocated
    <3> QED
      BY <1>1, <1>2, <1>7, <2>1, <3>1
  <2>3. ASSUME NEW j \in DOMAIN flights'
        PROVE  flights'[j].generation <= nextGeneration'
    BY <1>1, <1>2, <1>3, <1>5, <1>9, <2>1
  <2> QED
    BY <2>2, <2>3 DEF Allocated
<1>13. CurrentIsFresh'
  <2>1. ASSUME NEW j \in DOMAIN flights, flights'[j].generation = generations'[flights'[j].key]
        PROVE  flights'[j].value = epoch[flights'[j].key]
    <3>1. flights'[j] = flights[j] /\ flights[j].key # k
      BY <1>5, <1>7, <1>10, <2>1
    <3>2. flights[j].generation = generations[flights[j].key]
      BY <1>7, <1>9, <2>1, <3>1
    <3> QED
      BY <3>1, <3>2 DEF CacheInv, CurrentIsFresh
  <2>2. flights'[n].value = epoch[flights'[n].key]
    BY <1>3, <1>5
  <2> QED
    BY <1>5, <2>1, <2>2 DEF CurrentIsFresh
<1>14. \A j \in DOMAIN flights : flights[j].open /\ flights[j].key = k => flights[j].value # epoch[k]
  BY DEF CacheInv, FreshIsCurrent, Joinable
<1>15. FreshIsCurrent'
  <2>1. ASSUME NEW j \in DOMAIN flights, flights'[j].open,
               flights'[j].value = epoch[flights'[j].key]
        PROVE  flights'[j].generation = generations'[flights'[j].key]
    <3>1. flights'[j] = flights[j] /\ flights[j].key # k
      BY <1>5, <1>14, <2>1
    <3>2. flights[j].generation = generations[flights[j].key]
      BY <2>1, <3>1 DEF CacheInv, FreshIsCurrent
    <3> QED
      BY <1>7, <1>9, <3>1, <3>2
  <2>2. flights'[n].generation = generations'[flights'[n].key]
    BY <1>3, <1>5, <1>7
  <2> QED
    BY <1>5, <2>1, <2>2 DEF FreshIsCurrent
<1>16. OpenDiffer'
  <2>1. \A j \in DOMAIN flights' : flights'[j].value <= epoch[flights'[j].key]
    BY <1>2, <1>3, <1>5 DEF CacheInv, OpenDiffer
  <2>2. \A i, j \in DOMAIN flights' :
            i # j /\ flights'[i].open /\ flights'[j].open /\ flights'[i].key = flights'[j].key =>
                flights'[i].value # flights'[j].value
    BY <1>3, <1>5, <1>14 DEF CacheInv, OpenDiffer
  <2> QED
    BY <2>1, <2>2 DEF OpenDiffer
<1>17. OwnGeneration' /\ WaitedIsOpen'
  BY <1>3, <1>5, <1>10 DEF CacheInv, OwnGeneration, WaitedIsOpen
<1>18. CachedIsFresh'
  BY <1>6 DEF CacheInv, CachedIsFresh, Cached, NoValue
<1>19. NoGenerationLeak'
  <2> SUFFICES ASSUME NEW l \in Keys, generations'[l] # 0, cached'[l].generation # generations'[l]
               PROVE  \E j \in DOMAIN flights' : /\ flights'[j].open /\ flights'[j].key = l
                                                /\ flights'[j].generation = generations'[l]
    BY DEF NoGenerationLeak, Joinable
  <2>1. CASE l = k
    BY <1>3, <1>5, <1>7, <2>1
  <2>2. CASE l # k
    BY SMTT(30), <1>5, <1>6, <1>7, <2>2 DEF CacheInv, NoGenerationLeak, Joinable
  <2> QED
    BY <2>1, <2>2
<1>20. AnswersAreFresh'
  <2>1. flights'[n].value >= epoch[k]
    BY <1>2, <1>3, <1>5
  <2>2. ASSUME NEW d \in Callers, caller'[d].at = "waiting"
        PROVE  flights'[caller'[d].flight].value >= caller'[d].since
    BY <1>5, <1>8, <2>1, <2>2 DEF CacheInv, Types, AnswersAreFresh
  <2> QED
    BY <2>2 DEF AnswersAreFresh
<1> QED
  BY <1>11, <1>12, <1>13, <1>15, <1>16, <1>17, <1>18, <1>19, <1>20 DEF CacheInv
LEMMA GetKeeps ==
    ASSUME CacheInv, NEW c \in Callers, NEW k \in Keys, GetShared(c, k)
    PROVE  CacheInv'
<1> DEFINE gone == Gone(k)
           released == Released(gone, Open)
           g == GenerationFor(released[k])
           joined == {i \in DOMAIN flights : Joinable(i, k, g)}
           entry == [key |-> k, generation |-> g, value |-> epoch[k], state |-> "loading",
                     waiters |-> 1, open |-> TRUE, settled |-> FALSE]
<1>1. /\ ~Hit(k) /\ cached' = WithoutEntries(gone)
      /\ generations' = [released EXCEPT ![k] = g]
      /\ nextGeneration' = IF g > nextGeneration THEN g ELSE nextGeneration
      /\ IF joined = {}
         THEN /\ flights' = Append(flights, entry)
              /\ caller' = [caller EXCEPT ![c] = [at |-> "waiting", flight |-> Len(flights) + 1,
                                                  since |-> epoch[k]]]
         ELSE \E i \in joined :
              /\ flights' = [flights EXCEPT ![i].waiters = @ + 1]
              /\ caller' = [caller EXCEPT ![c] = [at |-> "waiting", flight |-> i,
                                                  since |-> epoch[k]]]
      /\ UNCHANGED epoch
  BY DEF GetShared, Gone
<1>2. /\ gone \in SUBSET Keys /\ released \in [Keys -> Nat]
      /\ \A l \in Keys : l # k => released[l] = generations[l]
      /\ released[k] \in {0, generations[k]}
      /\ released[k] # 0 => \E i \in DOMAIN flights : Joinable(i, k, generations[k])
      /\ \A i \in DOMAIN flights : Joinable(i, k, generations[k])
                    => released[k] = generations[k]
  BY <1>1, GetSharedFacts
<1>3. /\ nextGeneration \in Nat /\ generations \in [Keys -> Nat] /\ generations[k] <= nextGeneration
      /\ flights \in Seq(Load)
  BY DEF CacheInv, Types, Allocated
<1>4. \A l \in gone : l = k
  BY DEF Gone
<1> HIDE DEF gone, released
<1>5. CASE \E i \in DOMAIN flights : Joinable(i, k, generations[k])
  <2>1. PICK j \in DOMAIN flights : Joinable(j, k, generations[k])
    BY <1>5
  <2>2. generations[k] # 0
    <3>1. flights[j].generation \in Nat \ {0}
      BY <1>3, LoadFields
    <3> QED
      BY <2>1, <3>1 DEF Joinable
  <2>3. released[k] = generations[k] /\ g = generations[k]
    BY <1>2, <2>1, <2>2 DEF GenerationFor
  <2>4. UNCHANGED <<generations, nextGeneration>>
    BY <1>1, <1>2, <1>3, <2>3
  <2>5. PICK i \in DOMAIN flights :
            /\ Joinable(i, k, generations[k])
            /\ flights' = [flights EXCEPT ![i].waiters = @ + 1]
            /\ caller' = [caller EXCEPT ![c] = [at |-> "waiting", flight |-> i, since |-> epoch[k]]]
    BY <1>1, <2>1, <2>3
  <2>6. \A l \in gone : cached[l].generation # generations[l] \/
            \E m \in DOMAIN flights : Joinable(m, l, generations[l])
    BY <1>4, <2>1
  <2> QED
    BY <1>1, <1>2, <2>4, <2>5, <2>6, JoinKeeps
<1>6. CASE ~ \E i \in DOMAIN flights : Joinable(i, k, generations[k])
  <2>1. released[k] = 0 /\ g = nextGeneration + 1
    BY <1>2, <1>6 DEF GenerationFor
  <2>2. joined = {}
    <3>1. \A i \in DOMAIN flights : flights[i].generation <= nextGeneration
      BY DEF CacheInv, Allocated
    <3>2. \A i \in DOMAIN flights : flights[i].generation \in Nat
      BY <1>3, LoadFields
    <3> QED
      BY <1>3, <2>1, <3>1, <3>2 DEF Joinable
  <2>3. nextGeneration' = nextGeneration + 1
    BY <1>1, <1>3, <2>1
  <2>4. /\ generations' = [released EXCEPT ![k] = nextGeneration + 1]
        /\ flights' = Append(flights, [key |-> k, generation |-> nextGeneration + 1,
                                       value |-> epoch[k], state |-> "loading", waiters |-> 1,
                                       open |-> TRUE, settled |-> FALSE])
        /\ caller' = [caller EXCEPT ![c] = [at |-> "waiting", flight |-> Len(flights) + 1,
                                            since |-> epoch[k]]]
    BY <1>1, <2>1, <2>2
  <2> QED
    BY <1>1, <1>2, <1>4, <1>6, <2>3, <2>4, BeginKeeps
<1> QED
  BY <1>5, <1>6

-----------------------------------------------------------------------------------
LEMMA CacheInvStep == CacheInv /\ [CacheNext]_cacheVars => CacheInv'
<1> SUFFICES ASSUME CacheInv, [CacheNext]_cacheVars
             PROVE  CacheInv'
  OBVIOUS
<1>1. CASE UNCHANGED cacheVars
  BY <1>1 DEF cacheVars, CacheInv, Types, Allocated, CurrentIsFresh, FreshIsCurrent, OpenDiffer,
              OwnGeneration, WaitedIsOpen, CachedIsFresh, Cached, AnswersAreFresh,
              NoGenerationLeak, Joinable
<1>2. ASSUME NEW c \in Callers, NEW k \in Keys, GetShared(c, k)
      PROVE  CacheInv'
  BY <1>2, GetKeeps
<1>3. ASSUME NEW c \in Callers,
             Wakes(c) \/ CallerInterrupted(c) \/ ReleaseWaiter(c) \/ StopLoad(c)
      PROVE  CacheInv'
  BY <1>3, WakeKeeps, ReleaseKeeps, StopKeeps
<1>4. ASSUME NEW i \in DOMAIN flights, LoadEnds(i) \/ FinishPublished(i) \/ FinishUnpublished(i)
      PROVE  CacheInv'
  BY <1>4, EndKeeps, PublishedKeeps, UnpublishedKeeps
<1>5. ASSUME NEW which \in SUBSET Keys, Invalidate(which)
      PROVE  CacheInv'
  BY <1>5, InvalidateKeeps
<1>6. ASSUME NEW k \in Keys, Expire(k)
      PROVE  CacheInv'
  BY <1>6, ExpireKeeps
<1>7. ASSUME NEW c \in Callers, NEW k \in Keys, GetCached(c, k)
      PROVE  CacheInv'
  BY <1>1, <1>7 DEF GetCached
<1> QED
  BY <1>1, <1>2, <1>3, <1>4, <1>5, <1>6, <1>7 DEF CacheNext

LEMMA AlwaysCacheInv == CacheSpec => []CacheInv
BY CacheInvInit, CacheInvStep, PTL DEF CacheSpec

\* Whatever is invalidated while a load runs, however many callers share, leave or begin it: what
\* is cached was loaded after the last invalidation of its key.
THEOREM CacheFresh == CacheSpec => []CachedIsFresh
<1>1. CacheInv => CachedIsFresh
  BY DEF CacheInv
<1> QED
  BY AlwaysCacheInv, <1>1, PTL

\* Who calls get after an invalidation waits for a load that began after it.
THEOREM AnswersFresh == CacheSpec => []AnswersAreFresh
<1>1. CacheInv => AnswersAreFresh
  BY DEF CacheInv
<1> QED
  BY AlwaysCacheInv, <1>1, PTL

\* Two loads of a key that are waited for have an invalidation between them.
THEOREM LoadsShared == CacheSpec => []SingleFlight
<1>1. CacheInv => SingleFlight
  BY DEF CacheInv, OpenDiffer, WaitedIsOpen, SingleFlight
<1> QED
  BY AlwaysCacheInv, <1>1, PTL

\* The map of generations holds no key without an entry or an open load.
THEOREM GenerationsReleased == CacheSpec => []NoGenerationLeak
<1>1. CacheInv => NoGenerationLeak
  BY DEF CacheInv
<1> QED
  BY AlwaysCacheInv, <1>1, PTL
-----------------------------------------------------------------------------------
\* The waiters of a load are counted right, so the last one that leaves is the last.

Holders(i) == {c \in Callers : caller[c].at \in {"waiting", "leaving"} /\ caller[c].flight = i}

CountedRight == \A i \in DOMAIN flights : flights[i].waiters = Cardinality(Holders(i))

\* A load is cut off, or about to be.
Ending(i) ==
    \/ flights[i].state = "cut"
    \/ \E c \in Callers : caller[c].at = "stopping" /\ caller[c].flight = i

\* Such a load cannot be joined, and nobody holds it.
EndingIsUnheld == \A i \in DOMAIN flights : Ending(i) => ~flights[i].open /\ Holders(i) = {}

HoldInv == CountedRight /\ EndingIsUnheld

LEMMA HoldersFinite ==
    ASSUME NEW i
    PROVE  IsFiniteSet(Holders(i)) /\ Cardinality(Holders(i)) \in Nat
<1>1. Holders(i) \in SUBSET Callers
  BY DEF Holders
<1> QED
  BY <1>1, FS_Subset, FS_CardinalityType, CacheAssumption

\* Steps that nobody joins or leaves by, and that end no load that did not end already.
LEMMA HoldTransfer ==
    ASSUME HoldInv, DOMAIN flights' = DOMAIN flights,
           \A i \in DOMAIN flights :
                /\ Holders(i)' = Holders(i) /\ flights'[i].waiters = flights[i].waiters
                /\ flights'[i].open => flights[i].open
                /\ Ending(i)' => Ending(i)
    PROVE  HoldInv'
<1>1. CountedRight'
  BY DEF HoldInv, CountedRight
<1>2. EndingIsUnheld'
  BY DEF HoldInv, EndingIsUnheld
<1> QED
  BY <1>1, <1>2 DEF HoldInv

LEMMA WakeHolds ==
    ASSUME CacheInv, HoldInv, NEW c \in Callers, Wakes(c) \/ CallerInterrupted(c)
    PROVE  HoldInv'
<1>1. /\ caller' = [caller EXCEPT ![c].at = "leaving"] /\ caller[c].at = "waiting"
      /\ UNCHANGED flights /\ caller \in [Callers -> Place]
  BY DEF Wakes, CallerInterrupted, CacheInv, Types
<1>2. \A i \in DOMAIN flights : Holders(i)' = Holders(i)
  BY <1>1 DEF Holders, Place
<1>3. \A i \in DOMAIN flights : Ending(i)' => Ending(i)
  BY <1>1 DEF Ending, Place
<1> QED
  BY <1>1, <1>2, <1>3, HoldTransfer

LEMMA StopHolds ==
    ASSUME CacheInv, HoldInv, NEW c \in Callers, StopLoad(c)
    PROVE  HoldInv'
<1>1. PICK i \in DOMAIN flights : i = caller[c].flight
  BY DEF StopLoad, CacheInv, Types
<1>2. flights \in Seq(Load) /\ flights[i] \in Load /\ caller \in [Callers -> Place]
  BY DEF CacheInv, Types
<1>3. PICK st \in {"loading", "loaded", "failed", "cut"} :
         flights' = [flights EXCEPT ![i] = Stopped(flights[i], st)]
  BY <1>1, <1>2 DEF StopLoad, Load, Stopped
<1>4. /\ DOMAIN flights' = DOMAIN flights
      /\ flights'[i].waiters = flights[i].waiters /\ flights'[i].open = flights[i].open
      /\ \A j \in DOMAIN flights : j # i => flights'[j] = flights[j]
  BY <1>2, <1>3, StoppedLoad, UpdateSeq
<1>5. /\ caller' = [caller EXCEPT ![c] = Away] /\ caller[c].at = "stopping"
  BY DEF StopLoad
<1>6. \A j \in DOMAIN flights : Holders(j)' = Holders(j)
  BY <1>2, <1>5 DEF Holders, Away
<1>7. \A j \in DOMAIN flights : Ending(j)' => Ending(j)
  BY <1>1, <1>2, <1>4, <1>5 DEF Ending, Away
<1> QED
  BY <1>4, <1>6, <1>7, HoldTransfer

LEMMA EndHolds ==
    ASSUME CacheInv, HoldInv, NEW i \in DOMAIN flights, LoadEnds(i)
    PROVE  HoldInv'
<1>1. flights \in Seq(Load) /\ flights[i] \in Load
  BY DEF CacheInv, Types
<1>2. PICK st \in {"loaded", "failed"} : flights' = [flights EXCEPT ![i] = Stopped(flights[i], st)]
  BY DEF LoadEnds, Stopped
<1>3. /\ DOMAIN flights' = DOMAIN flights /\ flights'[i].state = st
      /\ flights'[i].waiters = flights[i].waiters /\ flights'[i].open = flights[i].open
      /\ \A j \in DOMAIN flights : j # i => flights'[j] = flights[j]
  BY <1>1, <1>2, StoppedLoad, UpdateSeq
<1>4. UNCHANGED caller
  BY DEF LoadEnds
<1>5. \A j \in DOMAIN flights : Holders(j)' = Holders(j) /\ (Ending(j)' => Ending(j))
  BY <1>3, <1>4 DEF Holders, Ending
<1> QED
  BY <1>3, <1>5, HoldTransfer

LEMMA FinishHolds ==
    ASSUME CacheInv, HoldInv, NEW i \in DOMAIN flights, flights' = Settled(i), UNCHANGED caller
    PROVE  HoldInv'
<1>1. flights \in Seq(Load) /\ flights[i] \in Load
  BY DEF CacheInv, Types
<1>2. flights' = [flights EXCEPT ![i] = Answered(flights[i])]
  BY DEF Settled, Answered
<1>3. /\ DOMAIN flights' = DOMAIN flights /\ flights'[i].state = flights[i].state
      /\ flights'[i].waiters = flights[i].waiters /\ ~flights'[i].open
      /\ \A j \in DOMAIN flights : j # i => flights'[j] = flights[j]
  <2> DEFINE load == Answered(flights[i])
  <2>1. /\ load \in Load /\ load.state = flights[i].state /\ load.waiters = flights[i].waiters
        /\ ~load.open
    BY <1>1, AnsweredLoad
  <2> HIDE DEF load
  <2> QED
    BY <1>1, <1>2, <2>1, UpdateSeq DEF load
<1>4. \A j \in DOMAIN flights : Holders(j)' = Holders(j) /\ (Ending(j)' => Ending(j))
  BY <1>3 DEF Holders, Ending
<1> QED
  BY <1>3, <1>4, HoldTransfer

LEMMA QuietHolds ==
    ASSUME HoldInv, UNCHANGED <<flights, caller>>
    PROVE  HoldInv'
BY DEF HoldInv, CountedRight, EndingIsUnheld, Holders, Ending

\* The last one to leave is the only one that held the load, and after it nobody can join.
LEMMA ReleaseHolds ==
    ASSUME CacheInv, HoldInv, NEW c \in Callers, ReleaseWaiter(c)
    PROVE  HoldInv'
<1>1. PICK i \in DOMAIN flights : i = caller[c].flight
  BY DEF ReleaseWaiter, CacheInv, Types
<1>2. flights \in Seq(Load) /\ flights[i] \in Load /\ caller \in [Callers -> Place]
  BY DEF CacheInv, Types
<1>3. PICK last \in BOOLEAN : last = (IsLast(flights[i].waiters) /\ ~flights[i].settled)
  OBVIOUS
<1>4. PICK o \in BOOLEAN : o = (flights[i].open /\ ~last)
  OBVIOUS
<1>5. /\ flights' = [flights EXCEPT ![i] = Left(flights[i], o)]
      /\ caller' = [caller EXCEPT ![c] = IF last THEN [@ EXCEPT !.at = "stopping"] ELSE Away]
      /\ caller[c].at = "leaving"
  BY <1>1, <1>3, <1>4 DEF ReleaseWaiter, Left
<1>6. /\ DOMAIN flights' = DOMAIN flights /\ flights'[i].state = flights[i].state
      /\ flights'[i].waiters = flights[i].waiters - 1 /\ flights'[i].open = o
      /\ \A j \in DOMAIN flights : j # i => flights'[j] = flights[j]
  BY <1>2, <1>5, LeftLoad, UpdateSeq
<1>7. /\ c \in Holders(i) /\ Holders(i)' = Holders(i) \ {c}
      /\ \A j \in DOMAIN flights : j # i => Holders(j)' = Holders(j)
  BY <1>1, <1>2, <1>5 DEF Holders, Away, Place
<1>8. flights[i].waiters = Cardinality(Holders(i)) /\ ~Ending(i)
  BY <1>7 DEF HoldInv, CountedRight, EndingIsUnheld
<1>9. /\ IsFiniteSet(Holders(i)) /\ Cardinality(Holders(i)) \in Nat
      /\ IsFiniteSet(Holders(i) \ {c}) /\ Cardinality(Holders(i) \ {c}) \in Nat
      /\ Cardinality(Holders(i) \ {c}) = Cardinality(Holders(i)) - 1
  BY <1>7, HoldersFinite, FS_RemoveElement, FS_CardinalityType
<1>10. CountedRight'
  <2>1. flights'[i].waiters = Cardinality(Holders(i)')
    BY <1>6, <1>7, <1>8, <1>9
  <2> QED
    BY <2>1, <1>6, <1>7 DEF HoldInv, CountedRight
<1>11. EndingIsUnheld'
  <2> SUFFICES ASSUME NEW j \in DOMAIN flights, Ending(j)'
               PROVE  ~flights'[j].open /\ Holders(j)' = {}
    BY <1>6 DEF EndingIsUnheld
  <2>1. CASE j # i
    <3>1. Ending(j)
      BY <2>1, <1>1, <1>2, <1>5, <1>6 DEF Ending, Away, Place
    <3> QED
      BY <2>1, <3>1, <1>6, <1>7 DEF HoldInv, EndingIsUnheld
  <2>2. CASE j = i
    <3>1. last
      BY <2>2, <1>1, <1>2, <1>5, <1>6, <1>8 DEF Ending, Away
    <3>2. Cardinality(Holders(i)) <= 1
      BY <3>1, <1>3, <1>8 DEF IsLast
    <3>3. Cardinality(Holders(i) \ {c}) = 0
      BY <3>2, <1>9
    <3>4. Holders(i) \ {c} = {}
      BY <3>3, <1>9, FS_EmptySet
    <3> QED
      BY <2>2, <3>1, <3>4, <1>4, <1>6, <1>7
  <2> QED
    BY <2>1, <2>2
<1> QED
  BY <1>10, <1>11 DEF HoldInv

\* Who joins, joins an open load, which is not ending.
LEMMA GetHolds ==
    ASSUME CacheInv, HoldInv, NEW c \in Callers, NEW k \in Keys, GetShared(c, k)
    PROVE  HoldInv'
<1>1. flights \in Seq(Load) /\ caller \in [Callers -> Place] /\ caller[c].at = "away"
  BY DEF CacheInv, Types, GetShared
<1>2. CASE \E i \in DOMAIN flights : /\ flights[i].open
                                     /\ flights' = [flights EXCEPT ![i].waiters = @ + 1]
                                     /\ caller' = [caller EXCEPT ![c] = [at |-> "waiting",
                                            flight |-> i, since |-> epoch[k]]]
  <2>1. PICK i \in DOMAIN flights : /\ flights[i].open
                                    /\ flights' = [flights EXCEPT ![i] = Joined(flights[i])]
                                    /\ caller' = [caller EXCEPT ![c] = [at |-> "waiting",
                                            flight |-> i, since |-> epoch[k]]]
    BY <1>2 DEF Joined
  <2>2. flights[i] \in Load
    BY <1>1
  <2>3. /\ DOMAIN flights' = DOMAIN flights /\ flights'[i].state = flights[i].state
        /\ flights'[i].waiters = flights[i].waiters + 1 /\ flights'[i].open = flights[i].open
        /\ \A j \in DOMAIN flights : j # i => flights'[j] = flights[j]
    BY <1>1, <2>1, <2>2, JoinedLoad, UpdateSeq
  <2>4. /\ c \notin Holders(i) /\ Holders(i)' = Holders(i) \cup {c}
        /\ \A j \in DOMAIN flights : j # i => Holders(j)' = Holders(j)
    BY <1>1, <2>1 DEF Holders
  <2>5. \A j \in DOMAIN flights : Ending(j)' => Ending(j)
    BY <1>1, <2>1, <2>3 DEF Ending
  <2>6. ~Ending(i)
    BY <2>1 DEF HoldInv, EndingIsUnheld
  <2>7. CountedRight'
    <3>1. Cardinality(Holders(i) \cup {c}) = Cardinality(Holders(i)) + 1
      BY <2>4, HoldersFinite, FS_AddElement
    <3>2. flights'[i].waiters = Cardinality(Holders(i)')
      BY <2>3, <2>4, <3>1 DEF HoldInv, CountedRight
    <3> QED
      BY <3>2, <2>3, <2>4 DEF HoldInv, CountedRight
  <2>8. EndingIsUnheld'
    BY <2>3, <2>4, <2>5, <2>6 DEF HoldInv, EndingIsUnheld
  <2> QED
    BY <2>7, <2>8 DEF HoldInv
<1>3. CASE \E f \in Load : /\ f.waiters = 1 /\ f.state = "loading"
                           /\ flights' = Append(flights, f)
                           /\ caller' = [caller EXCEPT ![c] = [at |-> "waiting",
                                    flight |-> Len(flights) + 1, since |-> epoch[k]]]
  <2>1. PICK f \in Load : /\ f.waiters = 1 /\ f.state = "loading"
                          /\ flights' = Append(flights, f)
                          /\ caller' = [caller EXCEPT ![c] = [at |-> "waiting",
                                    flight |-> Len(flights) + 1, since |-> epoch[k]]]
    BY <1>3
  <2>2. PICK n : n = Len(flights) + 1
    OBVIOUS
  <2>3. /\ DOMAIN flights' = DOMAIN flights \cup {n} /\ flights'[n] = f /\ n \notin DOMAIN flights
        /\ \A j \in DOMAIN flights : flights'[j] = flights[j]
    BY <1>1, <2>1, <2>2, AppendSeq
  <2>4. \A d \in Callers : caller[d].at # "away" => caller[d].flight \in DOMAIN flights
    BY DEF CacheInv, Types
  <2>5. /\ Holders(n)' = {c} /\ \A j \in DOMAIN flights : Holders(j)' = Holders(j)
    BY <1>1, <2>1, <2>2, <2>3, <2>4 DEF Holders
  <2>6. ~Ending(n)' /\ \A j \in DOMAIN flights : Ending(j)' => Ending(j)
    BY <1>1, <2>1, <2>2, <2>3, <2>4 DEF Ending
  <2>7. CountedRight'
    BY <2>1, <2>3, <2>5, FS_Singleton DEF HoldInv, CountedRight
  <2>8. EndingIsUnheld'
    BY <2>3, <2>5, <2>6 DEF HoldInv, EndingIsUnheld
  <2> QED
    BY <2>7, <2>8 DEF HoldInv
<1>4. PICK g : g = GenerationFor(Released(Gone(k), Open)[k])
  OBVIOUS
<1>5. PICK joined : joined = {i \in DOMAIN flights : Joinable(i, k, g)}
  OBVIOUS
<1>6. PICK entry : entry = [key |-> k, generation |-> g, value |-> epoch[k], state |-> "loading",
                            waiters |-> 1, open |-> TRUE, settled |-> FALSE]
  OBVIOUS
<1>7. /\ ~Hit(k)
      /\ IF joined = {}
         THEN /\ flights' = Append(flights, entry)
              /\ caller' = [caller EXCEPT ![c] = [at |-> "waiting", flight |-> Len(flights) + 1,
                                                  since |-> epoch[k]]]
         ELSE \E i \in joined :
              /\ flights' = [flights EXCEPT ![i].waiters = @ + 1]
              /\ caller' = [caller EXCEPT ![c] = [at |-> "waiting", flight |-> i,
                                                  since |-> epoch[k]]]
  BY <1>4, <1>5, <1>6 DEF GetShared, Gone
<1>8. CASE joined = {}
  <2>1. g \in Nat \ {0}
    <3>1. Released(Gone(k), Open)[k] \in Nat /\ nextGeneration \in Nat
      BY <1>7, GetSharedFacts DEF CacheInv, Types
    <3> QED
      BY <1>4, <3>1 DEF GenerationFor
  <2>2. entry \in Load /\ entry.waiters = 1 /\ entry.state = "loading"
    BY <1>6, <2>1 DEF Load, CacheInv, Types
  <2> QED
    BY <1>3, <1>7, <1>8, <2>2
<1>9. CASE joined # {}
  <2>1. \A i \in joined : i \in DOMAIN flights /\ flights[i].open
    BY <1>5 DEF Joinable
  <2> QED
    BY <1>2, <1>7, <1>9, <2>1
<1> QED
  BY <1>8, <1>9

LEMMA HoldInvStep == CacheInv /\ HoldInv /\ [CacheNext]_cacheVars => HoldInv'
<1> SUFFICES ASSUME CacheInv, HoldInv, [CacheNext]_cacheVars
             PROVE  HoldInv'
  OBVIOUS
<1>1. CASE UNCHANGED cacheVars
  BY <1>1, QuietHolds DEF cacheVars
<1>2. ASSUME NEW c \in Callers, NEW k \in Keys, GetShared(c, k)
      PROVE  HoldInv'
  BY <1>2, GetHolds
<1>3. ASSUME NEW c \in Callers, Wakes(c) \/ CallerInterrupted(c)
      PROVE  HoldInv'
  BY <1>3, WakeHolds
<1>4. ASSUME NEW c \in Callers, ReleaseWaiter(c)
      PROVE  HoldInv'
  BY <1>4, ReleaseHolds
<1>5. ASSUME NEW c \in Callers, StopLoad(c)
      PROVE  HoldInv'
  BY <1>5, StopHolds
<1>6. ASSUME NEW i \in DOMAIN flights, LoadEnds(i)
      PROVE  HoldInv'
  BY <1>6, EndHolds
<1>7. ASSUME NEW i \in DOMAIN flights, FinishPublished(i) \/ FinishUnpublished(i)
      PROVE  HoldInv'
  BY <1>7, FinishHolds DEF FinishPublished, FinishUnpublished
<1>8. ASSUME NEW which \in SUBSET Keys, Invalidate(which)
      PROVE  HoldInv'
  BY <1>8, QuietHolds DEF Invalidate
<1>9. ASSUME NEW k \in Keys, Expire(k)
      PROVE  HoldInv'
  BY <1>9, QuietHolds DEF Expire
<1>10. ASSUME NEW c \in Callers, NEW k \in Keys, GetCached(c, k)
       PROVE  HoldInv'
  BY <1>1, <1>10 DEF GetCached
<1> QED
  BY <1>1, <1>2, <1>3, <1>4, <1>5, <1>6, <1>7, <1>8, <1>9, <1>10 DEF CacheNext

\* However many callers share a load and however they leave it: it is cut off only when nobody
\* waits for it.
THEOREM NotCut == CacheSpec => []NotCutShort
<1>1. CacheInit => HoldInv
  BY DEF CacheInit, HoldInv, CountedRight, EndingIsUnheld
<1>2. CacheInv /\ HoldInv => NotCutShort
  <2> SUFFICES ASSUME CacheInv, HoldInv, NEW c \in Callers, caller[c].at = "waiting"
               PROVE  /\ flights[caller[c].flight].state # "cut"
                      /\ \A d \in Callers :
                            caller[d].at = "stopping" => caller[d].flight # caller[c].flight
    BY DEF NotCutShort
  <2>1. caller[c].flight \in DOMAIN flights /\ c \in Holders(caller[c].flight)
    BY DEF CacheInv, Types, Holders
  <2>2. ~Ending(caller[c].flight)
    BY <2>1 DEF HoldInv, EndingIsUnheld
  <2> QED
    BY <2>2 DEF Ending
<1> QED
  BY <1>1, <1>2, AlwaysCacheInv, HoldInvStep, PTL DEF CacheSpec

\* Every variable keeps its type, which says of the counters of waiters that none is decremented
\* below zero, however callers are interrupted.
THEOREM CacheTypeCorrect == CacheSpec => []CacheTypeOK
<1>1. CacheInit => HoldInv
  BY DEF CacheInit, HoldInv, CountedRight, EndingIsUnheld
<1>2. CacheInv /\ HoldInv => CacheTypeOK
  <2> SUFFICES ASSUME CacheInv, HoldInv PROVE CacheTypeOK
    OBVIOUS
  <2>1. Types
    BY DEF CacheInv
  <2>2. \A i \in DOMAIN flights : flights[i] \in Load /\ flights[i].waiters \in Nat
    BY <2>1, HoldersFinite DEF Types, HoldInv, CountedRight
  <2>3. \A i \in DOMAIN flights : flights[i] \in Flight
    BY <2>2 DEF Load, Flight
  <2>4. flights \in Seq(Flight)
    BY <2>1, <2>3 DEF Types
  <2> QED
    BY <2>1, <2>4 DEF Types, CacheTypeOK
<1> QED
  BY <1>1, <1>2, AlwaysCacheInv, HoldInvStep, PTL DEF CacheSpec
=============================================================================
