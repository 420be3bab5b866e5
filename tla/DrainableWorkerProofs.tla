--------------------------- MODULE DrainableWorkerProofs ---------------------------
(***************************************************************************)
(* Proofs for DrainableWorker, for any number of callers, drainers and     *)
(* items: a drain that returns has seen the end of everything counted      *)
(* before it began (WorkerInv), and no drain is forgotten (Owing).         *)
(***************************************************************************)
EXTENDS DrainableWorker, Integers, FiniteSetTheorems, TLAPS

-----------------------------------------------------------------------------------
\* The inductive invariant.

\* An item is the business of an enqueuer until it was offered or refused ...
Offering(e) == enqueuer[e].at \in {"offering", "refused"}

Types ==
    /\ outstanding \in Nat /\ idle \in Nat /\ resolved \subseteq Nat
    /\ queue \in [items: Seq(Nat), open: BOOLEAN]
    /\ worker \in Fibers /\ enqueuer \in [Enqueuers -> Fibers]
    /\ drainer \in [Drainers -> [at: {"away", "waiting", "drained"}, signal: Nat,
                                 before: SUBSET Nat]]
    /\ ended \in Seq(Nat)

\* ... then it is in the queue, then with the loop: in one place, and it is not over there.
Unended(item) == item \in Counted \ Over

OneOffer ==
    /\ \A e \in Enqueuers : Offering(e) => Unended(enqueuer[e].item)
    /\ \A e, f \in Enqueuers :
        e # f /\ Offering(e) /\ Offering(f) => enqueuer[e].item # enqueuer[f].item

OneInQueue ==
    /\ \A i \in DOMAIN queue.items : Unended(queue.items[i])
    /\ \A i, j \in DOMAIN queue.items : i # j => queue.items[i] # queue.items[j]
    /\ \A e \in Enqueuers, i \in DOMAIN queue.items :
        Offering(e) => enqueuer[e].item # queue.items[i]

OneAtWork ==
    worker.at = "processing" =>
        /\ Unended(worker.item)
        /\ \A e \in Enqueuers : Offering(e) => enqueuer[e].item # worker.item
        /\ \A i \in DOMAIN queue.items : queue.items[i] # worker.item

\* What is over was counted, and is over once.
EndedOnce == Over \subseteq Counted /\ IsFiniteSet(Over) /\ Cardinality(Over) = Len(ended)

\* A deferred is resolved, or about to be, only at the end of its own busy time.
Past(signal) == signal < idle \/ (signal = idle /\ outstanding = 0)

SignalsPast ==
    /\ idle <= outstanding + Len(ended)
    /\ \A signal \in resolved : Past(signal)
    /\ \A e \in Enqueuers : enqueuer[e].at = "resolving" => Past(enqueuer[e].signal)
    /\ worker.at = "resolving" => Past(worker.signal)

\* A drain that waits for an older deferred has nothing left to wait for.
DrainersRight ==
    \A d \in Drainers : drainer[d].at # "away" =>
        /\ drainer[d].signal <= idle /\ drainer[d].before \subseteq Counted
        /\ drainer[d].signal < idle => drainer[d].before \subseteq Over
        /\ drainer[d].at = "drained" => drainer[d].signal \in resolved

WorkerInv ==
    /\ Types /\ OneOffer /\ OneInQueue /\ OneAtWork /\ EndedOnce /\ SignalsPast /\ DrainersRight

-----------------------------------------------------------------------------------
\* Counting.

LEMMA SeqFacts ==
    ASSUME NEW S, NEW s \in Seq(S), NEW e \in S
    PROVE  /\ Append(s, e) \in Seq(S) /\ Len(Append(s, e)) = Len(s) + 1
           /\ DOMAIN Append(s, e) = DOMAIN s \cup {Len(s) + 1}
           /\ Append(s, e)[Len(s) + 1] = e /\ Len(s) + 1 \notin DOMAIN s
           /\ \A j \in DOMAIN s : Append(s, e)[j] = s[j]
OBVIOUS

LEMMA HeadTailFacts ==
    ASSUME NEW S, NEW s \in Seq(S), s # <<>>
    PROVE  /\ Head(s) \in S /\ Tail(s) \in Seq(S) /\ 1 \in DOMAIN s /\ s[1] = Head(s)
           /\ \A j \in DOMAIN Tail(s) : j \in Nat \ {0} /\ j + 1 \in DOMAIN s /\ Tail(s)[j] = s[j + 1]
OBVIOUS

LEMMA NothingLeft ==
    ASSUME Types, EndedOnce, outstanding = 0
    PROVE  Counted \subseteq Over
<1>1. Counted = 1 .. Len(ended) /\ Len(ended) \in Nat
  BY DEF Counted, Types
<1>2. IsFiniteSet(Counted) /\ Cardinality(Counted) = Len(ended)
  <2>1. 1 \in Int /\ Len(ended) \in Int /\ (1 > Len(ended) <=> Len(ended) = 0)
    BY <1>1
  <2>2. IsFiniteSet(1 .. Len(ended)) /\ Cardinality(1 .. Len(ended)) = Len(ended)
    BY <1>1, <2>1, FS_Interval
  <2> QED
    BY <1>1, <2>2
<1>3. Over = Counted
  BY <1>2, FS_Subset DEF EndedOnce
<1> QED
  BY <1>3

\* The end of an item that is not over.
LEMMA Ends ==
    ASSUME Types, EndedOnce, NEW item \in Nat, Unended(item), Discount(item)
    PROVE  /\ outstanding # 0 /\ outstanding' \in Nat /\ outstanding' = Remaining
           /\ ended' \in Seq(Nat) /\ outstanding' + Len(ended') = outstanding + Len(ended)
           /\ Counted' = Counted /\ Over' = Over \cup {item} /\ EndedOnce'
<1>1. outstanding # 0
  BY NothingLeft DEF Unended
<1>2. outstanding \in Nat /\ outstanding' = outstanding - 1 /\ ended \in Seq(Nat)
      /\ ended' = Append(ended, item) /\ Len(ended) \in Nat
  BY DEF Types, Discount
<1>3. ended' \in Seq(Nat) /\ Len(ended') = Len(ended) + 1
  BY <1>2, SeqFacts
<1>4. Over' = Over \cup {item}
  <2>1. /\ DOMAIN ended' = DOMAIN ended \cup {Len(ended) + 1} /\ ended'[Len(ended) + 1] = item
        /\ \A j \in DOMAIN ended : ended'[j] = ended[j]
    BY <1>2, SeqFacts
  <2> QED
    BY <2>1 DEF Over
<1>5. outstanding' \in Nat /\ outstanding' + Len(ended') = outstanding + Len(ended)
  BY <1>1, <1>2, <1>3
<1>6. Counted' = Counted
  BY <1>5 DEF Counted
<1>7. EndedOnce'
  <2>1. IsFiniteSet(Over') /\ Cardinality(Over') = Cardinality(Over) + 1
    BY <1>4, FS_AddElement DEF EndedOnce, Unended
  <2>2. Over' \subseteq Counted'
    BY <1>4, <1>6 DEF EndedOnce, Unended
  <2> QED
    BY <2>1, <2>2, <1>3 DEF EndedOnce
<1> QED
  BY <1>1, <1>2, <1>3, <1>4, <1>5, <1>6, <1>7 DEF Remaining

LEMMA DiscountedFields ==
    ASSUME NEW f \in Fibers, idle \in Nat
    PROVE  /\ Discounted(f) \in Fibers /\ Discounted(f).signal = idle
           /\ Discounted(f).at \in {"resolving", "done"}
           /\ Discounted(f).at = "resolving" => Remaining = 0
<1>1. PICK at \in {"resolving", "done"} : at = IF Remaining = 0 THEN "resolving" ELSE "done"
  OBVIOUS
<1>2. PICK g : g = [f EXCEPT !.at = at, !.signal = idle]
  OBVIOUS
<1>3. g = [at |-> at, item |-> f.item, signal |-> idle, fails |-> f.fails]
  BY <1>2 DEF Fibers
<1>4. g \in Fibers /\ g.at = at /\ g.signal = idle
  BY <1>3 DEF Fibers
<1>5. g = Discounted(f)
  BY <1>1, <1>2 DEF Discounted
<1> QED
  BY <1>1, <1>4, <1>5

\* ... and with a failure noted.
LEMMA FailsFields ==
    ASSUME NEW f \in Fibers, NEW b \in BOOLEAN
    PROVE  /\ [f EXCEPT !.fails = b] \in Fibers /\ [f EXCEPT !.fails = b].at = f.at
           /\ [f EXCEPT !.fails = b].signal = f.signal /\ [f EXCEPT !.fails = b].item = f.item
BY DEF Fibers

\* What the end of an item does to the other parts of the invariant.
LEMMA EndsKeep ==
    ASSUME WorkerInv, NEW item \in Nat, Unended(item), Discount(item), UNCHANGED <<idle, resolved, drainer>>
    PROVE  /\ DrainersRight'
           /\ idle' <= outstanding' + Len(ended')
           /\ \A signal : Past(signal) => Past(signal)'
           /\ \A signal \in resolved' : Past(signal)'
           /\ Remaining = 0 => Past(idle)'
           /\ \A other : other # item /\ Unended(other) => Unended(other)'
<1>1. /\ outstanding # 0 /\ outstanding' = Remaining /\ Counted' = Counted
      /\ Over' = Over \cup {item} /\ outstanding' + Len(ended') = outstanding + Len(ended)
  BY Ends DEF WorkerInv
<1>2. DrainersRight'
  BY <1>1 DEF WorkerInv, DrainersRight
<1>3. idle' <= outstanding' + Len(ended')
  BY <1>1 DEF WorkerInv, SignalsPast
<1>4. \A signal : Past(signal) => Past(signal)'
  BY <1>1 DEF Past
<1>5. \A signal \in resolved' : Past(signal)'
  BY <1>4 DEF WorkerInv, SignalsPast
<1>6. Remaining = 0 => Past(idle)'
  BY <1>1 DEF Past
<1>7. \A other : other # item /\ Unended(other) => Unended(other)'
  BY <1>1 DEF Unended
<1> QED
  BY <1>2, <1>3, <1>4, <1>5, <1>6, <1>7

-----------------------------------------------------------------------------------
\* The steps.

LEMMA WorkerInvInit == WorkerInit => WorkerInv
<1> SUFFICES ASSUME WorkerInit
             PROVE  WorkerInv
  OBVIOUS
<1>1. Types
  <2>1. worker \in Fibers /\ Nobody \in Fibers
    BY DEF WorkerInit, Nobody, Fibers
  <2> QED
    BY <2>1 DEF WorkerInit, Types
<1>2. OneOffer /\ OneInQueue /\ OneAtWork /\ DrainersRight
  BY DEF WorkerInit, OneOffer, OneInQueue, OneAtWork, DrainersRight, Offering, Nobody
<1>3. SignalsPast
  BY DEF WorkerInit, SignalsPast, Past, Nobody
<1>4. EndedOnce
  <2>1. Over = {} /\ Len(ended) = 0
    BY DEF WorkerInit, Over
  <2> QED
    BY <2>1, FS_EmptySet DEF EndedOnce
<1> QED
  BY <1>1, <1>2, <1>3, <1>4 DEF WorkerInv

LEMMA CountKeeps ==
    ASSUME WorkerInv, NEW e \in Enqueuers, Count(e)
    PROVE  WorkerInv'
<1>1. PICK item : item = outstanding + Len(ended) + 1
  OBVIOUS
<1>2. /\ outstanding' = outstanding + 1 /\ idle' = IdleOfNext(item)
      /\ enqueuer' = [enqueuer EXCEPT ![e] = [Nobody EXCEPT !.at = "offering", !.item = item]]
      /\ UNCHANGED <<resolved, queue, worker, drainer, ended>>
  BY <1>1 DEF Count
<1>3. /\ outstanding \in Nat /\ idle \in Nat /\ ended \in Seq(Nat) /\ Len(ended) \in Nat
      /\ item \in Nat /\ outstanding' \in Nat /\ idle' \in Nat /\ enqueuer \in [Enqueuers -> Fibers]
  BY <1>1, <1>2 DEF WorkerInv, Types, IdleOfNext
<1>4. PICK f : f = [at |-> "offering", item |-> item, signal |-> 0, fails |-> FALSE]
  OBVIOUS
<1>5. /\ f \in Fibers /\ f.at = "offering" /\ f.item = item
      /\ enqueuer'[e] = f /\ \A d \in Enqueuers : d # e => enqueuer'[d] = enqueuer[d]
      /\ enqueuer' \in [Enqueuers -> Fibers]
  BY <1>2, <1>3, <1>4 DEF Fibers, Nobody
<1>6. Types'
  BY <1>2, <1>3, <1>5 DEF WorkerInv, Types
<1>7. Counted' = Counted \cup {item} /\ item \notin Counted /\ Over' = Over
  BY <1>1, <1>2, <1>3 DEF Counted, Over
<1>8. EndedOnce'
  BY <1>2, <1>7 DEF WorkerInv, EndedOnce
<1>9. /\ \A x : Unended(x) => Unended(x)' /\ x # item
      /\ Unended(item)'
  BY <1>7, <1>8 DEF Unended, WorkerInv, EndedOnce
<1>10. OneOffer'
  BY <1>5, <1>9 DEF WorkerInv, OneOffer, Offering
<1>11. OneInQueue'
  BY <1>2, <1>5, <1>9 DEF WorkerInv, OneInQueue, Offering
<1>12. OneAtWork'
  BY <1>2, <1>5, <1>9 DEF WorkerInv, OneAtWork, Offering
<1>13. \A signal \in Nat : Past(signal) => signal < idle' \/ (signal = idle' /\ outstanding' = 0)
  <2>1. idle <= outstanding + Len(ended)
    BY DEF WorkerInv, SignalsPast
  <2>2. CASE outstanding = 0
    <3>1. idle' = item /\ idle < item
      BY <1>1, <1>2, <1>3, <2>1, <2>2 DEF IdleOfNext
    <3>2. \A signal \in Nat : signal <= idle => signal < idle'
      BY <3>1, <1>3
    <3> QED
      BY <3>2, <1>3 DEF Past
  <2>3. CASE outstanding # 0
    BY <1>2, <2>3 DEF IdleOfNext, Past
  <2> QED
    BY <2>2, <2>3
<1>14. SignalsPast'
  <2>1. idle' <= outstanding' + Len(ended')
    BY <1>1, <1>2, <1>3 DEF IdleOfNext, WorkerInv, SignalsPast
  <2> QED
    BY <1>2, <1>5, <1>13, <2>1 DEF WorkerInv, SignalsPast, Past, Types, Fibers
<1>15. DrainersRight'
  <2> SUFFICES ASSUME NEW d \in Drainers, drainer[d].at # "away"
               PROVE  /\ drainer[d].signal <= idle' /\ drainer[d].before \subseteq Counted'
                      /\ drainer[d].signal < idle' => drainer[d].before \subseteq Over'
                      /\ drainer[d].at = "drained" => drainer[d].signal \in resolved'
    BY <1>2 DEF DrainersRight
  <2>1. /\ drainer[d].signal <= idle /\ drainer[d].before \subseteq Counted
        /\ drainer[d].signal < idle => drainer[d].before \subseteq Over
        /\ drainer[d].at = "drained" => drainer[d].signal \in resolved
        /\ drainer[d].signal \in Nat
    BY DEF WorkerInv, DrainersRight, Types
  <2>2. CASE outstanding = 0
    <3>1. drainer[d].before \subseteq Over
      BY <2>1, <2>2, NothingLeft DEF WorkerInv
    <3>2. idle <= idle'
      BY <1>1, <1>2, <1>3, <2>2 DEF IdleOfNext, WorkerInv, SignalsPast
    <3>3. drainer[d].signal <= idle'
      BY <1>3, <2>1, <3>2
    <3> QED
      BY <1>2, <1>7, <2>1, <3>1, <3>3
  <2>3. CASE outstanding # 0
    BY <1>2, <1>7, <2>1, <2>3 DEF IdleOfNext
  <2> QED
    BY <2>2, <2>3
<1> QED
  BY <1>6, <1>8, <1>10, <1>11, <1>12, <1>14, <1>15 DEF WorkerInv

\* Steps that count and end nothing and resolve only what is past.
LEMMA Quiet ==
    ASSUME WorkerInv, UNCHANGED <<outstanding, idle, ended>>, resolved \subseteq resolved',
           \A signal \in resolved' : Past(signal),
           \A d \in Drainers : drainer'[d].at # "away" =>
                \/ drainer'[d] = drainer[d]
                \/ /\ drainer'[d].signal <= idle /\ drainer'[d].before \subseteq Counted
                   /\ drainer'[d].signal < idle => drainer'[d].before \subseteq Over
                   /\ drainer'[d].at = "drained" => drainer'[d].signal \in resolved',
           \A e \in Enqueuers : enqueuer'[e].at = "resolving" => enqueuer'[e] = enqueuer[e],
           worker'.at = "resolving" => worker.at = "resolving" /\ worker'.signal = worker.signal
    PROVE  /\ EndedOnce' /\ SignalsPast' /\ DrainersRight'
           /\ \A item : Unended(item)' <=> Unended(item)
<1>1. Counted' = Counted /\ Over' = Over /\ \A signal : Past(signal)' <=> Past(signal)
  BY DEF Counted, Over, Past
<1>2. EndedOnce' /\ \A item : Unended(item)' <=> Unended(item)
  BY <1>1 DEF WorkerInv, EndedOnce, Unended
<1>3. SignalsPast'
  BY <1>1 DEF WorkerInv, SignalsPast
<1>4. DrainersRight'
  BY <1>1 DEF WorkerInv, DrainersRight
<1> QED
  BY <1>2, <1>3, <1>4

LEMMA OfferKeeps ==
    ASSUME WorkerInv, NEW e \in Enqueuers, Offer(e)
    PROVE  WorkerInv'
<1>1. /\ enqueuer[e].at = "offering" /\ enqueuer \in [Enqueuers -> Fibers]
      /\ UNCHANGED <<outstanding, idle, resolved, worker, drainer, ended>>
      /\ queue.items \in Seq(Nat) /\ enqueuer[e] \in Fibers
  BY DEF Offer, WorkerInv, Types
<1>2. CASE queue.open
  <2>1. PICK items : items = Append(queue.items, enqueuer[e].item)
    OBVIOUS
  <2>2. enqueuer[e].item \in Nat /\ Nobody \in Fibers
    BY <1>1 DEF Fibers, Nobody
  <2>3. /\ queue' = [queue EXCEPT !.items = items]
        /\ enqueuer' = [enqueuer EXCEPT ![e] = Nobody]
    BY <1>2, <2>1 DEF Offer
  <2>4. /\ items \in Seq(Nat) /\ DOMAIN items = DOMAIN queue.items \cup {Len(queue.items) + 1}
        /\ items[Len(queue.items) + 1] = enqueuer[e].item
        /\ Len(queue.items) + 1 \notin DOMAIN queue.items
        /\ \A j \in DOMAIN queue.items : items[j] = queue.items[j]
    BY <1>1, <2>1, <2>2, SeqFacts
  <2>5. queue' \in [items: Seq(Nat), open: BOOLEAN] /\ queue'.items = items
    BY <2>3, <2>4 DEF WorkerInv, Types
  <2>6. /\ enqueuer' \in [Enqueuers -> Fibers] /\ enqueuer'[e].at = "away"
        /\ \A d \in Enqueuers : d # e => enqueuer'[d] = enqueuer[d]
    BY <1>1, <2>2, <2>3 DEF Nobody
  <2>7. Types'
    BY <1>1, <2>5, <2>6 DEF WorkerInv, Types
  <2>8. /\ EndedOnce' /\ SignalsPast' /\ DrainersRight' /\ \A x : Unended(x)' <=> Unended(x)
    BY <1>1, <2>6, Quiet DEF WorkerInv, SignalsPast
  <2>9. OneOffer'
    BY <2>6, <2>8 DEF WorkerInv, OneOffer, Offering
  <2>10. OneInQueue'
    BY <1>1, <2>4, <2>5, <2>6, <2>8 DEF WorkerInv, OneInQueue, OneOffer, Offering
  <2>11. OneAtWork'
    <3> SUFFICES ASSUME worker.at = "processing"
                 PROVE  /\ Unended(worker.item)
                        /\ \A d \in Enqueuers : Offering(d)' => enqueuer'[d].item # worker.item
                        /\ \A i \in DOMAIN items : items[i] # worker.item
      BY <1>1, <2>5, <2>8 DEF OneAtWork
    <3>1. /\ Unended(worker.item)
          /\ \A d \in Enqueuers : Offering(d) => enqueuer[d].item # worker.item
          /\ \A i \in DOMAIN queue.items : queue.items[i] # worker.item
      BY DEF WorkerInv, OneAtWork
    <3>2. enqueuer[e].item # worker.item
      BY <1>1, <3>1 DEF Offering
    <3> QED
      BY <2>4, <2>6, <3>1, <3>2 DEF Offering
  <2> QED
    BY <2>7, <2>8, <2>9, <2>10, <2>11 DEF WorkerInv
<1>3. CASE ~queue.open
  <2>1. enqueuer' = [enqueuer EXCEPT ![e].at = "refused"] /\ UNCHANGED queue
    BY <1>3 DEF Offer
  <2>2. /\ enqueuer' \in [Enqueuers -> Fibers] /\ enqueuer'[e].at = "refused"
        /\ enqueuer'[e].item = enqueuer[e].item
        /\ \A d \in Enqueuers : d # e => enqueuer'[d] = enqueuer[d]
    BY <1>1, <2>1 DEF Fibers
  <2>3. Types'
    BY <1>1, <2>1, <2>2 DEF WorkerInv, Types
  <2>4. /\ EndedOnce' /\ SignalsPast' /\ DrainersRight' /\ \A x : Unended(x)' <=> Unended(x)
    BY <1>1, <2>2, Quiet DEF WorkerInv, SignalsPast
  <2>5. OneOffer' /\ OneInQueue' /\ OneAtWork'
    BY <1>1, <2>1, <2>2, <2>4 DEF WorkerInv, OneOffer, OneInQueue, OneAtWork, Offering
  <2> QED
    BY <2>3, <2>4, <2>5 DEF WorkerInv
<1> QED
  BY <1>2, <1>3

LEMMA InterruptedKeeps ==
    ASSUME WorkerInv, NEW e \in Enqueuers, EnqueuerInterrupted(e)
    PROVE  WorkerInv'
<1>1. /\ enqueuer \in [Enqueuers -> Fibers] /\ enqueuer' = [enqueuer EXCEPT ![e].at = "gone"]
      /\ UNCHANGED <<outstanding, idle, resolved, queue, worker, drainer, ended>>
  BY DEF EnqueuerInterrupted, WorkerInv, Types
<1>2. /\ enqueuer' \in [Enqueuers -> Fibers] /\ enqueuer'[e].at = "gone"
      /\ \A d \in Enqueuers : d # e => enqueuer'[d] = enqueuer[d]
  BY <1>1 DEF Fibers
<1>3. Types'
  BY <1>1, <1>2 DEF WorkerInv, Types
<1>4. /\ EndedOnce' /\ SignalsPast' /\ DrainersRight' /\ \A x : Unended(x)' <=> Unended(x)
  BY <1>1, <1>2, Quiet DEF WorkerInv, SignalsPast
<1>5. OneOffer' /\ OneInQueue' /\ OneAtWork'
  BY <1>1, <1>2, <1>4 DEF WorkerInv, OneOffer, OneInQueue, OneAtWork, Offering
<1> QED
  BY <1>3, <1>4, <1>5 DEF WorkerInv

LEMMA RefusedKeeps ==
    ASSUME WorkerInv, NEW e \in Enqueuers, Refused(e)
    PROVE  WorkerInv'
<1>1. PICK item \in Nat : item = enqueuer[e].item
  BY DEF WorkerInv, Types, Fibers
<1>2. /\ Unended(item) /\ Discount(item) /\ enqueuer' = [enqueuer EXCEPT ![e] = Discounted(enqueuer[e])]
      /\ UNCHANGED <<idle, resolved, queue, worker, drainer>>
      /\ enqueuer \in [Enqueuers -> Fibers] /\ idle \in Nat /\ Offering(e)
  BY <1>1 DEF Refused, WorkerInv, OneOffer, Offering, Types
<1>3. outstanding' \in Nat /\ ended' \in Seq(Nat) /\ EndedOnce'
  BY <1>2, Ends DEF WorkerInv
<1>4. /\ DrainersRight' /\ idle' <= outstanding' + Len(ended')
      /\ \A signal : Past(signal) => Past(signal)'
      /\ \A signal \in resolved' : Past(signal)'
      /\ Remaining = 0 => Past(idle)'
      /\ \A other : other # item /\ Unended(other) => Unended(other)'
  BY <1>2, EndsKeep
<1>5. /\ enqueuer' \in [Enqueuers -> Fibers] /\ enqueuer'[e].signal = idle
      /\ enqueuer'[e].at \in {"resolving", "done"} /\ (enqueuer'[e].at = "resolving" => Remaining = 0)
      /\ \A d \in Enqueuers : d # e => enqueuer'[d] = enqueuer[d]
  BY <1>2, DiscountedFields
<1>6. Types'
  BY <1>2, <1>3, <1>5 DEF WorkerInv, Types
<1>7. SignalsPast'
  BY <1>2, <1>4, <1>5 DEF WorkerInv, SignalsPast
<1>8. OneOffer'
  BY <1>1, <1>2, <1>4, <1>5 DEF WorkerInv, OneOffer, Offering
<1>9. OneInQueue'
  BY <1>1, <1>2, <1>4, <1>5 DEF WorkerInv, OneInQueue, Offering
<1>10. OneAtWork'
  BY <1>1, <1>2, <1>4, <1>5 DEF WorkerInv, OneAtWork, Offering
<1> QED
  BY <1>3, <1>4, <1>6, <1>7, <1>8, <1>9, <1>10 DEF WorkerInv

LEMMA ReturnsKeeps ==
    ASSUME WorkerInv, NEW e \in Enqueuers, EnqueueReturns(e)
    PROVE  WorkerInv'
<1>1. /\ enqueuer \in [Enqueuers -> Fibers] /\ enqueuer' = [enqueuer EXCEPT ![e] = Nobody]
      /\ UNCHANGED <<outstanding, idle, queue, worker, drainer, ended>> /\ Resolve(enqueuer[e])
      /\ enqueuer[e] \in Fibers /\ Nobody \in Fibers
  BY DEF EnqueueReturns, WorkerInv, Types, Fibers, Nobody
<1>2. /\ enqueuer' \in [Enqueuers -> Fibers] /\ enqueuer'[e].at = "away"
      /\ \A d \in Enqueuers : d # e => enqueuer'[d] = enqueuer[d]
  BY <1>1 DEF Nobody
<1>3. /\ resolved \subseteq resolved' /\ resolved' \subseteq Nat
      /\ \A signal \in resolved' : Past(signal)
  BY <1>1 DEF Resolve, WorkerInv, SignalsPast, Types, Fibers
<1>4. Types'
  BY <1>1, <1>2, <1>3 DEF WorkerInv, Types
<1>5. /\ EndedOnce' /\ SignalsPast' /\ DrainersRight' /\ \A x : Unended(x)' <=> Unended(x)
  BY <1>1, <1>2, <1>3, Quiet
<1>6. OneOffer' /\ OneInQueue' /\ OneAtWork'
  BY <1>1, <1>2, <1>5 DEF WorkerInv, OneOffer, OneInQueue, OneAtWork, Offering
<1> QED
  BY <1>4, <1>5, <1>6 DEF WorkerInv

LEMMA TakeKeeps ==
    ASSUME WorkerInv, Take
    PROVE  WorkerInv'
<1>1. /\ queue.items \in Seq(Nat) /\ queue.items # <<>> /\ worker \in Fibers
      /\ worker' = [worker EXCEPT !.at = "processing", !.item = Head(queue.items)]
      /\ queue' = [queue EXCEPT !.items = Tail(@)]
      /\ UNCHANGED <<outstanding, idle, resolved, enqueuer, drainer, ended>>
  BY DEF Take, WorkerInv, Types
<1>2. PICK items : items = Tail(queue.items)
  OBVIOUS
<1>3. PICK item : item = Head(queue.items)
  OBVIOUS
<1>4. /\ item \in Nat /\ items \in Seq(Nat) /\ 1 \in DOMAIN queue.items /\ queue.items[1] = item
      /\ \A j \in DOMAIN items : j \in Nat \ {0} /\ j + 1 \in DOMAIN queue.items
                                 /\ items[j] = queue.items[j + 1]
  BY <1>1, <1>2, <1>3, HeadTailFacts
<1>5. queue' \in [items: Seq(Nat), open: BOOLEAN] /\ queue'.items = items
  BY <1>1, <1>2, <1>4 DEF WorkerInv, Types
<1>6. worker' \in Fibers /\ worker'.at = "processing" /\ worker'.item = item
  <2>1. worker' = [at |-> "processing", item |-> item, signal |-> worker.signal,
                   fails |-> worker.fails]
    BY <1>1, <1>3 DEF Fibers
  <2> QED
    BY <1>1, <1>4, <2>1 DEF Fibers
<1>7. Types'
  BY <1>1, <1>5, <1>6 DEF WorkerInv, Types
<1>8. /\ EndedOnce' /\ SignalsPast' /\ DrainersRight' /\ \A x : Unended(x)' <=> Unended(x)
  BY <1>1, <1>6, Quiet DEF WorkerInv, SignalsPast
<1>9. OneOffer'
  BY <1>1, <1>8 DEF WorkerInv, OneOffer, Offering
<1>10. OneInQueue'
  <2>1. \A i, j \in DOMAIN items : i # j => i + 1 # j + 1
    BY <1>4
  <2>2. \A i \in DOMAIN items : Unended(items[i])'
    BY <1>4, <1>8 DEF WorkerInv, OneInQueue
  <2>3. \A i, j \in DOMAIN items : i # j => items[i] # items[j]
    BY <1>4, <2>1 DEF WorkerInv, OneInQueue
  <2>4. \A e \in Enqueuers, i \in DOMAIN items : Offering(e) => enqueuer[e].item # items[i]
    BY <1>4 DEF WorkerInv, OneInQueue
  <2> QED
    BY SMTT(30), <1>1, <1>5, <2>2, <2>3, <2>4 DEF OneInQueue, Offering
<1>11. OneAtWork'
  <2>1. \A j \in DOMAIN items : j + 1 # 1
    BY <1>4
  <2>2. \A j \in DOMAIN items : items[j] # item
    BY <1>4, <2>1 DEF WorkerInv, OneInQueue
  <2>3. /\ Unended(item) /\ \A e \in Enqueuers : Offering(e) => enqueuer[e].item # item
    BY <1>4 DEF WorkerInv, OneInQueue
  <2> QED
    BY <1>1, <1>5, <1>6, <1>8, <2>2, <2>3 DEF OneAtWork, Offering
<1> QED
  BY <1>7, <1>8, <1>9, <1>10, <1>11 DEF WorkerInv

\* The end of what the loop works on, with or without a failure, while the scope is open or closes.
LEMMA WorkEnds ==
    ASSUME WorkerInv, worker.at = "processing", NEW fails \in BOOLEAN, Discount(worker.item),
           worker' = [Discounted(worker) EXCEPT !.fails = fails],
           queue' \in [items: Seq(Nat), open: BOOLEAN], queue'.items \in {queue.items, <<>>},
           UNCHANGED <<idle, resolved, enqueuer, drainer>>
    PROVE  WorkerInv'
<1>1. PICK item \in Nat : item = worker.item
  BY DEF WorkerInv, Types, Fibers
<1>2. Unended(item) /\ Discount(item) /\ worker \in Fibers /\ idle \in Nat
  BY <1>1 DEF WorkerInv, OneAtWork, Types
<1>3. outstanding' \in Nat /\ ended' \in Seq(Nat) /\ EndedOnce'
  BY <1>2, Ends DEF WorkerInv
<1>4. /\ DrainersRight' /\ idle' <= outstanding' + Len(ended')
      /\ \A signal : Past(signal) => Past(signal)'
      /\ \A signal \in resolved' : Past(signal)'
      /\ Remaining = 0 => Past(idle)'
      /\ \A other : other # item /\ Unended(other) => Unended(other)'
  BY <1>2, EndsKeep
<1>5. /\ worker' \in Fibers /\ worker'.signal = idle /\ worker'.at \in {"resolving", "done"}
      /\ worker'.at = "resolving" => Remaining = 0
  <2>1. PICK f : f = Discounted(worker)
    OBVIOUS
  <2>2. /\ f \in Fibers /\ f.signal = idle /\ f.at \in {"resolving", "done"}
        /\ f.at = "resolving" => Remaining = 0
    BY <1>2, <2>1, DiscountedFields
  <2>3. worker' = [f EXCEPT !.fails = fails]
    BY <2>1
  <2>4. PICK g : g = [f EXCEPT !.fails = fails]
    OBVIOUS
  <2>5. g \in Fibers /\ g.at = f.at /\ g.signal = f.signal
    BY <2>2, <2>4, FailsFields
  <2>6. worker' = g
    BY <2>3, <2>4
  <2> QED
    BY <2>2, <2>5, <2>6
<1>6. Types'
  BY <1>3, <1>5 DEF WorkerInv, Types
<1>7. SignalsPast'
  BY <1>4, <1>5 DEF WorkerInv, SignalsPast
<1>8. OneOffer'
  BY <1>1, <1>4 DEF WorkerInv, OneOffer, OneAtWork, Offering
<1>9. OneInQueue'
  BY <1>1, <1>4 DEF WorkerInv, OneInQueue, OneAtWork, Offering
<1>10. OneAtWork'
  BY <1>5 DEF OneAtWork
<1> QED
  BY <1>3, <1>4, <1>6, <1>7, <1>8, <1>9, <1>10 DEF WorkerInv

LEMMA ProcessKeeps ==
    ASSUME WorkerInv, NEW fails \in BOOLEAN, ProcessEnds(fails)
    PROVE  WorkerInv'
<1>1. /\ queue \in [items: Seq(Nat), open: BOOLEAN] /\ UNCHANGED <<idle, resolved, queue, enqueuer, drainer>>
      /\ worker.at = "processing" /\ Discount(worker.item)
      /\ worker' = [Discounted(worker) EXCEPT !.fails = fails]
  BY DEF ProcessEnds, WorkerInv, Types
<1> QED
  BY <1>1, WorkEnds

LEMMA LoopKeeps ==
    ASSUME WorkerInv, LoopGoesOn
    PROVE  WorkerInv'
<1>1. /\ UNCHANGED <<outstanding, idle, queue, enqueuer, drainer, ended>> /\ Resolve(worker)
      /\ worker \in Fibers
  BY DEF LoopGoesOn, WorkerInv, Types
<1>2. worker' \in Fibers /\ worker'.at \in {"dead", "taking"}
  BY <1>1 DEF LoopGoesOn, Fibers, Nobody
<1>3. /\ resolved \subseteq resolved' /\ resolved' \subseteq Nat
      /\ \A signal \in resolved' : Past(signal)
  BY <1>1 DEF Resolve, WorkerInv, SignalsPast, Types, Fibers
<1>4. Types'
  BY <1>1, <1>2, <1>3 DEF WorkerInv, Types
<1>5. /\ EndedOnce' /\ SignalsPast' /\ DrainersRight' /\ \A x : Unended(x)' <=> Unended(x)
  BY <1>1, <1>2, <1>3, Quiet
<1>6. OneOffer' /\ OneInQueue' /\ OneAtWork'
  BY <1>1, <1>2, <1>5 DEF WorkerInv, OneOffer, OneInQueue, OneAtWork, Offering
<1> QED
  BY <1>4, <1>5, <1>6 DEF WorkerInv

LEMMA CloseKeeps ==
    ASSUME WorkerInv, CloseScope
    PROVE  WorkerInv'
<1>1. /\ UNCHANGED <<idle, resolved, enqueuer, drainer>> /\ worker \in Fibers
      /\ queue' \in [items: Seq(Nat), open: BOOLEAN] /\ queue'.items = <<>>
  BY DEF CloseScope, WorkerInv, Types
<1>2. CASE worker.at = "processing"
  <2>1. Discount(worker.item) /\ worker' = [Discounted(worker) EXCEPT !.fails = TRUE]
    BY <1>2 DEF CloseScope
  <2> QED
    BY <1>1, <1>2, <2>1, WorkEnds
<1>3. CASE worker.at # "processing"
  <2>1. PICK at : at = IF worker.at \in {"taking", "dead"} THEN "dead" ELSE worker.at
    OBVIOUS
  <2>2. PICK fails \in BOOLEAN :
            fails = IF worker.at \in {"taking", "dead"} THEN worker.fails ELSE TRUE
    BY <1>1 DEF Fibers
  <2>3. /\ UNCHANGED <<outstanding, ended>>
        /\ worker' = [at |-> at, item |-> worker.item, signal |-> worker.signal, fails |-> fails]
    <3>1. CASE worker.at \in {"taking", "dead"}
      BY <1>1, <3>1, <2>1, <2>2 DEF CloseScope, Fibers
    <3>2. CASE worker.at \notin {"taking", "dead"}
      BY <1>1, <1>3, <3>2, <2>1, <2>2 DEF CloseScope, Fibers
    <3> QED
      BY <3>1, <3>2
  <2>4. /\ worker' \in Fibers /\ worker'.at # "processing"
        /\ worker'.at = "resolving" => worker.at = "resolving" /\ worker'.signal = worker.signal
    BY <1>1, <1>3, <2>1, <2>2, <2>3 DEF Fibers
  <2>5. Types'
    BY <1>1, <2>3, <2>4 DEF WorkerInv, Types
  <2>6. /\ EndedOnce' /\ SignalsPast' /\ DrainersRight' /\ \A x : Unended(x)' <=> Unended(x)
    BY <1>1, <2>3, <2>4, Quiet DEF WorkerInv, SignalsPast
  <2>7. OneOffer' /\ OneInQueue' /\ OneAtWork'
    BY <1>1, <2>4, <2>6 DEF WorkerInv, OneOffer, OneInQueue, OneAtWork, Offering
  <2> QED
    BY <2>5, <2>6, <2>7 DEF WorkerInv
<1> QED
  BY <1>2, <1>3

\* A drain that begins reads the deferred of now.
LEMMA DrainKeeps ==
    ASSUME WorkerInv, NEW d \in Drainers, Drain(d)
    PROVE  WorkerInv'
<1>1. /\ UNCHANGED <<outstanding, idle, resolved, queue, worker, enqueuer, ended>>
      /\ drainer' = [drainer EXCEPT ![d] = [at |-> "waiting", signal |-> idle, before |-> Counted]]
  BY DEF Drain
<1>2. idle \in Nat /\ Counted \subseteq Nat
  BY DEF WorkerInv, Types, Counted
<1>3. Types'
  BY <1>1, <1>2 DEF WorkerInv, Types
<1>4. /\ drainer'[d] = [at |-> "waiting", signal |-> idle, before |-> Counted]
      /\ \A c \in Drainers : c # d => drainer'[c] = drainer[c]
  BY <1>1 DEF WorkerInv, Types
<1>5. idle <= idle /\ ~(idle < idle)
  BY <1>2
<1>6. \A c \in Drainers : drainer'[c].at # "away" =>
        \/ drainer'[c] = drainer[c]
        \/ /\ drainer'[c].signal <= idle /\ drainer'[c].before \subseteq Counted
           /\ drainer'[c].signal < idle => drainer'[c].before \subseteq Over
           /\ drainer'[c].at = "drained" => drainer'[c].signal \in resolved'
  BY <1>4, <1>5
<1>7. /\ EndedOnce' /\ SignalsPast' /\ DrainersRight' /\ \A x : Unended(x)' <=> Unended(x)
  BY <1>1, <1>6, Quiet DEF WorkerInv, SignalsPast
<1>8. OneOffer' /\ OneInQueue' /\ OneAtWork'
  BY <1>1, <1>7 DEF WorkerInv, OneOffer, OneInQueue, OneAtWork, Offering
<1> QED
  BY <1>3, <1>7, <1>8 DEF WorkerInv

LEMMA DrainedKeeps ==
    ASSUME WorkerInv, NEW d \in Drainers, DrainReturns(d)
    PROVE  WorkerInv'
<1>1. /\ UNCHANGED <<outstanding, idle, resolved, queue, worker, enqueuer, ended>>
      /\ drainer' = [drainer EXCEPT ![d].at = "drained"]
      /\ drainer[d].signal \in resolved /\ drainer[d].at # "away"
  BY DEF DrainReturns
<1>2. Types'
  BY ZenonT(60), <1>1 DEF WorkerInv, Types
<1>3. /\ drainer'[d].signal = drainer[d].signal /\ drainer'[d].before = drainer[d].before
      /\ \A c \in Drainers : c # d => drainer'[c] = drainer[c]
  BY <1>1 DEF WorkerInv, Types
<1>4. \A c \in Drainers : drainer'[c].at # "away" =>
        \/ drainer'[c] = drainer[c]
        \/ /\ drainer'[c].signal <= idle /\ drainer'[c].before \subseteq Counted
           /\ drainer'[c].signal < idle => drainer'[c].before \subseteq Over
           /\ drainer'[c].at = "drained" => drainer'[c].signal \in resolved'
  BY <1>1, <1>3 DEF WorkerInv, DrainersRight
<1>5. /\ EndedOnce' /\ SignalsPast' /\ DrainersRight' /\ \A x : Unended(x)' <=> Unended(x)
  BY <1>1, <1>4, Quiet DEF WorkerInv, SignalsPast
<1>6. OneOffer' /\ OneInQueue' /\ OneAtWork'
  BY <1>1, <1>5 DEF WorkerInv, OneOffer, OneInQueue, OneAtWork, Offering
<1> QED
  BY <1>2, <1>5, <1>6 DEF WorkerInv

LEMMA IdleKeeps ==
    ASSUME WorkerInv, UNCHANGED workerVars
    PROVE  WorkerInv'
<1>1. UNCHANGED <<outstanding, idle, resolved, queue, worker, enqueuer, drainer, ended>>
  BY DEF workerVars
<1>2. /\ EndedOnce' /\ SignalsPast' /\ DrainersRight' /\ \A x : Unended(x)' <=> Unended(x)
  BY <1>1, Quiet DEF WorkerInv, SignalsPast
<1> QED
  BY <1>1, <1>2 DEF WorkerInv, Types, OneOffer, OneInQueue, OneAtWork, Offering

LEMMA WorkerInvStep == WorkerInv /\ [WorkerNext]_workerVars => WorkerInv'
<1> SUFFICES ASSUME WorkerInv, [WorkerNext]_workerVars
             PROVE  WorkerInv'
  OBVIOUS
<1>1. CASE UNCHANGED workerVars
  BY <1>1, IdleKeeps
<1>2. ASSUME NEW e \in Enqueuers,
             Count(e) \/ Offer(e) \/ EnqueuerInterrupted(e) \/ Refused(e) \/ EnqueueReturns(e)
      PROVE  WorkerInv'
  BY <1>2, CountKeeps, OfferKeeps, InterruptedKeeps, RefusedKeeps, ReturnsKeeps
<1>3. CASE Take
  BY <1>3, TakeKeeps
<1>4. ASSUME NEW fails \in BOOLEAN, ProcessEnds(fails)
      PROVE  WorkerInv'
  BY <1>4, ProcessKeeps
<1>5. CASE LoopGoesOn
  BY <1>5, LoopKeeps
<1>6. CASE CloseScope
  BY <1>6, CloseKeeps
<1>7. ASSUME NEW d \in Drainers, Drain(d) \/ DrainReturns(d)
      PROVE  WorkerInv'
  BY <1>7, DrainKeeps, DrainedKeeps
<1> QED
  BY <1>1, <1>2, <1>3, <1>4, <1>5, <1>6, <1>7 DEF WorkerNext

LEMMA AlwaysWorkerInv == WorkerSpec => []WorkerInv
BY WorkerInvInit, WorkerInvStep, PTL DEF WorkerSpec

\* The worker is type correct, and no item ends twice or that was not counted: what finishOne
\* subtracts was added before, however the loop, a refused enqueue and the end of the scope race.
THEOREM WorkerTypeCorrect == WorkerSpec => []WorkerTypeOK
<1>1. WorkerInv => WorkerTypeOK
  BY DEF WorkerInv, Types, EndedOnce, WorkerTypeOK
<1> QED
  BY AlwaysWorkerInv, <1>1, PTL

\* A drain that returns has seen the end of everything counted before it began: the deferred it
\* read is done only when its busy time is over, or it was done before.
THEOREM DrainIsComplete == WorkerSpec => []DrainCoversEarlier
<1>1. WorkerInv => DrainCoversEarlier
  <2> SUFFICES ASSUME WorkerInv, NEW d \in Drainers, drainer[d].at = "drained"
               PROVE  drainer[d].before \subseteq Over
    BY DEF DrainCoversEarlier
  <2>1. /\ Past(drainer[d].signal) /\ drainer[d].before \subseteq Counted
        /\ drainer[d].signal < idle => drainer[d].before \subseteq Over
    BY DEF WorkerInv, DrainersRight, SignalsPast
  <2>2. CASE outstanding = 0
    BY <2>1, <2>2, NothingLeft DEF WorkerInv
  <2>3. CASE outstanding # 0
    BY <2>1, <2>3 DEF Past
  <2> QED
    BY <2>2, <2>3
<1> QED
  BY AlwaysWorkerInv, <1>1, PTL
-----------------------------------------------------------------------------------
\* No drain is forgotten.

\* Whatever a drain may wait for stays owed, and the deferred of now is owed too; an item that is
\* counted and not over is in somebody's hands.
AllInHands ==
    queue.open /\ (\A e \in Enqueuers : enqueuer[e].at # "gone") =>
        \A item \in Counted \ Over : InHands(item)

Owing == WorkerInv /\ Owed(idle) /\ DrainIsOwed

StaysOwed == (\A signal : Owed(signal) => Owed(signal)') /\ Owed(idle)'

\* Steps that discount nothing, end nothing and keep every promise to resolve.
LEMMA StaysOwedQuietly ==
    ASSUME Owed(idle), UNCHANGED <<outstanding, idle>>, resolved \subseteq resolved',
           worker.at = "resolving" =>
                worker.signal \in resolved' \/ (worker'.at = "resolving" /\ worker'.signal = worker.signal),
           \A e \in Enqueuers : enqueuer[e].at = "resolving" =>
                enqueuer[e].signal \in resolved' \/ enqueuer'[e] = enqueuer[e]
    PROVE  StaysOwed
<1>1. \A signal : Owed(signal) => Owed(signal)'
  BY DEF Owed
<1> QED
  BY <1>1 DEF StaysOwed

\* The end of an item: the last one of a busy time leaves a fiber that holds the deferred.
LEMMA StaysOwedAtEnd ==
    ASSUME WorkerInv, Owed(idle), NEW item \in Nat, Unended(item), Discount(item),
           UNCHANGED <<idle, resolved>>,
           worker.at = "resolving" => worker' = worker,
           \A e \in Enqueuers : enqueuer[e].at = "resolving" => enqueuer'[e] = enqueuer[e],
           Remaining = 0 =>
                \/ worker'.at = "resolving" /\ worker'.signal = idle
                \/ \E e \in Enqueuers : enqueuer'[e].at = "resolving" /\ enqueuer'[e].signal = idle
    PROVE  StaysOwed
<1>1. outstanding' \in Nat /\ outstanding' = Remaining
  BY Ends DEF WorkerInv
<1>2. Owed(idle)'
  <2>1. CASE Remaining = 0
    BY <2>1 DEF Owed
  <2>2. CASE Remaining # 0
    <3>1. outstanding' > 0
      BY <1>1, <2>2
    <3> QED
      BY <3>1 DEF Owed
  <2> QED
    BY <2>1, <2>2
<1>3. ASSUME NEW signal, Owed(signal)
      PROVE  Owed(signal)'
  <2>1. CASE signal = idle
    BY <1>2, <2>1
  <2>2. CASE signal # idle
    BY <1>3, <2>2 DEF Owed
  <2> QED
    BY <2>1, <2>2
<1> QED
  BY <1>2, <1>3 DEF StaysOwed

\* A drainer that begins to wait takes the deferred of now.
LEMMA WaitsForOwed ==
    ASSUME Owing, StaysOwed, AllInHands',
           \A d \in Drainers : drainer'[d].at = "waiting" =>
                drainer'[d] = drainer[d] \/ (drainer'[d].signal = idle /\ idle' = idle)
    PROVE  Owed(idle)' /\ DrainIsOwed'
<1>1. ASSUME NEW d \in Drainers, drainer'[d].at = "waiting", NEW signal, signal = drainer'[d].signal
      PROVE  Owed(signal)'
  <2>1. Owed(signal)
    BY <1>1 DEF Owing, DrainIsOwed
  <2> QED
    BY <2>1 DEF StaysOwed
<1>2. \A d \in Drainers : drainer'[d].at = "waiting" =>
        \/ drainer'[d].signal \in resolved'
        \/ drainer'[d].signal = idle' /\ outstanding' > 0
        \/ \E fiber \in {worker'} \cup {enqueuer'[e] : e \in Enqueuers} :
              fiber.at = "resolving" /\ fiber.signal = drainer'[d].signal
  BY <1>1 DEF Owed
<1> QED
  BY <1>2 DEF StaysOwed, AllInHands, DrainIsOwed, Owed
LEMMA OwedMeans ==
    ASSUME NEW signal, Owed(signal)
    PROVE  \/ signal \in resolved
           \/ signal = idle /\ outstanding > 0
           \/ worker.at = "resolving" /\ worker.signal = signal
           \/ \E e \in Enqueuers : enqueuer[e].at = "resolving" /\ enqueuer[e].signal = signal
<1>1. CASE \E fiber \in {worker} \cup {enqueuer[e] : e \in Enqueuers} :
              fiber.at = "resolving" /\ fiber.signal = signal
  BY <1>1
<1> QED
  BY <1>1 DEF Owed

LEMMA CountOwes ==
    ASSUME Owing, NEW e \in Enqueuers, Count(e)
    PROVE  StaysOwed /\ AllInHands'
<1>1. PICK item : item = outstanding + Len(ended) + 1
  OBVIOUS
<1>2. PICK f : f = [Nobody EXCEPT !.at = "offering", !.item = item]
  OBVIOUS
<1>3. /\ enqueuer[e].at = "away" /\ outstanding' = outstanding + 1 /\ idle' = IdleOfNext(item)
      /\ enqueuer' = [enqueuer EXCEPT ![e] = f] /\ f.at = "offering" /\ f.item = item
      /\ UNCHANGED <<resolved, queue, worker, drainer, ended>>
  BY <1>1, <1>2 DEF Count, Nobody
<1>4. /\ outstanding \in Nat /\ Len(ended) \in Nat /\ enqueuer \in [Enqueuers -> Fibers]
      /\ outstanding' > 0
  BY <1>3 DEF Owing, WorkerInv, Types
<1>5. enqueuer'[e] = f /\ \A d \in Enqueuers : d # e => enqueuer'[d] = enqueuer[d]
  BY <1>3, <1>4
<1>6. StaysOwed
  <2>1. Owed(idle)'
    BY <1>4 DEF Owed
  <2>2. ASSUME NEW signal, Owed(signal)
        PROVE  Owed(signal)'
    <3>1. CASE signal = idle /\ outstanding > 0
      <4>1. idle' = idle
        BY <1>3, <3>1 DEF IdleOfNext
      <4> QED
        BY <3>1, <4>1, <1>4 DEF Owed
    <3>2. CASE ~(signal = idle /\ outstanding > 0)
      <4>1. \/ signal \in resolved
            \/ worker.at = "resolving" /\ worker.signal = signal
            \/ \E d \in Enqueuers : enqueuer[d].at = "resolving" /\ enqueuer[d].signal = signal
        BY <2>2, <3>2, OwedMeans
      <4>2. CASE \E d \in Enqueuers : enqueuer[d].at = "resolving" /\ enqueuer[d].signal = signal
        <5>1. \E d \in Enqueuers : enqueuer'[d].at = "resolving" /\ enqueuer'[d].signal = signal
          BY <4>2, <1>3, <1>5
        <5> QED
          BY <5>1 DEF Owed
      <4> QED
        BY <1>3, <4>1, <4>2 DEF Owed
    <3> QED
      BY <3>1, <3>2
  <2> QED
    BY <2>1, <2>2 DEF StaysOwed
<1>7. Counted' = Counted \cup {item} /\ Over' = Over
  BY <1>1, <1>3, <1>4 DEF Counted, Over
<1>8. AllInHands'
  BY <1>3, <1>5, <1>7 DEF Owing, DrainIsOwed, AllInHands, InHands
<1> QED
  BY <1>6, <1>8

LEMMA OfferOwes ==
    ASSUME Owing, NEW e \in Enqueuers, Offer(e)
    PROVE  StaysOwed /\ AllInHands'
<1>1. /\ enqueuer[e].at = "offering" /\ enqueuer \in [Enqueuers -> Fibers]
      /\ UNCHANGED <<outstanding, idle, resolved, worker, drainer, ended>>
      /\ queue.items \in Seq(Nat) /\ enqueuer[e].item \in Nat
  BY DEF Offer, Owing, WorkerInv, Types, Fibers
<1>2. \A d \in Enqueuers : d # e => enqueuer'[d] = enqueuer[d]
  BY <1>1 DEF Offer
<1>3. StaysOwed
  BY <1>1, <1>2, StaysOwedQuietly DEF Owing
<1>4. Counted' = Counted /\ Over' = Over
  BY <1>1 DEF Counted, Over
<1>5. CASE queue.open
  <2>1. PICK items : items = Append(queue.items, enqueuer[e].item)
    OBVIOUS
  <2>2. /\ DOMAIN items = DOMAIN queue.items \cup {Len(queue.items) + 1}
        /\ items[Len(queue.items) + 1] = enqueuer[e].item
        /\ \A j \in DOMAIN queue.items : items[j] = queue.items[j]
    BY <1>1, <2>1, SeqFacts
  <2>3. /\ queue'.items = items /\ queue'.open = queue.open /\ enqueuer'[e].at # "gone"
        /\ enqueuer[e].at # "gone"
    <3>1. queue \in [items: Seq(Nat), open: BOOLEAN] /\ enqueuer[e].at # "gone"
      BY <1>1 DEF Owing, WorkerInv, Types
    <3>2. queue' = [queue EXCEPT !.items = items] /\ enqueuer' = [enqueuer EXCEPT ![e] = Nobody]
      BY <1>5, <2>1 DEF Offer
    <3>3. enqueuer'[e].at = "away"
      BY <1>1, <3>2 DEF Nobody
    <3>4. queue'.items = items /\ queue'.open = queue.open
      BY <3>1, <3>2
    <3> QED
      BY <3>1, <3>3, <3>4
  <2>4. \E i \in DOMAIN items : items[i] = enqueuer[e].item
    BY <2>2
  <2>5. \A i \in DOMAIN queue.items : i \in DOMAIN items /\ items[i] = queue.items[i]
    BY <2>2
  <2>6. ASSUME NEW item, InHands(item)
        PROVE  InHands(item)'
    <3>1. CASE \E i \in DOMAIN queue.items : queue.items[i] = item
      BY <3>1, <2>3, <2>5 DEF InHands
    <3>2. CASE worker.at = "processing" /\ worker.item = item
      BY <3>2, <1>1 DEF InHands
    <3>3. CASE enqueuer[e].item = item
      BY <3>3, <2>3, <2>4 DEF InHands
    <3>4. ASSUME NEW d \in Enqueuers, d # e, enqueuer[d].at \in {"offering", "refused"},
                 enqueuer[d].item = item
          PROVE  InHands(item)'
      BY <3>4, <1>2 DEF InHands
    <3> QED
      BY <2>6, <3>1, <3>2, <3>3, <3>4 DEF InHands
  <2>7. queue'.open /\ (\A d \in Enqueuers : enqueuer'[d].at # "gone")
            => queue.open /\ (\A d \in Enqueuers : enqueuer[d].at # "gone")
    BY <1>2, <2>3
  <2> QED
    BY <1>3, <1>4, <2>6, <2>7 DEF Owing, DrainIsOwed, AllInHands
<1>6. CASE ~queue.open
  BY <1>3, <1>6 DEF Offer, AllInHands
<1> QED
  BY <1>5, <1>6

LEMMA InterruptedOwes ==
    ASSUME Owing, NEW e \in Enqueuers, EnqueuerInterrupted(e)
    PROVE  StaysOwed /\ AllInHands'
<1>1. /\ enqueuer[e].at = "offering" /\ enqueuer \in [Enqueuers -> Fibers]
      /\ enqueuer' = [enqueuer EXCEPT ![e].at = "gone"]
      /\ UNCHANGED <<outstanding, idle, resolved, worker, drainer, ended>>
  BY DEF EnqueuerInterrupted, Owing, WorkerInv, Types
<1>2. enqueuer'[e].at = "gone" /\ \A d \in Enqueuers : d # e => enqueuer'[d] = enqueuer[d]
  BY <1>1 DEF Fibers
<1>3. StaysOwed
  BY <1>1, <1>2, StaysOwedQuietly DEF Owing
<1> QED
  BY <1>2, <1>3 DEF AllInHands

LEMMA RefusedOwes ==
    ASSUME Owing, NEW e \in Enqueuers, Refused(e)
    PROVE  StaysOwed /\ AllInHands'
<1>1. PICK item \in Nat : item = enqueuer[e].item
  BY DEF Owing, WorkerInv, Types, Fibers
<1>2. PICK f : f = Discounted(enqueuer[e])
  OBVIOUS
<1>3. /\ Unended(item) /\ Discount(item) /\ enqueuer \in [Enqueuers -> Fibers] /\ idle \in Nat
      /\ enqueuer' = [enqueuer EXCEPT ![e] = f] /\ enqueuer[e].at = "refused"
      /\ UNCHANGED <<idle, resolved, queue, worker, drainer>>
  BY <1>1, <1>2 DEF Refused, Owing, WorkerInv, OneOffer, Offering, Types
<1>4. /\ f.signal = idle /\ f.at \in {"resolving", "done"}
      /\ enqueuer'[e] = f /\ \A d \in Enqueuers : d # e => enqueuer'[d] = enqueuer[d]
  BY <1>2, <1>3, DiscountedFields
<1>5. Remaining = 0 => f.at = "resolving"
  BY <1>2, <1>3 DEF Discounted, Fibers
<1>6. StaysOwed
  BY <1>3, <1>4, <1>5, StaysOwedAtEnd DEF Owing
<1>7. Counted' = Counted /\ Over' = Over \cup {item}
  BY <1>3, Ends DEF Owing, WorkerInv
<1>8. \A other : other # item /\ InHands(other) => InHands(other)'
  BY <1>1, <1>3, <1>4 DEF InHands
<1>9. queue'.open /\ (\A d \in Enqueuers : enqueuer'[d].at # "gone")
          => queue.open /\ (\A d \in Enqueuers : enqueuer[d].at # "gone")
  BY <1>3, <1>4
<1>10. AllInHands'
  BY <1>7, <1>8, <1>9 DEF Owing, DrainIsOwed, AllInHands
<1> QED
  BY <1>6, <1>10

LEMMA ReturnsOwes ==
    ASSUME Owing, NEW e \in Enqueuers, EnqueueReturns(e)
    PROVE  StaysOwed /\ AllInHands'
<1>1. /\ enqueuer \in [Enqueuers -> Fibers] /\ enqueuer' = [enqueuer EXCEPT ![e] = Nobody]
      /\ UNCHANGED <<outstanding, idle, queue, worker, drainer, ended>> /\ Resolve(enqueuer[e])
      /\ enqueuer[e].at \in {"resolving", "done"}
  BY DEF EnqueueReturns, Owing, WorkerInv, Types
<1>2. \A d \in Enqueuers : d # e => enqueuer'[d] = enqueuer[d]
  BY <1>1
<1>3. /\ resolved \subseteq resolved'
      /\ enqueuer[e].at = "resolving" => enqueuer[e].signal \in resolved'
  BY <1>1 DEF Resolve
<1>4. StaysOwed
  BY <1>1, <1>2, <1>3, StaysOwedQuietly DEF Owing
<1>5. Counted' = Counted /\ Over' = Over
  BY <1>1 DEF Counted, Over
<1>6. \A item : InHands(item) => InHands(item)'
  BY <1>1, <1>2 DEF InHands
<1>7. queue'.open /\ (\A d \in Enqueuers : enqueuer'[d].at # "gone")
          => queue.open /\ (\A d \in Enqueuers : enqueuer[d].at # "gone")
  BY <1>1, <1>2
<1>8. AllInHands'
  BY <1>5, <1>6, <1>7 DEF Owing, DrainIsOwed, AllInHands
<1> QED
  BY <1>4, <1>8

LEMMA TakeOwes ==
    ASSUME Owing, Take
    PROVE  StaysOwed /\ AllInHands'
<1>1. /\ queue.items \in Seq(Nat) /\ queue.items # <<>> /\ worker \in Fibers
      /\ worker.at = "taking" /\ worker'.at = "processing" /\ worker'.item = Head(queue.items)
      /\ queue'.items = Tail(queue.items) /\ queue'.open = queue.open
      /\ UNCHANGED <<outstanding, idle, resolved, enqueuer, drainer, ended>>
  BY DEF Take, Owing, WorkerInv, Types, Fibers
<1>2. StaysOwed
  BY <1>1, StaysOwedQuietly DEF Owing
<1>3. Counted' = Counted /\ Over' = Over
  BY <1>1 DEF Counted, Over
<1>4. ASSUME NEW i \in DOMAIN queue.items
      PROVE  \/ queue.items[i] = Head(queue.items)
             \/ \E j \in DOMAIN Tail(queue.items) : Tail(queue.items)[j] = queue.items[i]
  <2>1. CASE i = 1
    BY <2>1, <1>1, HeadTailFacts
  <2>2. CASE i # 1
    <3>1. i - 1 \in DOMAIN Tail(queue.items) /\ Tail(queue.items)[i - 1] = queue.items[i]
      BY <1>1, <2>2, <1>4
    <3> QED
      BY <3>1
  <2> QED
    BY <2>1, <2>2
<1>5. ASSUME NEW item, InHands(item)
      PROVE  InHands(item)'
  <2>1. CASE \E i \in DOMAIN queue.items : queue.items[i] = item
    <3>1. \/ Head(queue.items) = item
          \/ \E j \in DOMAIN Tail(queue.items) : Tail(queue.items)[j] = item
      BY <1>4, <2>1
    <3> QED
      BY <1>1, <3>1 DEF InHands
  <2>2. CASE \E e \in Enqueuers : enqueuer[e].at \in {"offering", "refused"} /\ enqueuer[e].item = item
    BY <1>1, <2>2 DEF InHands
  <2> QED
    BY <1>1, <1>5, <2>1, <2>2 DEF InHands
<1>6. AllInHands'
  BY <1>1, <1>3, <1>5 DEF Owing, DrainIsOwed, AllInHands
<1> QED
  BY <1>2, <1>6

\* The loop's item ends; the scope may close with it.
LEMMA WorkEndOwes ==
    ASSUME Owing, worker.at = "processing", NEW fails \in BOOLEAN, Discount(worker.item),
           worker' = [Discounted(worker) EXCEPT !.fails = fails],
           UNCHANGED <<idle, resolved, enqueuer, drainer>>
    PROVE  /\ StaysOwed /\ Counted' = Counted /\ Over' = Over \cup {worker.item}
           /\ worker'.at \in {"resolving", "done"}
<1>1. PICK item \in Nat : item = worker.item
  BY DEF Owing, WorkerInv, Types, Fibers
<1>2. Unended(item) /\ Discount(item) /\ worker \in Fibers /\ idle \in Nat
  BY <1>1 DEF Owing, WorkerInv, OneAtWork, Types
<1>3. PICK f : f = Discounted(worker)
  OBVIOUS
<1>4. f \in Fibers /\ f.signal = idle /\ f.at \in {"resolving", "done"}
  BY <1>2, <1>3, DiscountedFields
<1>5. Remaining = 0 => f.at = "resolving"
  BY <1>2, <1>3 DEF Discounted, Fibers
<1>6. worker' = [f EXCEPT !.fails = fails]
  BY <1>3
<1>7. worker'.at = f.at /\ worker'.signal = idle
  BY <1>4, <1>6, FailsFields
<1>8. StaysOwed
  BY <1>2, <1>5, <1>7, StaysOwedAtEnd DEF Owing
<1>9. Counted' = Counted /\ Over' = Over \cup {item}
  BY <1>2, Ends DEF Owing, WorkerInv
<1> QED
  BY <1>1, <1>4, <1>7, <1>8, <1>9

LEMMA ProcessOwes ==
    ASSUME Owing, NEW fails \in BOOLEAN, ProcessEnds(fails)
    PROVE  StaysOwed /\ AllInHands'
<1>1. /\ worker.at = "processing" /\ Discount(worker.item)
      /\ worker' = [Discounted(worker) EXCEPT !.fails = fails]
      /\ UNCHANGED <<idle, resolved, queue, enqueuer, drainer>>
  BY DEF ProcessEnds
<1>2. StaysOwed /\ Counted' = Counted /\ Over' = Over \cup {worker.item}
  BY <1>1, WorkEndOwes
<1>3. \A other : other # worker.item /\ InHands(other) => InHands(other)'
  BY <1>1 DEF InHands
<1>4. AllInHands'
  BY <1>1, <1>2, <1>3 DEF Owing, DrainIsOwed, AllInHands
<1> QED
  BY <1>2, <1>4

LEMMA LoopOwes ==
    ASSUME Owing, LoopGoesOn
    PROVE  StaysOwed /\ AllInHands'
<1>1. /\ UNCHANGED <<outstanding, idle, queue, enqueuer, drainer, ended>> /\ Resolve(worker)
      /\ worker.at \in {"resolving", "done"}
  BY DEF LoopGoesOn
<1>2. resolved \subseteq resolved' /\ (worker.at = "resolving" => worker.signal \in resolved')
  BY <1>1 DEF Resolve
<1>3. StaysOwed
  BY <1>1, <1>2, StaysOwedQuietly DEF Owing
<1>4. Counted' = Counted /\ Over' = Over
  BY <1>1 DEF Counted, Over
<1>5. \A item : InHands(item) => InHands(item)'
  BY <1>1 DEF InHands
<1>6. AllInHands'
  BY <1>1, <1>4, <1>5 DEF Owing, DrainIsOwed, AllInHands
<1> QED
  BY <1>3, <1>6

\* What the scope leaves behind is never processed, but every drain before it is still answered.
LEMMA CloseOwes ==
    ASSUME Owing, CloseScope
    PROVE  StaysOwed /\ AllInHands'
<1>1. /\ UNCHANGED <<idle, resolved, enqueuer, drainer>> /\ worker \in Fibers /\ ~queue'.open
  BY DEF CloseScope, Owing, WorkerInv, Types
<1>2. AllInHands'
  BY <1>1 DEF AllInHands
<1>3. CASE worker.at = "processing"
  <2>1. Discount(worker.item) /\ worker' = [Discounted(worker) EXCEPT !.fails = TRUE]
    BY <1>3 DEF CloseScope
  <2> QED
    BY <1>1, <1>2, <1>3, <2>1, WorkEndOwes
<1>4. CASE worker.at # "processing"
  <2>1. UNCHANGED <<outstanding, ended>>
    BY <1>4 DEF CloseScope
  <2>2. worker.at = "resolving" => worker'.at = "resolving" /\ worker'.signal = worker.signal
    BY <1>1 DEF CloseScope, Fibers
  <2>3. StaysOwed
    BY <1>1, <2>1, <2>2, StaysOwedQuietly DEF Owing
  <2> QED
    BY <1>2, <2>3
<1> QED
  BY <1>3, <1>4

LEMMA DrainerOwes ==
    ASSUME Owing, UNCHANGED <<outstanding, idle, resolved, queue, worker, enqueuer, ended>>
    PROVE  StaysOwed /\ AllInHands'
<1>1. StaysOwed
  BY StaysOwedQuietly DEF Owing
<1>2. Counted' = Counted /\ Over' = Over /\ \A item : InHands(item) => InHands(item)'
  BY DEF Counted, Over, InHands
<1>3. AllInHands'
  BY <1>2 DEF Owing, DrainIsOwed, AllInHands
<1> QED
  BY <1>1, <1>3

LEMMA OwingStep == Owing /\ [WorkerNext]_workerVars => Owing'
<1> SUFFICES ASSUME Owing, [WorkerNext]_workerVars
             PROVE  Owing'
  OBVIOUS
<1>1. WorkerInv'
  BY WorkerInvStep DEF Owing
<1> SUFFICES Owed(idle)' /\ DrainIsOwed'
  BY <1>1 DEF Owing
<1>2. drainer \in [Drainers -> [at: {"away", "waiting", "drained"}, signal: Nat, before: SUBSET Nat]]
  BY DEF Owing, WorkerInv, Types
<1>3. ASSUME UNCHANGED drainer, StaysOwed, AllInHands'
      PROVE  Owed(idle)' /\ DrainIsOwed'
  BY <1>3, WaitsForOwed
<1>4. CASE UNCHANGED workerVars
  BY <1>3, <1>4, DrainerOwes DEF workerVars
<1>5. ASSUME NEW e \in Enqueuers,
             Count(e) \/ Offer(e) \/ EnqueuerInterrupted(e) \/ Refused(e) \/ EnqueueReturns(e)
      PROVE  Owed(idle)' /\ DrainIsOwed'
  <2>1. StaysOwed /\ AllInHands'
    BY <1>5, CountOwes, OfferOwes, InterruptedOwes, RefusedOwes, ReturnsOwes
  <2>2. UNCHANGED drainer
    BY <1>5 DEF Count, Offer, EnqueuerInterrupted, Refused, EnqueueReturns
  <2> QED
    BY <1>3, <2>1, <2>2
<1>6. CASE Take \/ (\E fails \in BOOLEAN : ProcessEnds(fails)) \/ LoopGoesOn \/ CloseScope
  <2>1. StaysOwed /\ AllInHands'
    BY <1>6, TakeOwes, ProcessOwes, LoopOwes, CloseOwes
  <2>2. UNCHANGED drainer
    BY <1>6 DEF Take, ProcessEnds, LoopGoesOn, CloseScope
  <2> QED
    BY <1>3, <2>1, <2>2
<1>7. ASSUME NEW d \in Drainers, Drain(d)
      PROVE  Owed(idle)' /\ DrainIsOwed'
  <2>1. /\ UNCHANGED <<outstanding, idle, resolved, queue, worker, enqueuer, ended>>
        /\ drainer' = [drainer EXCEPT ![d] = [at |-> "waiting", signal |-> idle, before |-> Counted]]
    BY <1>7 DEF Drain
  <2>2. \A c \in Drainers : drainer'[c] = drainer[c] \/ (drainer'[c].signal = idle /\ idle' = idle)
    BY <1>2, <2>1
  <2> QED
    BY <2>1, <2>2, DrainerOwes, WaitsForOwed
<1>8. ASSUME NEW d \in Drainers, DrainReturns(d)
      PROVE  Owed(idle)' /\ DrainIsOwed'
  <2>1. /\ UNCHANGED <<outstanding, idle, resolved, queue, worker, enqueuer, ended>>
        /\ drainer' = [drainer EXCEPT ![d].at = "drained"]
    BY <1>8 DEF DrainReturns
  <2>2. drainer'[d].at = "drained" /\ \A c \in Drainers : c # d => drainer'[c] = drainer[c]
    BY <1>2, <2>1
  <2>3. \A c \in Drainers : drainer'[c].at = "waiting" => drainer'[c] = drainer[c]
    BY <2>2
  <2> QED
    BY <2>1, <2>3, DrainerOwes, WaitsForOwed
<1> QED
  BY <1>4, <1>5, <1>6, <1>7, <1>8 DEF WorkerNext

\* No drain waits for what nobody will do: the deferred that it read is done, or belongs to the
\* busy time that goes on, or the fiber that ended its busy time is about to resolve it; and a busy
\* time goes on only while an item is with an enqueuer, in the queue or with the loop, unless a
\* caller of enqueue was interrupted between the count and the offer or the scope has closed.
THEOREM NoDrainIsForgotten == WorkerSpec => []DrainIsOwed
<1>1. WorkerInit => Owing
  <2> SUFFICES ASSUME WorkerInit
               PROVE  Owing
    OBVIOUS
  <2>1. Owed(idle)
    BY DEF WorkerInit, Owed
  <2>2. Counted = {}
    BY DEF WorkerInit, Counted
  <2>3. DrainIsOwed
    BY <2>2 DEF WorkerInit, DrainIsOwed
  <2> QED
    BY <2>1, <2>3, WorkerInvInit DEF Owing
<1>2. Owing => DrainIsOwed
  BY DEF Owing
<1> QED
  BY <1>1, <1>2, OwingStep, PTL DEF WorkerSpec
====================================================================================
