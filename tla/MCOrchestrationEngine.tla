-------------------------- MODULE MCOrchestrationEngine --------------------------
(***************************************************************************)
(* OrchestrationEngine on small instances: a project and two threads exist *)
(* or are created, and two or three commands are dispatched, some twice.   *)
(***************************************************************************)
EXTENDS OrchestrationEngineProperties, TLC

CONSTANTS c1, c2, c3, c4, d1, d2, d3, p, q, t, u, past

Body(kind, of) == [kind |-> kind, of |-> of]
Old(kind, of) == [cmd |-> past, kind |-> kind, of |-> of]

\* c1 forks thread u from t: the thread and its first message; c2 writes to t, a user message
\* and a streamed reply; c3 creates thread u too, and c4 a thread that exists.
ForkAndWrite == (c1 :> <<Body("created", u), Body("refresh", u)>>)
             @@ (c2 :> <<Body("refresh", t), Body("delta", t)>>)
             @@ (c3 :> <<Body("created", u)>>)
             @@ (c4 :> <<Body("created", t)>>)
\* Two threads that exist are written to.
WriteBoth == (c1 :> <<Body("refresh", t)>>) @@ (c2 :> <<Body("refresh", u)>>)

OneThread == <<Old("project", p), Old("created", t)>>
TwoThreads == <<Old("project", p), Old("created", t), Old("created", u)>>
\* A project created after a longer history.
LongChat == <<Old("project", p), Old("created", t), Old("delta", t), Old("project", q)>>

Symmetric == Permutations(Dispatches)

\* All work is done and everyone is answered; short of that, a state without a step is a
\* deadlock.
Finished ==
    /\ up /\ phase = "idle" /\ commandQueue = <<>> /\ maintenanceLock = "free" /\ ~catchUp
    /\ \A d \in Dispatches : reply[d].tag # None \/ executionState[d] = "lost"
    /\ UNCHANGED vars

MCSpec == Init /\ [][Next \/ Finished]_vars
MCFairSpec == FairSpec
==================================================================================
