------------------------------ MODULE CommandLedger ------------------------------
(***************************************************************************)
(* What OrchestrationEngineService promises of dispatch: "Dispatch is      *)
(* serialized through an internal queue and deduplicated via command       *)
(* receipts" (Services/OrchestrationEngine.ts).  A command is executed at  *)
(* most once, at a position of its own after everything executed before;   *)
(* it may be refused instead, and then stays refused; and whatever a       *)
(* dispatch is told agrees with what happened to its command.              *)
(***************************************************************************)
EXTENDS Naturals

CONSTANTS Commands, Dispatches

VARIABLES
    settled,    \* what became of each command, and where in the log
    high,       \* the last position used
    answered    \* what each dispatch was told: command, outcome, position

ledger == <<settled, high, answered>>

Open == [status |-> "none", sequence |-> 0]
Unanswered == [tag |-> "none", sequence |-> 0]

Init ==
    /\ settled = [c \in Commands |-> Open]
    /\ high \in Nat
    /\ answered \in [Dispatches -> [cmd: Commands, outcome: {Unanswered}]]

Execute(c) ==
    /\ settled[c] = Open
    /\ high' \in Nat /\ high' > high
    /\ settled' = [settled EXCEPT ![c] = [status |-> "accepted", sequence |-> high']]
    /\ UNCHANGED answered

Refuse(c) ==
    /\ settled[c] = Open
    /\ \E n \in 0..high : settled' = [settled EXCEPT ![c] = [status |-> "rejected", sequence |-> n]]
    /\ UNCHANGED <<high, answered>>

\* Success is told only of an executed command, with its position; a rejection only of one
\* that was not executed; a timeout or an internal error promises nothing.
Truthful(c, outcome) ==
    \/ outcome.tag = "success" /\ settled[c] = [status |-> "accepted", sequence |-> outcome.sequence]
    \/ outcome.tag = "rejected" /\ settled[c].status # "accepted"
    \/ outcome.tag \in {"timeout", "failed"}

Answer(d) ==
    /\ answered[d].outcome = Unanswered
    /\ \E tag \in {"success", "timeout", "rejected", "failed"}, n \in 0..high :
          /\ Truthful(answered[d].cmd, [tag |-> tag, sequence |-> n])
          /\ answered' = [answered EXCEPT ![d].outcome = [tag |-> tag, sequence |-> n]]
    /\ UNCHANGED <<settled, high>>

Next == (\E c \in Commands : Execute(c) \/ Refuse(c)) \/ (\E d \in Dispatches : Answer(d))

Spec == Init /\ [][Next]_ledger
==================================================================================
