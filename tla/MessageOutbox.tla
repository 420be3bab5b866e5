----------------------------- MODULE MessageOutbox -----------------------------
(***************************************************************************)
(* What becomes of the messages a user sends to a thread, whoever carries  *)
(* them: each one that is accepted is given to the provider once, or its   *)
(* failure is reported, or a mishap that is known took it; and messages    *)
(* that wait in line are given one after the other.                        *)
(***************************************************************************)
EXTENDS Naturals, Sequences

CONSTANT Messages

VARIABLES
    fate,       \* what became of each message
    given,      \* what the provider was given, in order
    line,       \* the messages that were told to wait, in order
    again,      \* messages that were told so twice: nothing is promised of these
    mishaps     \* "stop", "crash", "fault", "late": what has happened

outbox == <<fate, given, line, again, mishaps>>

Pending == {m \in Messages : fate[m] = "pending"}

\* The messages that wait in line before m.
Ahead(m) == {line[i] : i \in {i \in 1..Len(line) : \E j \in 1..Len(line) : i < j /\ line[j] = m}}

Becomes(ms, how) == fate' = [m \in Messages |-> IF m \in ms THEN how ELSE fate[m]]

Init ==
    /\ fate = [m \in Messages |-> "unsent"]
    /\ given = <<>> /\ line = <<>> /\ again = {} /\ mishaps = {}

Accept(m) ==
    /\ fate[m] = "unsent" /\ Becomes({m}, "pending")
    /\ line' \in {line, Append(line, m)}
    /\ again' = again \/ (again' = again \cup {m} /\ "late" \in mishaps')
    /\ UNCHANGED given

\* While nothing has disturbed the line, nobody in it is overtaken.
Give(m) ==
    /\ m \in Pending \cup again
    /\ again = {} /\ "stop" \notin mishaps => Ahead(m) \cap Pending = {}
    /\ given' = Append(given, m) /\ Becomes({m} \cap Pending, "given")
    /\ UNCHANGED <<line, again>>

\* Its failure is shown in the thread.
Report(m) == m \in Pending /\ Becomes({m}, "failed") /\ UNCHANGED <<given, line, again>>

\* One failing step loses one message, and a crash those that are pending.
Lose ==
    /\ \/ "fault" \in mishaps' /\ \E m \in Pending : Becomes({m}, "lost")
       \/ "crash" \in mishaps' /\ Becomes(Pending, "lost")
    /\ UNCHANGED <<given, line, again>>

\* A session that is stopped forgets messages that were waiting.
Clear ==
    /\ "stop" \in mishaps
    /\ \E ms \in SUBSET Pending : Becomes(ms, "cleared")
    /\ UNCHANGED <<given, line, again>>

Next ==
    /\ mishaps \subseteq mishaps'
    /\ \/ \E m \in Messages : Accept(m) \/ Give(m) \/ Report(m)
       \/ Lose \/ Clear
       \/ UNCHANGED <<fate, given, line, again>>

Spec == Init /\ [][Next]_outbox
=================================================================================
