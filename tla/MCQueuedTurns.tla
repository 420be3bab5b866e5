----------------------------- MODULE MCQueuedTurns -----------------------------
(***************************************************************************)
(* QueuedTurns with two or three messages, one of which may be urgent.     *)
(***************************************************************************)
EXTENDS QueuedTurnsProperties, TLC

CONSTANTS m1, m2, m3, x1

Symmetric == Permutations(Messages \ Urgent)
================================================================================
