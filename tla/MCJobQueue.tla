---------------------------- MODULE MCJobQueue ----------------------------
(* JobQueue on two submissions and two workers, for TLC. *)
EXTENDS JobQueue

CONSTANTS k1, c2, w2
MCKeyOf == [c \in Calls |-> k1]

\* Bound: the second worker rests once the second submission has begun.
OneAtATime == call'[c2] = "find" \/ worker'[w2] = Idle
=============================================================================
