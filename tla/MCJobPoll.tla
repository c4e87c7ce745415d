----------------------------- MODULE MCJobPoll -----------------------------
(***************************************************************************)
(* Small instances of the polling of one job for TLC.                      *)
(***************************************************************************)
EXTENDS JobPoll, TLC

CONSTANTS A, B, a1, b1, b2

\* One thread in the process A, two in B.
OneAndTwo == [p \in Pollers |-> IF p = a1 THEN A ELSE B]

ThreadsOfB == Permutations({b1, b2})
=============================================================================
