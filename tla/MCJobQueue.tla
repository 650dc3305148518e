----------------------------- MODULE MCJobQueue -----------------------------
(***************************************************************************)
(* Instances of JobQueue for TLC.                                          *)
(***************************************************************************)
EXTENDS JobQueue, TLC

CONSTANTS j1, j2, w1, w2, w3

\* Two jobs with different numbers of attempts.
MCMaxAttempts == [j \in Job |-> IF j = j1 THEN 3 ELSE 1]
=============================================================================
