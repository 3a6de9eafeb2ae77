----------------------------- MODULE MCJobQueue -----------------------------
(* Instance of JobQueue for TLC: a job with two retries, one without,     *)
(* and two interchangeable worker identities.                              *)
EXTENDS JobQueue, TLC

CONSTANTS j1, j2, w1, w2

MCMaxAttempts == (j1 :> 3) @@ (j2 :> 1)

Symmetry == Permutations({w1, w2})
=============================================================================
