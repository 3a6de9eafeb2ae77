---------------------------- MODULE MCRiskWorker ----------------------------
(* Instances of RiskWorker for TLC: a scenario job with one retry, a job of *)
(* another kind, and processes that share a worker_id.                     *)
EXTENDS RiskWorker, TLC

CONSTANTS j1, j2, w1, w2, id1

MCMaxAttempts == (j1 :> 2) @@ (j2 :> 1)

\* Both processes carry the same hostname-pid.
MCIdOf == (w1 :> id1) @@ (w2 :> id1)
=============================================================================
