---------------------------- MODULE JobLifecycle ----------------------------
(***************************************************************************)
(* What the durable job queue promises the rest of AtlasRisk, per job and  *)
(* without leases, clocks, workers or evidence tables: a job is attempted  *)
(* at most MaxAttempts[j] times, is never attempted twice at once, ends at *)
(* most once, and a result is the result of the latest attempt.            *)
(* JobQueue (internal/jobs) and RiskWorker (the Python worker together     *)
(* with the risk API) are both shown to implement it.                      *)
(***************************************************************************)
EXTENDS Naturals

CONSTANTS Job, MaxAttempts

VARIABLES status,   \* lifecycle status of each job
          tries,    \* attempts started so far
          winner    \* the attempt that produced the result, 0 if none

lifecycleVars == <<status, tries, winner>>

Status == {"absent", "pending", "running", "succeeded", "failed", "cancelled"}

LifecycleInit ==
    /\ status = [j \in Job |-> "absent"]
    /\ tries = [j \in Job |-> 0]
    /\ winner = [j \in Job |-> 0]

\* Job j moves from one of the statuses in from to to; t and w are its new
\* number of tries and its new winner.
Move(j, from, to, t, w) ==
    /\ status[j] \in from
    /\ status'[j] = to
    /\ tries'[j] = t
    /\ winner'[j] = w

Create(j) == Move(j, {"absent"}, "pending", 0, 0)
Start(j)  == tries[j] < MaxAttempts[j] /\ Move(j, {"pending"}, "running", tries[j] + 1, 0)
Retry(j)  == tries[j] < MaxAttempts[j] /\ Move(j, {"running"}, "pending", tries[j], 0)
Finish(j) == Move(j, {"running"}, "succeeded", tries[j], tries[j])
GiveUp(j) == Move(j, {"running"}, "failed", tries[j], 0)
Abort(j)  == Move(j, {"pending", "running"}, "cancelled", tries[j], 0)

Stay(j) == Move(j, Status, status[j], tries[j], winner[j])

\* Lease recovery moves several jobs in one transaction, so a step moves any
\* set of jobs, each along one of the edges above.
LifecycleNext ==
    \A j \in Job : \/ Create(j) \/ Start(j) \/ Retry(j)
                   \/ Finish(j) \/ GiveUp(j) \/ Abort(j) \/ Stay(j)

LifecycleSpec == LifecycleInit /\ [][LifecycleNext]_lifecycleVars
=============================================================================
