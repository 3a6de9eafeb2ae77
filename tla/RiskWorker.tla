----------------------------- MODULE RiskWorker -----------------------------
(***************************************************************************)
(* The risk-run pipeline as it is deployed: the API creates a scenario run *)
(* together with its job (scenarios.Service.CreateVersionAndRun) and may   *)
(* cancel it (risk.Service.Cancel); Python processes run the loop of       *)
(* runner.serve: recover expired leases, claim a job, execute the handler  *)
(* beside a lease renewal thread, then complete, fail or drop it.  The SQL *)
(* of atlasrisk/jobs/postgres.py and of internal/jobs/queue.go update the  *)
(* queue rows in the same way, so the row updates are those of JobQueue;   *)
(* what postgres.py does to scenario_runs in the same transaction is added *)
(* here.                                                                   *)
(*                                                                         *)
(* A process may die, lose its connection, or be paused between any two    *)
(* steps.  Its name is hostname-pid, so a restarted container, or two of   *)
(* them, can carry the name of an earlier process: IdOf is not assumed to  *)
(* be injective.                                                           *)
(***************************************************************************)
EXTENDS JobQueue

CONSTANTS
    Worker,         \* risk-worker processes
    IdOf,           \* worker_id of each process
    ScenarioJob,    \* the jobs of kind scenario.revalue
    Reliable,       \* the processes that do not stay down for ever
    NoJob           \* no job

ASSUME WorkerAssumption ==
    /\ IdOf \in [Worker -> WorkerId]
    /\ ScenarioJob \subseteq Job
    /\ Reliable \subseteq Worker
    /\ NoJob \notin Job

VARIABLES
    phase,      \* where the process is in runner.serve / run_claimed_once
    task,       \* the claimed job and attempt, the locals of run_claimed_once
    leaseLost,  \* the lease_lost event set by the renewal thread
    verdict     \* how the handler ended

workerVars == <<phase, task, leaseLost, verdict>>
allVars    == <<queueVars, workerVars>>

Phase == {"recover", "claim", "run", "done"}
NoTask == [job |-> NoJob, attempt |-> 0]

\* A result state, a result that cannot be stored (an unknown state, a position
\* that is not a line of the run's snapshot), a PermanentJobError, and any other
\* exception.
Verdict == RunResult \cup {"unstorable", "permanent", "transient"}

WorkerInit ==
    /\ Init
    /\ phase = [w \in Worker |-> "recover"]
    /\ task = [w \in Worker |-> NoTask]
    /\ leaseLost = [w \in Worker |-> FALSE]
    /\ verdict = [w \in Worker |-> "none"]

-----------------------------------------------------------------------------
(* The API.                                                                *)

\* CreateVersionAndRun inserts the job, due at once, and its run in one
\* transaction.  A known idempotency key only reads the existing run.
Submit(j) ==
    /\ j \in ScenarioJob
    /\ Enqueue(j, 0)
    /\ runState' = [runState EXCEPT ![j] = "queued"]
    /\ UNCHANGED workerVars

\* A job of another kind, put in the queue by jobs.Queue.Enqueue.
EnqueueOther(j) ==
    /\ j \notin ScenarioJob
    /\ Enqueue(j, 0)
    /\ UNCHANGED <<runState, workerVars>>

\* Variant of CancelRun without the conditions on the states of job and run.
CancelAnyRun(j) ==
    /\ j \in ScenarioJob
    /\ state[j] # "absent"
    /\ Release(j, "cancelled")
    /\ runState' = [runState EXCEPT ![j] = "failed"]
    /\ UNCHANGED <<attemptCount, delay, resultOf, attemptWorker, attemptOutcome,
                   workerVars>>

\* risk.Service.Cancel: the job ends cancelled and its run, which has no such
\* state, failed.  A repeated cancel finds both closed.  Unlike Queue.Cancel it
\* does not touch risk_job_attempts.
CancelRun(j) ==
    /\ j \in ScenarioJob
    /\ state[j] \in Claimable \cup {"running", "cancelled"}
    /\ Release(j, "cancelled")
    /\ runState' = [runState EXCEPT ![j] = FailedRun(@, "failed")]
    /\ UNCHANGED <<attemptCount, delay, resultOf, attemptWorker, attemptOutcome,
                   workerVars>>

-----------------------------------------------------------------------------
(* The worker process.                                                     *)

\* Variant of BackToLoop that keeps the verdict of the last handler.
BackToLoopWithVerdict(w) ==
    /\ phase' = [phase EXCEPT ![w] = "recover"]
    /\ task' = [task EXCEPT ![w] = NoTask]
    /\ leaseLost' = [leaseLost EXCEPT ![w] = FALSE]
    /\ UNCHANGED verdict

\* The process forgets what it was doing and is back at the top of the loop.
BackToLoop(w) ==
    /\ phase' = [phase EXCEPT ![w] = "recover"]
    /\ task' = [task EXCEPT ![w] = NoTask]
    /\ leaseLost' = [leaseLost EXCEPT ![w] = FALSE]
    /\ verdict' = [verdict EXCEPT ![w] = "none"]

Recover(w) ==
    /\ phase[w] = "recover"
    /\ RecoverExpired
    /\ phase' = [phase EXCEPT ![w] = "claim"]
    /\ UNCHANGED <<task, leaseLost, verdict>>

ClaimedRun(run) == IF run = "queued" THEN "running" ELSE run

ClaimJob(w, j) ==
    /\ phase[w] = "claim"
    /\ Claim(j, IdOf[w], MaxLease)
    /\ runState' = [runState EXCEPT ![j] = ClaimedRun(@)]
    /\ phase' = [phase EXCEPT ![w] = "run"]
    /\ task' = [task EXCEPT ![w] = [job |-> j, attempt |-> attemptCount[j] + 1]]
    /\ UNCHANGED <<leaseLost, verdict>>

\* No job is due: the process polls again.
ClaimNothing(w) ==
    /\ phase[w] = "claim"
    /\ \A j \in Job : ~ (state[j] \in Claimable /\ delay[j] = 0)
    /\ phase' = [phase EXCEPT ![w] = "recover"]
    /\ UNCHANGED <<queueVars, task, leaseLost, verdict>>

\* Process w is between queue.claim and the end of run_claimed_once.
Busy(w) == phase[w] \in {"run", "done"}

\* The claim that process w carries is the live one.
Owns(w) == HoldsLease(task[w].job, IdOf[w], task[w].attempt)

RenewLease(w) ==
    /\ phase[w] = "run" /\ ~ leaseLost[w]
    /\ Renew(task[w].job, IdOf[w], task[w].attempt, MaxLease)
    /\ UNCHANGED <<runState, workerVars>>

\* A renewal that matched no row, or that raised although the lease is live:
\* either way the thread gives the lease up and ends.
LoseLease(w) ==
    /\ phase[w] = "run" /\ ~ leaseLost[w]
    /\ leaseLost' = [leaseLost EXCEPT ![w] = TRUE]
    /\ UNCHANGED <<queueVars, phase, task, verdict>>

\* validate_job knows scenario.revalue only, so another kind ends in a
\* PermanentJobError.
VerdictsOn(j) == IF j \in ScenarioJob THEN Verdict ELSE {"permanent"}

\* The handler returns or raises and the renewal thread is joined.
HandlerDone(w, v) ==
    /\ phase[w] = "run"
    /\ v \in VerdictsOn(task[w].job)
    /\ phase' = [phase EXCEPT ![w] = "done"]
    /\ verdict' = [verdict EXCEPT ![w] = v]
    /\ UNCHANGED <<queueVars, task, leaseLost>>

\* lease_lost is set: nothing is written.
DropTask(w) ==
    /\ phase[w] = "done" /\ leaseLost[w]
    /\ BackToLoop(w)
    /\ UNCHANGED queueVars

\* queue.complete: the result goes to the job and to its run.
CompleteTask(w) ==
    LET j == task[w].job IN
    /\ phase[w] = "done" /\ ~ leaseLost[w] /\ verdict[w] \in RunResult
    /\ Complete(j, IdOf[w], task[w].attempt)
    /\ runState[j] \in OpenRun
    /\ runState' = [runState EXCEPT ![j] = verdict[w]]
    /\ BackToLoop(w)

\* queue.fail: the job becomes due at once or fails, and its run with it.
FailTask(w) ==
    LET j == task[w].job
        retryable == verdict[w] = "transient" IN
    /\ phase[w] = "done" /\ ~ leaseLost[w] /\ verdict[w] \in {"permanent", "transient"}
    /\ Fail(j, IdOf[w], task[w].attempt, retryable, 0)
    /\ runState' = [runState EXCEPT ![j] = FailedRun(@, FailedState(j, retryable))]
    /\ BackToLoop(w)

\* complete and fail match no row: the claim is stale and nothing is written.
StaleTask(w) ==
    /\ phase[w] = "done" /\ ~ leaseLost[w] /\ ~ Owns(w)
    /\ BackToLoop(w)
    /\ UNCHANGED queueVars

\* _persist_scenario_result raises, because of the result or because no open
\* run is found: the transaction is rolled back, the job stays running, and the
\* loop reconnects.
PersistFails(w) ==
    /\ phase[w] = "done" /\ ~ leaseLost[w] /\ Owns(w)
    /\ \/ verdict[w] = "unstorable"
       \/ verdict[w] \in RunResult /\ runState[task[w].job] \notin OpenRun
    /\ BackToLoop(w)
    /\ UNCHANGED queueVars

\* The process dies and is restarted, or its connection breaks, at any point.
Abandon(w) ==
    /\ phase[w] # "recover"
    /\ BackToLoop(w)
    /\ UNCHANGED queueVars

FinishTask(w) ==
    DropTask(w) \/ CompleteTask(w) \/ FailTask(w) \/ StaleTask(w) \/ PersistFails(w)

ClaimSome(w) == \E j \in Job : ClaimJob(w, j)

HandlerEnds(w) == \E v \in Verdict : HandlerDone(w, v)

WorkerStep(w) ==
    \/ Recover(w) \/ ClaimSome(w) \/ ClaimNothing(w)
    \/ RenewLease(w) \/ LoseLease(w) \/ HandlerEnds(w)
    \/ FinishTask(w) \/ Abandon(w)

APICall(j) == Submit(j) \/ EnqueueOther(j) \/ CancelRun(j)

WorkerNext ==
    \/ \E j \in Job : APICall(j)
    \/ \E w \in Worker : WorkerStep(w)
    \/ Tick /\ UNCHANGED workerVars

WorkerSpec == WorkerInit /\ [][WorkerNext]_allVars

\* A claimed job does not keep its process busy for ever: the handlers are
\* finite computations and a process that hangs is killed.
LeaveHandler(w) == phase[w] = "run" /\ (HandlerEnds(w) \/ Abandon(w))

\* Time passes, handlers end, and a reliable process keeps looping: it may lose
\* its connection again and again, but not before every single claim.
Fairness ==
    /\ WF_allVars(Tick /\ UNCHANGED workerVars)
    /\ \A w \in Worker : WF_allVars(LeaveHandler(w))
    /\ \A w \in Reliable :
          /\ WF_allVars(Recover(w))
          /\ WF_allVars(ClaimNothing(w))
          /\ SF_allVars(ClaimSome(w))
          /\ WF_allVars(FinishTask(w))

FairWorkerSpec == WorkerSpec /\ Fairness

-----------------------------------------------------------------------------
(* Properties.  Those of JobQueue that the API's cancel does not weaken    *)
(* (AttemptBudget, LeaseMatchesAttempt, ResultOfLatestAttempt,             *)
(* TerminalIsFinal and ImplementsLifecycle) are proved of WorkerSpec in    *)
(* RiskWorker_proofs.                                                      *)

TaskOK(w) ==
    /\ Busy(w) => task[w].job \in Job
    /\ verdict[w] \in IF phase[w] = "done" THEN VerdictsOn(task[w].job) ELSE {"none"}

\* Every variable holds a value of its type, a busy process has a task, and it
\* has a verdict exactly when the handler has ended.
WorkerTypeOK ==
    /\ TypeOK
    /\ phase \in [Worker -> Phase]
    /\ task \in [Worker -> [job : Job \cup {NoJob}, attempt : 0..AttemptLimit]]
    /\ leaseLost \in [Worker -> BOOLEAN]
    /\ verdict \in [Worker -> Verdict \cup {"none"}]
    /\ \A w \in Worker : TaskOK(w)

\* The states a run may be in while its job is in state s.
RunStatesOf(s) ==
    CASE s = "absent"           -> {"none"}
      [] s \in Claimable        -> {"queued"}
      [] s = "running"          -> {"running"}
      [] s = "succeeded"        -> RunResult
      [] s \in {"failed", "cancelled"} -> {"failed"}

RunAgrees(j) ==
    runState[j] \in IF j \in ScenarioJob THEN RunStatesOf(state[j]) ELSE {"none"}

\* The scenario run and its job move together through claims, retries, crashes,
\* recoveries and cancels, although three programs write the two tables: a run
\* that the API shows as running has a running job, and no run stays open once
\* its job has ended.
RunMatchesJob == \A j \in Job : RunAgrees(j)

\* At most one process can write a job, even when processes share a worker_id
\* and an old one wakes up with a claim from before the lease expired.
OneOwner ==
    \A v, w \in Worker :
        /\ Busy(v) /\ Owns(v)
        /\ Busy(w) /\ Owns(w)
        /\ task[v].job = task[w].job
        => v = w

\* Job j was cancelled under its running attempt, whose row is still open.
CancelledInFlight(j) ==
    /\ state[j] = "cancelled"
    /\ EvidenceOf("running", attemptCount[j], attemptOutcome[j])

\* risk_job_attempts under the API's cancel: the rows tell the job's story, with
\* one exception, the attempt that was running when the run was cancelled.
AttemptsMatchJob ==
    \A j \in Job : JobEvidence(j) \/ CancelledInFlight(j)

\* A finished run is evidence: no late completion, failure, recovery or cancel
\* ever changes it, so the trigger that forbids it never aborts a transaction.
FinishedRunIsFinal ==
    [][\A j \in Job : runState[j] \in RunResult \cup {"failed"} =>
          runState'[j] = runState[j]]_allVars

\* Every submitted job ends, whatever the unreliable processes do, as long as
\* one reliable process keeps recovering leases and claiming.
JobsEnd == \A j \in Job : state[j] # "absent" ~> state[j] \in Terminal

\* What AR-301 reports of the queue, "cancellation closes active attempt
\* evidence": a job that has ended has no unfinished attempt.
EndedJobHasNoOpenAttempt ==
    \A j \in Job, a \in Attempt :
        state[j] \in Terminal => attemptOutcome[j][a] # "open"
=============================================================================
