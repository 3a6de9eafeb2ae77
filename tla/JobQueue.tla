------------------------------ MODULE JobQueue ------------------------------
(***************************************************************************)
(* The durable job queue of internal/jobs/queue.go on the tables risk_jobs *)
(* and risk_job_attempts (migration 00008).  Every exported method is one  *)
(* PostgreSQL transaction, hence one action.  Callers are unconstrained:   *)
(* whoever was ever handed a claim may present it at any later time and as *)
(* often as it likes (late, duplicated and stale calls).                   *)
(*                                                                         *)
(* Time is kept as the time left: lease[j] is how long lease_expires_at is *)
(* still ahead of clock_timestamp() (0 = expired) and delay[j] how long    *)
(* available_at is.  Tick lets one unit pass.  A due job is chosen freely, *)
(* which covers both the ORDER BY of the candidate query and the rows that *)
(* SKIP LOCKED passes over.                                                *)
(*                                                                         *)
(* runState is the scenario_runs row of a job of kind scenario.revalue.    *)
(* Of the methods here only RecoverExpired writes it; the rows are created *)
(* by the API and moved by the Python worker (module RiskWorker).          *)
(***************************************************************************)
EXTENDS Naturals

CONSTANTS
    Job,            \* rows of risk_jobs, one per (kind, idempotency_key)
    WorkerId,       \* values of lease_owner / worker_id
    NoWorker,       \* SQL NULL in lease_owner
    AttemptLimit,   \* bound on max_attempts
    MaxAttempts,    \* max_attempts of each job
    MaxLease,       \* bound on the lease a caller asks for
    MaxDelay        \* bound on how far available_at lies in the future

ASSUME QueueAssumption ==
    /\ NoWorker \notin WorkerId
    /\ AttemptLimit \in Nat \ {0}
    /\ MaxAttempts \in [Job -> 1..AttemptLimit]
    /\ MaxLease \in Nat \ {0}
    /\ MaxDelay \in Nat

VARIABLES
    state,          \* risk_jobs.state; "absent" before the INSERT
    attemptCount,   \* risk_jobs.attempt_count
    leaseOwner,     \* risk_jobs.lease_owner
    lease,          \* time until risk_jobs.lease_expires_at, 0 when past or NULL
    delay,          \* time until risk_jobs.available_at, 0 when past
    resultOf,       \* the attempt whose result is in risk_jobs.result, 0 for NULL
    attemptWorker,  \* risk_job_attempts.worker_id of each attempt
    attemptOutcome, \* risk_job_attempts.outcome; "none": no row, "open": NULL
    runState        \* scenario_runs.state of the job's run; "none": no row

queueVars == <<state, attemptCount, leaseOwner, lease, delay, resultOf,
               attemptWorker, attemptOutcome, runState>>

Attempt == 1..AttemptLimit

Claimable == {"queued", "retryable_failed"}
Terminal  == {"succeeded", "failed", "cancelled"}
State     == {"absent", "running"} \cup Claimable \cup Terminal
Outcome   == {"none", "open", "succeeded", "retryable_failed", "failed",
              "cancelled", "expired"}

OpenRun   == {"queued", "running"}
RunResult == {"valid", "degraded", "blocked"}
RunState  == {"none", "failed"} \cup OpenRun \cup RunResult

Init ==
    /\ state = [j \in Job |-> "absent"]
    /\ attemptCount = [j \in Job |-> 0]
    /\ leaseOwner = [j \in Job |-> NoWorker]
    /\ lease = [j \in Job |-> 0]
    /\ delay = [j \in Job |-> 0]
    /\ resultOf = [j \in Job |-> 0]
    /\ attemptWorker = [j \in Job |-> [a \in Attempt |-> NoWorker]]
    /\ attemptOutcome = [j \in Job |-> [a \in Attempt |-> "none"]]
    /\ runState = [j \in Job |-> "none"]

-----------------------------------------------------------------------------
(* Guards and row updates shared by the methods.                           *)

\* Variant of HoldsLease that does not compare attempt_count.
HoldsLeaseOfAnyAttempt(j, id, a) ==
    state[j] = "running" /\ leaseOwner[j] = id /\ lease[j] > 0

\* The WHERE clause of Renew, Complete and Fail: attempt a of worker id is the
\* current attempt of a running job and its lease is ahead of the clock.
HoldsLease(j, id, a) ==
    /\ state[j] = "running"
    /\ leaseOwner[j] = id
    /\ attemptCount[j] = a
    /\ lease[j] > 0

\* Variant of Expired that passes over jobs without an attempt left.
ExpiredWithRetry(j) ==
    state[j] = "running" /\ lease[j] = 0 /\ attemptCount[j] < MaxAttempts[j]

Expired(j) == state[j] = "running" /\ lease[j] = 0

\* The attempt row is filled only while it is unfinished.
Finished(row, outcome) == IF row = "open" THEN outcome ELSE row

\* Variant of Release that forgets lease_owner.
ReleaseKeepingOwner(j, to) ==
    /\ state' = [state EXCEPT ![j] = to]
    /\ lease' = [lease EXCEPT ![j] = 0]
    /\ UNCHANGED leaseOwner

\* lease_owner and lease_expires_at become NULL and the job leaves "running".
Release(j, to) ==
    /\ state' = [state EXCEPT ![j] = to]
    /\ leaseOwner' = [leaseOwner EXCEPT ![j] = NoWorker]
    /\ lease' = [lease EXCEPT ![j] = 0]

\* Variant of FinishAttempt that leaves the row open.
FinishAttemptSkipped(j, a, outcome) == UNCHANGED attemptOutcome

FinishAttempt(j, a, outcome) ==
    attemptOutcome' = [attemptOutcome EXCEPT ![j][a] = Finished(@, outcome)]

\* Variant of FailedState that grants one attempt too many.
FailedStateOffByOne(j, retryable) ==
    IF retryable /\ attemptCount[j] <= MaxAttempts[j]
    THEN "retryable_failed" ELSE "failed"

\* Variant of FailedState that writes the attempt's outcome into the job.
FailedStateAsOutcome(j, retryable) ==
    IF ~ retryable THEN "failed"
    ELSE IF attemptCount[j] < MaxAttempts[j] THEN "retryable_failed" ELSE "expired"

FailedState(j, retryable) ==
    IF retryable /\ attemptCount[j] < MaxAttempts[j]
    THEN "retryable_failed" ELSE "failed"

\* Variant of FailedRun that does not requeue the run of a retried job.
FailedRunWithoutRequeue(run, to) ==
    IF to = "failed" /\ run \in OpenRun THEN "failed" ELSE run

\* The run of a job that has gone to state to, "failed" or "retryable_failed":
\* closed with the job, or requeued to be claimed again.
FailedRun(run, to) ==
    CASE to = "failed" /\ run \in OpenRun              -> "failed"
      [] to = "retryable_failed" /\ run = "running"    -> "queued"
      [] OTHER                                         -> run

-----------------------------------------------------------------------------
(* The methods.                                                            *)

\* INSERT of a new job.  For an existing (kind, idempotency_key) the ON
\* CONFLICT clause only returns the row: a stuttering step.
Enqueue(j, d) ==
    /\ state[j] = "absent"
    /\ state' = [state EXCEPT ![j] = "queued"]
    /\ delay' = [delay EXCEPT ![j] = d]
    /\ UNCHANGED <<attemptCount, leaseOwner, lease, resultOf, attemptWorker,
                   attemptOutcome>>

\* Variant of Claim that does not count the attempt.
ClaimUncounted(j, id, l) ==
    /\ state[j] \in Claimable
    /\ delay[j] = 0
    /\ state' = [state EXCEPT ![j] = "running"]
    /\ leaseOwner' = [leaseOwner EXCEPT ![j] = id]
    /\ lease' = [lease EXCEPT ![j] = l]
    /\ UNCHANGED <<attemptCount, delay, resultOf, attemptWorker, attemptOutcome>>

Claim(j, id, l) ==
    /\ state[j] \in Claimable
    /\ delay[j] = 0
    /\ state' = [state EXCEPT ![j] = "running"]
    /\ attemptCount' = [attemptCount EXCEPT ![j] = @ + 1]
    /\ leaseOwner' = [leaseOwner EXCEPT ![j] = id]
    /\ lease' = [lease EXCEPT ![j] = l]
    /\ attemptWorker' = [attemptWorker EXCEPT ![j][attemptCount[j] + 1] = id]
    /\ attemptOutcome' = [attemptOutcome EXCEPT ![j][attemptCount[j] + 1] = "open"]
    /\ UNCHANGED <<delay, resultOf>>

Renew(j, id, a, l) ==
    /\ HoldsLease(j, id, a)
    /\ lease' = [lease EXCEPT ![j] = l]
    /\ UNCHANGED <<state, attemptCount, leaseOwner, delay, resultOf,
                   attemptWorker, attemptOutcome>>

Complete(j, id, a) ==
    /\ HoldsLease(j, id, a)
    /\ Release(j, "succeeded")
    /\ resultOf' = [resultOf EXCEPT ![j] = a]
    /\ FinishAttempt(j, a, "succeeded")
    /\ UNCHANGED <<attemptCount, delay, attemptWorker>>

Fail(j, id, a, retryable, d) ==
    /\ HoldsLease(j, id, a)
    /\ Release(j, FailedState(j, retryable))
    /\ delay' = [delay EXCEPT ![j] = d]
    /\ FinishAttempt(j, a, FailedState(j, retryable))
    /\ UNCHANGED <<attemptCount, resultOf, attemptWorker>>

\* Variant of Cancel that leaves the attempt row open.
CancelJobOnly(j) ==
    /\ state[j] \in Claimable \cup {"running"}
    /\ Release(j, "cancelled")
    /\ UNCHANGED <<attemptCount, delay, resultOf, attemptWorker, attemptOutcome>>

\* Variant of Cancel without the condition on the state.
CancelAnyState(j) ==
    /\ state[j] # "absent"
    /\ Release(j, "cancelled")
    /\ attemptOutcome' = [attemptOutcome EXCEPT
           ![j] = [a \in Attempt |-> Finished(attemptOutcome[j][a], "cancelled")]]
    /\ UNCHANGED <<attemptCount, delay, resultOf, attemptWorker>>

Cancel(j) ==
    /\ state[j] \in Claimable \cup {"running"}
    /\ Release(j, "cancelled")
    /\ attemptOutcome' = [attemptOutcome EXCEPT
           ![j] = [a \in Attempt |-> Finished(attemptOutcome[j][a], "cancelled")]]
    /\ UNCHANGED <<attemptCount, delay, resultOf, attemptWorker>>

\* One transaction moves every job whose lease has expired.
RecoverExpired ==
    /\ state' = [j \in Job |->
           IF Expired(j) THEN FailedState(j, TRUE) ELSE state[j]]
    /\ leaseOwner' = [j \in Job |->
           IF Expired(j) THEN NoWorker ELSE leaseOwner[j]]
    /\ delay' = [j \in Job |-> IF Expired(j) THEN 0 ELSE delay[j]]
    /\ attemptOutcome' = [j \in Job |-> [a \in Attempt |->
           IF Expired(j) /\ a = attemptCount[j]
           THEN Finished(attemptOutcome[j][a], "expired")
           ELSE attemptOutcome[j][a]]]
    /\ runState' = [j \in Job |->
           IF Expired(j) THEN FailedRun(runState[j], FailedState(j, TRUE))
           ELSE runState[j]]
    /\ UNCHANGED <<attemptCount, lease, resultOf, attemptWorker>>

\* One unit of time passes.
Tick ==
    /\ \E j \in Job : lease[j] > 0 \/ delay[j] > 0
    /\ lease' = [j \in Job |-> IF lease[j] > 0 THEN lease[j] - 1 ELSE 0]
    /\ delay' = [j \in Job |-> IF delay[j] > 0 THEN delay[j] - 1 ELSE 0]
    /\ UNCHANGED <<state, attemptCount, leaseOwner, resultOf, attemptWorker,
                   attemptOutcome, runState>>

-----------------------------------------------------------------------------
\* The claims ever handed out for job j, by attempt number.
HandedOut(j) == {a \in Attempt : attemptOutcome[j][a] # "none"}

Lease == 1..MaxLease
Delay == 0..MaxDelay

ClientCall(j) ==
    \/ \E d \in Delay : Enqueue(j, d)
    \/ \E id \in WorkerId, l \in Lease : Claim(j, id, l)
    \/ \E a \in HandedOut(j) :
          \/ \E l \in Lease : Renew(j, attemptWorker[j][a], a, l)
          \/ Complete(j, attemptWorker[j][a], a)
          \/ \E retryable \in BOOLEAN, d \in Delay :
                Fail(j, attemptWorker[j][a], a, retryable, d)
    \/ Cancel(j)

Next ==
    \/ \E j \in Job : ClientCall(j) /\ UNCHANGED runState
    \/ RecoverExpired
    \/ Tick

Spec == Init /\ [][Next]_queueVars

-----------------------------------------------------------------------------
(* Properties.                                                             *)

\* The columns of risk_jobs and risk_job_attempts hold values of their types.
RowTypeOK ==
    /\ state \in [Job -> State]
    /\ attemptCount \in [Job -> 0..AttemptLimit]
    /\ leaseOwner \in [Job -> WorkerId \cup {NoWorker}]
    /\ lease \in [Job -> 0..MaxLease]
    /\ delay \in [Job -> 0..MaxDelay]
    /\ resultOf \in [Job -> 0..AttemptLimit]
    /\ attemptWorker \in [Job -> [Attempt -> WorkerId \cup {NoWorker}]]
    /\ attemptOutcome \in [Job -> [Attempt -> Outcome]]

\* Every column holds a value of its type.
TypeOK == RowTypeOK /\ runState \in [Job -> RunState]

\* Whatever the order of claims, failures and recoveries, a job that can be
\* claimed has an attempt left.  Otherwise the UPDATE of Claim would trip the
\* CHECK attempt_count <= max_attempts and, being the first candidate, block
\* every later claim.
AttemptBudget ==
    \A j \in Job :
        /\ state[j] = "absent" => attemptCount[j] = 0
        /\ attemptCount[j] <= MaxAttempts[j]
        /\ state[j] \in Claimable => attemptCount[j] < MaxAttempts[j]

\* A job is leased exactly while it runs, and to the worker that the evidence
\* of the current attempt names (Claim writes both, later calls only one).
LeaseMatchesAttempt ==
    \A j \in Job :
        /\ state[j] = "running" =>
              /\ attemptCount[j] > 0
              /\ leaseOwner[j] # NoWorker
              /\ leaseOwner[j] = attemptWorker[j][attemptCount[j]]
        /\ state[j] # "running" => leaseOwner[j] = NoWorker /\ lease[j] = 0

\* What the outcome of a job's latest attempt may be, given the job's state.
LastOutcome(s) ==
    CASE s \in {"absent", "queued"} -> {}
      [] s = "running"          -> {"open"}
      [] s = "retryable_failed" -> {"retryable_failed", "expired"}
      [] s = "succeeded"        -> {"succeeded"}
      [] s = "failed"           -> {"failed", "expired"}
      [] s = "cancelled"        -> {"cancelled", "retryable_failed", "expired"}

\* The attempt rows of a job in state s after n attempts: one row per attempt
\* started, every attempt before the latest ended in a retry, and the latest
\* one agrees with s.
EvidenceOf(s, n, rows) ==
    \A a \in Attempt :
        /\ a > n <=> rows[a] = "none"
        /\ a < n => rows[a] \in {"retryable_failed", "expired"}
        /\ a = n => rows[a] \in LastOutcome(s)

JobEvidence(j) == EvidenceOf(state[j], attemptCount[j], attemptOutcome[j])

\* risk_job_attempts tells the true story of every job through retries,
\* cancels, recoveries and late calls; only a running job has an unfinished row.
EvidenceMatchesJob == \A j \in Job : JobEvidence(j)

\* A result exists exactly for a succeeded job and is the one of its latest
\* attempt, never that of a worker whose claim was superseded.
ResultOfLatestAttempt ==
    \A j \in Job :
        resultOf[j] = IF state[j] = "succeeded" THEN attemptCount[j] ELSE 0

\* The step leaves job j with the state, attempts, result and history it has.
LeavesAlone(j) ==
    /\ state'[j] = state[j]
    /\ attemptCount'[j] = attemptCount[j]
    /\ resultOf'[j] = resultOf[j]
    /\ attemptOutcome'[j] = attemptOutcome[j]

\* A finished job is never reopened, re-attempted, given another result or
\* another history, however late a call arrives.
TerminalIsFinal ==
    [][\A j \in Job : state[j] \in Terminal => LeavesAlone(j)]_queueVars

\* The status that JobLifecycle gives a job in state s.
LifecycleStatus(s) == IF s \in Claimable THEN "pending" ELSE s

Lifecycle == INSTANCE JobLifecycle WITH
    status <- [j \in Job |-> LifecycleStatus(state[j])],
    tries <- attemptCount,
    winner <- resultOf

\* The queue with its leases and late callers implements the lifecycle promise.
ImplementsLifecycle == Lifecycle!LifecycleSpec
=============================================================================
