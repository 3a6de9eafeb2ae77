-------------------------- MODULE RiskWorker_proofs --------------------------
(***************************************************************************)
(* Proofs about RiskWorker, for any jobs, processes and worker names, and  *)
(* any number of processes that share a name.                              *)
(*                                                                         *)
(* The row updates are those of JobQueue, so their lemmas apply.  Two      *)
(* facts are added: a run agrees with its job, and no two busy processes   *)
(* carry the same claim, because every claim numbers a new attempt.        *)
(***************************************************************************)
EXTENDS RiskWorker, JobQueue_proofs

\* What the tables satisfy under the API and the workers.
TablesInv == RowInv /\ TypeOK /\ AttemptsMatchJob /\ RunMatchesJob

\* Claims in the hands of processes are old or current, and never shared.
ClaimsDistinct ==
    /\ \A w \in Worker : Busy(w) => task[w].attempt <= attemptCount[task[w].job]
    /\ \A v, w \in Worker : Busy(v) /\ Busy(w) /\ task[v] = task[w] => v = w

WorkerInv == TablesInv /\ WorkerTypeOK /\ ClaimsDistinct

-----------------------------------------------------------------------------
(* The tables.                                                             *)

\* A job that is not cancelled has complete evidence.
LEMMA EvidenceUnlessCancelled ==
  ASSUME AttemptsMatchJob, NEW j \in Job, state[j] # "cancelled"
  PROVE  JobEvidence(j)
  BY DEF AttemptsMatchJob, CancelledInFlight

\* An update of job j alone keeps the tables if it keeps the rows, the evidence
\* and the run of j.
LEMMA OneJobUpdate ==
  ASSUME TablesInv, NEW j \in Job, RowInv',
         JobEvidence(j)' \/ CancelledInFlight(j)', RunAgrees(j)',
         runState' \in [Job -> RunState],
         \A i \in Job \ {j} : LeavesAlone(i) /\ runState'[i] = runState[i]
  PROVE  TablesInv'
  <1>1. AttemptsMatchJob'
    <2> SUFFICES ASSUME NEW i \in Job, i # j
                 PROVE  JobEvidence(i)' \/ CancelledInFlight(i)'
      BY DEF AttemptsMatchJob
    <2> QED BY DEF TablesInv, AttemptsMatchJob, JobEvidence, CancelledInFlight, LeavesAlone
  <1>2. RunMatchesJob'
    BY DEF TablesInv, RunMatchesJob, RunAgrees, LeavesAlone
  <1> QED BY <1>1, <1>2 DEF TablesInv, RowInv, TypeOK

\* The run states of each job state, spelled out.
LEMMA RunStates ==
  /\ RunStatesOf("absent") = {"none"}
  /\ \A s \in Claimable : RunStatesOf(s) = {"queued"}
  /\ RunStatesOf("running") = {"running"}
  /\ RunStatesOf("succeeded") = RunResult
  /\ RunStatesOf("failed") = {"failed"}
  /\ RunStatesOf("cancelled") = {"failed"}
  BY DEF RunStatesOf, Claimable

\* Submitting a run, or enqueuing another job, adds matching rows.
LEMMA SubmitTables ==
  ASSUME TablesInv, NEW j \in Job, Submit(j) \/ EnqueueOther(j)
  PROVE  TablesInv'
  <1>0. Enqueue(j, 0) /\ RowInv /\ RowTypeOK
    BY DEF Submit, EnqueueOther, TablesInv, RowInv
  <1>1. state[j] = "absent" /\ state'[j] = "queued"
    BY <1>0 DEF Enqueue, RowTypeOK
  <1>2. RowInv'
    <2>1. 0 \in Delay
      BY QueueAssumption DEF Delay
    <2> QED BY <1>0, <2>1, EnqueueRows
  <1>3. JobEvidence(j)'
    BY <1>0, <1>1, EnqueueEvidence, EvidenceUnlessCancelled DEF TablesInv
  <1>4. RunAgrees(j)' /\ runState' \in [Job -> RunState]
        /\ \A i \in Job \ {j} : runState'[i] = runState[i]
    <2>1. "queued" \in RunStatesOf("queued") /\ "queued" \in RunState
      BY DEF RunStatesOf, Claimable, RunState, OpenRun
    <2>2. CASE Submit(j)
      BY <1>1, <2>1, <2>2 DEF Submit, TablesInv, TypeOK, RunAgrees
    <2>3. CASE EnqueueOther(j)
      BY <2>3 DEF EnqueueOther, TablesInv, TypeOK, RunMatchesJob, RunAgrees
    <2> QED BY <2>2, <2>3
  <1>5. \A i \in Job \ {j} : LeavesAlone(i)
    BY <1>0 DEF Enqueue, RowTypeOK, LeavesAlone
  <1> QED BY <1>2, <1>3, <1>4, <1>5, OneJobUpdate

\* The API's cancel closes the run with the job and leaves at most the row of
\* the running attempt open.
LEMMA CancelTables ==
  ASSUME TablesInv, NEW j \in Job, CancelRun(j)
  PROVE  TablesInv'
  <1>0. RowInv /\ RowTypeOK
    BY DEF TablesInv, RowInv
  <1>1. /\ state'[j] = "cancelled" /\ attemptCount' = attemptCount
        /\ attemptOutcome' = attemptOutcome
    BY <1>0 DEF CancelRun, Release, RowTypeOK
  <1>2. RowInv'
    BY <1>0, <1>1, CancelRows DEF CancelRun, RowTypeOK
  <1>3. JobEvidence(j)' \/ CancelledInFlight(j)'
    <2>1. CASE state[j] = "cancelled"
      BY <1>1, <2>1 DEF TablesInv, AttemptsMatchJob, JobEvidence, CancelledInFlight
    <2>2. CASE state[j] = "running"
      <3>1. JobEvidence(j)
        BY <2>2, EvidenceUnlessCancelled DEF TablesInv
      <3> QED BY <1>1, <2>2, <3>1 DEF JobEvidence, CancelledInFlight
    <2>3. CASE state[j] \in Claimable
      <3>1. JobEvidence(j) /\ attemptCount[j] \in 0..AttemptLimit
        BY <1>0, <2>3, EvidenceUnlessCancelled DEF TablesInv, Claimable, RowTypeOK
      <3> QED BY <1>1, <2>3, <3>1, EvidenceOfCancel DEF JobEvidence
    <2> QED BY <2>1, <2>2, <2>3 DEF CancelRun
  <1>4. RunAgrees(j)' /\ runState' \in [Job -> RunState]
        /\ \A i \in Job \ {j} : runState'[i] = runState[i]
    <2>1. runState[j] \in {"queued", "running", "failed"}
      BY RunStates DEF CancelRun, TablesInv, RunMatchesJob, RunAgrees
    <2>2. FailedRun(runState[j], "failed") = "failed"
      BY <2>1 DEF FailedRun, OpenRun
    <2>3. runState' = [runState EXCEPT ![j] = "failed"] /\ j \in ScenarioJob
      BY <2>2 DEF CancelRun
    <2> QED BY <1>1, <2>3, RunStates DEF TablesInv, TypeOK, RunAgrees, RunState
  <1>5. \A i \in Job \ {j} : LeavesAlone(i)
    BY <1>0 DEF CancelRun, Release, RowTypeOK, LeavesAlone
  <1> QED BY <1>2, <1>3, <1>4, <1>5, OneJobUpdate

\* The run of a running job that fails or expires follows the job.
LEMMA FailedRunAgrees ==
  ASSUME NEW j \in Job, RunAgrees(j), state[j] = "running",
         NEW to \in {"retryable_failed", "failed"}, state'[j] = to,
         runState'[j] = FailedRun(runState[j], to)
  PROVE  RunAgrees(j)'
  <1>1. CASE j \in ScenarioJob
    <2>1. runState[j] = "running"
      BY <1>1, RunStates DEF RunAgrees
    <2>2. to = "failed" => runState'[j] = "failed"
      BY <2>1 DEF FailedRun, OpenRun
    <2>3. to = "retryable_failed" => runState'[j] = "queued"
      BY <2>1 DEF FailedRun, OpenRun
    <2> QED BY <1>1, <2>2, <2>3, RunStates DEF RunAgrees, Claimable
  <1>2. CASE j \notin ScenarioJob
    <2>1. runState[j] = "none"
      BY <1>2 DEF RunAgrees
    <2>2. runState'[j] = "none"
      BY <2>1 DEF FailedRun, OpenRun
    <2> QED BY <1>2, <2>2 DEF RunAgrees
  <1> QED BY <1>1, <1>2

\* Recovery closes or requeues the run of every expired job.
LEMMA RecoverTables ==
  ASSUME TablesInv, RecoverExpired
  PROVE  TablesInv'
  <1>0. RowInv /\ RowTypeOK /\ AttemptBudget
    BY DEF TablesInv, RowInv
  <1>1. RowInv'
    BY <1>0, RecoverRows
  <1>2. runState' \in [Job -> RunState]
    BY FailedRunType DEF RecoverExpired, TablesInv, TypeOK
  <1>3. ASSUME NEW j \in Job
        PROVE  (JobEvidence(j)' \/ CancelledInFlight(j)') /\ RunAgrees(j)'
    <2>1. CASE Expired(j)
      <3>1. JobEvidence(j)'
        BY <1>0, <2>1, RecoverEvidence, EvidenceUnlessCancelled DEF TablesInv, Expired
      <3>2. FailedState(j, TRUE) \in {"retryable_failed", "failed"}
        BY <1>0, FailedStateFacts
      <3>3. /\ state[j] = "running" /\ state'[j] = FailedState(j, TRUE)
            /\ runState'[j] = FailedRun(runState[j], FailedState(j, TRUE))
        BY <2>1 DEF RecoverExpired, Expired
      <3>4. RunAgrees(j)'
        BY <3>2, <3>3, FailedRunAgrees DEF TablesInv, RunMatchesJob
      <3> QED BY <3>1, <3>4
    <2>2. CASE ~ Expired(j)
      <3>1. LeavesAlone(j) /\ runState'[j] = runState[j]
        BY <1>0, <2>2, UnexpiredLeftAlone DEF RecoverExpired
      <3> QED BY <3>1 DEF TablesInv, AttemptsMatchJob, RunMatchesJob, RunAgrees,
                          JobEvidence, CancelledInFlight, LeavesAlone
    <2> QED BY <2>1, <2>2
  <1> QED BY <1>1, <1>2, <1>3
          DEF TablesInv, RowInv, TypeOK, AttemptsMatchJob, RunMatchesJob

\* Claiming a job starts its run.
LEMMA ClaimTables ==
  ASSUME TablesInv, NEW w \in Worker, NEW j \in Job, ClaimJob(w, j)
  PROVE  TablesInv'
  <1>0. RowInv /\ RowTypeOK /\ Claim(j, IdOf[w], MaxLease)
    BY DEF TablesInv, RowInv, ClaimJob
  <1>1. state[j] \in Claimable /\ state'[j] = "running"
    BY <1>0 DEF Claim, RowTypeOK
  <1>2. RowInv'
    <2>1. IdOf[w] \in WorkerId /\ MaxLease \in Lease
      BY WorkerAssumption, QueueAssumption DEF Lease
    <2> QED BY <1>0, <2>1, ClaimRows
  <1>3. JobEvidence(j)'
    BY <1>0, <1>1, ClaimEvidence, EvidenceUnlessCancelled DEF TablesInv, Claimable
  <1>4. RunAgrees(j)' /\ runState' \in [Job -> RunState]
        /\ \A i \in Job \ {j} : runState'[i] = runState[i]
    <2>1. runState[j] = IF j \in ScenarioJob THEN "queued" ELSE "none"
      BY <1>1, RunStates DEF TablesInv, RunMatchesJob, RunAgrees
    <2>2. ClaimedRun(runState[j]) = IF j \in ScenarioJob THEN "running" ELSE "none"
      BY <2>1 DEF ClaimedRun
    <2>3. runState'[j] = IF j \in ScenarioJob THEN "running" ELSE "none"
      BY <2>2 DEF ClaimJob, TablesInv, TypeOK
    <2>4. RunAgrees(j)'
      BY <1>1, <2>3, RunStates DEF RunAgrees
    <2>5. {"running", "none"} \subseteq RunState
      BY DEF RunState, OpenRun
    <2> QED BY <2>2, <2>4, <2>5 DEF ClaimJob, TablesInv, TypeOK
  <1>5. \A i \in Job \ {j} : LeavesAlone(i)
    BY <1>0 DEF Claim, RowTypeOK, LeavesAlone
  <1> QED BY <1>2, <1>3, <1>4, <1>5, OneJobUpdate

\* Steps that touch neither states nor evidence nor runs.
LEMMA QuietTables ==
  ASSUME TablesInv, RowInv', \A j \in Job : LeavesAlone(j), UNCHANGED runState
  PROVE  TablesInv'
  BY DEF TablesInv, RowInv, TypeOK, AttemptsMatchJob, RunMatchesJob, RunAgrees, JobEvidence,
         CancelledInFlight, LeavesAlone

\* Renewing a lease and the passing of time are quiet.
LEMMA RenewTables ==
  ASSUME TablesInv, NEW w \in Worker, task[w].job \in Job, RenewLease(w)
  PROVE  TablesInv'
  <1>1. RowInv'
    <2>1. MaxLease \in Lease
      BY QueueAssumption DEF Lease
    <2> QED BY <2>1, RenewRows DEF RenewLease, TablesInv
  <1>2. \A j \in Job : LeavesAlone(j)
    BY DEF RenewLease, Renew, LeavesAlone
  <1> QED BY <1>1, <1>2, QuietTables DEF RenewLease

\* The clock is quiet.
LEMMA TickTables ==
  ASSUME TablesInv, Tick
  PROVE  TablesInv'
  <1>1. RowInv'
    BY TickRows DEF TablesInv
  <1>2. (\A j \in Job : LeavesAlone(j)) /\ UNCHANGED runState
    BY DEF Tick, LeavesAlone
  <1> QED BY <1>1, <1>2, QuietTables

\* A completed job and its run end together.
LEMMA CompleteTables ==
  ASSUME TablesInv, NEW w \in Worker, task[w].job \in Job, CompleteTask(w)
  PROVE  TablesInv'
  <1>j. PICK j \in Job : j = task[w].job
    OBVIOUS
  <1>0. RowInv /\ RowTypeOK /\ Complete(j, IdOf[w], task[w].attempt)
    BY <1>j DEF TablesInv, RowInv, CompleteTask
  <1>1. state[j] = "running" /\ state'[j] = "succeeded"
    BY <1>0 DEF Complete, HoldsLease, Release, RowTypeOK
  <1>2. RowInv'
    BY <1>0, CompleteRows
  <1>3. JobEvidence(j)'
    BY <1>0, <1>1, CompleteEvidence, EvidenceUnlessCancelled DEF TablesInv
  <1>4. RunAgrees(j)' /\ runState' \in [Job -> RunState]
        /\ \A i \in Job \ {j} : runState'[i] = runState[i]
    <2>1. runState[j] # "none"
      BY <1>j DEF CompleteTask, OpenRun
    <2>2. j \in ScenarioJob
      BY <2>1 DEF TablesInv, RunMatchesJob, RunAgrees
    <2>3. runState' = [runState EXCEPT ![j] = verdict[w]] /\ verdict[w] \in RunResult
      BY <1>j DEF CompleteTask
    <2>4. RunResult \subseteq RunState
      BY DEF RunState
    <2>5. runState' \in [Job -> RunState] /\ runState'[j] \in RunResult
          /\ \A i \in Job \ {j} : runState'[i] = runState[i]
      BY <2>3, <2>4 DEF TablesInv, TypeOK
    <2> QED BY <1>1, <2>2, <2>5, RunStates DEF RunAgrees
  <1>5. \A i \in Job \ {j} : LeavesAlone(i)
    BY <1>0 DEF Complete, Release, FinishAttempt, RowTypeOK, LeavesAlone
  <1> QED BY <1>2, <1>3, <1>4, <1>5, OneJobUpdate

\* A failed job takes its run along, to be claimed again or to its end.
LEMMA FailTables ==
  ASSUME TablesInv, NEW w \in Worker, task[w].job \in Job, FailTask(w)
  PROVE  TablesInv'
  <1>j. PICK j \in Job : j = task[w].job
    OBVIOUS
  <1>r. PICK retryable \in BOOLEAN : retryable = (verdict[w] = "transient")
    OBVIOUS
  <1>t. PICK to : to = FailedState(j, retryable)
    OBVIOUS
  <1>0. /\ RowInv /\ RowTypeOK /\ AttemptBudget
        /\ Fail(j, IdOf[w], task[w].attempt, retryable, 0)
    BY <1>j, <1>r DEF TablesInv, RowInv, FailTask
  <1>1. state[j] = "running" /\ state'[j] = to
    BY <1>0, <1>t DEF Fail, HoldsLease, Release, RowTypeOK
  <1>2. to \in {"retryable_failed", "failed"}
    BY <1>0, <1>t, FailedStateFacts
  <1>3. RowInv'
    <2>1. 0 \in Delay
      BY QueueAssumption DEF Delay
    <2> QED BY <1>0, <2>1, FailRows
  <1>4. JobEvidence(j)'
    BY <1>0, <1>1, FailEvidence, EvidenceUnlessCancelled DEF TablesInv
  <1>5. runState' = [runState EXCEPT ![j] = FailedRun(runState[j], to)]
    BY <1>j, <1>r, <1>t DEF FailTask
  <1>6. runState' \in [Job -> RunState] /\ \A i \in Job \ {j} : runState'[i] = runState[i]
    BY <1>5, FailedRunType DEF TablesInv, TypeOK
  <1>7. RunAgrees(j)'
    <2>1. runState'[j] = FailedRun(runState[j], to) /\ RunAgrees(j)
      BY <1>5 DEF TablesInv, TypeOK, RunMatchesJob
    <2> QED BY <1>1, <1>2, <2>1, FailedRunAgrees
  <1>8. \A i \in Job \ {j} : LeavesAlone(i)
    BY <1>0 DEF Fail, Release, FinishAttempt, RowTypeOK, LeavesAlone
  <1> QED BY <1>3, <1>4, <1>6, <1>7, <1>8, OneJobUpdate

-----------------------------------------------------------------------------
(* The processes.                                                          *)

\* NoTask is a task in type, though not in meaning.
LEMMA NoTaskType == NoTask \in [job : Job \cup {NoJob}, attempt : 0..AttemptLimit]
  BY QueueAssumption DEF NoTask

\* A process that goes back to the loop no longer counts.
LEMMA LoopKeeps ==
  ASSUME WorkerTypeOK, ClaimsDistinct, TypeOK', UNCHANGED attemptCount,
         NEW w \in Worker, BackToLoop(w)
  PROVE  WorkerTypeOK' /\ ClaimsDistinct'
  <1>1. ~ Busy(w)'
    BY DEF BackToLoop, Busy, WorkerTypeOK
  <1>2. \A v \in Worker \ {w} :
           /\ phase'[v] = phase[v] /\ task'[v] = task[v] /\ verdict'[v] = verdict[v]
           /\ Busy(v)' <=> Busy(v)
    BY DEF BackToLoop, Busy, WorkerTypeOK
  <1>3. WorkerTypeOK'
    <2>1. /\ phase' \in [Worker -> Phase]
          /\ task' \in [Worker -> [job : Job \cup {NoJob}, attempt : 0..AttemptLimit]]
          /\ leaseLost' \in [Worker -> BOOLEAN]
          /\ verdict' \in [Worker -> Verdict \cup {"none"}]
      BY NoTaskType DEF BackToLoop, WorkerTypeOK, Phase
    <2>2. TaskOK(w)'
      BY <1>1 DEF TaskOK, BackToLoop, WorkerTypeOK
    <2>3. \A v \in Worker \ {w} : TaskOK(v)'
      BY <1>2 DEF WorkerTypeOK, TaskOK, VerdictsOn
    <2> QED BY <2>1, <2>2, <2>3 DEF WorkerTypeOK
  <1>4. ClaimsDistinct'
    BY <1>1, <1>2 DEF ClaimsDistinct
  <1> QED BY <1>3, <1>4

\* A claim is numbered above all claims of the job that are in other hands.
LEMMA ClaimKeeps ==
  ASSUME WorkerInv, TypeOK', NEW w \in Worker, NEW j \in Job, ClaimJob(w, j)
  PROVE  WorkerTypeOK' /\ ClaimsDistinct'
  <1> DEFINE new == [job |-> j, attempt |-> attemptCount[j] + 1]
  <1>0. WorkerTypeOK /\ ClaimsDistinct /\ RowInv /\ RowTypeOK
    BY DEF WorkerInv, TablesInv, RowInv
  <1>1. attemptCount[j] + 1 \in Attempt /\ attemptCount[j] \in Nat
    BY <1>0, NextAttempt DEF ClaimJob, Claim, RowTypeOK
  <1>2. /\ phase' = [phase EXCEPT ![w] = "run"]
        /\ task' = [task EXCEPT ![w] = new]
        /\ leaseLost' = leaseLost /\ verdict' = verdict
        /\ attemptCount' = [attemptCount EXCEPT ![j] = @ + 1]
        /\ ~ Busy(w)
    BY DEF ClaimJob, Claim, Busy
  <1>3. new \in [job : Job \cup {NoJob}, attempt : 0..AttemptLimit]
    BY <1>1 DEF Attempt
  <1>4. \A v \in Worker \ {w} :
           /\ phase'[v] = phase[v] /\ task'[v] = task[v] /\ verdict'[v] = verdict[v]
           /\ Busy(v)' <=> Busy(v)
    BY <1>0, <1>2 DEF Busy, WorkerTypeOK
  <1>5. phase'[w] = "run" /\ task'[w] = new /\ verdict'[w] = "none"
    BY <1>0, <1>2 DEF WorkerTypeOK, TaskOK, Busy
  <1>6. WorkerTypeOK'
    <2>1. /\ phase' \in [Worker -> Phase]
          /\ task' \in [Worker -> [job : Job \cup {NoJob}, attempt : 0..AttemptLimit]]
          /\ leaseLost' \in [Worker -> BOOLEAN]
          /\ verdict' \in [Worker -> Verdict \cup {"none"}]
      BY <1>0, <1>2, <1>3 DEF WorkerTypeOK, Phase
    <2>2. TaskOK(w)'
      BY <1>5 DEF TaskOK
    <2>3. \A v \in Worker \ {w} : TaskOK(v)'
      BY <1>0, <1>4 DEF WorkerTypeOK, TaskOK, VerdictsOn
    <2> QED BY <2>1, <2>2, <2>3 DEF WorkerTypeOK
  <1>7. ASSUME NEW v \in Worker \ {w}, Busy(v)
        PROVE  /\ task[v].attempt <= attemptCount'[task[v].job]
               /\ task[v] # new
    <2>1. /\ task[v].attempt \in Nat /\ task[v].job \in Job
          /\ task[v].attempt <= attemptCount[task[v].job]
          /\ attemptCount[task[v].job] \in Nat
      BY <1>0, <1>7 DEF WorkerTypeOK, TaskOK, ClaimsDistinct, RowTypeOK
    <2>2. attemptCount[task[v].job] <= attemptCount'[task[v].job]
      BY <1>0, <1>2, <2>1 DEF RowTypeOK
    <2>3. attemptCount'[task[v].job] \in Nat
      BY <1>0, <1>2, <2>1 DEF RowTypeOK
    <2>4. task[v].job = j => task[v].attempt # attemptCount[j] + 1
      BY <1>1, <2>1
    <2> QED BY <2>1, <2>2, <2>3, <2>4
  <1>8. ClaimsDistinct'
    <2>1. attemptCount'[j] = attemptCount[j] + 1
      BY <1>0, <1>2 DEF RowTypeOK
    <2>2. new.attempt <= attemptCount'[new.job]
      BY <1>1, <2>1
    <2>3. \A v \in Worker : Busy(v)' => task'[v].attempt <= attemptCount'[task'[v].job]
      BY <1>4, <1>5, <1>7, <2>2
    <2>4. \A v, u \in Worker : Busy(v)' /\ Busy(u)' /\ task'[v] = task'[u] => v = u
      BY <1>0, <1>4, <1>5, <1>7 DEF ClaimsDistinct
    <2> QED BY <2>3, <2>4 DEF ClaimsDistinct
  <1> QED BY <1>6, <1>8

\* A step of the API or of the clock keeps what the processes hold.
LEMMA IdleKeeps ==
  ASSUME WorkerTypeOK, ClaimsDistinct, TypeOK', UNCHANGED workerVars,
         \A j \in Job : attemptCount'[j] = attemptCount[j]
  PROVE  WorkerTypeOK' /\ ClaimsDistinct'
  <1>1. WorkerTypeOK'
    BY DEF WorkerTypeOK, workerVars, TaskOK, Busy, VerdictsOn
  <1>2. ClaimsDistinct'
    BY DEF ClaimsDistinct, workerVars, Busy, WorkerTypeOK, TaskOK
  <1> QED BY <1>1, <1>2

\* Moving on within the loop keeps the claims.
LEMMA PhaseKeeps ==
  ASSUME WorkerTypeOK, ClaimsDistinct, TypeOK', UNCHANGED <<attemptCount, task>>,
         NEW w \in Worker,
         \/ ~ Busy(w) /\ (\E p \in {"recover", "claim"} : phase' = [phase EXCEPT ![w] = p])
            /\ UNCHANGED <<leaseLost, verdict>>
         \/ phase[w] = "run" /\ UNCHANGED <<phase, verdict>>
            /\ leaseLost' = [leaseLost EXCEPT ![w] = TRUE]
         \/ \E v \in Verdict : HandlerDone(w, v)
  PROVE  WorkerTypeOK' /\ ClaimsDistinct'
  <1>1. \A v \in Worker : Busy(v)' <=> Busy(v)
    BY DEF WorkerTypeOK, Busy, HandlerDone
  <1>2. /\ phase' \in [Worker -> Phase]
        /\ leaseLost' \in [Worker -> BOOLEAN]
        /\ verdict' \in [Worker -> Verdict \cup {"none"}]
    BY DEF WorkerTypeOK, Phase, HandlerDone
  <1>3. \A v \in Worker : TaskOK(v)'
    BY <1>1 DEF WorkerTypeOK, TaskOK, HandlerDone, VerdictsOn, Busy
  <1>4. WorkerTypeOK'
    BY <1>2, <1>3 DEF WorkerTypeOK
  <1>5. ClaimsDistinct'
    BY <1>1 DEF ClaimsDistinct
  <1> QED BY <1>4, <1>5

-----------------------------------------------------------------------------
(* The invariant.                                                          *)

\* The invariant holds before anything is submitted.
LEMMA WorkerInitEstablishes == WorkerInit => WorkerInv
  <1> SUFFICES ASSUME WorkerInit PROVE WorkerInv
    OBVIOUS
  <1>1. QueueInv
    BY InitEstablishes DEF WorkerInit
  <1>2. AttemptsMatchJob
    BY <1>1 DEF QueueInv, EvidenceMatchesJob, AttemptsMatchJob
  <1>3. RunMatchesJob
    BY RunStates DEF WorkerInit, Init, RunMatchesJob, RunAgrees
  <1>4. WorkerTypeOK
    BY <1>1, NoTaskType DEF WorkerInit, QueueInv, WorkerTypeOK, TaskOK, Busy, Phase
  <1>5. ClaimsDistinct
    BY DEF WorkerInit, ClaimsDistinct, Busy
  <1> QED BY <1>1, <1>2, <1>3, <1>4, <1>5 DEF QueueInv, WorkerInv, TablesInv

\* A step of a process that does not write keeps the tables.
LEMMA UnwrittenTables ==
  ASSUME TablesInv, UNCHANGED queueVars
  PROVE  TablesInv' /\ UNCHANGED attemptCount
  BY DEF TablesInv, queueVars, RowInv, TypeOK, RowTypeOK, AttemptBudget,
         LeaseMatchesAttempt, ResultOfLatestAttempt, AttemptsMatchJob, CancelledInFlight,
         JobEvidence, RunMatchesJob, RunAgrees

\* Every step of a process keeps the invariant.
LEMMA StepPreserves ==
  ASSUME WorkerInv, NEW w \in Worker, WorkerStep(w)
  PROVE  WorkerInv'
  <1>0. TablesInv /\ WorkerTypeOK /\ ClaimsDistinct
    BY DEF WorkerInv
  <1>j. Busy(w) => task[w].job \in Job
    BY <1>0 DEF WorkerTypeOK, TaskOK
  <1>t. TablesInv' => TypeOK'
    BY DEF TablesInv
  <1>1. CASE Recover(w)
    <2>1. TablesInv' /\ UNCHANGED <<attemptCount, task>>
      BY <1>0, <1>1, RecoverTables DEF Recover, RecoverExpired
    <2>2. WorkerTypeOK' /\ ClaimsDistinct'
      BY <1>0, <1>1, <1>t, <2>1, PhaseKeeps DEF Recover, Busy
    <2> QED BY <2>1, <2>2 DEF WorkerInv
  <1>2. ASSUME NEW j \in Job, ClaimJob(w, j) PROVE WorkerInv'
    BY <1>0, <1>2, <1>t, ClaimTables, ClaimKeeps DEF WorkerInv
  <1>3. CASE ClaimNothing(w)
    <2>1. TablesInv' /\ UNCHANGED <<attemptCount, task>>
      BY <1>0, <1>3, UnwrittenTables DEF ClaimNothing
    <2>2. WorkerTypeOK' /\ ClaimsDistinct'
      BY <1>0, <1>3, <1>t, <2>1, PhaseKeeps DEF ClaimNothing, Busy
    <2> QED BY <2>1, <2>2 DEF WorkerInv
  <1>4. CASE RenewLease(w)
    <2>1. TablesInv' /\ UNCHANGED <<attemptCount, workerVars>>
      BY <1>0, <1>4, <1>j, RenewTables DEF RenewLease, Renew, Busy
    <2> QED BY <1>0, <1>t, <2>1, IdleKeeps DEF WorkerInv
  <1>5. CASE LoseLease(w)
    <2>1. TablesInv' /\ UNCHANGED <<attemptCount, task>>
      BY <1>0, <1>5, UnwrittenTables DEF LoseLease
    <2>2. WorkerTypeOK' /\ ClaimsDistinct'
      BY <1>0, <1>5, <1>t, <2>1, PhaseKeeps DEF LoseLease
    <2> QED BY <2>1, <2>2 DEF WorkerInv
  <1>6. CASE HandlerEnds(w)
    <2>1. TablesInv' /\ UNCHANGED <<attemptCount, task>>
      BY <1>0, <1>6, UnwrittenTables DEF HandlerEnds, HandlerDone
    <2>2. WorkerTypeOK' /\ ClaimsDistinct'
      BY <1>0, <1>6, <1>t, <2>1, PhaseKeeps DEF HandlerEnds
    <2> QED BY <2>1, <2>2 DEF WorkerInv
  <1>7. CASE DropTask(w) \/ StaleTask(w) \/ PersistFails(w) \/ Abandon(w)
    <2>1. UNCHANGED queueVars /\ BackToLoop(w)
      BY <1>7 DEF DropTask, StaleTask, PersistFails, Abandon
    <2>2. TablesInv' /\ UNCHANGED attemptCount
      BY <1>0, <2>1, UnwrittenTables
    <2> QED BY <1>0, <1>t, <2>1, <2>2, LoopKeeps DEF WorkerInv
  <1>8. CASE CompleteTask(w)
    <2>1. TablesInv' /\ UNCHANGED attemptCount /\ BackToLoop(w)
      BY <1>0, <1>8, <1>j, CompleteTables DEF CompleteTask, Complete, Busy
    <2> QED BY <1>0, <1>t, <2>1, LoopKeeps DEF WorkerInv
  <1>9. CASE FailTask(w)
    <2>1. TablesInv' /\ UNCHANGED attemptCount /\ BackToLoop(w)
      BY <1>0, <1>9, <1>j, FailTables DEF FailTask, Fail, Busy
    <2> QED BY <1>0, <1>t, <2>1, LoopKeeps DEF WorkerInv
  <1> QED BY <1>1, <1>2, <1>3, <1>4, <1>5, <1>6, <1>7, <1>8, <1>9
          DEF WorkerStep, ClaimSome, FinishTask

\* Every step of the system keeps the invariant.
LEMMA WorkerNextPreserves == WorkerInv /\ [WorkerNext]_allVars => WorkerInv'
  <1> SUFFICES ASSUME WorkerInv, [WorkerNext]_allVars PROVE WorkerInv'
    OBVIOUS
  <1>0. TablesInv /\ WorkerTypeOK /\ ClaimsDistinct /\ RowTypeOK
    BY DEF WorkerInv, TablesInv, RowInv
  <1>t. TablesInv' => TypeOK'
    BY DEF TablesInv
  <1>1. ASSUME NEW j \in Job, APICall(j) PROVE WorkerInv'
    <2>1. TablesInv'
      BY <1>0, <1>1, SubmitTables, CancelTables DEF APICall
    <2>2. UNCHANGED <<attemptCount, workerVars>>
      BY <1>1 DEF APICall, Submit, EnqueueOther, CancelRun, Enqueue
    <2> QED BY <1>0, <1>t, <2>1, <2>2, IdleKeeps DEF WorkerInv
  <1>2. ASSUME NEW w \in Worker, WorkerStep(w) PROVE WorkerInv'
    BY <1>2, StepPreserves
  <1>3. CASE Tick /\ UNCHANGED workerVars
    <2>1. TablesInv' /\ UNCHANGED attemptCount
      BY <1>0, <1>3, TickTables DEF Tick
    <2> QED BY <1>0, <1>3, <1>t, <2>1, IdleKeeps DEF WorkerInv
  <1>4. CASE UNCHANGED allVars
    <2>1. TablesInv' /\ UNCHANGED <<attemptCount, workerVars>>
      BY <1>0, <1>4, UnwrittenTables DEF allVars
    <2> QED BY <1>0, <1>t, <2>1, IdleKeeps DEF WorkerInv
  <1> QED BY <1>1, <1>2, <1>3, <1>4 DEF WorkerNext

\* In every behaviour of API, workers and clock the invariant holds.
THEOREM WorkerInvariance == WorkerSpec => []WorkerInv
  BY WorkerInitEstablishes, WorkerNextPreserves, PTL DEF WorkerSpec

\* In every behaviour the columns and the processes keep their types.
THEOREM WorkerTypeCorrect == WorkerSpec => []WorkerTypeOK
  <1>1. WorkerInv => WorkerTypeOK
    BY DEF WorkerInv
  <1> QED BY WorkerInvariance, <1>1, PTL

\* A scenario run always agrees with its job, through claims, retries, crashes,
\* recoveries and cancels.
THEOREM RunAgreement == WorkerSpec => []RunMatchesJob
  <1>1. WorkerInv => RunMatchesJob
    BY DEF WorkerInv, TablesInv
  <1> QED BY WorkerInvariance, <1>1, PTL

\* What the queue promises about budget, lease and result of a job holds under the
\* API's cancel and the Python processes, too.
THEOREM WorkerRowsHold ==
  WorkerSpec => [](AttemptBudget /\ LeaseMatchesAttempt /\ ResultOfLatestAttempt)
  <1>1. WorkerInv => AttemptBudget /\ LeaseMatchesAttempt /\ ResultOfLatestAttempt
    BY DEF WorkerInv, TablesInv, RowInv
  <1> QED BY WorkerInvariance, <1>1, PTL

\* The attempt rows always tell the job's story, but for an attempt that was
\* cancelled in flight.
THEOREM AttemptsHold == WorkerSpec => []AttemptsMatchJob
  <1>1. WorkerInv => AttemptsMatchJob
    BY DEF WorkerInv, TablesInv
  <1> QED BY WorkerInvariance, <1>1, PTL

\* At most one process can write a job, however many share a worker_id.
THEOREM OwnershipIsExclusive == WorkerSpec => []OneOwner
  <1>1. WorkerInv => OneOwner
    <2> SUFFICES ASSUME WorkerInv, NEW v \in Worker, NEW w \in Worker,
                        Busy(v), Owns(v), Busy(w), Owns(w), task[v].job = task[w].job
                 PROVE  v = w
      BY DEF OneOwner
    <2>1. task[v].attempt = task[w].attempt
      BY DEF Owns, HoldsLease
    <2>2. /\ task[v] \in [job : Job \cup {NoJob}, attempt : 0..AttemptLimit]
          /\ task[w] \in [job : Job \cup {NoJob}, attempt : 0..AttemptLimit]
      BY DEF WorkerInv, WorkerTypeOK
    <2>3. task[v] = task[w]
      BY <2>1, <2>2
    <2> QED BY <2>3 DEF WorkerInv, ClaimsDistinct
  <1> QED BY WorkerInvariance, <1>1, PTL

-----------------------------------------------------------------------------
(* What a step may never do.                                               *)

\* A step of the system leaves a finished job and its run alone.
LEMMA EndedLeftAlone ==
  ASSUME WorkerInv, [WorkerNext]_allVars, NEW j \in Job, state[j] \in Terminal
  PROVE  LeavesAlone(j) /\ runState'[j] = runState[j]
  <1>0. RowTypeOK /\ TypeOK /\ AttemptsMatchJob /\ RunMatchesJob
    BY DEF WorkerInv, TablesInv, RowInv
  <1>1. state[j] \notin Claimable \cup {"absent", "running"}
    BY DEF Terminal, Claimable
  <1>2. ASSUME NEW i \in Job, APICall(i) PROVE LeavesAlone(j) /\ runState'[j] = runState[j]
    <2>1. CASE Submit(i) \/ EnqueueOther(i)
      BY <1>0, <1>1, <2>1 DEF Submit, EnqueueOther, Enqueue, RowTypeOK, TypeOK, LeavesAlone
    <2>2. CASE CancelRun(i) /\ i # j
      BY <1>0, <2>2 DEF CancelRun, Release, RowTypeOK, TypeOK, LeavesAlone
    <2>3. CASE CancelRun(i) /\ i = j
      <3>1. state[j] = "cancelled" /\ j \in ScenarioJob
        BY <1>1, <2>3 DEF CancelRun
      <3>2. runState[j] = "failed"
        BY <1>0, <3>1, RunStates DEF RunMatchesJob, RunAgrees
      <3>3. FailedRun(runState[j], "failed") = runState[j]
        BY <3>2 DEF FailedRun
      <3>4. LeavesAlone(j)
        BY <1>0, <2>3, <3>1 DEF CancelRun, Release, RowTypeOK, LeavesAlone
      <3> QED BY <1>0, <2>3, <3>3, <3>4 DEF CancelRun, TypeOK
    <2> QED BY <1>2, <2>1, <2>2, <2>3 DEF APICall
  <1>3. ASSUME NEW w \in Worker, WorkerStep(w) PROVE LeavesAlone(j) /\ runState'[j] = runState[j]
    <2>j. Busy(w) => task[w].job \in Job
      BY DEF WorkerInv, WorkerTypeOK, TaskOK
    <2>1. CASE Recover(w)
      <3>1. ~ Expired(j) /\ RecoverExpired
        BY <1>1, <2>1 DEF Expired, Recover
      <3> QED BY <1>0, <3>1, UnexpiredLeftAlone DEF RecoverExpired
    <2>2. ASSUME NEW i \in Job, ClaimJob(w, i) PROVE LeavesAlone(j) /\ runState'[j] = runState[j]
      BY <1>0, <1>1, <2>2 DEF ClaimJob, Claim, RowTypeOK, TypeOK, LeavesAlone
    <2>3. CASE RenewLease(w)
      BY <2>3 DEF RenewLease, Renew, LeavesAlone
    <2>4. CASE CompleteTask(w)
      BY <1>0, <1>1, <2>j, <2>4
      DEF CompleteTask, Complete, HoldsLease, Release, FinishAttempt, RowTypeOK, TypeOK,
          LeavesAlone, Busy
    <2>5. CASE FailTask(w)
      BY <1>0, <1>1, <2>j, <2>5
      DEF FailTask, Fail, HoldsLease, Release, FinishAttempt, RowTypeOK, TypeOK,
          LeavesAlone, Busy
    <2>6. CASE UNCHANGED queueVars
      BY <2>6 DEF queueVars, LeavesAlone
    <2> QED BY <1>3, <2>1, <2>2, <2>3, <2>4, <2>5, <2>6
            DEF WorkerStep, ClaimSome, FinishTask, HandlerEnds, ClaimNothing, LoseLease,
                HandlerDone, DropTask, StaleTask, PersistFails, Abandon
  <1>4. CASE Tick
    BY <1>4 DEF Tick, LeavesAlone
  <1>5. CASE UNCHANGED allVars
    BY <1>5 DEF allVars, queueVars, LeavesAlone
  <1> QED BY <1>2, <1>3, <1>4, <1>5 DEF WorkerNext

\* However late a worker or a cancel arrives, a finished job keeps its state,
\* attempts, result and history.
THEOREM WorkerFinality == WorkerSpec => TerminalIsFinal
  <1>1. WorkerInv /\ [WorkerNext]_allVars =>
           [\A j \in Job : state[j] \in Terminal => LeavesAlone(j)]_queueVars
    BY EndedLeftAlone
  <1> QED BY WorkerInvariance, <1>1, PTL DEF WorkerSpec, TerminalIsFinal

\* A finished run is never written again.
THEOREM RunFinality == WorkerSpec => FinishedRunIsFinal
  <1>1. WorkerInv /\ [WorkerNext]_allVars =>
           [\A j \in Job : runState[j] \in RunResult \cup {"failed"} =>
               runState'[j] = runState[j]]_allVars
    <2> SUFFICES ASSUME WorkerInv, [WorkerNext]_allVars,
                        NEW j \in Job, runState[j] \in RunResult \cup {"failed"}
                 PROVE  runState'[j] = runState[j]
      OBVIOUS
    <2>1. RunAgrees(j) /\ state[j] \in State
      BY DEF WorkerInv, TablesInv, RunMatchesJob, RowInv, RowTypeOK
    <2>2. state[j] \in Terminal
      BY <2>1, RunStates DEF RunAgrees, State, Claimable, RunResult
    <2> QED BY <2>2, EndedLeftAlone
  <1> QED BY WorkerInvariance, <1>1, PTL DEF WorkerSpec, FinishedRunIsFinal

-----------------------------------------------------------------------------
(* API, workers and clock together implement JobLifecycle.                 *)

\* A call of the API is a lifecycle step.
LEMMA APIMoves ==
  ASSUME WorkerInv, NEW i \in Job, APICall(i)
  PROVE  Lifecycle!LifecycleNext
  <1>0. RowInv /\ RowTypeOK /\ ResultOfLatestAttempt
    BY DEF WorkerInv, TablesInv, RowInv
  <1>1. CASE Submit(i) \/ EnqueueOther(i)
    <2>1. Enqueue(i, 0)
      BY <1>1 DEF Submit, EnqueueOther
    <2>2. Moves(i)
      BY <1>0, <2>1, RowEdges DEF Moves
    <2>3. \A j \in Job \ {i} : LeavesAlone(j)
      BY <1>0, <2>1 DEF Enqueue, RowTypeOK, LeavesAlone
    <2> QED BY <1>0, <2>2, <2>3, OneJobMoves
  <1>2. CASE CancelRun(i)
    <2>1. /\ state'[i] = "cancelled" /\ attemptCount' = attemptCount /\ resultOf' = resultOf
          /\ attemptOutcome' = attemptOutcome
      BY <1>0, <1>2 DEF CancelRun, Release, RowTypeOK
    <2>2. ASSUME state[i] = "cancelled" PROVE Moves(i)
      BY <1>0, <2>1, <2>2, LeftAloneStays DEF LeavesAlone, Moves
    <2>3. ASSUME state[i] \in Claimable \cup {"running"} PROVE Moves(i)
      <3>1. resultOf[i] = 0
        BY <1>0, <2>3 DEF ResultOfLatestAttempt, Claimable
      <3>2. Lifecycle!Abort(i)
        BY <2>1, <2>3, <3>1 DEF Lifecycle!Abort, Lifecycle!Move, LifecycleStatus, Claimable
      <3> QED BY <3>2 DEF Moves
    <2>4. Moves(i)
      BY <1>2, <2>2, <2>3 DEF CancelRun
    <2>5. \A j \in Job \ {i} : LeavesAlone(j)
      BY <1>0, <1>2 DEF CancelRun, Release, RowTypeOK, LeavesAlone
    <2> QED BY <1>0, <2>4, <2>5, OneJobMoves
  <1> QED BY <1>1, <1>2 DEF APICall

\* A step of a process is a lifecycle step or leaves every job alone.
LEMMA ProcessMoves ==
  ASSUME WorkerInv, NEW w \in Worker, WorkerStep(w)
  PROVE  Lifecycle!LifecycleNext \/ UNCHANGED Lifecycle!lifecycleVars
  <1>0. RowInv /\ RowTypeOK
    BY DEF WorkerInv, TablesInv, RowInv
  <1>j. Busy(w) => task[w].job \in Job
    BY DEF WorkerInv, WorkerTypeOK, TaskOK
  <1>1. CASE Recover(w)
    BY <1>0, <1>1, RecoveryMoves DEF Recover
  <1>2. ASSUME NEW i \in Job, ClaimJob(w, i) PROVE Lifecycle!LifecycleNext
    <2>1. Claim(i, IdOf[w], MaxLease)
      BY <1>2 DEF ClaimJob
    <2>2. Moves(i)
      BY <1>0, <2>1, RowEdges DEF Moves
    <2>3. \A j \in Job \ {i} : LeavesAlone(j)
      BY <1>0, <2>1 DEF Claim, RowTypeOK, LeavesAlone
    <2> QED BY <1>0, <2>2, <2>3, OneJobMoves
  <1>3. CASE CompleteTask(w)
    <2>1. PICK i \in Job : i = task[w].job
      BY <1>3, <1>j DEF CompleteTask, Busy
    <2>2. Complete(i, IdOf[w], task[w].attempt)
      BY <1>3, <2>1 DEF CompleteTask
    <2>3. Moves(i)
      BY <1>0, <2>2, RowEdges DEF Moves
    <2>4. \A j \in Job \ {i} : LeavesAlone(j)
      BY <1>0, <2>2 DEF Complete, Release, FinishAttempt, RowTypeOK, LeavesAlone
    <2> QED BY <1>0, <2>3, <2>4, OneJobMoves
  <1>4. CASE FailTask(w)
    <2>1. PICK i \in Job : i = task[w].job
      BY <1>4, <1>j DEF FailTask, Busy
    <2>2. PICK retryable : Fail(i, IdOf[w], task[w].attempt, retryable, 0)
      BY <1>4, <2>1 DEF FailTask
    <2>3. Moves(i)
      BY <1>0, <2>2, RowEdges DEF Moves
    <2>4. \A j \in Job \ {i} : LeavesAlone(j)
      BY <1>0, <2>2 DEF Fail, Release, FinishAttempt, RowTypeOK, LeavesAlone
    <2> QED BY <1>0, <2>3, <2>4, OneJobMoves
  <1>5. CASE RenewLease(w) \/ UNCHANGED queueVars
    BY <1>5 DEF RenewLease, Renew, queueVars, Lifecycle!lifecycleVars
  <1> QED BY <1>1, <1>2, <1>3, <1>4, <1>5
          DEF WorkerStep, ClaimSome, FinishTask, HandlerEnds, ClaimNothing, LoseLease,
              HandlerDone, DropTask, StaleTask, PersistFails, Abandon

\* The deployed pipeline keeps the lifecycle promise: attempts within budget,
\* one at a time, one end, and a result only from the latest attempt.
THEOREM WorkerRefinement == WorkerSpec => ImplementsLifecycle
  <1>1. WorkerInit => Lifecycle!LifecycleInit
    BY DEF WorkerInit, Init, Lifecycle!LifecycleInit, LifecycleStatus, Claimable
  <1>2. WorkerInv /\ [WorkerNext]_allVars =>
           [Lifecycle!LifecycleNext]_(Lifecycle!lifecycleVars)
    <2> SUFFICES ASSUME WorkerInv, [WorkerNext]_allVars
                 PROVE  Lifecycle!LifecycleNext \/ UNCHANGED Lifecycle!lifecycleVars
      OBVIOUS
    <2>1. CASE Tick \/ UNCHANGED allVars
      BY <2>1 DEF Tick, allVars, queueVars, Lifecycle!lifecycleVars
    <2> QED BY <2>1, APIMoves, ProcessMoves DEF WorkerNext
  <1> QED BY WorkerInvariance, <1>1, <1>2, PTL
          DEF WorkerSpec, ImplementsLifecycle, Lifecycle!LifecycleSpec
=============================================================================
