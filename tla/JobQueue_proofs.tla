--------------------------- MODULE JobQueue_proofs ---------------------------
(***************************************************************************)
(* Proofs about JobQueue, for any jobs, workers, budgets and leases.       *)
(*                                                                         *)
(* TypeOK is not inductive: Claim numbers the next attempt, which stays in *)
(* range only because a claimable job has budget left.  AttemptBudget, the *)
(* lease and the evidence are therefore carried along as one invariant.    *)
(***************************************************************************)
EXTENDS JobQueue, TLAPS

\* What every update of the two tables preserves by itself, whoever makes it.
RowInv ==
    /\ RowTypeOK
    /\ AttemptBudget
    /\ LeaseMatchesAttempt
    /\ ResultOfLatestAttempt

QueueInv == TypeOK /\ RowInv /\ EvidenceMatchesJob

-----------------------------------------------------------------------------
(* Facts about the operators.                                              *)

\* A failed attempt leaves a claimable job only while the budget lasts.
LEMMA FailedStateFacts ==
  ASSUME NEW j \in Job, NEW retryable, RowTypeOK, AttemptBudget
  PROVE  /\ FailedState(j, retryable) \in {"retryable_failed", "failed"}
         /\ FailedState(j, retryable) = "retryable_failed" =>
               attemptCount[j] < MaxAttempts[j]
  BY DEF FailedState

\* A failure keeps the run's column within its states.
LEMMA FailedRunType ==
  ASSUME NEW run \in RunState, NEW to
  PROVE  FailedRun(run, to) \in RunState
  BY DEF FailedRun, RunState, OpenRun

\* The evidence of a job that starts its next attempt.
LEMMA EvidenceOfClaim ==
  ASSUME NEW n \in 0..AttemptLimit, n + 1 \in Attempt,
         NEW rows \in [Attempt -> Outcome], NEW s \in Claimable,
         EvidenceOf(s, n, rows)
  PROVE  EvidenceOf("running", n + 1, [rows EXCEPT ![n + 1] = "open"])
  <1> DEFINE new == [rows EXCEPT ![n + 1] = "open"]
  <1> SUFFICES ASSUME NEW a \in Attempt
               PROVE  /\ a > n + 1 <=> new[a] = "none"
                      /\ a < n + 1 => new[a] \in {"retryable_failed", "expired"}
                      /\ a = n + 1 => new[a] \in LastOutcome("running")
    BY DEF EvidenceOf
  <1>1. a \in Nat /\ n \in Nat
    BY DEF Attempt
  <1>2. LastOutcome(s) \subseteq {"retryable_failed", "expired"}
    BY DEF LastOutcome, Claimable
  <1>3. a < n + 1 => rows[a] \in {"retryable_failed", "expired"}
    BY <1>1, <1>2 DEF EvidenceOf
  <1>4. a > n <=> rows[a] = "none"
    BY DEF EvidenceOf
  <1>5. LastOutcome("running") = {"open"}
    BY DEF LastOutcome
  <1> QED BY <1>1, <1>3, <1>4, <1>5

\* The evidence of a running job whose latest attempt is closed with outcome o
\* while the job goes to state to.
LEMMA EvidenceOfClose ==
  ASSUME NEW n \in 0..AttemptLimit, NEW rows, EvidenceOf("running", n, rows),
         NEW to, NEW o \in LastOutcome(to), o # "none", NEW new,
         \A a \in Attempt : new[a] = IF a = n THEN Finished(rows[a], o) ELSE rows[a]
  PROVE  EvidenceOf(to, n, new)
  <1>1. LastOutcome("running") = {"open"}
    BY DEF LastOutcome
  <1>2. ASSUME NEW a \in Attempt
        PROVE  /\ a > n <=> new[a] = "none"
               /\ a < n => new[a] \in {"retryable_failed", "expired"}
               /\ a = n => new[a] \in LastOutcome(to)
    BY <1>1, <1>2 DEF EvidenceOf, Finished, Attempt
  <1> QED BY <1>2 DEF EvidenceOf

\* The evidence of a job that is cancelled while it waits to be claimed.
LEMMA EvidenceOfCancel ==
  ASSUME NEW n \in 0..AttemptLimit, NEW rows, NEW s \in Claimable, EvidenceOf(s, n, rows)
  PROVE  EvidenceOf("cancelled", n, rows)
  BY DEF EvidenceOf, LastOutcome, Claimable

-----------------------------------------------------------------------------
(* Every row update preserves RowInv.                                      *)

\* Enqueue adds a job without attempts.
LEMMA EnqueueRows ==
  ASSUME RowInv, NEW j \in Job, NEW d \in Delay, Enqueue(j, d)
  PROVE  RowInv'
  <1>1. RowTypeOK'
    BY DEF RowInv, Enqueue, RowTypeOK, Delay, State, Claimable
  <1>2. AttemptBudget'
    <2>1. 0 < MaxAttempts[j]
      BY QueueAssumption
    <2> QED BY <2>1 DEF RowInv, Enqueue, RowTypeOK, AttemptBudget
  <1>3. LeaseMatchesAttempt'
    BY DEF RowInv, Enqueue, RowTypeOK, LeaseMatchesAttempt
  <1>4. ResultOfLatestAttempt'
    BY DEF RowInv, Enqueue, RowTypeOK, ResultOfLatestAttempt
  <1> QED BY <1>1, <1>2, <1>3, <1>4 DEF RowInv

\* A job that can be claimed has a next attempt within the budget.
LEMMA NextAttempt ==
  ASSUME RowInv, NEW j \in Job, state[j] \in Claimable
  PROVE  attemptCount[j] + 1 \in Attempt /\ attemptCount[j] + 1 <= MaxAttempts[j]
  <1>1. attemptCount[j] < MaxAttempts[j]
    BY DEF RowInv, AttemptBudget
  <1>2. attemptCount[j] \in Nat /\ MaxAttempts[j] \in 1..AttemptLimit /\ AttemptLimit \in Nat
    BY QueueAssumption DEF RowInv, RowTypeOK
  <1> QED BY <1>1, <1>2 DEF Attempt

\* Claim starts the next attempt and records the same worker in both tables.
LEMMA ClaimRows ==
  ASSUME RowInv, NEW j \in Job, NEW id \in WorkerId, NEW l \in Lease, Claim(j, id, l)
  PROVE  RowInv'
  <1>1. attemptCount[j] + 1 \in Attempt /\ attemptCount[j] + 1 <= MaxAttempts[j]
    BY NextAttempt DEF Claim
  <1>2. RowTypeOK'
    BY <1>1 DEF RowInv, Claim, RowTypeOK, Lease, State, Outcome, Attempt
  <1>3. AttemptBudget'
    BY <1>1 DEF RowInv, Claim, RowTypeOK, AttemptBudget, Claimable
  <1>4. LeaseMatchesAttempt'
    BY <1>1, QueueAssumption DEF RowInv, Claim, RowTypeOK, LeaseMatchesAttempt, Attempt
  <1>5. ResultOfLatestAttempt'
    BY DEF RowInv, Claim, RowTypeOK, ResultOfLatestAttempt, Claimable
  <1> QED BY <1>2, <1>3, <1>4, <1>5 DEF RowInv

\* Renew moves the expiry of a running job only.
LEMMA RenewRows ==
  ASSUME RowInv, NEW j \in Job, NEW id, NEW a, NEW l \in Lease, Renew(j, id, a, l)
  PROVE  RowInv'
  BY DEF RowInv, Renew, HoldsLease, RowTypeOK, AttemptBudget, LeaseMatchesAttempt,
         ResultOfLatestAttempt, Lease

\* Closing attempt rows keeps them within their outcomes.
LEMMA FinishAttemptType ==
  ASSUME attemptOutcome \in [Job -> [Attempt -> Outcome]],
         NEW j \in Job, NEW a, NEW o \in Outcome, FinishAttempt(j, a, o)
  PROVE  attemptOutcome' \in [Job -> [Attempt -> Outcome]]
  BY DEF FinishAttempt, Finished

\* Releasing a job keeps the three columns of its lease within their types.
LEMMA ReleaseType ==
  ASSUME RowTypeOK, NEW j \in Job, NEW to \in State, Release(j, to)
  PROVE  /\ state' \in [Job -> State]
         /\ leaseOwner' \in [Job -> WorkerId \cup {NoWorker}]
         /\ lease' \in [Job -> 0..MaxLease]
  BY QueueAssumption DEF Release, RowTypeOK

\* Complete ends a running job with the result of its latest attempt.
LEMMA CompleteRows ==
  ASSUME RowInv, NEW j \in Job, NEW id, NEW a, Complete(j, id, a)
  PROVE  RowInv'
  <1>1. RowTypeOK'
    <2>1. "succeeded" \in State /\ "succeeded" \in Outcome
      BY DEF State, Terminal, Outcome
    <2>2. attemptOutcome' \in [Job -> [Attempt -> Outcome]]
      BY <2>1, FinishAttemptType DEF RowInv, Complete, RowTypeOK
    <2> QED BY <2>1, <2>2, ReleaseType DEF RowInv, Complete, HoldsLease, RowTypeOK
  <1>2. AttemptBudget'
    BY DEF RowInv, Complete, Release, RowTypeOK, AttemptBudget, Claimable
  <1>3. LeaseMatchesAttempt'
    BY DEF RowInv, Complete, Release, RowTypeOK, LeaseMatchesAttempt
  <1>4. ResultOfLatestAttempt'
    BY DEF RowInv, Complete, Release, HoldsLease, RowTypeOK, ResultOfLatestAttempt
  <1> QED BY <1>1, <1>2, <1>3, <1>4 DEF RowInv

\* Fail ends a running job, or hands it back while the budget lasts.
LEMMA FailRows ==
  ASSUME RowInv, NEW j \in Job, NEW id, NEW a, NEW retryable, NEW d \in Delay,
         Fail(j, id, a, retryable, d)
  PROVE  RowInv'
  <1> DEFINE to == FailedState(j, retryable)
  <1>1. /\ to \in {"retryable_failed", "failed"}
        /\ to = "retryable_failed" => attemptCount[j] < MaxAttempts[j]
    BY FailedStateFacts DEF RowInv
  <1>2. Release(j, to) /\ FinishAttempt(j, a, to)
    BY DEF Fail
  <1> HIDE DEF to
  <1>3. RowTypeOK'
    <2>1. to \in State /\ to \in Outcome
      BY <1>1 DEF State, Terminal, Claimable, Outcome
    <2>2. attemptOutcome' \in [Job -> [Attempt -> Outcome]]
      BY <1>2, <2>1, FinishAttemptType DEF RowInv, RowTypeOK
    <2> QED BY <1>2, <2>1, <2>2, ReleaseType DEF RowInv, Fail, RowTypeOK, Delay
  <1>4. AttemptBudget'
    BY <1>1, <1>2 DEF RowInv, Fail, Release, RowTypeOK, AttemptBudget, Claimable
  <1>5. LeaseMatchesAttempt'
    BY <1>1, <1>2 DEF RowInv, Fail, Release, RowTypeOK, LeaseMatchesAttempt
  <1>6. ResultOfLatestAttempt'
    BY <1>1, <1>2 DEF RowInv, Fail, Release, HoldsLease, RowTypeOK, ResultOfLatestAttempt
  <1> QED BY <1>3, <1>4, <1>5, <1>6 DEF RowInv

\* Either cancel, jobs.Queue.Cancel or risk.Service.Cancel, ends a job that has
\* no result; what it does to the attempt rows is left open but for their type.
LEMMA CancelRows ==
  ASSUME RowInv, NEW j \in Job, state[j] \in Claimable \cup {"running", "cancelled"},
         Release(j, "cancelled"), attemptOutcome' \in [Job -> [Attempt -> Outcome]],
         UNCHANGED <<attemptCount, delay, resultOf, attemptWorker>>
  PROVE  RowInv'
  <1>1. RowTypeOK'
    <2>1. "cancelled" \in State
      BY DEF State, Terminal
    <2> QED BY <2>1, ReleaseType DEF RowInv, RowTypeOK
  <1>2. AttemptBudget'
    BY DEF RowInv, Release, RowTypeOK, AttemptBudget, Claimable
  <1>3. LeaseMatchesAttempt'
    BY DEF RowInv, Release, RowTypeOK, LeaseMatchesAttempt
  <1>4. ResultOfLatestAttempt'
    BY DEF RowInv, Release, RowTypeOK, ResultOfLatestAttempt, Claimable
  <1> QED BY <1>1, <1>2, <1>3, <1>4 DEF RowInv

\* Recovery moves every job whose lease has expired as Fail would.
LEMMA RecoverRows ==
  ASSUME RowInv, RecoverExpired
  PROVE  RowInv'
  <1>1. \A j \in Job :
           /\ FailedState(j, TRUE) \in {"retryable_failed", "failed"}
           /\ FailedState(j, TRUE) = "retryable_failed" =>
                 attemptCount[j] < MaxAttempts[j]
    BY FailedStateFacts DEF RowInv
  <1>2. RowTypeOK'
    <2>1. state' \in [Job -> State]
      BY <1>1 DEF RowInv, RecoverExpired, RowTypeOK, State, Terminal, Claimable
    <2>2. attemptOutcome' \in [Job -> [Attempt -> Outcome]]
      <3>1. "expired" \in Outcome
        BY DEF Outcome
      <3> QED BY <3>1 DEF RowInv, RecoverExpired, Finished, RowTypeOK
    <2>3. leaseOwner' \in [Job -> WorkerId \cup {NoWorker}]
      BY DEF RowInv, RecoverExpired, RowTypeOK
    <2>4. delay' \in [Job -> 0..MaxDelay]
      BY QueueAssumption DEF RowInv, RecoverExpired, RowTypeOK
    <2> QED BY <2>1, <2>2, <2>3, <2>4 DEF RowInv, RecoverExpired, RowTypeOK
  <1>3. AttemptBudget'
    BY <1>1 DEF RowInv, RecoverExpired, RowTypeOK, AttemptBudget, Claimable
  <1>4. LeaseMatchesAttempt'
    BY <1>1 DEF RowInv, RecoverExpired, Expired, RowTypeOK, LeaseMatchesAttempt
  <1>5. ResultOfLatestAttempt'
    BY <1>1 DEF RowInv, RecoverExpired, Expired, RowTypeOK, ResultOfLatestAttempt
  <1> QED BY <1>2, <1>3, <1>4, <1>5 DEF RowInv

\* The clock runs leases and delays down.
LEMMA TickRows ==
  ASSUME RowInv, Tick
  PROVE  RowInv'
  <1>1. RowTypeOK'
    BY QueueAssumption DEF RowInv, Tick, RowTypeOK
  <1>2. LeaseMatchesAttempt'
    BY DEF RowInv, Tick, RowTypeOK, LeaseMatchesAttempt
  <1> QED BY <1>1, <1>2 DEF RowInv, Tick, AttemptBudget, ResultOfLatestAttempt

-----------------------------------------------------------------------------
(* Jobs that a step does not concern.                                      *)

\* A call on job i leaves every other job alone.
LEMMA OthersLeftAlone ==
  ASSUME RowTypeOK, NEW i \in Job, NEW j \in Job, i # j, ClientCall(i)
  PROVE  LeavesAlone(j)
  BY DEF ClientCall, Enqueue, Claim, Renew, Complete, Fail, Cancel, Release,
         FinishAttempt, RowTypeOK, LeavesAlone

\* Recovery leaves a job alone unless its lease has expired.
LEMMA UnexpiredLeftAlone ==
  ASSUME RowTypeOK, NEW j \in Job, RecoverExpired, ~ Expired(j)
  PROVE  LeavesAlone(j)
  BY DEF RecoverExpired, LeavesAlone, RowTypeOK

-----------------------------------------------------------------------------
(* Every update of a job keeps its evidence.                               *)

\* A step that leaves a job alone leaves its evidence correct.
LEMMA LeftAloneEvidence ==
  ASSUME NEW j \in Job, JobEvidence(j), LeavesAlone(j)
  PROVE  JobEvidence(j)'
  BY DEF JobEvidence, LeavesAlone

\* Enqueue adds a job that has no attempt rows.
LEMMA EnqueueEvidence ==
  ASSUME RowInv, NEW j \in Job, JobEvidence(j), NEW d, Enqueue(j, d)
  PROVE  JobEvidence(j)'
  <1>1. state[j] = "absent" /\ state'[j] = "queued"
    BY DEF RowInv, RowTypeOK, Enqueue
  <1>2. LastOutcome("absent") = LastOutcome("queued")
    BY DEF LastOutcome
  <1> QED BY <1>1, <1>2 DEF Enqueue, JobEvidence, EvidenceOf

\* Claim adds the row of the attempt it starts.
LEMMA ClaimEvidence ==
  ASSUME RowInv, NEW j \in Job, JobEvidence(j), NEW id, NEW l, Claim(j, id, l)
  PROVE  JobEvidence(j)'
  <1>1. attemptCount[j] + 1 \in Attempt
    BY NextAttempt DEF Claim
  <1>2. /\ state'[j] = "running" /\ attemptCount'[j] = attemptCount[j] + 1
        /\ attemptOutcome'[j] = [attemptOutcome[j] EXCEPT ![attemptCount[j] + 1] = "open"]
    BY DEF RowInv, RowTypeOK, Claim
  <1>3. /\ attemptCount[j] \in 0..AttemptLimit
        /\ attemptOutcome[j] \in [Attempt -> Outcome]
        /\ state[j] \in Claimable
    BY DEF RowInv, RowTypeOK, Claim
  <1> QED BY <1>1, <1>2, <1>3, EvidenceOfClaim DEF JobEvidence

\* Complete and Fail close the row of the attempt that held the lease.
LEMMA CloseEvidence ==
  ASSUME RowInv, NEW j \in Job, JobEvidence(j), state[j] = "running",
         NEW to, to \in LastOutcome(to), to # "none",
         Release(j, to), FinishAttempt(j, attemptCount[j], to), UNCHANGED attemptCount
  PROVE  JobEvidence(j)'
  <1>1. state'[j] = to
    BY DEF RowInv, RowTypeOK, Release
  <1>2. \A a \in Attempt : attemptOutcome'[j][a] =
           IF a = attemptCount[j] THEN Finished(attemptOutcome[j][a], to)
           ELSE attemptOutcome[j][a]
    BY DEF RowInv, RowTypeOK, FinishAttempt
  <1>3. attemptCount[j] \in 0..AttemptLimit
    BY DEF RowInv, RowTypeOK
  <1> QED BY <1>1, <1>2, <1>3, EvidenceOfClose DEF JobEvidence

\* The final states of a job are outcomes of its last attempt.
LEMMA StatesAsOutcomes ==
  /\ "succeeded" \in LastOutcome("succeeded")
  /\ "failed" \in LastOutcome("failed")
  /\ "retryable_failed" \in LastOutcome("retryable_failed")
  /\ "cancelled" \in LastOutcome("cancelled")
  /\ "expired" \in LastOutcome("failed")
  /\ "expired" \in LastOutcome("retryable_failed")
  BY DEF LastOutcome

\* Complete closes the row of the attempt that succeeded.
LEMMA CompleteEvidence ==
  ASSUME RowInv, NEW j \in Job, JobEvidence(j), NEW id, NEW a, Complete(j, id, a)
  PROVE  JobEvidence(j)'
  BY CloseEvidence, StatesAsOutcomes DEF Complete, HoldsLease

\* Fail closes the row of the attempt that failed.
LEMMA FailEvidence ==
  ASSUME RowInv, NEW j \in Job, JobEvidence(j), NEW id, NEW a, NEW retryable, NEW d,
         Fail(j, id, a, retryable, d)
  PROVE  JobEvidence(j)'
  <1>1. FailedState(j, retryable) \in {"retryable_failed", "failed"}
    BY FailedStateFacts DEF RowInv
  <1> QED BY <1>1, CloseEvidence, StatesAsOutcomes DEF Fail, HoldsLease

\* Queue.Cancel closes every unfinished row of the job.
LEMMA CancelEvidence ==
  ASSUME RowInv, NEW j \in Job, JobEvidence(j), Cancel(j)
  PROVE  JobEvidence(j)'
  <1>1. /\ state'[j] = "cancelled" /\ attemptCount'[j] = attemptCount[j]
        /\ attemptOutcome'[j] =
              [a \in Attempt |-> Finished(attemptOutcome[j][a], "cancelled")]
    BY DEF RowInv, RowTypeOK, Cancel, Release
  <1>2. /\ attemptCount[j] \in 0..AttemptLimit
        /\ attemptOutcome[j] \in [Attempt -> Outcome]
        /\ EvidenceOf(state[j], attemptCount[j], attemptOutcome[j])
    BY DEF RowInv, RowTypeOK, JobEvidence
  <1>3. CASE state[j] = "running"
    <2>1. \A a \in Attempt : attemptOutcome'[j][a] =
             IF a = attemptCount[j] THEN Finished(attemptOutcome[j][a], "cancelled")
             ELSE attemptOutcome[j][a]
      <3>1. \A a \in Attempt : a # attemptCount[j] => attemptOutcome[j][a] # "open"
        BY <1>2 DEF EvidenceOf, Attempt
      <3> QED BY <1>1, <3>1 DEF Finished
    <2> QED BY <1>1, <1>2, <1>3, <2>1, StatesAsOutcomes, EvidenceOfClose DEF JobEvidence
  <1>4. CASE state[j] \in Claimable
    <2>1. \A a \in Attempt : attemptOutcome[j][a] # "open"
      BY <1>2, <1>4 DEF EvidenceOf, Attempt, LastOutcome, Claimable
    <2>2. attemptOutcome'[j] = attemptOutcome[j]
      BY <1>1, <1>2, <2>1 DEF Finished
    <2> QED BY <1>1, <1>2, <1>4, <2>2, EvidenceOfCancel DEF JobEvidence
  <1> QED BY <1>3, <1>4 DEF Cancel

\* Recovery closes the row of an attempt whose lease expired, and no other.
LEMMA RecoverEvidence ==
  ASSUME RowInv, NEW j \in Job, JobEvidence(j), RecoverExpired
  PROVE  JobEvidence(j)'
  <1>1. CASE Expired(j)
    <2>1. state'[j] \in {"failed", "retryable_failed"}
      BY <1>1, FailedStateFacts DEF RowInv, RecoverExpired
    <2>2. \A a \in Attempt : attemptOutcome'[j][a] =
             IF a = attemptCount[j] THEN Finished(attemptOutcome[j][a], "expired")
             ELSE attemptOutcome[j][a]
      BY <1>1 DEF RecoverExpired
    <2>3. /\ attemptCount[j] \in 0..AttemptLimit /\ attemptCount' = attemptCount
          /\ EvidenceOf("running", attemptCount[j], attemptOutcome[j])
      BY <1>1 DEF RowInv, RowTypeOK, JobEvidence, Expired, RecoverExpired
    <2> QED BY <2>1, <2>2, <2>3, StatesAsOutcomes, EvidenceOfClose DEF JobEvidence
  <1>2. CASE ~ Expired(j)
    BY <1>2, LeftAloneEvidence, UnexpiredLeftAlone DEF RowInv
  <1> QED BY <1>1, <1>2

-----------------------------------------------------------------------------
(* The invariant.                                                          *)

\* The invariant holds in the empty queue.
LEMMA InitEstablishes == Init => QueueInv
  <1> SUFFICES ASSUME Init PROVE QueueInv
    OBVIOUS
  <1>1. TypeOK
    BY QueueAssumption DEF Init, TypeOK, RowTypeOK, State, Outcome, RunState
  <1>2. AttemptBudget
    <2>1. \A j \in Job : 0 <= MaxAttempts[j] /\ 0 < MaxAttempts[j]
      BY QueueAssumption
    <2> QED BY <2>1 DEF Init, AttemptBudget
  <1>3. LeaseMatchesAttempt /\ ResultOfLatestAttempt
    BY DEF Init, LeaseMatchesAttempt, ResultOfLatestAttempt
  <1>4. EvidenceMatchesJob
    BY DEF Init, EvidenceMatchesJob, JobEvidence, EvidenceOf, Attempt
  <1> QED BY <1>1, <1>2, <1>3, <1>4 DEF QueueInv, RowInv, TypeOK

\* A call of a client, early or late, keeps the invariant.
LEMMA ClientCallPreserves ==
  ASSUME QueueInv, NEW j \in Job, ClientCall(j), UNCHANGED runState
  PROVE  QueueInv'
  <1>0. RowInv /\ RowTypeOK /\ JobEvidence(j)
    BY DEF QueueInv, RowInv, EvidenceMatchesJob
  <1>1. ASSUME NEW d \in Delay, Enqueue(j, d) PROVE RowInv' /\ JobEvidence(j)'
    BY <1>0, <1>1, EnqueueRows, EnqueueEvidence
  <1>2. ASSUME NEW id \in WorkerId, NEW l \in Lease, Claim(j, id, l)
        PROVE  RowInv' /\ JobEvidence(j)'
    BY <1>0, <1>2, ClaimRows, ClaimEvidence
  <1>3. ASSUME NEW id, NEW a, NEW l \in Lease, Renew(j, id, a, l)
        PROVE  RowInv' /\ JobEvidence(j)'
    <2>1. LeavesAlone(j)
      BY <1>3 DEF Renew, LeavesAlone
    <2> QED BY <1>0, <1>3, <2>1, RenewRows, LeftAloneEvidence
  <1>4. ASSUME NEW id, NEW a, Complete(j, id, a) PROVE RowInv' /\ JobEvidence(j)'
    BY <1>0, <1>4, CompleteRows, CompleteEvidence
  <1>5. ASSUME NEW id, NEW a, NEW retryable, NEW d \in Delay, Fail(j, id, a, retryable, d)
        PROVE  RowInv' /\ JobEvidence(j)'
    BY <1>0, <1>5, FailRows, FailEvidence
  <1>6. ASSUME Cancel(j) PROVE RowInv' /\ JobEvidence(j)'
    <2>1. attemptOutcome' \in [Job -> [Attempt -> Outcome]]
      <3>1. "cancelled" \in Outcome
        BY DEF Outcome
      <3> QED BY <1>0, <1>6, <3>1 DEF Cancel, Finished, RowTypeOK
    <2> QED BY <1>0, <1>6, <2>1, CancelRows, CancelEvidence DEF Cancel
  <1>7. RowInv' /\ JobEvidence(j)'
    BY <1>1, <1>2, <1>3, <1>4, <1>5, <1>6 DEF ClientCall
  <1>8. EvidenceMatchesJob'
    <2> SUFFICES ASSUME NEW i \in Job, i # j PROVE JobEvidence(i)'
      BY <1>7 DEF EvidenceMatchesJob
    <2>1. LeavesAlone(i)
      BY <1>0, OthersLeftAlone
    <2> QED BY <2>1, LeftAloneEvidence DEF QueueInv, EvidenceMatchesJob
  <1> QED BY <1>7, <1>8 DEF QueueInv, RowInv, TypeOK

\* Every step keeps the invariant.
LEMMA NextPreserves == QueueInv /\ [Next]_queueVars => QueueInv'
  <1> SUFFICES ASSUME QueueInv, [Next]_queueVars PROVE QueueInv'
    OBVIOUS
  <1>1. ASSUME NEW j \in Job, ClientCall(j), UNCHANGED runState PROVE QueueInv'
    BY <1>1, ClientCallPreserves
  <1>2. CASE RecoverExpired
    <2>1. RowInv' /\ EvidenceMatchesJob'
      BY <1>2, RecoverRows, RecoverEvidence DEF QueueInv, EvidenceMatchesJob
    <2>2. runState' \in [Job -> RunState]
      BY <1>2, FailedRunType DEF RecoverExpired, QueueInv, TypeOK
    <2> QED BY <2>1, <2>2 DEF QueueInv, RowInv, TypeOK
  <1>3. CASE Tick
    <2>1. RowInv'
      BY <1>3, TickRows DEF QueueInv
    <2> QED BY <1>3, <2>1
            DEF Tick, QueueInv, RowInv, TypeOK, EvidenceMatchesJob, JobEvidence
  <1>4. CASE UNCHANGED queueVars
    BY <1>4 DEF queueVars, QueueInv, RowInv, TypeOK, RowTypeOK, AttemptBudget,
       LeaseMatchesAttempt, ResultOfLatestAttempt, EvidenceMatchesJob, JobEvidence
  <1> QED BY <1>1, <1>2, <1>3, <1>4 DEF Next

\* In every behaviour of the queue the columns keep their types.
THEOREM TypeCorrect == Spec => []TypeOK
  <1>1. QueueInv => TypeOK
    BY DEF QueueInv
  <1> QED BY InitEstablishes, NextPreserves, <1>1, PTL DEF Spec

\* In every behaviour of the queue the invariant holds.
THEOREM Invariance == Spec => []QueueInv
  BY InitEstablishes, NextPreserves, PTL DEF Spec

\* No order of claims, failures, recoveries and late calls makes a claimable
\* job run out of attempts, which would block every Claim.
THEOREM BudgetHolds == Spec => []AttemptBudget
  <1>1. QueueInv => AttemptBudget
    BY DEF QueueInv, RowInv
  <1> QED BY Invariance, <1>1, PTL

\* The attempt table always tells the true story of the job table.
THEOREM EvidenceHolds == Spec => []EvidenceMatchesJob
  <1>1. QueueInv => EvidenceMatchesJob
    BY DEF QueueInv
  <1> QED BY Invariance, <1>1, PTL

\* A result is always the result of the latest attempt, and only a succeeded
\* job has one.
THEOREM ResultHolds == Spec => []ResultOfLatestAttempt
  <1>1. QueueInv => ResultOfLatestAttempt
    BY DEF QueueInv, RowInv
  <1> QED BY Invariance, <1>1, PTL

\* A job is always leased exactly while it runs, to the worker of its latest
\* attempt.
THEOREM LeaseHolds == Spec => []LeaseMatchesAttempt
  <1>1. QueueInv => LeaseMatchesAttempt
    BY DEF QueueInv, RowInv
  <1> QED BY Invariance, <1>1, PTL

-----------------------------------------------------------------------------
(* What a step may never do.                                               *)

\* A finished job is left alone by every call, by recovery and by the clock.
LEMMA FinishedLeftAlone ==
  ASSUME QueueInv, [Next]_queueVars, NEW j \in Job, state[j] \in Terminal
  PROVE  LeavesAlone(j)
  <1>0. state[j] \notin Claimable \cup {"absent", "running"}
    BY DEF Terminal, Claimable
  <1>1. ASSUME NEW i \in Job, ClientCall(i) PROVE LeavesAlone(j)
    <2>1. CASE i = j
      BY <1>0, <1>1, <2>1 DEF ClientCall, Enqueue, Claim, Renew, Complete, Fail, Cancel,
         HoldsLease
    <2>2. CASE i # j
      BY <1>1, <2>2, OthersLeftAlone DEF QueueInv, TypeOK
    <2> QED BY <2>1, <2>2
  <1>2. CASE RecoverExpired
    <2>1. ~ Expired(j)
      BY <1>0 DEF Expired
    <2> QED BY <1>2, <2>1, UnexpiredLeftAlone DEF QueueInv, RowInv
  <1>3. CASE Tick
    BY <1>3 DEF Tick, LeavesAlone
  <1>4. CASE UNCHANGED queueVars
    BY <1>4 DEF queueVars, LeavesAlone
  <1> QED BY <1>1, <1>2, <1>3, <1>4 DEF Next

\* However late a call arrives, a finished job keeps its state, its attempts,
\* its result and its history.
THEOREM FinalityHolds == Spec => TerminalIsFinal
  <1>1. QueueInv /\ [Next]_queueVars =>
           [\A j \in Job : state[j] \in Terminal => LeavesAlone(j)]_queueVars
    BY FinishedLeftAlone
  <1> QED BY Invariance, <1>1, PTL DEF Spec, TerminalIsFinal

-----------------------------------------------------------------------------
(* The queue implements JobLifecycle.                                      *)

\* A job whose state, attempts and result do not change stays where it is.
LEMMA LeftAloneStays ==
  ASSUME RowTypeOK, NEW j \in Job, LeavesAlone(j)
  PROVE  Lifecycle!Stay(j)
  BY DEF LeavesAlone, Lifecycle!Stay, Lifecycle!Move, Lifecycle!Status, LifecycleStatus,
         RowTypeOK, State, Claimable, Terminal

\* Each update of a job is an edge of its lifecycle, whoever makes it.
LEMMA RowEdges ==
  ASSUME RowInv, NEW j \in Job
  PROVE  /\ \A d : Enqueue(j, d) => Lifecycle!Create(j)
         /\ \A id, l : Claim(j, id, l) => Lifecycle!Start(j)
         /\ \A id, a, l : Renew(j, id, a, l) => Lifecycle!Stay(j)
         /\ \A id, a : Complete(j, id, a) => Lifecycle!Finish(j)
         /\ \A id, a, retryable, d :
               Fail(j, id, a, retryable, d) => Lifecycle!Retry(j) \/ Lifecycle!GiveUp(j)
         /\ Cancel(j) => Lifecycle!Abort(j)
  <1> USE DEF Lifecycle!Move, LifecycleStatus, Claimable
  <1>0. RowTypeOK /\ AttemptBudget /\ ResultOfLatestAttempt
    BY DEF RowInv
  <1>1. ASSUME NEW d, Enqueue(j, d) PROVE Lifecycle!Create(j)
    BY <1>0, <1>1 DEF Enqueue, RowTypeOK, AttemptBudget, ResultOfLatestAttempt,
       Lifecycle!Create
  <1>2. ASSUME NEW id, NEW l, Claim(j, id, l) PROVE Lifecycle!Start(j)
    BY <1>0, <1>2 DEF Claim, RowTypeOK, AttemptBudget, ResultOfLatestAttempt,
       Lifecycle!Start
  <1>3. ASSUME NEW id, NEW a, NEW l, Renew(j, id, a, l) PROVE Lifecycle!Stay(j)
    BY <1>0, <1>3, LeftAloneStays DEF Renew, LeavesAlone
  <1>4. ASSUME NEW id, NEW a, Complete(j, id, a) PROVE Lifecycle!Finish(j)
    BY <1>0, <1>4 DEF Complete, HoldsLease, Release, RowTypeOK, Lifecycle!Finish
  <1>5. ASSUME NEW id, NEW a, NEW retryable, NEW d, Fail(j, id, a, retryable, d)
        PROVE  Lifecycle!Retry(j) \/ Lifecycle!GiveUp(j)
    <2>1. /\ FailedState(j, retryable) \in {"retryable_failed", "failed"}
          /\ FailedState(j, retryable) = "retryable_failed" =>
                attemptCount[j] < MaxAttempts[j]
      BY <1>0, FailedStateFacts
    <2>2. /\ state'[j] = FailedState(j, retryable) /\ state[j] = "running"
          /\ attemptCount' = attemptCount /\ resultOf' = resultOf
          /\ resultOf[j] = 0
      BY <1>0, <1>5 DEF Fail, HoldsLease, Release, RowTypeOK, ResultOfLatestAttempt
    <2> QED BY <2>1, <2>2 DEF Lifecycle!Retry, Lifecycle!GiveUp
  <1>6. ASSUME Cancel(j) PROVE Lifecycle!Abort(j)
    BY <1>0, <1>6 DEF Cancel, Release, RowTypeOK, ResultOfLatestAttempt, Lifecycle!Abort
  <1> QED BY <1>1, <1>2, <1>3, <1>4, <1>5, <1>6

\* Job j takes one of the steps that the lifecycle allows it.
Moves(j) ==
    \/ Lifecycle!Create(j) \/ Lifecycle!Start(j) \/ Lifecycle!Retry(j)
    \/ Lifecycle!Finish(j) \/ Lifecycle!GiveUp(j) \/ Lifecycle!Abort(j)
    \/ Lifecycle!Stay(j)

\* A step that moves job i and leaves the others alone is a lifecycle step.
LEMMA OneJobMoves ==
  ASSUME RowTypeOK, NEW i \in Job, Moves(i), \A j \in Job \ {i} : LeavesAlone(j)
  PROVE  Lifecycle!LifecycleNext
  <1> SUFFICES ASSUME NEW j \in Job PROVE Moves(j)
    BY DEF Lifecycle!LifecycleNext, Moves
  <1>1. CASE i = j
    BY <1>1
  <1>2. CASE i # j
    BY <1>2, LeftAloneStays DEF Moves
  <1> QED BY <1>1, <1>2

\* Recovery retries or gives up every expired job and leaves the others alone.
LEMMA RecoveryMoves ==
  ASSUME RowInv, RecoverExpired
  PROVE  Lifecycle!LifecycleNext
  <1> SUFFICES ASSUME NEW j \in Job PROVE Moves(j)
    BY DEF Lifecycle!LifecycleNext, Moves
  <1>0. RowTypeOK /\ AttemptBudget /\ ResultOfLatestAttempt
    BY DEF RowInv
  <1>1. CASE Expired(j)
    <2>1. /\ FailedState(j, TRUE) \in {"retryable_failed", "failed"}
          /\ FailedState(j, TRUE) = "retryable_failed" =>
                attemptCount[j] < MaxAttempts[j]
      BY <1>0, FailedStateFacts
    <2>2. /\ state'[j] = FailedState(j, TRUE) /\ state[j] = "running"
          /\ attemptCount' = attemptCount /\ resultOf' = resultOf
          /\ resultOf[j] = 0
      BY <1>0, <1>1 DEF RecoverExpired, Expired, ResultOfLatestAttempt
    <2> QED BY <2>1, <2>2 DEF Moves, Lifecycle!Retry, Lifecycle!GiveUp, Lifecycle!Move,
                              LifecycleStatus, Claimable
  <1>2. CASE ~ Expired(j)
    BY <1>0, <1>2, UnexpiredLeftAlone, LeftAloneStays DEF Moves
  <1> QED BY <1>1, <1>2

\* The queue with its leases, clocks and late callers implements the lifecycle:
\* at most MaxAttempts[j] attempts, one at a time, and one end.
THEOREM Refinement == Spec => ImplementsLifecycle
  <1>1. Init => Lifecycle!LifecycleInit
    BY DEF Init, Lifecycle!LifecycleInit, LifecycleStatus, Claimable
  <1>2. QueueInv /\ [Next]_queueVars => [Lifecycle!LifecycleNext]_(Lifecycle!lifecycleVars)
    <2> SUFFICES ASSUME QueueInv, [Next]_queueVars
                 PROVE  Lifecycle!LifecycleNext \/ UNCHANGED Lifecycle!lifecycleVars
      OBVIOUS
    <2>0. RowInv /\ RowTypeOK
      BY DEF QueueInv, RowInv
    <2>1. ASSUME NEW i \in Job, ClientCall(i) PROVE Lifecycle!LifecycleNext
      <3>1. Moves(i)
        BY <2>0, <2>1, RowEdges DEF ClientCall, Moves
      <3>2. \A j \in Job \ {i} : LeavesAlone(j)
        BY <2>0, <2>1, OthersLeftAlone
      <3> QED BY <2>0, <3>1, <3>2, OneJobMoves
    <2>2. CASE RecoverExpired
      BY <2>0, <2>2, RecoveryMoves
    <2>3. CASE Tick \/ UNCHANGED queueVars
      BY <2>3 DEF Tick, queueVars, Lifecycle!lifecycleVars
    <2> QED BY <2>1, <2>2, <2>3 DEF Next
  <1> QED BY Invariance, <1>1, <1>2, PTL DEF Spec, ImplementsLifecycle, Lifecycle!LifecycleSpec
=============================================================================
