------------------------- MODULE CollectorSchedules -------------------------
(***************************************************************************)
(* The durable schedules of internal/collector/store.go on the table       *)
(* collector_schedules (migration 00013).  Each method is one statement.   *)
(*                                                                         *)
(* As in JobQueue, time is kept as the time left: lease[s] until           *)
(* lease_expires_at and wait[s] until COALESCE(retry_available_at,         *)
(* next_run_at).  next_run_at is also the identity of the scheduled        *)
(* occurrence (ClaimDue builds OccurrenceKey from it) and only Complete    *)
(* moves it: occ[s] numbers its values.  A lease token is a fresh UUID:    *)
(* issued[s] counts them and stands for the latest.                        *)
(***************************************************************************)
EXTENDS Naturals

CONSTANTS
    Schedule,       \* rows of collector_schedules, one per name
    Config,         \* the configurations a schedule may be registered with
    NoConfig,       \* no such row
    MaxAttempts,    \* max_attempts
    LeaseTime,      \* lease_seconds
    Interval,       \* interval_seconds
    Horizon         \* bound: the occurrences that are ever claimed

ASSUME ScheduleAssumption ==
    /\ NoConfig \notin Config
    /\ MaxAttempts \in Nat \ {0}
    /\ LeaseTime \in Nat \ {0}
    /\ Interval \in Nat \ {0}
    /\ Horizon \in Nat \ {0}

VARIABLES
    config,         \* provider and configuration; NoConfig before the INSERT
    active,         \* active
    attemptCount,   \* attempt_count
    token,          \* lease_token, 0 for NULL
    issued,         \* how many tokens gen_random_uuid has handed out
    lease,          \* time until lease_expires_at, 0 when past or NULL
    wait,           \* time until the schedule is due
    occ,            \* the occurrence that next_run_at names
    lastRun         \* the occurrence whose run is last_run_id, 0 for NULL

scheduleVars == <<config, active, attemptCount, token, issued, lease, wait,
                  occ, lastRun>>

Occurrence == 1..Horizon

ScheduleInit ==
    /\ config = [s \in Schedule |-> NoConfig]
    /\ active = [s \in Schedule |-> FALSE]
    /\ attemptCount = [s \in Schedule |-> 0]
    /\ token = [s \in Schedule |-> 0]
    /\ issued = [s \in Schedule |-> 0]
    /\ lease = [s \in Schedule |-> 0]
    /\ wait = [s \in Schedule |-> 0]
    /\ occ = [s \in Schedule |-> 1]
    /\ lastRun = [s \in Schedule |-> 0]

\* INSERT of a schedule.  A registered name only returns the row, or
\* ErrRequestChanged when the request differs: a stuttering step.
UpsertSchedule(s, c, d) ==
    /\ config[s] = NoConfig
    /\ config' = [config EXCEPT ![s] = c]
    /\ active' = [active EXCEPT ![s] = TRUE]
    /\ wait' = [wait EXCEPT ![s] = d]
    /\ UNCHANGED <<attemptCount, token, issued, lease, occ, lastRun>>

\* Variant of Due that never takes a lease over from a dead owner.
DueUnleased(s) ==
    active[s] /\ wait[s] = 0 /\ token[s] = 0 /\ attemptCount[s] < MaxAttempts

\* The candidate rows of ClaimDue.
Due(s) ==
    /\ active[s]
    /\ wait[s] = 0
    /\ lease[s] = 0
    /\ attemptCount[s] < MaxAttempts

\* One due schedule is taken, or taken over from an owner whose lease ran out.
ClaimDue(s) ==
    /\ Due(s)
    /\ occ[s] \in Occurrence
    /\ issued' = [issued EXCEPT ![s] = @ + 1]
    /\ token' = [token EXCEPT ![s] = issued[s] + 1]
    /\ lease' = [lease EXCEPT ![s] = LeaseTime]
    /\ attemptCount' = [attemptCount EXCEPT ![s] = @ + 1]
    /\ UNCHANGED <<config, active, wait, occ, lastRun>>

\* Variant of HoldsClaim that does not compare the token.
HoldsAnyClaim(s, t) == token[s] # 0 /\ lease[s] > 0

\* The WHERE clause of Complete and Fail.
HoldsClaim(s, t) == token[s] = t /\ lease[s] > 0

Unlease(s) ==
    /\ token' = [token EXCEPT ![s] = 0]
    /\ lease' = [lease EXCEPT ![s] = 0]

\* The schedule moves on to its next occurrence; run is the finished one.
Complete(s, t, run) ==
    /\ HoldsClaim(s, t)
    /\ Unlease(s)
    /\ occ' = [occ EXCEPT ![s] = @ + 1]
    /\ wait' = [wait EXCEPT ![s] = Interval]
    /\ lastRun' = [lastRun EXCEPT ![s] = run]
    /\ attemptCount' = [attemptCount EXCEPT ![s] = 0]
    /\ UNCHANGED <<config, active, issued>>

\* The same occurrence is retried later, or the schedule is switched off.
\* attempt is the AttemptCount of the claim.
Fail(s, t, attempt) ==
    /\ HoldsClaim(s, t)
    /\ Unlease(s)
    /\ wait' = [wait EXCEPT ![s] = Interval]
    /\ active' = [active EXCEPT ![s] = @ /\ attempt < MaxAttempts]
    /\ UNCHANGED <<config, attemptCount, issued, occ, lastRun>>

\* One unit of time passes.
Tick ==
    /\ \E s \in Schedule : lease[s] > 0 \/ wait[s] > 0
    /\ lease' = [s \in Schedule |-> IF lease[s] > 0 THEN lease[s] - 1 ELSE 0]
    /\ wait' = [s \in Schedule |-> IF wait[s] > 0 THEN wait[s] - 1 ELSE 0]
    /\ UNCHANGED <<config, active, attemptCount, token, issued, occ, lastRun>>

\* The columns of collector_schedules hold values of their types.
ScheduleTypeOK ==
    /\ config \in [Schedule -> Config \cup {NoConfig}]
    /\ active \in [Schedule -> BOOLEAN]
    /\ attemptCount \in [Schedule -> 0..MaxAttempts]
    /\ token \in [Schedule -> Nat]
    /\ issued \in [Schedule -> Nat]
    /\ lease \in [Schedule -> 0..LeaseTime]
    /\ wait \in [Schedule -> 0..Interval]
    /\ occ \in [Schedule -> 1..Horizon + 1]
    /\ lastRun \in [Schedule -> 0..Horizon]
=============================================================================
