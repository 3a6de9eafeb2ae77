------------------------------ MODULE Collector ------------------------------
(***************************************************************************)
(* Collector processes at work: Worker.RunOnce (internal/collector/        *)
(* worker.go) claims a due schedule and calls Runner.Run (runner.go),      *)
(* which ingests the occurrence page by page (resumeFRED, resumeBinance)   *)
(* or in one go (runTCMB through ingestion.Pipeline.Run), and then reports *)
(* the outcome to the schedule.  A Binance request without a symbol goes   *)
(* through the same pipeline and behaves as provider "tcmb".               *)
(*                                                                         *)
(* There is no renewal: a handler that outlives its lease keeps working on *)
(* the run of the occurrence while another process claims the same one.    *)
(* Only the report is fenced by the lease token.                           *)
(***************************************************************************)
EXTENDS CollectorSchedules, IngestionRuns

CONSTANTS
    Process,        \* collector processes
    Reliable,       \* the processes that do not hang
    NoClaim         \* no claim

\* A configuration names the provider, the page on which the requested window
\* is exhausted and max_pages.  pages > maxPages: the window does not end.
ASSUME CollectorAssumption ==
    /\ Run = Schedule \X Occurrence
    /\ Config \subseteq [provider : {"fred", "tcmb", "binance"},
                         pages : 1..PageLimit, maxPages : 1..PageLimit]
    /\ Reliable \subseteq Process
    /\ NoClaim \notin [sched : Schedule, token : Nat, attempt : Nat, occ : Occurrence]

VARIABLES
    phase,          \* where the process is in RunOnce
    claim,          \* the Claim it works on
    pagesDone,      \* checkpoint.Pages, a local of resumeFRED and resumeBinance
    fetched         \* the answer to the current page request

processVars == <<phase, claim, pagesDone, fetched>>
allVars     == <<scheduleVars, runVars, processVars>>

Phase == {"idle", "start", "load", "check", "page", "persist", "save",
          "complete", "fail", "error", "done"}

Claim == [sched : Schedule, token : Nat \ {0}, attempt : 1..MaxAttempts,
          occ : Occurrence]

CollectorInit ==
    /\ ScheduleInit
    /\ RunInit
    /\ phase = [w \in Process |-> "idle"]
    /\ claim = [w \in Process |-> NoClaim]
    /\ pagesDone = [w \in Process |-> 0]
    /\ fetched = [w \in Process |-> NoContent]

RunOf(w)    == <<claim[w].sched, claim[w].occ>>
ConfigOf(w) == config[claim[w].sched]

Goto(w, ph) == phase' = [phase EXCEPT ![w] = ph]

\* Variant of ReturnToLoop that keeps the claim.
ReturnWithClaim(w) ==
    /\ Goto(w, "idle")
    /\ pagesDone' = [pagesDone EXCEPT ![w] = 0]
    /\ fetched' = [fetched EXCEPT ![w] = NoContent]
    /\ UNCHANGED claim

\* RunOnce returns; its locals are gone.
ReturnToLoop(w) ==
    /\ Goto(w, "idle")
    /\ claim' = [claim EXCEPT ![w] = NoClaim]
    /\ pagesDone' = [pagesDone EXCEPT ![w] = 0]
    /\ fetched' = [fetched EXCEPT ![w] = NoContent]

-----------------------------------------------------------------------------
(* Claiming and starting.                                                  *)

TakeSchedule(w, s) ==
    /\ phase[w] = "idle"
    /\ ClaimDue(s)
    /\ claim' = [claim EXCEPT ![w] =
           [sched |-> s, token |-> issued[s] + 1,
            attempt |-> attemptCount[s] + 1, occ |-> occ[s]]]
    /\ Goto(w, "start")
    /\ UNCHANGED <<runVars, pagesDone, fetched>>

\* ErrNoDueSchedule: RunOnce returns and polls again.
NothingDue(w) ==
    /\ phase[w] = "idle"
    /\ \A s \in Schedule : ~ (Due(s) /\ occ[s] \in Occurrence)
    /\ UNCHANGED allVars

\* An unusable configuration, a missing credential, or a database error:
\* Run returns the error without a FailRun.
HandlerError(w) ==
    /\ \/ phase[w] \in {"start", "check", "complete"}
       \/ phase[w] = "load" /\ ConfigOf(w).provider = "tcmb"
    /\ Goto(w, "error")
    /\ UNCHANGED <<scheduleVars, runVars, claim, pagesDone, fetched>>

BeginRun(w) ==
    /\ phase[w] = "start"
    /\ StartRun(RunOf(w))
    /\ Goto(w, "load")
    /\ UNCHANGED <<scheduleVars, claim, pagesDone, fetched>>

\* Variant of NextPhase that takes the page limit for the end of the window.
NextPhaseTruncating(w, n, completed) ==
    IF n >= ConfigOf(w).pages \/ n >= ConfigOf(w).maxPages THEN completed ELSE "page"

\* Where resumeFRED and resumeBinance go with n pages done: the loop ends on a
\* completed checkpoint or on the page limit.
NextPhase(w, n, completed) ==
    CASE n >= ConfigOf(w).pages    -> completed
      [] n >= ConfigOf(w).maxPages -> "fail"
      [] OTHER                     -> "page"

\* The stored checkpoint, or a fresh one when it cannot be loaded.
ResumeRun(w, n) ==
    /\ phase[w] = "load" /\ ConfigOf(w).provider # "tcmb"
    /\ n \in {checkpoint[RunOf(w)], 0}
    /\ pagesDone' = [pagesDone EXCEPT ![w] = n]
    /\ Goto(w, NextPhase(w, n, "check"))
    /\ UNCHANGED <<scheduleVars, runVars, claim, fetched>>

\* Pipeline.Run: a run that has already succeeded is not repeated.
ResumePipeline(w) ==
    /\ phase[w] = "load" /\ ConfigOf(w).provider = "tcmb"
    /\ Goto(w, IF status[RunOf(w)] = "succeeded" THEN "done" ELSE "page")
    /\ UNCHANGED <<scheduleVars, runVars, claim, pagesDone, fetched>>

\* The checkpoint was complete already: only the status may be missing.
CheckStatus(w) ==
    /\ phase[w] = "check"
    /\ Goto(w, IF status[RunOf(w)] = "succeeded" THEN "done" ELSE "complete")
    /\ UNCHANGED <<scheduleVars, runVars, claim, pagesDone, fetched>>

-----------------------------------------------------------------------------
(* One page.                                                               *)

\* The answer is fetched, archived under its digest and registered.
FetchPage(w, c) ==
    LET p == pagesDone[w] + 1 IN
    /\ phase[w] = "page"
    /\ RegisterRawObject(RunOf(w), p, c)
    /\ Goto(w, IF RawObjectConflict(RunOf(w), p, c) THEN "fail" ELSE "persist")
    /\ fetched' = [fetched EXCEPT ![w] = c]
    /\ UNCHANGED <<scheduleVars, claim, pagesDone>>

\* The loaded checkpoint belongs to another request, or fetch, archive,
\* normalization or a database call fails.
PageError(w) ==
    /\ \/ phase[w] = "load" /\ ConfigOf(w).provider # "tcmb"
       \/ phase[w] \in {"page", "persist", "save"}
    /\ Goto(w, "fail")
    /\ UNCHANGED <<scheduleVars, runVars, claim, pagesDone, fetched>>

\* checkpoint.Advance and the head of the loop.
AdvancePage(w) ==
    /\ pagesDone' = [pagesDone EXCEPT ![w] = @ + 1]
    /\ Goto(w, NextPhase(w, pagesDone[w] + 1, "complete"))

\* FRED writes the revisions and the checkpoint one after the other.
PersistFRED(w) ==
    /\ phase[w] = "persist" /\ ConfigOf(w).provider = "fred"
    /\ PersistRecords(RunOf(w), pagesDone[w] + 1, fetched[w])
    /\ Goto(w, "save")
    /\ UNCHANGED <<scheduleVars, claim, pagesDone, fetched>>

SaveFRED(w) ==
    /\ phase[w] = "save"
    /\ SaveCheckpoint(RunOf(w), pagesDone[w] + 1)
    /\ AdvancePage(w)
    /\ UNCHANGED <<scheduleVars, claim, fetched>>

PersistBinance(w) ==
    /\ phase[w] = "persist" /\ ConfigOf(w).provider = "binance"
    /\ PersistRecordsAndCheckpoint(RunOf(w), pagesDone[w] + 1, fetched[w])
    /\ AdvancePage(w)
    /\ UNCHANGED <<scheduleVars, claim, fetched>>

\* Variant of PersistTCMB without the coverage check.
PersistTCMBUncovered(w) ==
    /\ phase[w] = "persist" /\ ConfigOf(w).provider = "tcmb"
    /\ PersistRecords(RunOf(w), pagesDone[w] + 1, fetched[w])
    /\ Goto(w, "complete")
    /\ UNCHANGED <<scheduleVars, claim, pagesDone, fetched>>

\* The pipeline has one request; an answer that does not cover the window is
\* kept but the run fails.  TCMB writes quotes and observations one after the
\* other: the run also fails when only the first are stored.
PersistTCMB(w) ==
    /\ phase[w] = "persist" /\ ConfigOf(w).provider = "tcmb"
    /\ PersistRecords(RunOf(w), pagesDone[w] + 1, fetched[w])
    /\ \/ Goto(w, IF ConfigOf(w).pages > 1 THEN "fail" ELSE "complete")
       \/ Goto(w, "fail")
    /\ UNCHANGED <<scheduleVars, claim, pagesDone, fetched>>

-----------------------------------------------------------------------------
(* Ending.                                                                 *)

FinishRun(w) ==
    /\ phase[w] = "complete"
    /\ CompleteRun(RunOf(w))
    /\ Goto(w, "done")
    /\ UNCHANGED <<scheduleVars, claim, pagesDone, fetched>>

\* The result of FailRun is ignored.
AbortRun(w) ==
    /\ phase[w] = "fail"
    /\ FailRun(RunOf(w)) \/ UNCHANGED runVars
    /\ Goto(w, "error")
    /\ UNCHANGED <<scheduleVars, claim, pagesDone, fetched>>

ReportSuccess(w) ==
    /\ phase[w] = "done"
    /\ Complete(claim[w].sched, claim[w].token, claim[w].occ)
    /\ ReturnToLoop(w)
    /\ UNCHANGED runVars

ReportFailure(w) ==
    /\ phase[w] = "error"
    /\ Fail(claim[w].sched, claim[w].token, claim[w].attempt)
    /\ ReturnToLoop(w)
    /\ UNCHANGED runVars

\* ErrLeaseLost: the schedule is left alone.
ReportRefused(w) ==
    /\ phase[w] \in {"done", "error"}
    /\ ~ HoldsClaim(claim[w].sched, claim[w].token)
    /\ ReturnToLoop(w)
    /\ UNCHANGED <<scheduleVars, runVars>>

\* The process dies and is restarted, or a report does not reach the database.
Crash(w) ==
    /\ phase[w] # "idle"
    /\ ReturnToLoop(w)
    /\ UNCHANGED <<scheduleVars, runVars>>

HandlerStep(w) ==
    \/ HandlerError(w) \/ BeginRun(w) \/ ResumePipeline(w) \/ CheckStatus(w)
    \/ \E n \in 0..PageLimit : ResumeRun(w, n)
    \/ \E c \in Content : FetchPage(w, c)
    \/ PageError(w) \/ PersistFRED(w) \/ SaveFRED(w) \/ PersistBinance(w)
    \/ PersistTCMB(w) \/ FinishRun(w) \/ AbortRun(w)
    \/ ReportSuccess(w) \/ ReportFailure(w) \/ ReportRefused(w)

TakeSome(w) == \E s \in Schedule : TakeSchedule(w, s)

Register(s) ==
    /\ \E c \in Config, d \in 0..Interval : UpsertSchedule(s, c, d)
    /\ UNCHANGED <<runVars, processVars>>

CollectorNext ==
    \/ \E s \in Schedule : Register(s)
    \/ \E w \in Process : TakeSome(w) \/ NothingDue(w) \/ HandlerStep(w) \/ Crash(w)
    \/ Tick /\ UNCHANGED <<runVars, processVars>>

CollectorSpec == CollectorInit /\ [][CollectorNext]_allVars

\* Time passes, and a reliable process polls and gets through its handler: every
\* request and statement of it is bounded by a timeout.
CollectorFairness ==
    /\ WF_allVars(Tick /\ UNCHANGED <<runVars, processVars>>)
    /\ \A w \in Reliable :
          WF_allVars(TakeSome(w)) /\ WF_allVars(HandlerStep(w))

FairCollectorSpec == CollectorSpec /\ CollectorFairness

-----------------------------------------------------------------------------
(* Properties.  Those of IngestionRuns are checked here as well.           *)

ProcessOK(w) ==
    /\ phase[w] = "idle" <=> claim[w] = NoClaim
    /\ phase[w] \in {"persist", "save"} => fetched[w] \in Content

\* Every variable holds a value of its type, and a process has a claim exactly
\* while RunOnce is handling one.
CollectorTypeOK ==
    /\ ScheduleTypeOK
    /\ RunTypeOK
    /\ phase \in [Process -> Phase]
    /\ claim \in [Process -> Claim \cup {NoClaim}]
    /\ pagesDone \in [Process -> 0..PageLimit]
    /\ fetched \in [Process -> Content \cup {NoContent}]
    /\ \A w \in Process : ProcessOK(w)

\* The report of process w would be accepted.
HoldsLive(w) ==
    /\ phase[w] # "idle"
    /\ HoldsClaim(claim[w].sched, claim[w].token)

\* Fencing: of all the processes that were handed a schedule, over expiries,
\* retries and restarts, at most one can report on it, and it works on the
\* occurrence that is due, with the attempt number in the row.
ReportsAreFenced ==
    /\ \A v, w \in Process :
          HoldsLive(v) /\ HoldsLive(w) /\ claim[v].sched = claim[w].sched => v = w
    /\ \A w \in Process : HoldsLive(w) =>
          /\ claim[w].occ = occ[claim[w].sched]
          /\ claim[w].attempt = attemptCount[claim[w].sched]

\* Every page of the window of schedule s was ingested for occurrence o.
Ingested(s, o) == \A p \in 1..config[s].pages : HasPage(<<s, o>>, p)

\* A schedule never moves on from an occurrence that was not ingested whole, no
\* matter how many processes worked on it and where they stopped.
NoOccurrenceSkipped ==
    \A s \in Schedule : \A o \in Occurrence : o < occ[s] => Ingested(s, o)

\* A run reported as succeeded has every page of its window, whoever
\* completed it.
SucceededRunIsWhole ==
    \A s \in Schedule : \A o \in Occurrence :
        status[<<s, o>>] = "succeeded" => Ingested(s, o)

\* Schedule s can still be claimed for occurrence o, now or later.
Claimable(s, o) == active[s] /\ occ[s] = o /\ attemptCount[s] < MaxAttempts

\* A hung or crashed process does not stop a schedule: while it has attempts
\* left it is claimed again, until the occurrence is done or the attempts are.
\* ([]<> ~ C is C ~> ~ C: no occurrence stays claimable for ever.)
SchedulesMove ==
    \A s \in Schedule : \A o \in Occurrence : []<> ~ Claimable(s, o)

\* What AR-707 lists, "exhausted attempts deactivating a schedule".
ExhaustedIsSwitchedOff ==
    \A s \in Schedule :
        active[s] /\ attemptCount[s] = MaxAttempts
            ~> ~ active[s] \/ attemptCount[s] < MaxAttempts

\* What SYSTEM_ARCHITECTURE says, "a restarted or stale process cannot finish a
\* newer claim": the run that a completed schedule points at has succeeded and
\* stays so.
LastRunSucceeded ==
    \A s \in Schedule : lastRun[s] # 0 => status[<<s, lastRun[s]>>] = "succeeded"
=============================================================================
