-------------------------- MODULE Collector_proofs --------------------------
(***************************************************************************)
(* Proofs about Collector, for any schedules, processes, configurations,   *)
(* attempts, leases and answers of the providers.                          *)
(*                                                                         *)
(* Two arguments meet here.  Fencing: a claim's token is the latest one or *)
(* an older one, no two claims have the same, and the row that still has   *)
(* it has not changed its occurrence since.  Progress on pages: whatever a *)
(* process believes to be done is in the database, and stays there however *)
(* many others work on the same run.                                       *)
(***************************************************************************)
EXTENDS Collector, TLAPS

Busy(w) == phase[w] # "idle"

\* The token of a claim is one that was handed out, and the row that still has
\* it is as it was claimed.
ClaimIsFenced(w) ==
    Busy(w) =>
        /\ claim[w].token <= issued[claim[w].sched]
        /\ token[claim[w].sched] = claim[w].token =>
              /\ claim[w].occ = occ[claim[w].sched]
              /\ claim[w].attempt = attemptCount[claim[w].sched]

\* No token is handed out twice, and none is stored that was not handed out.
TokensAreFresh ==
    /\ \A s \in Schedule : token[s] <= issued[s]
    /\ \A v, w \in Process :
          /\ Busy(v) /\ Busy(w)
          /\ claim[v].sched = claim[w].sched /\ claim[v].token = claim[w].token
          => v = w

FenceInv == TokensAreFresh /\ \A w \in Process : ClaimIsFenced(w)

\* What a process believes to be done for its occurrence is in the database.
WorkInv(w) ==
    /\ phase[w] \in {"idle", "start", "load"} => pagesDone[w] = 0
    /\ Busy(w) =>
        /\ ConfigOf(w) \in Config
        /\ ConfigOf(w).provider = "tcmb" => pagesDone[w] = 0
        /\ \A p \in 1..pagesDone[w] : HasPage(RunOf(w), p)
        /\ phase[w] \in {"page", "persist", "save"} => pagesDone[w] + 1 \in Page
        /\ phase[w] = "persist" => registered[RunOf(w)][pagesDone[w] + 1] = fetched[w]
        /\ phase[w] = "save" => /\ ConfigOf(w).provider = "fred"
                                /\ HasPage(RunOf(w), pagesDone[w] + 1)
        /\ phase[w] \in {"check", "complete", "done"} => Ingested(claim[w].sched, claim[w].occ)

\* Nothing happens to a name before it is registered.
NothingBeforeRegister ==
    \A s \in Schedule : config[s] = NoConfig =>
        /\ ~ active[s]
        /\ occ[s] = 1
        /\ \A o \in Occurrence : status[<<s, o>>] = "none"

CollectorInv ==
    /\ CollectorTypeOK
    /\ FenceInv
    /\ \A w \in Process : WorkInv(w)
    /\ NothingBeforeRegister
    /\ RunRecordsHold
    /\ NoOccurrenceSkipped
    /\ SucceededRunIsWhole

-----------------------------------------------------------------------------
(* Facts about the operators.                                              *)

\* A claim belongs to a schedule and an occurrence, and to the run of both.
LEMMA ClaimFacts ==
  ASSUME CollectorTypeOK, NEW w \in Process, Busy(w)
  PROVE  /\ claim[w] \in Claim
         /\ claim[w].sched \in Schedule /\ claim[w].occ \in Occurrence
         /\ claim[w].token \in Nat \ {0} /\ claim[w].attempt \in 1..MaxAttempts
         /\ RunOf(w) \in Run
  <1>1. claim[w] \in Claim
    BY DEF CollectorTypeOK, ProcessOK, Busy
  <1>2. /\ claim[w].sched \in Schedule /\ claim[w].occ \in Occurrence
        /\ claim[w].token \in Nat \ {0} /\ claim[w].attempt \in 1..MaxAttempts
    BY <1>1 DEF Claim
  <1> QED BY <1>1, <1>2, CollectorAssumption DEF RunOf

\* A window has at least one page, and a loop at most PageLimit rounds.
LEMMA ConfigFacts ==
  ASSUME NEW c \in Config
  PROVE  /\ c.provider \in {"fred", "tcmb", "binance"}
         /\ c.pages \in Page /\ c.maxPages \in Page
         /\ c # NoConfig
  BY CollectorAssumption, ScheduleAssumption DEF Page

\* The ends of the ranges of a schedule's columns.
LEMMA RangeFacts ==
  /\ 0 \in 0..LeaseTime /\ LeaseTime \in 0..LeaseTime
  /\ Interval \in 0..Interval /\ 0 \in 0..Interval
  /\ 0 \in 0..MaxAttempts
  BY ScheduleAssumption

\* A row that is given up keeps its types.
LEMMA UnleaseType ==
  ASSUME ScheduleTypeOK, NEW s \in Schedule, Unlease(s)
  PROVE  token' \in [Schedule -> Nat] /\ lease' \in [Schedule -> 0..LeaseTime]
  BY RangeFacts DEF ScheduleTypeOK, Unlease

\* Every claim is a claim.
LEMMA NoClaimFacts == NoClaim \notin Claim
  BY CollectorAssumption, ScheduleAssumption DEF Claim

\* Runs are the pairs of a schedule and an occurrence.
LEMMA RunFacts ==
  ASSUME NEW s \in Schedule, NEW o \in Occurrence
  PROVE  <<s, o>> \in Run
  BY CollectorAssumption

-----------------------------------------------------------------------------
(* The invariant holds initially.                                          *)

\* No schedule is registered and no process has a claim.
LEMMA InitEstablishes == CollectorInit => CollectorInv
  <1> SUFFICES ASSUME CollectorInit PROVE CollectorInv
    OBVIOUS
  <1> USE DEF CollectorInit, ScheduleInit, RunInit
  <1>1. ScheduleTypeOK
    BY ScheduleAssumption DEF ScheduleTypeOK
  <1>2. RunTypeOK
    BY RunAssumption DEF RunTypeOK, RunStatus
  <1>3. CollectorTypeOK
    BY <1>1, <1>2, RunAssumption DEF CollectorTypeOK, Phase, ProcessOK
  <1>4. FenceInv /\ \A w \in Process : WorkInv(w)
    BY DEF FenceInv, TokensAreFresh, ClaimIsFenced, WorkInv, Busy
  <1>5. NothingBeforeRegister
    BY RunFacts DEF NothingBeforeRegister
  <1>6. RunRecordsHold
    BY DEF RunRecordsHold, RecordsHaveProvenance, CheckpointIsPersisted
  <1>7. NoOccurrenceSkipped /\ SucceededRunIsWhole
    BY RunFacts, ScheduleAssumption DEF NoOccurrenceSkipped, SucceededRunIsWhole, Occurrence
  <1> QED BY <1>3, <1>4, <1>5, <1>6, <1>7 DEF CollectorInv

-----------------------------------------------------------------------------
(* What is ingested stays ingested.                                        *)

\* Revisions are never removed, and neither is the retrieval of a page.
RunsGrow ==
    \A r \in Run :
        /\ persisted[r] \subseteq persisted'[r]
        /\ \A p \in Page : registered[r][p] # NoContent => registered'[r][p] = registered[r][p]

\* A configuration is never changed.
ConfigsStay == \A s \in Schedule : config[s] # NoConfig => config'[s] = config[s]

\* A process that does not take the step.
Untouched(v) ==
    /\ phase'[v] = phase[v] /\ claim'[v] = claim[v]
    /\ pagesDone'[v] = pagesDone[v] /\ fetched'[v] = fetched[v]

\* A page that was written stays.
LEMMA PagesStay ==
  ASSUME RunsGrow, NEW r \in Run, NEW p, HasPage(r, p)
  PROVE  HasPage(r, p)'
  BY DEF RunsGrow, HasPage

\* An ingested occurrence of a registered schedule stays ingested.
LEMMA IngestedStays ==
  ASSUME RunsGrow, ConfigsStay, NEW s \in Schedule, NEW o \in Occurrence,
         config[s] # NoConfig, Ingested(s, o)
  PROVE  Ingested(s, o)'
  <1>1. <<s, o>> \in Run /\ config'[s] = config[s]
    BY RunFacts DEF ConfigsStay
  <1> QED BY <1>1, PagesStay DEF Ingested

\* What a process believes to be done stays done while others work.
LEMMA UntouchedKeeps ==
  ASSUME CollectorTypeOK, RunsGrow, ConfigsStay, NEW v \in Process, WorkInv(v), Untouched(v)
  PROVE  WorkInv(v)'
  <1>1. CASE ~ Busy(v)
    BY <1>1 DEF WorkInv, Untouched, Busy
  <1>2. CASE Busy(v)
    <2> PICK s, o, r, n : /\ s = claim[v].sched /\ o = claim[v].occ /\ r = <<s, o>>
                          /\ n = pagesDone[v]
      OBVIOUS
    <2>1. s \in Schedule /\ o \in Occurrence /\ r \in Run /\ RunOf(v) = r
      BY <1>2, ClaimFacts DEF RunOf
    <2>2. ConfigOf(v) \in Config /\ config[s] # NoConfig
      BY <1>2, ConfigFacts DEF WorkInv, ConfigOf
    <2>3. /\ ConfigOf(v)' = ConfigOf(v) /\ RunOf(v)' = r
          /\ claim'[v].sched = s /\ claim'[v].occ = o /\ pagesDone'[v] = n
      BY <2>1, <2>2 DEF ConfigOf, RunOf, ConfigsStay, Untouched
    <2>4. \A p \in 1..n : HasPage(r, p)'
      BY <1>2, <2>1, PagesStay DEF WorkInv
    <2>5. phase[v] = "persist" => registered'[r][n + 1] = fetched[v]
      <3> SUFFICES ASSUME phase[v] = "persist" PROVE registered'[r][n + 1] = fetched[v]
        OBVIOUS
      <3>1. registered[r][n + 1] = fetched[v] /\ n + 1 \in Page /\ fetched[v] # NoContent
        BY <1>2, <2>1, RunAssumption DEF WorkInv, CollectorTypeOK, ProcessOK
      <3> QED BY <2>1, <3>1 DEF RunsGrow
    <2>6. phase[v] = "save" => HasPage(r, n + 1)'
      BY <1>2, <2>1, PagesStay DEF WorkInv
    <2>7. phase[v] \in {"check", "complete", "done"} => Ingested(s, o)'
      BY <1>2, <2>1, <2>2, IngestedStays DEF WorkInv
    <2>8. \A p \in 1..pagesDone'[v] : HasPage(RunOf(v), p)'
      BY <2>3, <2>4 DEF HasPage
    <2>9. phase[v] = "save" => HasPage(RunOf(v), pagesDone[v] + 1)'
      BY <2>3, <2>6 DEF HasPage
    <2>10. phase[v] \in {"check", "complete", "done"}
              => Ingested(claim[v].sched, claim[v].occ)'
      BY <2>3, <2>7 DEF Ingested
    <2> QED BY <1>2, <2>1, <2>2, <2>3, <2>5, <2>8, <2>9, <2>10 DEF WorkInv, Untouched, Busy
  <1> QED BY <1>1, <1>2

-----------------------------------------------------------------------------
(* Steps of a handler: the schedules and the claims are left alone.        *)

\* A status changes only in the run of w, and becomes "succeeded" only for an
\* occurrence that is ingested.
StatusIsEarned(w) ==
    \A r \in Run : status'[r] # status[r] =>
        /\ r = RunOf(w)
        /\ status'[r] = "succeeded" => Ingested(claim[w].sched, claim[w].occ)

\* A step of the handler of w: it is enough to look at w and at its run.
LEMMA HandlerFrame ==
  ASSUME CollectorInv, NEW w \in Process, Busy(w), NEW ph \in Phase \ {"idle"}, Goto(w, ph),
         UNCHANGED <<scheduleVars, claim>>, RunsGrow, RunTypeOK', RunRecordsHold',
         StatusIsEarned(w),
         pagesDone' \in [Process -> 0..PageLimit],
         fetched' \in [Process -> Content \cup {NoContent}],
         \A v \in Process \ {w} : pagesDone'[v] = pagesDone[v] /\ fetched'[v] = fetched[v],
         ph \in {"persist", "save"} => fetched'[w] \in Content,
         WorkInv(w)'
  PROVE  CollectorInv'
  <1>0. /\ CollectorTypeOK /\ FenceInv /\ NothingBeforeRegister
        /\ NoOccurrenceSkipped /\ SucceededRunIsWhole
        /\ \A v \in Process : WorkInv(v)
    BY DEF CollectorInv
  <1>1. /\ phase'[w] = ph /\ ph # "idle" /\ phase[w] # "idle"
        /\ \A v \in Process \ {w} : phase'[v] = phase[v]
        /\ phase' \in [Process -> Phase]
    BY <1>0 DEF CollectorTypeOK, Goto, Busy
  <1>2. CollectorTypeOK'
    <2>1. ScheduleTypeOK'
      BY <1>0 DEF CollectorTypeOK, ScheduleTypeOK, scheduleVars
    <2>2. \A v \in Process : ProcessOK(v)'
      BY <1>0, <1>1 DEF CollectorTypeOK, ProcessOK
    <2> QED BY <1>0, <1>1, <2>1, <2>2 DEF CollectorTypeOK
  <1>3. FenceInv'
    <2>1. \A v \in Process : Busy(v)' <=> Busy(v)
      BY <1>1 DEF Busy
    <2> QED BY <1>0, <2>1 DEF FenceInv, TokensAreFresh, ClaimIsFenced, scheduleVars
  <1>4. \A v \in Process : WorkInv(v)'
    <2>1. ConfigsStay
      BY DEF ConfigsStay, scheduleVars
    <2>2. \A v \in Process \ {w} : Untouched(v)
      BY <1>1 DEF Untouched
    <2> QED BY <1>0, <2>1, <2>2, UntouchedKeeps
  <1>5. /\ claim[w].sched \in Schedule /\ claim[w].occ \in Occurrence
        /\ config[claim[w].sched] # NoConfig
    BY <1>0, ClaimFacts, ConfigFacts DEF WorkInv, ConfigOf
  <1>6. \A s \in Schedule, o \in Occurrence :
           config[s] # NoConfig /\ Ingested(s, o) => Ingested(s, o)'
    BY IngestedStays DEF ConfigsStay, scheduleVars
  <1>7. NothingBeforeRegister'
    <2> SUFFICES ASSUME NEW s \in Schedule, config[s] = NoConfig, NEW o \in Occurrence
                 PROVE  status'[<<s, o>>] = status[<<s, o>>]
      BY <1>0 DEF NothingBeforeRegister, scheduleVars
    <2>1. <<s, o>> # RunOf(w)
      BY <1>5 DEF RunOf
    <2> QED BY <2>1, RunFacts DEF StatusIsEarned
  <1>8. NoOccurrenceSkipped'
    <2> SUFFICES ASSUME NEW s \in Schedule, NEW o \in Occurrence, o < occ[s]
                 PROVE  Ingested(s, o)'
      BY DEF NoOccurrenceSkipped, scheduleVars
    <2>1. o >= 1
      BY ScheduleAssumption DEF Occurrence
    <2>2. config[s] # NoConfig
      BY <1>0, <2>1 DEF NothingBeforeRegister, Occurrence
    <2> QED BY <1>0, <1>6, <2>2 DEF NoOccurrenceSkipped
  <1>9. SucceededRunIsWhole'
    <2> SUFFICES ASSUME NEW s \in Schedule, NEW o \in Occurrence, status'[<<s, o>>] = "succeeded"
                 PROVE  Ingested(s, o)'
      BY DEF SucceededRunIsWhole
    <2>1. CASE status[<<s, o>>] = "succeeded"
      <3>1. Ingested(s, o) /\ config[s] # NoConfig
        BY <1>0, <2>1 DEF SucceededRunIsWhole, NothingBeforeRegister
      <3> QED BY <1>6, <3>1
    <2>2. CASE status[<<s, o>>] # "succeeded"
      <3>1. <<s, o>> = RunOf(w) /\ Ingested(claim[w].sched, claim[w].occ)
        BY <2>2, RunFacts DEF StatusIsEarned
      <3>2. s = claim[w].sched /\ o = claim[w].occ
        BY <3>1 DEF RunOf
      <3> QED BY <1>5, <1>6, <3>1, <3>2
    <2> QED BY <2>1, <2>2
  <1> QED BY <1>2, <1>3, <1>4, <1>7, <1>8, <1>9 DEF CollectorInv

\* A step of the handler that only moves on.
LEMMA MoveOn ==
  ASSUME CollectorInv, NEW w \in Process, Busy(w), NEW ph \in Phase \ {"idle"}, Goto(w, ph),
         UNCHANGED <<scheduleVars, runVars, claim, fetched>>,
         pagesDone' \in [Process -> 0..PageLimit],
         \A v \in Process \ {w} : pagesDone'[v] = pagesDone[v],
         ph \notin {"persist", "save"},
         WorkInv(w)'
  PROVE  CollectorInv'
  <1>0. CollectorTypeOK /\ RunRecordsHold
    BY DEF CollectorInv
  <1>1. RunsGrow /\ StatusIsEarned(w)
    BY DEF RunsGrow, StatusIsEarned, runVars
  <1>2. RunTypeOK'
    BY <1>0 DEF CollectorTypeOK, RunTypeOK, runVars
  <1>3. RunRecordsHold'
    BY <1>0 DEF RunRecordsHold, RecordsHaveProvenance, CheckpointIsPersisted, HasPage, runVars
  <1>4. fetched' \in [Process -> Content \cup {NoContent}]
    BY <1>0 DEF CollectorTypeOK
  <1> QED BY <1>1, <1>2, <1>3, <1>4, HandlerFrame

\* All that is known of w after a step that keeps its pages, but for what its
\* new phase promises.
LEMMA KnownStays ==
  ASSUME CollectorInv, NEW w \in Process, Busy(w), RunsGrow,
         UNCHANGED <<scheduleVars, claim>>, pagesDone'[w] = pagesDone[w]
  PROVE  /\ ConfigOf(w)' = ConfigOf(w) /\ RunOf(w)' = RunOf(w)
         /\ ConfigOf(w) \in Config
         /\ ConfigOf(w).provider = "tcmb" => pagesDone[w] = 0
         /\ \A p \in 1..pagesDone'[w] : HasPage(RunOf(w), p)'
         /\ Ingested(claim[w].sched, claim[w].occ) => Ingested(claim[w].sched, claim[w].occ)'
  <1> PICK s, o, r : s = claim[w].sched /\ o = claim[w].occ /\ r = RunOf(w)
    OBVIOUS
  <1>0. CollectorTypeOK /\ WorkInv(w)
    BY DEF CollectorInv
  <1>1. s \in Schedule /\ o \in Occurrence /\ r \in Run
    BY <1>0, ClaimFacts
  <1>2. ConfigOf(w) \in Config /\ config[s] # NoConfig
    BY <1>0, ConfigFacts DEF WorkInv, ConfigOf
  <1>3. ConfigOf(w)' = ConfigOf(w) /\ RunOf(w)' = r
    BY DEF ConfigOf, RunOf, scheduleVars
  <1>4. \A p \in 1..pagesDone[w] : HasPage(r, p)'
    BY <1>0, <1>1, PagesStay DEF WorkInv
  <1>5. \A p \in 1..pagesDone'[w] : HasPage(RunOf(w), p)'
    BY <1>3, <1>4 DEF HasPage
  <1>6. Ingested(s, o) => Ingested(s, o)'
    BY <1>1, <1>2, IngestedStays DEF ConfigsStay, scheduleVars
  <1> QED BY <1>0, <1>2, <1>3, <1>5, <1>6 DEF WorkInv, Ingested

\* What w knows after a step that keeps its pages, once its new phase's promise
\* is met.
LEMMA WorkAfter ==
  ASSUME CollectorInv, NEW w \in Process, Busy(w), RunsGrow,
         UNCHANGED <<scheduleVars, claim>>, pagesDone'[w] = pagesDone[w],
         NEW ph \in Phase \ {"idle"}, phase'[w] = ph,
         ph \in {"start", "load"} => pagesDone[w] = 0,
         ph \in {"page", "persist", "save"} => pagesDone[w] + 1 \in Page,
         ph = "persist" => registered'[RunOf(w)][pagesDone[w] + 1] = fetched'[w],
         ph = "save" => ConfigOf(w).provider = "fred" /\ HasPage(RunOf(w), pagesDone[w] + 1)',
         ph \in {"check", "complete", "done"} =>
             Ingested(claim[w].sched, claim[w].occ) \/ Ingested(claim[w].sched, claim[w].occ)'
  PROVE  WorkInv(w)'
  <1>1. /\ ConfigOf(w)' = ConfigOf(w) /\ RunOf(w)' = RunOf(w)
        /\ ConfigOf(w) \in Config
        /\ ConfigOf(w).provider = "tcmb" => pagesDone[w] = 0
        /\ \A p \in 1..pagesDone'[w] : HasPage(RunOf(w), p)'
        /\ Ingested(claim[w].sched, claim[w].occ) => Ingested(claim[w].sched, claim[w].occ)'
    BY KnownStays
  <1> QED BY <1>1 DEF WorkInv, Busy

\* The loop of a provider goes on only below both limits, and is complete only
\* with all pages.
LEMMA NextPhaseFacts ==
  ASSUME NEW w, ConfigOf(w) \in Config, NEW n \in 0..PageLimit, NEW c \in {"check", "complete"}
  PROVE  /\ NextPhase(w, n, c) \in {c, "fail", "page"}
         /\ NextPhase(w, n, c) = c => n >= ConfigOf(w).pages
         /\ NextPhase(w, n, c) = "page" => n + 1 \in Page
  <1>1. ConfigOf(w).pages \in 1..PageLimit /\ ConfigOf(w).maxPages \in 1..PageLimit
    BY ConfigFacts DEF Page
  <1> QED BY <1>1, RunAssumption DEF NextPhase, Page

\* All pages up to n are there, and n is enough.
LEMMA EnoughPages ==
  ASSUME NEW s, NEW o, NEW n \in Nat, config[s].pages \in Nat, n >= config[s].pages,
         \A p \in 1..n : HasPage(<<s, o>>, p)
  PROVE  Ingested(s, o)
  BY DEF Ingested

\* The configuration is unusable, or a statement of the handler fails.
LEMMA HandlerErrorPreserves ==
  ASSUME CollectorInv, NEW w \in Process, HandlerError(w)
  PROVE  CollectorInv'
  <1>0. CollectorTypeOK
    BY DEF CollectorInv
  <1>1. /\ Busy(w) /\ Goto(w, "error") /\ phase'[w] = "error" /\ "error" \in Phase \ {"idle"}
        /\ UNCHANGED <<scheduleVars, runVars, claim, pagesDone, fetched>>
        /\ pagesDone' \in [Process -> 0..PageLimit]
    BY <1>0 DEF HandlerError, Busy, Goto, CollectorTypeOK, Phase
  <1>2. WorkInv(w)'
    BY <1>1, WorkAfter DEF RunsGrow, runVars
  <1> QED BY <1>1, <1>2, MoveOn

\* A page fails: so will the run.
LEMMA PageErrorPreserves ==
  ASSUME CollectorInv, NEW w \in Process, PageError(w)
  PROVE  CollectorInv'
  <1>0. CollectorTypeOK
    BY DEF CollectorInv
  <1>1. /\ Busy(w) /\ Goto(w, "fail") /\ phase'[w] = "fail" /\ "fail" \in Phase \ {"idle"}
        /\ UNCHANGED <<scheduleVars, runVars, claim, pagesDone, fetched>>
        /\ pagesDone' \in [Process -> 0..PageLimit]
    BY <1>0 DEF PageError, Busy, Goto, CollectorTypeOK, Phase
  <1>2. WorkInv(w)'
    BY <1>1, WorkAfter DEF RunsGrow, runVars
  <1> QED BY <1>1, <1>2, MoveOn

\* The checkpoint was complete.
LEMMA CheckStatusPreserves ==
  ASSUME CollectorInv, NEW w \in Process, CheckStatus(w)
  PROVE  CollectorInv'
  <1>0. CollectorTypeOK /\ WorkInv(w)
    BY DEF CollectorInv
  <1>1. PICK ph \in {"done", "complete"} : Goto(w, ph)
    BY DEF CheckStatus
  <1>2. /\ Busy(w) /\ phase'[w] = ph /\ ph \in Phase \ {"idle"}
        /\ UNCHANGED <<scheduleVars, runVars, claim, pagesDone, fetched>>
        /\ pagesDone' \in [Process -> 0..PageLimit]
        /\ Ingested(claim[w].sched, claim[w].occ)
    BY <1>0, <1>1 DEF CheckStatus, Busy, Goto, CollectorTypeOK, Phase, WorkInv
  <1>3. WorkInv(w)'
    BY <1>1, <1>2, WorkAfter DEF RunsGrow, runVars
  <1> QED BY <1>1, <1>2, <1>3, MoveOn

\* The pipeline starts its one request, unless the run has succeeded.
LEMMA ResumePipelinePreserves ==
  ASSUME CollectorInv, NEW w \in Process, ResumePipeline(w)
  PROVE  CollectorInv'
  <1>0. CollectorTypeOK /\ WorkInv(w) /\ SucceededRunIsWhole
    BY DEF CollectorInv
  <1>1. PICK ph \in {"done", "page"} :
           /\ Goto(w, ph)
           /\ ph = "done" => status[RunOf(w)] = "succeeded"
    BY DEF ResumePipeline
  <1>2. /\ Busy(w) /\ phase'[w] = ph /\ ph \in Phase \ {"idle"} /\ phase[w] = "load"
        /\ UNCHANGED <<scheduleVars, runVars, claim, pagesDone, fetched>>
        /\ pagesDone' \in [Process -> 0..PageLimit]
    BY <1>0, <1>1 DEF ResumePipeline, Busy, Goto, CollectorTypeOK, Phase
  <1>3. ph = "done" => Ingested(claim[w].sched, claim[w].occ)
    BY <1>0, <1>1, <1>2, ClaimFacts DEF SucceededRunIsWhole, RunOf
  <1>4. pagesDone[w] + 1 \in Page
    BY <1>0, <1>2, RunAssumption DEF WorkInv, Page
  <1>5. WorkInv(w)'
    BY <1>1, <1>2, <1>3, <1>4, WorkAfter DEF RunsGrow, runVars
  <1> QED BY <1>1, <1>2, <1>5, MoveOn

\* The loop starts from the checkpoint, every page of which is in the database.
LEMMA ResumeRunPreserves ==
  ASSUME CollectorInv, NEW w \in Process, NEW n \in 0..PageLimit, ResumeRun(w, n)
  PROVE  CollectorInv'
  <1> PICK s, o, r : s = claim[w].sched /\ o = claim[w].occ /\ r = <<s, o>>
    OBVIOUS
  <1>0. CollectorTypeOK /\ WorkInv(w) /\ RunRecordsHold /\ Busy(w)
    BY DEF CollectorInv, ResumeRun, Busy
  <1>1. /\ Goto(w, NextPhase(w, n, "check")) /\ n \in {checkpoint[r], 0}
        /\ pagesDone' = [pagesDone EXCEPT ![w] = n]
        /\ UNCHANGED <<scheduleVars, runVars, claim, fetched>>
        /\ ConfigOf(w).provider # "tcmb"
    BY DEF ResumeRun, RunOf
  <1>2. /\ s \in Schedule /\ o \in Occurrence /\ r \in Run /\ RunOf(w) = r
        /\ ConfigOf(w) \in Config /\ ConfigOf(w).pages \in Nat /\ ConfigOf(w) = config[s]
    BY <1>0, ClaimFacts, ConfigFacts DEF RunOf, WorkInv, Page, ConfigOf
  <1> PICK ph : ph = NextPhase(w, n, "check")
    OBVIOUS
  <1>3. /\ ph \in {"check", "fail", "page"} /\ ph \in Phase \ {"idle"}
        /\ ph = "check" => n >= ConfigOf(w).pages
        /\ ph = "page" => n + 1 \in Page
    BY <1>2, NextPhaseFacts DEF Phase
  <1>4. /\ phase'[w] = ph /\ pagesDone'[w] = n /\ pagesDone' \in [Process -> 0..PageLimit]
        /\ \A v \in Process \ {w} : pagesDone'[v] = pagesDone[v]
    BY <1>0, <1>1 DEF CollectorTypeOK, Goto
  <1>5. \A p \in 1..n : HasPage(r, p)
    BY <1>0, <1>1, <1>2 DEF RunRecordsHold, CheckpointIsPersisted
  <1>6. ph = "check" => Ingested(s, o)
    BY <1>2, <1>3, <1>5, EnoughPages
  <1>7. /\ ConfigOf(w)' = ConfigOf(w) /\ RunOf(w)' = r
        /\ claim' = claim /\ persisted' = persisted /\ config' = config
    BY <1>1, <1>2 DEF ConfigOf, RunOf, scheduleVars, runVars
  <1>8. \A p \in 1..pagesDone'[w] : HasPage(RunOf(w), p)'
    BY <1>4, <1>5, <1>7 DEF HasPage
  <1>9. ph = "check" => Ingested(claim[w].sched, claim[w].occ)'
    BY <1>6, <1>7 DEF Ingested, HasPage
  <1>10. WorkInv(w)'
    BY <1>1, <1>2, <1>3, <1>4, <1>7, <1>8, <1>9 DEF WorkInv, Busy
  <1> QED BY <1>0, <1>1, <1>3, <1>4, <1>10, MoveOn

-----------------------------------------------------------------------------
(* What each write to a run preserves, whoever makes it.                   *)

\* A change of status touches no record.
LEMMA StatusWrites ==
  ASSUME RunTypeOK, RunRecordsHold, NEW r \in Run,
         StartRun(r) \/ CompleteRun(r) \/ FailRun(r) \/ UNCHANGED runVars
  PROVE  RunTypeOK' /\ RunRecordsHold' /\ RunsGrow
  <1>1. UNCHANGED <<checkpoint, registered, persisted>> /\ status' \in [Run -> RunStatus]
    BY DEF RunTypeOK, RunStatus, StartRun, CompleteRun, FailRun, runVars
  <1>2. RunTypeOK'
    BY <1>1 DEF RunTypeOK
  <1>3. RunRecordsHold'
    BY <1>1 DEF RunRecordsHold, RecordsHaveProvenance, CheckpointIsPersisted, HasPage
  <1> QED BY <1>1, <1>2, <1>3 DEF RunsGrow

\* The first retrieval of a page is kept, so no revision loses its raw object.
LEMMA RegisterWrites ==
  ASSUME RunTypeOK, RunRecordsHold, NEW r \in Run, NEW p \in Page, NEW c \in Content,
         RegisterRawObject(r, p, c)
  PROVE  /\ RunTypeOK' /\ RunRecordsHold' /\ RunsGrow
         /\ ~ RawObjectConflict(r, p, c) => registered'[r][p] = c
  <1>1. /\ registered' \in [Run -> [Page -> Content \cup {NoContent}]]
        /\ registered'[r][p] = IF registered[r][p] = NoContent THEN c ELSE registered[r][p]
        /\ \A q \in Run, x \in Page : q # r \/ x # p => registered'[q][x] = registered[q][x]
        /\ UNCHANGED <<status, checkpoint, persisted>>
    BY DEF RunTypeOK, RegisterRawObject
  <1>2. \A q \in Run, x \in Page :
           registered[q][x] # NoContent => registered'[q][x] = registered[q][x]
    BY <1>1
  <1>3. RunTypeOK' /\ RunsGrow
    BY <1>1, <1>2 DEF RunTypeOK, RunsGrow
  <1>4. RecordsHaveProvenance'
    <2> SUFFICES ASSUME NEW q \in Run, NEW x \in persisted[q]
                 PROVE  registered'[q][x[1]] = x[2]
      BY <1>1 DEF RecordsHaveProvenance
    <2>1. x \in Page \X Content /\ registered[q][x[1]] = x[2]
      BY DEF RunTypeOK, RunRecordsHold, RecordsHaveProvenance
    <2>2. x[1] \in Page /\ x[2] # NoContent
      BY <2>1, RunAssumption
    <2> QED BY <1>2, <2>1, <2>2
  <1>5. CheckpointIsPersisted'
    BY <1>1 DEF RunRecordsHold, CheckpointIsPersisted, HasPage
  <1> QED BY <1>1, <1>3, <1>4, <1>5 DEF RunRecordsHold, RawObjectConflict

\* Revisions of the registered retrieval, and a checkpoint whose pages are there.
LEMMA RecordWrites ==
  ASSUME RunTypeOK, RunRecordsHold, NEW r \in Run, NEW p \in Page, NEW c \in Content,
         registered[r][p] = c, UNCHANGED <<status, registered>>,
         \/ persisted' = [persisted EXCEPT ![r] = @ \cup {<<p, c>>}]
         \/ persisted' = persisted /\ HasPage(r, p),
         \/ checkpoint' = checkpoint
         \/ checkpoint' = [checkpoint EXCEPT ![r] = p] /\ \A x \in 1..(p - 1) : HasPage(r, x)
  PROVE  RunTypeOK' /\ RunRecordsHold' /\ RunsGrow /\ HasPage(r, p)'
  <1>1. /\ persisted' \in [Run -> SUBSET (Page \X Content)]
        /\ \A q \in Run : persisted[q] \subseteq persisted'[q]
        /\ \A q \in Run : persisted'[q] \subseteq
              persisted[q] \cup (IF q = r THEN {<<p, c>>} ELSE {})
    BY DEF RunTypeOK
  <1>2. HasPage(r, p)'
    BY DEF HasPage, RunTypeOK
  <1>3. RunsGrow
    BY <1>1 DEF RunsGrow
  <1>4. RunTypeOK'
    BY <1>1 DEF RunTypeOK, Page
  <1>5. RecordsHaveProvenance'
    <2> SUFFICES ASSUME NEW q \in Run, NEW x \in persisted'[q]
                 PROVE  registered[q][x[1]] = x[2]
      BY DEF RecordsHaveProvenance
    <2>1. CASE x \in persisted[q]
      BY <2>1 DEF RunRecordsHold, RecordsHaveProvenance
    <2>2. CASE x \notin persisted[q]
      BY <1>1, <2>2
    <2> QED BY <2>1, <2>2
  <1>6. CheckpointIsPersisted'
    <2> SUFFICES ASSUME NEW q \in Run, NEW x \in 1..checkpoint'[q] PROVE HasPage(q, x)'
      BY DEF CheckpointIsPersisted
    <2>1. CASE x \in 1..checkpoint[q]
      BY <1>3, <2>1, PagesStay DEF RunRecordsHold, CheckpointIsPersisted
    <2>2. CASE x \notin 1..checkpoint[q]
      <3>1. q = r /\ x \in 1..p /\ \A y \in 1..(p - 1) : HasPage(r, y)
        BY <2>2 DEF RunTypeOK
      <3>2. x = p \/ x \in 1..(p - 1)
        BY <3>1 DEF Page
      <3> QED BY <1>2, <1>3, <3>1, <3>2, PagesStay
    <2> QED BY <2>1, <2>2
  <1> QED BY <1>2, <1>3, <1>4, <1>5, <1>6 DEF RunRecordsHold

-----------------------------------------------------------------------------
(* Steps of a handler that write to its run.                               *)

\* The run is started or reused.
LEMMA BeginRunPreserves ==
  ASSUME CollectorInv, NEW w \in Process, BeginRun(w)
  PROVE  CollectorInv'
  <1>0. CollectorTypeOK /\ WorkInv(w) /\ RunRecordsHold /\ Busy(w) /\ phase[w] = "start"
    BY DEF CollectorInv, BeginRun, Busy
  <1>1. /\ Goto(w, "load") /\ phase'[w] = "load" /\ "load" \in Phase \ {"idle"}
        /\ UNCHANGED <<scheduleVars, claim, pagesDone, fetched>>
        /\ pagesDone' \in [Process -> 0..PageLimit]
        /\ fetched' \in [Process -> Content \cup {NoContent}]
        /\ RunOf(w) \in Run /\ StartRun(RunOf(w)) /\ RunTypeOK
    BY <1>0, ClaimFacts DEF BeginRun, Goto, CollectorTypeOK, Phase
  <1>2. RunTypeOK' /\ RunRecordsHold' /\ RunsGrow
    BY <1>0, <1>1, StatusWrites
  <1>3. StatusIsEarned(w)
    BY <1>1 DEF StatusIsEarned, StartRun, RunTypeOK
  <1>4. WorkInv(w)'
    BY <1>0, <1>1, <1>2, WorkAfter DEF WorkInv
  <1> QED BY <1>0, <1>1, <1>2, <1>3, <1>4, HandlerFrame

\* The run is completed: its occurrence is ingested.
LEMMA FinishRunPreserves ==
  ASSUME CollectorInv, NEW w \in Process, FinishRun(w)
  PROVE  CollectorInv'
  <1>0. CollectorTypeOK /\ WorkInv(w) /\ RunRecordsHold /\ Busy(w) /\ phase[w] = "complete"
    BY DEF CollectorInv, FinishRun, Busy
  <1>1. /\ Goto(w, "done") /\ phase'[w] = "done" /\ "done" \in Phase \ {"idle"}
        /\ UNCHANGED <<scheduleVars, claim, pagesDone, fetched>>
        /\ pagesDone' \in [Process -> 0..PageLimit]
        /\ fetched' \in [Process -> Content \cup {NoContent}]
        /\ RunOf(w) \in Run /\ CompleteRun(RunOf(w)) /\ RunTypeOK
    BY <1>0, ClaimFacts DEF FinishRun, Goto, CollectorTypeOK, Phase
  <1>2. RunTypeOK' /\ RunRecordsHold' /\ RunsGrow
    BY <1>0, <1>1, StatusWrites
  <1>3. Ingested(claim[w].sched, claim[w].occ)
    BY <1>0 DEF WorkInv
  <1>4. StatusIsEarned(w)
    BY <1>1, <1>3 DEF StatusIsEarned, CompleteRun, RunTypeOK
  <1>5. WorkInv(w)'
    BY <1>0, <1>1, <1>2, <1>3, WorkAfter
  <1> QED BY <1>0, <1>1, <1>2, <1>4, <1>5, HandlerFrame

\* The run is set to failed, or not even that.
LEMMA AbortRunPreserves ==
  ASSUME CollectorInv, NEW w \in Process, AbortRun(w)
  PROVE  CollectorInv'
  <1>0. CollectorTypeOK /\ RunRecordsHold /\ Busy(w)
    BY DEF CollectorInv, AbortRun, Busy
  <1>1. /\ Goto(w, "error") /\ phase'[w] = "error" /\ "error" \in Phase \ {"idle"}
        /\ UNCHANGED <<scheduleVars, claim, pagesDone, fetched>>
        /\ pagesDone' \in [Process -> 0..PageLimit]
        /\ fetched' \in [Process -> Content \cup {NoContent}]
        /\ RunOf(w) \in Run /\ RunTypeOK
        /\ FailRun(RunOf(w)) \/ UNCHANGED runVars
    BY <1>0, ClaimFacts DEF AbortRun, Goto, CollectorTypeOK, Phase
  <1>2. RunTypeOK' /\ RunRecordsHold' /\ RunsGrow
    BY <1>0, <1>1, StatusWrites
  <1>3. StatusIsEarned(w)
    BY <1>1 DEF StatusIsEarned, FailRun, RunTypeOK, runVars
  <1>4. WorkInv(w)'
    BY <1>0, <1>1, <1>2, WorkAfter
  <1> QED BY <1>0, <1>1, <1>2, <1>3, <1>4, HandlerFrame

\* A page is fetched and registered, or conflicts with an earlier retrieval.
LEMMA FetchPagePreserves ==
  ASSUME CollectorInv, NEW w \in Process, NEW c \in Content, FetchPage(w, c)
  PROVE  CollectorInv'
  <1> PICK r, p : r = RunOf(w) /\ p = pagesDone[w] + 1
    OBVIOUS
  <1>0. CollectorTypeOK /\ WorkInv(w) /\ RunRecordsHold /\ Busy(w) /\ phase[w] = "page"
    BY DEF CollectorInv, FetchPage, Busy
  <1>1. PICK ph \in {"fail", "persist"} :
           /\ Goto(w, ph)
           /\ ph = "persist" => ~ RawObjectConflict(r, p, c)
    BY DEF FetchPage
  <1>2. /\ phase'[w] = ph /\ ph \in Phase \ {"idle"}
        /\ UNCHANGED <<scheduleVars, claim, pagesDone>> /\ UNCHANGED status
        /\ pagesDone' \in [Process -> 0..PageLimit]
        /\ fetched' \in [Process -> Content \cup {NoContent}]
        /\ fetched'[w] = c /\ \A v \in Process \ {w} : fetched'[v] = fetched[v]
        /\ RegisterRawObject(r, p, c) /\ RunTypeOK
    BY <1>0, <1>1 DEF FetchPage, Goto, CollectorTypeOK, Phase, RegisterRawObject
  <1>3. r \in Run /\ p \in Page
    BY <1>0, ClaimFacts DEF WorkInv
  <1>4. /\ RunTypeOK' /\ RunRecordsHold' /\ RunsGrow
        /\ ph = "persist" => registered'[r][p] = c
    BY <1>0, <1>1, <1>2, <1>3, RegisterWrites
  <1>5. StatusIsEarned(w)
    BY <1>2 DEF StatusIsEarned
  <1>6. WorkInv(w)'
    BY <1>0, <1>1, <1>2, <1>3, <1>4, WorkAfter
  <1> QED BY <1>0, <1>1, <1>2, <1>4, <1>5, <1>6, HandlerFrame

\* The page is counted once its revisions are in the database.
LEMMA AdvancePreserves ==
  ASSUME CollectorInv, NEW w \in Process, Busy(w), phase[w] \in {"persist", "save"},
         ConfigOf(w).provider # "tcmb", AdvancePage(w),
         UNCHANGED <<scheduleVars, claim, fetched, status>>,
         RunTypeOK', RunRecordsHold', RunsGrow,
         NEW r \in Run, r = RunOf(w), NEW p \in Page, p = pagesDone[w] + 1, HasPage(r, p)'
  PROVE  CollectorInv'
  <1> PICK s, o : s = claim[w].sched /\ o = claim[w].occ
    OBVIOUS
  <1> PICK ph : ph = NextPhase(w, p, "complete")
    OBVIOUS
  <1>0. CollectorTypeOK /\ WorkInv(w)
    BY DEF CollectorInv
  <1>1. /\ s \in Schedule /\ o \in Occurrence /\ r = <<s, o>> /\ p \in 0..PageLimit /\ p \in Nat
        /\ pagesDone[w] \in Nat
        /\ ConfigOf(w) \in Config /\ ConfigOf(w).pages \in Nat /\ ConfigOf(w) = config[s]
    BY <1>0, ClaimFacts, ConfigFacts DEF RunOf, WorkInv, Page, ConfigOf, CollectorTypeOK
  <1>2. /\ Goto(w, ph) /\ pagesDone' = [pagesDone EXCEPT ![w] = p]
    BY DEF AdvancePage
  <1>3. /\ ph \in {"complete", "fail", "page"} /\ ph \in Phase \ {"idle"}
        /\ ph = "complete" => p >= ConfigOf(w).pages
        /\ ph = "page" => p + 1 \in Page
    BY <1>1, NextPhaseFacts DEF Phase
  <1>4. /\ phase'[w] = ph /\ pagesDone'[w] = p /\ pagesDone' \in [Process -> 0..PageLimit]
        /\ \A v \in Process \ {w} : pagesDone'[v] = pagesDone[v]
        /\ fetched' \in [Process -> Content \cup {NoContent}]
    BY <1>0, <1>1, <1>2 DEF CollectorTypeOK, Goto
  <1>5. \A x \in 1..p : HasPage(r, x)'
    <2>1. \A x \in 1..pagesDone[w] : HasPage(r, x)'
      BY <1>0, PagesStay DEF WorkInv
    <2>2. \A x \in 1..p : x = p \/ x \in 1..pagesDone[w]
      BY <1>1
    <2> QED BY <2>1, <2>2
  <1>6. /\ ConfigOf(w)' = ConfigOf(w) /\ RunOf(w)' = r
        /\ claim' = claim /\ config' = config
    BY DEF ConfigOf, RunOf, scheduleVars
  <1>7. ph = "complete" => Ingested(s, o)'
    BY <1>1, <1>3, <1>5, <1>6 DEF Ingested
  <1>8. \A x \in 1..pagesDone'[w] : HasPage(RunOf(w), x)'
    BY <1>4, <1>5, <1>6 DEF HasPage
  <1>9. ph = "complete" => Ingested(claim[w].sched, claim[w].occ)'
    BY <1>6, <1>7 DEF Ingested
  <1>10. WorkInv(w)'
    BY <1>1, <1>3, <1>4, <1>6, <1>8, <1>9 DEF WorkInv, Busy
  <1>11. StatusIsEarned(w)
    BY DEF StatusIsEarned
  <1> QED BY <1>2, <1>3, <1>4, <1>10, <1>11, HandlerFrame

\* The page that a process is about to write is the registered one.
LEMMA PersistFacts ==
  ASSUME CollectorInv, NEW w \in Process, phase[w] = "persist"
  PROVE  /\ Busy(w) /\ RunOf(w) \in Run /\ pagesDone[w] + 1 \in Page /\ fetched[w] \in Content
         /\ registered[RunOf(w)][pagesDone[w] + 1] = fetched[w]
         /\ CollectorTypeOK /\ RunTypeOK /\ RunRecordsHold /\ WorkInv(w)
         /\ pagesDone[w] \in Nat
         /\ \A x \in 1..pagesDone[w] : HasPage(RunOf(w), x)
  <1>0. CollectorTypeOK /\ RunTypeOK /\ RunRecordsHold /\ WorkInv(w) /\ Busy(w)
    BY DEF CollectorInv, CollectorTypeOK, Busy
  <1> QED BY <1>0, ClaimFacts DEF WorkInv, CollectorTypeOK, ProcessOK

\* FRED: the revisions of the page.
LEMMA PersistFREDPreserves ==
  ASSUME CollectorInv, NEW w \in Process, PersistFRED(w)
  PROVE  CollectorInv'
  <1> PICK r, p, c : r = RunOf(w) /\ p = pagesDone[w] + 1 /\ c = fetched[w]
    OBVIOUS
  <1>0. /\ phase[w] = "persist" /\ ConfigOf(w).provider = "fred" /\ Goto(w, "save")
        /\ PersistRecords(r, p, c) /\ "save" \in Phase \ {"idle"}
        /\ UNCHANGED <<scheduleVars, claim, pagesDone, fetched, status>>
    BY DEF PersistFRED, Phase, PersistRecords
  <1>1. /\ Busy(w) /\ r \in Run /\ p \in Page /\ c \in Content /\ registered[r][p] = c
        /\ CollectorTypeOK /\ RunTypeOK /\ RunRecordsHold
    BY <1>0, PersistFacts
  <1>2. RunTypeOK' /\ RunRecordsHold' /\ RunsGrow /\ HasPage(r, p)'
    BY <1>0, <1>1, RecordWrites DEF PersistRecords
  <1>3. /\ phase'[w] = "save"
        /\ pagesDone' \in [Process -> 0..PageLimit] /\ pagesDone' = pagesDone
        /\ fetched' \in [Process -> Content \cup {NoContent}] /\ fetched' = fetched
    BY <1>0, <1>1 DEF CollectorTypeOK, Goto
  <1>4. HasPage(RunOf(w), pagesDone[w] + 1)'
    <2>1. RunOf(w)' = r
      BY <1>0 DEF RunOf
    <2> QED BY <1>2, <1>3, <2>1 DEF HasPage
  <1>5. WorkInv(w)'
    BY <1>0, <1>1, <1>2, <1>3, <1>4, WorkAfter
  <1>6. StatusIsEarned(w)
    BY <1>0 DEF StatusIsEarned
  <1> QED BY <1>0, <1>1, <1>2, <1>3, <1>5, <1>6, HandlerFrame

\* FRED: the checkpoint, after the revisions it speaks of.
LEMMA SaveFREDPreserves ==
  ASSUME CollectorInv, NEW w \in Process, SaveFRED(w)
  PROVE  CollectorInv'
  <1> PICK r, p : r = RunOf(w) /\ p = pagesDone[w] + 1
    OBVIOUS
  <1>0. /\ phase[w] = "save" /\ SaveCheckpoint(r, p) /\ AdvancePage(w)
        /\ UNCHANGED <<scheduleVars, claim, fetched, status>>
    BY DEF SaveFRED, SaveCheckpoint
  <1>1. /\ CollectorTypeOK /\ RunTypeOK /\ RunRecordsHold /\ WorkInv(w) /\ Busy(w)
    BY <1>0 DEF CollectorInv, CollectorTypeOK, Busy
  <1>2. /\ r \in Run /\ p \in Page /\ pagesDone[w] \in Nat /\ HasPage(r, p)
        /\ ConfigOf(w).provider = "fred"
        /\ \A x \in 1..(p - 1) : HasPage(r, x)
    BY <1>0, <1>1, ClaimFacts DEF WorkInv, CollectorTypeOK
  <1>3. PICK c \in Content : registered[r][p] = c
    BY <1>1, <1>2 DEF HasPage, RunRecordsHold, RecordsHaveProvenance
  <1>4. RunTypeOK' /\ RunRecordsHold' /\ RunsGrow /\ HasPage(r, p)'
    BY <1>0, <1>1, <1>2, <1>3, RecordWrites DEF SaveCheckpoint
  <1> QED BY <1>0, <1>1, <1>2, <1>4, AdvancePreserves

\* Binance: both at once.
LEMMA PersistBinancePreserves ==
  ASSUME CollectorInv, NEW w \in Process, PersistBinance(w)
  PROVE  CollectorInv'
  <1> PICK r, p, c : r = RunOf(w) /\ p = pagesDone[w] + 1 /\ c = fetched[w]
    OBVIOUS
  <1>0. /\ phase[w] = "persist" /\ ConfigOf(w).provider = "binance" /\ AdvancePage(w)
        /\ PersistRecordsAndCheckpoint(r, p, c)
        /\ UNCHANGED <<scheduleVars, claim, fetched, status>>
    BY DEF PersistBinance, PersistRecordsAndCheckpoint
  <1>1. /\ Busy(w) /\ r \in Run /\ p \in Page /\ c \in Content /\ registered[r][p] = c
        /\ RunTypeOK /\ RunRecordsHold
        /\ \A x \in 1..(p - 1) : HasPage(r, x)
    BY <1>0, PersistFacts
  <1>2. RunTypeOK' /\ RunRecordsHold' /\ RunsGrow /\ HasPage(r, p)'
    BY <1>0, <1>1, RecordWrites DEF PersistRecordsAndCheckpoint
  <1> QED BY <1>0, <1>1, <1>2, AdvancePreserves

\* TCMB: one answer, which covers the window or fails the run.
LEMMA PersistTCMBPreserves ==
  ASSUME CollectorInv, NEW w \in Process, PersistTCMB(w)
  PROVE  CollectorInv'
  <1> PICK r, p, c, s, o : /\ r = RunOf(w) /\ p = pagesDone[w] + 1 /\ c = fetched[w]
                           /\ s = claim[w].sched /\ o = claim[w].occ
    OBVIOUS
  <1>0. /\ phase[w] = "persist" /\ ConfigOf(w).provider = "tcmb" /\ PersistRecords(r, p, c)
        /\ UNCHANGED <<scheduleVars, claim, pagesDone, fetched, status>>
    BY DEF PersistTCMB, PersistRecords
  <1>1. /\ Busy(w) /\ r \in Run /\ p \in Page /\ c \in Content /\ registered[r][p] = c
        /\ CollectorTypeOK /\ RunTypeOK /\ RunRecordsHold /\ WorkInv(w)
    BY <1>0, PersistFacts
  <1>2. PICK ph \in {"fail", "complete"} :
           Goto(w, ph) /\ (ph = "complete" => ~ (ConfigOf(w).pages > 1))
    BY DEF PersistTCMB
  <1>3. RunTypeOK' /\ RunRecordsHold' /\ RunsGrow /\ HasPage(r, p)'
    BY <1>0, <1>1, RecordWrites DEF PersistRecords
  <1>4. /\ phase'[w] = ph /\ ph \in Phase \ {"idle"}
        /\ pagesDone' \in [Process -> 0..PageLimit] /\ pagesDone' = pagesDone
        /\ fetched' \in [Process -> Content \cup {NoContent}] /\ fetched' = fetched
    BY <1>0, <1>1, <1>2 DEF CollectorTypeOK, Goto, Phase
  <1>5. ph = "complete" => Ingested(claim[w].sched, claim[w].occ)'
    <2>1. p = 1 /\ r = <<s, o>> /\ ConfigOf(w) = config[s] /\ ConfigOf(w).pages \in Nat \ {0}
      BY <1>0, <1>1, ConfigFacts DEF WorkInv, RunOf, ConfigOf, Page
    <2>2. ph = "complete" => 1..config[s].pages = {1}
      BY <1>2, <2>1
    <2>3. claim' = claim /\ config' = config
      BY <1>0 DEF scheduleVars
    <2> QED BY <1>3, <2>1, <2>2, <2>3 DEF Ingested, HasPage
  <1>6. WorkInv(w)'
    BY <1>0, <1>1, <1>2, <1>3, <1>4, <1>5, WorkAfter
  <1>7. StatusIsEarned(w)
    BY <1>0 DEF StatusIsEarned
  <1> QED BY <1>0, <1>1, <1>2, <1>3, <1>4, <1>6, <1>7, HandlerFrame

-----------------------------------------------------------------------------
(* Steps that end or begin a claim, and the clock.                         *)

\* Nothing that was ingested or that another process knows depends on the end
\* of a claim; the schedule's row is looked at by itself.
LEMMA ReturnFrame ==
  ASSUME CollectorInv, NEW w \in Process, ReturnToLoop(w), UNCHANGED <<runVars, config>>,
         ScheduleTypeOK', FenceInv', NothingBeforeRegister', NoOccurrenceSkipped'
  PROVE  CollectorInv'
  <1>0. CollectorTypeOK /\ RunRecordsHold /\ SucceededRunIsWhole /\ \A v \in Process : WorkInv(v)
    BY DEF CollectorInv
  <1>1. /\ phase'[w] = "idle" /\ claim'[w] = NoClaim /\ pagesDone'[w] = 0
        /\ \A v \in Process \ {w} : Untouched(v)
    BY <1>0 DEF CollectorTypeOK, ReturnToLoop, Goto, Untouched
  <1>2. CollectorTypeOK'
    <2>1. RunTypeOK'
      BY <1>0 DEF CollectorTypeOK, RunTypeOK, runVars
    <2>2. /\ phase' \in [Process -> Phase]
          /\ claim' \in [Process -> Claim \cup {NoClaim}]
          /\ pagesDone' \in [Process -> 0..PageLimit]
          /\ fetched' \in [Process -> Content \cup {NoContent}]
      BY <1>0, RunAssumption DEF CollectorTypeOK, ReturnToLoop, Goto, Phase
    <2>3. \A v \in Process : ProcessOK(v)'
      BY <1>0, <1>1 DEF CollectorTypeOK, ProcessOK, Untouched
    <2> QED BY <2>1, <2>2, <2>3 DEF CollectorTypeOK
  <1>3. RunsGrow /\ ConfigsStay
    BY DEF RunsGrow, ConfigsStay, runVars
  <1>4. WorkInv(w)'
    BY <1>1 DEF WorkInv, Busy
  <1>5. \A v \in Process : WorkInv(v)'
    BY <1>0, <1>1, <1>3, <1>4, UntouchedKeeps
  <1>6. RunRecordsHold' /\ SucceededRunIsWhole'
    BY <1>0 DEF RunRecordsHold, RecordsHaveProvenance, CheckpointIsPersisted,
                SucceededRunIsWhole, Ingested, HasPage, runVars
  <1> QED BY <1>2, <1>5, <1>6 DEF CollectorInv

\* The fence of the claims that are left, when the row of s was given up.
LEMMA FenceAfterReport ==
  ASSUME CollectorInv, NEW w \in Process, ReturnToLoop(w), NEW s \in Schedule, Unlease(s),
         UNCHANGED issued,
         \A x \in Schedule \ {s} : occ'[x] = occ[x] /\ attemptCount'[x] = attemptCount[x]
  PROVE  FenceInv'
  <1>0. CollectorTypeOK /\ FenceInv /\ ScheduleTypeOK
    BY DEF CollectorInv, CollectorTypeOK
  <1>1. /\ phase'[w] = "idle"
        /\ \A v \in Process \ {w} : phase'[v] = phase[v] /\ claim'[v] = claim[v]
    BY <1>0 DEF CollectorTypeOK, ReturnToLoop, Goto
  <1>2. token'[s] = 0 /\ \A x \in Schedule \ {s} : token'[x] = token[x]
    BY <1>0 DEF ScheduleTypeOK, Unlease
  <1>3. TokensAreFresh'
    <2>1. \A x \in Schedule : token'[x] <= issued'[x]
      BY <1>0, <1>2 DEF FenceInv, TokensAreFresh, ScheduleTypeOK
    <2> QED BY <1>0, <1>1, <2>1 DEF FenceInv, TokensAreFresh, Busy
  <1>4. ASSUME NEW v \in Process PROVE ClaimIsFenced(v)'
    <2>1. CASE v = w
      BY <1>1, <2>1 DEF ClaimIsFenced, Busy
    <2>2. CASE v # w /\ Busy(v)
      <3>1. claim[v].sched \in Schedule /\ claim[v].token # 0 /\ claim'[v] = claim[v]
        BY <1>0, <1>1, <2>2, ClaimFacts
      <3> QED BY <1>0, <1>2, <2>2, <3>1 DEF FenceInv, ClaimIsFenced
    <2>3. CASE v # w /\ ~ Busy(v)
      BY <1>1, <2>3 DEF ClaimIsFenced, Busy
    <2> QED BY <2>1, <2>2, <2>3
  <1> QED BY <1>3, <1>4 DEF FenceInv

\* A report of success moves the schedule on from an ingested occurrence.
LEMMA ReportSuccessPreserves ==
  ASSUME CollectorInv, NEW w \in Process, ReportSuccess(w)
  PROVE  CollectorInv'
  <1> PICK s, o, t : s = claim[w].sched /\ o = claim[w].occ /\ t = claim[w].token
    OBVIOUS
  <1>0. /\ CollectorTypeOK /\ ScheduleTypeOK /\ FenceInv /\ WorkInv(w) /\ NothingBeforeRegister
        /\ NoOccurrenceSkipped
    BY DEF CollectorInv, CollectorTypeOK
  <1>1. /\ phase[w] = "done" /\ Busy(w) /\ Complete(s, t, o) /\ ReturnToLoop(w)
        /\ UNCHANGED runVars
    BY DEF ReportSuccess, Busy
  <1>2. s \in Schedule /\ o \in Occurrence /\ config[s] # NoConfig /\ Ingested(s, o)
    BY <1>0, <1>1, ClaimFacts, ConfigFacts DEF WorkInv, ConfigOf
  <1>3. occ[s] = o
    BY <1>0, <1>1 DEF FenceInv, ClaimIsFenced, Complete, HoldsClaim
  <1>4. /\ occ'[s] = o + 1 /\ UNCHANGED <<config, active, issued>> /\ Unlease(s)
        /\ \A x \in Schedule \ {s} : occ'[x] = occ[x] /\ attemptCount'[x] = attemptCount[x]
    BY <1>0, <1>1, <1>2, <1>3 DEF Complete, ScheduleTypeOK
  <1>5. ScheduleTypeOK'
    <2>1. o + 1 \in 1..(Horizon + 1) /\ o \in 0..Horizon
      BY <1>2, ScheduleAssumption DEF Occurrence
    <2>2. occ' \in [Schedule -> 1..Horizon + 1] /\ lastRun' \in [Schedule -> 0..Horizon]
      BY <1>0, <1>1, <1>3, <2>1 DEF ScheduleTypeOK, Complete
    <2>3. token' \in [Schedule -> Nat] /\ lease' \in [Schedule -> 0..LeaseTime]
      BY <1>0, <1>2, <1>4, UnleaseType
    <2>4. wait' \in [Schedule -> 0..Interval] /\ attemptCount' \in [Schedule -> 0..MaxAttempts]
      BY <1>0, <1>1, RangeFacts DEF ScheduleTypeOK, Complete
    <2> QED BY <1>0, <1>4, <2>2, <2>3, <2>4 DEF ScheduleTypeOK
  <1>6. FenceInv'
    BY <1>1, <1>2, <1>4, FenceAfterReport
  <1>7. NothingBeforeRegister'
    BY <1>0, <1>1, <1>2, <1>4 DEF NothingBeforeRegister, runVars
  <1>8. NoOccurrenceSkipped'
    <2> SUFFICES ASSUME NEW x \in Schedule, NEW y \in Occurrence, y < occ'[x]
                 PROVE  Ingested(x, y)'
      BY DEF NoOccurrenceSkipped
    <2>1. Ingested(x, y)
      <3>1. CASE x = s /\ y = o
        BY <1>2, <3>1
      <3>2. CASE ~ (x = s /\ y = o)
        <4>1. y < occ[x]
          BY <1>2, <1>3, <1>4, <3>2, ScheduleAssumption DEF Occurrence
        <4> QED BY <1>0, <4>1 DEF NoOccurrenceSkipped
      <3> QED BY <3>1, <3>2
    <2> QED BY <1>1, <1>4, <2>1 DEF Ingested, HasPage, runVars
  <1> QED BY <1>1, <1>4, <1>5, <1>6, <1>7, <1>8, ReturnFrame

\* Occurrences, registrations and runs that do not change.
LEMMA RowsStay ==
  ASSUME CollectorInv, UNCHANGED <<runVars, config, occ>>,
         \A s \in Schedule : active'[s] => active[s]
  PROVE  NothingBeforeRegister' /\ NoOccurrenceSkipped'
  BY DEF CollectorInv, NothingBeforeRegister, NoOccurrenceSkipped, Ingested, HasPage, runVars

\* A report of failure keeps the occurrence.
LEMMA ReportFailurePreserves ==
  ASSUME CollectorInv, NEW w \in Process, ReportFailure(w)
  PROVE  CollectorInv'
  <1> PICK s, t, a : s = claim[w].sched /\ t = claim[w].token /\ a = claim[w].attempt
    OBVIOUS
  <1>0. CollectorTypeOK /\ ScheduleTypeOK
    BY DEF CollectorInv, CollectorTypeOK
  <1>1. Busy(w) /\ Fail(s, t, a) /\ ReturnToLoop(w) /\ UNCHANGED runVars
    BY DEF ReportFailure, Busy
  <1>2. s \in Schedule
    BY <1>0, <1>1, ClaimFacts
  <1>3. UNCHANGED <<config, attemptCount, issued, occ, lastRun>> /\ Unlease(s)
    BY <1>1 DEF Fail
  <1>4. ScheduleTypeOK'
    <2>1. token' \in [Schedule -> Nat] /\ lease' \in [Schedule -> 0..LeaseTime]
      BY <1>0, <1>2, <1>3, UnleaseType
    <2>2. wait' \in [Schedule -> 0..Interval]
      BY <1>0, <1>1, RangeFacts DEF ScheduleTypeOK, Fail
    <2>3. active' \in [Schedule -> BOOLEAN]
      BY <1>0, <1>1 DEF ScheduleTypeOK, Fail
    <2> QED BY <1>0, <1>3, <2>1, <2>2, <2>3 DEF ScheduleTypeOK
  <1>5. FenceInv'
    BY <1>1, <1>2, <1>3, FenceAfterReport
  <1>6. \A x \in Schedule : active'[x] => active[x]
    BY <1>0, <1>1 DEF ScheduleTypeOK, Fail
  <1>7. NothingBeforeRegister' /\ NoOccurrenceSkipped'
    BY <1>1, <1>3, <1>6, RowsStay
  <1> QED BY <1>1, <1>3, <1>4, <1>5, <1>7, ReturnFrame

\* A refused report, or a crash, leaves the row to whoever has it.
LEMMA GiveUpPreserves ==
  ASSUME CollectorInv, NEW w \in Process, ReturnToLoop(w), UNCHANGED <<scheduleVars, runVars>>
  PROVE  CollectorInv'
  <1>0. CollectorTypeOK /\ ScheduleTypeOK /\ FenceInv
    BY DEF CollectorInv, CollectorTypeOK
  <1>1. ScheduleTypeOK' /\ NothingBeforeRegister' /\ NoOccurrenceSkipped'
    BY <1>0, RowsStay DEF ScheduleTypeOK, scheduleVars
  <1>2. /\ phase'[w] = "idle"
        /\ \A v \in Process \ {w} : phase'[v] = phase[v] /\ claim'[v] = claim[v]
    BY <1>0 DEF CollectorTypeOK, ReturnToLoop, Goto
  <1>3. FenceInv'
    BY <1>0, <1>2 DEF FenceInv, TokensAreFresh, ClaimIsFenced, Busy, scheduleVars
  <1> QED BY <1>1, <1>3, ReturnFrame DEF scheduleVars

\* A claim takes a fresh token, so every older one is fenced off.
LEMMA TakeSchedulePreserves ==
  ASSUME CollectorInv, NEW w \in Process, NEW s \in Schedule, TakeSchedule(w, s)
  PROVE  CollectorInv'
  <1> PICK c : c = [sched |-> s, token |-> issued[s] + 1,
                    attempt |-> attemptCount[s] + 1, occ |-> occ[s]]
    OBVIOUS
  <1>0. /\ CollectorTypeOK /\ ScheduleTypeOK /\ FenceInv /\ NothingBeforeRegister
        /\ NoOccurrenceSkipped /\ SucceededRunIsWhole /\ RunRecordsHold
        /\ \A v \in Process : WorkInv(v)
    BY DEF CollectorInv, CollectorTypeOK
  <1>1. /\ phase[w] = "idle" /\ Due(s) /\ occ[s] \in Occurrence
        /\ claim' = [claim EXCEPT ![w] = c] /\ Goto(w, "start")
        /\ UNCHANGED <<runVars, pagesDone, fetched>>
        /\ UNCHANGED <<config, active, wait, occ, lastRun>>
    BY DEF TakeSchedule, ClaimDue
  <1>2. /\ issued' = [issued EXCEPT ![s] = issued[s] + 1]
        /\ token' = [token EXCEPT ![s] = issued[s] + 1]
        /\ lease' = [lease EXCEPT ![s] = LeaseTime]
        /\ attemptCount' = [attemptCount EXCEPT ![s] = attemptCount[s] + 1]
    BY DEF TakeSchedule, ClaimDue
  <1>3. /\ attemptCount[s] + 1 \in 0..MaxAttempts /\ attemptCount[s] + 1 \in 1..MaxAttempts
        /\ issued[s] \in Nat
    <2>1. attemptCount[s] \in 0..MaxAttempts /\ attemptCount[s] < MaxAttempts /\ MaxAttempts \in Nat
      BY <1>0, <1>1, ScheduleAssumption DEF ScheduleTypeOK, Due
    <2> QED BY <1>0, <2>1 DEF ScheduleTypeOK
  <1>4. /\ c \in Claim /\ c # NoClaim /\ c.sched = s /\ c.token = issued[s] + 1
        /\ c.attempt = attemptCount[s] + 1 /\ c.occ = occ[s]
    BY <1>1, <1>3, NoClaimFacts DEF Claim
  <1>5. ScheduleTypeOK'
    <2>1. issued' \in [Schedule -> Nat] /\ token' \in [Schedule -> Nat]
      BY <1>0, <1>2, <1>3 DEF ScheduleTypeOK
    <2>2. lease' \in [Schedule -> 0..LeaseTime] /\ attemptCount' \in [Schedule -> 0..MaxAttempts]
      BY <1>0, <1>2, <1>3, RangeFacts DEF ScheduleTypeOK
    <2> QED BY <1>0, <1>1, <2>1, <2>2 DEF ScheduleTypeOK
  <1>6. /\ phase'[w] = "start" /\ claim'[w] = c /\ pagesDone' = pagesDone /\ fetched' = fetched
        /\ \A v \in Process \ {w} : Untouched(v)
    BY <1>0, <1>1 DEF CollectorTypeOK, Goto, Untouched
  <1>7. CollectorTypeOK'
    <2>1. RunTypeOK'
      BY <1>0, <1>1 DEF CollectorTypeOK, RunTypeOK, runVars
    <2>2. /\ phase' \in [Process -> Phase]
          /\ claim' \in [Process -> Claim \cup {NoClaim}]
      BY <1>0, <1>1, <1>4 DEF CollectorTypeOK, Goto, Phase
    <2>3. \A v \in Process : ProcessOK(v)'
      BY <1>0, <1>4, <1>6 DEF CollectorTypeOK, ProcessOK, Untouched
    <2> QED BY <1>0, <1>5, <1>6, <2>1, <2>2, <2>3 DEF CollectorTypeOK
  <1>8. /\ issued'[s] = issued[s] + 1 /\ token'[s] = issued[s] + 1
        /\ attemptCount'[s] = attemptCount[s] + 1 /\ occ' = occ
        /\ \A x \in Schedule \ {s} : /\ issued'[x] = issued[x] /\ token'[x] = token[x]
                                     /\ attemptCount'[x] = attemptCount[x]
    BY <1>0, <1>1, <1>2 DEF ScheduleTypeOK
  <1>9. ASSUME NEW v \in Process \ {w}, Busy(v)
        PROVE  /\ claim[v].sched \in Schedule /\ claim[v].token \in Nat
               /\ claim[v].token <= issued[claim[v].sched]
               /\ claim'[v] = claim[v]
    BY <1>0, <1>6, <1>9, ClaimFacts DEF FenceInv, ClaimIsFenced, Untouched
  <1>10. TokensAreFresh'
    <2>1. \A x \in Schedule : token'[x] <= issued'[x]
      BY <1>0, <1>3, <1>8 DEF FenceInv, TokensAreFresh, ScheduleTypeOK
    <2>2. ASSUME NEW u \in Process, NEW v \in Process, Busy(u)', Busy(v)',
                 claim'[u].sched = claim'[v].sched, claim'[u].token = claim'[v].token
          PROVE  u = v
      <3>1. CASE u # w /\ v # w
        BY <1>0, <1>6, <2>2, <3>1 DEF FenceInv, TokensAreFresh, Untouched, Busy
      <3>2. ASSUME NEW x \in Process \ {w}, Busy(x)', claim'[x].sched = s
            PROVE  claim'[x].token # issued[s] + 1
        <4>1. Busy(x)
          BY <1>6, <3>2 DEF Busy, Untouched
        <4> QED BY <1>3, <1>9, <3>2, <4>1
      <3> QED BY <1>4, <1>6, <2>2, <3>1, <3>2
    <2> QED BY <2>1, <2>2 DEF TokensAreFresh
  <1>11. ASSUME NEW v \in Process PROVE ClaimIsFenced(v)'
    <2>1. CASE v = w
      BY <1>3, <1>4, <1>6, <1>8, <2>1 DEF ClaimIsFenced
    <2>2. CASE v # w /\ Busy(v)
      <3>1. CASE claim[v].sched = s
        <4>1. claim[v].token <= issued[s] /\ claim[v].token \in Nat /\ claim'[v] = claim[v]
          BY <1>9, <2>2, <3>1
        <4> QED BY <1>3, <1>8, <3>1, <4>1 DEF ClaimIsFenced
      <3>2. CASE claim[v].sched # s
        BY <1>0, <1>8, <1>9, <2>2, <3>2 DEF FenceInv, ClaimIsFenced
      <3> QED BY <3>1, <3>2
    <2>3. CASE v # w /\ ~ Busy(v)
      BY <1>6, <2>3 DEF ClaimIsFenced, Busy, Untouched
    <2> QED BY <2>1, <2>2, <2>3
  <1>12. RunsGrow /\ ConfigsStay
    BY <1>1 DEF RunsGrow, ConfigsStay, runVars
  <1>13. WorkInv(w)'
    <2>1. pagesDone[w] = 0
      BY <1>0, <1>1 DEF WorkInv
    <2>2. config[s] \in Config
      BY <1>0, <1>1 DEF NothingBeforeRegister, Due, ScheduleTypeOK
    <2> QED BY <1>1, <1>4, <1>6, <2>1, <2>2 DEF WorkInv, ConfigOf
  <1>14. \A v \in Process : WorkInv(v)'
    BY <1>0, <1>6, <1>12, <1>13, UntouchedKeeps
  <1>15. NothingBeforeRegister' /\ NoOccurrenceSkipped'
    BY <1>1, RowsStay
  <1>16. RunRecordsHold' /\ SucceededRunIsWhole'
    BY <1>0, <1>1 DEF RunRecordsHold, RecordsHaveProvenance, CheckpointIsPersisted,
                      SucceededRunIsWhole, Ingested, HasPage, runVars
  <1> QED BY <1>7, <1>10, <1>11, <1>14, <1>15, <1>16 DEF CollectorInv, FenceInv

\* A step that leaves the processes and the runs alone.
LEMMA ScheduleFrame ==
  ASSUME CollectorInv, UNCHANGED <<runVars, processVars>>, ConfigsStay, ScheduleTypeOK',
         UNCHANGED <<attemptCount, token, issued, occ>>,
         NothingBeforeRegister', NoOccurrenceSkipped', SucceededRunIsWhole'
  PROVE  CollectorInv'
  <1>0. CollectorTypeOK /\ RunRecordsHold /\ FenceInv /\ \A v \in Process : WorkInv(v)
    BY DEF CollectorInv
  <1>1. \A v \in Process : Untouched(v)
    BY DEF Untouched, processVars
  <1>2. CollectorTypeOK'
    <2>1. RunTypeOK'
      BY <1>0 DEF CollectorTypeOK, RunTypeOK, runVars
    <2> QED BY <1>0, <2>1 DEF CollectorTypeOK, ProcessOK, processVars
  <1>3. FenceInv'
    BY <1>0 DEF FenceInv, TokensAreFresh, ClaimIsFenced, Busy, processVars
  <1>4. RunsGrow
    BY DEF RunsGrow, runVars
  <1>5. \A v \in Process : WorkInv(v)'
    BY <1>0, <1>1, <1>4, UntouchedKeeps
  <1>6. RunRecordsHold'
    BY <1>0 DEF RunRecordsHold, RecordsHaveProvenance, CheckpointIsPersisted, HasPage, runVars
  <1> QED BY <1>2, <1>3, <1>5, <1>6 DEF CollectorInv

\* A name is registered: it has no history.
LEMMA RegisterPreserves ==
  ASSUME CollectorInv, NEW s \in Schedule, Register(s)
  PROVE  CollectorInv'
  <1>0. /\ ScheduleTypeOK /\ NothingBeforeRegister /\ NoOccurrenceSkipped /\ SucceededRunIsWhole
    BY DEF CollectorInv, CollectorTypeOK
  <1>1. PICK c \in Config, d \in 0..Interval :
           /\ config[s] = NoConfig
           /\ config' = [config EXCEPT ![s] = c]
           /\ active' = [active EXCEPT ![s] = TRUE]
           /\ wait' = [wait EXCEPT ![s] = d]
           /\ UNCHANGED <<attemptCount, token, issued, lease, occ, lastRun>>
           /\ UNCHANGED <<runVars, processVars>>
    BY DEF Register, UpsertSchedule
  <1>2. /\ config'[s] = c /\ c # NoConfig
        /\ \A x \in Schedule \ {s} : config'[x] = config[x] /\ active'[x] = active[x]
    BY <1>0, <1>1, ConfigFacts DEF ScheduleTypeOK
  <1>3. ScheduleTypeOK'
    <2>1. config' \in [Schedule -> Config \cup {NoConfig}] /\ wait' \in [Schedule -> 0..Interval]
      BY <1>0, <1>1 DEF ScheduleTypeOK
    <2>2. active' \in [Schedule -> BOOLEAN]
      BY <1>0, <1>1 DEF ScheduleTypeOK
    <2> QED BY <1>0, <1>1, <2>1, <2>2 DEF ScheduleTypeOK
  <1>4. ConfigsStay
    BY <1>1, <1>2 DEF ConfigsStay
  <1>5. NothingBeforeRegister'
    BY <1>0, <1>1, <1>2 DEF NothingBeforeRegister, runVars
  <1>6. \A x \in Schedule \ {s}, o \in Occurrence : Ingested(x, o) => Ingested(x, o)'
    BY <1>1, <1>2 DEF Ingested, HasPage, runVars
  <1>7. NoOccurrenceSkipped'
    <2>1. occ[s] = 1
      BY <1>0, <1>1 DEF NothingBeforeRegister
    <2>2. \A o \in Occurrence : ~ (o < occ[s])
      BY <2>1, ScheduleAssumption DEF Occurrence
    <2> QED BY <1>0, <1>1, <1>6, <2>2 DEF NoOccurrenceSkipped
  <1>8. SucceededRunIsWhole'
    <2>1. \A o \in Occurrence : status[<<s, o>>] = "none"
      BY <1>0, <1>1 DEF NothingBeforeRegister
    <2> QED BY <1>0, <1>1, <1>6, <2>1 DEF SucceededRunIsWhole, runVars
  <1> QED BY <1>1, <1>3, <1>4, <1>5, <1>7, <1>8, ScheduleFrame

\* Time passes.
LEMMA TickPreserves ==
  ASSUME CollectorInv, Tick, UNCHANGED <<runVars, processVars>>
  PROVE  CollectorInv'
  <1>0. ScheduleTypeOK /\ SucceededRunIsWhole
    BY DEF CollectorInv, CollectorTypeOK
  <1>1. UNCHANGED <<config, active, attemptCount, token, issued, occ, lastRun>>
    BY DEF Tick
  <1>2. ScheduleTypeOK'
    <2>1. \A n \in Nat \ {0} : \A x \in 0..n : (IF x > 0 THEN x - 1 ELSE 0) \in 0..n
      OBVIOUS
    <2>2. LeaseTime \in Nat \ {0} /\ Interval \in Nat \ {0}
      BY ScheduleAssumption
    <2>3. lease' \in [Schedule -> 0..LeaseTime] /\ wait' \in [Schedule -> 0..Interval]
      BY <1>0, <2>1, <2>2 DEF Tick, ScheduleTypeOK
    <2> QED BY <1>0, <1>1, <2>3 DEF ScheduleTypeOK
  <1>3. NothingBeforeRegister' /\ NoOccurrenceSkipped' /\ ConfigsStay
    BY <1>1, RowsStay DEF ConfigsStay
  <1>4. SucceededRunIsWhole'
    BY <1>0, <1>1 DEF SucceededRunIsWhole, Ingested, HasPage, runVars
  <1> QED BY <1>1, <1>2, <1>3, <1>4, ScheduleFrame

-----------------------------------------------------------------------------
(* The theorems.                                                           *)

\* A step in which nothing changes.
LEMMA StutterPreserves ==
  ASSUME CollectorInv, UNCHANGED allVars
  PROVE  CollectorInv'
  <1>1. /\ UNCHANGED <<runVars, processVars>> /\ UNCHANGED <<attemptCount, token, issued, occ>>
        /\ UNCHANGED <<config, active, lease, wait, lastRun>>
    BY DEF allVars, scheduleVars
  <1>2. ScheduleTypeOK' /\ ConfigsStay
    BY <1>1 DEF CollectorInv, CollectorTypeOK, ScheduleTypeOK, ConfigsStay
  <1>3. NothingBeforeRegister' /\ NoOccurrenceSkipped'
    BY <1>1, RowsStay
  <1>4. SucceededRunIsWhole'
    BY <1>1 DEF CollectorInv, SucceededRunIsWhole, Ingested, HasPage, runVars
  <1> QED BY <1>1, <1>2, <1>3, <1>4, ScheduleFrame

\* Every step preserves the invariant.
LEMMA NextPreserves == CollectorInv /\ [CollectorNext]_allVars => CollectorInv'
  <1> SUFFICES ASSUME CollectorInv, [CollectorNext]_allVars PROVE CollectorInv'
    OBVIOUS
  <1>1. CASE UNCHANGED allVars
    BY <1>1, StutterPreserves
  <1>2. ASSUME NEW s \in Schedule, Register(s) PROVE CollectorInv'
    BY <1>2, RegisterPreserves
  <1>3. ASSUME NEW w \in Process, TakeSome(w) \/ NothingDue(w) \/ Crash(w) PROVE CollectorInv'
    BY <1>3, TakeSchedulePreserves, StutterPreserves, GiveUpPreserves
       DEF TakeSome, NothingDue, Crash
  <1>4. ASSUME NEW w \in Process, HandlerStep(w) PROVE CollectorInv'
    <2>1. CASE ReportRefused(w)
      BY <2>1, GiveUpPreserves DEF ReportRefused
    <2> QED BY <1>4, <2>1, HandlerErrorPreserves, BeginRunPreserves, ResumePipelinePreserves,
               CheckStatusPreserves, ResumeRunPreserves, FetchPagePreserves, PageErrorPreserves,
               PersistFREDPreserves, SaveFREDPreserves, PersistBinancePreserves,
               PersistTCMBPreserves, FinishRunPreserves, AbortRunPreserves,
               ReportSuccessPreserves, ReportFailurePreserves DEF HandlerStep
  <1>5. CASE Tick /\ UNCHANGED <<runVars, processVars>>
    BY <1>5, TickPreserves
  <1> QED BY <1>1, <1>2, <1>3, <1>4, <1>5 DEF CollectorNext

\* The schedules, the runs and what processes believe agree in every state.
THEOREM Invariance == CollectorSpec => []CollectorInv
  BY InitEstablishes, NextPreserves, PTL DEF CollectorSpec

\* Type correctness, and a process has a claim exactly while it handles one.
THEOREM TypeCorrect == CollectorSpec => []CollectorTypeOK
  <1>1. CollectorInv => CollectorTypeOK
    BY DEF CollectorInv
  <1> QED BY Invariance, <1>1, PTL

\* However many stale processes write to a run, its revisions come from one
\* retrieval each and its checkpoint claims no page that is missing.
THEOREM RecordsHold == CollectorSpec => []RunRecordsHold
  <1>1. CollectorInv => RunRecordsHold
    BY DEF CollectorInv
  <1> QED BY Invariance, <1>1, PTL

\* Of all processes that ever claimed a schedule at most one can report on it,
\* and it reports on the occurrence and the attempt that are in the row.
THEOREM FencingHolds == CollectorSpec => []ReportsAreFenced
  <1>1. CollectorInv => ReportsAreFenced
    <2> SUFFICES ASSUME CollectorInv PROVE ReportsAreFenced
      OBVIOUS
    <2>1. \A w \in Process : HoldsLive(w) => Busy(w) /\ token[claim[w].sched] = claim[w].token
      BY DEF HoldsLive, HoldsClaim, Busy
    <2>2. FenceInv
      BY DEF CollectorInv
    <2> QED BY <2>1, <2>2 DEF FenceInv, TokensAreFresh, ClaimIsFenced, ReportsAreFenced
  <1> QED BY Invariance, <1>1, PTL

\* No schedule ever leaves an occurrence behind that was not ingested whole.
THEOREM NothingSkipped == CollectorSpec => []NoOccurrenceSkipped
  <1>1. CollectorInv => NoOccurrenceSkipped
    BY DEF CollectorInv
  <1> QED BY Invariance, <1>1, PTL

\* No run is marked succeeded that lacks a page of its window.
THEOREM SuccessIsWhole == CollectorSpec => []SucceededRunIsWhole
  <1>1. CollectorInv => SucceededRunIsWhole
    BY DEF CollectorInv
  <1> QED BY Invariance, <1>1, PTL
=============================================================================
