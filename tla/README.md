# AtlasRisk in TLA+

AtlasRisk is a self-hosted portfolio risk system: a Go API, a Go collector, a
Python risk worker and a React client around one PostgreSQL database, which is
both the record system and the queue of durable work, and an S3 archive of raw
provider responses. This directory models the parts of it that decide what is
recorded and what is computed from the record, with the processes and transactions
that interleave there, checks them with TLC on small instances, and proves the
results about the queue, the services that write and those that read with TLAPS for
every instance.

Contents: [inventory](#inventory), [modules](#modules-and-how-they-correspond-to-the-code),
[runs](#runs), [bounds](#bounds), [fairness](#fairness), [proofs](#proofs),
[findings](#findings), [not modelled](#what-is-not-modelled), [plan](#plan).

## Inventory

| Component | State | Operations | What makes it correct |
|---|---|---|---|
| Durable job queue, `internal/jobs/queue.go`, migration 00008 | `risk_jobs`, `risk_job_attempts` | Enqueue, Claim, Renew, Complete, Fail, Cancel, RecoverExpired | bounded attempts, one owner, attempt evidence that tells the truth, final states stay final |
| Risk worker, `risk-engine/.../jobs/{runner,worker,postgres}.py` | the same tables, `scenario_runs`, the locals of the loop | recover, claim, execute beside a renewal thread, complete / fail / drop | a stale or renamed process writes nothing; run and job agree; every job ends |
| Risk API, `internal/application/risk` | - | Submit, Get, Cancel | cancel never reopens or rewrites a finished run |
| Scenario service, `internal/application/scenarios` | `scenarios`, `scenario_versions`, `scenario_runs` | CreateVersionAndRun | one run per idempotency key; versions without gaps; inputs sealed with the run |
| Collector schedules, `internal/collector/store.go`, migration 00013 | `collector_schedules` | UpsertSchedule, ClaimDue, Complete, Fail | one process may report; no occurrence is skipped; attempts are counted |
| Ingestion runs, `internal/ingestion/pipeline.go`, `internal/sources/*/store.go` | `ingestion_runs`, `raw_object_occurrences`, revisions, checkpoints | StartRun, RegisterRawObject, persist, SaveCheckpoint, CompleteRun, FailRun | revisions come from the recorded raw object; a checkpoint covers only what is stored |
| Collector worker and runner, `internal/collector/{worker,runner}.go` | the locals of RunOnce | claim, start or resume a run, page by page, report | a run that counts as succeeded has its whole window |
| Provider clients, `internal/sources/{fred,tcmb,binance}` | checkpoints | build requests, normalise, advance | paging terminates and covers the window |
| Fetcher and archive, `internal/ingestion/fetcher.go`, `internal/archive` | objects by digest | Fetch with retries, Put, Get | content-addressed objects are immutable and verified |
| Imports, `internal/imports` | `import_preview_tokens`, `import_results` | Preview, Commit | a commit is applied once, and only for the previewed content |
| Portfolio, `internal/application/portfolio` | portfolios, accounts, instruments, snapshots with lines | Create, Update, Delete | what a snapshot refers to stays; a snapshot has all its lines; corrections end |
| Valuation, `internal/application/valuation` | `valuation_runs`, `valuation_lines` over price and FX revisions | Create, Get | a valuation can be repeated; conversion paths connect; a direct quote is the newest, and a bridge is used only without one |
| Metric inputs of a risk run, `internal/application/scenarios` | `scenario_runs.sealed_input` | loadSealedValuation | no look-ahead; what is sealed verifies |
| Reconciliation, `internal/application/reconciliation` | tolerance versions, checkpoints | CreateTolerance, Create | judged by the current tolerance; the state follows from the recorded amounts |
| Journal and evidence, `internal/application/{journal,evidence}` | decisions, reviews, amendments, manifests | Create, Finalize, AddReview, AddAmendment, Timeline, Seal, Reconstruct | a finalized decision has one complete, coherent and closed manifest that can be rebuilt |
| Timeline, `internal/application/timeline` | reads series and observation revisions | listings with cursors in four modes | pages miss nothing; as-of pages can be repeated |
| Quality, `internal/application/quality`, `internal/quality` | reads observation revisions and policies | Evaluate | gaps are exact; an answer as of an instant does not change |

How they interact. The API inserts a job and its run in one transaction; worker
processes poll the queue with `FOR UPDATE SKIP LOCKED`, hold a lease that a
thread renews, and write job, attempt and run in one transaction when they
report. The API cancels a run by writing both tables from its side. Collector
processes poll `collector_schedules` in the same manner, but without renewal: a
handler that outlives its lease goes on writing to the run of the occurrence
while another process works on the same one, and only the report to the schedule
is fenced by a token.

The API's services share tables but hardly rows. Collectors and imports insert
revisions that are never updated: a correction is a new row, and every reader states
at which instant it wants to know. Valuations read them and persist runs; the
scenario service seals a valuation with its histories into a risk run; the journal
checks a risk run against the revisions and the archive again before it finalizes a
decision. Snapshots, valuations, risk runs and manifests are immutable once written.

What is hard. Late and repeated calls after a lease has expired; processes that
share a name; cancel against completion; crashes between any two statements; two
tables kept in step by three programs; overlapping collectors; checkpoints that
are written apart from the rows they cover; attempt counters at their limit;
work that must eventually end; keys, names and versions under concurrent
submissions; a pool of connections that its own holders wait for; rows deleted
between check and insert; readers of several statements beside writers whose rows
carry a time before their commit; the same arithmetic in two services that must
agree to the last digit. The list, line by line, is `hazards` in `PROJECT.json`.

## Modules and how they correspond to the code

```
JobLifecycle          what the queue promises (abstract)
  ^ implements
JobQueue              queue.go on risk_jobs, risk_job_attempts     JobQueue_proofs   MCJobQueue
  ^ extends
RiskWorker            API + Python processes + scenario_runs       RiskWorker_proofs MCRiskWorker

CollectorSchedules    store.go on collector_schedules
IngestionRuns         runs, raw occurrences, revisions, checkpoints
  ^ both extended by
Collector             worker.go, runner.go, Pipeline.Run           Collector_proofs  MCCollector

Imports               Preview and Commit of imports/service.go     Imports_proofs    MCImports

Scenarios             CreateVersionAndRun of scenarios/service.go  Scenarios_proofs  MCScenarios

RevisionRows          rows of the revision tables, order and rounding
  ^ extended by
Revisions             the tables as collectors fill them
  ^ extended by
Valuation -> MetricInputs      valuations, and what a risk run seals of them
Timeline  -> Quality           pages, and the evaluation of series
Evidence                       verification of a sealed run (extends RevisionRows)
Market                MetricInputs and Evidence put together
  ^ extended, with Quality, by
Readers               everyone who reads the revision tables       Readers_proofs    MCMarket

Journal               decisions and sealing, with Evidence         Journal_proofs
Portfolio             portfolio/service.go and its queries
Reconciliation        tolerances and checkpoints
  ^ all three extended by
Records               the records users keep                       Records_proofs    MCRecords
```

**JobQueue.** One action per exported method, because each is one transaction.
A row of `risk_jobs` is one value of `Job` (the unique key is kind and
idempotency key). `attemptWorker` and `attemptOutcome` are the rows of
`risk_job_attempts`, `"none"` where there is no row and `"open"` where the outcome
is NULL. `resultOf` keeps *which attempt's* result is stored in place of the
result. Callers are unconstrained: `HandedOut` lets every claim ever made be
presented again at any later time. `HoldsLease` is the WHERE clause of Renew,
Complete and Fail; a call that matches no row changes nothing and is a stuttering
step.

Time is kept as the time left (`lease`, `delay`), and `Tick` lets one unit pass.
The code only ever compares timestamps with `clock_timestamp()` of the same
database, so nothing else about time is visible to it, and the state space is
finite without a bound on the clock.

**RiskWorker** adds the processes (`phase`, `task`, `leaseLost`, `verdict` are the
locals of `run_claimed_once`) and `scenario_runs`. The SQL of `postgres.py` and of
`queue.go` updates the queue's rows alike, so the row updates are those of
JobQueue; what the Python client writes to the run in the same transaction is
added. Every handler outcome is a `Verdict`: a result state, a result that
`_persist_scenario_result` refuses, a permanent or any other error. `Abandon` is a
crash or a lost connection at any point. `IdOf` need not be injective.

**CollectorSchedules.** `occ` numbers the values of `next_run_at`, which is also
what names the occurrence; `issued` stands for the fresh UUIDs of the lease
tokens; `wait` is the time until `COALESCE(retry_available_at, next_run_at)`.

**IngestionRuns.** A run is the row with one idempotency key. A response is
abstracted to its `Content`, that is, to what `registerOccurrence` compares, and
a checkpoint to its number of pages. `persisted` remembers which page and which
answer the revisions came from.

**Collector.** `phase` is the place in RunOnce / `resumeFRED` / `resumeBinance` /
`Pipeline.Run`; each statement against the database is a step of its own, since
another process may come in between. The provider path is part of the schedule's
configuration: FRED saves revisions and checkpoint one after the other, Binance in
one transaction, TCMB has one request and a coverage check; of its two writes (quotes,
then observations) the second may fail, and the run with it. A Binance schedule without
a symbol takes the pipeline of TCMB. A configuration also
says on which page the window is exhausted; where that is beyond `maxPages`, the
loop ends with `incomplete_coverage`.

**Imports.** Commit is one READ COMMITTED transaction of some ten statements, and
two of them run side by side, so each statement is a step: it sees what is
committed when it starts, and `SELECT ... FOR UPDATE` and an insert into a unique
index wait for the transaction that holds the row (`lock`). What a transaction has
written appears in one step, `CommitAll`; before that every failure is a rollback.
A file, with its target and schema version, is one `Content`. `captured_at` is an
instant finer than a microsecond, and `Stored` is what PostgreSQL keeps of it.
COMMIT may succeed and its acknowledgement be lost.

**Scenarios.** The statements of CreateVersionAndRun are steps under READ COMMITTED,
as in Imports. `lock` holds the advisory lock of the key, rows of `scenarios` and
entries of the unique index on account and name; `Connected` are the requests that
have a connection of the pool. An id of a new scenario is drawn freely among those
nobody uses. What the fingerprint of a request covers is one `Body`; `asked`
remembers whether the request named a scenario, which the fingerprint covers too.

**RevisionRows, Revisions.** A row carries the observation time, the time the source
published it, the database clock at its insert, and its raw object. Inserting and
committing are separate steps, so a row may become visible after its own
`system_known_at`. `SettledBy(t)` says that nothing known by `t` can still appear; the
properties about repeating an answer are about settled instants, since the code
itself accepts any.

**Valuation.** Create loads the quotes, then the prices of one instrument after the
other, each a step (there is no transaction around them), and persists. `PathFor`,
`DirectPath`, `Bridge` and `BridgeQuote` are `pathFor` and `bridgeQuote`. Decimals are
integers and `RoundAway` rounds to `Digits` parts of a unit, half away from zero, as
`formatDecimal` does to 18 digits. A value that may be NULL is a sequence of at most
one element.

**MetricInputs** is `loadSealedValuation`: for every instrument of the account a
history of daily USD prices with the revisions behind each, and the NAV of the days
they have in common. **Evidence** is `addMetricDependencies`, which reads such a bundle
back and recomputes it; the two are separate code in the program and separate
modules here. **Market** puts them together.

**Journal.** Finalize locks the decision's row and Seal resolves one reference per
step, while risk runs complete and objects of the archive are damaged. A row of the
timeline draws its number when it is inserted and is seen when it commits. `intact` is
what the archive held when the call began; it appears in a property only. The timeline
is the set of committed rows with `ComesFirst`, which row ORDER BY puts first.

**Portfolio.** Handlers of one statement are one action. CreateAccount,
CreateInstrument and CreateSnapshot are sequences of statements; of these
CreateSnapshot does its checks before its transaction begins. `KeyShared` is the key
share lock that an inserted row holds on the rows it refers to, `EnteredByOther` an
entry of a unique index in an open transaction. A request is kept after a successful
snapshot so that the answer can be compared with the table.

**Reconciliation.** Both transactions begin with `SELECT ... FOR UPDATE` of the account.
Decimals count parts of the last stored digit, so that what the database stores
(multiples of `Fine`) differs from what a client may send. Line checks count as complete
when there are as many as the account has lines (`AllChecked`), as in the code; that they
are then *all* the lines is a result. The reporting currency of the portfolio, which
UpdatePortfolio may change between a valuation and its reconciliation, is either of the
two when it is read.

**Timeline, Quality.** A walk is a client that asks for page after page with the
cursor it was given; each page is one statement. The cursor is the key of the last
item. `owed` is what was listed when the walk began. Quality reads series after
series; zones are fixed offsets and a month has `MonthLength` days.

**Readers and Records** put together services that write no common row: what one of
them reads of another is immutable. The theorems are about all of them side by side. In
MCMarket and MCRecords a variable `chosen`, fixed in the initial state, lets each
behaviour follow one of the services, which is all that can matter to properties that
each speak about one of them, and keeps the product of their states out of the run.
Where services do depend on each other's fresh rows (valuation, risk run and evidence;
collectors and readers) they run together.

## Runs

| Run | What it asks | Answer |
|---|---|---|
| JobQueue | arbitrary callers, late and repeated calls, on two jobs with three and one attempts | all invariants hold; the queue implements JobLifecycle |
| RiskWorker | two processes under one worker_id, with crashes, lost leases and cancels; does every submitted job end | run and job agree, one owner, attempts tell the truth, finished runs stay finished; every job ends with one reliable process. The queue's own properties under these processes are proved (see below) |
| RiskWorkerCancel | "cancellation closes active attempt evidence" | violated: the API's cancel leaves the attempt open |
| Collector | two overlapping processes, two occurrences, six configurations; is a schedule taken over from a dead process | provenance, checkpoints, fencing and completeness hold; a schedule is taken over while attempts are left |
| CollectorExhausted | "exhausted attempts deactivating a schedule" | violated: a crash on the last attempt leaves it active and unclaimable |
| Imports | two commits, statement by statement, over two tokens, two keys, two position files and a price file | a file is applied once per result, a token commits one import, answers are true, committed bytes are archived, nobody waits in a circle: rows are locked in one order (token, raw object, result) |
| ImportsReplay | "A replay with the same key returns the original result" | violated when the replay overlaps its original |
| CollectorStaleFail | "a restarted or stale process cannot finish a newer claim" | violated for the ingestion run: a late FailRun overwrites it |
| Scenarios | two submissions over three keys, one name, two scenarios, two accounts | versions serial, one run per key, replays return what was asked for; nobody waits for ever, name conflicts excepted |
| ScenariosPool | "NameConflictError names the existing scenario so a caller can reuse it" | violated: as many conflicts as connections wait for each other |
| Records | two users of the portfolio, of one account's reconciliation, or of the journal | references, lines, corrections, tolerances and evidence hold whatever interleaves |
| Market | arrivals and corrections beside a valuation and its risk run, a walk, or a quality evaluation | as-of answers repeat, paths connect, sealed runs verify, pages miss nothing, gaps are exact |

The properties, by what they are about:

- *Budget*: `AttemptBudget`.
- *Fencing*: `LeaseMatchesAttempt`, `OneOwner`, `ResultOfLatestAttempt`,
  `ReportsAreFenced`.
- *Evidence of work*: `EvidenceMatchesJob` and its weaker form under the API's cancel,
  `AttemptsMatchJob`; `RunRecordsHold` (`RecordsHaveProvenance`: a revision comes from
  the one raw object recorded for its page; `CheckpointIsPersisted`: a checkpoint covers
  only stored pages).
- *Agreement of tables*: `RunMatchesJob`, `SucceededRunIsWhole`, `NoOccurrenceSkipped`,
  `TokenCommitsItsPreview`, `ImportsAreWhole` (`AppliedAsRecorded`,
  `CommittedIsArchived`), `SnapshotsStand` (`ReferencesHold`, `LinesFit`,
  `CreatedAsSent`, `CorrectionsEnd`, `IdentifiersNameOne`), `EvidenceIsSound`
  (`FinalizedHasEvidence`, `EvidenceIsCoherent`, `EvidenceIsClosed`,
  `TimelineIsRooted`), `ReconciliationHolds` (`ToleranceStaysCurrent`,
  `StateFollowsFromRecord`, `CompleteChecksAddUp`).
- *Keys and serial numbers*: `VersionsAreSerial`, `KeyStaysFree`.
- *Truthful answers*: `AnswersAreTrue`, `RunIsTheOneAskedFor`,
  `ReconstructsWhatStands`, `QualityIsSound` (`GapsAreExact`, `ValidMeansSound`),
  `WalkIsComplete` (`WalkIsOrdered`, `WalkMissesNothing`, `MoreMeansMore`).
- *Repeatability*: `AnswersRepeat` (`ReplayIsStable`, `WalkReplays`, `QualityReplays`).
- *Arithmetic and paths*: `ConversionsConnect` (`PathsConnect`, `PositionPathsConnect`,
  `PathsAsPromised`: an amount exists exactly when usable quotes allow one, and a direct
  quote is the newest of its pair), `NoLookAhead`, `SealedRunVerifies`.
- *Finality* (action properties): `TerminalIsFinal`, `FinishedRunIsFinal`.
- *Refinement*: `ImplementsLifecycle`.
- *Progress*: `JobsEnd`, `SchedulesMove`, `OnlyConflictsWait`, and as an invariant
  `SomeCommitCanGoOn`.

The names in parentheses are the parts of an invariant; each is a definition of its own.

Every property of a passing run has a variant of some definition (the operators
commented "Variant of ...") under which it fails.

## Bounds

- JobQueue: two jobs, one with three attempts and one with one (so the retry, the
  last attempt and the attempt in the middle all occur), two workers, leases of one
  or two units (one can outlive another), a delay of 0 or 1.
- RiskWorker: one scenario job with two attempts and one job of another kind, two
  processes with one name. Two processes are enough for a stale one and its
  successor; the proofs lift the bound.
- Collector: one schedule (rows do not interact), two processes, two occurrences
  (so a process of the first can be late in the second), at most two pages, two possible
  answers per page, two attempts. FRED has the window of two pages, since its revisions
  and checkpoint are separate writes; Binance has one page. `Horizon` bounds the occurrences that are
  claimed, `PageLimit` the pages; both appear in guards only through `Occurrence`
  and the configuration.
- Imports: two requests at a time, which may follow one another without end, two
  tokens and two keys (a key met by another file and a token met under another key
  both occur), two position files and a price file. `applied` counts at most one per
  key.
- Scenarios: two clients that send requests without end, three keys (a scenario, two
  versions of it), two ids, one name (so that names collide), three bodies of which one
  cannot be sealed and one belongs to another account, and two connections, as many as
  clients, so that two name conflicts exhaust the pool. The code relates the two numbers
  in no way.
- Records: portfolio with two portfolios, accounts, instruments and snapshots and two
  editors; reconciliation with two clerks, two accounts, two tolerance versions and one
  checkpoint, in both reporting currencies; journal with three decisions (one that can be
  sealed, one whose valuation and run do not belong together, one of a foreign account),
  two callers, three timeline rows and one damaged object. `Fine = 2`: half a digit,
  where rounding decides.
- Market: one row arrives after the start (`MaxArrivals`), on top of every choice of the
  tables' contents in `Earlier`: a correction, a late row, a first or a better quote; the
  clock moves once. Two valuations and two evaluations, of which the second is the
  repetition, one risk run, and one walk, which is compared with the list as it is then.
  Days have two instants, a decimal two parts. Quality requests beyond `MaxWindow` and
  `MaxInputs` are among those sent, and a row may be marked suspect, missing or both.
- Symmetry: jobs that differ in their constants are not interchanged; contents and
  processes are (in Imports, JobQueue and Records), and snapshots in Records; in safety
  runs only.

## Fairness

`JobsEnd` and `SchedulesMove` assume no more than this:

- time passes (`Tick`);
- a handler ends: it is a finite computation. Nothing in the code enforces it, and
  the renewal thread would keep a hanging handler's lease alive, so this is an
  assumption about the handlers;
- a *reliable* process keeps going round its loop (`serve` catches connection
  errors and reconnects), and it is not interrupted between recovery and claim
  every single time (strong fairness of `ClaimSome`);
- nothing is assumed about the other processes: they may die, hang or stay down;
- a reliable collector gets through its handler, every request and statement of
  which has a timeout.

`OnlyConflictsWait` assumes that a statement which can run does run or fails, and
that PostgreSQL serves those that wait for a lock, and the pool those that wait for a
connection, in turn (strong fairness of `SubmitStep`); clients may send requests
without end. It says that a request under way ends unless name conflicts hold the whole
pool; that these end too is `ConflictsAreAnswered`, which the code does not keep (see
*Findings*). That commits of imports do not wait in a circle is stated without
fairness: in every state some commit under way can take its next statement.

## Proofs

Eight modules prove, for any sets of jobs, processes, requests, rows and objects,
and any bounds, what the runs check on small instances. Each follows one plan: an inductive
invariant, one lemma per action, `Invariance` by induction over steps, and the
properties as consequences of the invariant. Every invariant below was first checked
by TLC on the run of its module.

| Module | Inductive invariant | Properties of runs it proves |
|---|---|---|
| JobQueue_proofs | `QueueInv` | `TypeOK`, `AttemptBudget`, `LeaseMatchesAttempt`, `EvidenceMatchesJob`, `ResultOfLatestAttempt`, `TerminalIsFinal`, `ImplementsLifecycle` |
| RiskWorker_proofs | `WorkerInv` | `WorkerTypeOK`, `RunMatchesJob`, `AttemptsMatchJob`, `OneOwner`, `FinishedRunIsFinal`; the queue's properties again, under API and processes |
| Scenarios_proofs | `ScenarioInv` | `ScenarioTypeOK`, `VersionsAreSerial`, `KeyStaysFree`, `RunIsTheOneAskedFor` |
| Imports_proofs | `ImportInv` | `ImportTypeOK`, `ImportsAreWhole`, `TokenCommitsItsPreview`, `AnswersAreTrue` |
| Collector_proofs | `CollectorInv` | `CollectorTypeOK`, `RunRecordsHold`, `ReportsAreFenced`, `NoOccurrenceSkipped`, `SucceededRunIsWhole` |
| Journal_proofs | `JournalInv` | `EvidenceIsSound`, `ReconstructsWhatStands` |
| Records_proofs | `PortfolioInv`, `ReconInv` | `SnapshotsStand`, `ReconciliationHolds`; `RecordsTypeOK` and the journal's properties for the three services together |
| Readers_proofs | `ReadersInv`, `SealsInv` | `AnswersRepeat`, `ConversionsConnect`, `NoLookAhead`, `WalkIsComplete`, `QualityIsSound`; `SealedRunVerifies`, unless a price is rounded to zero |

Proved beside these: that no commit trips the unique indexes of scenarios and runs
(`IndexesHold`), that a price file is inserted once under whatever keys and tokens
(`PricesOnce`), that portfolio rows are never reused or moved and stored snapshots never
touched (`RowsOnlyAge`, an action property), that a sealed manifest and a completed run
never change (`SealedIsImmutable`, an action property), that tolerances and checkpoints
are only added, each tolerance as the next version of its account (`CheckpointsStay`, an
action property), and the type invariants of Portfolio and Journal.

*Queue.* The checked invariants are inductive only together: that a result is the
latest attempt's needs to know that a running job has none; that Claim adds a new
attempt row needs `AttemptBudget`; that the owner is the worker in the evidence
needs both. `QueueInv` is their conjunction, per job (`RowInv`); since all actions
but RecoverExpired and Tick touch one job, the proof treats the row that changes
and the rows that do not separately. The finality property and the refinement
follow from `QueueInv` step by step.

*Worker.* The API's cancel breaks `EvidenceMatchesJob`, so the pipeline needs the
weaker evidence `AttemptsMatchJob` and the part of the row invariant that does not
mention it (`TablesInv`). `OneOwner` is not inductive: two processes with one name
could hold the same attempt number if claims could repeat. `ClaimsDistinct` says
that they cannot: no two busy processes carry the same job *and* attempt, and
every carried attempt is at most the row's count. With it a claim, which takes
`attemptCount + 1`, is new. `WorkerInv` is the conjunction.

*Scenarios.* What one statement reads is relied on several statements later. For each
phase the invariant names the lock that keeps it true: the advisory lock keeps the key
free (`KeyIsHeld`, `KeyIsFree`), the row lock or the entry in the index on account and
name keeps the scenario to one writer (`TargetIsHeld`, `TargetsDiffer`), and hence the
version that UPDATE returned is still the next one at COMMIT (`VersionIsNext`). The steps
of others keep it because they never take a lock that is held.

*Imports.* The same for the token, the raw object and the result of a commit
(`TokenIsHeld`, `RawIsHeld`, `ResultIsHeld`). That a file is applied as often as it has
results is a statement about a cardinality: a commit adds one result to a finite set
that lacks it, since the result of its key was free and is locked.

*Collector.* Two arguments that do not depend on each other. Fencing: tokens are handed
out in increasing order, no two claims carry the same one, and a row that still has a
claim's token has the occurrence and the attempt of the claim. Pages: whatever a process
believes to be done is in the tables and stays there (`WorkInv`), although stale processes
write to the same run without any fence; this is why a run that is marked succeeded by a
stale process is whole nevertheless.

*Portfolio.* CreateSnapshot reads before its transaction begins. `LineWasValid` is what
remains true of such a read under everything others may do: an account may have been
deleted, never moved; an instrument stays with its type. From the insert of a line on the
key share lock keeps its account (`OpenSnapshotHolds`), so a deletion in between is found
by the foreign key. `CorrectionsEnd` says that among any snapshots one supersedes none of
the others, which is what rules out cycles; a commit keeps it because its id was never
used and so nothing supersedes it.

*Journal.* `RefStands` is what Seal found out about a reference and nothing takes back
(rows and completed runs are immutable), `CallStands` that the call has kept a prefix of
the references and listed exactly their objects, each of them intact when the call took
the lock: an object may be damaged after it was read, but not become intact. `SealedOnce`
ties status and manifest: the decision stays a draft while its row is locked, so a second
manifest cannot be inserted. `BundleIsClosed` shows that the objects that
`addMetricDependencies` collects are those of all rows of the sealed histories.
`DecisionIsFirst` orders the timeline: a review draws its number when the decision is
committed, hence after the decision drew its own.

*Reconciliation.* Three arguments. The row lock: from the read of the latest tolerance
version to the write, the holder of the account's row is alone, so what it read is still
the latest (`ClerkFits`). Digits: rounding gives multiples of `Fine` and leaves such
multiples alone, differences of them are such multiples again, and the tolerance a row
names is the amount it was compared with. Sums: that a sum over a finite set exists, is
unique, does not depend on an order and adds up termwise is proved once, by induction on
the cardinality in the form "a set of counterexamples has a smallest one" (`WFMin` of the
library, the one form of induction the provers can use). That as many checks as lines are
all lines is counting: distinct lines of the account, as many as there are.

*Readers.* Rows are never updated and carry the clock of their insert, so what a reader
sees only grows, and what is settled by an instant never changes (`RowsInv`). A valuation,
a run, a walk and an evaluation in progress hold parts of their answer that fit the rows
seen now; when the instant asked about is settled, they fit every later state too, which
makes answers repeat. Walks: what is still to be listed stands after the cursor
(`StandsAhead`), a page is the first items of what stands there, and an item that was
listed when the walk began can only be replaced by a correction with the same key. Sorted
lists are defined by rank (`InOrder`), not by a fold, which is what makes the order of
their elements provable.

*Sealed runs.* The evidence service repeats with fractions what the scenario service
computed with decimals, so `SealedRunVerifies` compares two computations. A path of the
histories has at most one step, for which the library's fold is unfolded by hand
(`OneStepFraction`). Entry by entry, the quote that was selected orients to the currency
asked for and the rounded fraction is the stored price (`PriceVerifies`, `CashVerifies`,
`ConstantVerifies`). The two services take the last price of each day from the same
entries; that there is a last one is finiteness of the tables (`FiniteHasLast`), that
constant cash has a day at all is `CashDatesExist`. Verification asks for rows that are
there, and rows are only added, so a run that verifies goes on verifying
(`BundleGoesOnVerifying`). `SealsInv` is this and that valued lines are lines of their
snapshot; it is inductive beside `ReadersInv`. The theorem `SealsVerify` has
`PricesStayPositive` as a hypothesis, not as an assumption on the constants, since the
schema does not guarantee it (see *Observations* below); the instance of `MCMarket`
satisfies it, which TLC evaluates.

*Assumptions.* All are named, next to the constants, and evaluated by TLC in every run.
Most say that a placeholder (`NoWorker`, `Nobody`, `NoToken`, `NoContent`, `NoClaim`,
`NoSnapshot`, ...) is not a member of the set it is added to and that bounds are natural
numbers. The others state what the code or the schema guarantees of its inputs:
`PortfolioAssumption`, that a request reaches a statement only with a symbol
(`portfolio/service.go:90`) and at least one line (`:390`); `JournalAssumption`, that
references are a list, that an id is the primary key of its revision table, and that the
id of constant cash, a text that is no UUID, is not the id of a row; `ScenarioAssumption`,
that some request can be sent and that requests have their fields; `ReconAssumed`, that
amounts of valid lines and the least tolerance (0.01) have stored digits, a tolerance that
is sent is not negative (`reconciliation/service.go:52`) and a request's checks are a
list; `RevisionsAssumption`, that ids are primary keys and times comparable;
`ValuationAssumption`, `TimelineAssumption` and `QualityAssumption`, what the services
check of a request before they read (limits are positive, ages not negative, one series
where revisions are listed); `MarketAssumption`, that a rate is positive (migration `00006`:48) and
between two different currencies (`00001`:149), that a line has the type and currency of
its instrument, which no statement updates, and that an account holds an instrument in
one line of a snapshot (`00004`:140).

Only model-checked:

- liveness (`JobsEnd`, `SchedulesMove`, `OnlyConflictsWait`): the proof system has no
  rules for fairness;
- `SomeCommitCanGoOn`, which says ENABLED.

## Findings

Five statements in the repository's documents and comments that the code does not keep;
each has a run whose trace shows it. See `findings` in `PROJECT.json`.

1. The API's cancel leaves the running attempt unfinished.
2. A collector that dies on its last attempt leaves a schedule that is active and
   will never run again.
3. A stale collector marks the run of a completed schedule as failed.
4. A repeated import commit that overlaps its original is answered 409.
5. After a name conflict CreateVersionAndRun reads the existing id from the pool while its
   own connection is still taken. As many conflicts as connections wait for each other,
   and with them every other request of the process, until clients give up.

*Observations* without a run of their own, as the models show or respect them:

- A file previewed with a `captured_at` below the microsecond cannot be committed:
  the stored instant is compared with the nanoseconds of the request.
- A risk run whose price has no quote seals the native price among USD prices; the NAV
  history is withheld then, and evidence of such a run is refused.
- Nothing in `price_revisions` keeps a price positive (only the import parser does,
  `parser.go:250`), and a small price divided by a large rate rounds to zero at 18
  digits. Evidence refuses an entry whose USD price is not positive
  (`evidence/service.go:449`). A submission is refused for such a price only when it has
  to be converted (`scenarios/service.go:622`); a price in USD, or one that the
  conversion rounds to zero, is sealed.
- `constantCashDates` skips Saturdays, not Sundays (`Weekday() >= Saturday`).
- Among direct quotes of one observation time the later `source_known_at` wins even in
  system-as-of mode (`valuation/service.go:330`), where AR-203:42-44 orders ties by the
  selected knowledge time, that is, by `system_known_at`. With missing source times the
  comparison is not transitive either. The model sorts as the code does (`DirectPath`),
  and `PathsAsPromised` leaves ties open.
- The metric histories prefer a direct quote to a newer inverse one; `bridgeQuote`
  takes the orientation whose base comes first in the alphabet, not the newest.
- A blocked valuation still returns totals, of the lines that have amounts.
- An instant in the future, or one at which rows are still uncommitted, is accepted by
  valuations, timeline and quality; only settled instants can be repeated.
- In the latest mode a correction of a page's last item with a greater id appears on
  the next page as well; nothing is missed.
- Decision events may appear in the middle of a timeline that was read before, since
  numbers are drawn before the commit.

## What is not modelled

- The worker's numbers: returns, scenario results, metrics and attributions are decimal
  arithmetic over long series; their outcome appears as a verdict.
- Hashes and canonical JSON: abstracted to identity; texts of shocks, decisions and
  policies to what is decided by them.
- Provider clients, fetcher and archive: a page, its answer and its digest appear in
  IngestionRuns and Collector; offsets, retries and conditional puts do not.
- HTTP decoding, the web client, backup scripts: no state of their own. Of the generated
  database access only the queries that services use are modelled.
- The CSV parser: a file is valid, or it never reaches Commit.
- PostgreSQL: transactions are atomic steps, or statements where several are open at a
  time; `SKIP LOCKED` is a free choice of row. A deadlock that the database would break
  is a failed statement.
- Time zones with daylight saving and the lengths of months.

## Plan

Done: the job queue, the risk worker, the collector and imports; scenario submission;
portfolios, reconciliation, journal and evidence; valuation, metric inputs, timeline and
quality; the proofs of all of them.

Left, in the order of what they would add:

1. Provider checkpoints (FRED offsets, Binance windows) as operators against a reference
   definition: coverage and termination of paging. The fetcher's retries.
2. Archive put and verification under concurrent writers.
3. Risk API mappings; the states of scenario results in the worker.
