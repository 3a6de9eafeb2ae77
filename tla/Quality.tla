------------------------------- MODULE Quality -------------------------------
(***************************************************************************)
(* Data quality: internal/application/quality/service.go and Evaluate in   *)
(* internal/quality/evaluate.go.  A request names series and an instant;   *)
(* each series is read in statements of its own and classified by the      *)
(* freshness policy of its row.  The field in of an observation holds its  *)
(* quality flags, a JSON document, by what the service asks of it: whether *)
(* it marks the value as suspect, as missing, as both or as neither.  A    *)
(* day is a number, the first of a week is 0, a Sunday, and a month has    *)
(* MonthLength days.                                                       *)
(***************************************************************************)
EXTENDS Timeline

CONSTANTS
    QualityRequest,     \* [from, to, asOf, inputs: sequence of [series, required]]
    MaxWindow,          \* longest window of a request
    MaxInputs,          \* series of one request
    MaxObservations,    \* rows of one request
    MonthLength,
    MaxEvaluations      \* bound on evaluations

\* A zone is less than a day away from UTC.
ASSUME QualityAssumption ==
    /\ DayLength \in Nat \ {0}
    /\ \A q \in QualityRequest :
          /\ q.from \in Int /\ q.to \in Int /\ q.asOf \in Int
          /\ q.inputs \in Seq([series : Int, required : BOOLEAN])
    /\ \A s \in DOMAIN SeriesRow :
          LET p == SeriesRow[s].policy IN
          p.offset \in -DayLength..DayLength /\ p.lag \in Int /\ p.maxAge \in Int

VARIABLES
    evaluator,          \* the Evaluate call in progress
    evaluations         \* answers

qualityVars == <<evaluator, evaluations>>

NoEvaluator == [phase |-> "idle"]

QualityInit == evaluator = NoEvaluator /\ evaluations = <<>>

-----------------------------------------------------------------------------
(* Policies and calendars.                                                 *)

DefaultExpected(frequency) ==
    CASE frequency = "daily"  -> "calendar_daily"
      [] frequency \in {"business_daily", "weekly", "monthly", "quarterly", "irregular"} -> frequency
      [] OTHER -> ""

Schedules == {"calendar_daily", "business_daily", "weekly", "monthly", "quarterly", "irregular"}

Expected(p) == IF p.expected = "" THEN DefaultExpected(p.frequency) ELSE p.expected

ParsePolicy(p) == p.versioned /\ Expected(p) \in Schedules /\ p.maxAge > 0 /\ p.lag >= 0

IsExpectedDate(d, p) ==
    /\ d \notin p.holidays
    /\ CASE Expected(p) = "calendar_daily" -> TRUE
         [] Expected(p) = "business_daily" -> d % 7 \notin {6, 0}
         [] Expected(p) = "weekly"         -> d % 7 = 5
         [] Expected(p) = "monthly"        -> d % MonthLength = 0
         [] Expected(p) = "quarterly"      -> d % (3 * MonthLength) = 0
         [] OTHER -> FALSE

LocalDay(t, p) == Day(t + p.offset)
Midnight(d, p) == d * DayLength - p.offset

\* Variant of ExpectedMissing that counts the day on which the window ends.
ExpectedMissingToEnd(q, p, dated) ==
    LET start == LocalDay(q.from, p) + (IF q.from > Midnight(LocalDay(q.from, p), p) THEN 1 ELSE 0)
        end   == LocalDay(q.to, p) IN
    IF Expected(p) = "irregular" THEN {}
    ELSE {d \in start..end : IsExpectedDate(d, p) /\ Midnight(d, p) + p.lag <= q.asOf /\ d \notin dated}

\* Expected days from the first to the last midnight of the window.
ExpectedMissing(q, p, dated) ==
    LET first == LocalDay(q.from, p)
        last  == LocalDay(q.to, p)
        start == IF q.from > Midnight(first, p) THEN first + 1 ELSE first
        end   == IF q.to = Midnight(last, p) THEN last - 1 ELSE last IN
    IF Expected(p) = "irregular" THEN {}
    ELSE {d \in start..end : IsExpectedDate(d, p) /\ Midnight(d, p) + p.lag <= q.asOf /\ d \notin dated}

-----------------------------------------------------------------------------
(* One series.                                                             *)

\* flagsContainSuspect and flagsContainMissing.
Suspect(r) == r.in \in {"suspect", "both"}
MarkedMissing(r) == r.in \in {"missing", "both"}

\* ListQualityObservations.
QualityRows(s, q) ==
    NewestOfEach({r \in Visible : r.kind = "observation" /\ r.of = s /\ q.from <= r.obs
                                  /\ r.obs < q.to /\ r.obs <= q.asOf /\ r.system <= q.asOf}, SystemKey)

\* Another revision of the observation, known by then, has another value.
Revised(r, q) ==
    \E s \in Visible : /\ s.kind = "observation" /\ s.of = r.of /\ s.obs = r.obs
                       /\ s.system <= q.asOf /\ s.value # r.value

Classification(suspect, dated, stale, gaps, revised) ==
    IF suspect THEN "suspect"
    ELSE IF dated = {} THEN "missing"
    ELSE IF stale THEN "stale"
    ELSE IF gaps THEN "partial"
    ELSE IF revised THEN "revised" ELSE "fresh"

InvalidPolicy == [class |-> "suspect", state |-> "blocked", gaps |-> {}, reasons |-> {"QUALITY_POLICY_INVALID"}]

\* The policy applied to samples S, of which some may be revised.
EvaluateSamples(p, q, S, revised, required) ==
    LET kept    == {r \in S : ~MarkedMissing(r)}
        dated   == {LocalDay(r.obs, p) : r \in kept}
        suspect == \E r \in S : Suspect(r)
        marked  == kept # S
        stale   == kept # {} /\ q.asOf - Max({r.obs : r \in kept}) > p.maxAge
        gaps    == ExpectedMissing(q, p, dated)
        class   == Classification(suspect, dated, stale, gaps # {} \/ marked, revised)
        when(code, holds) == IF holds THEN {code} ELSE {} IN
    IF ~ParsePolicy(p) THEN InvalidPolicy
    ELSE [class |-> class, gaps |-> gaps,
          state |-> IF class \notin {"missing", "stale", "partial", "suspect"} THEN "valid"
                    ELSE IF required THEN "blocked" ELSE "degraded",
          reasons |-> when("SOURCE_QUALITY_SUSPECT", suspect)
                      \cup when("SOURCE_MARKED_MISSING", marked)
                      \cup when("LATEST_OBSERVATION_STALE", stale)
                      \cup when("OBSERVATION_REVISED", revised)
                      \cup when("EXPECTED_DATA_MISSING", gaps # {} /\ dated = {})
                      \cup when("EXPECTED_PERIOD_GAP", gaps # {} /\ dated # {})
                      \cup when("NO_ELIGIBLE_OBSERVATIONS", gaps = {} /\ dated = {} /\ ~marked)]

EvaluateSeries(s, q, required) ==
    LET S == QualityRows(s, q) IN
    EvaluateSamples(SeriesRow[s].policy, q, S, \E r \in S : Revised(r, q), required)

Aggregate(states) ==
    IF "blocked" \in ToSet(states) THEN "blocked"
    ELSE IF "degraded" \in ToSet(states) THEN "degraded" ELSE "valid"

-----------------------------------------------------------------------------
(* Evaluate.                                                               *)

BeginQuality(q) ==
    /\ evaluator = NoEvaluator
    /\ Len(evaluations) < MaxEvaluations
    /\ q.from < q.to /\ q.to <= q.asOf /\ q.to - q.from <= MaxWindow
    /\ q.inputs # <<>> /\ Len(q.inputs) <= MaxInputs
    /\ \A m, n \in DOMAIN q.inputs : q.inputs[m].series = q.inputs[n].series => m = n
    /\ evaluator' = [phase |-> "reading", request |-> q, items |-> <<>>, rows |-> 0,
                     settled |-> SettledBy(q.asOf)]
    /\ UNCHANGED evaluations

\* An unknown series, one created after the instant, or too many rows.
EvaluateInput ==
    /\ evaluator # NoEvaluator
    /\ LET q    == evaluator.request
           i    == q.inputs[Len(evaluator.items) + 1]
           rows == evaluator.rows + Cardinality(QualityRows(i.series, q))
           next == Append(evaluator.items, EvaluateSeries(i.series, q, i.required)) IN
       IF i.series \notin DOMAIN created
       THEN evaluator' = NoEvaluator /\ UNCHANGED evaluations
       ELSE IF created[i.series] > q.asOf \/ rows > MaxObservations
       THEN evaluator' = NoEvaluator /\ UNCHANGED evaluations
       ELSE IF Len(next) < Len(q.inputs)
       THEN evaluator' = [evaluator EXCEPT !.items = next, !.rows = rows] /\ UNCHANGED evaluations
       ELSE /\ evaluator' = NoEvaluator
            /\ evaluations' = Append(evaluations,
                  [request |-> q, settled |-> evaluator.settled, items |-> next,
                   state |-> Aggregate([n \in DOMAIN next |-> next[n].state])])

QualityNext == (\E q \in QualityRequest : BeginQuality(q)) \/ EvaluateInput

-----------------------------------------------------------------------------
(* Properties.                                                             *)

(* Quality as of a settled instant never changes ("one immutable           *)
(* system-as-of snapshot", evaluate.go:61): corrections, late rows and new *)
(* series leave the answer to the same request as it was.                  *)
QualityReplays ==
    \A i, j \in DOMAIN evaluations :
        LET x == evaluations[i]
            y == evaluations[j] IN
        x.request = y.request /\ x.settled /\ y.settled => x = y

\* What was known of a series at the instant, and not superseded by then.
KnownThen(s, q) ==
    {r \in revisions : /\ r.kind = "observation" /\ r.of = s /\ r.system <= q.asOf
                       /\ \A t \in revisions :
                             t.kind = "observation" /\ t.of = s /\ t.obs = r.obs /\ t.system <= q.asOf
                                => t = r \/ Before(SystemKey(t), SystemKey(r))}

(* The reported gaps are exact: an expected day is one if and only if its  *)
(* midnight lies in the window and its release was due, and no value that  *)
(* then stood and was not marked missing falls on it in the source's zone. *)
GapsAreExact ==
    \A n \in DOMAIN evaluations : \A k \in DOMAIN evaluations[n].items :
        LET q    == evaluations[n].request
            s    == q.inputs[k].series
            p    == SeriesRow[s].policy
            span == (Day(q.from) - 2)..(Day(q.to) + 2)
            has(d) == \E r \in KnownThen(s, q) :
                         q.from <= r.obs /\ r.obs < q.to /\ ~MarkedMissing(r) /\ LocalDay(r.obs, p) = d IN
        evaluations[n].settled /\ ParsePolicy(p) =>
            evaluations[n].items[k].gaps =
                {d \in span : /\ IsExpectedDate(d, p)
                              /\ q.from <= Midnight(d, p) /\ Midnight(d, p) < q.to
                              /\ Midnight(d, p) + p.lag <= q.asOf
                              /\ ~has(d)}

(* An answer that is valid as a whole vouches for each of its series: a    *)
(* value that is young enough, no gap, and no suspect or missing mark that *)
(* stood at the instant; and no required series is only degraded.          *)
ValidMeansSound ==
    \A n \in DOMAIN evaluations : \A k \in DOMAIN evaluations[n].items :
        LET q == evaluations[n].request
            i == q.inputs[k]
            p == SeriesRow[i.series].policy
            S == {r \in KnownThen(i.series, q) : q.from <= r.obs /\ r.obs < q.to} IN
        evaluations[n].settled /\ (i.required \/ evaluations[n].state = "valid") =>
            \/ evaluations[n].state = "blocked"
            \/ /\ ParsePolicy(p)
               /\ \A r \in S : ~Suspect(r) /\ ~MarkedMissing(r)
               /\ \E r \in S : q.asOf - r.obs <= p.maxAge
               /\ evaluations[n].items[k].gaps = {}

(* A quality answer agrees with the rows that stood at its instant: the    *)
(* gaps are the days without a value, and "valid" is never said of worse.  *)
QualityIsSound == GapsAreExact /\ ValidMeansSound
=============================================================================
