---------------------------- MODULE MetricInputs ----------------------------
(***************************************************************************)
(* What a risk run seals of its valuation: loadSealedValuation and its     *)
(* helpers in internal/application/scenarios/service.go.  Besides the      *)
(* positions it builds, for every instrument of the account, a daily       *)
(* history of USD prices with the revisions behind each of them, and from  *)
(* these the NAV history from which the worker computes its metrics.       *)
(*                                                                         *)
(* The queries of the transaction are one step: they look only at rows     *)
(* that are known by the valuation's known_at.  The basis of a knowledge   *)
(* time follows from the source time and is left out.                      *)
(***************************************************************************)
EXTENDS Valuation

CONSTANTS
    MetricWindow,           \* 730 days
    CashDays,               \* 64 days, of an account with nothing but USD
    MaxMetricInstruments    \* lines for which histories are loaded

VARIABLE riskRuns           \* scenario_runs: the valuation and what was sealed

-----------------------------------------------------------------------------
(* Histories.                                                              *)

InWindow(kind, q) == EligibleRows(kind, q, MetricWindow)

\* DISTINCT ON (observation_time), newest knowledge first.
LoadMetricPriceHistory(i, c, q) ==
    LET S == {r \in InWindow("price", q) : Pair(r) = <<i, c>>} IN
    {FirstRow({r \in S : r.obs = t}, q) : t \in {r.obs : r \in S}}

\* The order clause of the history, oldest first.
HistoryKey(r, q) ==
    IF q.mode = "source_as_of"
    THEN <<r.obs, -r.source, -r.system, r.id>>
    ELSE <<r.obs, -r.system, r.id>>

LoadMetricFXHistory(c, q) ==
    InOrder([r \in Between(InWindow("fx", q), c, "USD") |-> HistoryKey(r, q)])

MetricDirection(x) == IF x.in = "USD" THEN "direct" ELSE "inverse"

\* The head of the candidates C, places in history, after the insertion sort
\* that SliceStable is for a few elements: the last one that goes before all
\* those in front of it.  The comparison is no order when some source times
\* are missing.
HeadOf(history, C) ==
    LET heads == {n \in C : \A m \in C : m < n => Preferred(history[n], history[m])} IN
    IF C = {} THEN <<>> ELSE <<history[Max(heads)]>>

\* Variant of SelectOrientation that takes quotes observed later, too.
SelectAnyTime(history, direction, at, maxAge) ==
    HeadOf(history, {n \in DOMAIN history : /\ MetricDirection(history[n]) = direction
                                            /\ at - history[n].obs <= maxAge})

SelectOrientation(history, direction, at, maxAge) ==
    HeadOf(history, {n \in DOMAIN history : /\ MetricDirection(history[n]) = direction
                                            /\ history[n].obs <= at /\ at - history[n].obs <= maxAge})

SelectMetricFX(history, at, maxAge) ==
    LET direct == SelectOrientation(history, "direct", at, maxAge) IN
    IF direct # <<>> THEN direct ELSE SelectOrientation(history, "inverse", at, maxAge)

ConvertToUSD(price, x) ==
    IF MetricDirection(x) = "direct" THEN RoundAway(price * x.value, 1) ELSE RoundAway(price, x.value)

-----------------------------------------------------------------------------
(* Entries of the sealed histories.                                        *)

FXEntry(x) ==
    [id |-> x.id, pair |-> Pair(x), direction |-> MetricDirection(x), obs |-> x.obs,
     rate |-> x.value, source |-> x.source, system |-> x.system]

\* A price row with its USD price, if a quote was found for it.
PriceEntry(r, history, maxAge) ==
    LET fx == SelectMetricFX(history, r.obs, maxAge) IN
    [id |-> r.id, constant |-> FALSE, obs |-> r.obs, price |-> r.value, quote |-> r.in,
     usd  |-> IF r.in = "USD" THEN <<r.value * Digits>>
              ELSE IF fx = <<>> THEN <<>> ELSE <<ConvertToUSD(r.value, fx[1])>>,
     path |-> IF r.in = "USD" \/ fx = <<>> THEN <<>> ELSE <<FXEntry(fx[1])>>,
     source |-> r.source, system |-> r.system]

\* Cash in another currency: one quote for each day that has any.
CashEntry(x, c) ==
    [id |-> x.id, constant |-> FALSE, obs |-> x.obs, price |-> 1, quote |-> c,
     usd |-> <<ConvertToUSD(1, x)>>, path |-> <<FXEntry(x)>>,
     source |-> x.source, system |-> x.system]

BuildCashHistory(c, history, maxAge) ==
    LET first(d) == Min({n \in DOMAIN history : Day(history[n].obs) = d})
        days     == {Day(history[n].obs) : n \in DOMAIN history} IN
    {CashEntry(SelectMetricFX(history, history[first(d)].obs, maxAge)[1], c) : d \in days}

ConstantEntry(d) ==
    [id |-> 0, constant |-> TRUE, obs |-> d * DayLength, price |-> 1, quote |-> "USD",
     usd |-> <<Digits>>, path |-> <<>>, source |-> NoTime, system |-> NoTime]

\* selectMetricPriceRevisions: one entry for an observation time.
SelectEntries(S) == {e \in S : \A f \in S : f.obs = e.obs => e.id <= f.id}

EntryDays(S) == {Day(e.obs) : e \in S}

\* Variant of AggregateHistory: the first price of a day.
FirstOfDay(S) ==
    [d \in EntryDays(S) |->
        LET e == CHOOSE f \in {g \in S : Day(g.obs) = d} :
                     \A g \in S : Day(g.obs) = d => f.obs <= g.obs IN
        IF e.usd = <<>> THEN e.price * Digits ELSE e.usd[1]]

\* The last price of each day; the price as quoted when it has no USD price.
AggregateHistory(S) ==
    [d \in EntryDays(S) |->
        LET e == CHOOSE f \in {g \in S : Day(g.obs) = d} :
                     \A g \in S : Day(g.obs) = d => f.obs >= g.obs IN
        IF e.usd = <<>> THEN e.price * Digits ELSE e.usd[1]]

\* The days of an account that holds nothing but USD cash; Saturdays are out.
ConstantCashDates(cutoff) ==
    LET last    == Day(cutoff)
        counted == {d \in (last - 2 * CashDays)..last : d % 7 # 6} IN
    {d \in counted : Cardinality({e \in counted : e > d}) < CashDays}

-----------------------------------------------------------------------------
(* The bundle.                                                             *)

AccountLines(v, a) == {l \in DOMAIN v.lines : SnapshotLine[l].account = a}
Instr(l) == SnapshotLine[l].instrument
Native(l) == SnapshotLine[l].native

Constant(L) == {l \in L : IsCash(l) /\ Native(l) = "USD"}

\* The entries of a line that has a history of its own.
Entries(l, v) ==
    LET q == v.request IN
    SelectEntries(
        IF IsCash(l)
        THEN BuildCashHistory(Native(l), LoadMetricFXHistory(Native(l), q), q.fxMaxAge)
        ELSE LET c == v.lines[l].quote
                 h == IF c = "USD" THEN <<>> ELSE LoadMetricFXHistory(c, q) IN
             {PriceEntry(r, h, q.fxMaxAge) : r \in LoadMetricPriceHistory(Instr(l), c, q)})

\* The NAV of the days on which every instrument has a positive price.
BuildMetricNAV(prices, quantities) ==
    LET common == {d \in UNION {DOMAIN prices[i] : i \in DOMAIN prices} :
                     \A i \in DOMAIN prices : d \in DOMAIN prices[i]} IN
    IF \E i \in DOMAIN prices, d \in common : prices[i][d] <= 0 THEN <<>>
    ELSE [d \in common |->
             FoldSet(LAMBDA i, acc : acc + quantities[i] * prices[i][d], 0, DOMAIN prices)]

Blocked == [prices |-> <<>>, revisions |-> <<>>, cash |-> <<>>, nav |-> <<>>]

BuildBundle(v, L) ==
    LET dated    == L \ Constant(L)
        found    == [l \in dated |-> Entries(l, v)]
        whole    == \A l \in dated : found[l] # {} /\ \A e \in found[l] : e.usd # <<>>
        days     == UNION {EntryDays(found[l]) : l \in dated}
        cashDays == IF days = {} THEN ConstantCashDates(v.request.cutoff) ELSE days
        kept     == {l \in dated : found[l] # {}} \cup Constant(L)
        hist(l)  == IF l \in dated THEN found[l] ELSE {ConstantEntry(d) : d \in cashDays}
        line(i)  == CHOOSE l \in L : Instr(l) = i
        prices   == [i \in {Instr(l) : l \in kept} |-> AggregateHistory(hist(line(i)))]
        quantity == [i \in DOMAIN prices |-> SnapshotLine[line(i)].quantity] IN
    IF Cardinality(L) > MaxMetricInstruments THEN Blocked
    ELSE [prices    |-> prices,
          revisions |-> [i \in {Instr(l) : l \in {m \in kept : ~IsCash(m)}} |-> hist(line(i))],
          cash      |-> [i \in {Instr(l) : l \in {m \in kept : IsCash(m)}} |-> hist(line(i))],
          nav       |-> IF whole THEN BuildMetricNAV(prices, quantity) ELSE <<>>]

-----------------------------------------------------------------------------
(* Positions.                                                              *)

\* loadFXPairs, validateFXPath and fxPathMaps: the worker's words for a path.
FXPathMaps(path) ==
    [n \in DOMAIN path |-> [id |-> path[n].id, pair |-> Pair(RowOf(path[n].id)),
                            direction |-> IF path[n].direction = "forward" THEN "direct" ELSE "inverse"]]

Position(l, v) ==
    [toTRY |-> FXPathMaps(v.lines[l].tryPath), toUSD |-> FXPathMaps(v.lines[l].usdPath)]

\* convertMetricPriceToUSD refuses a price that is not positive, and with it the
\* whole submission.
Convertible(bundle) ==
    \A i \in DOMAIN bundle.revisions : \A e \in bundle.revisions[i] :
        e.path # <<>> => e.price > 0

\* A blocked valuation, or an account without lines in it, is refused.
SubmitRun(n, a) ==
    LET v == valuations[n]
        L == AccountLines(v, a) IN
    /\ v.state = "valid"
    /\ L # {}
    /\ Convertible(BuildBundle(v, L))
    /\ riskRuns' = riskRuns \cup
         {[valuation |-> n, account |-> a, bundle |-> BuildBundle(v, L),
           positions |-> [l \in L |-> Position(l, v)]]}
=============================================================================
