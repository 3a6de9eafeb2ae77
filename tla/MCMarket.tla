------------------------------ MODULE MCMarket ------------------------------
(***************************************************************************)
(* Readers on small tables.  They write no common row, so each behaviour   *)
(* follows the one that chosen names.                                      *)
(***************************************************************************)
EXTENDS Readers, TLC

VARIABLE chosen

Price(id, c, t, x, s) ==
    [id |-> id, kind |-> "price", of |-> "eq", in |-> c, obs |-> t, value |-> x, source |-> s, raw |-> id]
Quote(id, a, b, t, x, s) ==
    [id |-> id, kind |-> "fx", of |-> a, in |-> b, obs |-> t, value |-> x, source |-> s, raw |-> id]
Seen(id, n, t, x, f, s) ==
    [id |-> id, kind |-> "observation", of |-> n, in |-> f, obs |-> t, value |-> x, source |-> s, raw |-> id]

MCPrices == {Price(1, "EUR", 2, 3, 1), Price(2, "USD", 3, 5, 2), Price(8, "EUR", 3, 4, 1)}
MCQuotes == {Quote(3, "EUR", "USD", 2, 2, 1), Quote(4, "USD", "EUR", 2, 3, 2), Quote(5, "USD", "TRY", 2, 7, 1),
             Quote(6, "TRY", "EUR", 1, 9, 1), Quote(7, "EUR", "USD", 3, 4, NoTime)}
MCObservations ==
    {Seen(10, 1, -4, 2, "ok", 1), Seen(11, 1, -4, 1, "ok", 1), Seen(12, 1, -1, 1, "ok", NoTime),
     Seen(13, 2, -4, 1, "ok", NoTime), Seen(14, 1, -1, 2, "missing", NoTime),
     Seen(15, 1, -2, 2, "suspect", 1), Seen(16, 1, -2, 3, "ok", NoTime),
     Seen(17, 1, -1, 1, "both", 1)}
MCArrival == MCPrices \cup MCQuotes \cup MCObservations

MCTraded == {S \in SUBSET (1..8) : Cardinality(S) >= 6} \cup {{}, {5}, {3, 5}}
MCObserved == {{12}, {11, 12, 13, 16}, {11, 13, 14, 15}}
MCEarlier == MCTraded \cup MCObserved

\* Snapshots, instruments and valuation requests.
Held(s, a, i, t, c, x) ==
    [snapshot |-> s, account |-> a, instrument |-> i, type |-> t, native |-> c, quantity |-> x]
MCLine == 1 :> Held("s1", "a1", "ce", "cash", "EUR", 2) @@ 2 :> Held("s1", "a1", "eq", "equity_spot", "EUR", -1)
          @@ 3 :> Held("s1", "a1", "cu", "cash", "USD", 1) @@ 4 :> Held("s2", "a1", "cx", "cash", "XAU", 1)
          @@ 5 :> Held("s1", "a2", "cu", "cash", "USD", 2)
MCInstrument == [ce |-> [kind |-> "cash", native |-> "EUR"], cu |-> [kind |-> "cash", native |-> "USD"],
                 cx |-> [kind |-> "cash", native |-> "XAU"], eq |-> [kind |-> "equity_spot", native |-> "EUR"]]
Asks(s, m, k) ==
    [snapshot |-> s, cutoff |-> 3, mode |-> m, knownAt |-> k, priceMaxAge |-> 2, fxMaxAge |-> 2]
MCVRequest == {Asks("s1", "system_as_of", 1), Asks("s1", "source_as_of", 1), Asks("s2", "system_as_of", 1)}
MCAlphabet == [EUR |-> 1, TRY |-> 2, USD |-> 3]

\* Series with their policies, walks and quality requests.
Policy(e, f, age, lag, offset) ==
    [versioned |-> TRUE, expected |-> e, frequency |-> f, maxAge |-> age, lag |-> lag,
     holidays |-> {}, offset |-> offset]
MCSeries == 1 :> [source |-> 2, code |-> 1, policy |-> Policy("", "daily", 3, 1, 1)]
         @@ 2 :> [source |-> 1, code |-> 2, policy |-> Policy("weekly", "daily", 9, 0, 0)]
         @@ 3 :> [source |-> 1, code |-> 1, policy |-> Policy("", "hourly", 9, 0, 0)]
Walk(l, s, m, n) == [list |-> l, series |-> s, mode |-> m, from |-> -4, to |-> 1, asOf |-> 1, limit |-> n]
MCWalk == {Walk("series", {}, "latest", 1), Walk("combined", {1}, "source_as_of", 1)}
     \cup {Walk("observations", {1}, m, 1) : m \in {"latest", "system_as_of", "source_as_of", "revisions"}}
     \cup {Walk("combined", {1, 2}, m, 2) : m \in {"latest", "system_as_of"}}
In(s, r) == [series |-> s, required |-> r]
Over(f, t, i) == [from |-> f, to |-> t, asOf |-> 1, inputs |-> i]
MCQuality == {Over(-4, 0, <<In(1, TRUE), In(2, FALSE)>>), Over(-4, -3, <<In(2, TRUE), In(3, FALSE)>>),
              Over(-4, -1, <<In(1, FALSE)>>), Over(-5, 0, <<In(1, TRUE)>>),
              Over(-4, 0, <<In(1, TRUE), In(2, FALSE), In(3, FALSE)>>)}

ASSUME MCPricesArePositive == PricesStayPositive

Ids == {r.id : r \in revisions}

Init ==
    /\ ReadersInit
    /\ \/ chosen = "valuation" /\ Ids \in MCTraded
       \/ chosen \in {"timeline", "quality"} /\ Ids \in MCObserved

Next ==
    /\ UNCHANGED chosen
    /\ \/ chosen = "valuation" /\ ValuationStep
       \/ chosen = "timeline" /\ TimelineStep
       \/ chosen = "quality" /\ QualityStep

Spec == Init /\ [][Next]_<<readersVars, chosen>>
=============================================================================
