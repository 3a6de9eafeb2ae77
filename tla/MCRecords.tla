----------------------------- MODULE MCRecords -----------------------------
(***************************************************************************)
(* Records on small tables.  The services write no common row, so each     *)
(* behaviour follows the one that chosen names.                            *)
(***************************************************************************)
EXTENDS Records, TLC

CONSTANTS p1, p2, a1, a2, i1, i2, q1, q2, w1, w2

VARIABLE chosen

\* Portfolio requests.
Line(a, i, d) == [account |-> a, instrument |-> i, numbers |-> "valid", duration |-> d]
Asks(p, s, l) == [op |-> "snapshot", portfolio |-> p, supersedes |-> s, lines |-> l]
MCPRequest ==
    {[op |-> "account", portfolio |-> p, name |-> "main"] : p \in PortfolioId}
    \cup {[op |-> "instrument", type |-> "fixed_rate_bond", status |-> "active", entries |-> <<"X", "id1", "id2">>],
          [op |-> "instrument", type |-> "cash", status |-> "active", entries |-> <<"Y", "id2", "id1">>]}
    \cup {Asks(p1, NoSnapshot, <<Line(a1, i1, "positive"), Line(b, i1, "positive")>>) : b \in AccountId}
    \cup {Asks(p1, s, <<Line(a1, i1, "positive")>>) : s \in SnapshotId}
    \cup {Asks(p2, NoSnapshot, <<Line(a2, i1, d)>>) : d \in {"positive", "null"}}

\* Valuations to reconcile with, and what is asked of them.
Val(s, l) == [state |-> s, cutoff |-> 1, lines |-> l]
VLine(a, s, x) == [account |-> a, state |-> s, amount |-> [TRY |-> 2 * x, USD |-> x]]
MCRValuation ==
    "v1" :> Val("valid", "l1" :> VLine(a1, "valid", 2) @@ "l2" :> VLine(a1, "valid", -4)
                         @@ "l3" :> VLine(a2, "valid", 6))
    @@ "v2" :> Val("blocked", "l1" :> VLine(a1, "blocked", 0))
Checks(a, v, nav, cs, c) ==
    [op |-> "checkpoint", account |-> a, valuation |-> v, currency |-> "USD", cutoff |-> 1,
     nav |-> nav, checks |-> cs, complete |-> c]
Chk(l, x) == [line |-> l, amount |-> x]
MCRRequest ==
    {[op |-> "tolerance", account |-> a1, amount |-> x] : x \in {0, 3}}
    \cup {Checks(a1, "v2", 0, <<>>, FALSE), Checks(a2, "v1", 10, <<Chk("l3", 10)>>, TRUE),
          Checks(a1, "v1", 2, <<Chk("l3", 2)>>, FALSE), Checks(a1, "v1", 2, <<Chk("l4", 2)>>, FALSE),
          Checks(a1, "v1", 4, <<Chk("l1", 1), Chk("l1", 1)>>, FALSE)}
    \cup {Checks(a1, "v1", n, <<>>, c) : n \in {-4, 1, 13}, c \in BOOLEAN}
    \cup {[Checks(a1, "v1", -3, <<>>, FALSE) EXCEPT !.currency = "TRY"]}
    \cup {Checks(a1, "v1", 2, <<Chk("l1", x), Chk("l2", y)>>, TRUE) : x \in {1, 5}, y \in {1, -3}}

\* What decisions may refer to.
Revision(id, kind, of, in, raw) ==
    [id |-> id, kind |-> kind, of |-> of, in |-> in, obs |-> 2, value |-> 3, source |-> 1, system |-> 1,
     raw |-> raw]
MCJRows == {Revision(1, "price", "eq", "USD", "o1"), Revision(2, "fx", "USD", "TRY", "o2"),
            Revision(3, "observation", "cpi", "", "o3"),
            Revision(4, "price", "tr", "TRY", "o1"), Revision(5, "fx", "USD", "TRY", "o1")}
Priced(id, quote, usd, path) ==
    [id |-> id, constant |-> FALSE, obs |-> 2, price |-> 3, quote |-> quote, usd |-> usd, path |-> path,
     source |-> 1, system |-> 1]
MCPath == <<[id |-> 5, pair |-> <<"USD", "TRY">>, rate |-> 3, direction |-> "inverse", obs |-> 2,
             source |-> 1, system |-> 1]>>
MCBundle ==
    [prices    |-> [eq |-> 1 :> 6, tr |-> 1 :> 2, usd |-> 1 :> 2],
     revisions |-> [eq |-> {Priced(1, "USD", <<6>>, <<>>)}, tr |-> {Priced(4, "TRY", <<2>>, MCPath)}],
     cash      |-> [usd |-> {[id |-> 0, constant |-> TRUE, obs |-> 2, price |-> 1, quote |-> "USD",
                              usd |-> <<2>>, path |-> <<>>, source |-> NoTime, system |-> NoTime]}],
     nav |-> 1 :> 6]
NoBundle == [prices |-> <<>>, revisions |-> <<>>, cash |-> <<>>, nav |-> <<>>]
MCInstrument == [eq |-> [kind |-> "equity_spot", native |-> "USD"],
                 tr |-> [kind |-> "equity_spot", native |-> "TRY"],
                 usd |-> [kind |-> "cash", native |-> "USD"]]
MCJAccount == "a1" :> "p1" @@ "a2" :> "p2"
MCJSnapshot == "s1" :> "p1" @@ "s2" :> "p1"
MCJValuation == "v1" :> [snapshot |-> "s1", state |-> "valid", used |-> {1, 2}]
             @@ "v2" :> [snapshot |-> "s1", state |-> "valid", used |-> {2}]
             @@ "v3" :> [snapshot |-> "s2", state |-> "blocked", used |-> {}]
MCJRun == "r1" :> [account |-> "a1", snapshot |-> "s1", valuation |-> "v1", ends |-> "valid", bundle |-> MCBundle]
       @@ "r2" :> [account |-> "a1", snapshot |-> "s1", valuation |-> "v2", ends |-> "blocked", bundle |-> NoBundle]
Ref(k, i) == [kind |-> k, id |-> i]
MCJDraft ==
    "d1" :> [account |-> "a1", refs |-> <<Ref("portfolio_snapshot", "s1"), Ref("valuation_run", "v1"),
                                          Ref("risk_run", "r1"), Ref("observation_revision", 3)>>]
    @@ "d2" :> [account |-> "a1", refs |-> <<Ref("risk_run", "r1"), Ref("raw_object", "o3"),
                                             Ref("portfolio_snapshot", "s1"), Ref("valuation_run", "v2")>>]
    @@ "d3" :> [account |-> "a2", refs |-> <<Ref("portfolio_snapshot", "s1")>>]

-----------------------------------------------------------------------------
Init == RecordsInit /\ chosen \in {"portfolio", "reconciliation", "journal"}

Next ==
    /\ UNCHANGED chosen
    /\ \/ chosen = "portfolio" /\ PortfolioStep
       \/ chosen = "reconciliation" /\ ReconStep
       \/ chosen = "journal" /\ JournalStep

Spec == Init /\ [][Next]_<<recordsVars, chosen>>

Symmetry == Permutations({w1, w2}) \cup Permutations({q1, q2})
============================================================================
