------------------------------ MODULE Valuation ------------------------------
(***************************************************************************)
(* Valuation runs: internal/application/valuation/service.go.  Create      *)
(* reads the FX quotes and then the prices of one instrument after the     *)
(* other, each in a statement of its own with no transaction around them,  *)
(* and persists the run with its lines.  Snapshots never change, so their  *)
(* lines are a constant.  A value that may be NULL is a sequence of at     *)
(* most one element.                                                       *)
(***************************************************************************)
EXTENDS Revisions

CONSTANTS
    SnapshotLine,   \* line id -> [snapshot, account, instrument, type, native, quantity]
    VRequest,       \* requests: [snapshot, cutoff, mode, knownAt, priceMaxAge, fxMaxAge]
    Fiat,           \* the currency codes isFiatCode accepts
    Alphabet,       \* currency code -> its place in the alphabet
    MaxValuations   \* bound on valuation runs

\* Create validates the request; Alphabet compares codes that isFiatCode accepts.
ASSUME ValuationAssumption ==
    /\ \A q \in VRequest : /\ q.cutoff \in Int /\ q.knownAt \in Int
                           /\ q.priceMaxAge \in Nat /\ q.fxMaxAge \in Nat
    /\ {"TRY", "USD"} \subseteq Fiat /\ "" \notin Fiat
    /\ \A c \in Fiat : Alphabet[c] \in Int

VARIABLES
    valuer,         \* the Create call in progress
    valuations      \* rows of valuation_runs with their valuation_lines

valuationVars == <<valuer, valuations>>

NoValuer == [phase |-> "idle"]

ValuationInit == valuer = NoValuer /\ valuations = <<>>

\* loadSnapshot.
SnapshotLines(q) == {l \in DOMAIN SnapshotLine : SnapshotLine[l].snapshot = q.snapshot}

IsCash(l) == SnapshotLine[l].type \in {"cash", "currency"}

-----------------------------------------------------------------------------
(* Loading.                                                                *)

EligibleRows(kind, q, maxAge) ==
    {r \in Visible : r.kind = kind /\ EligibleRevision(r, q, maxAge)}

\* loadFX keeps the first row of each pair.
LoadFX(q) ==
    LET E == EligibleRows("fx", q, q.fxMaxAge) IN
    {FirstRow({r \in E : Pair(r) = p}, q) : p \in {Pair(r) : r \in E}}

\* Variant of LoadPrice that forgets the knowledge clause.
LoadLatestPrice(i, q) ==
    LET E == {r \in Visible : r.kind = "price" /\ r.of = i /\ r.obs <= q.cutoff
                              /\ q.cutoff - r.obs <= q.priceMaxAge} IN
    IF E = {} THEN <<>> ELSE <<FirstRow(E, q)>>

\* loadPrices and selectPrice: the first row of all quote currencies.
LoadPrice(i, q) ==
    LET E == {r \in EligibleRows("price", q, q.priceMaxAge) : r.of = i} IN
    IF E = {} THEN <<>> ELSE <<FirstRow(E, q)>>

-----------------------------------------------------------------------------
(* Conversion paths.                                                       *)

NoPath == [found |-> FALSE, edges |-> <<>>, n |-> 1, d |-> 1]

Direction(x, source) == IF x.of = source THEN "forward" ELSE "reverse"
Edge(x, source) == [id |-> x.id, direction |-> Direction(x, source)]
Num(x, source) == IF x.of = source THEN x.value ELSE 1
Den(x, source) == IF x.of = source THEN 1 ELSE x.value

Between(quotes, a, b) == {x \in quotes : {x.of, x.in} = {a, b}}

\* Variant of BridgeQuote that takes quotes of the stored orientation only.
BridgeForward(source, target, quotes) ==
    LET C == {x \in quotes : Pair(x) = <<source, target>>} IN
    IF C = {} THEN <<>> ELSE <<CHOOSE x \in C : TRUE>>

\* bridgeQuote: the orientation whose base currency comes first.
BridgeQuote(source, target, quotes) ==
    LET C == Between(quotes, source, target) IN
    IF C = {} THEN <<>>
    ELSE <<CHOOSE x \in C : \A y \in C : Alphabet[x.of] <= Alphabet[y.of]>>

Bridge(source, target, quotes) ==
    LET one == BridgeQuote(source, "USD", quotes)
        two == BridgeQuote("USD", target, quotes) IN
    IF one = <<>> \/ two = <<>> THEN NoPath
    ELSE LET x == one[1]
             y == two[1] IN
         [found |-> TRUE, edges |-> <<Edge(x, source), Edge(y, "USD")>>,
          n |-> Num(x, source) * Num(y, "USD"), d |-> Den(x, source) * Den(y, "USD")]

DirectPath(source, target, quotes) ==
    LET C == Between(quotes, source, target) IN
    IF C = {} THEN NoPath
    ELSE LET x == CHOOSE y \in C : \A z \in C : z = y \/ Preferred(y, z) IN
         [found |-> TRUE, edges |-> <<Edge(x, source)>>, n |-> Num(x, source), d |-> Den(x, source)]

PathFor(source, target, quotes) ==
    IF ~({source, target} \subseteq Fiat) THEN NoPath
    ELSE IF source = target THEN [NoPath EXCEPT !.found = TRUE]
    ELSE IF Between(quotes, source, target) # {} THEN DirectPath(source, target, quotes)
    ELSE IF "USD" \in {source, target} THEN NoPath
    ELSE Bridge(source, target, quotes)

-----------------------------------------------------------------------------
(* One line and the run.                                                   *)

Converted(amount, path) == IF path.found THEN <<RoundAway(amount * path.n, path.d)>> ELSE <<>>

UnpricedLine ==
    [state |-> "blocked", reasons |-> {"PRICE_MISSING_OR_STALE"}, price |-> <<>>, quote |-> "",
     try |-> <<>>, usd |-> <<>>, tryPath |-> <<>>, usdPath |-> <<>>]

PricedLine(amount, price, quote, quotes) ==
    LET toTRY == PathFor(quote, "TRY", quotes)
        toUSD == PathFor(quote, "USD", quotes) IN
    [state   |-> IF toTRY.found /\ toUSD.found THEN "valid" ELSE "blocked",
     reasons |-> (IF toTRY.found THEN {} ELSE {"FX_TRY_MISSING_OR_STALE"})
                 \cup (IF toUSD.found THEN {} ELSE {"FX_USD_MISSING_OR_STALE"}),
     price   |-> price, quote |-> quote,
     try     |-> Converted(amount, toTRY), usd     |-> Converted(amount, toUSD),
     tryPath |-> toTRY.edges,              usdPath |-> toUSD.edges]

LineResult(l, v) ==
    LET line == SnapshotLine[l] IN
    IF IsCash(l) THEN PricedLine(line.quantity, <<>>, line.native, v.fx)
    ELSE IF v.prices[line.instrument] = <<>> THEN UnpricedLine
    ELSE LET p == v.prices[line.instrument][1] IN
         PricedLine(line.quantity * p.value, <<p.id>>, p.in, v.fx)

\* Totals of the amounts as they are stored.
TotalOf(lines, c) ==
    LET amounts == {l \in DOMAIN lines : lines[l][c] # <<>>} IN
    FoldSet(LAMBDA l, acc : acc + lines[l][c][1], 0, amounts)

RunState(lines) ==
    IF \E l \in DOMAIN lines : lines[l].state = "blocked" THEN "blocked" ELSE "valid"

-----------------------------------------------------------------------------
(* Create.                                                                 *)

BeginValuation(q) ==
    /\ valuer = NoValuer
    /\ Len(valuations) < MaxValuations
    /\ SnapshotLines(q) # {}
    /\ valuer' = [phase |-> "loading", request |-> q, fx |-> LoadFX(q), prices |-> <<>>,
                  settled |-> q.mode = "system_as_of" /\ SettledBy(q.knownAt)]
    /\ UNCHANGED valuations

\* Instruments whose prices are still to be loaded, in the order of the lines.
Unloaded == {l \in SnapshotLines(valuer.request) :
                ~IsCash(l) /\ SnapshotLine[l].instrument \notin DOMAIN valuer.prices}

LoadPrices ==
    /\ valuer # NoValuer
    /\ Unloaded # {}
    /\ LET i == SnapshotLine[Min(Unloaded)].instrument IN
       valuer' = [valuer EXCEPT !.prices =
                    [j \in DOMAIN valuer.prices \cup {i} |->
                        IF j = i THEN LoadPrice(i, valuer.request) ELSE valuer.prices[j]]]
    /\ UNCHANGED valuations

PersistValuation ==
    /\ valuer # NoValuer
    /\ Unloaded = {}
    /\ LET lines == [l \in SnapshotLines(valuer.request) |-> LineResult(l, valuer)] IN
       valuations' = Append(valuations,
           [request |-> valuer.request, settled |-> valuer.settled, lines |-> lines,
            state |-> RunState(lines), totals |-> <<TotalOf(lines, "try"), TotalOf(lines, "usd")>>])
    /\ valuer' = NoValuer

\* A failed query, or the end of the process, before the commit.
FailValuation == valuer # NoValuer /\ valuer' = NoValuer /\ UNCHANGED valuations

ValuationNext ==
    \/ /\ \/ \E q \in VRequest : BeginValuation(q)
          \/ LoadPrices \/ PersistValuation \/ FailValuation
       /\ UNCHANGED revisionVars
    \/ RevisionNext({a \in Arrival : a.kind # "observation"}) /\ UNCHANGED valuationVars

-----------------------------------------------------------------------------
(* Properties.                                                             *)

(* A valuation can be repeated: two runs of the same system-as-of request  *)
(* agree in every line, path and total, whatever arrived between them or   *)
(* between their statements, once nothing known by known_at was in flight. *)
ReplayIsStable ==
    \A i, j \in DOMAIN valuations :
        LET x == valuations[i]
            y == valuations[j] IN
        x.request = y.request /\ x.settled /\ y.settled => x = y

RowOf(id) == CHOOSE r \in revisions : r.id = id

\* Where an edge of a path starts and ends.
From(e) == IF e.direction = "forward" THEN RowOf(e.id).of ELSE RowOf(e.id).in
To(e)   == IF e.direction = "forward" THEN RowOf(e.id).in ELSE RowOf(e.id).of

Leads(path, source, target) ==
    IF path = <<>> THEN source = target
    ELSE /\ From(path[1]) = source
         /\ To(path[Len(path)]) = target
         /\ Len(path) = 2 => To(path[1]) = "USD" /\ From(path[2]) = "USD"

(* A stored conversion path leads from the line's quote currency to the    *)
(* target currency, over USD if it has two edges, and every amount has one *)
(* (AR-203: "Persist quote IDs in traversal order and each edge direction"). *)
PathsConnect ==
    \A n \in DOMAIN valuations : \A l \in DOMAIN valuations[n].lines :
        LET x == valuations[n].lines[l] IN
        /\ x.try # <<>> => Leads(x.tryPath, x.quote, "TRY")
        /\ x.usd # <<>> => Leads(x.usdPath, x.quote, "USD")

\* All rows, seen or not, that a settled request could use for a conversion.
Usable(q, a, b) ==
    {r \in Between({s \in revisions : s.kind = "fx"}, a, b) : EligibleRevision(r, q, q.fxMaxAge)}

Newest(r, S) == r \in S /\ \A s \in S : s.obs <= r.obs

NewestOfPair(r, S) == Newest(r, {s \in S : Pair(s) = Pair(r)})

\* What AR-203 promises of a conversion between two different currencies: a
\* direct quote of either orientation, the newest one; else a bridge over USD,
\* each leg the newest quote of its orientation (which orientation is taken where
\* both are usable is not promised); else no amount.
PathAsPromised(q, amount, path, source, target) ==
    LET direct == Usable(q, source, target)
        one    == Usable(q, source, "USD")
        two    == Usable(q, "USD", target) IN
    IF direct # {}
    THEN amount # <<>> /\ Len(path) = 1 /\ Newest(RowOf(path[1].id), direct)
    ELSE IF "USD" \notin {source, target} /\ one # {} /\ two # {}
    THEN /\ amount # <<>> /\ Len(path) = 2
         /\ NewestOfPair(RowOf(path[1].id), one)
         /\ NewestOfPair(RowOf(path[2].id), two)
    ELSE amount = <<>>

(* In a settled system-as-of valuation a line has an amount exactly if one *)
(* or two usable quotes allow it, whichever way they are stored: "the      *)
(* bridge is allowed only when neither direct orientation is eligible"     *)
(* (AR-203).                                                               *)
PathsAsPromised ==
    \A n \in DOMAIN valuations : \A l \in DOMAIN valuations[n].lines :
        LET v == valuations[n]
            x == v.lines[l] IN
        v.settled /\ x.quote \in Fiat =>
            /\ x.quote # "TRY" => PathAsPromised(v.request, x.try, x.tryPath, x.quote, "TRY")
            /\ x.quote # "USD" => PathAsPromised(v.request, x.usd, x.usdPath, x.quote, "USD")
=============================================================================
