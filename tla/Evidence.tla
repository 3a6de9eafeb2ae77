------------------------------ MODULE Evidence ------------------------------
(***************************************************************************)
(* Verification of decision evidence: Seal, addMetricDependencies and      *)
(* their helpers in internal/application/evidence/service.go, as operators *)
(* over rows (the revision tables) and objects (the raw objects whose      *)
(* archived bytes still have the recorded digest).                         *)
(*                                                                         *)
(* Ids are members of sets: the canonical spelling of UUIDs is left out.   *)
(* An object of a bundle that may be missing is an empty function.         *)
(***************************************************************************)
EXTENDS RevisionRows

CONSTANT InstrumentRow      \* instrument -> [kind, native], rows of instruments

Row(rows, kind, id) == {r \in rows : r.kind = kind /\ r.id = id}

SameClocks(e, r) == e.obs = r.obs /\ e.source = r.source /\ e.system = r.system

-----------------------------------------------------------------------------
(* Entries of the metric histories.                                        *)

VerifyMetricPrice(i, e, rows) ==
    \E r \in Row(rows, "price", e.id) :
        r.of = i /\ e.price = r.value /\ e.quote = r.in /\ SameClocks(e, r)

VerifyMetricCash(e, rows) ==
    \E r \in Row(rows, "fx", e.id) :
        /\ e.price = 1
        /\ "USD" \in {r.of, r.in}
        /\ e.quote = IF r.of = "USD" THEN r.in ELSE r.of
        /\ SameClocks(e, r)

VerifyMetricFX(x, rows) ==
    \E r \in Row(rows, "fx", x.id) :
        /\ x.pair = Pair(r) /\ x.rate = r.value /\ SameClocks(x, r)
        /\ \/ r.in = "USD" /\ r.of # "USD" /\ x.direction = "direct"
           \/ r.of = "USD" /\ r.in # "USD" /\ x.direction = "inverse"

FXFrom(x) == x.pair[IF x.direction = "direct" THEN 1 ELSE 2]
FXTo(x)   == x.pair[IF x.direction = "direct" THEN 2 ELSE 1]

\* The price times the rates of the path, as a fraction.
Numerator(e) ==
    FoldLeft(LAMBDA acc, x : IF x.direction = "direct" THEN acc * x.rate ELSE acc, e.price, e.path)
Denominator(e) ==
    FoldLeft(LAMBDA acc, x : IF x.direction = "direct" THEN acc ELSE acc * x.rate, 1, e.path)

\* The path starts at the quote currency, hangs together and ends at USD, and
\* gives the USD price to the last digit.
ValidUSDConversion(e) ==
    LET p == e.path IN
    /\ e.price > 0
    /\ e.usd # <<>> /\ e.usd[1] > 0
    /\ IF e.quote = "USD" THEN p = <<>>
       ELSE /\ p # <<>>
            /\ FXFrom(p[1]) = e.quote /\ FXTo(p[Len(p)]) = "USD"
            /\ \A k \in 1..(Len(p) - 1) : FXTo(p[k]) = FXFrom(p[k + 1])
            /\ \A k \in DOMAIN p : p[k].rate > 0
    /\ RoundAway(Numerator(e), Denominator(e)) = e.usd[1]

ValidConstantCash(e) ==
    /\ e.price = 1 /\ e.quote = "USD" /\ e.usd = <<Digits>> /\ e.path = <<>>
    /\ e.source = NoTime /\ e.system = NoTime
    /\ e.obs = Day(e.obs) * DayLength

\* The rows an entry stands on.
EntryRows(e, rows) ==
    IF e.constant THEN {}
    ELSE {r \in rows : r.id = e.id \/ \E n \in DOMAIN e.path : r.id = e.path[n].id}

EntryStands(i, e, inCash, rows, objects) ==
    IF inCash /\ e.constant
    THEN InstrumentRow[i].native = "USD" /\ ValidConstantCash(e)
    ELSE /\ IF inCash
            THEN e.quote = InstrumentRow[i].native /\ VerifyMetricCash(e, rows)
            ELSE VerifyMetricPrice(i, e, rows)
         /\ ValidUSDConversion(e)
         /\ \A n \in DOMAIN e.path : VerifyMetricFX(e.path[n], rows)
         /\ \A r \in EntryRows(e, rows) : r.raw \in objects

\* The price history the entries of an instrument amount to.
ExpectedHistory(S) ==
    [d \in {Day(e.obs) : e \in S} |->
        LET e == CHOOSE f \in {g \in S : Day(g.obs) = d} :
                     \A g \in S : Day(g.obs) = d => f.obs >= g.obs IN
        e.usd[1]]

Covered(b) == DOMAIN b.revisions \cup DOMAIN b.cash

AddMetricDependencies(b, rows, objects) ==
    /\ DOMAIN b.revisions \cap DOMAIN b.cash = {}
    /\ \A i \in DOMAIN b.cash : InstrumentRow[i].kind \in {"cash", "currency"}
    /\ \A i \in DOMAIN b.revisions :
          b.revisions[i] # {} /\ \A e \in b.revisions[i] : EntryStands(i, e, FALSE, rows, objects)
    /\ \A i \in DOMAIN b.cash :
          b.cash[i] # {} /\ \A e \in b.cash[i] : EntryStands(i, e, TRUE, rows, objects)
    /\ DOMAIN b.prices = Covered(b)
    /\ \A i \in DOMAIN b.revisions : b.prices[i] = ExpectedHistory(b.revisions[i])
    /\ \A i \in DOMAIN b.cash : b.prices[i] = ExpectedHistory(b.cash[i])

\* Entries of the metric histories of a bundle.
MetricEntries(b) ==
    (UNION {b.revisions[i] : i \in DOMAIN b.revisions})
    \cup (UNION {b.cash[i] : i \in DOMAIN b.cash})

\* The raw objects the bundle depends on.
BundleObjects(b, rows) == {r.raw : r \in UNION {EntryRows(e, rows) : e \in MetricEntries(b)}}
=============================================================================
