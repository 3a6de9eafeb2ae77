------------------------------- MODULE Market -------------------------------
(***************************************************************************)
(* From market data to evidence: collectors fill the revision tables while *)
(* a snapshot is valued, a risk run seals the valuation, and the evidence  *)
(* service checks the sealed run against the tables again.                 *)
(***************************************************************************)
EXTENDS MetricInputs, Evidence

CONSTANTS
    Holder,         \* accounts
    MaxRiskRuns     \* bound on risk runs

\* What the schema guarantees: a rate is positive and between two currencies
\* (fx_quote_revisions), a line has the type and currency of its instrument, and
\* an account holds an instrument in one line of a snapshot.
ASSUME MarketAssumption ==
    /\ Digits \in Nat \ {0} /\ CashDays \in Nat \ {0}
    /\ \A a \in Arrival : a.kind = "fx" => a.value \in Nat \ {0} /\ a.of # a.in
    /\ \A l \in DOMAIN SnapshotLine :
          InstrumentRow[Instr(l)] = [kind |-> SnapshotLine[l].type, native |-> Native(l)]
    /\ \A l, m \in DOMAIN SnapshotLine :
          /\ SnapshotLine[l].snapshot = SnapshotLine[m].snapshot
          /\ SnapshotLine[l].account = SnapshotLine[m].account
          /\ Instr(l) = Instr(m)
          => l = m

marketVars == <<revisionVars, valuationVars, riskRuns>>

MarketInit == RevisionInit /\ ValuationInit /\ riskRuns = {}

MarketNext ==
    \/ ValuationNext /\ UNCHANGED riskRuns
    \/ /\ Cardinality(riskRuns) < MaxRiskRuns
       /\ \E n \in DOMAIN valuations, a \in Holder : SubmitRun(n, a)
       /\ UNCHANGED <<revisionVars, valuationVars>>

-----------------------------------------------------------------------------
(* Properties.                                                             *)

\* No price is zero, and none becomes zero when it is rounded to USD.
PricesStayPositive ==
    \A a \in Arrival :
        /\ a.kind = "price" => a.value \in Nat \ {0}
        /\ a.kind = "fx" /\ a.of = "USD" =>
              /\ \A p \in Arrival : p.kind = "price" /\ p.in = a.in => ConvertToUSD(p.value, a) > 0
              /\ \A l \in DOMAIN SnapshotLine : IsCash(l) /\ Native(l) = a.in => ConvertToUSD(1, a) > 0

SealedEntries(r) == MetricEntries(r.bundle)

(* What one service seals the other accepts: if the histories allowed a    *)
(* NAV, so that the run can have metrics, then addMetricDependencies finds *)
(* every entry in the tables and arrives at the same prices, whatever was  *)
(* inserted since.  Otherwise the decision could never be finalized.       *)
SealedRunVerifies ==
    \A r \in riskRuns :
        r.bundle.nav # <<>> =>
            AddMetricDependencies(r.bundle, Visible, {s.raw : s \in revisions})

(* No look-ahead: every revision a risk run seals was known at the known_at *)
(* of its valuation, and a price is converted with a quote that had been   *)
(* observed by then.                                                       *)
NoLookAhead ==
    \A r \in riskRuns : \A e \in SealedEntries(r) :
        LET q == valuations[r.valuation].request IN
        /\ \A s \in EntryRows(e, revisions) : s.obs <= q.cutoff /\ Known(s, q)
        /\ \A n \in DOMAIN e.path : e.path[n].obs <= e.obs

FXLeads(path, source, target) ==
    IF path = <<>> THEN source = target
    ELSE /\ FXFrom(path[1]) = source /\ FXTo(path[Len(path)]) = target
         /\ \A k \in 1..(Len(path) - 1) : FXTo(path[k]) = FXFrom(path[k + 1])

(* The conversion paths of the sealed positions, in the worker's words,    *)
(* lead from the quote currency of the line to TRY and to USD.             *)
PositionPathsConnect ==
    \A r \in riskRuns : \A l \in DOMAIN r.positions :
        LET c == valuations[r.valuation].lines[l].quote IN
        /\ FXLeads(r.positions[l].toTRY, c, "TRY")
        /\ FXLeads(r.positions[l].toUSD, c, "USD")

(* An amount is converted along one connected path, in the valuation's     *)
(* line and in the words the risk worker reads; and where the valuation is *)
(* settled, the path is a direct quote if there is one, the newest of both *)
(* orientations, else a bridge over USD, else there is no amount.          *)
ConversionsConnect == PathsConnect /\ PositionPathsConnect /\ PathsAsPromised
=============================================================================
