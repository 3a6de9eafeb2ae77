------------------------------ MODULE Journal ------------------------------
(***************************************************************************)
(* The decision journal, internal/application/journal/service.go, with the *)
(* sealing of evidence, Seal in internal/application/evidence/service.go.  *)
(*                                                                         *)
(* Finalize holds the decision's row lock while Seal resolves one          *)
(* reference after the other at READ COMMITTED: meanwhile risk runs        *)
(* complete and archived objects are damaged.  A row of the timeline draws *)
(* its sequence number when it is inserted and is seen when its statement  *)
(* commits.  Snapshots, valuations and revisions never change and are      *)
(* constants; texts, horizons and budgets are left out, ids are canonical. *)
(***************************************************************************)
EXTENDS Evidence

CONSTANTS
    JAccount,       \* account -> its portfolio
    JSnapshot,      \* snapshot -> its portfolio
    JValuation,     \* valuation -> [snapshot, state, used: ids of revisions]
    JRun,           \* risk run -> [account, snapshot, valuation, ends, bundle]
    JRows,          \* rows of the revision tables
    JObject,        \* rows of raw_objects
    JDraft,         \* decision id -> [account, refs] it may be created with
    JCaller,        \* concurrent requests
    MaxEvents,      \* bound on sequence numbers drawn
    MaxDamaged      \* bound on objects lost from the archive

\* References are a list; id is the primary key of a revision table; and the id
\* of constant cash, "cash-constant:...", is not the id of a row.
ASSUME JournalAssumption ==
    /\ MaxEvents \in Nat
    /\ \A d \in DOMAIN JDraft :
          LET refs == JDraft[d].refs IN
          Len(refs) \in Nat /\ refs = [n \in 1..Len(refs) |-> refs[n]]
    /\ \A r, s \in JRows : r.kind = s.kind /\ r.id = s.id => r = s
    /\ \A x \in DOMAIN JRun : \A e \in MetricEntries(JRun[x].bundle) :
          e.constant => \A r \in JRows : r.id # e.id

VARIABLES
    jEvents,        \* rows of the timeline: [decision, kind, number]
    jOpen,          \* numbers of rows that are not committed
    jDrawn,         \* last number of decision_timeline_sequence
    finalized,      \* decisions with status finalized
    manifests,      \* decision_evidence, one sequence of rows per decision
    jCall,          \* the Finalize call of each caller
    runStates,      \* state of each risk run and its job
    archived        \* raw objects whose archived bytes have their digest

journalVars == <<jEvents, jOpen, jDrawn, finalized, manifests, jCall, runStates, archived>>

NotCalled == [phase |-> "idle"]

JournalInit ==
    /\ jEvents = {} /\ jOpen = {} /\ jDrawn = 0
    /\ finalized = {}
    /\ manifests = [d \in DOMAIN JDraft |-> <<>>]
    /\ jCall = [w \in JCaller |-> NotCalled]
    /\ runStates = [r \in DOMAIN JRun |-> "queued"]
    /\ archived = JObject

-----------------------------------------------------------------------------
(* Create, AddReview and AddAmendment.                                     *)

Committed == {e \in jEvents : e.number \notin jOpen}
Decided == {e.decision : e \in {f \in Committed : f.kind = "decision"}}

InsertEvent(d, kind) ==
    /\ jDrawn < MaxEvents
    /\ jDrawn' = jDrawn + 1
    /\ jEvents' = jEvents \cup {[decision |-> d, kind |-> kind, number |-> jDrawn + 1]}
    /\ jOpen' = jOpen \cup {jDrawn + 1}
    /\ UNCHANGED <<finalized, manifests, jCall, runStates, archived>>

CreateDecision(d) ==
    /\ \A e \in jEvents : e.decision # d
    /\ JDraft[d].account \in DOMAIN JAccount
    /\ InsertEvent(d, "decision")

\* AddReview and AddAmendment: INSERT ... SELECT ... WHERE EXISTS.
AddEvent(d, kind) ==
    /\ d \in Decided
    /\ InsertEvent(d, kind)

CommitEvent(e) ==
    /\ e.number \in jOpen
    /\ jOpen' = jOpen \ {e.number}
    /\ UNCHANGED <<jEvents, jDrawn, finalized, manifests, jCall, runStates, archived>>

\* The number is not drawn again.
RollbackEvent(e) ==
    /\ e.number \in jOpen
    /\ jOpen' = jOpen \ {e.number}
    /\ jEvents' = jEvents \ {e}
    /\ UNCHANGED <<jDrawn, finalized, manifests, jCall, runStates, archived>>

\* The query of Timeline, and the row that ORDER BY timeline_sequence puts first.
TimelineOf(d) == {e \in Committed : e.decision = d}
ComesFirst(e, d) == \A f \in TimelineOf(d) : e.number <= f.number

-----------------------------------------------------------------------------
(* Finalize.                                                               *)

JHas(w) == jCall[w] # NotCalled

\* SELECT ... FOR UPDATE of a draft; others are refused.
LockDecision(w, d) ==
    /\ ~JHas(w)
    /\ d \in Decided \ finalized
    /\ \A v \in JCaller : JHas(v) => jCall[v].decision # d
    /\ jCall' = [jCall EXCEPT ![w] =
                   [phase |-> "sealing", decision |-> d, kept |-> <<>>, raws |-> {}, intact |-> archived]]
    /\ UNCHANGED <<jEvents, jOpen, jDrawn, finalized, manifests, runStates, archived>>

Account(c) == JDraft[c.decision].account
Refs(c) == JDraft[c.decision].refs

Single == {"portfolio_snapshot", "valuation_run", "risk_run"}
RevisionKind == [price_revision |-> "price", fx_quote_revision |-> "fx",
                 observation_revision |-> "observation"]
JKinds == Single \cup {"raw_object"} \cup DOMAIN RevisionKind

\* Objects found intact before, in this call or now.
Intact(c) == archived \cup c.raws

KeptOf(c, kind) == {c.kept[n].id : n \in {m \in DOMAIN c.kept : c.kept[m].kind = kind}}

\* The rows behind a reference exist and belong to the account.
Resolves(c, ref) ==
    /\ ref.kind \in JKinds
    /\ ref.id \notin KeptOf(c, ref.kind)
    /\ ref.kind \in Single => KeptOf(c, ref.kind) = {}
    /\ CASE ref.kind = "portfolio_snapshot" ->
              ref.id \in DOMAIN JSnapshot /\ JSnapshot[ref.id] = JAccount[Account(c)]
         [] ref.kind = "valuation_run" ->
              /\ ref.id \in DOMAIN JValuation
              /\ JSnapshot[JValuation[ref.id].snapshot] = JAccount[Account(c)]
              /\ JValuation[ref.id].state \in {"valid", "degraded"}
         [] ref.kind = "risk_run" ->
              /\ ref.id \in DOMAIN JRun
              /\ JRun[ref.id].account = Account(c)
              /\ runStates[ref.id] \in {"valid", "degraded"}
              /\ AddMetricDependencies(JRun[ref.id].bundle, JRows, Intact(c))
         [] ref.kind = "raw_object" -> ref.id \in JObject /\ ref.id \in archived
         [] OTHER -> \E r \in Row(JRows, RevisionKind[ref.kind], ref.id) : r.raw \in Intact(c)

\* The raw objects a reference adds to the manifest.
RefObjects(ref) ==
    CASE ref.kind = "risk_run" -> BundleObjects(JRun[ref.id].bundle, JRows)
      [] ref.kind = "raw_object" -> {ref.id}
      [] ref.kind \in DOMAIN RevisionKind -> {r.raw : r \in Row(JRows, RevisionKind[ref.kind], ref.id)}
      [] OTHER -> {}

AllKept(c) == Len(c.kept) = Len(Refs(c))
NextRef(c) == Refs(c)[Len(c.kept) + 1]

ResolveReference(w) ==
    /\ JHas(w)
    /\ ~AllKept(jCall[w])
    /\ Resolves(jCall[w], NextRef(jCall[w]))
    /\ LET ref == NextRef(jCall[w]) IN
       jCall' = [jCall EXCEPT ![w].kept = Append(@, ref), ![w].raws = @ \cup RefObjects(ref)]
    /\ UNCHANGED <<jEvents, jOpen, jDrawn, finalized, manifests, runStates, archived>>

\* One snapshot, its valuation and the risk run of that valuation.
Coherent(c) ==
    \E s \in KeptOf(c, "portfolio_snapshot"), v \in KeptOf(c, "valuation_run"),
       r \in KeptOf(c, "risk_run") :
        JValuation[v].snapshot = s /\ JRun[r].snapshot = s /\ JRun[r].valuation = v

\* Variant of ValuationObjects that forgets the conversion paths.
PriceObjects(c) ==
    {r.raw : r \in {s \in JRows : s.kind = "price" /\ \E v \in KeptOf(c, "valuation_run") :
                                     s.id \in JValuation[v].used}}

\* Prices and conversion paths of the valuation's lines.
ValuationObjects(c) ==
    {r.raw : r \in {s \in JRows : \E v \in KeptOf(c, "valuation_run") : s.id \in JValuation[v].used}}

Sealable(c) == AllKept(c) /\ Coherent(c) /\ ValuationObjects(c) \subseteq Intact(c)

\* The insert of the manifest, the update of the status and the commit.
SealAndCommit(w) ==
    LET c == jCall[w] IN
    /\ JHas(w)
    /\ Sealable(c)
    /\ manifests' = [manifests EXCEPT ![c.decision] = Append(@,
          [refs |-> c.kept, raws |-> c.raws \cup ValuationObjects(c), intact |-> c.intact])]
    /\ finalized' = finalized \cup {c.decision}
    /\ jCall' = [jCall EXCEPT ![w] = NotCalled]
    /\ UNCHANGED <<jEvents, jOpen, jDrawn, runStates, archived>>

Refused(c) ==
    IF AllKept(c) THEN ~Sealable(c) ELSE ~Resolves(c, NextRef(c))

\* EVIDENCE_INCOMPLETE, and the deferred rollback.
RefuseFinalize(w) ==
    /\ JHas(w)
    /\ Refused(jCall[w])
    /\ jCall' = [jCall EXCEPT ![w] = NotCalled]
    /\ UNCHANGED <<jEvents, jOpen, jDrawn, finalized, manifests, runStates, archived>>

\* A failed statement, a lost connection or the end of the process.
BreakFinalize(w) ==
    /\ JHas(w)
    /\ jCall' = [jCall EXCEPT ![w] = NotCalled]
    /\ UNCHANGED <<jEvents, jOpen, jDrawn, finalized, manifests, runStates, archived>>

\* Variant of Reconstruct that believes the manifest.
ReconstructUnverified(d) == manifests[d] # <<>>

\* Evidence and Reconstruct: every listed object is read again.
Reconstruct(d) == manifests[d] # <<>> /\ manifests[d][1].raws \subseteq archived

-----------------------------------------------------------------------------
(* What else happens.                                                      *)

\* The worker completes a run: runs and jobs are immutable from then on.
CompleteRun(r) ==
    /\ runStates[r] = "queued"
    /\ runStates' = [runStates EXCEPT ![r] = JRun[r].ends]
    /\ UNCHANGED <<jEvents, jOpen, jDrawn, finalized, manifests, jCall, archived>>

DamageObject(o) ==
    /\ o \in archived
    /\ Cardinality(JObject \ archived) < MaxDamaged
    /\ archived' = archived \ {o}
    /\ UNCHANGED <<jEvents, jOpen, jDrawn, finalized, manifests, jCall, runStates>>

JournalNext ==
    \/ \E d \in DOMAIN JDraft :
          \/ CreateDecision(d)
          \/ \E kind \in {"review", "amendment"} : AddEvent(d, kind)
          \/ \E w \in JCaller : LockDecision(w, d)
    \/ \E e \in jEvents : CommitEvent(e) \/ RollbackEvent(e)
    \/ \E w \in JCaller :
          ResolveReference(w) \/ SealAndCommit(w) \/ RefuseFinalize(w) \/ BreakFinalize(w)
    \/ \E r \in DOMAIN JRun : CompleteRun(r)
    \/ \E o \in JObject : DamageObject(o)

JournalSpec == JournalInit /\ [][JournalNext]_journalVars

-----------------------------------------------------------------------------
(* Properties.                                                             *)

(* Numbers of the timeline are drawn once, and one call at a time seals a  *)
(* decision (the row lock of Finalize).                                    *)
JournalTypeOK ==
    /\ \A e, f \in jEvents : e.number = f.number => e = f
    /\ jOpen \subseteq 1..jDrawn
    /\ \A w \in JCaller : JHas(w) => jCall[w].decision \in Decided
    /\ \A v, w \in JCaller : JHas(v) /\ JHas(w) /\ jCall[v].decision = jCall[w].decision => v = w
    /\ \A r \in DOMAIN JRun : runStates[r] \in {"queued", JRun[r].ends}

(* A decision is finalized if and only if it has evidence, exactly once,   *)
(* and that evidence names all references the decision was created with,   *)
(* whichever calls ran at once, were refused or broke off.                 *)
FinalizedHasEvidence ==
    \A d \in DOMAIN JDraft :
        /\ Len(manifests[d]) = IF d \in finalized THEN 1 ELSE 0
        /\ \A n \in DOMAIN manifests[d] : manifests[d][n].refs = JDraft[d].refs

(* The sealed snapshot, valuation and risk run belong together and to the  *)
(* decision's account, and the run has ended with a usable result          *)
(* (Seal: "Every required artifact is checked before inserting").          *)
EvidenceIsCoherent ==
    \A d \in finalized :
        LET a == JDraft[d].account
            refs == JDraft[d].refs
            named(kind) == {refs[n].id : n \in {m \in DOMAIN refs : refs[m].kind = kind}} IN
        \E s \in named("portfolio_snapshot"), v \in named("valuation_run"), r \in named("risk_run") :
            /\ JSnapshot[s] = JAccount[a]
            /\ JValuation[v].snapshot = s
            /\ JRun[r].account = a /\ JRun[r].snapshot = s /\ JRun[r].valuation = v
            /\ runStates[r] \in {"valid", "degraded"}

RefRows(d) ==
    {r \in JRows : \E n \in DOMAIN JDraft[d].refs :
        LET ref == JDraft[d].refs[n] IN
        \/ ref.kind \in DOMAIN RevisionKind /\ r.kind = RevisionKind[ref.kind] /\ r.id = ref.id
        \/ ref.kind = "valuation_run" /\ r.id \in JValuation[ref.id].used
        \/ ref.kind = "risk_run" /\ \E e \in MetricEntries(JRun[ref.id].bundle) :
              r.id = e.id \/ \E k \in DOMAIN e.path : r.id = e.path[k].id}

(* The evidence is closed: the raw object behind every revision that is    *)
(* listed, valued or used in a metric is in the manifest, and every object *)
(* of the manifest still had its digest when the call began to seal.       *)
EvidenceIsClosed ==
    \A d \in finalized : \A n \in DOMAIN manifests[d] :
        /\ {r.raw : r \in RefRows(d)} \subseteq manifests[d][n].raws
        /\ manifests[d][n].raws \subseteq manifests[d][n].intact

(* Evidence that was sealed can be reconstructed as long as the archive    *)
(* keeps what its valuation, its run and its list rest on, and never when  *)
(* one of these objects is damaged (Reconstruct reads them all again).     *)
ReconstructsWhatStands ==
    \A d \in finalized :
        Reconstruct(d) <=> ({r.raw : r \in RefRows(d)}
                             \cup {o \in JObject : \E n \in DOMAIN JDraft[d].refs :
                                     JDraft[d].refs[n].kind = "raw_object" /\ JDraft[d].refs[n].id = o})
                           \subseteq archived

(* A timeline begins with its decision, and reviews and amendments come    *)
(* after it, although numbers are drawn before rows are committed.         *)
TimelineIsRooted ==
    \A d \in DOMAIN JDraft : \A e \in TimelineOf(d) : e.kind = "decision" <=> ComesFirst(e, d)

(* The evidence of a decision is sound: sealed once and only with it, of   *)
(* artifacts that belong together, with every raw object behind them, and  *)
(* on a timeline that begins with the decision.                            *)
EvidenceIsSound ==
    FinalizedHasEvidence /\ EvidenceIsCoherent /\ EvidenceIsClosed /\ TimelineIsRooted
=============================================================================
