--------------------------- MODULE Journal_proofs ---------------------------
(***************************************************************************)
(* Proofs about Journal, for any decisions, references, callers, runs,     *)
(* revisions and objects.                                                  *)
(*                                                                         *)
(* Seal checks one reference after the other while runs complete and       *)
(* objects are damaged.  JournalInv says what of each check is still true  *)
(* when the manifest is inserted: rows and completed runs stay, objects    *)
(* were intact when the call began, and the row lock keeps the decision a  *)
(* draft.                                                                  *)
(***************************************************************************)
EXTENDS Journal, TLAPS

AllRefs == UNION {Range(JDraft[d].refs) : d \in DOMAIN JDraft}

\* A Finalize call under way.
Call == [phase : {"sealing"}, decision : DOMAIN JDraft, kept : Seq(AllRefs),
         raws : SUBSET JObject, intact : SUBSET JObject]

\* Rows that a bundle names, and the objects that a decision rests on.
MetricRows(b) ==
    {r \in JRows : \E e \in MetricEntries(b) :
        r.id = e.id \/ \E k \in DOMAIN e.path : r.id = e.path[k].id}
ListedObjects(d) ==
    {o \in JObject : \E n \in DOMAIN JDraft[d].refs :
        JDraft[d].refs[n].kind = "raw_object" /\ JDraft[d].refs[n].id = o}
ObjectsOf(d) == {r.raw : r \in RefRows(d)} \cup ListedObjects(d)

JournalTyped ==
    /\ manifests = [d \in DOMAIN JDraft |-> manifests[d]]
    /\ runStates = [r \in DOMAIN JRun |-> runStates[r]]
    /\ \A r \in DOMAIN JRun : runStates[r] \in {"queued", JRun[r].ends}
    /\ jCall \in [JCaller -> Call \cup {NotCalled}]
    /\ archived \subseteq JObject
    /\ finalized \subseteq DOMAIN JDraft

\* Numbers are drawn once, in the order of the inserts.
NumbersAreDrawn ==
    /\ jDrawn \in Nat
    /\ jOpen \subseteq 1 .. jDrawn
    /\ \A e \in jEvents : e.number \in 1 .. jDrawn
    /\ \A e, f \in jEvents : e.number = f.number => e = f

\* One decision row, committed before anything is added to it.
DecisionIsFirst ==
    /\ \A e, f \in jEvents :
          e.kind = "decision" /\ f.kind = "decision" /\ e.decision = f.decision => e = f
    /\ \A f \in jEvents : f.kind # "decision" =>
          \E e \in Committed :
              e.kind = "decision" /\ e.decision = f.decision /\ e.number < f.number

\* What Seal has found out about a reference and nothing takes back.
RefStands(a, ref) ==
    /\ ref.kind \in JKinds
    /\ ref.kind = "portfolio_snapshot" => JSnapshot[ref.id] = JAccount[a]
    /\ ref.kind = "risk_run" =>
          /\ ref.id \in DOMAIN JRun /\ JRun[ref.id].account = a
          /\ runStates[ref.id] \in {"valid", "degraded"}
          /\ BundleObjects(JRun[ref.id].bundle, JRows) = {r.raw : r \in MetricRows(JRun[ref.id].bundle)}
    /\ ref.kind = "raw_object" => ref.id \in JObject

\* A call has kept a prefix of the references, each of them stands, and it has
\* listed exactly their objects, all of them intact when it took the lock.
CallStands(c) ==
    /\ c.decision \in Decided /\ c.decision \notin finalized
    /\ Len(c.kept) <= Len(Refs(c))
    /\ \A n \in 1 .. Len(c.kept) : c.kept[n] = Refs(c)[n] /\ RefStands(Account(c), c.kept[n])
    /\ c.raws = UNION {RefObjects(c.kept[n]) : n \in 1 .. Len(c.kept)}
    /\ archived \subseteq c.intact /\ c.raws \subseteq c.intact

OneCall(v, w) ==
    JHas(v) /\ JHas(w) /\ jCall[v].decision = jCall[w].decision => v = w

\* A snapshot, a valuation and a completed run of the account, named by the
\* decision, that belong together.
CoherentDecision(d) ==
    LET refs == JDraft[d].refs
        named(kind) == {refs[n].id : n \in {m \in DOMAIN refs : refs[m].kind = kind}} IN
    \E s \in named("portfolio_snapshot"), v \in named("valuation_run"), r \in named("risk_run") :
        /\ JSnapshot[s] = JAccount[JDraft[d].account]
        /\ JValuation[v].snapshot = s
        /\ JRun[r].account = JDraft[d].account /\ JRun[r].snapshot = s /\ JRun[r].valuation = v
        /\ r \in DOMAIN JRun /\ runStates[r] \in {"valid", "degraded"}

\* The evidence of a decision: none for a draft, and one manifest with its
\* references and exactly the objects they rest on once it is finalized.
SealedOnce(d) ==
    IF d \in finalized
    THEN /\ \E I \in SUBSET JObject :
               /\ manifests[d] = <<[refs |-> JDraft[d].refs, raws |-> ObjectsOf(d), intact |-> I]>>
               /\ ObjectsOf(d) \subseteq I
         /\ CoherentDecision(d)
    ELSE manifests[d] = <<>>

JournalInv ==
    /\ JournalTyped
    /\ NumbersAreDrawn
    /\ DecisionIsFirst
    /\ \A w \in JCaller : JHas(w) => CallStands(jCall[w])
    /\ \A v, w \in JCaller : OneCall(v, w)
    /\ \A d \in DOMAIN JDraft : SealedOnce(d)

-----------------------------------------------------------------------------
(* Facts about references, bundles and objects.                            *)

LEMMA RefsFacts ==
  ASSUME NEW d \in DOMAIN JDraft
  PROVE  /\ JDraft[d].refs \in Seq(AllRefs) /\ Len(JDraft[d].refs) \in Nat
         /\ DOMAIN JDraft[d].refs = 1 .. Len(JDraft[d].refs)
  <1>1. PICK refs : refs = JDraft[d].refs
    OBVIOUS
  <1>2. Len(refs) \in Nat /\ refs = [n \in 1 .. Len(refs) |-> refs[n]]
    BY <1>1, JournalAssumption
  <1>3. refs \in Seq(Range(refs))
    BY <1>2 DEF Range
  <1>4. Range(refs) \subseteq AllRefs
    BY <1>1 DEF AllRefs
  <1> QED BY <1>1, <1>2, <1>3, <1>4

LEMMA NotCalledIsNoCall ==
  \A c \in Call : c # NotCalled
  <1>1. \A c \in Call : "decision" \in DOMAIN c
    BY DEF Call
  <1>2. "decision" \notin DOMAIN NotCalled
    BY DEF NotCalled
  <1> QED BY <1>1, <1>2

\* A bundle that Seal accepts lists the objects of every row it names, constant
\* cash names none, and all of them were found intact.
LEMMA BundleIsClosed ==
  ASSUME NEW x \in DOMAIN JRun, NEW O, AddMetricDependencies(JRun[x].bundle, JRows, O)
  PROVE  /\ BundleObjects(JRun[x].bundle, JRows) = {r.raw : r \in MetricRows(JRun[x].bundle)}
         /\ BundleObjects(JRun[x].bundle, JRows) \subseteq O
  <1>1. PICK b : b = JRun[x].bundle
    OBVIOUS
  <1>2. ASSUME NEW e \in MetricEntries(b)
        PROVE  /\ EntryRows(e, JRows) =
                     {r \in JRows : r.id = e.id \/ \E k \in DOMAIN e.path : r.id = e.path[k].id}
               /\ \A r \in EntryRows(e, JRows) : r.raw \in O
    <2>1. e.constant => \A r \in JRows : r.id # e.id
      BY <1>1, JournalAssumption
    <2>2. CASE \E i \in DOMAIN b.revisions : e \in b.revisions[i]
      <3>1. PICK i \in DOMAIN b.revisions : e \in b.revisions[i]
        BY <2>2
      <3>2. EntryStands(i, e, FALSE, JRows, O)
        BY <1>1, <3>1 DEF AddMetricDependencies
      <3>3. VerifyMetricPrice(i, e, JRows) /\ \A r \in EntryRows(e, JRows) : r.raw \in O
        BY <3>2 DEF EntryStands
      <3>4. ~ e.constant
        BY <2>1, <3>3 DEF VerifyMetricPrice, Row
      <3> QED BY <3>3, <3>4 DEF EntryRows
    <2>3. CASE \E i \in DOMAIN b.cash : e \in b.cash[i]
      <3>1. PICK i \in DOMAIN b.cash : e \in b.cash[i]
        BY <2>3
      <3>2. EntryStands(i, e, TRUE, JRows, O)
        BY <1>1, <3>1 DEF AddMetricDependencies
      <3>3. CASE e.constant
        <4>1. DOMAIN e.path = {}
          <5>1. e.path = <<>>
            BY <3>2, <3>3 DEF EntryStands, ValidConstantCash
          <5> QED BY <5>1
        <4> QED BY <2>1, <3>3, <4>1 DEF EntryRows
      <3>4. CASE ~ e.constant
        BY <3>2, <3>4 DEF EntryStands, EntryRows
      <3> QED BY <3>3, <3>4
    <2>4. \/ \E i \in DOMAIN b.revisions : e \in b.revisions[i]
          \/ \E i \in DOMAIN b.cash : e \in b.cash[i]
      <3>1. \/ e \in UNION {b.revisions[i] : i \in DOMAIN b.revisions}
            \/ e \in UNION {b.cash[i] : i \in DOMAIN b.cash}
        BY <1>2 DEF MetricEntries
      <3> QED BY <3>1
    <2> QED BY <2>2, <2>3, <2>4
  <1>3. UNION {EntryRows(e, JRows) : e \in MetricEntries(b)} = MetricRows(b)
    BY <1>2 DEF MetricRows
  <1>4. \A r \in UNION {EntryRows(e, JRows) : e \in MetricEntries(b)} : r.raw \in O
    BY <1>2
  <1> QED BY <1>1, <1>3, <1>4 DEF BundleObjects

\* A reference that resolves stands, and its objects are intact.
LEMMA ResolvedStands ==
  ASSUME NEW c, NEW ref, Resolves(c, ref)
  PROVE  RefStands(Account(c), ref) /\ RefObjects(ref) \subseteq Intact(c)
  <1>1. ref.kind \in JKinds
    BY DEF Resolves
  <1>2. CASE ref.kind = "portfolio_snapshot"
    BY <1>1, <1>2 DEF Resolves, RefStands, RefObjects, RevisionKind
  <1>3. CASE ref.kind = "valuation_run"
    BY <1>1, <1>3 DEF Resolves, RefStands, RefObjects, RevisionKind
  <1>4. CASE ref.kind = "risk_run"
    <2>1. /\ ref.id \in DOMAIN JRun /\ JRun[ref.id].account = Account(c)
          /\ runStates[ref.id] \in {"valid", "degraded"}
          /\ AddMetricDependencies(JRun[ref.id].bundle, JRows, Intact(c))
      BY <1>4 DEF Resolves
    <2>2. RefObjects(ref) = BundleObjects(JRun[ref.id].bundle, JRows)
      BY <1>4 DEF RefObjects, RevisionKind
    <2>3. /\ BundleObjects(JRun[ref.id].bundle, JRows) = {r.raw : r \in MetricRows(JRun[ref.id].bundle)}
          /\ BundleObjects(JRun[ref.id].bundle, JRows) \subseteq Intact(c)
      <3>1. PICK x, O : x = ref.id /\ O = Intact(c) /\ x \in DOMAIN JRun
        BY <2>1
      <3>2. AddMetricDependencies(JRun[x].bundle, JRows, O)
        BY <2>1, <3>1
      <3>3. /\ BundleObjects(JRun[x].bundle, JRows) = {r.raw : r \in MetricRows(JRun[x].bundle)}
            /\ BundleObjects(JRun[x].bundle, JRows) \subseteq O
        BY <3>1, <3>2, BundleIsClosed
      <3> QED BY <3>1, <3>3
    <2>4. RefStands(Account(c), ref)
      BY <1>1, <1>4, <2>1, <2>3 DEF RefStands
    <2> QED BY <2>2, <2>3, <2>4
  <1>5. CASE ref.kind = "raw_object"
    BY <1>1, <1>5 DEF Resolves, RefStands, RefObjects, RevisionKind, Intact
  <1>6. CASE ref.kind \in DOMAIN RevisionKind
    <2>1. ref.kind \in {"price_revision", "fx_quote_revision", "observation_revision"}
      BY <1>6 DEF RevisionKind
    <2>2. \E r \in Row(JRows, RevisionKind[ref.kind], ref.id) : r.raw \in Intact(c)
      BY <2>1 DEF Resolves
    <2>3. RefObjects(ref) = {r.raw : r \in Row(JRows, RevisionKind[ref.kind], ref.id)}
      BY <1>6, <2>1 DEF RefObjects
    <2>4. \A r, s \in Row(JRows, RevisionKind[ref.kind], ref.id) : r = s
      BY JournalAssumption DEF Row
    <2> QED BY <1>1, <2>1, <2>2, <2>3, <2>4 DEF RefStands
  <1> QED BY <1>1, <1>2, <1>3, <1>4, <1>5, <1>6 DEF JKinds, Single

-----------------------------------------------------------------------------
(* What steps of others leave standing.                                    *)

\* A run that has completed stays as it is.
RunsStay ==
    \A r \in DOMAIN JRun :
        runStates[r] \in {"valid", "degraded"} => runStates'[r] = runStates[r]

LEMMA RefStays ==
  ASSUME RunsStay, NEW a, NEW ref, RefStands(a, ref)
  PROVE  RefStands(a, ref)'
  BY DEF RunsStay, RefStands, MetricRows

\* A call that does nothing keeps what it has found out.
LEMMA CallStays ==
  ASSUME RunsStay, NEW c, CallStands(c), Decided \subseteq Decided', archived' \subseteq archived,
         c.decision \notin finalized'
  PROVE  CallStands(c)'
  <1>1. c.decision \in Decided'
    BY DEF CallStands
  <1>2. \A n \in 1 .. Len(c.kept) : c.kept[n] = Refs(c)[n] /\ RefStands(Account(c), c.kept[n])'
    BY RefStays DEF CallStands
  <1>3. Len(c.kept) <= Len(Refs(c)) /\ c.raws = UNION {RefObjects(c.kept[n]) : n \in 1 .. Len(c.kept)}
        /\ archived' \subseteq c.intact /\ c.raws \subseteq c.intact
    BY DEF CallStands
  <1> QED BY <1>1, <1>2, <1>3 DEF CallStands, RefStands, MetricRows

LEMMA CoherenceStays ==
  ASSUME RunsStay, NEW d \in DOMAIN JDraft, CoherentDecision(d)
  PROVE  CoherentDecision(d)'
  BY DEF RunsStay, CoherentDecision

LEMMA SealedStays ==
  ASSUME RunsStay, NEW d \in DOMAIN JDraft, SealedOnce(d), manifests'[d] = manifests[d],
         d \in finalized' <=> d \in finalized
  PROVE  SealedOnce(d)'
  <1>1. CASE d \in finalized
    <2>1. CoherentDecision(d)'
      BY <1>1, CoherenceStays DEF SealedOnce
    <2>2. \E I \in SUBSET JObject :
             /\ manifests[d] = <<[refs |-> JDraft[d].refs, raws |-> ObjectsOf(d), intact |-> I]>>
             /\ ObjectsOf(d) \subseteq I
      BY <1>1 DEF SealedOnce
    <2> QED BY <1>1, <2>1, <2>2 DEF SealedOnce, ObjectsOf, RefRows, ListedObjects
  <1>2. CASE d \notin finalized
    BY <1>2 DEF SealedOnce
  <1> QED BY <1>1, <1>2

\* A step that touches neither calls nor decisions.
LEMMA AsideKeeps ==
  ASSUME JournalInv, UNCHANGED <<finalized, manifests, jCall>>, RunsStay,
         Decided \subseteq Decided', archived' \subseteq archived,
         runStates' = [r \in DOMAIN JRun |-> runStates'[r]],
         \A r \in DOMAIN JRun : runStates'[r] \in {"queued", JRun[r].ends},
         NumbersAreDrawn', DecisionIsFirst'
  PROVE  JournalInv'
  <1>1. JournalTyped'
    BY DEF JournalInv, JournalTyped
  <1>2. ASSUME NEW w \in JCaller, JHas(w)'
        PROVE  CallStands(jCall[w])'
    <2>1. PICK c : c = jCall[w] /\ c = jCall'[w]
      OBVIOUS
    <2>2. CallStands(c)
      BY <1>2, <2>1 DEF JournalInv, JHas
    <2>3. c.decision \notin finalized'
      BY <2>2 DEF CallStands
    <2>4. CallStands(c)'
      BY <2>2, <2>3, CallStays
    <2>5. jCall'[w] = c => (CallStands(c)' => CallStands(jCall[w])')
      BY DEF CallStands, Refs, Account
    <2> QED BY <2>1, <2>4, <2>5
  <1>3. \A v, w \in JCaller : OneCall(v, w)'
    BY DEF JournalInv, OneCall, JHas
  <1>4. \A d \in DOMAIN JDraft : SealedOnce(d)'
    BY SealedStays DEF JournalInv
  <1> QED BY <1>1, <1>2, <1>3, <1>4 DEF JournalInv

-----------------------------------------------------------------------------
(* The timeline.                                                           *)

\* Create, AddReview and AddAmendment insert a row that nobody sees yet.
LEMMA InsertKeeps ==
  ASSUME JournalInv, NEW d, NEW kind, InsertEvent(d, kind),
         kind = "decision" => \A e \in jEvents : e.decision # d,
         kind # "decision" => d \in Decided
  PROVE  JournalInv'
  <1>0. /\ jDrawn' = jDrawn + 1 /\ jOpen' = jOpen \cup {jDrawn + 1}
        /\ UNCHANGED <<finalized, manifests, jCall, runStates, archived>>
    BY DEF InsertEvent
  <1>1. PICK new : new = [decision |-> d, kind |-> kind, number |-> jDrawn + 1]
    OBVIOUS
  <1>2. jEvents' = jEvents \cup {new}
    BY <1>1 DEF InsertEvent
  <1>3. new.decision = d /\ new.kind = kind /\ new.number = jDrawn + 1
    BY <1>1
  <1>4. /\ jDrawn \in Nat /\ jOpen \subseteq 1 .. jDrawn
        /\ \A e \in jEvents : e.number \in 1 .. jDrawn
        /\ \A e, f \in jEvents : e.number = f.number => e = f
    BY DEF JournalInv, NumbersAreDrawn
  <1>5. NumbersAreDrawn'
    <2>1. jDrawn' \in Nat /\ jOpen' \subseteq 1 .. jDrawn'
      BY <1>0, <1>4
    <2>2. \A e \in jEvents' : e.number \in 1 .. jDrawn'
      BY <1>0, <1>2, <1>3, <1>4
    <2>3. \A e \in jEvents : e.number # new.number
      BY <1>3, <1>4
    <2>4. \A e, f \in jEvents' : e.number = f.number => e = f
      BY <1>2, <1>4, <2>3
    <2> QED BY <2>1, <2>2, <2>4 DEF NumbersAreDrawn
  <1>6. Committed' = Committed
    <2>1. \A e \in jEvents : e.number # jDrawn + 1
      BY <1>4
    <2> QED BY <1>0, <1>2, <1>3, <2>1 DEF Committed
  <1>7. DecisionIsFirst'
    <2>1. \A e, f \in jEvents' :
             e.kind = "decision" /\ f.kind = "decision" /\ e.decision = f.decision => e = f
      BY <1>2, <1>3 DEF JournalInv, DecisionIsFirst
    <2>2. ASSUME NEW f \in jEvents', f.kind # "decision"
          PROVE  \E e \in Committed' :
                    e.kind = "decision" /\ e.decision = f.decision /\ e.number < f.number
      <3>1. CASE f \in jEvents
        BY <1>6, <2>2, <3>1 DEF JournalInv, DecisionIsFirst
      <3>2. CASE f = new
        <4>1. PICK e \in Committed : e.kind = "decision" /\ e.decision = d
          BY <1>3, <2>2, <3>2 DEF Decided
        <4>2. e.number < new.number
          BY <1>3, <1>4, <4>1 DEF Committed
        <4> QED BY <1>3, <1>6, <3>2, <4>1, <4>2
      <3> QED BY <1>2, <3>1, <3>2
    <2> QED BY <2>1, <2>2 DEF DecisionIsFirst
  <1>8. Decided \subseteq Decided' /\ RunsStay
    BY <1>0, <1>6 DEF Decided, RunsStay
  <1>9. /\ runStates' = [r \in DOMAIN JRun |-> runStates'[r]]
        /\ \A r \in DOMAIN JRun : runStates'[r] \in {"queued", JRun[r].ends}
    BY <1>0 DEF JournalInv, JournalTyped
  <1> QED BY <1>0, <1>5, <1>7, <1>8, <1>9, AsideKeeps

\* A statement commits, or is rolled back and its row is gone.
LEMMA EndKeeps ==
  ASSUME JournalInv, NEW e \in jEvents, CommitEvent(e) \/ RollbackEvent(e)
  PROVE  JournalInv'
  <1>0. /\ e.number \in jOpen /\ jOpen' = jOpen \ {e.number}
        /\ jEvents' = jEvents \/ jEvents' = jEvents \ {e}
        /\ UNCHANGED <<jDrawn, finalized, manifests, jCall, runStates, archived>>
    BY DEF CommitEvent, RollbackEvent
  <1>1. jEvents' \subseteq jEvents /\ Committed \subseteq Committed'
    BY <1>0 DEF Committed
  <1>2. NumbersAreDrawn'
    BY <1>0, <1>1 DEF JournalInv, NumbersAreDrawn
  <1>3. DecisionIsFirst'
    BY <1>1 DEF JournalInv, DecisionIsFirst
  <1>4. Decided \subseteq Decided' /\ RunsStay
    BY <1>0, <1>1 DEF Decided, RunsStay
  <1>5. /\ runStates' = [r \in DOMAIN JRun |-> runStates'[r]]
        /\ \A r \in DOMAIN JRun : runStates'[r] \in {"queued", JRun[r].ends}
    BY <1>0 DEF JournalInv, JournalTyped
  <1> QED BY <1>0, <1>2, <1>3, <1>4, <1>5, AsideKeeps

-----------------------------------------------------------------------------
(* Runs and objects.                                                       *)

LEMMA CompleteRunStep ==
  ASSUME JournalInv, NEW r \in DOMAIN JRun, CompleteRun(r)
  PROVE  JournalInv'
  <1>0. /\ runStates[r] = "queued" /\ runStates' = [runStates EXCEPT ![r] = JRun[r].ends]
        /\ UNCHANGED <<jEvents, jOpen, jDrawn, finalized, manifests, jCall, archived>>
    BY DEF CompleteRun
  <1>1. DOMAIN runStates = DOMAIN JRun /\ \A x \in DOMAIN JRun : runStates[x] \in {"queued", JRun[x].ends}
    BY DEF JournalInv, JournalTyped
  <1>2. RunsStay
    BY <1>0, <1>1 DEF RunsStay
  <1>3. runStates' = [x \in DOMAIN JRun |-> runStates'[x]]
    BY <1>0, <1>1
  <1>4. \A x \in DOMAIN JRun : runStates'[x] \in {"queued", JRun[x].ends}
    BY <1>0, <1>1
  <1>5. Decided' = Decided /\ NumbersAreDrawn' /\ DecisionIsFirst'
    BY <1>0 DEF JournalInv, Decided, Committed, NumbersAreDrawn, DecisionIsFirst
  <1> QED BY <1>0, <1>2, <1>3, <1>4, <1>5, AsideKeeps

LEMMA DamageStep ==
  ASSUME JournalInv, NEW o \in JObject, DamageObject(o)
  PROVE  JournalInv'
  <1>0. /\ archived' \subseteq archived
        /\ UNCHANGED <<jEvents, jOpen, jDrawn, finalized, manifests, jCall, runStates>>
    BY DEF DamageObject
  <1>1. RunsStay /\ Decided' = Decided /\ NumbersAreDrawn' /\ DecisionIsFirst'
    BY <1>0 DEF RunsStay, JournalInv, Decided, Committed, NumbersAreDrawn, DecisionIsFirst
  <1>2. /\ runStates' = [r \in DOMAIN JRun |-> runStates'[r]]
        /\ \A r \in DOMAIN JRun : runStates'[r] \in {"queued", JRun[r].ends}
    BY <1>0 DEF JournalInv, JournalTyped
  <1> QED BY <1>0, <1>1, <1>2, AsideKeeps

-----------------------------------------------------------------------------
(* Finalize.                                                               *)

LEMMA CallFacts ==
  ASSUME JournalInv, NEW w \in JCaller, JHas(w)
  PROVE  /\ jCall[w] \in Call /\ CallStands(jCall[w])
         /\ jCall[w].decision \in DOMAIN JDraft /\ jCall[w].kept \in Seq(AllRefs)
         /\ jCall[w].raws \subseteq JObject /\ jCall[w].intact \subseteq JObject
  <1>1. jCall[w] \in Call /\ CallStands(jCall[w])
    BY DEF JournalInv, JournalTyped, JHas
  <1> QED BY <1>1 DEF Call

\* A call is made, goes on or ends without a manifest.
LEMMA CallMoves ==
  ASSUME JournalInv, NEW w \in JCaller, NEW c \in Call \cup {NotCalled},
         jCall' = [jCall EXCEPT ![w] = c],
         UNCHANGED <<jEvents, jOpen, jDrawn, finalized, manifests, runStates, archived>>,
         c # NotCalled => /\ CallStands(c)
                          /\ \A v \in JCaller \ {w} : JHas(v) => jCall[v].decision # c.decision
  PROVE  JournalInv'
  <1>1. jCall \in [JCaller -> Call \cup {NotCalled}]
    BY DEF JournalInv, JournalTyped
  <1>2. jCall'[w] = c /\ \A v \in JCaller \ {w} : jCall'[v] = jCall[v]
    BY <1>1
  <1>3. RunsStay /\ Decided' = Decided /\ NumbersAreDrawn' /\ DecisionIsFirst'
    BY DEF RunsStay, JournalInv, Decided, Committed, NumbersAreDrawn, DecisionIsFirst
  <1>4. JournalTyped'
    BY <1>1 DEF JournalInv, JournalTyped
  <1>5. ASSUME NEW v \in JCaller, JHas(v)'
        PROVE  CallStands(jCall[v])'
    <2>1. PICK b : b = jCall'[v]
      OBVIOUS
    <2>2. CallStands(b)
      BY <1>2, <1>5, <2>1 DEF JournalInv, JHas
    <2>3. b.decision \notin finalized'
      BY <2>2 DEF CallStands
    <2>4. CallStands(b)'
      BY <1>3, <2>2, <2>3, CallStays
    <2>5. jCall'[v] = b => (CallStands(b)' => CallStands(jCall[v])')
      BY DEF CallStands, Refs, Account
    <2> QED BY <2>1, <2>4, <2>5
  <1>6. ASSUME NEW v \in JCaller, NEW u \in JCaller
        PROVE  OneCall(v, u)'
    <2>1. CASE v # w /\ u # w
      BY <1>2, <2>1 DEF JournalInv, OneCall, JHas
    <2>2. CASE v = w \/ u = w
      BY <1>2, <2>2 DEF OneCall, JHas
    <2> QED BY <2>1, <2>2
  <1>7. \A d \in DOMAIN JDraft : SealedOnce(d)'
    BY <1>3, SealedStays DEF JournalInv
  <1> QED BY <1>3, <1>4, <1>5, <1>6, <1>7 DEF JournalInv

LEMMA LockStep ==
  ASSUME JournalInv, NEW w \in JCaller, NEW d \in DOMAIN JDraft, LockDecision(w, d)
  PROVE  JournalInv'
  <1>0. /\ d \in Decided /\ d \notin finalized
        /\ \A v \in JCaller : JHas(v) => jCall[v].decision # d
        /\ UNCHANGED <<jEvents, jOpen, jDrawn, finalized, manifests, runStates, archived>>
    BY DEF LockDecision
  <1>1. PICK c : c = [phase |-> "sealing", decision |-> d, kept |-> <<>>, raws |-> {}, intact |-> archived]
    OBVIOUS
  <1>2. jCall' = [jCall EXCEPT ![w] = c]
    BY <1>1 DEF LockDecision
  <1>3. c.decision = d /\ c.kept = <<>> /\ c.raws = {} /\ c.intact = archived
    BY <1>1
  <1>4. c \in Call
    <2>1. archived \subseteq JObject
      BY DEF JournalInv, JournalTyped
    <2> QED BY <1>1, <2>1 DEF Call
  <1>5. CallStands(c)
    <2>1. Len(c.kept) = 0 /\ 1 .. Len(c.kept) = {} /\ Len(c.kept) <= Len(Refs(c))
      BY <1>3, RefsFacts DEF Refs
    <2>2. c.raws = UNION {RefObjects(c.kept[n]) : n \in 1 .. Len(c.kept)}
      BY <1>3, <2>1
    <2> QED BY <1>0, <1>3, <2>1, <2>2 DEF CallStands
  <1> QED BY <1>0, <1>2, <1>3, <1>4, <1>5, CallMoves

LEMMA GiveUpStep ==
  ASSUME JournalInv, NEW w \in JCaller, RefuseFinalize(w) \/ BreakFinalize(w)
  PROVE  JournalInv'
  <1>1. /\ jCall' = [jCall EXCEPT ![w] = NotCalled]
        /\ UNCHANGED <<jEvents, jOpen, jDrawn, finalized, manifests, runStates, archived>>
    BY DEF RefuseFinalize, BreakFinalize
  <1> QED BY <1>1, CallMoves

LEMMA ResolveStep ==
  ASSUME JournalInv, NEW w \in JCaller, ResolveReference(w)
  PROVE  JournalInv'
  <1>0. /\ JHas(w) /\ ~ AllKept(jCall[w])
        /\ UNCHANGED <<jEvents, jOpen, jDrawn, finalized, manifests, runStates, archived>>
    BY DEF ResolveReference
  <1>1. PICK c, ref : c = jCall[w] /\ ref = NextRef(c)
    OBVIOUS
  <1>2. /\ c \in Call /\ c.decision \in DOMAIN JDraft /\ c.kept \in Seq(AllRefs)
        /\ c.raws \subseteq JObject /\ c.intact \subseteq JObject /\ CallStands(c)
    BY <1>0, <1>1, CallFacts
  <1>3. RefStands(Account(c), ref) /\ RefObjects(ref) \subseteq Intact(c)
    BY <1>1, ResolvedStands DEF ResolveReference
  <1>4. Refs(c) \in Seq(AllRefs) /\ Len(Refs(c)) \in Nat /\ Len(c.kept) \in Nat
    BY <1>2, RefsFacts DEF Refs
  <1>5. Len(c.kept) < Len(Refs(c)) /\ ref = Refs(c)[Len(c.kept) + 1] /\ ref \in AllRefs
    <2>1. Len(c.kept) # Len(Refs(c)) /\ Len(c.kept) <= Len(Refs(c))
      BY <1>0, <1>1, <1>2 DEF AllKept, CallStands
    <2>2. ref = Refs(c)[Len(c.kept) + 1]
      BY <1>1 DEF NextRef
    <2> QED BY <1>4, <2>1, <2>2
  <1>6. PICK k : k = Append(c.kept, ref)
    OBVIOUS
  <1>7. /\ k \in Seq(AllRefs) /\ Len(k) = Len(c.kept) + 1 /\ k[Len(k)] = ref
        /\ \A n \in 1 .. Len(c.kept) : k[n] = c.kept[n]
    BY <1>2, <1>5, <1>6
  <1>8. PICK new : new = [phase |-> "sealing", decision |-> c.decision, kept |-> k,
                          raws |-> c.raws \cup RefObjects(ref), intact |-> c.intact]
    OBVIOUS
  <1>9. /\ new.decision = c.decision /\ new.kept = k /\ new.intact = c.intact
        /\ new.raws = c.raws \cup RefObjects(ref)
    BY <1>8
  <1>10. jCall' = [jCall EXCEPT ![w] = new]
    <2>1. jCall \in [JCaller -> Call \cup {NotCalled}]
      BY DEF JournalInv, JournalTyped
    <2>2. [c EXCEPT !.kept = k, !.raws = c.raws \cup RefObjects(ref)] = new
      <3>1. c = [phase |-> "sealing", decision |-> c.decision, kept |-> c.kept,
                 raws |-> c.raws, intact |-> c.intact]
        BY <1>2 DEF Call
      <3>2. PICK mid : mid = [c EXCEPT !.kept = k]
        OBVIOUS
      <3>3. mid = [phase |-> "sealing", decision |-> c.decision, kept |-> k,
                   raws |-> c.raws, intact |-> c.intact]
        BY <3>1, <3>2
      <3>4. [mid EXCEPT !.raws = c.raws \cup RefObjects(ref)]
              = [phase |-> "sealing", decision |-> c.decision, kept |-> k,
                 raws |-> c.raws \cup RefObjects(ref), intact |-> c.intact]
        BY <3>3
      <3> QED BY <1>8, <3>2, <3>4, Zenon
    <2>3. jCall' = [jCall EXCEPT ![w] = [c EXCEPT !.kept = k, !.raws = c.raws \cup RefObjects(ref)]]
      BY <1>1, <1>6, <2>1 DEF ResolveReference
    <2> QED BY <2>2, <2>3
  <1>11. new.raws \subseteq c.intact
    BY <1>2, <1>3, <1>9 DEF CallStands, Intact
  <1>12. new \in Call
    BY <1>2, <1>7, <1>8, <1>9, <1>11 DEF Call
  <1>13. CallStands(new)
    <2>1. Refs(new) = Refs(c) /\ Account(new) = Account(c)
      BY <1>9 DEF Refs, Account
    <2>2. \A n \in 1 .. Len(k) : n = Len(k) \/ n \in 1 .. Len(c.kept)
      BY <1>4, <1>7
    <2>3. \A n \in 1 .. Len(k) : k[n] = Refs(c)[n] /\ RefStands(Account(c), k[n])
      BY <1>2, <1>3, <1>5, <1>7, <2>2 DEF CallStands
    <2>4. c.raws \cup RefObjects(ref) = UNION {RefObjects(k[n]) : n \in 1 .. Len(k)}
      <3>1. c.raws = UNION {RefObjects(k[n]) : n \in 1 .. Len(c.kept)}
        BY <1>2, <1>7 DEF CallStands
      <3>2. 1 .. Len(k) = (1 .. Len(c.kept)) \cup {Len(k)}
        BY <1>4, <1>7
      <3> QED BY <1>7, <3>1, <3>2
    <2>5. Len(k) <= Len(Refs(c))
      BY <1>4, <1>5, <1>7
    <2>6. c.decision \in Decided /\ c.decision \notin finalized /\ archived \subseteq c.intact
      BY <1>2 DEF CallStands
    <2> QED BY <1>9, <1>11, <2>1, <2>3, <2>4, <2>5, <2>6 DEF CallStands
  <1>14. \A v \in JCaller \ {w} : JHas(v) => jCall[v].decision # new.decision
    BY <1>0, <1>1, <1>9 DEF JournalInv, OneCall
  <1> QED BY <1>0, <1>10, <1>12, <1>13, <1>14, CallMoves

\* The manifest lists exactly the objects behind the references of its decision.
LEMMA SealedObjects ==
  ASSUME NEW d \in DOMAIN JDraft, NEW c, c.decision = d, c.kept = JDraft[d].refs,
         \A n \in 1 .. Len(c.kept) : RefStands(Account(c), c.kept[n]),
         c.raws = UNION {RefObjects(c.kept[n]) : n \in 1 .. Len(c.kept)}
  PROVE  c.raws \cup ValuationObjects(c) = ObjectsOf(d)
  <1>0. PICK refs : refs = JDraft[d].refs
    OBVIOUS
  <1>1. DOMAIN refs = 1 .. Len(refs) /\ c.kept = refs
    BY <1>0, RefsFacts
  <1>2. ASSUME NEW n \in DOMAIN refs, NEW o \in RefObjects(refs[n])
        PROVE  o \in ObjectsOf(d)
    <2>1. refs[n].kind \in JKinds
      BY <1>1 DEF RefStands
    <2>2. CASE refs[n].kind = "risk_run"
      <3>1. o \in {r.raw : r \in MetricRows(JRun[refs[n].id].bundle)}
        BY <1>1, <1>2, <2>2 DEF RefObjects, RefStands, RevisionKind
      <3>2. PICK r \in MetricRows(JRun[refs[n].id].bundle) : o = r.raw
        BY <3>1
      <3>3. r \in RefRows(d)
        BY <1>0, <2>2, <3>2 DEF RefRows, MetricRows
      <3> QED BY <3>2, <3>3 DEF ObjectsOf
    <2>3. CASE refs[n].kind = "raw_object"
      BY <1>0, <1>1, <1>2, <2>3 DEF RefObjects, RefStands, RevisionKind, ObjectsOf, ListedObjects
    <2>4. CASE refs[n].kind \in DOMAIN RevisionKind
      <3>1. PICK r \in Row(JRows, RevisionKind[refs[n].kind], refs[n].id) : o = r.raw
        BY <1>2, <2>4 DEF RefObjects, RevisionKind
      <3>2. r \in RefRows(d)
        BY <1>0, <2>4, <3>1 DEF RefRows, Row
      <3> QED BY <3>1, <3>2 DEF ObjectsOf
    <2>5. CASE refs[n].kind \in {"portfolio_snapshot", "valuation_run"}
      BY <1>2, <2>5 DEF RefObjects, RevisionKind
    <2> QED BY <2>1, <2>2, <2>3, <2>4, <2>5 DEF JKinds, Single
  <1>3. ASSUME NEW o \in ValuationObjects(c)
        PROVE  o \in ObjectsOf(d)
    <2>1. PICK r \in JRows, v \in KeptOf(c, "valuation_run") : o = r.raw /\ r.id \in JValuation[v].used
      BY DEF ValuationObjects
    <2>2. PICK n \in DOMAIN refs : refs[n].kind = "valuation_run" /\ refs[n].id = v
      BY <1>1, <2>1 DEF KeptOf
    <2>3. r \in RefRows(d)
      BY <1>0, <2>1, <2>2 DEF RefRows
    <2> QED BY <2>1, <2>3 DEF ObjectsOf
  <1>4. ASSUME NEW r \in RefRows(d)
        PROVE  r.raw \in c.raws \cup ValuationObjects(c)
    <2>1. PICK n \in DOMAIN refs :
             \/ refs[n].kind \in DOMAIN RevisionKind /\ r.kind = RevisionKind[refs[n].kind] /\ r.id = refs[n].id
             \/ refs[n].kind = "valuation_run" /\ r.id \in JValuation[refs[n].id].used
             \/ refs[n].kind = "risk_run" /\ r \in MetricRows(JRun[refs[n].id].bundle)
      BY <1>0 DEF RefRows, MetricRows
    <2>2. r \in JRows
      BY DEF RefRows
    <2>3. RefObjects(refs[n]) \subseteq c.raws
      BY <1>1
    <2>4. CASE refs[n].kind \in DOMAIN RevisionKind /\ r.kind = RevisionKind[refs[n].kind] /\ r.id = refs[n].id
      <3>1. RefObjects(refs[n]) = {s.raw : s \in Row(JRows, RevisionKind[refs[n].kind], refs[n].id)}
        BY <2>4 DEF RefObjects, RevisionKind
      <3> QED BY <2>2, <2>3, <2>4, <3>1 DEF Row
    <2>5. CASE refs[n].kind = "valuation_run" /\ r.id \in JValuation[refs[n].id].used
      <3>1. refs[n].id \in KeptOf(c, "valuation_run")
        BY <1>1, <2>5 DEF KeptOf
      <3> QED BY <2>2, <2>5, <3>1 DEF ValuationObjects
    <2>6. CASE refs[n].kind = "risk_run" /\ r \in MetricRows(JRun[refs[n].id].bundle)
      <3>1. RefObjects(refs[n]) = {s.raw : s \in MetricRows(JRun[refs[n].id].bundle)}
        BY <1>1, <2>6 DEF RefObjects, RefStands, RevisionKind
      <3> QED BY <2>3, <2>6, <3>1
    <2> QED BY <2>1, <2>4, <2>5, <2>6
  <1>5. ASSUME NEW o \in ListedObjects(d)
        PROVE  o \in c.raws
    <2>1. PICK n \in DOMAIN refs : refs[n].kind = "raw_object" /\ refs[n].id = o
      BY <1>0 DEF ListedObjects
    <2>2. o \in RefObjects(refs[n])
      BY <2>1 DEF RefObjects, RevisionKind
    <2> QED BY <1>1, <2>2
  <1>6. \A o \in c.raws : o \in ObjectsOf(d)
    BY <1>1, <1>2
  <1> QED BY <1>3, <1>4, <1>5, <1>6 DEF ObjectsOf

LEMMA SealStep ==
  ASSUME JournalInv, NEW w \in JCaller, SealAndCommit(w)
  PROVE  JournalInv'
  <1>0. JHas(w) /\ Sealable(jCall[w]) /\ UNCHANGED <<jEvents, jOpen, jDrawn, runStates, archived>>
    BY DEF SealAndCommit
  <1>1. PICK c, d : c = jCall[w] /\ d = c.decision
    OBVIOUS
  <1>2. /\ c \in Call /\ d \in DOMAIN JDraft /\ c.kept \in Seq(AllRefs)
        /\ c.raws \subseteq JObject /\ c.intact \subseteq JObject /\ CallStands(c)
    BY <1>0, <1>1, CallFacts
  <1>3. c.kept = JDraft[d].refs
    <2>1. Len(c.kept) = Len(JDraft[d].refs) /\ JDraft[d].refs \in Seq(AllRefs)
      BY <1>0, <1>1, <1>2, RefsFacts DEF Sealable, AllKept, Refs
    <2>2. \A n \in 1 .. Len(c.kept) : c.kept[n] = JDraft[d].refs[n]
      BY <1>1, <1>2 DEF CallStands, Refs
    <2> QED BY <1>2, <2>1, <2>2
  <1>4. PICK m : m = [refs |-> JDraft[d].refs, raws |-> ObjectsOf(d), intact |-> c.intact]
    OBVIOUS
  <1>5. c.raws \cup ValuationObjects(c) = ObjectsOf(d)
    BY <1>1, <1>2, <1>3, SealedObjects DEF CallStands
  <1>6. /\ manifests' = [manifests EXCEPT ![d] = Append(@, m)]
        /\ finalized' = finalized \cup {d}
        /\ jCall' = [jCall EXCEPT ![w] = NotCalled]
    BY <1>1, <1>3, <1>4, <1>5 DEF SealAndCommit
  <1>7. d \notin finalized /\ manifests[d] = <<>>
    BY <1>1, <1>2 DEF CallStands, JournalInv, SealedOnce
  <1>8. DOMAIN manifests = DOMAIN JDraft /\ jCall \in [JCaller -> Call \cup {NotCalled}]
    BY DEF JournalInv, JournalTyped
  <1>9. manifests'[d] = <<m>> /\ \A x \in DOMAIN JDraft \ {d} : manifests'[x] = manifests[x]
    BY <1>2, <1>6, <1>7, <1>8
  <1>10. jCall'[w] = NotCalled /\ \A v \in JCaller \ {w} : jCall'[v] = jCall[v]
    BY <1>6, <1>8
  <1>11. RunsStay /\ Decided' = Decided /\ NumbersAreDrawn' /\ DecisionIsFirst'
    BY <1>0 DEF RunsStay, JournalInv, Decided, Committed, NumbersAreDrawn, DecisionIsFirst
  <1>12. JournalTyped'
    <2>1. manifests' = [x \in DOMAIN JDraft |-> manifests'[x]]
      BY <1>6, <1>8
    <2>2. jCall' \in [JCaller -> Call \cup {NotCalled}]
      BY <1>6, <1>8
    <2> QED BY <1>0, <1>2, <1>6, <2>1, <2>2 DEF JournalInv, JournalTyped
  <1>13. ASSUME NEW v \in JCaller, JHas(v)'
         PROVE  CallStands(jCall[v])'
    <2>1. PICK b : b = jCall'[v]
      OBVIOUS
    <2>2. v # w /\ b = jCall[v] /\ JHas(v)
      BY <1>10, <1>13, <2>1 DEF JHas
    <2>3. CallStands(b)
      BY <2>2 DEF JournalInv
    <2>4. b.decision # d
      BY <1>0, <1>1, <2>2 DEF JournalInv, OneCall
    <2>5. b.decision \notin finalized'
      BY <1>6, <2>3, <2>4 DEF CallStands
    <2>6. CallStands(b)'
      BY <1>0, <1>11, <2>3, <2>5, CallStays
    <2>7. jCall'[v] = b => (CallStands(b)' => CallStands(jCall[v])')
      BY DEF CallStands, Refs, Account
    <2> QED BY <2>1, <2>6, <2>7
  <1>14. ASSUME NEW v \in JCaller, NEW u \in JCaller
         PROVE  OneCall(v, u)'
    BY <1>10 DEF JournalInv, OneCall, JHas
  <1>15. CoherentDecision(d)
    <2>1. PICK s \in KeptOf(c, "portfolio_snapshot"), v \in KeptOf(c, "valuation_run"),
               r \in KeptOf(c, "risk_run") :
             JValuation[v].snapshot = s /\ JRun[r].snapshot = s /\ JRun[r].valuation = v
      BY <1>0, <1>1 DEF Sealable, Coherent
    <2>2. DOMAIN c.kept = 1 .. Len(c.kept)
      BY <1>2
    <2>3. \A n \in DOMAIN c.kept : RefStands(JDraft[d].account, c.kept[n])
      BY <1>1, <1>2, <2>2 DEF CallStands, Account
    <2>4. JSnapshot[s] = JAccount[JDraft[d].account]
      BY <2>3 DEF KeptOf, RefStands
    <2>5. /\ JRun[r].account = JDraft[d].account /\ r \in DOMAIN JRun
          /\ runStates[r] \in {"valid", "degraded"}
      BY <2>3 DEF KeptOf, RefStands
    <2>6. \A kind : KeptOf(c, kind)
             = {JDraft[d].refs[n].id : n \in {i \in DOMAIN JDraft[d].refs : JDraft[d].refs[i].kind = kind}}
      BY <1>3 DEF KeptOf
    <2> QED BY <2>1, <2>4, <2>5, <2>6 DEF CoherentDecision
  <1>16. ASSUME NEW x \in DOMAIN JDraft
         PROVE  SealedOnce(x)'
    <2>1. CASE x # d
      BY <1>6, <1>9, <1>11, <2>1, SealedStays DEF JournalInv
    <2>2. CASE x = d
      <3>0. CoherentDecision(x)
        BY <1>15, <2>2
      <3>1. CoherentDecision(x)'
        BY <1>11, <3>0, CoherenceStays
      <3>2. ObjectsOf(d) \subseteq c.intact
        BY <1>0, <1>1, <1>2, <1>5 DEF Sealable, Intact, CallStands
      <3>3. x \in finalized'
        BY <1>6, <2>2
      <3>4. \E I \in SUBSET JObject :
               /\ manifests'[x] = <<[refs |-> JDraft[x].refs, raws |-> ObjectsOf(x), intact |-> I]>>
               /\ ObjectsOf(x) \subseteq I
        BY <1>2, <1>4, <1>9, <2>2, <3>2
      <3> QED BY <3>1, <3>3, <3>4 DEF SealedOnce
    <2> QED BY <2>1, <2>2
  <1> QED BY <1>11, <1>12, <1>13, <1>14, <1>16 DEF JournalInv

-----------------------------------------------------------------------------
(* The invariant holds initially and every step keeps it.                  *)

LEMMA InitInv == JournalInit => JournalInv
  <1> SUFFICES ASSUME JournalInit
               PROVE  JournalInv
    OBVIOUS
  <1>1. \A w \in JCaller : ~ JHas(w)
    BY DEF JournalInit, JHas
  <1>2. JournalTyped
    BY DEF JournalInit, JournalTyped
  <1>3. NumbersAreDrawn /\ DecisionIsFirst
    BY DEF JournalInit, NumbersAreDrawn, DecisionIsFirst
  <1>4. \A d \in DOMAIN JDraft : SealedOnce(d)
    BY DEF JournalInit, SealedOnce
  <1> QED BY <1>1, <1>2, <1>3, <1>4 DEF JournalInv, OneCall

LEMMA StutterKeeps ==
  ASSUME JournalInv, UNCHANGED journalVars
  PROVE  JournalInv'
  <1>1. RunsStay /\ Decided' = Decided /\ NumbersAreDrawn' /\ DecisionIsFirst'
    BY DEF journalVars, RunsStay, JournalInv, Decided, Committed, NumbersAreDrawn, DecisionIsFirst
  <1> QED BY <1>1, AsideKeeps DEF journalVars, JournalInv, JournalTyped

LEMMA NextInv == JournalInv /\ [JournalNext]_journalVars => JournalInv'
  <1> SUFFICES ASSUME JournalInv, [JournalNext]_journalVars
               PROVE  JournalInv'
    OBVIOUS
  <1>1. ASSUME NEW d \in DOMAIN JDraft, CreateDecision(d)
        PROVE  JournalInv'
    BY <1>1, InsertKeeps DEF CreateDecision
  <1>2. ASSUME NEW d \in DOMAIN JDraft, NEW kind \in {"review", "amendment"}, AddEvent(d, kind)
        PROVE  JournalInv'
    <2>1. kind # "decision" /\ d \in Decided /\ InsertEvent(d, kind)
      BY <1>2 DEF AddEvent
    <2> QED BY <2>1, InsertKeeps
  <1>3. ASSUME NEW d \in DOMAIN JDraft, NEW w \in JCaller, LockDecision(w, d)
        PROVE  JournalInv'
    BY <1>3, LockStep
  <1>4. ASSUME NEW e \in jEvents, CommitEvent(e) \/ RollbackEvent(e)
        PROVE  JournalInv'
    BY <1>4, EndKeeps
  <1>5. ASSUME NEW w \in JCaller, ResolveReference(w)
        PROVE  JournalInv'
    BY <1>5, ResolveStep
  <1>6. ASSUME NEW w \in JCaller, SealAndCommit(w)
        PROVE  JournalInv'
    BY <1>6, SealStep
  <1>7. ASSUME NEW w \in JCaller, RefuseFinalize(w) \/ BreakFinalize(w)
        PROVE  JournalInv'
    BY <1>7, GiveUpStep
  <1>8. ASSUME NEW r \in DOMAIN JRun, CompleteRun(r)
        PROVE  JournalInv'
    BY <1>8, CompleteRunStep
  <1>9. ASSUME NEW o \in JObject, DamageObject(o)
        PROVE  JournalInv'
    BY <1>9, DamageStep
  <1>10. CASE UNCHANGED journalVars
    BY <1>10, StutterKeeps
  <1> QED BY <1>1, <1>2, <1>3, <1>4, <1>5, <1>6, <1>7, <1>8, <1>9, <1>10 DEF JournalNext

(* What each check of Seal found out still stands when the manifest is     *)
(* inserted, and a decision is sealed at most once.                        *)
THEOREM Invariance == JournalSpec => []JournalInv
  <1> QED BY InitInv, NextInv, PTL DEF JournalSpec

-----------------------------------------------------------------------------
(* What the invariant says about the journal.                              *)

LEMMA InvTyped == JournalInv => JournalTypeOK
  BY DEF JournalInv, JournalTyped, NumbersAreDrawn, CallStands, OneCall, JournalTypeOK

(* The type invariant of the journal: numbers are drawn once, and the row  *)
(* lock of Finalize lets one call at a time seal a decision.               *)
THEOREM TypeCorrect == JournalSpec => []JournalTypeOK
  <1> QED BY Invariance, InvTyped, PTL

LEMMA InvOneManifest == JournalInv => FinalizedHasEvidence
  <1> SUFFICES ASSUME JournalInv, NEW d \in DOMAIN JDraft
               PROVE  /\ Len(manifests[d]) = IF d \in finalized THEN 1 ELSE 0
                      /\ \A n \in DOMAIN manifests[d] : manifests[d][n].refs = JDraft[d].refs
    BY DEF FinalizedHasEvidence
  <1>1. CASE d \in finalized
    <2>1. PICK I : manifests[d] = <<[refs |-> JDraft[d].refs, raws |-> ObjectsOf(d), intact |-> I]>>
      BY <1>1 DEF JournalInv, SealedOnce
    <2> QED BY <1>1, <2>1
  <1>2. CASE d \notin finalized
    BY <1>2 DEF JournalInv, SealedOnce
  <1> QED BY <1>1, <1>2

LEMMA InvCoherent == JournalInv => EvidenceIsCoherent
  <1> SUFFICES ASSUME JournalInv, NEW d \in finalized
               PROVE  CoherentDecision(d)
    BY DEF EvidenceIsCoherent, CoherentDecision
  <1> QED BY DEF JournalInv, JournalTyped, SealedOnce

LEMMA InvClosed == JournalInv => EvidenceIsClosed
  <1> SUFFICES ASSUME JournalInv, NEW d \in finalized, NEW n \in DOMAIN manifests[d]
               PROVE  /\ {r.raw : r \in RefRows(d)} \subseteq manifests[d][n].raws
                      /\ manifests[d][n].raws \subseteq manifests[d][n].intact
    BY DEF EvidenceIsClosed
  <1>1. PICK I : /\ manifests[d] = <<[refs |-> JDraft[d].refs, raws |-> ObjectsOf(d), intact |-> I]>>
                 /\ ObjectsOf(d) \subseteq I
    BY DEF JournalInv, JournalTyped, SealedOnce
  <1>2. manifests[d][n].raws = ObjectsOf(d) /\ manifests[d][n].intact = I
    BY <1>1
  <1> QED BY <1>1, <1>2 DEF ObjectsOf

LEMMA InvRooted == JournalInv => TimelineIsRooted
  <1> SUFFICES ASSUME JournalInv, NEW d \in DOMAIN JDraft, NEW e \in TimelineOf(d)
               PROVE  e.kind = "decision" <=> ComesFirst(e, d)
    BY DEF TimelineIsRooted
  <1>1. /\ \A f \in TimelineOf(d) : f \in jEvents /\ f \in Committed /\ f.decision = d /\ f.number \in Nat
        /\ \A f \in Committed : f \in jEvents /\ (f.decision = d => f \in TimelineOf(d))
    BY DEF JournalInv, NumbersAreDrawn, TimelineOf, Committed
  <1>2. ASSUME e.kind = "decision", NEW f \in TimelineOf(d)
        PROVE  e.number <= f.number
    <2>1. CASE f.kind = "decision"
      BY <1>1, <1>2, <2>1 DEF JournalInv, DecisionIsFirst
    <2>2. CASE f.kind # "decision"
      <3>1. PICK g \in Committed : g.kind = "decision" /\ g.decision = d /\ g.number < f.number
        BY <1>1, <2>2 DEF JournalInv, DecisionIsFirst
      <3>2. g = e
        BY <1>1, <1>2, <3>1 DEF JournalInv, DecisionIsFirst
      <3> QED BY <1>1, <3>1, <3>2
    <2> QED BY <2>1, <2>2
  <1>3. ASSUME ComesFirst(e, d), e.kind # "decision"
        PROVE  FALSE
    <2>1. PICK g \in Committed : g.kind = "decision" /\ g.decision = d /\ g.number < e.number
      BY <1>1, <1>3 DEF JournalInv, DecisionIsFirst
    <2>2. g \in TimelineOf(d) /\ g.number \in Nat /\ e.number \in Nat
      BY <1>1, <2>1
    <2>3. e.number <= g.number
      BY <1>3, <2>2 DEF ComesFirst
    <2> QED BY <2>1, <2>2, <2>3
  <1> QED BY <1>2, <1>3 DEF ComesFirst

(* Whichever calls run at once, are refused or break off, and whatever     *)
(* runs complete and objects are lost meanwhile: a decision is finalized   *)
(* exactly when it has one manifest, of artifacts that belong together,    *)
(* with the raw object behind each of them (Finalize, Seal), and its       *)
(* timeline begins with the decision (Create, AddReview, AddAmendment).    *)
THEOREM EvidenceHolds == JournalSpec => []EvidenceIsSound
  <1>1. JournalInv => EvidenceIsSound
    BY InvOneManifest, InvCoherent, InvClosed, InvRooted DEF EvidenceIsSound
  <1> QED BY <1>1, Invariance, PTL

(* Reconstruct verifies a sealed decision exactly as long as the archive   *)
(* keeps the objects that its list, its valuation and its run rest on.     *)
THEOREM ReconstructionHolds == JournalSpec => []ReconstructsWhatStands
  <1>1. JournalInv => ReconstructsWhatStands
    <2> SUFFICES ASSUME JournalInv, NEW d \in finalized
                 PROVE  Reconstruct(d) <=> ObjectsOf(d) \subseteq archived
      BY DEF ReconstructsWhatStands, ObjectsOf, ListedObjects
    <2>1. PICK I : manifests[d] = <<[refs |-> JDraft[d].refs, raws |-> ObjectsOf(d), intact |-> I]>>
      BY DEF JournalInv, JournalTyped, SealedOnce
    <2>2. manifests[d] # <<>> /\ manifests[d][1].raws = ObjectsOf(d)
      BY <2>1
    <2> QED BY <2>2 DEF Reconstruct
  <1> QED BY <1>1, Invariance, PTL

\* A finalized decision stays so with the manifest it has, and a completed run
\* keeps its state.
EvidenceStays ==
    /\ \A d \in finalized : d \in finalized' /\ manifests'[d] = manifests[d]
    /\ \A r \in DOMAIN JRun : runStates[r] # "queued" => runStates'[r] = runStates[r]

(* Sealed evidence is immutable: no later Finalize, by whichever caller,   *)
(* adds to or replaces a manifest, or seals over a run that is completed   *)
(* a second time.                                                          *)
THEOREM SealedIsImmutable == JournalSpec => [][EvidenceStays]_journalVars
  <1>1. ASSUME JournalInv, JournalNext
        PROVE  EvidenceStays
    <2>1. CASE \E w \in JCaller : SealAndCommit(w)
      <3>1. PICK w \in JCaller : SealAndCommit(w)
        BY <2>1
      <3>2. jCall[w].decision \notin finalized
        BY <1>1, <3>1, CallFacts DEF SealAndCommit, CallStands
      <3>3. DOMAIN manifests = DOMAIN JDraft /\ finalized \subseteq DOMAIN JDraft
        BY <1>1 DEF JournalInv, JournalTyped
      <3> QED BY <3>1, <3>2, <3>3 DEF SealAndCommit, EvidenceStays
    <2>2. CASE \E r \in DOMAIN JRun : CompleteRun(r)
      <3>1. PICK r \in DOMAIN JRun : CompleteRun(r)
        BY <2>2
      <3>2. DOMAIN runStates = DOMAIN JRun
        BY <1>1 DEF JournalInv, JournalTyped
      <3> QED BY <3>1, <3>2 DEF CompleteRun, EvidenceStays
    <2>3. CASE UNCHANGED <<finalized, manifests, runStates>>
      BY <2>3 DEF EvidenceStays
    <2> QED BY <1>1, <2>1, <2>2, <2>3 DEF JournalNext, CreateDecision, AddEvent, InsertEvent,
              LockDecision, CommitEvent, RollbackEvent, ResolveReference, RefuseFinalize,
              BreakFinalize, DamageObject
  <1> QED BY <1>1, Invariance, PTL DEF JournalSpec
=============================================================================
