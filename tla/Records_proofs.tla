--------------------------- MODULE Records_proofs ---------------------------
(***************************************************************************)
(* Proofs about Records: its portfolio and reconciliation services, and    *)
(* what they make together with the journal (Journal_proofs), for any ids, *)
(* entries, requests, lines and amounts.                                   *)
(*                                                                         *)
(* Portfolio.  CreateSnapshot finds rows before its transaction begins and *)
(* refers to them when it inserts.  What it found of an account may be     *)
(* deleted meanwhile, never changed to another portfolio; what it found of *)
(* an instrument or a superseded snapshot stays.  From the insert of a row *)
(* to the commit a key share keeps what the row refers to, and a unique    *)
(* index keeps its entries from others.  PortfolioInv says which of these  *)
(* holds at each statement.                                                *)
(*                                                                         *)
(* Reconciliation.  From the lock of the account's row to the commit, no   *)
(* other request adds a tolerance of the account, so the latest version is *)
(* the one that was read (ReconInv).  Everything that is compared has been *)
(* rounded to stored digits, and rounding keeps such a number.  That the   *)
(* lines of a checkpoint add up needs to know what a sum is: the sums of   *)
(* the subsets of a finite set exist, are unique, and can be taken in any  *)
(* order, by induction on the number of elements.                          *)
(***************************************************************************)
EXTENDS Records, Journal_proofs, FiniteSetTheorems, TLAPS

-----------------------------------------------------------------------------
(*                                PORTFOLIO                                *)
-----------------------------------------------------------------------------
Asks(w, op) == pRequest[w].op = op

\* Phases after the checks of CreateSnapshot.
Building == {"prepare", "snapshot", "lines", "commit"}

\* Which request is at which statement; an answered snapshot is remembered.
RequestIsKnown(w) ==
    /\ pPhase[w] = "idle" => \/ pRequest[w] = NothingAsked
                             \/ pAnswer[w] = "created" /\ Asks(w, "snapshot")
    /\ pPhase[w] # "idle" => pRequest[w] \in PRequest /\ pAnswer[w] = "none"
    /\ pPhase[w] = "portfolio" => Asks(w, "account") \/ Asks(w, "snapshot")
    /\ pPhase[w] = "account" => Asks(w, "account")
    /\ pPhase[w] \in {"symbol", "identifiers"} => Asks(w, "instrument")
    /\ pPhase[w] \in {"prepare", "snapshot", "lines"} => Asks(w, "snapshot")
    /\ pPhase[w] = "commit" => Asks(w, "instrument") \/ Asks(w, "snapshot")

\* How far the loops over lines and identifiers have come.
LoopIsInside(w) ==
    /\ pPhase[w] \in {"idle", "portfolio", "account", "symbol", "snapshot"} => pDone[w] = 0
    /\ pPhase[w] \in {"prepare", "lines"} => pDone[w] < Len(pRequest[w].lines)
    /\ pPhase[w] = "identifiers" => pDone[w] < Len(pRequest[w].entries)
    /\ pPhase[w] = "commit" =>
          pDone[w] = IF Asks(w, "snapshot") THEN Len(pRequest[w].lines)
                     ELSE Len(pRequest[w].entries)

\* What stays of LineValid after the read, whatever others do.
LineWasValid(p, line) ==
    /\ accounts[line.account] # NeverUsed
    /\ GetAccount(line.account) => accounts[line.account].portfolio = p
    /\ GetPortfolioInstrument(line.instrument)
    /\ line.duration = "positive" <=> instruments[line.instrument].type = "fixed_rate_bond"

Prepared(w) == IF pPhase[w] = "prepare" THEN 1 .. pDone[w] ELSE DOMAIN pRequest[w].lines

LinesArePrepared(w) ==
    pPhase[w] \in Building /\ Asks(w, "snapshot") =>
        /\ \A n \in Prepared(w) : LineWasValid(pRequest[w].portfolio, pRequest[w].lines[n])
        /\ \A m, n \in Prepared(w) : SameLine(pRequest[w].lines[m], pRequest[w].lines[n]) => m = n

\* The snapshot to supersede is there for good.
SupersededStands(w) ==
    pPhase[w] \in Building /\ Asks(w, "snapshot") /\ pRequest[w].supersedes # NoSnapshot =>
        /\ GetPortfolioSnapshot(pRequest[w].supersedes)
        /\ snapshots[pRequest[w].supersedes].portfolio = pRequest[w].portfolio

\* An open snapshot has drawn its own id, and its key shares hold.
OpenSnapshotHolds(w) ==
    pPhase[w] \in {"lines", "commit"} /\ Asks(w, "snapshot") =>
        /\ pRow[w] \in SnapshotId
        /\ snapshots[pRow[w]] = NeverUsed
        /\ GetPortfolio(pRequest[w].portfolio)
        /\ \A n \in 1 .. pDone[w] : GetAccount(pRequest[w].lines[n].account)

\* The entries an open instrument has made are free, but for itself.
EntriesAreFree(w) ==
    w \in Inserting => \A e \in Entered(w) : ~ Taken(e)

\* Open transactions do not share an id or an entry.
OpenAreApart(v, w) ==
    v \in Inserting /\ w \in Inserting /\ v # w =>
        /\ Entered(v) \cap Entered(w) = {}
        /\ Asks(v, "snapshot") /\ Asks(w, "snapshot") => pRow[v] # pRow[w]

CreatedIsStored(w) ==
    pAnswer[w] = "created" /\ Asks(w, "snapshot") =>
        /\ pRow[w] \in SnapshotId
        /\ GetPortfolioSnapshot(pRow[w])
        /\ snapshots[pRow[w]].lines = pRequest[w].lines
        /\ snapshots[pRow[w]].supersedes = pRequest[w].supersedes

EditorInv(w) ==
    /\ RequestIsKnown(w)
    /\ LoopIsInside(w)
    /\ LinesArePrepared(w)
    /\ SupersededStands(w)
    /\ OpenSnapshotHolds(w)
    /\ EntriesAreFree(w)
    /\ CreatedIsStored(w)

\* A stored snapshot and the rows it refers to.
SnapshotStands(s) ==
    GetPortfolioSnapshot(s) =>
        /\ GetPortfolio(snapshots[s].portfolio)
        /\ \A n \in DOMAIN snapshots[s].lines :
              /\ GetAccount(snapshots[s].lines[n].account)
              /\ LineWasValid(snapshots[s].portfolio, snapshots[s].lines[n])
        /\ \A m, n \in DOMAIN snapshots[s].lines :
              SameLine(snapshots[s].lines[m], snapshots[s].lines[n]) => m = n

TableInv ==
    /\ \A a \in AccountId : GetAccount(a) => GetPortfolio(accounts[a].portfolio)
    /\ \A s \in SnapshotId : SnapshotStands(s)
    /\ CorrectionsEnd
    /\ IdentifiersNameOne

PortfolioInv ==
    /\ PortfolioTyped
    /\ TableInv
    /\ \A w \in Editor : EditorInv(w)
    /\ \A v, w \in Editor : OpenAreApart(v, w)

-----------------------------------------------------------------------------
(* Facts about the operators.                                              *)

AccountRows == [portfolio : PortfolioId, name : AccountName]
InstrumentRows == [type : InstrumentType, status : Status, entries : SUBSET Entry]
SnapshotRows == [portfolio : PortfolioId, supersedes : SnapshotId \cup {NoSnapshot},
                lines : Seq(LineInput)]

\* A deleted row is not a row that was never there, and neither is a row.
LEMMA AbsentFacts ==
  /\ NeverUsed # Deleted
  /\ \A c : [currency |-> c] \notin Absent
  /\ \A p, n : [portfolio |-> p, name |-> n] \notin Absent
  /\ \A t, st, e : [type |-> t, status |-> st, entries |-> e] \notin Absent
  /\ \A p, s, l : [portfolio |-> p, supersedes |-> s, lines |-> l] \notin Absent
  BY DEF Absent, NeverUsed, Deleted

LEMMA RowsAreLive ==
  /\ \A r \in [currency : Currency] : r \notin Absent
  /\ \A r \in AccountRows : r \notin Absent
  /\ \A r \in InstrumentRows : r \notin Absent
  /\ \A r \in SnapshotRows : r \notin Absent
  <1>1. \A r \in Absent : "row" \in DOMAIN r
    <2>1. "row" \in DOMAIN NeverUsed
      BY DEF NeverUsed
    <2>2. "row" \in DOMAIN Deleted
      BY DEF Deleted
    <2> QED BY <2>1, <2>2 DEF Absent
  <1>2. \A r \in [currency : Currency] : "row" \notin DOMAIN r
    OBVIOUS
  <1>3. \A r \in AccountRows : "row" \notin DOMAIN r
    BY DEF AccountRows
  <1>4. \A r \in InstrumentRows : "row" \notin DOMAIN r
    BY DEF InstrumentRows
  <1>5. \A r \in SnapshotRows : "row" \notin DOMAIN r
    BY DEF SnapshotRows
  <1> QED BY <1>1, <1>2, <1>3, <1>4, <1>5

\* What a request holds, by its operation.
LEMMA RequestFacts ==
  ASSUME NEW r \in PRequest
  PROVE  /\ r.op \in {"account", "instrument", "snapshot"}
         /\ r.op = "account" => r.portfolio \in PortfolioId /\ r.name \in AccountName
         /\ r.op = "instrument" =>
               /\ r.type \in InstrumentType /\ r.status \in Status
               /\ r.entries \in Seq(Entry) /\ Len(r.entries) \in Nat /\ Len(r.entries) > 0
               /\ DOMAIN r.entries = 1 .. Len(r.entries)
         /\ r.op = "snapshot" =>
               /\ r.portfolio \in PortfolioId
               /\ r.supersedes \in SnapshotId \cup {NoSnapshot}
               /\ r.lines \in Seq(LineInput) /\ Len(r.lines) \in Nat /\ Len(r.lines) > 0
               /\ DOMAIN r.lines = 1 .. Len(r.lines)
  <1>1. \/ r \in AccountInput
        \/ r \in InstrumentInput /\ r.entries # <<>>
        \/ r \in SnapshotInput /\ r.lines # <<>>
    BY PortfolioAssumption
  <1>2. CASE r \in AccountInput
    BY <1>2 DEF AccountInput
  <1>3. CASE r \in InstrumentInput /\ r.entries # <<>>
    <2>1. r.op = "instrument" /\ r.type \in InstrumentType /\ r.status \in Status
          /\ r.entries \in Seq(Entry)
      BY <1>3 DEF InstrumentInput
    <2>2. Len(r.entries) \in Nat /\ Len(r.entries) > 0 /\ DOMAIN r.entries = 1 .. Len(r.entries)
      BY <1>3, <2>1
    <2> QED BY <2>1, <2>2
  <1>4. CASE r \in SnapshotInput /\ r.lines # <<>>
    <2>1. r.op = "snapshot" /\ r.portfolio \in PortfolioId
          /\ r.supersedes \in SnapshotId \cup {NoSnapshot} /\ r.lines \in Seq(LineInput)
      BY <1>4 DEF SnapshotInput
    <2>2. Len(r.lines) \in Nat /\ Len(r.lines) > 0 /\ DOMAIN r.lines = 1 .. Len(r.lines)
      BY <1>4, <2>1
    <2> QED BY <2>1, <2>2
  <1> QED BY <1>1, <1>2, <1>3, <1>4

LEMMA NothingIsNoRequest ==
  NothingAsked \notin PRequest /\ NothingAsked.op = "none"
  BY RequestFacts DEF NothingAsked

\* The lines of a request.
LEMMA LineFacts ==
  ASSUME NEW r \in PRequest, r.op = "snapshot", NEW n \in 1 .. Len(r.lines)
  PROVE  r.lines[n] \in LineInput /\ r.lines[n].account \in AccountId
         /\ r.lines[n].instrument \in InstrumentId
  <1>1. r.lines[n] \in LineInput
    BY RequestFacts
  <1> QED BY <1>1 DEF LineInput

\* The type of tables as it is used below.
LEMMA Typing ==
  ASSUME PortfolioTyped
  PROVE  /\ portfolios \in [PortfolioId -> [currency : Currency] \cup Absent]
         /\ accounts \in [AccountId -> AccountRows \cup Absent]
         /\ instruments \in [InstrumentId -> InstrumentRows \cup Absent]
         /\ snapshots \in [SnapshotId -> SnapshotRows \cup Absent]
  BY DEF PortfolioTyped, AccountRows, InstrumentRows, SnapshotRows

-----------------------------------------------------------------------------
(* Steps that leave the tables alone.                                      *)

Same(v) ==
    /\ pPhase'[v] = pPhase[v] /\ pRequest'[v] = pRequest[v] /\ pRow'[v] = pRow[v]
    /\ pDone'[v] = pDone[v] /\ pAnswer'[v] = pAnswer[v]

LEMMA ApartBothWays ==
  ASSUME NEW v \in Editor, NEW w \in Editor, OpenAreApart(v, w)
  PROVE  OpenAreApart(w, v)
  BY DEF OpenAreApart

LEMMA TablesKeep ==
  ASSUME TableInv, UNCHANGED tables
  PROVE  TableInv'
  <1>1. (\A a \in AccountId : GetAccount(a) => GetPortfolio(accounts[a].portfolio))'
    BY DEF TableInv, tables, GetAccount, GetPortfolio, Live
  <1>2. ASSUME NEW s \in SnapshotId
        PROVE  SnapshotStands(s)'
    BY DEF TableInv, tables, SnapshotStands, LineWasValid, GetAccount, GetPortfolio, Live,
           GetPortfolioInstrument, GetPortfolioSnapshot
  <1>3. CorrectionsEnd'
    BY DEF TableInv, tables, CorrectionsEnd, GetPortfolioSnapshot, Live
  <1>4. IdentifiersNameOne'
    BY DEF TableInv, tables, IdentifiersNameOne, Live
  <1> QED BY <1>1, <1>2, <1>3, <1>4 DEF TableInv

\* An editor that does nothing keeps what it has while the tables stay.
LEMMA SameKeeps ==
  ASSUME NEW v \in Editor, EditorInv(v), UNCHANGED tables, Same(v)
  PROVE  EditorInv(v)'
  <1> USE DEF EditorInv, Same
  <1>1. RequestIsKnown(v)'
    BY DEF RequestIsKnown, Asks
  <1>2. LoopIsInside(v)'
    BY DEF LoopIsInside, Asks
  <1>3. LinesArePrepared(v)'
    BY DEF LinesArePrepared, Asks, Prepared, LineWasValid, tables, GetAccount,
           GetPortfolioInstrument, Live
  <1>4. SupersededStands(v)'
    BY DEF SupersededStands, Asks, tables, GetPortfolioSnapshot, Live
  <1>5. OpenSnapshotHolds(v)'
    BY DEF OpenSnapshotHolds, Asks, tables, GetPortfolio, GetAccount, Live
  <1>6. EntriesAreFree(v)'
    BY DEF EntriesAreFree, Inserting, Entered, Taken, tables, Live
  <1>7. CreatedIsStored(v)'
    BY DEF CreatedIsStored, Asks, tables, GetPortfolioSnapshot, Live
  <1> QED BY <1>1, <1>2, <1>3, <1>4, <1>5, <1>6, <1>7

LEMMA SameAreApart ==
  ASSUME NEW v \in Editor, NEW u \in Editor, OpenAreApart(v, u), Same(v), Same(u)
  PROVE  OpenAreApart(v, u)'
  BY DEF OpenAreApart, Same, Inserting, Entered, Asks

\* A step of one editor, seen from the others.
LEMMA MoveKeeps ==
  ASSUME PortfolioInv, NEW w \in Editor, UNCHANGED tables,
         \A v \in Editor \ {w} : Same(v),
         PortfolioTyped', EditorInv(w)', \A v \in Editor \ {w} : OpenAreApart(v, w)'
  PROVE  PortfolioInv'
  <1>1. TableInv'
    BY TablesKeep DEF PortfolioInv
  <1>2. ASSUME NEW v \in Editor
        PROVE  EditorInv(v)'
    BY SameKeeps DEF PortfolioInv
  <1>3. ASSUME NEW v \in Editor, NEW u \in Editor
        PROVE  OpenAreApart(v, u)'
    <2>1. CASE v = u
      BY <2>1 DEF OpenAreApart
    <2>2. CASE v # u /\ u = w
      BY <2>2
    <2>3. CASE v # u /\ v = w
      <3>1. OpenAreApart(u, v)'
        BY <2>3
      <3> QED BY <3>1 DEF OpenAreApart
    <2>4. CASE v # w /\ u # w
      BY <2>4, SameAreApart DEF PortfolioInv
    <2> QED BY <2>1, <2>2, <2>3, <2>4
  <1> QED BY <1>1, <1>2, <1>3 DEF PortfolioInv

\* Tables keep their types when they stay.
LEMMA TypesKeep ==
  ASSUME PortfolioTyped, UNCHANGED tables,
         pPhase' \in [Editor -> PPhase], pRequest' \in [Editor -> PRequest \cup {NothingAsked}],
         pRow' \in [Editor -> SnapshotId \cup {NoSnapshot}], pDone' \in [Editor -> Nat],
         pAnswer' \in [Editor -> PAnswers]
  PROVE  PortfolioTyped'
  BY DEF PortfolioTyped, tables

\* What an editor that was answered keeps.
LEMMA AnsweredKeeps ==
  ASSUME NEW w \in Editor, pPhase'[w] = "idle", pDone'[w] = 0, pRequest'[w] = NothingAsked
  PROVE  EditorInv(w)' /\ \A v \in Editor \ {w} : OpenAreApart(v, w)'
  <1>1. ~ Asks(w, "snapshot")' /\ (w \notin Inserting)'
    BY NothingIsNoRequest DEF Asks, Inserting
  <1>2. RequestIsKnown(w)' /\ LoopIsInside(w)'
    BY DEF RequestIsKnown, LoopIsInside
  <1>3. LinesArePrepared(w)' /\ SupersededStands(w)' /\ OpenSnapshotHolds(w)' /\ CreatedIsStored(w)'
    BY <1>1 DEF LinesArePrepared, SupersededStands, OpenSnapshotHolds, CreatedIsStored
  <1>4. EntriesAreFree(w)' /\ \A v \in Editor \ {w} : OpenAreApart(v, w)'
    BY <1>1 DEF EntriesAreFree, OpenAreApart
  <1> QED BY <1>2, <1>3, <1>4 DEF EditorInv

\* A refusal, a conflict or an error changes nothing but the request.
LEMMA RefusalKeeps ==
  ASSUME PortfolioInv, NEW w \in Editor, NEW a \in PAnswers \ {"created"},
         PReply(w, a), UNCHANGED tables
  PROVE  PortfolioInv'
  <1>1. /\ pPhase \in [Editor -> PPhase] /\ pRequest \in [Editor -> PRequest \cup {NothingAsked}]
        /\ pRow \in [Editor -> SnapshotId \cup {NoSnapshot}] /\ pDone \in [Editor -> Nat]
        /\ pAnswer \in [Editor -> PAnswers]
    BY DEF PortfolioInv, PortfolioTyped
  <1>2. /\ pPhase' = [pPhase EXCEPT ![w] = "idle"]
        /\ pAnswer' = [pAnswer EXCEPT ![w] = a]
        /\ pDone' = [pDone EXCEPT ![w] = 0]
        /\ pRequest' = [pRequest EXCEPT ![w] = NothingAsked]
        /\ pRow' = [pRow EXCEPT ![w] = NoSnapshot]
    BY DEF PReply
  <1>3. PortfolioTyped'
    <2>1. pPhase' \in [Editor -> PPhase]
      BY <1>1, <1>2 DEF PPhase
    <2>2. pRequest' \in [Editor -> PRequest \cup {NothingAsked}]
      BY <1>1, <1>2
    <2>3. pRow' \in [Editor -> SnapshotId \cup {NoSnapshot}]
      BY <1>1, <1>2
    <2>4. pDone' \in [Editor -> Nat]
      BY <1>1, <1>2
    <2>5. pAnswer' \in [Editor -> PAnswers]
      BY <1>1, <1>2
    <2> QED BY <2>1, <2>2, <2>3, <2>4, <2>5, TypesKeep DEF PortfolioInv
  <1>4. \A v \in Editor \ {w} : Same(v)
    BY <1>1, <1>2 DEF Same
  <1>5. EditorInv(w)' /\ \A v \in Editor \ {w} : OpenAreApart(v, w)'
    BY <1>1, <1>2, AnsweredKeeps
  <1> QED BY <1>3, <1>4, <1>5, MoveKeeps

\* An editor's own variables after a step, from their assignments.
LEMMA OwnTypes ==
  ASSUME PortfolioInv
  PROVE  /\ pPhase \in [Editor -> PPhase] /\ pRequest \in [Editor -> PRequest \cup {NothingAsked}]
         /\ pRow \in [Editor -> SnapshotId \cup {NoSnapshot}] /\ pDone \in [Editor -> Nat]
         /\ pAnswer \in [Editor -> PAnswers]
  BY DEF PortfolioInv, PortfolioTyped

\* An editor outside a transaction holds no key and no entry.
LEMMA OutsideKeeps ==
  ASSUME NEW w \in Editor,
         pPhase'[w] \in {"portfolio", "account", "symbol", "prepare", "snapshot"},
         pAnswer'[w] = "none"
  PROVE  /\ OpenSnapshotHolds(w)' /\ EntriesAreFree(w)' /\ CreatedIsStored(w)'
         /\ \A v \in Editor \ {w} : OpenAreApart(v, w)'
  BY DEF OpenSnapshotHolds, EntriesAreFree, CreatedIsStored, OpenAreApart, Inserting

LEMMA SendStep ==
  ASSUME PortfolioInv, NEW w \in Editor, NEW r \in PRequest, PSend(w, r)
  PROVE  PortfolioInv'
  <1>0. pPhase[w] = "idle" /\ UNCHANGED tables /\ UNCHANGED pDone
    BY DEF PSend
  <1>1. /\ pPhase' = [pPhase EXCEPT ![w] = IF r.op = "instrument" THEN "symbol" ELSE "portfolio"]
        /\ pRequest' = [pRequest EXCEPT ![w] = r]
        /\ pAnswer' = [pAnswer EXCEPT ![w] = "none"]
        /\ pRow' = [pRow EXCEPT ![w] = NoSnapshot]
    BY DEF PSend
  <1>2. PortfolioTyped'
    <2>1. pPhase' \in [Editor -> PPhase]
      BY <1>1, OwnTypes DEF PPhase
    <2>2. pRequest' \in [Editor -> PRequest \cup {NothingAsked}]
      BY <1>1, OwnTypes
    <2>3. pRow' \in [Editor -> SnapshotId \cup {NoSnapshot}]
      BY <1>1, OwnTypes
    <2>4. pAnswer' \in [Editor -> PAnswers]
      BY <1>1, OwnTypes DEF PAnswers
    <2> QED BY <1>0, <2>1, <2>2, <2>3, <2>4, OwnTypes, TypesKeep DEF PortfolioInv
  <1>3. \A v \in Editor \ {w} : Same(v)
    BY <1>0, <1>1, OwnTypes DEF Same
  <1>4. /\ pPhase'[w] = IF r.op = "instrument" THEN "symbol" ELSE "portfolio"
        /\ pRequest'[w] = r /\ pAnswer'[w] = "none" /\ pDone'[w] = 0
    <2>1. pDone[w] = 0
      BY <1>0 DEF PortfolioInv, EditorInv, LoopIsInside
    <2> QED BY <1>0, <1>1, <2>1, OwnTypes
  <1>5. RequestIsKnown(w)' /\ LoopIsInside(w)' /\ LinesArePrepared(w)' /\ SupersededStands(w)'
    BY <1>4, RequestFacts
       DEF RequestIsKnown, LoopIsInside, LinesArePrepared, SupersededStands, Building, Asks
  <1>6. /\ OpenSnapshotHolds(w)' /\ EntriesAreFree(w)' /\ CreatedIsStored(w)'
        /\ \A v \in Editor \ {w} : OpenAreApart(v, w)'
    BY <1>4, OutsideKeeps
  <1> QED BY <1>0, <1>2, <1>3, <1>5, <1>6, MoveKeeps DEF EditorInv

\* A request goes on to a statement outside a transaction.
LEMMA GotoOutside ==
  ASSUME PortfolioInv, NEW w \in Editor, UNCHANGED tables, UNCHANGED pRow,
         NEW ph \in {"account", "prepare", "snapshot"}, PGoto(w, ph), pPhase[w] # "idle",
         NEW k \in Nat, pDone' = [pDone EXCEPT ![w] = k],
         RequestIsKnown(w)', LoopIsInside(w)', LinesArePrepared(w)', SupersededStands(w)'
  PROVE  PortfolioInv'
  <1>1. pPhase' = [pPhase EXCEPT ![w] = ph] /\ UNCHANGED <<pRequest, pAnswer>>
    BY DEF PGoto
  <1>2. PortfolioTyped'
    <2>1. pPhase' \in [Editor -> PPhase]
      BY <1>1, OwnTypes DEF PPhase
    <2>2. pDone' \in [Editor -> Nat]
      BY OwnTypes
    <2> QED BY <1>1, <2>1, <2>2, OwnTypes, TypesKeep DEF PortfolioInv
  <1>3. \A v \in Editor \ {w} : Same(v)
    BY <1>1, OwnTypes DEF Same
  <1>4. pPhase'[w] = ph /\ pAnswer'[w] = "none"
    BY <1>1, OwnTypes DEF PortfolioInv, EditorInv, RequestIsKnown
  <1>5. /\ OpenSnapshotHolds(w)' /\ EntriesAreFree(w)' /\ CreatedIsStored(w)'
        /\ \A v \in Editor \ {w} : OpenAreApart(v, w)'
    BY <1>4, OutsideKeeps
  <1> QED BY <1>2, <1>3, <1>5, MoveKeeps DEF EditorInv

\* What is known of a request under way.
LEMMA UnderWay ==
  ASSUME PortfolioInv, NEW w \in Editor, pPhase[w] # "idle"
  PROVE  /\ pRequest[w] \in PRequest /\ pAnswer[w] = "none" /\ pDone[w] \in Nat
         /\ RequestIsKnown(w) /\ LoopIsInside(w) /\ LinesArePrepared(w) /\ SupersededStands(w)
         /\ OpenSnapshotHolds(w) /\ EntriesAreFree(w)
  BY OwnTypes DEF PortfolioInv, EditorInv, RequestIsKnown

LEMMA CheckAccountStep ==
  ASSUME PortfolioInv, NEW w \in Editor, CheckAccount(w)
  PROVE  PortfolioInv'
  <1>0. pPhase[w] = "portfolio" /\ Asks(w, "account") /\ UNCHANGED tables
    BY DEF CheckAccount, Asks
  <1>1. CASE PGoto(w, "account") /\ UNCHANGED <<pRow, pDone>>
    <2>1. pPhase'[w] = "account" /\ pRequest'[w] = pRequest[w] /\ pAnswer'[w] = "none"
          /\ pDone'[w] = 0 /\ pRequest[w] \in PRequest
      BY <1>0, <1>1, OwnTypes, UnderWay DEF PGoto, LoopIsInside
    <2>2. RequestIsKnown(w)' /\ LoopIsInside(w)' /\ LinesArePrepared(w)' /\ SupersededStands(w)'
      BY <1>0, <2>1
         DEF RequestIsKnown, LoopIsInside, LinesArePrepared, SupersededStands, Building, Asks
    <2>3. pDone' = [pDone EXCEPT ![w] = 0]
      BY <1>0, <1>1, OwnTypes, UnderWay DEF LoopIsInside
    <2> QED BY <1>0, <1>1, <2>2, <2>3, GotoOutside
  <1>2. CASE PReply(w, "not found")
    BY <1>0, <1>2, RefusalKeeps DEF PAnswers
  <1> QED BY <1>1, <1>2 DEF CheckAccount

LEMMA CheckSnapshotStep ==
  ASSUME PortfolioInv, NEW w \in Editor, CheckSnapshot(w)
  PROVE  PortfolioInv'
  <1>0. pPhase[w] = "portfolio" /\ Asks(w, "snapshot") /\ UNCHANGED tables
    BY DEF CheckSnapshot, Asks
  <1>1. pRequest[w] \in PRequest /\ pDone[w] = 0 /\ pAnswer[w] = "none"
    BY <1>0, UnderWay DEF LoopIsInside
  <1>2. CASE PReply(w, "not found") \/ PReply(w, "invalid")
    BY <1>0, <1>2, RefusalKeeps DEF PAnswers
  <1>3. CASE /\ PGoto(w, "prepare") /\ UNCHANGED <<pRow, pDone>>
             /\ pRequest[w].supersedes # NoSnapshot =>
                  /\ GetPortfolioSnapshot(pRequest[w].supersedes)
                  /\ snapshots[pRequest[w].supersedes].portfolio = pRequest[w].portfolio
    <2>1. pPhase'[w] = "prepare" /\ pRequest'[w] = pRequest[w] /\ pAnswer'[w] = "none"
          /\ pDone'[w] = 0
      BY <1>1, <1>3, OwnTypes DEF PGoto
    <2>2. RequestIsKnown(w)'
      BY <1>0, <1>1, <2>1 DEF RequestIsKnown, Asks
    <2>3. LoopIsInside(w)'
      BY <1>0, <1>1, <2>1, RequestFacts DEF LoopIsInside, Asks
    <2>4. LinesArePrepared(w)'
      BY <2>1 DEF LinesArePrepared, Prepared
    <2>5. SupersededStands(w)'
      BY <1>0, <1>3, <2>1 DEF SupersededStands, tables, GetPortfolioSnapshot, Live
    <2>6. pDone' = [pDone EXCEPT ![w] = 0]
      BY <1>1, <1>3, OwnTypes
    <2> QED BY <1>0, <1>3, <2>2, <2>3, <2>4, <2>5, <2>6, GotoOutside
  <1> QED BY <1>2, <1>3 DEF CheckSnapshot

LEMMA FailStep ==
  ASSUME PortfolioInv, NEW w \in Editor, PFail(w)
  PROVE  PortfolioInv'
  BY RefusalKeeps DEF PFail, PAnswers

\* What prepareLines reads stays true in the sense of LineWasValid.
LEMMA ValidWasValid ==
  ASSUME NEW p, NEW line, LineValid(p, line)
  PROVE  LineWasValid(p, line)
  BY AbsentFacts DEF LineValid, LineWasValid, GetAccount, Live, Absent

LEMMA PrepareLineStep ==
  ASSUME PortfolioInv, NEW w \in Editor, PrepareLine(w)
  PROVE  PortfolioInv'
  <1>0. pPhase[w] = "prepare" /\ UNCHANGED tables
    BY DEF PrepareLine
  <1>1. /\ pRequest[w] \in PRequest /\ Asks(w, "snapshot") /\ pAnswer[w] = "none"
        /\ pDone[w] \in Nat /\ pDone[w] < Len(pRequest[w].lines)
        /\ LinesArePrepared(w) /\ SupersededStands(w)
    BY <1>0, UnderWay DEF LoopIsInside, RequestIsKnown
  <1> DEFINE r == pRequest[w]
             n == pDone[w] + 1
  <1>2. CASE PReply(w, "invalid")
    BY <1>0, <1>2, RefusalKeeps DEF PAnswers
  <1>3. CASE /\ LineValid(r.portfolio, r.lines[n])
             /\ \A m \in 1 .. pDone[w] : ~ SameLine(r.lines[m], r.lines[n])
    <2>1. Len(r.lines) \in Nat /\ DOMAIN r.lines = 1 .. Len(r.lines)
      BY <1>1, RequestFacts DEF Asks
    <2>2. /\ \A m \in 1 .. pDone[w] : LineWasValid(r.portfolio, r.lines[m])
          /\ \A l, m \in 1 .. pDone[w] : SameLine(r.lines[l], r.lines[m]) => l = m
      BY <1>0, <1>1 DEF LinesArePrepared, Prepared, Building
    <2>3. \A m \in 1 .. n : LineWasValid(r.portfolio, r.lines[m])
      <3>1. LineWasValid(r.portfolio, r.lines[n])
        BY <1>3, ValidWasValid
      <3>2. \A m \in 1 .. n : m = n \/ m \in 1 .. pDone[w]
        BY <1>1
      <3> QED BY <2>2, <3>1, <3>2
    <2>4. \A l, m \in 1 .. n : SameLine(r.lines[l], r.lines[m]) => l = m
      <3>1. \A m \in 1 .. n : m = n \/ m \in 1 .. pDone[w]
        BY <1>1
      <3>2. \A m \in 1 .. pDone[w] : ~ SameLine(r.lines[n], r.lines[m])
        BY <1>3 DEF SameLine
      <3> QED BY <1>3, <2>2, <3>1, <3>2
    <2>6. CASE /\ n = Len(r.lines)
               /\ PGoto(w, "snapshot") /\ pDone' = [pDone EXCEPT ![w] = 0] /\ UNCHANGED pRow
      <3>1. pPhase'[w] = "snapshot" /\ pRequest'[w] = pRequest[w] /\ pAnswer'[w] = "none"
            /\ pDone'[w] = 0
        BY <1>1, <2>6, OwnTypes DEF PGoto
      <3>2. RequestIsKnown(w)' /\ LoopIsInside(w)'
        BY <1>1, <3>1 DEF RequestIsKnown, LoopIsInside, Asks
      <3>3. LinesArePrepared(w)'
        <4>1. Prepared(w)' = 1 .. n
          BY <2>1, <2>6, <3>1 DEF Prepared
        <4>2. ASSUME NEW m \in 1 .. n
              PROVE  LineWasValid(pRequest[w].portfolio, pRequest[w].lines[m])'
          BY <1>0, <2>3, <3>1
             DEF LineWasValid, tables, GetAccount, GetPortfolioInstrument, Live
        <4>3. \A l, m \in 1 .. n : SameLine(pRequest'[w].lines[l], pRequest'[w].lines[m]) => l = m
          BY <2>4, <3>1
        <4> QED BY <4>1, <4>2, <4>3 DEF LinesArePrepared, SameLine
      <3>4. SupersededStands(w)'
        BY <1>0, <1>1, <3>1
           DEF SupersededStands, Building, Asks, tables, GetPortfolioSnapshot, Live
      <3> QED BY <1>0, <2>6, <3>2, <3>3, <3>4, GotoOutside
    <2>7. CASE /\ n # Len(r.lines)
               /\ pDone' = [pDone EXCEPT ![w] = n] /\ UNCHANGED <<pPhase, pRequest, pRow, pAnswer>>
      <3>1. pPhase'[w] = "prepare" /\ pRequest'[w] = pRequest[w] /\ pAnswer'[w] = "none"
            /\ pDone'[w] = n
        BY <1>0, <1>1, <2>7, OwnTypes
      <3>2. RequestIsKnown(w)'
        BY <1>1, <3>1 DEF RequestIsKnown, Asks
      <3>3. LoopIsInside(w)'
        BY <1>1, <2>1, <2>7, <3>1 DEF LoopIsInside, Asks
      <3>4. LinesArePrepared(w)'
        <4>1. Prepared(w)' = 1 .. n
          BY <3>1 DEF Prepared
        <4>2. ASSUME NEW m \in 1 .. n
              PROVE  LineWasValid(pRequest[w].portfolio, pRequest[w].lines[m])'
          BY <1>0, <2>3, <3>1
             DEF LineWasValid, tables, GetAccount, GetPortfolioInstrument, Live
        <4>3. \A l, m \in 1 .. n : SameLine(pRequest'[w].lines[l], pRequest'[w].lines[m]) => l = m
          BY <2>4, <3>1
        <4> QED BY <4>1, <4>2, <4>3 DEF LinesArePrepared, SameLine
      <3>5. SupersededStands(w)'
        BY <1>0, <1>1, <3>1
           DEF SupersededStands, Building, Asks, tables, GetPortfolioSnapshot, Live
      <3>6. PGoto(w, "prepare")
        BY <1>0, <2>7, OwnTypes DEF PGoto
      <3>7. n \in Nat
        BY <1>1
      <3> QED BY <1>0, <2>7, <3>2, <3>3, <3>4, <3>5, <3>6, <3>7, GotoOutside
    <2> QED BY <1>3, <2>6, <2>7 DEF PrepareLine
  <1> QED BY <1>2, <1>3 DEF PrepareLine

\* The lines and the superseded snapshot, for a request that goes on.
LEMMA LinesKeep ==
  ASSUME NEW w \in Editor, LinesArePrepared(w), SupersededStands(w), Asks(w, "snapshot"),
         UNCHANGED tables, pRequest'[w] = pRequest[w],
         pPhase[w] \in {"snapshot", "lines"}, pPhase'[w] \in {"lines", "commit"}
  PROVE  LinesArePrepared(w)' /\ SupersededStands(w)'
  <1>1. LinesArePrepared(w)'
    BY DEF LinesArePrepared, Prepared, Building, Asks, LineWasValid, tables, GetAccount,
           GetPortfolioInstrument, Live
  <1>2. SupersededStands(w)'
    BY DEF SupersededStands, Building, Asks, tables, GetPortfolioSnapshot, Live
  <1> QED BY <1>1, <1>2

LEMMA InsertSnapshotStep ==
  ASSUME PortfolioInv, NEW w \in Editor, InsertSnapshot(w)
  PROVE  PortfolioInv'
  <1>0. pPhase[w] = "snapshot" /\ UNCHANGED tables
    BY DEF InsertSnapshot
  <1>1. /\ pRequest[w] \in PRequest /\ Asks(w, "snapshot") /\ pAnswer[w] = "none"
        /\ pDone[w] = 0 /\ LinesArePrepared(w) /\ SupersededStands(w)
    BY <1>0, UnderWay DEF LoopIsInside, RequestIsKnown
  <1>2. CASE PReply(w, "conflict")
    BY <1>0, <1>2, RefusalKeeps DEF PAnswers
  <1>3. CASE GetPortfolio(pRequest[w].portfolio)
    <2>1. PICK s \in SnapshotId : Unused(snapshots, s) /\ pRow' = [pRow EXCEPT ![w] = s]
      BY <1>3 DEF InsertSnapshot
    <2>2. pPhase' = [pPhase EXCEPT ![w] = "lines"] /\ UNCHANGED <<pRequest, pAnswer, pDone>>
      BY <1>3 DEF InsertSnapshot, PGoto
    <2>3. PortfolioTyped'
      <3>1. pPhase' \in [Editor -> PPhase]
        BY <2>2, OwnTypes DEF PPhase
      <3>2. pRow' \in [Editor -> SnapshotId \cup {NoSnapshot}]
        BY <2>1, OwnTypes
      <3> QED BY <1>0, <2>2, <3>1, <3>2, OwnTypes, TypesKeep DEF PortfolioInv
    <2>4. \A v \in Editor \ {w} : Same(v)
      BY <2>1, <2>2, OwnTypes DEF Same
    <2>5. pPhase'[w] = "lines" /\ pRequest'[w] = pRequest[w] /\ pAnswer'[w] = "none"
          /\ pDone'[w] = 0 /\ pRow'[w] = s
      BY <1>1, <2>1, <2>2, OwnTypes
    <2>6. RequestIsKnown(w)' /\ LoopIsInside(w)'
      BY <1>1, <2>5, RequestFacts DEF RequestIsKnown, LoopIsInside, Asks
    <2>7. LinesArePrepared(w)' /\ SupersededStands(w)'
      BY <1>0, <1>1, <2>5, LinesKeep
    <2>8. OpenSnapshotHolds(w)'
      BY <1>0, <1>3, <2>1, <2>5 DEF OpenSnapshotHolds, Unused, tables, GetPortfolio, Live
    <2>9. EntriesAreFree(w)' /\ CreatedIsStored(w)'
      BY <1>1, <2>5 DEF EntriesAreFree, Entered, CreatedIsStored, Asks
    <2>10. ASSUME NEW v \in Editor \ {w}
           PROVE  OpenAreApart(v, w)'
      <3>1. v \in Inserting => pRow[v] # s
        BY <2>1 DEF Unused
      <3>2. Entered(w)' = {}
        BY <1>1, <2>5 DEF Entered, Asks
      <3> QED BY <2>4, <2>5, <3>1, <3>2 DEF OpenAreApart, Same, Inserting
    <2> QED BY <1>0, <2>3, <2>4, <2>6, <2>7, <2>8, <2>9, <2>10, MoveKeeps DEF EditorInv
  <1> QED BY <1>2, <1>3 DEF InsertSnapshot

LEMMA InsertLineStep ==
  ASSUME PortfolioInv, NEW w \in Editor, InsertLine(w)
  PROVE  PortfolioInv'
  <1>0. pPhase[w] = "lines" /\ UNCHANGED tables
    BY DEF InsertLine
  <1>1. /\ pRequest[w] \in PRequest /\ Asks(w, "snapshot") /\ pAnswer[w] = "none"
        /\ pDone[w] \in Nat /\ pDone[w] < Len(pRequest[w].lines)
        /\ LinesArePrepared(w) /\ SupersededStands(w) /\ OpenSnapshotHolds(w)
    BY <1>0, UnderWay DEF LoopIsInside, RequestIsKnown
  <1>2. CASE PReply(w, "conflict")
    BY <1>0, <1>2, RefusalKeeps DEF PAnswers
  <1>3. CASE GetAccount(pRequest[w].lines[pDone[w] + 1].account)
    <2>1. PICK n, ph : /\ n = pDone[w] + 1
                       /\ ph = IF n = Len(pRequest[w].lines) THEN "commit" ELSE "lines"
      OBVIOUS
    <2>2. /\ pPhase' = [pPhase EXCEPT ![w] = ph] /\ pDone' = [pDone EXCEPT ![w] = n]
          /\ UNCHANGED <<pRequest, pAnswer, pRow>>
      BY <1>3, <2>1 DEF InsertLine, PGoto
    <2>3. PortfolioTyped'
      <3>1. pPhase' \in [Editor -> PPhase]
        BY <2>1, <2>2, OwnTypes DEF PPhase
      <3>2. pDone' \in [Editor -> Nat]
        BY <1>1, <2>1, <2>2, OwnTypes
      <3> QED BY <1>0, <2>2, <3>1, <3>2, OwnTypes, TypesKeep DEF PortfolioInv
    <2>4. \A v \in Editor \ {w} : Same(v)
      BY <2>2, OwnTypes DEF Same
    <2>5. pPhase'[w] = ph /\ pRequest'[w] = pRequest[w] /\ pAnswer'[w] = "none"
          /\ pDone'[w] = n /\ pRow'[w] = pRow[w] /\ ph \in {"lines", "commit"}
      BY <1>1, <2>1, <2>2, OwnTypes
    <2>6. RequestIsKnown(w)'
      BY <1>1, <2>5 DEF RequestIsKnown, Asks
    <2>7. LoopIsInside(w)'
      <3>1. Len(pRequest[w].lines) \in Nat
        BY <1>1, RequestFacts DEF Asks
      <3> QED BY <1>1, <2>1, <2>5, <3>1 DEF LoopIsInside, Asks
    <2>8. LinesArePrepared(w)' /\ SupersededStands(w)'
      BY <1>0, <1>1, <2>5, LinesKeep
    <2>9. OpenSnapshotHolds(w)'
      <3>1. \A m \in 1 .. n : m = pDone[w] + 1 \/ m \in 1 .. pDone[w]
        BY <1>1, <2>1
      <3>2. \A m \in 1 .. n : GetAccount(pRequest[w].lines[m].account)
        BY <1>0, <1>1, <1>3, <3>1 DEF OpenSnapshotHolds
      <3> QED BY <1>0, <1>1, <2>5, <3>2
              DEF OpenSnapshotHolds, Asks, tables, GetPortfolio, GetAccount, Live
    <2>10. EntriesAreFree(w)' /\ CreatedIsStored(w)'
      BY <1>1, <2>5 DEF EntriesAreFree, Entered, CreatedIsStored, Asks
    <2>11. ASSUME NEW v \in Editor \ {w}
           PROVE  OpenAreApart(v, w)'
      <3>1. v \in Inserting /\ Asks(v, "snapshot") => pRow[v] # pRow[w]
        BY <1>0, <1>1 DEF PortfolioInv, OpenAreApart, Inserting
      <3>2. Entered(w)' = {}
        BY <1>1, <2>5 DEF Entered, Asks
      <3> QED BY <2>4, <2>5, <3>1, <3>2 DEF OpenAreApart, Same, Inserting, Asks
    <2> QED BY <1>0, <2>3, <2>4, <2>6, <2>7, <2>8, <2>9, <2>10, <2>11, MoveKeeps DEF EditorInv
  <1> QED BY <1>2, <1>3 DEF InsertLine

LEMMA InsertEntryStep ==
  ASSUME PortfolioInv, NEW w \in Editor, InsertEntry(w)
  PROVE  PortfolioInv'
  <1>0. pPhase[w] \in {"symbol", "identifiers"}
    BY DEF InsertEntry
  <1>1. PICK n, e : n = pDone[w] + 1 /\ e = pRequest[w].entries[n]
    OBVIOUS
  <1>2. /\ pRequest[w] \in PRequest /\ Asks(w, "instrument") /\ pAnswer[w] = "none"
        /\ pDone[w] \in Nat /\ Len(pRequest[w].entries) \in Nat
        /\ pDone[w] < Len(pRequest[w].entries)
    <2>1. pRequest[w] \in PRequest /\ Asks(w, "instrument") /\ pAnswer[w] = "none"
          /\ pDone[w] \in Nat /\ LoopIsInside(w)
      BY <1>0, UnderWay DEF RequestIsKnown
    <2>2. Len(pRequest[w].entries) \in Nat /\ Len(pRequest[w].entries) > 0
      BY <2>1, RequestFacts DEF Asks
    <2> QED BY <1>0, <2>1, <2>2 DEF LoopIsInside
  <1>3. CASE PReply(w, "conflict") /\ UNCHANGED tables
    BY <1>3, RefusalKeeps DEF PAnswers
  <1>4. CASE ~ Taken(e)
    <2>1. PICK ph : ph = IF n = Len(pRequest[w].entries) THEN "commit" ELSE "identifiers"
      OBVIOUS
    <2>2. /\ pPhase' = [pPhase EXCEPT ![w] = ph] /\ pDone' = [pDone EXCEPT ![w] = n]
          /\ UNCHANGED <<pRequest, pAnswer, pRow>> /\ UNCHANGED tables
      BY <1>1, <1>4, <2>1 DEF InsertEntry, PGoto
    <2>3. PortfolioTyped'
      <3>1. pPhase' \in [Editor -> PPhase]
        BY <2>1, <2>2, OwnTypes DEF PPhase
      <3>2. pDone' \in [Editor -> Nat]
        BY <1>1, <1>2, <2>2, OwnTypes
      <3> QED BY <2>2, <3>1, <3>2, OwnTypes, TypesKeep DEF PortfolioInv
    <2>4. \A v \in Editor \ {w} : Same(v)
      BY <2>2, OwnTypes DEF Same
    <2>5. pPhase'[w] = ph /\ pRequest'[w] = pRequest[w] /\ pAnswer'[w] = "none"
          /\ pDone'[w] = n /\ pRow'[w] = pRow[w] /\ ph \in {"identifiers", "commit"}
      BY <1>2, <2>1, <2>2, OwnTypes
    <2>6. RequestIsKnown(w)'
      BY <1>2, <2>5 DEF RequestIsKnown, Asks
    <2>7. LoopIsInside(w)'
      BY <1>1, <1>2, <2>1, <2>5 DEF LoopIsInside, Asks
    <2>8. LinesArePrepared(w)' /\ SupersededStands(w)' /\ OpenSnapshotHolds(w)' /\ CreatedIsStored(w)'
      BY <1>2, <2>5 DEF LinesArePrepared, SupersededStands, OpenSnapshotHolds, CreatedIsStored, Asks
    <2>9. Entered(w)' = Entered(w) \cup {e}
      <3>1. 1 .. n = (1 .. pDone[w]) \cup {n}
        BY <1>1, <1>2
      <3>2. Entered(w)' = {pRequest[w].entries[m] : m \in 1 .. n}
        BY <1>2, <2>5 DEF Entered, Asks
      <3>3. Entered(w) = {pRequest[w].entries[m] : m \in 1 .. pDone[w]}
        BY <1>2 DEF Entered, Asks
      <3> QED BY <1>1, <3>1, <3>2, <3>3
    <2>10. EntriesAreFree(w)'
      <3>1. \A f \in Entered(w) : ~ Taken(f)
        <4>1. CASE pPhase[w] = "symbol"
          <5>1. pDone[w] = 0
            BY <4>1, UnderWay DEF LoopIsInside
          <5> QED BY <5>1, <1>2 DEF Entered
        <4>2. CASE pPhase[w] = "identifiers"
          BY <4>2, UnderWay DEF EntriesAreFree, Inserting
        <4> QED BY <1>0, <4>1, <4>2
      <3>2. \A f : Taken(f)' <=> Taken(f)
        BY <2>2 DEF Taken, tables, Live
      <3> QED BY <1>4, <2>9, <3>1, <3>2 DEF EntriesAreFree
    <2>11. ASSUME NEW v \in Editor \ {w}
           PROVE  OpenAreApart(v, w)'
      <3>1. v \in Inserting => e \notin Entered(v)
        BY <1>1 DEF InsertEntry, EnteredByOther
      <3>2. v \in Inserting => Entered(v) \cap Entered(w) = {}
        <4>1. CASE pPhase[w] = "symbol"
          <5>1. pDone[w] = 0
            BY <4>1, UnderWay DEF LoopIsInside
          <5> QED BY <5>1, <1>2 DEF Entered
        <4>2. CASE pPhase[w] = "identifiers"
          BY <4>2 DEF PortfolioInv, OpenAreApart, Inserting
        <4> QED BY <1>0, <4>1, <4>2
      <3>3. (v \in Inserting)' <=> v \in Inserting
        BY <2>4 DEF Inserting, Same
      <3>4. Entered(v)' = Entered(v)
        BY <2>4 DEF Entered, Same
      <3>5. ~ Asks(w, "snapshot")'
        BY <1>2, <2>5 DEF Asks
      <3> QED BY <2>9, <3>1, <3>2, <3>3, <3>4, <3>5 DEF OpenAreApart
    <2> QED BY <2>2, <2>3, <2>4, <2>6, <2>7, <2>8, <2>10, <2>11, MoveKeeps DEF EditorInv
  <1> QED BY <1>1, <1>3, <1>4 DEF InsertEntry

-----------------------------------------------------------------------------
(* Steps that change a table.                                              *)

\* A row may be deleted, and nothing else happens to what others have read of
\* it: no id is used again, an account stays in its portfolio, an instrument
\* keeps its type and a snapshot is never touched.
RowsAge ==
    /\ \A a \in AccountId : accounts[a] # NeverUsed =>
          /\ accounts'[a] # NeverUsed
          /\ Live(accounts', a) =>
                Live(accounts, a) /\ accounts'[a].portfolio = accounts[a].portfolio
    /\ \A i \in InstrumentId : Live(instruments, i) =>
          Live(instruments', i) /\ instruments'[i].type = instruments[i].type
    /\ \A s \in SnapshotId : Live(snapshots, s) => snapshots'[s] = snapshots[s]

LEMMA AgeKeepsLine ==
  ASSUME RowsAge, NEW p, NEW line \in LineInput, LineWasValid(p, line)
  PROVE  LineWasValid(p, line)'
  <1>1. line.account \in AccountId /\ line.instrument \in InstrumentId
    BY DEF LineInput
  <1> QED BY <1>1 DEF RowsAge, LineWasValid, GetAccount, GetPortfolioInstrument

LEMMA StoredFacts ==
  ASSUME PortfolioTyped, NEW s \in SnapshotId, Live(snapshots, s)
  PROVE  /\ snapshots[s] \in SnapshotRows
         /\ snapshots[s].portfolio \in PortfolioId
         /\ snapshots[s].supersedes \in SnapshotId \cup {NoSnapshot}
         /\ snapshots[s].lines \in Seq(LineInput)
         /\ \A n \in DOMAIN snapshots[s].lines :
               /\ snapshots[s].lines[n] \in LineInput
               /\ snapshots[s].lines[n].account \in AccountId
               /\ snapshots[s].lines[n].instrument \in InstrumentId
  <1>1. snapshots[s] \in SnapshotRows
    BY Typing DEF Live
  <1>2. /\ snapshots[s].portfolio \in PortfolioId
        /\ snapshots[s].supersedes \in SnapshotId \cup {NoSnapshot}
        /\ snapshots[s].lines \in Seq(LineInput)
    BY <1>1 DEF SnapshotRows
  <1>3. \A n \in DOMAIN snapshots[s].lines : snapshots[s].lines[n] \in LineInput
    BY <1>2
  <1> QED BY <1>1, <1>2, <1>3 DEF LineInput

\* A stored snapshot stands while its portfolio and its accounts do.
LEMMA AgeKeepsSnapshot ==
  ASSUME PortfolioInv, RowsAge, NEW s \in SnapshotId, Live(snapshots, s),
         Live(portfolios', snapshots[s].portfolio),
         \A n \in DOMAIN snapshots[s].lines : Live(accounts', snapshots[s].lines[n].account)
  PROVE  SnapshotStands(s)'
  <1>1. PICK row : row = snapshots[s]
    OBVIOUS
  <1>2. snapshots'[s] = row
    BY <1>1 DEF RowsAge
  <1>3. /\ \A n \in DOMAIN row.lines : LineWasValid(row.portfolio, row.lines[n])
        /\ \A m, n \in DOMAIN row.lines : SameLine(row.lines[m], row.lines[n]) => m = n
    BY <1>1 DEF PortfolioInv, TableInv, SnapshotStands, GetPortfolioSnapshot
  <1>4. ASSUME NEW n \in DOMAIN row.lines
        PROVE  LineWasValid(row.portfolio, row.lines[n])'
    <2>1. row.lines[n] \in LineInput
      BY <1>1, StoredFacts DEF PortfolioInv
    <2> QED BY <1>3, <2>1, AgeKeepsLine
  <1>5. Live(portfolios', row.portfolio) /\ \A n \in DOMAIN row.lines : Live(accounts', row.lines[n].account)
    BY <1>1
  <1>6. \A n \in DOMAIN row.lines : LineWasValid(row.portfolio, row.lines[n])'
    BY <1>4
  <1> QED BY <1>2, <1>3, <1>5, <1>6
          DEF SnapshotStands, GetPortfolio, GetAccount, SameLine, LineWasValid,
              GetPortfolioInstrument

\* The part of an editor's invariant that ageing rows cannot disturb.
LEMMA AgeKeepsEditor ==
  ASSUME NEW v \in Editor, PortfolioInv, RowsAge, Same(v),
         OpenSnapshotHolds(v)', EntriesAreFree(v)'
  PROVE  EditorInv(v)'
  <1>0. EditorInv(v)
    BY DEF PortfolioInv
  <1>1. RequestIsKnown(v)' /\ LoopIsInside(v)'
    BY <1>0 DEF EditorInv, Same, RequestIsKnown, LoopIsInside, Asks
  <1>2. PICK r : r = pRequest[v] /\ r = pRequest'[v]
    BY DEF Same
  <1>3. pPhase[v] # "idle" => r \in PRequest /\ pDone[v] \in Nat /\ LoopIsInside(v)
    BY <1>2, UnderWay
  <1>4. LinesArePrepared(v)'
    <2>1. SUFFICES ASSUME pPhase[v] \in Building, r.op = "snapshot"
                   PROVE  LinesArePrepared(v)'
      BY <1>2 DEF LinesArePrepared, Asks, Same
    <2>2. r \in PRequest /\ DOMAIN r.lines = 1 .. Len(r.lines) /\ Len(r.lines) \in Nat
          /\ LoopIsInside(v)
      BY <1>3, <2>1, RequestFacts DEF Building
    <2>3. PICK P : P = Prepared(v) /\ P = Prepared(v)'
      BY DEF Prepared, Same
    <2>4. P \subseteq 1 .. Len(r.lines)
      <3>1. CASE pPhase[v] = "prepare"
        <4>1. pDone[v] \in Nat /\ pDone[v] < Len(r.lines)
          BY <1>2, <1>3, <2>2, <3>1 DEF LoopIsInside
        <4>2. P = 1 .. pDone[v]
          BY <2>3, <3>1 DEF Prepared
        <4> QED BY <2>2, <4>1, <4>2
      <3>2. CASE pPhase[v] # "prepare"
        BY <1>2, <2>2, <2>3, <3>2 DEF Prepared
      <3> QED BY <3>1, <3>2
    <2>5. /\ \A n \in P : LineWasValid(r.portfolio, r.lines[n])
          /\ \A m, n \in P : SameLine(r.lines[m], r.lines[n]) => m = n
      BY <1>0, <1>2, <2>1, <2>3 DEF EditorInv, LinesArePrepared, Asks
    <2>6. ASSUME NEW n \in P
          PROVE  LineWasValid(r.portfolio, r.lines[n])'
      BY <2>1, <2>2, <2>4, <2>5, LineFacts, AgeKeepsLine
    <2> QED BY <1>2, <2>3, <2>5, <2>6 DEF LinesArePrepared, SameLine
  <1>5. SupersededStands(v)'
    <2>1. SUFFICES ASSUME pPhase[v] \in Building, r.op = "snapshot", r.supersedes # NoSnapshot
                   PROVE  /\ Live(snapshots', r.supersedes)
                          /\ snapshots'[r.supersedes].portfolio = r.portfolio
      BY <1>2 DEF SupersededStands, Asks, Same, GetPortfolioSnapshot
    <2>2. r.supersedes \in SnapshotId
      BY <1>3, <2>1, RequestFacts DEF Building
    <2>3. Live(snapshots, r.supersedes) /\ snapshots[r.supersedes].portfolio = r.portfolio
      BY <1>0, <1>2, <2>1 DEF EditorInv, SupersededStands, Asks, GetPortfolioSnapshot
    <2> QED BY <2>2, <2>3 DEF RowsAge, Live
  <1>6. CreatedIsStored(v)'
    BY <1>0 DEF EditorInv, CreatedIsStored, Same, Asks, RowsAge, GetPortfolioSnapshot, Live
  <1> QED BY <1>1, <1>4, <1>5, <1>6 DEF EditorInv

\* A step of the editors in W that changes tables.
LEMMA AgeKeeps ==
  ASSUME PortfolioInv, PortfolioTyped', RowsAge, TableInv', NEW W \in SUBSET Editor,
         \A v \in Editor \ W : Same(v) /\ OpenSnapshotHolds(v)' /\ EntriesAreFree(v)',
         \A w \in W : EditorInv(w)' /\ (w \notin Inserting)'
  PROVE  PortfolioInv'
  <1>1. ASSUME NEW v \in Editor
        PROVE  EditorInv(v)'
    BY AgeKeepsEditor
  <1>2. ASSUME NEW v \in Editor, NEW u \in Editor
        PROVE  OpenAreApart(v, u)'
    <2>1. CASE v \in W \/ u \in W
      BY <2>1 DEF OpenAreApart
    <2>2. CASE v \notin W /\ u \notin W
      BY <2>2, SameAreApart DEF PortfolioInv
    <2> QED BY <2>1, <2>2
  <1> QED BY <1>1, <1>2 DEF PortfolioInv

LEMMA OpenKeeps ==
  ASSUME NEW v \in Editor, PortfolioInv, Same(v),
         pPhase[v] \in {"lines", "commit"} /\ Asks(v, "snapshot") =>
            /\ snapshots'[pRow[v]] = NeverUsed
            /\ Live(portfolios', pRequest[v].portfolio)
            /\ \A n \in 1 .. pDone[v] : Live(accounts', pRequest[v].lines[n].account)
  PROVE  OpenSnapshotHolds(v)'
  <1>1. OpenSnapshotHolds(v)
    BY DEF PortfolioInv, EditorInv
  <1> QED BY <1>1 DEF OpenSnapshotHolds, Same, Asks, GetPortfolio, GetAccount

\* What an open snapshot refers to, in the words of the tables.
LEMMA OpenFacts ==
  ASSUME NEW v \in Editor, PortfolioInv, pPhase[v] \in {"lines", "commit"}, Asks(v, "snapshot")
  PROVE  /\ pRow[v] \in SnapshotId /\ snapshots[pRow[v]] = NeverUsed
         /\ pRequest[v].portfolio \in PortfolioId
         /\ Live(portfolios, pRequest[v].portfolio)
         /\ \A n \in 1 .. pDone[v] : /\ pRequest[v].lines[n].account \in AccountId
                                     /\ Live(accounts, pRequest[v].lines[n].account)
         /\ v \in Inserting
         /\ Referred(v) = {pRequest[v].portfolio} \cup
                             {pRequest[v].lines[n].account : n \in 1 .. pDone[v]}
  <1>1. pRequest[v] \in PRequest /\ LoopIsInside(v) /\ OpenSnapshotHolds(v) /\ pDone[v] \in Nat
    BY UnderWay
  <1>2. /\ pRow[v] \in SnapshotId /\ snapshots[pRow[v]] = NeverUsed
        /\ Live(portfolios, pRequest[v].portfolio)
        /\ \A n \in 1 .. pDone[v] : Live(accounts, pRequest[v].lines[n].account)
    BY <1>1 DEF OpenSnapshotHolds, GetPortfolio, GetAccount
  <1>3. pRequest[v].portfolio \in PortfolioId /\ Len(pRequest[v].lines) \in Nat
    BY <1>1, RequestFacts DEF Asks
  <1>4. pDone[v] <= Len(pRequest[v].lines)
    BY <1>1, <1>3 DEF LoopIsInside, Asks
  <1>5. \A n \in 1 .. pDone[v] : n \in 1 .. Len(pRequest[v].lines)
    BY <1>1, <1>3, <1>4
  <1>6. \A n \in 1 .. pDone[v] : pRequest[v].lines[n].account \in AccountId
    BY <1>1, <1>5, LineFacts DEF Asks
  <1> QED BY <1>2, <1>3, <1>6 DEF Inserting, Referred, Asks

LEMMA FreeKeeps ==
  ASSUME NEW v \in Editor, PortfolioInv, Same(v), \A e \in Entered(v) : Taken(e)' => Taken(e)
  PROVE  EntriesAreFree(v)'
  <1>1. Entered(v)' = Entered(v) /\ ((v \in Inserting)' <=> v \in Inserting)
    BY DEF Entered, Inserting, Same
  <1>2. EntriesAreFree(v)
    BY DEF PortfolioInv, EditorInv
  <1> QED BY <1>1, <1>2 DEF EntriesAreFree

LEMMA CorrectionsKeep ==
  ASSUME CorrectionsEnd, UNCHANGED snapshots
  PROVE  CorrectionsEnd'
  BY DEF CorrectionsEnd, GetPortfolioSnapshot, Live

LEMMA IdentifiersKeep ==
  ASSUME IdentifiersNameOne, UNCHANGED instruments
  PROVE  IdentifiersNameOne'
  BY DEF IdentifiersNameOne, Live

\* The handlers of one statement leave every request alone.
LEMMA HandlerKeeps ==
  ASSUME PortfolioInv, PortfolioTyped', RowsAge, TableInv', UNCHANGED requestVars,
         \A v \in Editor : OpenSnapshotHolds(v)' /\ EntriesAreFree(v)'
  PROVE  PortfolioInv'
  <1>1. \A v \in Editor : Same(v)
    BY DEF Same, requestVars
  <1>2. {} \in SUBSET Editor
    OBVIOUS
  <1> QED BY <1>1, <1>2, AgeKeeps

\* CreatePortfolio and UpdatePortfolio make a portfolio or keep it.
LEMMA WritePortfolioStep ==
  ASSUME PortfolioInv, NEW p \in PortfolioId, NEW c \in Currency,
         CreatePortfolio(p, c) \/ UpdatePortfolio(p, c)
  PROVE  PortfolioInv' /\ RowsAge
  <1>0. /\ portfolios' = [portfolios EXCEPT ![p] = [currency |-> c]]
        /\ UNCHANGED <<accounts, instruments, snapshots>> /\ UNCHANGED requestVars
    BY DEF CreatePortfolio, UpdatePortfolio
  <1>1. portfolios \in [PortfolioId -> [currency : Currency] \cup Absent]
    BY DEF PortfolioInv, PortfolioTyped
  <1>2. \A q \in PortfolioId : Live(portfolios, q) => Live(portfolios', q)
    BY <1>0, <1>1, AbsentFacts DEF Live
  <1>3. PortfolioTyped'
    BY <1>0, <1>1 DEF PortfolioInv, PortfolioTyped, requestVars
  <1>4. RowsAge
    BY <1>0 DEF RowsAge, Live
  <1>5. TableInv'
    <2>1. ASSUME NEW a \in AccountId, GetAccount(a)'
          PROVE  GetPortfolio(accounts[a].portfolio)'
      <3>1. Live(accounts, a) /\ accounts'[a] = accounts[a]
        BY <1>0, <2>1 DEF GetAccount, Live
      <3>2. accounts[a].portfolio \in PortfolioId
        BY <3>1, Typing DEF PortfolioInv, Live, AccountRows
      <3> QED BY <1>2, <3>1, <3>2 DEF PortfolioInv, TableInv, GetAccount, GetPortfolio
    <2>2. ASSUME NEW s \in SnapshotId
          PROVE  SnapshotStands(s)'
      <3>1. CASE Live(snapshots, s)
        BY <1>0, <1>2, <1>4, <3>1, AgeKeepsSnapshot, StoredFacts
           DEF PortfolioInv, TableInv, SnapshotStands, GetPortfolioSnapshot, GetPortfolio, GetAccount
      <3>2. CASE ~ Live(snapshots, s)
        BY <1>0, <3>2 DEF SnapshotStands, GetPortfolioSnapshot
      <3> QED BY <3>1, <3>2
    <2> QED BY <1>0, <2>1, <2>2, CorrectionsKeep, IdentifiersKeep DEF PortfolioInv, TableInv
  <1>6. ASSUME NEW v \in Editor
        PROVE  OpenSnapshotHolds(v)' /\ EntriesAreFree(v)'
    <2>1. Same(v)
      BY <1>0 DEF Same, requestVars
    <2> QED BY <1>0, <1>2, <2>1, OpenKeeps, OpenFacts, FreeKeeps DEF Taken, Live
  <1> QED BY <1>0, <1>3, <1>4, <1>5, <1>6, HandlerKeeps

LEMMA DeletePortfolioStep ==
  ASSUME PortfolioInv, NEW p \in PortfolioId, DeletePortfolio(p)
  PROVE  PortfolioInv' /\ RowsAge
  <1>0. /\ portfolios' = [portfolios EXCEPT ![p] = Deleted]
        /\ UNCHANGED <<accounts, instruments, snapshots>> /\ UNCHANGED requestVars
    BY DEF DeletePortfolio
  <1>1. portfolios \in [PortfolioId -> [currency : Currency] \cup Absent]
    BY DEF PortfolioInv, PortfolioTyped
  <1>2. \A q \in PortfolioId : q # p /\ Live(portfolios, q) => Live(portfolios', q)
    BY <1>0, <1>1 DEF Live
  <1>3. PortfolioTyped'
    BY <1>0, <1>1 DEF PortfolioInv, PortfolioTyped, requestVars, Absent
  <1>4. RowsAge
    BY <1>0 DEF RowsAge, Live
  <1>5. TableInv'
    <2>1. ASSUME NEW a \in AccountId, GetAccount(a)'
          PROVE  GetPortfolio(accounts[a].portfolio)'
      <3>1. Live(accounts, a) /\ accounts'[a] = accounts[a]
        BY <1>0, <2>1 DEF GetAccount, Live
      <3>2. accounts[a].portfolio \in PortfolioId
        BY <3>1, Typing DEF PortfolioInv, Live, AccountRows
      <3>3. accounts[a].portfolio # p
        BY <3>1 DEF DeletePortfolio, AccountsOf, GetAccount
      <3> QED BY <1>2, <3>1, <3>2, <3>3 DEF PortfolioInv, TableInv, GetAccount, GetPortfolio
    <2>2. ASSUME NEW s \in SnapshotId
          PROVE  SnapshotStands(s)'
      <3>1. CASE Live(snapshots, s)
        <4>1. snapshots[s].portfolio # p
          BY <3>1 DEF DeletePortfolio, SnapshotsOf, GetPortfolioSnapshot
        <4> QED BY <1>0, <1>2, <1>4, <3>1, <4>1, AgeKeepsSnapshot, StoredFacts
                DEF PortfolioInv, TableInv, SnapshotStands, GetPortfolioSnapshot, GetPortfolio,
                    GetAccount
      <3>2. CASE ~ Live(snapshots, s)
        BY <1>0, <3>2 DEF SnapshotStands, GetPortfolioSnapshot
      <3> QED BY <3>1, <3>2
    <2> QED BY <1>0, <2>1, <2>2, CorrectionsKeep, IdentifiersKeep DEF PortfolioInv, TableInv
  <1>6. ASSUME NEW v \in Editor
        PROVE  OpenSnapshotHolds(v)' /\ EntriesAreFree(v)'
    <2>1. Same(v)
      BY <1>0 DEF Same, requestVars
    <2>2. pPhase[v] \in {"lines", "commit"} /\ Asks(v, "snapshot") => pRequest[v].portfolio # p
      BY OpenFacts DEF DeletePortfolio, KeyShared
    <2> QED BY <1>0, <1>2, <2>1, <2>2, OpenKeeps, OpenFacts, FreeKeeps DEF Taken, Live
  <1> QED BY <1>0, <1>3, <1>4, <1>5, <1>6, HandlerKeeps

LEMMA UpdateAccountStep ==
  ASSUME PortfolioInv, NEW a \in AccountId, NEW n \in AccountName, UpdateAccount(a, n)
  PROVE  PortfolioInv' /\ RowsAge
  <1>0. /\ Live(accounts, a) /\ accounts' = [accounts EXCEPT ![a].name = n]
        /\ UNCHANGED <<portfolios, instruments, snapshots>> /\ UNCHANGED requestVars
    BY DEF UpdateAccount, GetAccount
  <1>1. accounts \in [AccountId -> AccountRows \cup Absent] /\ accounts[a] \in AccountRows
    BY <1>0, Typing DEF PortfolioInv, Live
  <1>2. accounts'[a] \in AccountRows /\ accounts'[a].portfolio = accounts[a].portfolio
    BY <1>0, <1>1 DEF AccountRows
  <1>3. \A b \in AccountId : /\ Live(accounts', b) <=> Live(accounts, b)
                             /\ Live(accounts, b) => accounts'[b].portfolio = accounts[b].portfolio
                             /\ accounts[b] # NeverUsed => accounts'[b] # NeverUsed
    <2>1. \A b \in AccountId : b # a => accounts'[b] = accounts[b]
      BY <1>0, <1>1
    <2>2. accounts'[a] \notin Absent
      BY <1>2, RowsAreLive
    <2> QED BY <1>0, <1>2, <2>1, <2>2 DEF Live, Absent
  <1>4. PortfolioTyped'
    <2>1. accounts' \in [AccountId -> AccountRows \cup Absent]
      BY <1>0, <1>1, <1>2
    <2> QED BY <1>0, <2>1 DEF PortfolioInv, PortfolioTyped, requestVars, AccountRows
  <1>5. RowsAge
    BY <1>0, <1>3 DEF RowsAge, Live
  <1>6. TableInv'
    <2>1. ASSUME NEW b \in AccountId, GetAccount(b)'
          PROVE  GetPortfolio(accounts[b].portfolio)'
      BY <1>0, <1>3, <2>1 DEF PortfolioInv, TableInv, GetAccount, GetPortfolio
    <2>2. ASSUME NEW s \in SnapshotId
          PROVE  SnapshotStands(s)'
      <3>1. CASE Live(snapshots, s)
        BY <1>0, <1>3, <1>5, <3>1, AgeKeepsSnapshot, StoredFacts
           DEF PortfolioInv, TableInv, SnapshotStands, GetPortfolioSnapshot, GetPortfolio, GetAccount
      <3>2. CASE ~ Live(snapshots, s)
        BY <1>0, <3>2 DEF SnapshotStands, GetPortfolioSnapshot
      <3> QED BY <3>1, <3>2
    <2> QED BY <1>0, <2>1, <2>2, CorrectionsKeep, IdentifiersKeep DEF PortfolioInv, TableInv
  <1>7. ASSUME NEW v \in Editor
        PROVE  OpenSnapshotHolds(v)' /\ EntriesAreFree(v)'
    <2>1. Same(v)
      BY <1>0 DEF Same, requestVars
    <2> QED BY <1>0, <1>3, <2>1, OpenKeeps, OpenFacts, FreeKeeps DEF Taken, Live
  <1> QED BY <1>0, <1>4, <1>5, <1>6, <1>7, HandlerKeeps

LEMMA DeleteAccountStep ==
  ASSUME PortfolioInv, NEW a \in AccountId, DeleteAccount(a)
  PROVE  PortfolioInv' /\ RowsAge
  <1>0. /\ Live(accounts, a) /\ accounts' = [accounts EXCEPT ![a] = Deleted]
        /\ UNCHANGED <<portfolios, instruments, snapshots>> /\ UNCHANGED requestVars
    BY DEF DeleteAccount, GetAccount
  <1>1. accounts \in [AccountId -> AccountRows \cup Absent]
    BY Typing DEF PortfolioInv
  <1>2. ~ Live(accounts', a) /\ accounts'[a] # NeverUsed
        /\ \A b \in AccountId : b # a => accounts'[b] = accounts[b]
    BY <1>0, <1>1, AbsentFacts DEF Live, Absent
  <1>3. \A b \in AccountId : b # a /\ Live(accounts, b) => Live(accounts', b)
    BY <1>2 DEF Live
  <1>4. PortfolioTyped'
    <2>1. accounts' \in [AccountId -> AccountRows \cup Absent]
      BY <1>0, <1>1 DEF Absent
    <2> QED BY <1>0, <2>1 DEF PortfolioInv, PortfolioTyped, requestVars, AccountRows
  <1>5. RowsAge
    BY <1>0, <1>2 DEF RowsAge, Live
  <1>6. TableInv'
    <2>1. ASSUME NEW b \in AccountId, GetAccount(b)'
          PROVE  GetPortfolio(accounts[b].portfolio)'
      BY <1>0, <1>2, <2>1 DEF PortfolioInv, TableInv, GetAccount, GetPortfolio, Live
    <2>2. ASSUME NEW s \in SnapshotId
          PROVE  SnapshotStands(s)'
      <3>1. CASE Live(snapshots, s)
        <4>1. \A n \in DOMAIN snapshots[s].lines : snapshots[s].lines[n].account # a
          BY <3>1 DEF DeleteAccount, SnapshotsHolding, GetPortfolioSnapshot
        <4> QED BY <1>0, <1>3, <1>5, <3>1, <4>1, AgeKeepsSnapshot, StoredFacts
                DEF PortfolioInv, TableInv, SnapshotStands, GetPortfolioSnapshot, GetPortfolio,
                    GetAccount
      <3>2. CASE ~ Live(snapshots, s)
        BY <1>0, <3>2 DEF SnapshotStands, GetPortfolioSnapshot
      <3> QED BY <3>1, <3>2
    <2> QED BY <1>0, <2>1, <2>2, CorrectionsKeep, IdentifiersKeep DEF PortfolioInv, TableInv
  <1>7. ASSUME NEW v \in Editor
        PROVE  OpenSnapshotHolds(v)' /\ EntriesAreFree(v)'
    <2>1. Same(v)
      BY <1>0 DEF Same, requestVars
    <2>2. pPhase[v] \in {"lines", "commit"} /\ Asks(v, "snapshot") =>
             \A n \in 1 .. pDone[v] : pRequest[v].lines[n].account # a
      BY OpenFacts DEF DeleteAccount, KeyShared
    <2> QED BY <1>0, <1>3, <2>1, <2>2, OpenKeeps, OpenFacts, FreeKeeps DEF Taken, Live
  <1> QED BY <1>0, <1>4, <1>5, <1>6, <1>7, HandlerKeeps

LEMMA UpdateInstrumentStep ==
  ASSUME PortfolioInv, NEW i \in InstrumentId, NEW st \in Status, UpdateInstrumentStatus(i, st)
  PROVE  PortfolioInv' /\ RowsAge
  <1>0. /\ Live(instruments, i) /\ instruments' = [instruments EXCEPT ![i].status = st]
        /\ UNCHANGED <<portfolios, accounts, snapshots>> /\ UNCHANGED requestVars
    BY DEF UpdateInstrumentStatus, GetPortfolioInstrument
  <1>1. instruments \in [InstrumentId -> InstrumentRows \cup Absent] /\ instruments[i] \in InstrumentRows
    BY <1>0, Typing DEF PortfolioInv, Live
  <1>2. /\ instruments'[i] \in InstrumentRows /\ instruments'[i].type = instruments[i].type
        /\ instruments'[i].entries = instruments[i].entries
    BY <1>0, <1>1 DEF InstrumentRows
  <1>3. \A j \in InstrumentId :
           /\ Live(instruments', j) <=> Live(instruments, j)
           /\ Live(instruments, j) => /\ instruments'[j].type = instruments[j].type
                                      /\ instruments'[j].entries = instruments[j].entries
    <2>1. \A j \in InstrumentId : j # i => instruments'[j] = instruments[j]
      BY <1>0, <1>1
    <2>2. instruments'[i] \notin Absent
      BY <1>2, RowsAreLive
    <2> QED BY <1>0, <1>2, <2>1, <2>2 DEF Live
  <1>4. PortfolioTyped'
    <2>1. instruments' \in [InstrumentId -> InstrumentRows \cup Absent]
      BY <1>0, <1>1, <1>2
    <2> QED BY <1>0, <2>1 DEF PortfolioInv, PortfolioTyped, requestVars, InstrumentRows
  <1>5. RowsAge
    BY <1>0, <1>3 DEF RowsAge, Live
  <1>6. TableInv'
    <2>1. ASSUME NEW b \in AccountId, GetAccount(b)'
          PROVE  GetPortfolio(accounts[b].portfolio)'
      BY <1>0, <2>1 DEF PortfolioInv, TableInv, GetAccount, GetPortfolio, Live
    <2>2. ASSUME NEW s \in SnapshotId
          PROVE  SnapshotStands(s)'
      <3>1. CASE Live(snapshots, s)
        BY <1>0, <1>5, <3>1, AgeKeepsSnapshot
           DEF PortfolioInv, TableInv, SnapshotStands, GetPortfolioSnapshot, GetPortfolio, GetAccount
      <3>2. CASE ~ Live(snapshots, s)
        BY <1>0, <3>2 DEF SnapshotStands, GetPortfolioSnapshot
      <3> QED BY <3>1, <3>2
    <2>3. IdentifiersNameOne'
      BY <1>3 DEF PortfolioInv, TableInv, IdentifiersNameOne
    <2> QED BY <1>0, <2>1, <2>2, <2>3, CorrectionsKeep DEF PortfolioInv, TableInv
  <1>7. ASSUME NEW v \in Editor
        PROVE  OpenSnapshotHolds(v)' /\ EntriesAreFree(v)'
    <2>1. Same(v)
      BY <1>0 DEF Same, requestVars
    <2>2. \A e : Taken(e)' => Taken(e)
      BY <1>3 DEF Taken
    <2> QED BY <1>0, <2>1, <2>2, OpenKeeps, OpenFacts, FreeKeeps
  <1> QED BY <1>0, <1>4, <1>5, <1>6, <1>7, HandlerKeeps

\* The reply to a request that is not a snapshot's.
LEMMA CreatedReply ==
  ASSUME PortfolioInv, NEW w \in Editor, PReply(w, "created"), ~ Asks(w, "snapshot")
  PROVE  /\ pPhase' \in [Editor -> PPhase] /\ pRequest' \in [Editor -> PRequest \cup {NothingAsked}]
         /\ pRow' \in [Editor -> SnapshotId \cup {NoSnapshot}] /\ pDone' \in [Editor -> Nat]
         /\ pAnswer' \in [Editor -> PAnswers]
         /\ EditorInv(w)' /\ (w \notin Inserting)'
         /\ \A v \in Editor \ {w} : Same(v)
  <1>1. /\ pPhase' = [pPhase EXCEPT ![w] = "idle"]
        /\ pAnswer' = [pAnswer EXCEPT ![w] = "created"]
        /\ pDone' = [pDone EXCEPT ![w] = 0]
        /\ pRequest' = [pRequest EXCEPT ![w] = NothingAsked]
        /\ pRow' = [pRow EXCEPT ![w] = NoSnapshot]
    BY DEF PReply, Asks
  <1>2. pPhase' \in [Editor -> PPhase]
    BY <1>1, OwnTypes DEF PPhase
  <1>3. pRequest' \in [Editor -> PRequest \cup {NothingAsked}]
    BY <1>1, OwnTypes
  <1>4. pRow' \in [Editor -> SnapshotId \cup {NoSnapshot}] /\ pDone' \in [Editor -> Nat]
    BY <1>1, OwnTypes
  <1>5. pAnswer' \in [Editor -> PAnswers]
    BY <1>1, OwnTypes DEF PAnswers
  <1>6. EditorInv(w)'
    BY <1>1, OwnTypes, AnsweredKeeps
  <1>7. (w \notin Inserting)' /\ \A v \in Editor \ {w} : Same(v)
    BY <1>1, OwnTypes DEF Inserting, Same
  <1> QED BY <1>2, <1>3, <1>4, <1>5, <1>6, <1>7

LEMMA InsertAccountStep ==
  ASSUME PortfolioInv, NEW w \in Editor, InsertAccount(w)
  PROVE  PortfolioInv' /\ RowsAge
  <1>0. pPhase[w] = "account" /\ UNCHANGED <<portfolios, instruments, snapshots>>
    BY DEF InsertAccount
  <1>1. pRequest[w] \in PRequest /\ Asks(w, "account")
    BY <1>0, UnderWay DEF RequestIsKnown
  <1>2. CASE PReply(w, "conflict") /\ UNCHANGED accounts
    BY <1>0, <1>2, RefusalKeeps DEF PAnswers, tables, RowsAge, Live
  <1>3. CASE GetPortfolio(pRequest[w].portfolio) /\ ~ NameTakenIn(pRequest[w].portfolio, pRequest[w].name, NoSnapshot)
    <2>1. PICK p, n : p = pRequest[w].portfolio /\ n = pRequest[w].name
      OBVIOUS
    <2>2. p \in PortfolioId /\ n \in AccountName /\ Live(portfolios, p)
      BY <1>1, <1>3, <2>1, RequestFacts DEF Asks, GetPortfolio
    <2>3. PICK a \in AccountId : /\ Unused(accounts, a)
                                 /\ accounts' = [accounts EXCEPT ![a] = [portfolio |-> p, name |-> n]]
      BY <1>3, <2>1 DEF InsertAccount
    <2>4. PReply(w, "created")
      BY <1>3 DEF InsertAccount
    <2>5. accounts \in [AccountId -> AccountRows \cup Absent] /\ accounts[a] = NeverUsed
      BY <2>3, Typing DEF PortfolioInv, Unused
    <2>6. /\ \A b \in AccountId : b # a => accounts'[b] = accounts[b]
          /\ Live(accounts', a) /\ accounts'[a].portfolio = p
      BY <2>3, <2>5, AbsentFacts DEF Live
    <2>7. \A b \in AccountId : Live(accounts, b) => b # a /\ Live(accounts', b)
      BY <2>5, <2>6 DEF Live, Absent
    <2>8. PortfolioTyped'
      <3>1. accounts' \in [AccountId -> AccountRows \cup Absent]
        BY <2>2, <2>3, <2>5 DEF AccountRows
      <3> QED BY <1>0, <1>1, <2>4, <3>1, CreatedReply
              DEF PortfolioInv, PortfolioTyped, AccountRows, Asks
    <2>9. RowsAge
      BY <1>0, <2>5, <2>6 DEF RowsAge, Live
    <2>10. TableInv'
      <3>1. ASSUME NEW b \in AccountId, GetAccount(b)'
            PROVE  GetPortfolio(accounts[b].portfolio)'
        BY <1>0, <2>2, <2>6, <3>1 DEF PortfolioInv, TableInv, GetAccount, GetPortfolio, Live
      <3>2. ASSUME NEW s \in SnapshotId
            PROVE  SnapshotStands(s)'
        <4>1. CASE Live(snapshots, s)
          BY <1>0, <2>7, <2>9, <4>1, AgeKeepsSnapshot, StoredFacts
             DEF PortfolioInv, TableInv, SnapshotStands, GetPortfolioSnapshot, GetPortfolio,
                 GetAccount
        <4>2. CASE ~ Live(snapshots, s)
          BY <1>0, <4>2 DEF SnapshotStands, GetPortfolioSnapshot
        <4> QED BY <4>1, <4>2
      <3> QED BY <1>0, <3>1, <3>2, CorrectionsKeep, IdentifiersKeep DEF PortfolioInv, TableInv
    <2>11. EditorInv(w)' /\ (w \notin Inserting)' /\ \A v \in Editor \ {w} : Same(v)
      BY <1>1, <2>4, CreatedReply DEF Asks
    <2>12. ASSUME NEW v \in Editor \ {w}
           PROVE  OpenSnapshotHolds(v)' /\ EntriesAreFree(v)'
      BY <1>0, <2>7, <2>11, OpenKeeps, OpenFacts, FreeKeeps DEF Taken, Live
    <2>13. {w} \in SUBSET Editor
      OBVIOUS
    <2> QED BY <2>8, <2>9, <2>10, <2>11, <2>12, <2>13, AgeKeeps
  <1> QED BY <1>2, <1>3 DEF InsertAccount

LEMMA CommitInstrumentStep ==
  ASSUME PortfolioInv, NEW w \in Editor, CommitInstrument(w)
  PROVE  PortfolioInv' /\ RowsAge
  <1>0. /\ pPhase[w] = "commit" /\ Asks(w, "instrument") /\ PReply(w, "created")
        /\ UNCHANGED <<portfolios, accounts, snapshots>>
    BY DEF CommitInstrument, Asks
  <1>1. PICK r : r = pRequest[w]
    OBVIOUS
  <1>2. /\ r \in PRequest /\ r.type \in InstrumentType /\ r.status \in Status
        /\ r.entries \in Seq(Entry) /\ DOMAIN r.entries = 1 .. Len(r.entries)
        /\ w \in Inserting /\ pDone[w] = Len(r.entries)
    BY <1>0, <1>1, UnderWay, RequestFacts DEF Asks, LoopIsInside, Inserting
  <1>3. ToSet(r.entries) = Entered(w) /\ ToSet(r.entries) \subseteq Entry
    BY <1>0, <1>1, <1>2 DEF ToSet, Entered, Asks
  <1>4. PICK i \in InstrumentId :
           /\ instruments[i] = NeverUsed
           /\ instruments' = [instruments EXCEPT ![i] =
                 [type |-> r.type, status |-> r.status, entries |-> ToSet(r.entries)]]
    BY <1>1 DEF CommitInstrument
  <1>5. instruments \in [InstrumentId -> InstrumentRows \cup Absent]
    BY Typing DEF PortfolioInv
  <1>6. /\ \A j \in InstrumentId : j # i => instruments'[j] = instruments[j]
        /\ Live(instruments', i) /\ ~ Live(instruments, i)
        /\ instruments'[i].entries = Entered(w)
    BY <1>3, <1>4, <1>5, AbsentFacts DEF Live, Absent
  <1>7. PortfolioTyped'
    <2>1. instruments' \in [InstrumentId -> InstrumentRows \cup Absent]
      BY <1>2, <1>3, <1>4, <1>5 DEF InstrumentRows
    <2> QED BY <1>0, <2>1, CreatedReply DEF PortfolioInv, PortfolioTyped, InstrumentRows, Asks
  <1>8. RowsAge
    BY <1>0, <1>6 DEF RowsAge, Live
  <1>9. TableInv'
    <2>1. ASSUME NEW b \in AccountId, GetAccount(b)'
          PROVE  GetPortfolio(accounts[b].portfolio)'
      BY <1>0, <2>1 DEF PortfolioInv, TableInv, GetAccount, GetPortfolio, Live
    <2>2. ASSUME NEW s \in SnapshotId
          PROVE  SnapshotStands(s)'
      <3>1. CASE Live(snapshots, s)
        BY <1>0, <1>8, <3>1, AgeKeepsSnapshot
           DEF PortfolioInv, TableInv, SnapshotStands, GetPortfolioSnapshot, GetPortfolio, GetAccount
      <3>2. CASE ~ Live(snapshots, s)
        BY <1>0, <3>2 DEF SnapshotStands, GetPortfolioSnapshot
      <3> QED BY <3>1, <3>2
    <2>3. IdentifiersNameOne'
      <3>1. \A j \in InstrumentId : Live(instruments, j) => instruments[j].entries \cap Entered(w) = {}
        BY <1>0, <1>2, UnderWay DEF EntriesAreFree, Taken
      <3>2. \A j \in InstrumentId : j # i /\ Live(instruments', j) =>
               Live(instruments, j) /\ instruments'[j].entries = instruments[j].entries
        BY <1>6 DEF Live
      <3> QED BY <1>6, <3>1, <3>2 DEF PortfolioInv, TableInv, IdentifiersNameOne
    <2> QED BY <1>0, <2>1, <2>2, <2>3, CorrectionsKeep DEF PortfolioInv, TableInv
  <1>10. EditorInv(w)' /\ (w \notin Inserting)' /\ \A v \in Editor \ {w} : Same(v)
    BY <1>0, CreatedReply DEF Asks
  <1>11. ASSUME NEW v \in Editor \ {w}
         PROVE  OpenSnapshotHolds(v)' /\ EntriesAreFree(v)'
    <2>1. OpenSnapshotHolds(v)'
      BY <1>0, <1>10, OpenKeeps, OpenFacts
    <2>2. CASE v \in Inserting
      <3>1. Entered(v) \cap Entered(w) = {}
        BY <1>2, <2>2 DEF PortfolioInv, OpenAreApart
      <3>2. \A e \in Entered(v) : Taken(e)' => Taken(e)
        BY <1>6, <3>1 DEF Taken, Live
      <3> QED BY <1>10, <2>1, <3>2, FreeKeeps
    <2>3. CASE v \notin Inserting
      BY <1>10, <2>1, <2>3 DEF EntriesAreFree, Inserting, Same
    <2> QED BY <2>2, <2>3
  <1>12. {w} \in SUBSET Editor
    OBVIOUS
  <1> QED BY <1>7, <1>8, <1>9, <1>10, <1>11, <1>12, AgeKeeps

\* A new snapshot closes no chain: nothing supersedes it yet, and it supersedes
\* one that was there before.
LEMMA CorrectionAdded ==
  ASSUME PortfolioTyped, CorrectionsEnd, NEW new \in SnapshotId, ~ Live(snapshots, new),
         NEW row \in SnapshotRows, snapshots' = [snapshots EXCEPT ![new] = row],
         row.supersedes # NoSnapshot =>
            Live(snapshots, row.supersedes) /\ snapshots[row.supersedes].portfolio = row.portfolio
  PROVE  CorrectionsEnd'
  <1>0. snapshots \in [SnapshotId -> SnapshotRows \cup Absent]
    BY Typing
  <1>1. /\ \A s \in SnapshotId : s # new => snapshots'[s] = snapshots[s]
        /\ snapshots'[new] = row /\ Live(snapshots', new)
    BY <1>0, RowsAreLive DEF Live
  <1>2. row.supersedes \in SnapshotId \cup {NoSnapshot} /\ row.supersedes # new
    <2>1. row.supersedes \in SnapshotId \cup {NoSnapshot}
      BY DEF SnapshotRows
    <2> QED BY <2>1, PortfolioAssumption
  <1> DEFINE stored == {s \in SnapshotId : Live(snapshots, s)}
  <1>3. {s \in SnapshotId : Live(snapshots', s)} = stored \cup {new}
    BY <1>1 DEF Live
  <1>4. /\ \A S \in SUBSET stored : S # {} => \E s \in S : snapshots[s].supersedes \notin S
        /\ \A s \in stored : snapshots[s].supersedes # NoSnapshot =>
              /\ snapshots[s].supersedes \in stored
              /\ snapshots[snapshots[s].supersedes].portfolio = snapshots[s].portfolio
    BY DEF CorrectionsEnd, GetPortfolioSnapshot
  <1>5. \A s \in stored : s # new /\ snapshots'[s] = snapshots[s] /\ snapshots[s].supersedes # new
    <2>1. \A s \in stored : s # new /\ snapshots'[s] = snapshots[s]
      BY <1>1
    <2>2. new # NoSnapshot
      BY PortfolioAssumption
    <2> QED BY <1>4, <2>1, <2>2
  <1>6. ASSUME NEW S \in SUBSET (stored \cup {new}), S # {}
        PROVE  \E s \in S : snapshots'[s].supersedes \notin S
    <2>1. CASE S \ {new} = {}
      BY <1>1, <1>2, <1>6, <2>1
    <2>2. CASE S \ {new} # {}
      <3>1. PICK s \in S \ {new} : snapshots[s].supersedes \notin S \ {new}
        <4>1. S \ {new} \in SUBSET stored
          OBVIOUS
        <4> QED BY <1>4, <2>2, <4>1
      <3>2. s \in stored
        OBVIOUS
      <3> QED BY <1>5, <3>1, <3>2
    <2> QED BY <2>1, <2>2
  <1>7. ASSUME NEW s \in stored \cup {new}, snapshots'[s].supersedes # NoSnapshot
        PROVE  /\ snapshots'[s].supersedes \in stored \cup {new}
               /\ snapshots'[snapshots'[s].supersedes].portfolio = snapshots'[s].portfolio
    <2>1. CASE s = new
      BY <1>1, <1>2, <1>7, <2>1
    <2>2. CASE s # new
      BY <1>4, <1>5, <1>7, <2>2
    <2> QED BY <2>1, <2>2
  <1> HIDE DEF stored
  <1> QED BY <1>3, <1>6, <1>7 DEF CorrectionsEnd, GetPortfolioSnapshot

LEMMA CommitSnapshotStep ==
  ASSUME PortfolioInv, NEW w \in Editor, CommitSnapshot(w)
  PROVE  PortfolioInv' /\ RowsAge
  <1>0. /\ pPhase[w] = "commit" /\ Asks(w, "snapshot") /\ PReply(w, "created")
        /\ UNCHANGED <<portfolios, accounts, instruments>>
    BY DEF CommitSnapshot, Asks
  <1>1. PICK r, new : r = pRequest[w] /\ new = pRow[w]
    OBVIOUS
  <1>2. /\ r \in PRequest /\ r.op = "snapshot" /\ r.portfolio \in PortfolioId
        /\ r.supersedes \in SnapshotId \cup {NoSnapshot}
        /\ r.lines \in Seq(LineInput) /\ DOMAIN r.lines = 1 .. Len(r.lines)
        /\ pDone[w] = Len(r.lines)
    BY <1>0, <1>1, UnderWay, RequestFacts DEF Asks, LoopIsInside
  <1>3. /\ new \in SnapshotId /\ snapshots[new] = NeverUsed /\ Live(portfolios, r.portfolio)
        /\ \A n \in DOMAIN r.lines : Live(accounts, r.lines[n].account)
        /\ w \in Inserting
    BY <1>0, <1>1, <1>2, OpenFacts
  <1>4. /\ \A n \in DOMAIN r.lines : LineWasValid(r.portfolio, r.lines[n])
        /\ \A m, n \in DOMAIN r.lines : SameLine(r.lines[m], r.lines[n]) => m = n
    BY <1>0, <1>1, UnderWay DEF LinesArePrepared, Prepared, Building
  <1>5. r.supersedes # NoSnapshot =>
           Live(snapshots, r.supersedes) /\ snapshots[r.supersedes].portfolio = r.portfolio
    BY <1>0, <1>1, UnderWay DEF SupersededStands, Building, GetPortfolioSnapshot
  <1>6. PICK row : row = [portfolio |-> r.portfolio, supersedes |-> r.supersedes, lines |-> r.lines]
    OBVIOUS
  <1>7. snapshots' = [snapshots EXCEPT ![new] = row]
    <2>1. SubSeq(r.lines, 1, pDone[w]) = r.lines
      BY <1>2
    <2> QED BY <1>1, <1>6, <2>1 DEF CommitSnapshot
  <1>8. /\ row \in SnapshotRows /\ row.portfolio = r.portfolio
        /\ row.supersedes = r.supersedes /\ row.lines = r.lines
    BY <1>2, <1>6 DEF SnapshotRows
  <1>9. snapshots \in [SnapshotId -> SnapshotRows \cup Absent]
    BY Typing DEF PortfolioInv
  <1>10. /\ \A s \in SnapshotId : s # new => snapshots'[s] = snapshots[s]
         /\ snapshots'[new] = row /\ Live(snapshots', new) /\ ~ Live(snapshots, new)
    BY <1>3, <1>7, <1>8, <1>9, RowsAreLive DEF Live, Absent
  <1>11. /\ pPhase' = [pPhase EXCEPT ![w] = "idle"]
         /\ pAnswer' = [pAnswer EXCEPT ![w] = "created"]
         /\ pDone' = [pDone EXCEPT ![w] = 0]
         /\ UNCHANGED <<pRequest, pRow>>
    BY <1>0 DEF PReply, Asks
  <1>12. PortfolioTyped'
    <2>1. pPhase' \in [Editor -> PPhase]
      BY <1>11, OwnTypes DEF PPhase
    <2>2. pDone' \in [Editor -> Nat]
      BY <1>11, OwnTypes
    <2>3. pAnswer' \in [Editor -> PAnswers]
      BY <1>11, OwnTypes DEF PAnswers
    <2>4. snapshots' \in [SnapshotId -> SnapshotRows \cup Absent]
      BY <1>7, <1>8, <1>9
    <2> QED BY <1>0, <1>11, <2>1, <2>2, <2>3, <2>4, OwnTypes
            DEF PortfolioInv, PortfolioTyped, SnapshotRows
  <1>13. RowsAge
    BY <1>0, <1>10 DEF RowsAge, Live
  <1>14. TableInv'
    <2>1. ASSUME NEW b \in AccountId, GetAccount(b)'
          PROVE  GetPortfolio(accounts[b].portfolio)'
      BY <1>0, <2>1 DEF PortfolioInv, TableInv, GetAccount, GetPortfolio, Live
    <2>2. ASSUME NEW s \in SnapshotId
          PROVE  SnapshotStands(s)'
      <3>1. CASE s = new
        BY <1>0, <1>3, <1>4, <1>8, <1>10, <3>1
           DEF SnapshotStands, LineWasValid, GetPortfolio, GetAccount, GetPortfolioInstrument, Live
      <3>2. CASE s # new /\ Live(snapshots, s)
        BY <1>0, <1>13, <3>2, AgeKeepsSnapshot
           DEF PortfolioInv, TableInv, SnapshotStands, GetPortfolioSnapshot, GetPortfolio, GetAccount
      <3>3. CASE s # new /\ ~ Live(snapshots, s)
        BY <1>10, <3>3 DEF SnapshotStands, GetPortfolioSnapshot, Live
      <3> QED BY <3>1, <3>2, <3>3
    <2>3. CorrectionsEnd'
      BY <1>3, <1>5, <1>7, <1>8, <1>10, CorrectionAdded DEF PortfolioInv, TableInv
    <2> QED BY <1>0, <2>1, <2>2, <2>3, IdentifiersKeep DEF PortfolioInv, TableInv
  <1>15. EditorInv(w)' /\ (w \notin Inserting)'
    <2>1. pPhase'[w] = "idle" /\ pDone'[w] = 0 /\ pAnswer'[w] = "created" /\ pRequest'[w] = r
          /\ pRow'[w] = new
      BY <1>1, <1>11, OwnTypes
    <2>2. (w \notin Inserting)'
      BY <2>1 DEF Inserting
    <2>3. RequestIsKnown(w)' /\ LoopIsInside(w)'
      BY <1>2, <2>1 DEF RequestIsKnown, LoopIsInside, Asks
    <2>4. LinesArePrepared(w)' /\ SupersededStands(w)' /\ OpenSnapshotHolds(w)' /\ EntriesAreFree(w)'
      BY <2>1, <2>2 DEF LinesArePrepared, SupersededStands, OpenSnapshotHolds, EntriesAreFree, Building
    <2>5. CreatedIsStored(w)'
      BY <1>3, <1>8, <1>10, <2>1 DEF CreatedIsStored, GetPortfolioSnapshot
    <2> QED BY <2>2, <2>3, <2>4, <2>5 DEF EditorInv
  <1>16. ASSUME NEW v \in Editor \ {w}
         PROVE  Same(v) /\ OpenSnapshotHolds(v)' /\ EntriesAreFree(v)'
    <2>1. Same(v)
      BY <1>11, OwnTypes DEF Same
    <2>2. pPhase[v] \in {"lines", "commit"} /\ Asks(v, "snapshot") => pRow[v] # new
      BY <1>0, <1>1, <1>3, OpenFacts DEF PortfolioInv, OpenAreApart
    <2>3. OpenSnapshotHolds(v)'
      BY <1>0, <1>10, <2>1, <2>2, OpenKeeps, OpenFacts
    <2>4. EntriesAreFree(v)'
      BY <1>0, <2>1, FreeKeeps DEF Taken, Live
    <2> QED BY <2>1, <2>3, <2>4
  <1>17. {w} \in SUBSET Editor
    OBVIOUS
  <1> QED BY <1>12, <1>13, <1>14, <1>15, <1>16, <1>17, AgeKeeps

-----------------------------------------------------------------------------
(* The theorems.                                                           *)

LEMMA PortfolioInitInv == PortfolioInit => PortfolioInv
  <1> SUFFICES ASSUME PortfolioInit PROVE PortfolioInv
    OBVIOUS
  <1>1. /\ \A a \in AccountId : ~ GetAccount(a)
        /\ \A i \in InstrumentId : ~ Live(instruments, i)
        /\ \A s \in SnapshotId : ~ GetPortfolioSnapshot(s)
    BY DEF PortfolioInit, GetAccount, GetPortfolioSnapshot, Live, Absent
  <1>2. PortfolioTyped
    BY DEF PortfolioInit, PortfolioTyped, Absent, PPhase, PAnswers
  <1>3. CorrectionsEnd
    BY <1>1 DEF CorrectionsEnd
  <1>4. TableInv
    BY <1>1, <1>3 DEF TableInv, SnapshotStands, IdentifiersNameOne
  <1>5. ASSUME NEW w \in Editor
        PROVE  EditorInv(w) /\ w \notin Inserting
    <2>1. pPhase[w] = "idle" /\ pRequest[w] = NothingAsked /\ pDone[w] = 0
          /\ pAnswer[w] = "none"
      BY DEF PortfolioInit
    <2>2. w \notin Inserting
      BY <2>1 DEF Inserting
    <2> QED BY <2>1, <2>2
            DEF EditorInv, RequestIsKnown, LoopIsInside, LinesArePrepared, SupersededStands,
                OpenSnapshotHolds, EntriesAreFree, CreatedIsStored, Building
  <1> QED BY <1>2, <1>4, <1>5 DEF PortfolioInv, OpenAreApart

LEMMA PortfolioStutter ==
  ASSUME PortfolioInv, UNCHANGED portfolioVars
  PROVE  PortfolioInv'
  <1>1. UNCHANGED tables /\ \A v \in Editor : Same(v)
    BY DEF portfolioVars, tables, Same
  <1>2. PortfolioTyped'
    BY DEF PortfolioInv, PortfolioTyped, portfolioVars
  <1> QED BY <1>1, <1>2, TablesKeep, SameKeeps, SameAreApart DEF PortfolioInv

LEMMA PortfolioNextInv ==
  ASSUME PortfolioInv, [PortfolioNext]_portfolioVars
  PROVE  PortfolioInv'
  <1>1. CASE \E p \in PortfolioId, c \in Currency : CreatePortfolio(p, c) \/ UpdatePortfolio(p, c)
    BY <1>1, WritePortfolioStep
  <1>2. CASE \E p \in PortfolioId : DeletePortfolio(p)
    BY <1>2, DeletePortfolioStep
  <1>3. CASE \E a \in AccountId : DeleteAccount(a) \/ \E n \in AccountName : UpdateAccount(a, n)
    BY <1>3, DeleteAccountStep, UpdateAccountStep
  <1>4. CASE \E i \in InstrumentId, st \in Status : UpdateInstrumentStatus(i, st)
    BY <1>4, UpdateInstrumentStep
  <1>5. CASE \E w \in Editor : (\E r \in PRequest : PSend(w, r)) \/ PStep(w) \/ PFail(w)
    BY <1>5, SendStep, FailStep, CheckAccountStep, InsertAccountStep, InsertEntryStep,
       CommitInstrumentStep, CheckSnapshotStep, PrepareLineStep, InsertSnapshotStep,
       InsertLineStep, CommitSnapshotStep DEF PStep
  <1>6. CASE UNCHANGED portfolioVars
    BY <1>6, PortfolioStutter
  <1> QED BY <1>1, <1>2, <1>3, <1>4, <1>5, <1>6 DEF PortfolioNext

\* Whatever requests interleave, fail or are answered, what a statement of
\* CreateSnapshot or CreateInstrument relies on holds when it runs.
THEOREM PortfolioFits == PortfolioSpec => []PortfolioInv
  <1>1. PortfolioInit => PortfolioInv
    BY PortfolioInitInv
  <1>2. PortfolioInv /\ [PortfolioNext]_portfolioVars => PortfolioInv'
    BY PortfolioNextInv
  <1> QED BY <1>1, <1>2, PTL DEF PortfolioSpec

\* Tables and requests hold values of their types, and the id of an open
\* snapshot shows no row before its transaction commits.
THEOREM PortfolioTypeCorrect == PortfolioSpec => []PortfolioTypeOK
  <1>1. PortfolioInv => PortfolioTypeOK
    <2> SUFFICES ASSUME PortfolioInv PROVE PortfolioTypeOK
      OBVIOUS
    <2>1. ASSUME NEW w \in Inserting, pRequest[w].op = "snapshot"
          PROVE  snapshots[pRow[w]] = NeverUsed
      <3>1. w \in Editor /\ pPhase[w] \in {"lines", "identifiers", "commit"}
        BY DEF Inserting
      <3>2. pPhase[w] # "identifiers"
        BY <2>1, <3>1, UnderWay DEF RequestIsKnown, Asks
      <3> QED BY <2>1, <3>1, <3>2, OpenFacts DEF Asks
    <2> QED BY <2>1 DEF PortfolioInv, PortfolioTypeOK
  <1> QED BY <1>1, PortfolioFits, PTL

LEMMA InvStands == PortfolioInv => SnapshotsStand
  <1> SUFFICES ASSUME PortfolioInv PROVE SnapshotsStand
    OBVIOUS
  <1>1. ReferencesHold
    BY DEF PortfolioInv, TableInv, ReferencesHold, SnapshotStands, Range
  <1>2. LinesFit
    BY DEF PortfolioInv, TableInv, LinesFit, SnapshotStands, LineWasValid, Range
  <1>3. CreatedAsSent
    BY DEF PortfolioInv, EditorInv, CreatedIsStored, CreatedAsSent, Asks
  <1>4. CorrectionsEnd /\ IdentifiersNameOne
    BY DEF PortfolioInv, TableInv
  <1> QED BY <1>1, <1>2, <1>3, <1>4 DEF SnapshotsStand

\* For every number of requests, rows and lines: a stored snapshot stands as its
\* client sent it, on a portfolio and accounts that are still there and fit it;
\* corrections form no cycle and identifiers name one instrument.
THEOREM SnapshotsHold == PortfolioSpec => []SnapshotsStand
  BY InvStands, PortfolioFits, PTL

\* No step takes an id for a second row, moves an account to another portfolio,
\* gives an instrument another type or touches a stored snapshot: what
\* CreateSnapshot has read before its transaction can only have been deleted.
THEOREM RowsOnlyAge == PortfolioSpec => [][RowsAge]_portfolioVars
  <1>1. UNCHANGED tables => RowsAge
    BY DEF tables, RowsAge, Live
  <1>2. PortfolioInv /\ [PortfolioNext]_portfolioVars => [RowsAge]_portfolioVars
    <2> SUFFICES ASSUME PortfolioInv, PortfolioNext PROVE RowsAge
      OBVIOUS
    <2>1. CASE \E p \in PortfolioId, c \in Currency : CreatePortfolio(p, c) \/ UpdatePortfolio(p, c)
      BY <2>1, WritePortfolioStep
    <2>2. CASE \E p \in PortfolioId : DeletePortfolio(p)
      BY <2>2, DeletePortfolioStep
    <2>3. CASE \E a \in AccountId : DeleteAccount(a) \/ \E n \in AccountName : UpdateAccount(a, n)
      BY <2>3, DeleteAccountStep, UpdateAccountStep
    <2>4. CASE \E i \in InstrumentId, st \in Status : UpdateInstrumentStatus(i, st)
      BY <2>4, UpdateInstrumentStep
    <2>5. CASE \E w \in Editor : InsertAccount(w) \/ CommitInstrument(w) \/ CommitSnapshot(w)
      BY <2>5, InsertAccountStep, CommitInstrumentStep, CommitSnapshotStep
    <2>6. CASE \E w \in Editor : (\E r \in PRequest : PSend(w, r)) \/ PFail(w)
      BY <1>1, <2>6 DEF PSend, PFail
    <2>7. CASE \E w \in Editor :
                  \/ CheckAccount(w) \/ InsertEntry(w) \/ CheckSnapshot(w)
                  \/ PrepareLine(w) \/ InsertSnapshot(w) \/ InsertLine(w)
      BY <1>1, <2>7 DEF CheckAccount, InsertEntry, CheckSnapshot, PrepareLine, InsertSnapshot,
                        InsertLine
    <2> QED BY <2>1, <2>2, <2>3, <2>4, <2>5, <2>6, <2>7 DEF PortfolioNext, PStep
  <1> QED BY <1>2, PortfolioFits, PTL DEF PortfolioSpec

-----------------------------------------------------------------------------
(*                                  SUMS                                   *)
-----------------------------------------------------------------------------
LEMMA LeastNatural ==
    ASSUME NEW T, T \subseteq Nat, T # {}
    PROVE  \E m \in T : \A n \in T : m <= n
<1>1. PICK R : R = OpToRel(<, Nat)
  OBVIOUS
<1>2. IsWellFoundedOn(R, Nat)
  BY <1>1, NatLessThanWellFounded
<1>3. PICK m \in T : \A n \in T : ~(<<n, m>> \in R)
  BY <1>2, WFMin
<1>4. ASSUME NEW n \in T PROVE m <= n
  <2>1. <<n, m>> \in R <=> n < m
    BY <1>1 DEF OpToRel
  <2> QED BY <1>3, <2>1
<1> QED BY <1>4

\* Induction over the subsets of a finite set: G holds of the empty set and
\* of a set with one element more.
LEMMA SubsetInduction ==
    ASSUME NEW S, IsFiniteSet(S), NEW G, {} \in G,
           \A T \in SUBSET S : \A x \in T : T \ {x} \in G => T \in G
    PROVE  \A T \in SUBSET S : T \in G
<1>1. PICK B : B = {T \in SUBSET S : T \notin G}
  OBVIOUS
<1>2. \A T \in SUBSET S : IsFiniteSet(T) /\ Cardinality(T) \in Nat
  BY FS_Subset, FS_CardinalityType
<1>3. SUFFICES ASSUME B # {} PROVE FALSE
  BY <1>1
<1>4. PICK N : N = {Cardinality(T) : T \in B}
  OBVIOUS
<1>5. N \subseteq Nat /\ N # {}
  BY <1>1, <1>2, <1>3, <1>4
<1>6. PICK m \in N : \A n \in N : m <= n
  BY <1>5, LeastNatural
<1>7. PICK T \in B : Cardinality(T) = m
  BY <1>4, <1>6
<1>8. PICK x : x \in T
  BY <1>1, <1>7
<1>9. /\ T \in SUBSET S /\ T \ {x} \in SUBSET S
      /\ Cardinality(T \ {x}) = Cardinality(T) - 1 /\ Cardinality(T) \in Nat
  BY <1>1, <1>2, <1>7, <1>8, FS_RemoveElement
<1>10. T \ {x} \in B
  BY <1>1, <1>7, <1>8, <1>9
<1>11. Cardinality(T) <= Cardinality(T \ {x})
  BY <1>4, <1>6, <1>7, <1>10
<1> QED BY <1>9, <1>11

Pick(s) == CHOOSE x \in s : TRUE

StepOf(f, g) == [s \in SUBSET DOMAIN f |-> IF s = {} THEN 0 ELSE f[Pick(s)] + g[s \ {Pick(s)}]]

LEMMA SumUnfolds ==
    ASSUME NEW f
    PROVE  SumFunction(f) = (CHOOSE g : g = StepOf(f, g))[DOMAIN f]
BY DEF SumFunction, SumFunctionOnSet, FoldFunctionOnSet, MapThenFoldSet, StepOf, Pick

\* The sums of the parts of f, and what is known of them.
Summed(f, g) == g \in [SUBSET DOMAIN f -> Int] /\ g = StepOf(f, g)

\* Up to n elements the sums can be written down.
UpTo(f, n) == {s \in SUBSET DOMAIN f : Cardinality(s) <= n}
Level(f, g, n) ==
    /\ g \in [UpTo(f, n) -> Int]
    /\ \A s \in UpTo(f, n) : g[s] = IF s = {} THEN 0 ELSE f[Pick(s)] + g[s \ {Pick(s)}]

LEMMA PickIs ==
    ASSUME NEW D, IsFiniteSet(D), NEW s \in SUBSET D, s # {}
    PROVE  /\ Pick(s) \in s /\ s \ {Pick(s)} \in SUBSET D
           /\ Cardinality(s) \in Nat
           /\ Cardinality(s \ {Pick(s)}) \in Nat
           /\ Cardinality(s \ {Pick(s)}) = Cardinality(s) - 1
<1>1. Pick(s) \in s
  BY DEF Pick
<1>2. IsFiniteSet(s) /\ Cardinality(s) \in Nat
  BY FS_Subset, FS_CardinalityType
<1>3. IsFiniteSet(s \ {Pick(s)}) /\ Cardinality(s \ {Pick(s)}) = Cardinality(s) - 1
  BY <1>1, <1>2, FS_RemoveElement
<1>4. Cardinality(s \ {Pick(s)}) \in Nat
  BY <1>3, FS_CardinalityType
<1> QED BY <1>1, <1>2, <1>3, <1>4

LEMMA NextLevel ==
    ASSUME NEW D, NEW f \in [D -> Int], IsFiniteSet(D), NEW n \in Nat, NEW g, Level(f, g, n)
    PROVE  \E h : Level(f, h, n + 1)
<1>1. PICK P, Q : P = UpTo(f, n) /\ Q = UpTo(f, n + 1)
  OBVIOUS
<1>2. PICK h : h = [s \in Q |-> IF s \in P THEN g[s] ELSE f[Pick(s)] + g[s \ {Pick(s)}]]
  OBVIOUS
<1>3. \A s \in Q : /\ s \in SUBSET D /\ Cardinality(s) \in Nat /\ Cardinality(s) <= n + 1
  BY <1>1, FS_Subset, FS_CardinalityType DEF UpTo
<1>4. ASSUME NEW s \in Q, s # {}
      PROVE  Pick(s) \in D /\ s \ {Pick(s)} \in P /\ s \ {Pick(s)} \in Q
  <2>1. s \in SUBSET D /\ Cardinality(s) \in Nat /\ Cardinality(s) <= n + 1
    BY <1>3
  <2>2. /\ Pick(s) \in s /\ s \ {Pick(s)} \in SUBSET D
        /\ Cardinality(s \ {Pick(s)}) = Cardinality(s) - 1
    BY <1>4, <2>1, PickIs
  <2>3. Cardinality(s \ {Pick(s)}) <= n /\ Cardinality(s \ {Pick(s)}) <= n + 1
    BY <2>1, <2>2
  <2> QED BY <1>1, <2>1, <2>2, <2>3 DEF UpTo
<1>5. {} \in P /\ {} \in Q
  BY <1>1, FS_EmptySet DEF UpTo
<1>6. /\ g \in [P -> Int]
      /\ \A s \in P : g[s] = IF s = {} THEN 0 ELSE f[Pick(s)] + g[s \ {Pick(s)}]
  BY <1>1 DEF Level
<1>7. ASSUME NEW s \in Q
      PROVE  h[s] \in Int /\ h[s] = IF s = {} THEN 0 ELSE f[Pick(s)] + h[s \ {Pick(s)}]
  <2>1. CASE s = {}
    <3>1. h[s] = g[s] /\ g[s] = 0
      BY <1>2, <1>5, <1>6, <2>1
    <3> QED BY <2>1, <3>1
  <2>2. CASE s # {}
    <3>1. Pick(s) \in D /\ s \ {Pick(s)} \in P /\ s \ {Pick(s)} \in Q
      BY <1>4, <2>2
    <3>2. h[s \ {Pick(s)}] = g[s \ {Pick(s)}] /\ g[s \ {Pick(s)}] \in Int /\ f[Pick(s)] \in Int
      BY <1>2, <1>6, <3>1
    <3>3. h[s] = f[Pick(s)] + g[s \ {Pick(s)}]
      BY <1>2, <1>6, <2>2
    <3> QED BY <2>2, <3>2, <3>3
  <2> QED BY <2>1, <2>2
<1>8. h \in [Q -> Int]
  BY <1>2, <1>7
<1> QED BY <1>1, <1>7, <1>8 DEF Level

LEMMA SumsExist ==
    ASSUME NEW D, NEW f \in [D -> Int], IsFiniteSet(D)
    PROVE  \E g : Summed(f, g)
<1>1. PICK B : B = {n \in Nat : ~\E g : Level(f, g, n)}
  OBVIOUS
<1>2. DOMAIN f = D
  OBVIOUS
<1>3. \E g : Level(f, g, 0)
  <2>1. PICK g : g = [s \in {{}} |-> 0]
    OBVIOUS
  <2>2. UpTo(f, 0) = {{}}
    <3>1. \A s \in SUBSET D : Cardinality(s) \in Nat /\ (Cardinality(s) = 0 <=> s = {})
      BY FS_Subset, FS_CardinalityType, FS_EmptySet
    <3>2. \A s \in SUBSET D : Cardinality(s) <= 0 <=> s = {}
      BY <3>1
    <3> QED BY <1>2, <3>2 DEF UpTo
  <2>3. g \in [{{}} -> Int]
    BY <2>1
  <2>4. \A s \in {{}} : s = {} /\ g[s] = 0
    BY <2>1
  <2> QED BY <2>2, <2>3, <2>4 DEF Level
<1>4. B = {}
  <2> SUFFICES ASSUME B # {} PROVE FALSE
    OBVIOUS
  <2>1. B \subseteq Nat
    BY <1>1
  <2>2. PICK m \in B : \A n \in B : m <= n
    BY <2>1, LeastNatural
  <2>3. m # 0 /\ m \in Nat
    BY <1>1, <1>3, <2>2
  <2>4. m - 1 \in Nat /\ m - 1 \notin B
    BY <2>1, <2>2, <2>3
  <2>5. PICK g : Level(f, g, m - 1)
    BY <1>1, <2>4
  <2>6. \E h : Level(f, h, (m - 1) + 1)
    BY <2>4, <2>5, NextLevel
  <2>7. (m - 1) + 1 = m
    BY <2>3
  <2> QED BY <1>1, <2>2, <2>6, <2>7
<1>5. Cardinality(D) \in Nat
  BY FS_CardinalityType
<1>6. PICK g : Level(f, g, Cardinality(D))
  BY <1>1, <1>4, <1>5
<1>7. UpTo(f, Cardinality(D)) = SUBSET D
  <2>1. \A s \in SUBSET D : Cardinality(s) <= Cardinality(D)
    BY FS_Subset
  <2> QED BY <1>2, <2>1 DEF UpTo
<1>8. g \in [SUBSET D -> Int] /\ g = StepOf(f, g)
  BY <1>2, <1>6, <1>7 DEF Level, StepOf
<1> QED BY <1>2, <1>8 DEF Summed

\* There is only one way to sum up.
LEMMA SumsAgree ==
    ASSUME NEW D, NEW f \in [D -> Int], IsFiniteSet(D), NEW g, Summed(f, g), NEW h, h = StepOf(f, h)
    PROVE  h = g
<1>0. DOMAIN f = D
  OBVIOUS
<1>1. PICK G : G = {s \in SUBSET D : h[s] = g[s]}
  OBVIOUS
<1>2. \A s \in SUBSET D : /\ g[s] = IF s = {} THEN 0 ELSE f[Pick(s)] + g[s \ {Pick(s)}]
                          /\ h[s] = IF s = {} THEN 0 ELSE f[Pick(s)] + h[s \ {Pick(s)}]
  BY <1>0 DEF Summed, StepOf
<1>3. \A s \in SUBSET D : s # {} => Pick(s) \in s
  BY DEF Pick
<1>4. \A s \in SUBSET D : s # {} /\ s \ {Pick(s)} \in G => s \in G
  BY <1>1, <1>2
<1>5. \A s \in SUBSET D : s \in G
  <2>1. PICK B : B = {s \in SUBSET D : s \notin G}
    OBVIOUS
  <2> SUFFICES ASSUME B # {} PROVE FALSE
    BY <2>1
  <2>2. \A s \in SUBSET D : Cardinality(s) \in Nat
    BY FS_Subset, FS_CardinalityType
  <2>3. PICK N : N = {Cardinality(s) : s \in B}
    OBVIOUS
  <2>4. N \subseteq Nat /\ N # {}
    BY <2>1, <2>2, <2>3
  <2>5. PICK m \in N : \A n \in N : m <= n
    BY <2>4, LeastNatural
  <2>6. PICK s \in B : Cardinality(s) = m
    BY <2>3, <2>5
  <2>7. s # {}
    BY <1>1, <1>2, <2>1, <2>6
  <2>8. /\ s \ {Pick(s)} \in SUBSET D /\ Cardinality(s) \in Nat
        /\ Cardinality(s \ {Pick(s)}) = Cardinality(s) - 1
    BY <2>1, <2>6, <2>7, PickIs
  <2>9. s \ {Pick(s)} \in B
    BY <1>4, <2>1, <2>6, <2>7, <2>8
  <2>10. Cardinality(s) <= Cardinality(s \ {Pick(s)})
    BY <2>3, <2>5, <2>6, <2>9
  <2> QED BY <2>8, <2>10
<1>6. \A s \in SUBSET D : h[s] = g[s]
  BY <1>1, <1>5
<1>7. h = [s \in SUBSET D |-> h[s]] /\ g = [s \in SUBSET D |-> g[s]]
  BY <1>0 DEF Summed, StepOf
<1> QED BY <1>6, <1>7

LEMMA SumIs ==
    ASSUME NEW D, NEW f \in [D -> Int], IsFiniteSet(D), NEW g, Summed(f, g)
    PROVE  SumFunction(f) = g[D]
<1>1. PICK h : h = CHOOSE k : k = StepOf(f, k)
  OBVIOUS
<1>2. g = StepOf(f, g)
  BY DEF Summed
<1>3. h = StepOf(f, h)
  BY <1>1, <1>2
<1>4. h = g
  BY <1>3, SumsAgree
<1> QED BY <1>1, <1>4, SumUnfolds

\* g sums up the parts of f, taken in any order.
Adds(D, f, g) ==
    /\ g[{}] = 0
    /\ \A s \in SUBSET D : g[s] \in Int
    /\ \A s \in SUBSET D : \A x \in s : g[s] = f[x] + g[s \ {x}]

LEMMA SumSplits ==
    ASSUME NEW D, NEW f \in [D -> Int], IsFiniteSet(D), NEW g, Summed(f, g)
    PROVE  Adds(D, f, g)
<1>0. DOMAIN f = D /\ {} \in SUBSET D
  OBVIOUS
<1>1. /\ g[{}] = 0
      /\ \A s \in SUBSET D : g[s] \in Int
      /\ \A s \in SUBSET D : s # {} => g[s] = f[Pick(s)] + g[s \ {Pick(s)}]
  BY <1>0 DEF Summed, StepOf
<1>2. PICK G : G = {s \in SUBSET D : \A x \in s : g[s] = f[x] + g[s \ {x}]}
  OBVIOUS
<1>3. PICK B : B = {s \in SUBSET D : s \notin G}
  OBVIOUS
<1>4. B = {}
  <2> SUFFICES ASSUME B # {} PROVE FALSE
    OBVIOUS
  <2>1. \A s \in SUBSET D : IsFiniteSet(s) /\ Cardinality(s) \in Nat
    BY FS_Subset, FS_CardinalityType
  <2>2. PICK N : N = {Cardinality(s) : s \in B}
    OBVIOUS
  <2>3. N \subseteq Nat /\ N # {}
    BY <1>3, <2>1, <2>2
  <2>4. PICK m \in N : \A n \in N : m <= n
    BY <2>3, LeastNatural
  <2>5. PICK s \in B : Cardinality(s) = m
    BY <2>2, <2>4
  <2>6. s \in SUBSET D /\ s \notin G
    BY <1>3, <2>5
  <2>7. \A y \in s : s \ {y} \in G
    <3> SUFFICES ASSUME NEW y \in s, s \ {y} \notin G PROVE FALSE
      OBVIOUS
    <3>1. s \ {y} \in B /\ Cardinality(s \ {y}) = Cardinality(s) - 1 /\ Cardinality(s) \in Nat
      BY <1>3, <2>1, <2>6, FS_RemoveElement
    <3>2. Cardinality(s) <= Cardinality(s \ {y})
      BY <2>2, <2>4, <2>5, <3>1
    <3> QED BY <3>1, <3>2
  <2>8. ASSUME NEW x \in s PROVE g[s] = f[x] + g[s \ {x}]
    <3>1. PICK p : p = Pick(s)
      OBVIOUS
    <3>2. p \in s /\ g[s] = f[p] + g[s \ {p}]
      BY <1>1, <2>6, <2>8, <3>1 DEF Pick
    <3>3. CASE p = x
      BY <3>2, <3>3
    <3>4. CASE p # x
      <4>1. x \in s \ {p} /\ p \in s \ {x}
        BY <2>8, <3>2, <3>4
      <4>2. g[s \ {p}] = f[x] + g[(s \ {p}) \ {x}]
        BY <1>2, <2>7, <3>2, <4>1
      <4>3. g[s \ {x}] = f[p] + g[(s \ {x}) \ {p}]
        BY <1>2, <2>7, <2>8, <4>1
      <4>4. (s \ {p}) \ {x} = (s \ {x}) \ {p} /\ (s \ {x}) \ {p} \in SUBSET D
        BY <2>6
      <4>5. PICK u, v, w : u = f[x] /\ v = f[p] /\ w = g[(s \ {x}) \ {p}]
        OBVIOUS
      <4>6. u \in Int /\ v \in Int /\ w \in Int
        BY <1>1, <2>6, <2>8, <3>2, <4>4, <4>5
      <4>7. g[s] = v + (u + w) /\ g[s \ {x}] = v + w
        BY <3>2, <4>2, <4>3, <4>4, <4>5
      <4> QED BY <4>5, <4>6, <4>7
    <3> QED BY <3>3, <3>4
  <2>9. s \in G
    BY <1>2, <2>6, <2>8
  <2> QED BY <2>6, <2>9
<1>5. \A s \in SUBSET D : \A x \in s : g[s] = f[x] + g[s \ {x}]
  BY <1>2, <1>3, <1>4
<1> QED BY <1>1, <1>5 DEF Adds

LEMMA SumOfTwo ==
    ASSUME NEW d \in Nat, d > 0, NEW u \in Int, NEW v \in Int, u % d = 0, v % d = 0
    PROVE  (u + v) % d = 0
<1>1. PICK p, q : p = u \div d /\ q = v \div d
  OBVIOUS
<1>2. p \in Int /\ q \in Int
  BY <1>1
<1>3. u = d * p
  BY <1>1
<1>4. v = d * q
  BY <1>1
<1>5. u + v = (p + q) * d /\ p + q \in Int
  BY <1>2, <1>3, <1>4
<1>6. ((p + q) * d) % d = 0
  BY <1>5
<1> QED BY <1>5, <1>6

LEMMA SumOf ==
    ASSUME NEW D, NEW f \in [D -> Int], IsFiniteSet(D)
    PROVE  \E g : Adds(D, f, g) /\ SumFunction(f) = g[D]
<1>1. PICK g : Summed(f, g)
  BY SumsExist
<1>2. SumFunction(f) = g[D]
  BY <1>1, SumIs
<1>3. Adds(D, f, g)
  BY <1>1, SumSplits
<1> QED BY <1>2, <1>3

\* A sum of integers is one.
LEMMA SumTyped ==
    ASSUME NEW D, NEW f \in [D -> Int], IsFiniteSet(D)
    PROVE  SumFunction(f) \in Int
<1>1. PICK g : Adds(D, f, g) /\ SumFunction(f) = g[D]
  BY SumOf
<1>2. D \in SUBSET D
  OBVIOUS
<1> QED BY <1>1, <1>2 DEF Adds

\* Multiples add up to a multiple.
LEMMA SumOfMultiples ==
    ASSUME NEW D, NEW f \in [D -> Int], IsFiniteSet(D), NEW d \in Nat, d > 0,
           \A x \in D : f[x] % d = 0
    PROVE  SumFunction(f) % d = 0
<1>1. PICK g : Adds(D, f, g) /\ SumFunction(f) = g[D]
  BY SumOf
<1>2. /\ g[{}] = 0
      /\ \A s \in SUBSET D : g[s] \in Int
      /\ \A s \in SUBSET D : \A x \in s : g[s] = f[x] + g[s \ {x}]
  BY <1>1 DEF Adds
<1>3. PICK G : G = {s \in SUBSET D : g[s] % d = 0}
  OBVIOUS
<1>4. {} \in G
  BY <1>2, <1>3
<1>5. ASSUME NEW T \in SUBSET D, NEW x \in T, T \ {x} \in G PROVE T \in G
  <2>1. PICK u, v : u = f[x] /\ v = g[T \ {x}]
    OBVIOUS
  <2>2. u \in Int /\ v \in Int /\ u % d = 0 /\ v % d = 0 /\ g[T] = u + v
    BY <1>2, <1>3, <1>5, <2>1
  <2>3. (u + v) % d = 0
    BY <2>2, SumOfTwo
  <2> QED BY <1>3, <2>2, <2>3
<1>6. \A T \in SUBSET D : \A x \in T : T \ {x} \in G => T \in G
  BY <1>5
<1>7. \A T \in SUBSET D : T \in G
  BY <1>4, <1>6, SubsetInduction
<1>8. D \in G
  BY <1>7
<1> QED BY <1>1, <1>3, <1>8

\* Sums subtract term by term.
LEMMA SumOfDifferences ==
    ASSUME NEW D, NEW f \in [D -> Int], NEW h \in [D -> Int], IsFiniteSet(D),
           NEW k, k = [x \in D |-> f[x] - h[x]]
    PROVE  SumFunction(k) = SumFunction(f) - SumFunction(h)
<1>0. k \in [D -> Int]
  OBVIOUS
<1>1. PICK gf : Adds(D, f, gf) /\ SumFunction(f) = gf[D]
  BY SumOf
<1>2. PICK gh : Adds(D, h, gh) /\ SumFunction(h) = gh[D]
  BY SumOf
<1>3. PICK gk : Adds(D, k, gk) /\ SumFunction(k) = gk[D]
  BY <1>0, SumOf
<1>4. /\ gf[{}] = 0
      /\ \A s \in SUBSET D : gf[s] \in Int
      /\ \A s \in SUBSET D : \A x \in s : gf[s] = f[x] + gf[s \ {x}]
  BY <1>1 DEF Adds
<1>5. /\ gh[{}] = 0
      /\ \A s \in SUBSET D : gh[s] \in Int
      /\ \A s \in SUBSET D : \A x \in s : gh[s] = h[x] + gh[s \ {x}]
  BY <1>2 DEF Adds
<1>6. /\ gk[{}] = 0
      /\ \A s \in SUBSET D : gk[s] \in Int
      /\ \A s \in SUBSET D : \A x \in s : gk[s] = k[x] + gk[s \ {x}]
  BY <1>3 DEF Adds
<1>7. PICK G : G = {s \in SUBSET D : gk[s] = gf[s] - gh[s]}
  OBVIOUS
<1>8. {} \in G
  BY <1>4, <1>5, <1>6, <1>7
<1>9. ASSUME NEW T \in SUBSET D, NEW x \in T, T \ {x} \in G PROVE T \in G
  <2>1. PICK a, b, p, q, t : /\ a = f[x] /\ b = h[x] /\ p = gf[T \ {x}] /\ q = gh[T \ {x}]
                             /\ t = gk[T \ {x}]
    OBVIOUS
  <2>2. a \in Int /\ b \in Int /\ p \in Int /\ q \in Int /\ k[x] = a - b
    BY <1>4, <1>5, <2>1
  <2>3. t = p - q
    BY <1>7, <1>9, <2>1
  <2>4. gf[T] = a + p /\ gh[T] = b + q /\ gk[T] = k[x] + t
    BY <1>4, <1>5, <1>6, <2>1
  <2>5. gk[T] = gf[T] - gh[T]
    BY <2>2, <2>3, <2>4
  <2> QED BY <1>7, <2>5
<1>10. \A T \in SUBSET D : \A x \in T : T \ {x} \in G => T \in G
  BY <1>9
<1>11. \A T \in SUBSET D : T \in G
  BY <1>8, <1>10, SubsetInduction
<1>12. D \in G
  BY <1>11
<1> QED BY <1>1, <1>2, <1>3, <1>7, <1>12

\* The same terms under other names add up to the same.
LEMMA SumRenamed ==
    ASSUME NEW D, IsFiniteSet(D), NEW E, IsFiniteSet(E), NEW f \in [E -> Int], NEW b \in [D -> E],
           \A x, y \in D : b[x] = b[y] => x = y,
           \A e \in E : \E x \in D : b[x] = e,
           NEW k, k = [x \in D |-> f[b[x]]]
    PROVE  SumFunction(k) = SumFunction(f)
<1>0. k \in [D -> Int]
  OBVIOUS
<1>1. PICK gf : Adds(E, f, gf) /\ SumFunction(f) = gf[E]
  BY SumOf
<1>2. PICK gk : Adds(D, k, gk) /\ SumFunction(k) = gk[D]
  BY <1>0, SumOf
<1>3. /\ gf[{}] = 0
      /\ \A s \in SUBSET E : gf[s] \in Int
      /\ \A s \in SUBSET E : \A x \in s : gf[s] = f[x] + gf[s \ {x}]
  BY <1>1 DEF Adds
<1>4. /\ gk[{}] = 0
      /\ \A s \in SUBSET D : \A x \in s : gk[s] = k[x] + gk[s \ {x}]
  BY <1>2 DEF Adds
<1>5. PICK img : img = [s \in SUBSET D |-> {b[x] : x \in s}]
  OBVIOUS
<1>6. \A s \in SUBSET D : img[s] \in SUBSET E
  BY <1>5
<1>7. PICK G : G = {s \in SUBSET D : gk[s] = gf[img[s]]}
  OBVIOUS
<1>8. {} \in G
  <2>1. img[{}] = {}
    BY <1>5
  <2> QED BY <1>3, <1>4, <1>7, <2>1
<1>9. ASSUME NEW T \in SUBSET D, NEW x \in T, T \ {x} \in G PROVE T \in G
  <2>1. img[T \ {x}] = img[T] \ {b[x]} /\ b[x] \in img[T]
    <3>1. T \ {x} \in SUBSET D
      OBVIOUS
    <3>2. img[T \ {x}] = {b[y] : y \in T \ {x}} /\ img[T] = {b[y] : y \in T}
      BY <1>5, <3>1
    <3> QED BY <3>2
  <2>2. gf[img[T]] = f[b[x]] + gf[img[T] \ {b[x]}]
    BY <1>3, <1>6, <2>1
  <2>3. gk[T] = f[b[x]] + gk[T \ {x}]
    BY <1>4
  <2> QED BY <1>7, <1>9, <2>1, <2>2, <2>3
<1>10. \A T \in SUBSET D : \A x \in T : T \ {x} \in G => T \in G
  BY <1>9
<1>11. \A T \in SUBSET D : T \in G
  BY <1>8, <1>10, SubsetInduction
<1>12. D \in G /\ img[D] = E
  <2>1. D \in SUBSET D
    OBVIOUS
  <2>2. img[D] = {b[x] : x \in D}
    BY <1>5, <2>1
  <2>3. {b[x] : x \in D} = E
    OBVIOUS
  <2> QED BY <1>11, <2>1, <2>2, <2>3
<1> QED BY <1>1, <1>2, <1>7, <1>12

-----------------------------------------------------------------------------
(* Decimals.                                                               *)

LEMMA Quotients ==
    ASSUME NEW d \in Nat, d > 0, NEW k \in Int, NEW m \in Int, 0 <= m, m < d
    PROVE  (k * d + m) \div d = k
OBVIOUS

LEMMA FineFacts == Fine \in Nat /\ Fine > 0 /\ PerBasisPoint \in Nat /\ PerBasisPoint > 0
BY ReconAssumed DEF ReconAssumption

LEMMA MultipleIsStored ==
    ASSUME NEW k \in Int
    PROVE  Stored(k * Fine) /\ Stored(-(k * Fine))
<1>1. k * Fine \in Int /\ (k * Fine) % Fine = 0
  BY FineFacts
<1>2. -(k * Fine) = (-k) * Fine /\ -k \in Int
  BY FineFacts
<1>3. ((-k) * Fine) % Fine = 0
  BY <1>2, FineFacts
<1> QED BY <1>1, <1>2, <1>3 DEF Stored

LEMMA StoredIsMultiple ==
    ASSUME NEW x, Stored(x)
    PROVE  \E k \in Int : x = k * Fine
<1>1. x \in Int /\ x % Fine = 0
  BY DEF Stored
<1>2. PICK k : k = x \div Fine
  OBVIOUS
<1>3. k \in Int
  BY <1>1, <1>2, FineFacts
<1>4. x = Fine * k
  BY <1>1, <1>2, FineFacts
<1>5. x = k * Fine
  BY <1>3, <1>4, FineFacts
<1> QED BY <1>3, <1>5

\* What formatDecimal writes has stored digits.
LEMMA FormattedIsStored ==
    ASSUME NEW n \in Int, NEW d \in Nat, d > 0
    PROVE  Stored(FormatDecimal(n, d))
<1>1. PICK a, e : a = 2 * RAbs(n) + d * Fine /\ e = 2 * d * Fine
  OBVIOUS
<1>2. a \in Int
  BY <1>1, FineFacts DEF RAbs
<1>3. e \in Nat /\ e > 0
  <2>1. d * Fine \in Nat /\ d * Fine > 0
    BY FineFacts
  <2>2. e = 2 * (d * Fine)
    BY <1>1, FineFacts
  <2> QED BY <2>1, <2>2
<1>4. PICK q : q = a \div e
  OBVIOUS
<1>5. q \in Int
  BY <1>2, <1>3, <1>4
<1>6. FormatDecimal(n, d) = -(q * Fine) \/ FormatDecimal(n, d) = q * Fine
  BY <1>1, <1>4 DEF FormatDecimal
<1> QED BY <1>5, <1>6, MultipleIsStored

\* What has stored digits is written as it is.
LEMMA StoredIsKept ==
    ASSUME NEW x, Stored(x)
    PROVE  FormatDecimal(x, 1) = x
<1>1. PICK k \in Int : x = k * Fine
  BY StoredIsMultiple
<1>2. PICK j : j = RAbs(k)
  OBVIOUS
<1>3. j \in Nat /\ RAbs(x) = j * Fine /\ (k >= 0 <=> x >= 0)
  <2>1. CASE k >= 0
    <3>1. k * Fine >= 0
      BY <2>1, FineFacts
    <3> QED BY <1>1, <1>2, <2>1, <3>1, FineFacts DEF RAbs
  <2>2. CASE k < 0
    <3>1. PICK i \in Nat : i = -k /\ i > 0
      BY <2>2
    <3>2. i * Fine > 0
      BY <3>1, FineFacts
    <3>3. x = -(i * Fine) /\ i * Fine \in Int
      BY <1>1, <3>1, FineFacts
    <3>4. x < 0 /\ RAbs(x) = i * Fine
      BY <3>2, <3>3 DEF RAbs
    <3>5. j = i
      BY <1>2, <2>2, <3>1 DEF RAbs
    <3>6. ~(k >= 0) /\ ~(x >= 0)
      BY <2>2, <3>2, <3>3
    <3> QED BY <3>1, <3>4, <3>5, <3>6
  <2> QED BY <2>1, <2>2
<1>4. PICK d : d = 2 * Fine
  OBVIOUS
<1>5. d \in Nat /\ d > 0 /\ Fine < d
  BY <1>4, FineFacts
<1>6. (j * d + Fine) \div d = j
  BY <1>3, <1>5, FineFacts, Quotients
<1>7. 2 * RAbs(x) + 1 * Fine = j * d + Fine
  <2>1. 2 * (j * Fine) = j * (2 * Fine)
    BY <1>3, FineFacts
  <2> QED BY <1>3, <1>4, <2>1, FineFacts
<1>8. 2 * 1 * Fine = d
  BY <1>4, FineFacts
<1>9. FormatDecimal(x, 1) = IF x < 0 THEN -(j * Fine) ELSE j * Fine
  BY <1>6, <1>7, <1>8 DEF FormatDecimal
<1>10. x \in Int
  BY DEF Stored
<1> QED BY <1>3, <1>9, <1>10 DEF RAbs

LEMMA ScaledIsStored ==
    ASSUME NEW n \in Int
    PROVE  Stored(ScaleDecimal(n))
BY FormattedIsStored DEF ScaleDecimal

LEMMA StoredDifference ==
    ASSUME NEW x, Stored(x), NEW y, Stored(y)
    PROVE  Stored(x - y) /\ Stored(RAbs(x - y))
<1>1. PICK k \in Int : x = k * Fine
  BY StoredIsMultiple
<1>2. PICK l \in Int : y = l * Fine
  BY StoredIsMultiple
<1>3. x - y = (k - l) * Fine /\ k - l \in Int
  BY <1>1, <1>2, FineFacts
<1>4. Stored(x - y) /\ Stored(-(x - y))
  BY <1>3, MultipleIsStored
<1> QED BY <1>4 DEF RAbs

LEMMA DefaultIsStored ==
    ASSUME NEW nav \in Int
    PROVE  Stored(DefaultTolerance(nav))
<1>1. RAbs(nav) \in Int
  BY DEF RAbs
<1>2. Stored(FormatDecimal(RAbs(nav), PerBasisPoint))
  BY <1>1, FormattedIsStored, FineFacts
<1>3. Stored(MinTolerance)
  BY ReconAssumed DEF ReconAssumption
<1> QED BY <1>2, <1>3 DEF DefaultTolerance

-----------------------------------------------------------------------------
(* Versions.                                                               *)

LEMMA GreatestNatural ==
    ASSUME NEW S, S \subseteq Nat, IsFiniteSet(S), S # {}
    PROVE  Max(S) \in S /\ \A n \in S : Max(S) >= n
<1>1. PICK G : G = {T \in SUBSET S : T = {} \/ \E m \in T : \A n \in T : m >= n}
  OBVIOUS
<1>2. {} \in G
  BY <1>1
<1>3. ASSUME NEW T \in SUBSET S, NEW x \in T, T \ {x} \in G PROVE T \in G
  <2>1. T \subseteq Nat
    OBVIOUS
  <2>2. CASE T \ {x} = {}
    <3>1. \A n \in T : x >= n
      BY <2>1, <2>2
    <3> QED BY <1>1, <3>1
  <2>3. CASE T \ {x} # {}
    <3>1. PICK m \in T \ {x} : \A n \in T \ {x} : m >= n
      BY <1>1, <1>3, <2>3
    <3>2. CASE m >= x
      <4>1. \A n \in T : m >= n
        BY <3>1, <3>2
      <4> QED BY <1>1, <3>1, <4>1
    <3>3. CASE ~(m >= x)
      <4>1. \A n \in T : x >= n
        BY <2>1, <3>1, <3>3
      <4> QED BY <1>1, <4>1
    <3> QED BY <3>2, <3>3
  <2> QED BY <2>2, <2>3
<1>4. \A T \in SUBSET S : \A x \in T : T \ {x} \in G => T \in G
  BY <1>3
<1>5. \A T \in SUBSET S : T \in G
  BY <1>2, <1>4, SubsetInduction
<1>6. S \in G
  BY <1>5
<1>7. \E m \in S : \A n \in S : m >= n
  BY <1>1, <1>6
<1> QED BY <1>7 DEF Max

\* The versions an account has in T.
Versions(T, a) == {t.version : t \in {u \in T : u.account = a}}
LatestIn(T, a) == Max({0} \cup Versions(T, a))

LEMMA LatestIsIn ==
    ASSUME NEW T, IsFiniteSet(T), \A t \in T : t.version \in Nat, NEW a
    PROVE  /\ LatestIn(T, a) \in Nat
           /\ LatestIn(T, a) # 0 => \E t \in T : t.account = a /\ t.version = LatestIn(T, a)
           /\ \A t \in T : t.account = a => t.version <= LatestIn(T, a)
<1>1. PICK U : U = {u \in T : u.account = a}
  OBVIOUS
<1>2. IsFiniteSet(U)
  BY <1>1, FS_Subset
<1>3. PICK V : V = Versions(T, a)
  OBVIOUS
<1>4. V = {t.version : t \in U}
  BY <1>1, <1>3 DEF Versions
<1>5. IsFiniteSet(V)
  <2>1. PICK f : f = [t \in U |-> t.version]
    OBVIOUS
  <2>2. f \in Surjection(U, V)
    BY <1>4, <2>1 DEF Surjection
  <2> QED BY <1>2, <2>2, FS_Surjection
<1>6. V \subseteq Nat
  BY <1>1, <1>4
<1>7. PICK W : W = {0} \cup V
  OBVIOUS
<1>8. W = V \cup {0} /\ W \subseteq Nat /\ W # {}
  BY <1>6, <1>7
<1>9. IsFiniteSet(W)
  BY <1>5, <1>8, FS_AddElement
<1>10. Max(W) \in W /\ \A n \in W : Max(W) >= n
  BY <1>8, <1>9, GreatestNatural
<1>11. LatestIn(T, a) = Max(W)
  BY <1>3, <1>7 DEF LatestIn
<1>12. LatestIn(T, a) \in Nat
  BY <1>8, <1>10, <1>11
<1>13. LatestIn(T, a) # 0 => LatestIn(T, a) \in V
  BY <1>8, <1>10, <1>11
<1>14. ASSUME NEW t \in T, t.account = a PROVE t.version <= LatestIn(T, a)
  <2>1. t.version \in W /\ t.version \in Nat
    BY <1>1, <1>4, <1>7, <1>14
  <2> QED BY <1>10, <1>11, <1>12, <2>1
<1> QED BY <1>1, <1>4, <1>12, <1>13, <1>14

-----------------------------------------------------------------------------
(* Requests.                                                               *)

Distinct(r) == Cardinality(Checked(r)) = Len(r.checks)

LEMMA AskFacts ==
    ASSUME NEW r \in RRequest
    PROVE  /\ r # NoAsk /\ r.account \in Book /\ r.op \in {"tolerance", "checkpoint"}
           /\ r.op = "tolerance" => r.amount \in Int
           /\ r.op = "checkpoint" =>
                 /\ r.valuation \in DOMAIN RValuation /\ r.nav \in Int /\ r.currency \in Reporting
                 /\ Len(r.checks) \in Nat /\ DOMAIN r.checks = 1 .. Len(r.checks)
                 /\ \A n \in DOMAIN r.checks : r.checks[n].amount \in Int
<1>1. /\ r.op \in {"tolerance", "checkpoint"} /\ r.account \in Book
      /\ r.op = "tolerance" => r.amount \in Nat
      /\ r.op = "checkpoint" =>
            /\ r.valuation \in DOMAIN RValuation /\ r.nav \in Int /\ r.currency \in Reporting
            /\ Len(r.checks) \in Nat /\ DOMAIN r.checks = 1 .. Len(r.checks)
            /\ \A n \in DOMAIN r.checks : r.checks[n].amount \in Int
  BY ReconAssumed DEF ReconAssumption
<1>2. NoAsk.op = "none"
  BY DEF NoAsk
<1> QED BY <1>1, <1>2

\* What a request that is not refused asks for.
Accepted(r) ==
    /\ AccountLines(r.valuation, r.account) # {}
    /\ Unvalued(r.valuation, r.account) = {}
    /\ Checked(r) \subseteq AccountLines(r.valuation, r.account)
    /\ AllChecked(r) => LineTotal(r) = ExternalNAV(r)

LEMMA AcceptedIfNotRefused ==
    ASSUME NEW r, NEW live, Refusal(r, live) = "none"
    PROVE  Accepted(r)
<1>1. PICK m : m = AccountLines(r.valuation, r.account)
  OBVIOUS
<1>2. /\ m # {} /\ Unvalued(r.valuation, r.account) = {} /\ Checked(r) \subseteq m
      /\ ~(AllChecked(r) /\ LineTotal(r) # ExternalNAV(r))
  BY <1>1 DEF Refusal
<1> QED BY <1>1, <1>2 DEF Accepted

\* The amounts of the account are stored ones.
LEMMA LineFactsOf ==
    ASSUME NEW r \in RRequest, r.op = "checkpoint", Accepted(r)
    PROVE  /\ IsFiniteSet(AccountLines(r.valuation, r.account))
           /\ \A l \in AccountLines(r.valuation, r.account) : Stored(Amount(r, l))
<1>1. r.valuation \in DOMAIN RValuation /\ r.currency \in Reporting
  BY AskFacts
<1>2. /\ IsFiniteSet(LinesOf(r.valuation))
      /\ \A l \in LinesOf(r.valuation) :
            RValuation[r.valuation].lines[l].state = "valid" => Stored(Amount(r, l))
  BY <1>1, ReconAssumed DEF ReconAssumption, Amount
<1>3. AccountLines(r.valuation, r.account) \subseteq LinesOf(r.valuation)
  BY DEF AccountLines
<1>4. IsFiniteSet(AccountLines(r.valuation, r.account))
  BY <1>2, <1>3, FS_Subset
<1>5. \A l \in AccountLines(r.valuation, r.account) :
          RValuation[r.valuation].lines[l].state = "valid"
  BY DEF Accepted, Unvalued
<1> QED BY <1>2, <1>3, <1>4, <1>5

LEMMA NAVsAreStored ==
    ASSUME NEW r \in RRequest, r.op = "checkpoint", Accepted(r)
    PROVE  Stored(ExternalNAV(r)) /\ Stored(ValuationNAV(r))
<1>1. r.nav \in Int
  BY AskFacts
<1>2. Stored(ExternalNAV(r))
  BY <1>1, ScaledIsStored DEF ExternalNAV
<1>3. PICK E : E = AccountLines(r.valuation, r.account)
  OBVIOUS
<1>4. PICK f : f = [l \in E |-> Amount(r, l)]
  OBVIOUS
<1>5. IsFiniteSet(E) /\ \A l \in E : Stored(Amount(r, l))
  BY <1>3, LineFactsOf
<1>6. f \in [E -> Int] /\ \A l \in E : f[l] % Fine = 0
  BY <1>4, <1>5 DEF Stored
<1>7. SumFunction(f) \in Int
  BY <1>5, <1>6, SumTyped
<1>8. SumFunction(f) % Fine = 0
  BY <1>5, <1>6, FineFacts, SumOfMultiples
<1>9. ValuationNAV(r) = SumFunction(f)
  BY <1>3, <1>4 DEF ValuationNAV
<1> QED BY <1>2, <1>7, <1>8, <1>9 DEF Stored

ChecksOf(r) == {CheckOf(r, n) : n \in DOMAIN r.checks}

LEMMA CheckFacts ==
    ASSUME NEW r, NEW n
    PROVE  /\ CheckOf(r, n).line = r.checks[n].line
           /\ CheckOf(r, n).difference =
                 ScaleDecimal(r.checks[n].amount) - Amount(r, r.checks[n].line)
BY DEF CheckOf

\* Complete checks name each line of the account once.
LEMMA CompleteIsOneToOne ==
    ASSUME NEW r \in RRequest, r.op = "checkpoint", Distinct(r), Accepted(r), AllChecked(r)
    PROVE  /\ Checked(r) = AccountLines(r.valuation, r.account)
           /\ \A m, n \in DOMAIN r.checks : r.checks[m].line = r.checks[n].line => m = n
<1>1. PICK D, C, E : /\ D = DOMAIN r.checks /\ C = Checked(r)
                     /\ E = AccountLines(r.valuation, r.account)
  OBVIOUS
<1>2. Len(r.checks) \in Nat /\ D = 1 .. Len(r.checks)
  BY <1>1, AskFacts
<1>3. IsFiniteSet(D) /\ Cardinality(D) = Len(r.checks)
  BY <1>2, FS_Interval
<1>4. IsFiniteSet(E) /\ C \subseteq E /\ Cardinality(C) = Len(r.checks) /\ Cardinality(E) = Len(r.checks)
  BY <1>1, LineFactsOf DEF Accepted, Distinct, AllChecked
<1>5. C = E
  BY <1>4, FS_Subset
<1>6. PICK b : b = [n \in D |-> r.checks[n].line]
  OBVIOUS
<1>7. b \in Surjection(D, C)
  BY <1>1, <1>6 DEF Surjection, Checked
<1>8. b \in Injection(D, C)
  BY <1>3, <1>4, <1>7, FS_SurjSameCardinalityImpliesInj
<1>9. \A m, n \in D : b[m] = b[n] => m = n
  <2>1. DOMAIN b = D
    BY <1>6
  <2>2. IsInjective(b)
    BY <1>8 DEF Injection
  <2> QED BY <2>1, <2>2 DEF IsInjective
<1> QED BY <1>1, <1>5, <1>6, <1>9

\* Complete checks account for all of the difference.
LEMMA ChecksAddUp ==
    ASSUME NEW r \in RRequest, r.op = "checkpoint", Distinct(r), Accepted(r), AllChecked(r)
    PROVE  /\ {k.line : k \in ChecksOf(r)} = AccountLines(r.valuation, r.account)
           /\ SumFunction([k \in ChecksOf(r) |-> k.difference]) = ExternalNAV(r) - ValuationNAV(r)
<1>1. PICK D, E, K : /\ D = DOMAIN r.checks /\ E = AccountLines(r.valuation, r.account)
                     /\ K = ChecksOf(r)
  OBVIOUS
<1>2. /\ Checked(r) = E /\ \A m, n \in D : r.checks[m].line = r.checks[n].line => m = n
  BY <1>1, CompleteIsOneToOne
<1>3. IsFiniteSet(E) /\ \A l \in E : Amount(r, l) \in Int
  BY <1>1, LineFactsOf DEF Stored
<1>4. IsFiniteSet(D) /\ \A n \in D : r.checks[n].amount \in Int
  <2>1. /\ Len(r.checks) \in Nat /\ D = 1 .. Len(r.checks)
        /\ \A n \in D : r.checks[n].amount \in Int
    BY <1>1, AskFacts
  <2>2. PICK k : k = Len(r.checks)
    OBVIOUS
  <2>3. k \in Int /\ D = 1 .. k
    BY <2>1, <2>2
  <2>4. IsFiniteSet(1 .. k)
    BY <2>3, FS_Interval
  <2> QED BY <2>1, <2>3, <2>4
<1>5. \A n \in D : r.checks[n].line \in E
  BY <1>1, <1>2 DEF Checked
<1>6. PICK ext, amt, b : /\ ext = [n \in D |-> ScaleDecimal(r.checks[n].amount)]
                         /\ amt = [n \in D |-> Amount(r, r.checks[n].line)]
                         /\ b = [n \in D |-> r.checks[n].line]
  OBVIOUS
<1>7. \A n \in D : ext[n] \in Int /\ amt[n] \in Int
  <2>1. \A n \in D : ScaleDecimal(r.checks[n].amount) \in Int
    BY <1>4, ScaledIsStored DEF Stored
  <2> QED BY <1>3, <1>5, <1>6, <2>1
<1>8. ext \in [D -> Int] /\ amt \in [D -> Int] /\ b \in [D -> E]
  BY <1>5, <1>6, <1>7
<1>9. PICK c : c = [n \in D |-> CheckOf(r, n)]
  OBVIOUS
<1>10. K = {c[n] : n \in D} /\ c \in [D -> K]
  BY <1>1, <1>9 DEF ChecksOf
<1>11. \A n \in D : c[n].line = b[n] /\ c[n].difference = ext[n] - amt[n]
  BY <1>6, <1>9, CheckFacts
<1>12. \A m, n \in D : c[m] = c[n] => m = n
  BY <1>2, <1>6, <1>11
<1>13. IsFiniteSet(K)
  <2>1. c \in Surjection(D, K)
    BY <1>10 DEF Surjection
  <2> QED BY <1>4, <2>1, FS_Surjection
<1>14. PICK dk : dk = [k \in K |-> k.difference]
  OBVIOUS
<1>15. dk \in [K -> Int]
  <2>1. ASSUME NEW k \in K PROVE k.difference \in Int
    <3>1. PICK n \in D : k = c[n]
      BY <1>10
    <3>2. k.difference = ext[n] - amt[n]
      BY <1>11, <3>1
    <3> QED BY <1>7, <3>2
  <2> QED BY <1>14, <2>1
<1>16. PICK dn : dn = [n \in D |-> ext[n] - amt[n]]
  OBVIOUS
<1>17. dn = [n \in D |-> dk[c[n]]]
  BY <1>10, <1>11, <1>14, <1>16
<1>18. SumFunction(dn) = SumFunction(dk)
  <2>1. \A k \in K : \E n \in D : c[n] = k
    BY <1>10
  <2> QED BY <1>4, <1>10, <1>12, <1>13, <1>15, <1>17, <2>1, SumRenamed
<1>19. SumFunction(dn) = SumFunction(ext) - SumFunction(amt)
  BY <1>4, <1>8, <1>16, SumOfDifferences
<1>20. SumFunction(ext) = ExternalNAV(r)
  <2>1. LineTotal(r) = SumFunction(ext)
    BY <1>1, <1>6 DEF LineTotal
  <2> QED BY <2>1 DEF Accepted
<1>21. SumFunction(amt) = ValuationNAV(r)
  <2>1. PICK f : f = [l \in E |-> Amount(r, l)]
    OBVIOUS
  <2>2. f \in [E -> Int]
    BY <1>3, <2>1
  <2>3. amt = [n \in D |-> f[b[n]]]
    BY <1>5, <1>6, <2>1
  <2>4. \A m, n \in D : b[m] = b[n] => m = n
    BY <1>2, <1>6
  <2>5. \A e \in E : \E n \in D : b[n] = e
    BY <1>1, <1>2, <1>6 DEF Checked
  <2>6. SumFunction(amt) = SumFunction(f)
    BY <1>3, <1>4, <1>8, <2>2, <2>3, <2>4, <2>5, SumRenamed
  <2> QED BY <1>1, <2>1, <2>6 DEF ValuationNAV
<1>22. {k.line : k \in K} = E
  <2>1. {k.line : k \in K} = {b[n] : n \in D}
    BY <1>10, <1>11
  <2>2. {b[n] : n \in D} = Checked(r)
    BY <1>1, <1>6 DEF Checked
  <2> QED BY <1>2, <2>1, <2>2
<1> QED BY <1>1, <1>14, <1>18, <1>19, <1>20, <1>21, <1>22

-----------------------------------------------------------------------------
(* The invariant.                                                          *)

\* Phases in which a request has its account's row.
Held == {"read", "tolerance", "insert"}

ToleranceFits(t) ==
    /\ t = [account |-> t.account, version |-> t.version, amount |-> t.amount]
    /\ t.account \in Book /\ t.version \in Nat \ {0} /\ Stored(t.amount)

ReconTyped ==
    /\ IsFiniteSet(tolerances) /\ \A t \in tolerances : ToleranceFits(t)
    /\ bookLock \in [Book -> Clerk \cup {NoClerk}]
    /\ rPhase \in [Clerk -> {"idle", "lock", "read", "tolerance", "insert"}]
    /\ rRequest \in [Clerk -> RRequest \cup {NoAsk}]
    /\ rVersion \in [Clerk -> Nat]

\* No version of an account is given twice.
VersionsAreKeys ==
    \A t, u \in tolerances : t.account = u.account /\ t.version = u.version => t = u

\* Only a request at work has a lock.
LocksFit == \A a \in Book : bookLock[a] # NoClerk => rPhase[bookLock[a]] \in Held

\* What a request knows at each statement: the row is its own while it works,
\* so the latest version is the one it has read.
ClerkFits(w) ==
    LET r == rRequest[w] IN
    /\ rPhase[w] # "idle" => r \in RRequest /\ (r.op = "checkpoint" => Distinct(r))
    /\ rPhase[w] \in Held => bookLock[r.account] = w
    /\ rPhase[w] = "tolerance" => r.op = "checkpoint"
    /\ rPhase[w] \in {"tolerance", "insert"} /\ r.op = "checkpoint" => Accepted(r)
    /\ rPhase[w] = "insert" =>
          LatestIn(tolerances, r.account) = IF r.op = "tolerance" THEN rVersion[w] - 1 ELSE rVersion[w]

CheckpointStored(c) ==
    /\ c.account \in Book /\ c.version \in Nat
    /\ Stored(c.external) /\ Stored(c.nav) /\ Stored(c.difference) /\ Stored(c.tolerance)
CheckpointJudged(c) ==
    /\ c.difference = RAbs(c.external - c.nav)
    /\ c.state = "reconciled" <=> c.difference <= c.tolerance
CheckpointRow(c, T) ==
    c.version # 0 => [account |-> c.account, version |-> c.version, amount |-> c.tolerance] \in T
CheckpointAddsUp(c) ==
    c.lineState = "complete" =>
        /\ {k.line : k \in c.checks} = AccountLines(c.valuation, c.account)
        /\ SumFunction([k \in c.checks |-> k.difference]) = c.external - c.nav
CheckpointFits(c) ==
    CheckpointStored(c) /\ CheckpointJudged(c) /\ CheckpointRow(c, tolerances) /\ CheckpointAddsUp(c)

ReconInv ==
    /\ ReconTyped /\ VersionsAreKeys /\ LocksFit
    /\ \A w \in Clerk : ClerkFits(w)
    /\ \A c \in checkpoints : CheckpointFits(c)

-----------------------------------------------------------------------------
(* Steps.                                                                  *)

\* A request that does not move keeps what it knows while its row is its own.
LEMMA OtherKeeps ==
    ASSUME ReconInv, NEW v \in Clerk, ReconTyped',
           rPhase'[v] = rPhase[v], rRequest'[v] = rRequest[v], rVersion'[v] = rVersion[v],
           rPhase[v] \in Held => bookLock'[rRequest[v].account] = v,
           rPhase[v] = "insert" =>
               LatestIn(tolerances', rRequest[v].account) = LatestIn(tolerances, rRequest[v].account)
    PROVE  ClerkFits(v)'
BY DEF ReconInv, ClerkFits

\* Checkpoints stand while tolerances are only added.
LEMMA CheckpointsKeep ==
    ASSUME ReconInv, tolerances \subseteq tolerances', UNCHANGED checkpoints
    PROVE  \A c \in checkpoints' : CheckpointFits(c)'
<1> SUFFICES ASSUME NEW c \in checkpoints PROVE CheckpointFits(c)'
  OBVIOUS
<1>1. CheckpointFits(c)
  BY DEF ReconInv
<1>2. CheckpointRow(c, tolerances')
  BY <1>1 DEF CheckpointFits, CheckpointRow
<1> QED BY <1>1, <1>2 DEF CheckpointFits

LEMMA NobodyIsNoClerk == NoClerk \notin Clerk
BY ReconAssumed DEF ReconAssumption

\* The end of a request, after a write that keeps the others.
LEMMA EndKeepsRecon ==
    ASSUME ReconInv, NEW w \in Clerk, REnd(w),
           IsFiniteSet(tolerances'), \A t \in tolerances' : ToleranceFits(t), VersionsAreKeys',
           \A v \in Clerk : v # w /\ rPhase[v] = "insert" =>
               LatestIn(tolerances', rRequest[v].account) = LatestIn(tolerances, rRequest[v].account),
           \A c \in checkpoints' : CheckpointFits(c)'
    PROVE  ReconInv'
<1>1. ReconTyped /\ LocksFit /\ \A v \in Clerk : ClerkFits(v)
  BY DEF ReconInv
<1>2. ReconTyped'
  <2>1. bookLock' \in [Book -> Clerk \cup {NoClerk}]
    BY <1>1 DEF ReconTyped, REnd
  <2>2. /\ rPhase' \in [Clerk -> {"idle", "lock", "read", "tolerance", "insert"}]
        /\ rVersion' \in [Clerk -> Nat]
    BY <1>1 DEF ReconTyped, REnd
  <2>3. rRequest' \in [Clerk -> RRequest \cup {NoAsk}]
    BY <1>1 DEF ReconTyped, REnd
  <2>4. \A t \in tolerances' : ToleranceFits(t)'
    BY DEF ToleranceFits
  <2> QED BY <2>1, <2>2, <2>3, <2>4 DEF ReconTyped
<1>3. /\ rPhase'[w] = "idle"
      /\ \A v \in Clerk : v # w => /\ rPhase'[v] = rPhase[v] /\ rRequest'[v] = rRequest[v]
                                   /\ rVersion'[v] = rVersion[v]
      /\ \A a \in Book : bookLock'[a] = IF bookLock[a] = w THEN NoClerk ELSE bookLock[a]
  BY <1>1 DEF ReconTyped, REnd
<1>4. LocksFit'
  <2> SUFFICES ASSUME NEW a \in Book, bookLock'[a] # NoClerk PROVE rPhase'[bookLock'[a]] \in Held
    BY DEF LocksFit
  <2>1. bookLock'[a] = bookLock[a] /\ bookLock[a] # w /\ bookLock[a] # NoClerk
    BY <1>3
  <2>2. bookLock[a] \in Clerk /\ rPhase[bookLock[a]] \in Held
    BY <1>1, <2>1 DEF ReconTyped, LocksFit
  <2> QED BY <1>3, <2>1, <2>2
<1>5. ASSUME NEW v \in Clerk PROVE ClerkFits(v)'
  <2>1. CASE v = w
    <3>1. rPhase'[v] = "idle"
      BY <1>3, <2>1
    <3> QED BY <3>1 DEF ClerkFits, Held
  <2>2. CASE v # w
    <3>1. rPhase'[v] = rPhase[v] /\ rRequest'[v] = rRequest[v] /\ rVersion'[v] = rVersion[v]
      BY <1>3, <2>2
    <3>2. ASSUME rPhase[v] \in Held PROVE bookLock'[rRequest[v].account] = v
      <4>1. bookLock[rRequest[v].account] = v /\ rRequest[v] \in RRequest
        BY <1>1, <3>2 DEF ClerkFits, Held
      <4>2. rRequest[v].account \in Book
        BY <4>1, AskFacts
      <4> QED BY <1>3, <2>2, <4>1, <4>2
    <3> QED BY <1>2, <2>2, <3>1, <3>2, OtherKeeps
  <2> QED BY <2>1, <2>2
<1> QED BY <1>2, <1>4, <1>5 DEF ReconInv

\* A request moves on; the tables and the locks of others stay.
LEMMA MoveKeepsRecon ==
    ASSUME ReconInv, NEW w \in Clerk, UNCHANGED <<tolerances, checkpoints>>, ReconTyped',
           \A v \in Clerk : v # w => /\ rPhase'[v] = rPhase[v] /\ rRequest'[v] = rRequest[v]
                                     /\ rVersion'[v] = rVersion[v],
           \A a \in Book : bookLock'[a] = bookLock[a] \/ (bookLock[a] = NoClerk /\ bookLock'[a] = w),
           rPhase[w] \in Held => rPhase'[w] \in Held,
           (\E a \in Book : bookLock'[a] # bookLock[a]) => rPhase'[w] \in Held,
           ClerkFits(w)'
    PROVE  ReconInv'
<1>1. ReconTyped /\ LocksFit /\ \A v \in Clerk : ClerkFits(v)
  BY DEF ReconInv
<1>2. LocksFit'
  <2> SUFFICES ASSUME NEW a \in Book, bookLock'[a] # NoClerk PROVE rPhase'[bookLock'[a]] \in Held
    BY DEF LocksFit
  <2>1. CASE bookLock'[a] = bookLock[a]
    <3>1. bookLock[a] \in Clerk /\ rPhase[bookLock[a]] \in Held
      BY <1>1, <2>1 DEF ReconTyped, LocksFit
    <3> QED BY <2>1, <3>1
  <2>2. CASE bookLock'[a] # bookLock[a]
    BY <2>2
  <2> QED BY <2>1, <2>2
<1>3. ASSUME NEW v \in Clerk PROVE ClerkFits(v)'
  <2>1. CASE v # w
    <3>1. rPhase'[v] = rPhase[v] /\ rRequest'[v] = rRequest[v] /\ rVersion'[v] = rVersion[v]
      BY <2>1
    <3>2. ASSUME rPhase[v] \in Held PROVE bookLock'[rRequest[v].account] = v
      <4>1. bookLock[rRequest[v].account] = v /\ rRequest[v] \in RRequest
        BY <1>1, <3>2 DEF ClerkFits, Held
      <4>2. rRequest[v].account \in Book
        BY <4>1, AskFacts
      <4> QED BY <4>1, <4>2, NobodyIsNoClerk
    <3> QED BY <3>1, <3>2, OtherKeeps
  <2> QED BY <2>1
<1>4. \A c \in checkpoints' : CheckpointFits(c)'
  BY CheckpointsKeep
<1>5. VersionsAreKeys'
  BY DEF ReconInv, VersionsAreKeys
<1> QED BY <1>2, <1>3, <1>4, <1>5 DEF ReconInv

LEMMA RSendStep ==
    ASSUME ReconInv, NEW w \in Clerk, NEW r \in RRequest, RSend(w, r)
    PROVE  ReconInv'
<1>1. ReconTyped /\ \A t \in tolerances : ToleranceFits(t)
  BY DEF ReconInv, ReconTyped
<1>2. /\ rPhase[w] = "idle" /\ rPhase'[w] = "lock" /\ rRequest'[w] = r
      /\ r.op = "checkpoint" => Distinct(r)
      /\ \A v \in Clerk : v # w => /\ rPhase'[v] = rPhase[v] /\ rRequest'[v] = rRequest[v]
                                   /\ rVersion'[v] = rVersion[v]
      /\ UNCHANGED <<tolerances, checkpoints, bookLock>>
  BY <1>1 DEF RSend, Distinct, ReconTyped
<1>3. ReconTyped'
  BY <1>1 DEF RSend, ReconTyped, ToleranceFits
<1>4. ClerkFits(w)'
  BY <1>2 DEF ClerkFits, Held
<1> QED BY <1>2, <1>3, <1>4, MoveKeepsRecon DEF Held

LEMMA LockBookStep ==
    ASSUME ReconInv, NEW w \in Clerk, LockBook(w)
    PROVE  ReconInv'
<1>1. ReconTyped /\ ClerkFits(w)
  BY DEF ReconInv
<1>2. PICK a : a = rRequest[w].account
  OBVIOUS
<1>3. rPhase[w] = "lock" /\ rRequest[w] \in RRequest /\ (rRequest[w].op = "checkpoint" => Distinct(rRequest[w]))
  BY <1>1 DEF LockBook, ClerkFits
<1>4. a \in Book
  BY <1>2, <1>3, AskFacts
<1>5. /\ bookLock[a] = NoClerk /\ bookLock' = [bookLock EXCEPT ![a] = w]
      /\ rPhase' = [rPhase EXCEPT ![w] = "read"]
      /\ UNCHANGED <<tolerances, checkpoints, rRequest, rVersion>>
  BY <1>2 DEF LockBook, RGoto
<1>6. ReconTyped'
  BY <1>1, <1>4, <1>5 DEF ReconTyped, ToleranceFits
<1>7. /\ rPhase'[w] = "read" /\ bookLock'[a] = w
      /\ \A b \in Book : b # a => bookLock'[b] = bookLock[b]
      /\ \A v \in Clerk : v # w => rPhase'[v] = rPhase[v]
  BY <1>1, <1>4, <1>5 DEF ReconTyped
<1>8. ClerkFits(w)'
  BY <1>2, <1>3, <1>5, <1>7 DEF ClerkFits, Held
<1> QED BY <1>5, <1>6, <1>7, <1>8, MoveKeepsRecon DEF Held

LEMMA LatestIs ==
    ASSUME ReconInv, NEW a
    PROVE  /\ LatestVersion(a) = LatestIn(tolerances, a)
           /\ LatestIn(tolerances, a) \in Nat
           /\ LatestIn(tolerances, a) # 0 =>
                 \E t \in tolerances : t.account = a /\ t.version = LatestIn(tolerances, a)
           /\ \A t \in tolerances : t.account = a => t.version <= LatestIn(tolerances, a)
<1>1. IsFiniteSet(tolerances) /\ \A t \in tolerances : t.version \in Nat
  BY DEF ReconInv, ReconTyped, ToleranceFits
<1>2. LatestVersion(a) = LatestIn(tolerances, a)
  BY DEF LatestVersion, LatestIn, Versions
<1> QED BY <1>1, <1>2, LatestIsIn

\* A statement of w that changes only its own phase and version.
LEMMA PhaseKeepsRecon ==
    ASSUME ReconInv, NEW w \in Clerk, NEW ph \in Held, NEW n \in Nat, rPhase[w] \in Held,
           rPhase' = [rPhase EXCEPT ![w] = ph], rVersion' = [rVersion EXCEPT ![w] = n],
           UNCHANGED <<tolerances, checkpoints, bookLock, rRequest>>,
           ph = "tolerance" => rRequest[w].op = "checkpoint",
           ph \in {"tolerance", "insert"} /\ rRequest[w].op = "checkpoint" => Accepted(rRequest[w]),
           ph = "insert" => LatestIn(tolerances, rRequest[w].account) =
                                IF rRequest[w].op = "tolerance" THEN n - 1 ELSE n
    PROVE  ReconInv'
<1>1. ReconTyped /\ ClerkFits(w)
  BY DEF ReconInv
<1>2. ReconTyped'
  BY <1>1 DEF ReconTyped, Held, ToleranceFits
<1>3. /\ rPhase'[w] = ph /\ rVersion'[w] = n /\ rRequest'[w] = rRequest[w]
      /\ \A v \in Clerk : v # w => rPhase'[v] = rPhase[v] /\ rVersion'[v] = rVersion[v]
  BY <1>1 DEF ReconTyped
<1>4. /\ rRequest[w] \in RRequest /\ (rRequest[w].op = "checkpoint" => Distinct(rRequest[w]))
      /\ bookLock[rRequest[w].account] = w
  BY <1>1 DEF ClerkFits, Held
<1>5. ClerkFits(w)'
  BY <1>3, <1>4 DEF ClerkFits
<1> QED BY <1>2, <1>3, <1>5, MoveKeepsRecon

LEMMA ReadToleranceStep ==
    ASSUME ReconInv, NEW w \in Clerk, ReadTolerance(w)
    PROVE  ReconInv'
<1>1. PICK l : l = LatestIn(tolerances, rRequest[w].account)
  OBVIOUS
<1>2. l \in Nat /\ LatestVersion(rRequest[w].account) = l
  BY <1>1, LatestIs
<1>3. /\ rPhase[w] = "read" /\ rRequest[w].op = "tolerance"
      /\ rPhase' = [rPhase EXCEPT ![w] = "insert"] /\ rVersion' = [rVersion EXCEPT ![w] = l + 1]
      /\ UNCHANGED <<tolerances, checkpoints, bookLock, rRequest>>
  BY <1>2 DEF ReadTolerance, RGoto
<1>4. l + 1 \in Nat /\ (l + 1) - 1 = l
  BY <1>2
<1>5. "insert" \in Held /\ "read" \in Held
  BY DEF Held
<1> QED BY <1>1, <1>3, <1>4, <1>5, PhaseKeepsRecon

LEMMA LoadToleranceStep ==
    ASSUME ReconInv, NEW w \in Clerk, LoadTolerance(w)
    PROVE  ReconInv'
<1>1. PICK l : l = LatestIn(tolerances, rRequest[w].account)
  OBVIOUS
<1>2. l \in Nat /\ LatestVersion(rRequest[w].account) = l
  BY <1>1, LatestIs
<1>3. /\ rPhase[w] = "tolerance"
      /\ rPhase' = [rPhase EXCEPT ![w] = "insert"] /\ rVersion' = [rVersion EXCEPT ![w] = l]
      /\ UNCHANGED <<tolerances, checkpoints, bookLock, rRequest>>
  BY <1>2 DEF LoadTolerance, RGoto
<1>4. rRequest[w].op = "checkpoint" /\ Accepted(rRequest[w])
  BY <1>3 DEF ReconInv, ClerkFits
<1>5. "insert" \in Held /\ "tolerance" \in Held
  BY DEF Held
<1> QED BY <1>1, <1>2, <1>3, <1>4, <1>5, PhaseKeepsRecon

\* A request that ends without a write.
LEMMA RollbackStep ==
    ASSUME ReconInv, NEW w \in Clerk, REnd(w), UNCHANGED <<tolerances, checkpoints>>
    PROVE  ReconInv'
<1>1. IsFiniteSet(tolerances') /\ (\A t \in tolerances' : ToleranceFits(t)) /\ VersionsAreKeys'
  BY DEF ReconInv, ReconTyped, VersionsAreKeys
<1>2. \A c \in checkpoints' : CheckpointFits(c)'
  BY CheckpointsKeep
<1> QED BY <1>1, <1>2, EndKeepsRecon

LEMMA LoadLinesStep ==
    ASSUME ReconInv, NEW w \in Clerk, LoadLines(w)
    PROVE  ReconInv'
<1>0. PICK live \in Reporting :
        IF Refusal(rRequest[w], live) = "none"
        THEN RGoto(w, "tolerance") /\ UNCHANGED <<bookLock, rVersion>>
        ELSE REnd(w)
  BY DEF LoadLines
<1>1. CASE Refusal(rRequest[w], live) = "none"
  <2>1. Accepted(rRequest[w])
    BY <1>1, AcceptedIfNotRefused
  <2>2. /\ rPhase[w] = "read" /\ rRequest[w].op = "checkpoint"
        /\ rPhase' = [rPhase EXCEPT ![w] = "tolerance"]
        /\ UNCHANGED <<tolerances, checkpoints, bookLock, rRequest, rVersion>>
    BY <1>0, <1>1 DEF LoadLines, RGoto
  <2>3. PICK n : n = rVersion[w]
    OBVIOUS
  <2>4. n \in Nat /\ rVersion' = [rVersion EXCEPT ![w] = n]
    BY <2>2, <2>3 DEF ReconInv, ReconTyped
  <2>5. "tolerance" \in Held /\ "read" \in Held
    BY DEF Held
  <2> QED BY <2>1, <2>2, <2>4, <2>5, PhaseKeepsRecon
<1>2. CASE Refusal(rRequest[w], live) # "none"
  BY <1>0, <1>2, RollbackStep DEF LoadLines
<1> QED BY <1>1, <1>2

LEMMA InsertToleranceStep ==
    ASSUME ReconInv, NEW w \in Clerk, InsertTolerance(w)
    PROVE  ReconInv'
<1>1. PICK r, n : r = rRequest[w] /\ n = rVersion[w]
  OBVIOUS
<1>2. PICK row : row = [account |-> r.account, version |-> n, amount |-> ScaleDecimal(r.amount)]
  OBVIOUS
<1>3. /\ rPhase[w] = "insert" /\ r.op = "tolerance" /\ tolerances' = tolerances \cup {row}
      /\ REnd(w) /\ UNCHANGED checkpoints
  BY <1>1, <1>2 DEF InsertTolerance
<1>4. ReconTyped /\ \A v \in Clerk : ClerkFits(v)
  BY DEF ReconInv
<1>5. /\ r \in RRequest /\ bookLock[r.account] = w
      /\ LatestIn(tolerances, r.account) = n - 1 /\ n \in Nat
  BY <1>1, <1>3, <1>4 DEF ClerkFits, Held, ReconTyped
<1>6. LatestIn(tolerances, r.account) \in Nat
  BY LatestIs
<1>7. ToleranceFits(row)
  <2>1. r.account \in Book /\ r.amount \in Int
    BY <1>3, <1>5, AskFacts
  <2>2. Stored(ScaleDecimal(r.amount))
    BY <2>1, ScaledIsStored
  <2>3. n \in Nat \ {0}
    BY <1>5, <1>6
  <2> QED BY <1>2, <2>1, <2>2, <2>3 DEF ToleranceFits
<1>8. IsFiniteSet(tolerances') /\ \A t \in tolerances' : ToleranceFits(t)
  BY <1>3, <1>4, <1>7, FS_AddElement DEF ReconTyped
<1>9. VersionsAreKeys'
  <2>1. \A t \in tolerances : t.account = row.account => t.version # row.version
    <3>1. \A t \in tolerances : t.account = r.account => t.version <= n - 1 /\ t.version \in Nat
      BY <1>4, <1>5, LatestIs DEF ReconTyped, ToleranceFits
    <3> QED BY <1>2, <1>5, <3>1
  <2> QED BY <1>3, <2>1 DEF ReconInv, VersionsAreKeys
<1>10. ASSUME NEW v \in Clerk, v # w, rPhase[v] = "insert"
      PROVE  LatestIn(tolerances', rRequest[v].account) = LatestIn(tolerances, rRequest[v].account)
  <2>1. bookLock[rRequest[v].account] = v
    BY <1>4, <1>10 DEF ClerkFits, Held
  <2>2. PICK a : a = rRequest[v].account /\ a # row.account
    BY <1>2, <1>5, <1>10, <2>1
  <2>3. {u \in tolerances' : u.account = a} = {u \in tolerances : u.account = a}
    BY <1>3, <2>2
  <2>4. Versions(tolerances', a) = Versions(tolerances, a)
    BY <2>3 DEF Versions
  <2> QED BY <2>2, <2>4 DEF LatestIn
<1>11. \A c \in checkpoints' : CheckpointFits(c)'
  BY <1>3, CheckpointsKeep
<1> QED BY <1>3, <1>8, <1>9, <1>10, <1>11, EndKeepsRecon

\* The tolerance in force has stored digits, and if it is a version its row is there.
LEMMA EffectiveFacts ==
    ASSUME ReconInv, NEW r \in RRequest, r.op = "checkpoint",
           NEW n, n = LatestIn(tolerances, r.account)
    PROVE  /\ n \in Nat /\ Stored(EffectiveTolerance(r, n))
           /\ n # 0 => [account |-> r.account, version |-> n,
                        amount |-> EffectiveTolerance(r, n)] \in tolerances
<1>1. n \in Nat
  BY LatestIs
<1>2. CASE n = 0
  <2>1. ExternalNAV(r) \in Int
    BY AskFacts, ScaledIsStored DEF ExternalNAV, Stored
  <2> QED BY <1>1, <1>2, <2>1, DefaultIsStored DEF EffectiveTolerance
<1>3. CASE n # 0
  <2>1. PICK t : t = ToleranceRow(r.account, n)
    OBVIOUS
  <2>2. \E u \in tolerances : u.account = r.account /\ u.version = n
    BY <1>3, LatestIs
  <2>3. t \in tolerances /\ t.account = r.account /\ t.version = n
    BY <2>1, <2>2 DEF ToleranceRow
  <2>4. ToleranceFits(t)
    BY <2>3 DEF ReconInv, ReconTyped
  <2>5. EffectiveTolerance(r, n) = t.amount
    BY <1>3, <2>1 DEF EffectiveTolerance
  <2>6. t = [account |-> r.account, version |-> n, amount |-> EffectiveTolerance(r, n)]
    BY <2>3, <2>4, <2>5 DEF ToleranceFits
  <2> QED BY <1>1, <2>3, <2>4, <2>5, <2>6 DEF ToleranceFits
<1> QED BY <1>2, <1>3

LEMMA InsertCheckpointStep ==
    ASSUME ReconInv, NEW w \in Clerk, InsertCheckpoint(w)
    PROVE  ReconInv'
<1>1. PICK r, n : r = rRequest[w] /\ n = rVersion[w]
  OBVIOUS
<1>2. PICK x, y, d, t : /\ x = ExternalNAV(r) /\ y = ValuationNAV(r)
                        /\ d = RAbs(x - y) /\ t = EffectiveTolerance(r, n)
  OBVIOUS
<1>3. PICK c : c = [account |-> r.account, valuation |-> r.valuation, external |-> x, nav |-> y,
                    difference |-> d, tolerance |-> FormatDecimal(t, 1), version |-> n,
                    state |-> IF d <= t THEN "reconciled" ELSE "unreconciled",
                    lineState |-> LineCheckState(r), checks |-> ChecksOf(r)]
  OBVIOUS
<1>4. /\ rPhase[w] = "insert" /\ r.op = "checkpoint" /\ checkpoints' = checkpoints \cup {c}
      /\ REnd(w) /\ UNCHANGED tolerances
  BY <1>1, <1>2, <1>3 DEF InsertCheckpoint, ChecksOf
<1>5. /\ r \in RRequest /\ Distinct(r) /\ Accepted(r)
      /\ n = LatestIn(tolerances, r.account)
  BY <1>1, <1>4 DEF ReconInv, ClerkFits
<1>6. /\ n \in Nat /\ Stored(t)
      /\ n # 0 => [account |-> r.account, version |-> n, amount |-> t] \in tolerances
  BY <1>2, <1>4, <1>5, EffectiveFacts
<1>7. FormatDecimal(t, 1) = t
  BY <1>6, StoredIsKept
<1>8. Stored(x) /\ Stored(y) /\ Stored(d)
  <2>1. Stored(x) /\ Stored(y)
    BY <1>2, <1>4, <1>5, NAVsAreStored
  <2> QED BY <1>2, <2>1, StoredDifference
<1>9. r.account \in Book
  BY <1>5, AskFacts
<1>10. /\ c.account = r.account /\ c.valuation = r.valuation /\ c.external = x /\ c.nav = y
       /\ c.difference = d /\ c.tolerance = t /\ c.version = n
       /\ c.state = (IF d <= t THEN "reconciled" ELSE "unreconciled")
       /\ c.lineState = LineCheckState(r) /\ c.checks = ChecksOf(r)
  BY <1>3, <1>7
<1>11. CheckpointStored(c)
  BY <1>6, <1>8, <1>9, <1>10 DEF CheckpointStored
<1>12. CheckpointJudged(c)
  BY <1>2, <1>10 DEF CheckpointJudged
<1>13. CheckpointRow(c, tolerances)
  BY <1>6, <1>10 DEF CheckpointRow
<1>14. CheckpointAddsUp(c)
  <2> SUFFICES ASSUME c.lineState = "complete"
               PROVE  /\ {k.line : k \in c.checks} = AccountLines(c.valuation, c.account)
                      /\ SumFunction([k \in c.checks |-> k.difference]) = c.external - c.nav
    BY DEF CheckpointAddsUp
  <2>1. AllChecked(r)
    BY <1>10 DEF LineCheckState
  <2>2. /\ {k.line : k \in ChecksOf(r)} = AccountLines(r.valuation, r.account)
        /\ SumFunction([k \in ChecksOf(r) |-> k.difference]) = x - y
    BY <1>2, <1>4, <1>5, <2>1, ChecksAddUp
  <2> QED BY <1>10, <2>2
<1>15. \A k \in checkpoints' : CheckpointFits(k)'
  <2> SUFFICES ASSUME NEW k \in checkpoints' PROVE CheckpointFits(k)'
    OBVIOUS
  <2>1. CheckpointFits(k)
    BY <1>4, <1>11, <1>12, <1>13, <1>14 DEF ReconInv, CheckpointFits
  <2> QED BY <1>4, <2>1 DEF CheckpointFits
<1>16. IsFiniteSet(tolerances') /\ (\A u \in tolerances' : ToleranceFits(u)) /\ VersionsAreKeys'
  BY <1>4 DEF ReconInv, ReconTyped, VersionsAreKeys
<1> QED BY <1>4, <1>15, <1>16, EndKeepsRecon

LEMMA ReconInitInv == ReconInit => ReconInv
<1> SUFFICES ASSUME ReconInit PROVE ReconInv
  OBVIOUS
<1>1. ReconTyped
  BY FS_EmptySet DEF ReconInit, ReconTyped
<1>2. LocksFit /\ VersionsAreKeys
  BY DEF ReconInit, LocksFit, VersionsAreKeys
<1>3. \A w \in Clerk : ClerkFits(w)
  BY DEF ReconInit, ClerkFits, Held
<1>4. checkpoints = {}
  BY DEF ReconInit
<1> QED BY <1>1, <1>2, <1>3, <1>4 DEF ReconInv

LEMMA ReconStutter == ReconInv /\ UNCHANGED reconVars => ReconInv'
<1> SUFFICES ASSUME ReconInv, UNCHANGED reconVars PROVE ReconInv'
  OBVIOUS
<1>1. UNCHANGED <<tolerances, checkpoints, bookLock, rPhase, rRequest, rVersion>>
  BY DEF reconVars
<1>2. ReconTyped' /\ LocksFit' /\ VersionsAreKeys'
  BY <1>1 DEF ReconInv, ReconTyped, LocksFit, ToleranceFits, VersionsAreKeys
<1>3. \A w \in Clerk : ClerkFits(w)'
  BY <1>1 DEF ReconInv, ClerkFits
<1>4. \A c \in checkpoints' : CheckpointFits(c)'
  BY <1>1, CheckpointsKeep
<1> QED BY <1>2, <1>3, <1>4 DEF ReconInv

LEMMA ReconNextInv == ReconInv /\ [ReconNext]_reconVars => ReconInv'
<1> SUFFICES ASSUME ReconInv, ReconNext PROVE ReconInv'
  BY ReconStutter
<1>1. PICK w \in Clerk :
          \/ \E r \in RRequest : RSend(w, r)
          \/ LockBook(w) \/ ReadTolerance(w) \/ InsertTolerance(w)
          \/ LoadLines(w) \/ LoadTolerance(w) \/ InsertCheckpoint(w)
          \/ RFail(w)
  BY DEF ReconNext
<1>2. CASE RFail(w)
  BY <1>2, RollbackStep DEF RFail
<1> QED BY <1>1, <1>2, RSendStep, LockBookStep, ReadToleranceStep, InsertToleranceStep,
           LoadLinesStep, LoadToleranceStep, InsertCheckpointStep

\* The inductive invariant of the reconciliation service.
THEOREM ReconciliationFits == ReconSpec => []ReconInv
BY ReconInitInv, ReconNextInv, PTL DEF ReconSpec

LEMMA ReconInvTyped == ReconInv => ReconTypeOK
<1> SUFFICES ASSUME ReconInv PROVE ReconTypeOK
  OBVIOUS
<1>1. \A t \in tolerances : t.account \in Book /\ t.version \in Nat \ {0} /\ Stored(t.amount)
  BY DEF ReconInv, ReconTyped, ToleranceFits
<1>2. \A c \in checkpoints :
          /\ c.account \in Book /\ c.version \in Nat
          /\ \A x \in {c.external, c.nav, c.difference, c.tolerance} : Stored(x)
  BY DEF ReconInv, CheckpointFits, CheckpointStored
<1>3. \A a \in Book : bookLock[a] # NoClerk => rPhase[bookLock[a]] # "idle"
  BY DEF ReconInv, LocksFit, Held
<1> QED BY <1>1, <1>2, <1>3 DEF ReconTypeOK, ReconInv, ReconTyped

LEMMA ReconInvHolds == ReconInv => ReconciliationHolds
<1> SUFFICES ASSUME ReconInv PROVE ReconciliationHolds
  OBVIOUS
<1>1. ToleranceStaysCurrent
  BY LatestIs DEF ReconInv, ClerkFits, ToleranceStaysCurrent
<1>2. StateFollowsFromRecord
  BY DEF ReconInv, CheckpointFits, CheckpointJudged, CheckpointRow, StateFollowsFromRecord
<1>3. CompleteChecksAddUp
  BY DEF ReconInv, CheckpointFits, CheckpointAddsUp, CompleteChecksAddUp
<1> QED BY <1>1, <1>2, <1>3 DEF ReconciliationHolds

\* For every number of concurrent requests, versions, lines and checks, and every
\* number of stored digits: no tolerance changes under a request that has read
\* it, a checkpoint's state follows from its own row, and complete line checks
\* add up to the difference.
THEOREM CheckpointsCanBeAudited == ReconSpec => []ReconciliationHolds
BY ReconInvHolds, ReconciliationFits, PTL

\* What is recorded stays as it is: tolerances and checkpoints are only added, and
\* a new tolerance is the version after the latest of its account.
RecordsAreAppended ==
    /\ tolerances \subseteq tolerances' /\ checkpoints \subseteq checkpoints'
    /\ \A t \in tolerances' \ tolerances : t.version = LatestVersion(t.account) + 1

\* No step of the service rewrites a version or a checkpoint, and versions have no gap.
THEOREM CheckpointsStay == ReconSpec => [][RecordsAreAppended]_reconVars
<1>1. ReconInv /\ [ReconNext]_reconVars => [RecordsAreAppended]_reconVars
  <2> SUFFICES ASSUME ReconInv, ReconNext PROVE RecordsAreAppended
    OBVIOUS
  <2>1. PICK w \in Clerk :
            \/ \E r \in RRequest : RSend(w, r)
            \/ LockBook(w) \/ ReadTolerance(w) \/ InsertTolerance(w)
            \/ LoadLines(w) \/ LoadTolerance(w) \/ InsertCheckpoint(w)
            \/ RFail(w)
    BY DEF ReconNext
  <2>2. CASE InsertTolerance(w)
    <3>1. PICK r, n : r = rRequest[w] /\ n = rVersion[w]
      OBVIOUS
    <3>2. PICK row : row = [account |-> r.account, version |-> n, amount |-> ScaleDecimal(r.amount)]
      OBVIOUS
    <3>3. /\ rPhase[w] = "insert" /\ r.op = "tolerance" /\ tolerances' = tolerances \cup {row}
          /\ UNCHANGED checkpoints
      BY <2>2, <3>1, <3>2 DEF InsertTolerance
    <3>4. LatestVersion(r.account) = n - 1 /\ n \in Nat
      BY <3>1, <3>3, LatestIs DEF ReconInv, ClerkFits, ReconTyped
    <3>5. row.account = r.account /\ row.version = LatestVersion(r.account) + 1
      BY <3>2, <3>4
    <3> QED BY <3>3, <3>5 DEF RecordsAreAppended
  <2>3. CASE InsertCheckpoint(w)
    BY <2>3 DEF InsertCheckpoint, RecordsAreAppended
  <2>4. CASE ~InsertTolerance(w) /\ ~InsertCheckpoint(w)
    <3>1. UNCHANGED <<tolerances, checkpoints>>
      BY <2>1, <2>4 DEF RSend, LockBook, ReadTolerance, LoadLines, LoadTolerance, RFail
    <3> QED BY <3>1 DEF RecordsAreAppended
  <2> QED BY <2>2, <2>3, <2>4
<1> QED BY <1>1, ReconciliationFits, PTL DEF ReconSpec

-----------------------------------------------------------------------------
(*                              TOGETHER                                   *)
-----------------------------------------------------------------------------

\* Every service runs as its own specification says.
LEMMA ServicesRun == RecordsSpec => PortfolioSpec /\ ReconSpec /\ JournalSpec
<1>1. RecordsInit => PortfolioInit /\ ReconInit /\ JournalInit
  BY DEF RecordsInit
<1>2. [RecordsNext]_recordsVars =>
          [PortfolioNext]_portfolioVars /\ [ReconNext]_reconVars /\ [JournalNext]_journalVars
  BY DEF RecordsNext, recordsVars, PortfolioStep, ReconStep, JournalStep
<1> QED BY <1>1, <1>2, PTL DEF RecordsSpec, PortfolioSpec, ReconSpec, JournalSpec

\* The tables and requests of the three services hold values of their types: no
\* id of an open snapshot is seen, stored decimals have stored digits, and a
\* request that has ended holds no lock.
THEOREM RecordsAreTyped == RecordsSpec => []RecordsTypeOK
<1>1. ReconSpec => []ReconTypeOK
  BY ReconInvTyped, ReconciliationFits, PTL
<1>2. PortfolioTypeOK /\ ReconTypeOK /\ JournalTypeOK => RecordsTypeOK
  BY DEF RecordsTypeOK
<1> QED BY <1>1, <1>2, ServicesRun, PortfolioTypeCorrect, TypeCorrect, PTL

\* What is proved of the services holds of them together.
THEOREM RecordsHold ==
    RecordsSpec => [](SnapshotsStand /\ ReconciliationHolds /\ EvidenceIsSound /\ ReconstructsWhatStands)
BY ServicesRun, SnapshotsHold, CheckpointsCanBeAudited, EvidenceHolds, ReconstructionHolds, PTL
=============================================================================
