------------------------------ MODULE Portfolio ------------------------------
(***************************************************************************)
(* Portfolios, accounts, instruments and snapshots:                        *)
(* internal/application/portfolio/service.go over the statements of        *)
(* internal/platform/database/portfolio.sql.go.                            *)
(*                                                                         *)
(* CreateInstrument, CreateAccount and CreateSnapshot take several         *)
(* statements, each a step here; the other handlers are one statement.     *)
(* CreateSnapshot reads what it needs before its transaction begins, so    *)
(* what it found may be deleted before it inserts.  An inserted row holds  *)
(* a key share on the rows it refers to, and an entry of a unique index,   *)
(* until its transaction ends; who wants to delete the one or to insert    *)
(* the other waits.                                                        *)
(***************************************************************************)
EXTENDS Naturals, FiniteSets, Sequences, SequencesExt

CONSTANTS
    PortfolioId, AccountId, InstrumentId, SnapshotId,   \* ids gen_random_uuid draws
    NoSnapshot,                     \* supersedes_snapshot_id IS NULL
    Entry,                          \* symbols and (namespace, external id) pairs
    AccountName,
    Currency, Status,               \* reporting currencies and instrument states
    Editor,                         \* concurrent requests
    PRequest                        \* the requests they may send

VARIABLES
    portfolios,     \* reporting currency of each portfolio
    accounts,       \* [portfolio, name] of each account
    instruments,    \* [type, status, entries] of each instrument
    snapshots,      \* [portfolio, supersedes, lines] of each snapshot
    pPhase,         \* the next statement of each request
    pRequest,       \* what each editor has sent
    pRow,           \* the id of the row it inserts
    pDone,          \* how many lines or identifiers it has dealt with
    pAnswer         \* what it was told

portfolioVars == <<portfolios, accounts, instruments, snapshots,
                   pPhase, pRequest, pRow, pDone, pAnswer>>

InstrumentType == {"cash", "fixed_rate_bond"}   \* the other types are as cash
NeverUsed == [row |-> "never used"]
Deleted   == [row |-> "deleted"]
Absent    == {NeverUsed, Deleted}
LineInput == [account : AccountId, instrument : InstrumentId,
              numbers : {"valid", "malformed"}, duration : {"null", "zero", "positive"}]

\* Requests that pass the checks made before any statement.
AccountInput == [op : {"account"}, portfolio : PortfolioId, name : AccountName]
InstrumentInput == [op : {"instrument"}, type : InstrumentType, status : Status,
                    entries : Seq(Entry)]
SnapshotInput == [op : {"snapshot"}, portfolio : PortfolioId,
                  supersedes : SnapshotId \cup {NoSnapshot}, lines : Seq(LineInput)]

\* A symbol is required, and at least one line.
ASSUME PortfolioAssumption ==
    /\ NoSnapshot \notin SnapshotId
    /\ \A r \in PRequest :
          \/ r \in AccountInput
          \/ r \in InstrumentInput /\ r.entries # <<>>
          \/ r \in SnapshotInput /\ r.lines # <<>>

Live(rows, id) == rows[id] \notin Absent

NothingAsked == [op |-> "none"]
PPhase == {"idle", "portfolio", "account", "symbol", "identifiers", "prepare",
           "snapshot", "lines", "commit"}
PAnswers == {"none", "created", "not found", "conflict", "invalid", "error"}

PortfolioInit ==
    /\ portfolios = [p \in PortfolioId |-> NeverUsed]
    /\ accounts = [a \in AccountId |-> NeverUsed]
    /\ instruments = [i \in InstrumentId |-> NeverUsed]
    /\ snapshots = [s \in SnapshotId |-> NeverUsed]
    /\ pPhase = [w \in Editor |-> "idle"]
    /\ pRequest = [w \in Editor |-> NothingAsked]
    /\ pRow = [w \in Editor |-> NoSnapshot]
    /\ pDone = [w \in Editor |-> 0]
    /\ pAnswer = [w \in Editor |-> "none"]

-----------------------------------------------------------------------------
(* The statements of portfolio.sql.go.                                     *)

GetPortfolio(p) == Live(portfolios, p)
GetAccount(a) == Live(accounts, a)
GetPortfolioInstrument(i) == Live(instruments, i)
GetPortfolioSnapshot(s) == Live(snapshots, s)

\* Transactions that have inserted a row and have not ended.
Inserting == {w \in Editor : pPhase[w] \in {"lines", "identifiers", "commit"}}

\* Rows that an open snapshot refers to.
Referred(w) ==
    IF pRequest[w].op # "snapshot" THEN {}
    ELSE {pRequest[w].portfolio} \cup
            {pRequest[w].lines[n].account : n \in 1 .. pDone[w]}
KeyShared(row) == \E w \in Inserting : row \in Referred(w)

\* Entries of unique indexes that an open instrument has made.
Entered(w) ==
    IF pRequest[w].op # "instrument" THEN {}
    ELSE {pRequest[w].entries[n] : n \in 1 .. pDone[w]}
EnteredByOther(e, w) == \E v \in Inserting \ {w} : e \in Entered(v)
Taken(e) == \E i \in InstrumentId : Live(instruments, i) /\ e \in instruments[i].entries

NameTakenIn(p, n, a) ==
    \E b \in AccountId \ {a} : GetAccount(b) /\ accounts[b] = [portfolio |-> p, name |-> n]

\* An id that no row has or had and no open transaction has drawn.
Unused(rows, id) == rows[id] = NeverUsed /\ \A v \in Inserting : pRow[v] # id

AccountsOf(p) == {a \in AccountId : GetAccount(a) /\ accounts[a].portfolio = p}
SnapshotsOf(p) == {s \in SnapshotId : GetPortfolioSnapshot(s) /\ snapshots[s].portfolio = p}
SnapshotsHolding(a) ==
    {s \in SnapshotId : /\ GetPortfolioSnapshot(s)
                        /\ \E n \in DOMAIN snapshots[s].lines :
                              snapshots[s].lines[n].account = a}

-----------------------------------------------------------------------------
(* Handlers of one statement.                                              *)

requestVars == <<pPhase, pRequest, pRow, pDone, pAnswer>>

CreatePortfolio(p, c) ==
    /\ portfolios[p] = NeverUsed
    /\ portfolios' = [portfolios EXCEPT ![p] = [currency |-> c]]
    /\ UNCHANGED <<accounts, instruments, snapshots, requestVars>>

UpdatePortfolio(p, c) ==
    /\ GetPortfolio(p)
    /\ portfolios' = [portfolios EXCEPT ![p] = [currency |-> c]]
    /\ UNCHANGED <<accounts, instruments, snapshots, requestVars>>

\* Refused by the foreign keys of accounts and snapshots.
DeletePortfolio(p) ==
    /\ GetPortfolio(p)
    /\ ~ KeyShared(p)
    /\ AccountsOf(p) = {} /\ SnapshotsOf(p) = {}
    /\ portfolios' = [portfolios EXCEPT ![p] = Deleted]
    /\ UNCHANGED <<accounts, instruments, snapshots, requestVars>>

\* Refused when the name is taken in the portfolio.
UpdateAccount(a, n) ==
    /\ GetAccount(a)
    /\ ~ NameTakenIn(accounts[a].portfolio, n, a)
    /\ accounts' = [accounts EXCEPT ![a].name = n]
    /\ UNCHANGED <<portfolios, instruments, snapshots, requestVars>>

\* Variant of DeleteAccount that only looks at committed lines.
DeleteAccountAtOnce(a) ==
    /\ GetAccount(a)
    /\ SnapshotsHolding(a) = {}
    /\ accounts' = [accounts EXCEPT ![a] = Deleted]
    /\ UNCHANGED <<portfolios, instruments, snapshots, requestVars>>

\* Refused by the foreign key of snapshot lines.
DeleteAccount(a) ==
    /\ GetAccount(a)
    /\ ~ KeyShared(a)
    /\ SnapshotsHolding(a) = {}
    /\ accounts' = [accounts EXCEPT ![a] = Deleted]
    /\ UNCHANGED <<portfolios, instruments, snapshots, requestVars>>

UpdateInstrumentStatus(i, st) ==
    /\ GetPortfolioInstrument(i)
    /\ instruments' = [instruments EXCEPT ![i].status = st]
    /\ UNCHANGED <<portfolios, accounts, snapshots, requestVars>>

-----------------------------------------------------------------------------
(* Requests of several statements.                                         *)

tables == <<portfolios, accounts, instruments, snapshots>>

PGoto(w, ph) == pPhase' = [pPhase EXCEPT ![w] = ph] /\ UNCHANGED <<pRequest, pAnswer>>

\* The request is kept where a later read can be compared with it.
PReply(w, a) ==
    /\ pPhase' = [pPhase EXCEPT ![w] = "idle"]
    /\ pAnswer' = [pAnswer EXCEPT ![w] = a]
    /\ pDone' = [pDone EXCEPT ![w] = 0]
    /\ IF a = "created" /\ pRequest[w].op = "snapshot"
       THEN UNCHANGED <<pRequest, pRow>>
       ELSE /\ pRequest' = [pRequest EXCEPT ![w] = NothingAsked]
            /\ pRow' = [pRow EXCEPT ![w] = NoSnapshot]

PSend(w, r) ==
    /\ pPhase[w] = "idle"
    /\ pPhase' = [pPhase EXCEPT ![w] =
           IF r.op = "instrument" THEN "symbol" ELSE "portfolio"]
    /\ pRequest' = [pRequest EXCEPT ![w] = r]
    /\ pAnswer' = [pAnswer EXCEPT ![w] = "none"]
    /\ pRow' = [pRow EXCEPT ![w] = NoSnapshot]
    /\ UNCHANGED <<tables, pDone>>

\* CreateAccount looks the portfolio up, then inserts.
CheckAccount(w) ==
    /\ pPhase[w] = "portfolio" /\ pRequest[w].op = "account"
    /\ IF GetPortfolio(pRequest[w].portfolio)
       THEN PGoto(w, "account") /\ UNCHANGED <<pRow, pDone>>
       ELSE PReply(w, "not found")
    /\ UNCHANGED tables

InsertAccount(w) ==
    LET p == pRequest[w].portfolio
        n == pRequest[w].name IN
    /\ pPhase[w] = "account"
    /\ IF GetPortfolio(p) /\ ~ NameTakenIn(p, n, NoSnapshot)
       THEN /\ \E a \in AccountId :
                  /\ Unused(accounts, a)
                  /\ accounts' = [accounts EXCEPT ![a] = [portfolio |-> p, name |-> n]]
            /\ PReply(w, "created")
       ELSE PReply(w, "conflict") /\ UNCHANGED accounts
    /\ UNCHANGED <<portfolios, instruments, snapshots>>

\* CreateInstrument: the row with its symbol, then its external identifiers.
InsertEntry(w) ==
    LET e == pRequest[w].entries[pDone[w] + 1] IN
    /\ pPhase[w] \in {"symbol", "identifiers"}
    /\ ~ EnteredByOther(e, w)
    /\ IF Taken(e) THEN PReply(w, "conflict") /\ UNCHANGED tables
       ELSE /\ pDone' = [pDone EXCEPT ![w] = @ + 1]
            /\ PGoto(w, IF pDone[w] + 1 = Len(pRequest[w].entries)
                        THEN "commit" ELSE "identifiers")
            /\ UNCHANGED <<tables, pRow>>

CommitInstrument(w) ==
    /\ pPhase[w] = "commit" /\ pRequest[w].op = "instrument"
    /\ \E i \in InstrumentId :
          /\ instruments[i] = NeverUsed
          /\ instruments' = [instruments EXCEPT ![i] =
                [type |-> pRequest[w].type, status |-> pRequest[w].status,
                 entries |-> ToSet(pRequest[w].entries)]]
    /\ PReply(w, "created")
    /\ UNCHANGED <<portfolios, accounts, snapshots>>

\* CreateSnapshot: the portfolio and the snapshot to supersede.
CheckSnapshot(w) ==
    LET r == pRequest[w] IN
    /\ pPhase[w] = "portfolio" /\ r.op = "snapshot"
    /\ IF \/ ~ GetPortfolio(r.portfolio)
          \/ r.supersedes # NoSnapshot /\ ~ GetPortfolioSnapshot(r.supersedes)
       THEN PReply(w, "not found")
       ELSE IF r.supersedes = NoSnapshot \/ snapshots[r.supersedes].portfolio = r.portfolio
       THEN PGoto(w, "prepare") /\ UNCHANGED <<pRow, pDone>>
       ELSE PReply(w, "invalid")
    /\ UNCHANGED tables

\* A bond has a positive duration and nothing else has one.
LineValid(p, line) ==
    /\ GetAccount(line.account) /\ accounts[line.account].portfolio = p
    /\ GetPortfolioInstrument(line.instrument)
    /\ line.numbers = "valid"
    /\ line.duration = IF instruments[line.instrument].type = "fixed_rate_bond"
                       THEN "positive" ELSE "null"

SameLine(k, l) == k.account = l.account /\ k.instrument = l.instrument

\* prepareLines reads the account and the instrument of one line after another.
PrepareLine(w) ==
    LET r == pRequest[w]
        n == pDone[w] + 1 IN
    /\ pPhase[w] = "prepare"
    /\ IF /\ LineValid(r.portfolio, r.lines[n])
          /\ \A m \in 1 .. pDone[w] : ~ SameLine(r.lines[m], r.lines[n])
       THEN IF n = Len(r.lines)
            THEN PGoto(w, "snapshot") /\ pDone' = [pDone EXCEPT ![w] = 0] /\ UNCHANGED pRow
            ELSE /\ pDone' = [pDone EXCEPT ![w] = n]
                 /\ UNCHANGED <<pPhase, pRequest, pRow, pAnswer>>
       ELSE PReply(w, "invalid")
    /\ UNCHANGED tables

\* The foreign key checks the portfolio again.
InsertSnapshot(w) ==
    /\ pPhase[w] = "snapshot"
    /\ IF GetPortfolio(pRequest[w].portfolio)
       THEN /\ \E s \in SnapshotId :
                  Unused(snapshots, s) /\ pRow' = [pRow EXCEPT ![w] = s]
            /\ PGoto(w, "lines") /\ UNCHANGED pDone
       ELSE PReply(w, "conflict")
    /\ UNCHANGED tables

\* The foreign key checks the account of each line again.
InsertLine(w) ==
    LET n == pDone[w] + 1 IN
    /\ pPhase[w] = "lines"
    /\ IF GetAccount(pRequest[w].lines[n].account)
       THEN /\ pDone' = [pDone EXCEPT ![w] = n]
            /\ PGoto(w, IF n = Len(pRequest[w].lines) THEN "commit" ELSE "lines")
            /\ UNCHANGED pRow
       ELSE PReply(w, "conflict")
    /\ UNCHANGED tables

CommitSnapshot(w) ==
    LET r == pRequest[w] IN
    /\ pPhase[w] = "commit" /\ r.op = "snapshot"
    /\ snapshots' = [snapshots EXCEPT ![pRow[w]] =
          [portfolio |-> r.portfolio, supersedes |-> r.supersedes,
           lines |-> SubSeq(r.lines, 1, pDone[w])]]
    /\ PReply(w, "created")
    /\ UNCHANGED <<portfolios, accounts, instruments>>

\* A statement fails, the database breaks a deadlock, or the client goes away.
PFail(w) ==
    /\ pPhase[w] # "idle"
    /\ PReply(w, "error")
    /\ UNCHANGED tables

PStep(w) ==
    \/ CheckAccount(w) \/ InsertAccount(w)
    \/ InsertEntry(w) \/ CommitInstrument(w)
    \/ CheckSnapshot(w) \/ PrepareLine(w)
    \/ InsertSnapshot(w) \/ InsertLine(w) \/ CommitSnapshot(w)

PortfolioNext ==
    \/ \E p \in PortfolioId, c \in Currency : CreatePortfolio(p, c) \/ UpdatePortfolio(p, c)
    \/ \E p \in PortfolioId : DeletePortfolio(p)
    \/ \E a \in AccountId : DeleteAccount(a) \/ \E n \in AccountName : UpdateAccount(a, n)
    \/ \E i \in InstrumentId, st \in Status : UpdateInstrumentStatus(i, st)
    \/ \E w \in Editor : (\E r \in PRequest : PSend(w, r)) \/ PStep(w) \/ PFail(w)

PortfolioSpec == PortfolioInit /\ [][PortfolioNext]_portfolioVars

-----------------------------------------------------------------------------
(* Properties.                                                             *)

\* What tables and requests may hold.
PortfolioTyped ==
    /\ portfolios \in [PortfolioId -> [currency : Currency] \cup Absent]
    /\ accounts \in [AccountId -> [portfolio : PortfolioId, name : AccountName] \cup Absent]
    /\ instruments \in [InstrumentId ->
          [type : InstrumentType, status : Status, entries : SUBSET Entry] \cup Absent]
    /\ snapshots \in [SnapshotId ->
          [portfolio : PortfolioId, supersedes : SnapshotId \cup {NoSnapshot},
           lines : Seq(LineInput)] \cup Absent]
    /\ pPhase \in [Editor -> PPhase]
    /\ pRequest \in [Editor -> PRequest \cup {NothingAsked}]
    /\ pRow \in [Editor -> SnapshotId \cup {NoSnapshot}]
    /\ pDone \in [Editor -> Nat]
    /\ pAnswer \in [Editor -> PAnswers]

\* Tables and requests hold values of their types, and nobody sees the row of
\* a snapshot while its transaction is open (CreateSnapshot commits at the end).
PortfolioTypeOK ==
    /\ PortfolioTyped
    /\ \A w \in Inserting : pRequest[w].op = "snapshot" => snapshots[pRow[w]] = NeverUsed

\* What a snapshot refers to is still there, whatever was deleted while the
\* request that created it was under way.
ReferencesHold ==
    /\ \A a \in AccountId : GetAccount(a) => GetPortfolio(accounts[a].portfolio)
    /\ \A s \in SnapshotId : GetPortfolioSnapshot(s) =>
          /\ GetPortfolio(snapshots[s].portfolio)
          /\ \A line \in Range(snapshots[s].lines) : GetAccount(line.account)

\* Lines are of accounts of the snapshot's own portfolio, one for each account
\* and instrument, and exactly the bonds among them have a duration.
LinesFit ==
    \A s \in SnapshotId : GetPortfolioSnapshot(s) =>
        /\ \A line \in Range(snapshots[s].lines) :
              /\ accounts[line.account].portfolio = snapshots[s].portfolio
              /\ line.duration = "positive" <=>
                    instruments[line.instrument].type = "fixed_rate_bond"
        /\ \A m, n \in DOMAIN snapshots[s].lines :
              SameLine(snapshots[s].lines[m], snapshots[s].lines[n]) => m = n

\* A client that was told its snapshot was created finds all its lines in it.
CreatedAsSent ==
    \A w \in Editor : pAnswer[w] = "created" /\ pRequest[w].op = "snapshot" =>
        /\ GetPortfolioSnapshot(pRow[w])
        /\ snapshots[pRow[w]].lines = pRequest[w].lines
        /\ snapshots[pRow[w]].supersedes = pRequest[w].supersedes

\* A correction supersedes a snapshot of its own portfolio, and no chain of
\* supersedes_snapshot_id ever closes: of any stored snapshots, one supersedes
\* none of them.
CorrectionsEnd ==
    LET stored == {s \in SnapshotId : GetPortfolioSnapshot(s)} IN
    /\ \A S \in SUBSET stored : S # {} => \E s \in S : snapshots[s].supersedes \notin S
    /\ \A s \in stored : snapshots[s].supersedes # NoSnapshot =>
          /\ snapshots[s].supersedes \in stored
          /\ snapshots[snapshots[s].supersedes].portfolio = snapshots[s].portfolio

\* A symbol or an external identifier names one instrument.
IdentifiersNameOne ==
    \A i, j \in InstrumentId :
        Live(instruments, i) /\ Live(instruments, j) /\ i # j
        => instruments[i].entries \cap instruments[j].entries = {}

\* A stored snapshot stands for ever as its client sent it, on rows that are
\* still there and still fit it, although checks, inserts and deletes of several
\* requests interleave and only foreign keys and unique indexes keep them apart.
SnapshotsStand ==
    ReferencesHold /\ LinesFit /\ CreatedAsSent /\ CorrectionsEnd /\ IdentifiersNameOne
=============================================================================
