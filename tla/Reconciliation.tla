--------------------------- MODULE Reconciliation ---------------------------
(***************************************************************************)
(* Tolerance versions and reconciliation checkpoints:                      *)
(* internal/application/reconciliation/service.go.                         *)
(*                                                                         *)
(* Both transactions start by locking the account's row.  Valuations and   *)
(* snapshot lines never change and are constants; the reporting currency   *)
(* of the portfolio does (UpdatePortfolio), and is any of the two when it  *)
(* is read.  A decimal is an integer that counts parts of the last stored  *)
(* digit, Fine of them to a digit; what is stored is a multiple of Fine.   *)
(***************************************************************************)
EXTENDS Integers, FiniteSets, Sequences, FiniteSetsExt, Functions

CONSTANTS
    Book,               \* accounts
    RValuation,         \* id -> [state, cutoff, lines]
    Fine,               \* parts of a stored digit
    MinTolerance,       \* 0.01
    PerBasisPoint,      \* 10000
    Clerk,              \* concurrent requests
    RRequest,           \* the requests they may send
    MaxTolerances,      \* bound on tolerance versions of an account
    MaxCheckpoints      \* bound on checkpoints

VARIABLES
    tolerances,     \* rows of reconciliation_tolerance_versions
    checkpoints,    \* rows of reconciliation_checkpoints with their line checks
    bookLock,       \* the clerk that has an account's row FOR UPDATE
    rPhase,         \* the next statement of each request
    rRequest,       \* what each clerk has sent
    rVersion        \* the tolerance version it read, or is about to insert

reconVars == <<tolerances, checkpoints, bookLock, rPhase, rRequest, rVersion>>

NoClerk == "nobody"
NoAsk   == [op |-> "none"]

ReconInit ==
    /\ tolerances = {}
    /\ checkpoints = {}
    /\ bookLock = [a \in Book |-> NoClerk]
    /\ rPhase = [w \in Clerk |-> "idle"]
    /\ rRequest = [w \in Clerk |-> NoAsk]
    /\ rVersion = [w \in Clerk |-> 0]

-----------------------------------------------------------------------------
(* Decimals.                                                               *)

RAbs(x) == IF x < 0 THEN -x ELSE x

\* formatDecimal of n/d: half away from zero to the stored digits.
FormatDecimal(n, d) ==
    LET q == (2 * RAbs(n) + d * Fine) \div (2 * d * Fine) IN
    IF n < 0 THEN -(q * Fine) ELSE q * Fine

ScaleDecimal(x) == FormatDecimal(x, 1)

\* defaultTolerance, as it is read back from its text.
DefaultTolerance(nav) ==
    IF RAbs(nav) > MinTolerance * PerBasisPoint
    THEN FormatDecimal(RAbs(nav), PerBasisPoint)
    ELSE MinTolerance

\* x has only stored digits.
Stored(x) == x \in Int /\ x % Fine = 0

-----------------------------------------------------------------------------
(* Rows.                                                                   *)

LatestVersion(a) == Max({0} \cup {t.version : t \in {u \in tolerances : u.account = a}})
ToleranceRow(a, v) == CHOOSE t \in tolerances : t.account = a /\ t.version = v

LinesOf(v) == DOMAIN RValuation[v].lines
AccountLines(v, a) == {l \in LinesOf(v) : RValuation[v].lines[l].account = a}

\* Lines of an account without a valid amount.
Unvalued(v, a) == {l \in AccountLines(v, a) : RValuation[v].lines[l].state # "valid"}

\* What portfolios.reporting_currency may be, and a request may ask for.
Reporting == {"TRY", "USD"}

\* try_amount or usd_amount of a line, as the request asks.
Amount(r, l) == RValuation[r.valuation].lines[l].amount[r.currency]

Checked(r) == {r.checks[n].line : n \in DOMAIN r.checks}
ExternalNAV(r) == ScaleDecimal(r.nav)
ValuationNAV(r) ==
    SumFunction([l \in AccountLines(r.valuation, r.account) |-> Amount(r, l)])
LineTotal(r) == SumFunction([n \in DOMAIN r.checks |-> ScaleDecimal(r.checks[n].amount)])

\* The checks are distinct lines of the account, so counting them is enough.
AllChecked(r) == Len(r.checks) = Cardinality(AccountLines(r.valuation, r.account))

\* What the database and the decoded requests give: amounts of valid lines have
\* stored digits, 0.01 has them too, a tolerance is not negative.
ReconAssumption ==
    /\ NoClerk \notin Clerk
    /\ Fine \in Nat \ {0} /\ PerBasisPoint \in Nat \ {0}
    /\ MinTolerance \in Nat /\ Stored(MinTolerance)
    /\ \A v \in DOMAIN RValuation :
          /\ IsFiniteSet(LinesOf(v))
          /\ \A l \in LinesOf(v), c \in Reporting :
                RValuation[v].lines[l].state = "valid" => Stored(RValuation[v].lines[l].amount[c])
    /\ \A r \in RRequest :
          /\ r.op \in {"tolerance", "checkpoint"} /\ r.account \in Book
          /\ r.op = "tolerance" => r.amount \in Nat
          /\ r.op = "checkpoint" =>
                /\ r.valuation \in DOMAIN RValuation /\ r.nav \in Int
                /\ r.currency \in Reporting
                /\ Len(r.checks) \in Nat /\ DOMAIN r.checks = 1 .. Len(r.checks)
                /\ \A n \in DOMAIN r.checks : r.checks[n].amount \in Int

ASSUME ReconAssumed == ReconAssumption

-----------------------------------------------------------------------------
(* Requests.                                                               *)

RGoto(w, ph) == rPhase' = [rPhase EXCEPT ![w] = ph] /\ UNCHANGED rRequest

\* Variant of REnd that keeps the lock of a request that ends.
REndLocked(w) ==
    /\ rPhase' = [rPhase EXCEPT ![w] = "idle"]
    /\ rRequest' = [rRequest EXCEPT ![w] = NoAsk]
    /\ rVersion' = [rVersion EXCEPT ![w] = 0]
    /\ UNCHANGED bookLock

\* Commit or deferred rollback.
REnd(w) ==
    /\ rPhase' = [rPhase EXCEPT ![w] = "idle"]
    /\ rRequest' = [rRequest EXCEPT ![w] = NoAsk]
    /\ rVersion' = [rVersion EXCEPT ![w] = 0]
    /\ bookLock' = [a \in Book |-> IF bookLock[a] = w THEN NoClerk ELSE bookLock[a]]

\* Validation before the transaction: a line given twice is a conflict.
RSend(w, r) ==
    /\ rPhase[w] = "idle"
    /\ rRequest' = [rRequest EXCEPT ![w] = r]
    /\ rPhase' = [rPhase EXCEPT ![w] = "lock"]
    /\ r.op = "checkpoint" => Cardinality(Checked(r)) = Len(r.checks)
    /\ UNCHANGED <<tolerances, checkpoints, bookLock, rVersion>>

\* Variant of LockBook without FOR UPDATE.
ReadBook(w) ==
    /\ rPhase[w] = "lock"
    /\ RGoto(w, "read")
    /\ UNCHANGED <<tolerances, checkpoints, bookLock, rVersion>>

\* SELECT ... FROM accounts ... FOR UPDATE.  An account that is not there ends the
\* request as RFail does.
LockBook(w) ==
    LET a == rRequest[w].account IN
    /\ rPhase[w] = "lock"
    /\ bookLock[a] = NoClerk
    /\ bookLock' = [bookLock EXCEPT ![a] = w]
    /\ RGoto(w, "read")
    /\ UNCHANGED <<tolerances, checkpoints, rVersion>>

\* CreateTolerance: the next version, then the row.
ReadTolerance(w) ==
    /\ rPhase[w] = "read" /\ rRequest[w].op = "tolerance"
    /\ rVersion' = [rVersion EXCEPT ![w] = LatestVersion(rRequest[w].account) + 1]
    /\ RGoto(w, "insert")
    /\ UNCHANGED <<tolerances, checkpoints, bookLock>>

InsertTolerance(w) ==
    LET r == rRequest[w] IN
    /\ rPhase[w] = "insert" /\ r.op = "tolerance"
    /\ rVersion[w] <= MaxTolerances
    /\ tolerances' = tolerances \cup
          {[account |-> r.account, version |-> rVersion[w], amount |-> ScaleDecimal(r.amount)]}
    /\ REnd(w)
    /\ UNCHANGED checkpoints

\* Create: the first condition that fails, if any, when live is the portfolio's
\* reporting currency.  The checks after the tolerance is read are evaluated with
\* those before it: a refusal only rolls back.
Refusal(r, live) ==
    LET v == RValuation[r.valuation]
        mine == AccountLines(r.valuation, r.account)
    IN CASE v.state # "valid"         -> "VALUATION_NOT_VALID"
         [] live # r.currency         -> "CURRENCY_MISMATCH"
         [] v.cutoff # r.cutoff       -> "CUTOFF_MISMATCH"
         [] mine = {}                 -> "ACCOUNT_HAS_NO_LINES"
         [] Unvalued(r.valuation, r.account) # {} -> "VALUATION_ACCOUNT_LINES_INCOMPLETE"
         [] ~ Checked(r) \subseteq LinesOf(r.valuation) -> "LINE_CHECK_UNKNOWN"
         [] ~ Checked(r) \subseteq mine -> "LINE_CHECK_CROSS_ACCOUNT"
         [] AllChecked(r) /\ LineTotal(r) # ExternalNAV(r) -> "LINE_CHECK_TOTAL_MISMATCH"
         [] ~ AllChecked(r) /\ r.complete -> "LINE_CHECK_INCOMPLETE"
         [] OTHER                     -> "none"

LoadLines(w) ==
    /\ rPhase[w] = "read" /\ rRequest[w].op = "checkpoint"
    /\ \E live \in Reporting :
          IF Refusal(rRequest[w], live) = "none"
          THEN RGoto(w, "tolerance") /\ UNCHANGED <<bookLock, rVersion>>
          ELSE REnd(w)
    /\ UNCHANGED <<tolerances, checkpoints>>

LoadTolerance(w) ==
    /\ rPhase[w] = "tolerance"
    /\ rVersion' = [rVersion EXCEPT ![w] = LatestVersion(rRequest[w].account)]
    /\ RGoto(w, "insert")
    /\ UNCHANGED <<tolerances, checkpoints, bookLock>>

EffectiveTolerance(r, version) ==
    IF version = 0 THEN DefaultTolerance(ExternalNAV(r))
    ELSE ToleranceRow(r.account, version).amount

CheckOf(r, n) ==
    LET external == ScaleDecimal(r.checks[n].amount) IN
    [line |-> r.checks[n].line, external |-> external,
     difference |-> external - Amount(r, r.checks[n].line)]

LineCheckState(r) ==
    IF r.checks = <<>> THEN "none"
    ELSE IF AllChecked(r) THEN "complete" ELSE "partial"

\* The checkpoint with its line checks, and the commit.
InsertCheckpoint(w) ==
    LET r == rRequest[w]
        difference == RAbs(ExternalNAV(r) - ValuationNAV(r))
        tolerance == EffectiveTolerance(r, rVersion[w])
    IN
    /\ rPhase[w] = "insert" /\ r.op = "checkpoint"
    /\ Cardinality(checkpoints) < MaxCheckpoints
    /\ checkpoints' = checkpoints \cup
          {[account |-> r.account, valuation |-> r.valuation,
            external |-> ExternalNAV(r), nav |-> ValuationNAV(r),
            difference |-> difference,
            tolerance |-> FormatDecimal(tolerance, 1), version |-> rVersion[w],
            state |-> IF difference <= tolerance THEN "reconciled" ELSE "unreconciled",
            lineState |-> LineCheckState(r),
            checks |-> {CheckOf(r, n) : n \in DOMAIN r.checks}]}
    /\ REnd(w)
    /\ UNCHANGED tolerances

RFail(w) ==
    /\ rPhase[w] # "idle"
    /\ REnd(w)
    /\ UNCHANGED <<tolerances, checkpoints>>

ReconNext ==
    \E w \in Clerk :
        \/ \E r \in RRequest : RSend(w, r)
        \/ LockBook(w) \/ ReadTolerance(w) \/ InsertTolerance(w)
        \/ LoadLines(w) \/ LoadTolerance(w) \/ InsertCheckpoint(w)
        \/ RFail(w)

ReconSpec == ReconInit /\ [][ReconNext]_reconVars

-----------------------------------------------------------------------------
(* Properties.                                                             *)

\* Stored decimals have only stored digits, and only open requests hold locks.
ReconTypeOK ==
    /\ \A t \in tolerances : t.account \in Book /\ t.version \in Nat \ {0} /\ Stored(t.amount)
    /\ \A c \in checkpoints :
          /\ c.account \in Book /\ c.version \in Nat
          /\ \A x \in {c.external, c.nav, c.difference, c.tolerance} : Stored(x)
    /\ rPhase \in [Clerk -> {"idle", "lock", "read", "tolerance", "insert"}]
    /\ \A a \in Book : bookLock[a] # NoClerk => rPhase[bookLock[a]] # "idle"

\* What a request has read about the account's tolerances stays true until it
\* writes: a new version is the next free one, and a checkpoint is judged by the
\* version that is the latest when it is recorded.
ToleranceStaysCurrent ==
    \A w \in Clerk : rPhase[w] = "insert" =>
        LatestVersion(rRequest[w].account) =
            IF rRequest[w].op = "tolerance" THEN rVersion[w] - 1 ELSE rVersion[w]

\* A reader of a checkpoint comes to the recorded state from the recorded
\* amounts: they were rounded before they were compared.
StateFollowsFromRecord ==
    \A c \in checkpoints :
        /\ c.difference = RAbs(c.external - c.nav)
        /\ c.state = "reconciled" <=> c.difference <= c.tolerance
        /\ c.version # 0 => [account |-> c.account, version |-> c.version,
                             amount |-> c.tolerance] \in tolerances

\* Line checks that are called complete account for all of the difference.
CompleteChecksAddUp ==
    \A c \in checkpoints : c.lineState = "complete" =>
        /\ {k.line : k \in c.checks} = AccountLines(c.valuation, c.account)
        /\ SumFunction([k \in c.checks |-> k.difference]) = c.external - c.nav

\* A checkpoint can be audited from its row alone: it was judged by the tolerance
\* in force, by the rounded amounts it records, and its lines add up.
ReconciliationHolds ==
    ToleranceStaysCurrent /\ StateFollowsFromRecord /\ CompleteChecksAddUp
=============================================================================
