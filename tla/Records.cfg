SPECIFICATION Spec
CONSTANTS
    p1 = p1
    p2 = p2
    a1 = a1
    a2 = a2
    i1 = i1
    i2 = i2
    q1 = q1
    q2 = q2
    w1 = w1
    w2 = w2
    PortfolioId = {p1, p2}
    AccountId = {a1, a2}
    InstrumentId = {i1, i2}
    SnapshotId = {q1, q2}
    NoSnapshot = NoSnapshot
    Entry = {"X", "Y", "id1", "id2"}
    AccountName = {"main"}
    Editor = {w1, w2}
    Currency = {"TRY"}
    Status = {"active", "delisted"}
    PRequest <- MCPRequest
    Book = {a1, a2}
    RValuation <- MCRValuation
    Fine = 2
    MinTolerance = 2
    PerBasisPoint = 3
    Clerk = {w1, w2}
    RRequest <- MCRRequest
    MaxTolerances = 2
    MaxCheckpoints = 1
    DayLength = 2
    Digits = 2
    InstrumentRow <- MCInstrument
    JAccount <- MCJAccount
    JSnapshot <- MCJSnapshot
    JValuation <- MCJValuation
    JRun <- MCJRun
    JRows <- MCJRows
    JObject = {"o1", "o2", "o3"}
    JDraft <- MCJDraft
    JCaller = {w1, w2}
    MaxEvents = 3
    MaxDamaged = 1
INVARIANTS
    RecordsTypeOK
    SnapshotsStand
    ReconciliationHolds
    EvidenceIsSound
    ReconstructsWhatStands
CHECK_DEADLOCK FALSE
SYMMETRY Symmetry
