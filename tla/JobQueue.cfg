SPECIFICATION Spec
CONSTANTS
    j1 = j1
    j2 = j2
    w1 = w1
    w2 = w2
    Job = {j1, j2}
    WorkerId = {w1, w2}
    NoWorker = NoWorker
    AttemptLimit = 3
    MaxAttempts <- MCMaxAttempts
    MaxLease = 2
    MaxDelay = 1
SYMMETRY Symmetry
INVARIANTS
    TypeOK
    AttemptBudget
    LeaseMatchesAttempt
    EvidenceMatchesJob
    ResultOfLatestAttempt
PROPERTIES
    TerminalIsFinal
    ImplementsLifecycle
