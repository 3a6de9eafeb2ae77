SPECIFICATION FairWorkerSpec
CONSTANTS
    j1 = j1
    j2 = j2
    w1 = w1
    w2 = w2
    id1 = id1
    Job = {j1, j2}
    ScenarioJob = {j1}
    WorkerId = {id1}
    NoWorker = NoWorker
    NoJob = NoJob
    AttemptLimit = 2
    MaxAttempts <- MCMaxAttempts
    MaxLease = 2
    MaxDelay = 0
    Worker = {w1, w2}
    IdOf <- MCIdOf
    Reliable = {w1}
INVARIANTS
    WorkerTypeOK
    RunMatchesJob
    OneOwner
    AttemptsMatchJob
PROPERTIES
    FinishedRunIsFinal
    JobsEnd
