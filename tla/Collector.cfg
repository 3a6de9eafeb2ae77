SPECIFICATION FairCollectorSpec
CONSTANTS
    s1 = s1
    c1 = c1
    c2 = c2
    w1 = w1
    w2 = w2
    Schedule = {s1}
    Config <- MCConfig
    NoConfig = NoConfig
    MaxAttempts = 2
    LeaseTime = 1
    Interval = 1
    Horizon = 2
    Run <- MCRun
    Content = {c1, c2}
    NoContent = NoContent
    PageLimit = 2
    Process = {w1, w2}
    Reliable = {w1}
    NoClaim = NoClaim
INVARIANTS
    CollectorTypeOK
    RunRecordsHold
    ReportsAreFenced
    NoOccurrenceSkipped
    SucceededRunIsWhole
PROPERTIES
    SchedulesMove
