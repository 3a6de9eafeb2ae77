SPECIFICATION Spec
CONSTANTS
    DayLength = 2
    Digits = 2
    Arrival <- MCArrival
    Earlier <- MCEarlier
    MaxArrivals = 1
    MaxClock = 2
    SnapshotLine <- MCLine
    VRequest <- MCVRequest
    Fiat = {"EUR", "TRY", "USD"}
    Alphabet <- MCAlphabet
    MaxValuations = 2
    MetricWindow = 3
    CashDays = 2
    MaxMetricInstruments = 3
    InstrumentRow <- MCInstrument
    Holder = {"a1", "a2", "a3"}
    MaxRiskRuns = 1
    SeriesRow <- MCSeries
    LaterSeries = {3}
    WalkRequest <- MCWalk
    MaxWalks = 1
    QualityRequest <- MCQuality
    MaxWindow = 4
    MaxInputs = 2
    MaxObservations = 3
    MonthLength = 4
    MaxEvaluations = 2
INVARIANTS
    AnswersRepeat
    ConversionsConnect
    WalkIsComplete
    QualityIsSound
    SealedRunVerifies
    NoLookAhead
CHECK_DEADLOCK FALSE
