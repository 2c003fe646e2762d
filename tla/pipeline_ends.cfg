SPECIFICATION FairSpec
CONSTANTS
    w1 = w1
    w2 = w2
    Workers <- TwoWorkers
    NumScenarios = 3
    MinBatch = 1
    MaxBatch = 2
    MaxOff = 0
    QueueMax = 1
    StepLimits <- Unlimited
    DiscardLimit = 2
    EvalEvery = 1
    HasEval = TRUE
    EvalAtStart = TRUE
    Outcomes <- GoodFlatFailed
    MayStop = TRUE
    RetryInProcess = FALSE
    MaxRuns = 1
PROPERTY AlwaysEnds
CHECK_DEADLOCK FALSE
