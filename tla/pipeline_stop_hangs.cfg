SPECIFICATION FairSpec
CONSTANTS
    w1 = w1
    w2 = w2
    Workers <- TwoWorkers
    NumScenarios = 4
    MinBatch = 1
    MaxBatch = 1
    MaxOff = 1
    QueueMax = 1
    StepLimits <- OneStep
    DiscardLimit = 2
    EvalEvery = 0
    HasEval = FALSE
    EvalAtStart = FALSE
    Outcomes <- GoodOnly
    MayStop = TRUE
    RetryInProcess = FALSE
    MaxRuns = 1
PROPERTY StopRequestEndsRun
CHECK_DEADLOCK FALSE
