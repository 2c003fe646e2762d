SPECIFICATION Spec
CONSTANTS
    w1 = w1
    w2 = w2
    Workers <- TwoWorkers
    NumScenarios = 3
    MinBatch = 1
    MaxBatch = 2
    MaxOff = 1
    QueueMax = 2
    StepLimits <- Limits
    DiscardLimit = 2
    EvalEvery = 1
    HasEval = TRUE
    EvalAtStart = FALSE
    Outcomes <- AllOutcomes
    MayStop = TRUE
    RetryInProcess = FALSE
    MaxRuns = 2
SYMMETRY WorkerSymmetry
INVARIANTS
    FreshBatch
    StepsSaved
    GroupsConserved
    EvalLeasesAccounted
PROPERTIES
    SavedMonotone
    NoEvalLeftBehind
CHECK_DEADLOCK FALSE
