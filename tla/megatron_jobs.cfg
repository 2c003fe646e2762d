SPECIFICATION FairSpec
CONSTANTS
    Modes <- AllModes
    World = 2
    MaxJobs = 3
    MaxCopies = 1
    MaxStarts = 2
INVARIANTS
    GpuExclusive
    DoneMeansSaved
    OptimizerFits
    RanksTogether
    StepsAgree
PROPERTIES
    KeepsHistory
    JobEnds
CHECK_DEADLOCK FALSE
