SPECIFICATION Spec
CONSTANTS
    w1 = w1
    w2 = w2
    Workers <- TwoWorkers
    MaxOff = 1
    KlLag = 1
    UsesKl = TRUE
    Interval = 2
    StepMax = 4
    RunMax = 2
SYMMETRY WorkerSymmetry
INVARIANTS
    LeasedServed
    KlReferenceKept
    LeasesCounted
    NothingLeaked
PROPERTIES
    StepNeverGoesBack
CHECK_DEADLOCK FALSE
