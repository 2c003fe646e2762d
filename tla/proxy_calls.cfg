SPECIFICATION FairSpec
CONSTANTS
    c1 = c1
    c2 = c2
    Calls <- TwoCalls
    Answers <- AllAnswers
    MayCancel = TRUE
    MayClose = TRUE
    ChildMayDie = TRUE
    TornWrites = TRUE
    ParentMayDie = TRUE
INVARIANTS
    PendingTracked
PROPERTIES
    KeepsPromise
    AnsweredCallEnds
    NoOrphanChild
CHECK_DEADLOCK FALSE
