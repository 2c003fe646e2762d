SPECIFICATION FairSpec
CONSTANTS
    c1 = c1
    c2 = c2
    Calls <- TwoCalls
    Answers <- Undecodable
    MayCancel = FALSE
    MayClose = FALSE
    ChildMayDie = FALSE
    TornWrites = FALSE
    ParentMayDie = FALSE
PROPERTY EveryCallEnds
CHECK_DEADLOCK FALSE
