SPECIFICATION PartsSpec
CONSTANTS
    MaxCalls = 3
    MaxItems = 2
    NumLayers = 4
    NumSlots = 3
    Residents <- AnyResidents
    MaxPasses = 2
    MaxJobs = 2
INVARIANTS
    PartsWellFormed
    GpuExclusive
    ServedWhole
    PackedAsAlone
    AttentionExact
    StreamingSafe
PROPERTIES
    UpdatesSound
    CallsEnd
    PartsEnd
    CacheKeepsPrefixList
CHECK_DEADLOCK FALSE
