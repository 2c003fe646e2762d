SPECIFICATION FairSpec
CONSTANTS
    a = a  b = b  s1 = s1  s2 = s2
    Services <- OneService
    Servers <- TheServers
    Poll = 1
    Grace = 1
    Sweep = 1
    CloseTimeout = 4
    MaxSignals = 0
PROPERTIES NoOrphans EndNoticed
CHECK_DEADLOCK FALSE
