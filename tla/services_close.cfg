SPECIFICATION Spec
CONSTANTS
    a = a  b = b  s1 = s1  s2 = s2
    Services <- TheServices
    Servers <- TheServers
    Poll = 1
    Grace = 1
    Sweep = 1
    CloseTimeout = 4
    MaxSignals = 1
SYMMETRY Symmetry
INVARIANTS
    ClosedMeansGone
    SignalClosesAll
CHECK_DEADLOCK FALSE
