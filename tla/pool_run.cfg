SPECIFICATION FairSpec
CONSTANTS
    Servers = {s1, s2}
    Callers = {c1, c2, c3, c4}
    Conns = {k1, k2, k3}
    MaxOpen = 3
    MaxIdle = 2
    NoConn = NoConn
CHECK_DEADLOCK FALSE
INVARIANTS
    TypeOK
    ActiveIsExact
    ExclusiveUse
    NoLeak
    WithinLimits
PROPERTY CloseReleasesAll
