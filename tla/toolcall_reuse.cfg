SPECIFICATION CallFairSpec
CONSTANTS
    Servers = {s1}
    Callers = {c1}
    Conns = {k1}
    MaxOpen = 2
    MaxIdle = 1
    NoConn = NoConn
    Tasks = {t1, t2}
    Stdio = {s1}
    MaxCalls = 2
    MayCrash = FALSE
    NoTask = NoTask
CHECK_DEADLOCK FALSE
INVARIANT ReuseWorks
