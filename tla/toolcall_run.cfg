SPECIFICATION CallFairSpec
CONSTANTS
    Servers = {s1}
    Callers = {c1, c2}
    Conns = {k1, k2}
    MaxOpen = 2
    MaxIdle = 1
    NoConn = NoConn
    Tasks = {t1, t2}
    Stdio = {s1}
    MaxCalls = 2
    MayCrash = TRUE
    NoTask = NoTask
CHECK_DEADLOCK FALSE
INVARIANTS
    CallTypeOK
    AnswersMatch
    ChildrenOwned
PROPERTY StdioCallsEnd
