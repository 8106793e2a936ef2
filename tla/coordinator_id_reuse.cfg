SPECIFICATION Spec
CONSTANTS
    r1 = r1
    r2 = r2
    i1 = i1
    i2 = i2
    Requests = {r1, r2}
    CancelCalls = {k1}
    IDs = {i1}
    IdOf <- SameId
    MaxHistory = 1
    FlushMayFail = FALSE
    ClientsWait = TRUE
    NoTask = NoTask
    NoRun = NoRun
CHECK_DEADLOCK FALSE
INVARIANT CancelTakesEffect
