SPECIFICATION FairSpec
CONSTANTS
    r1 = r1
    r2 = r2
    i1 = i1
    i2 = i2
    Requests = {r1, r2}
    CancelCalls = {k1, k2}
    IDs = {i1, i2}
    IdOf <- UniqueIds
    MaxHistory = 1
    FlushMayFail = TRUE
    ClientsWait = TRUE
    NoTask = NoTask
    NoRun = NoRun
CHECK_DEADLOCK FALSE
INVARIANTS
    TypeOK
    CancelsExact
    ActiveIsStored
    CancelTakesEffect
PROPERTIES
    ImplementsTaskLife
    RunsSettle
