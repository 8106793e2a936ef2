SPECIFICATION ServiceSpec
CONSTANTS
    r1 = r1
    r2 = r2
    i1 = i1
    i2 = i2
    Requests = {r1, r2}
    CancelCalls = {k1}
    IDs = {i1, i2}
    IdOf <- UniqueIds
    MaxHistory = 1
    FlushMayFail = TRUE
    ClientsWait = FALSE
    NoTask = NoTask
    NoRun = NoRun
    NoStatus = NoStatus
INVARIANTS
    PendingIsUntouched
    FileAgrees
PROPERTY GracefulFinishes
