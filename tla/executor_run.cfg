SPECIFICATION FairSpec
CONSTANTS
    a = a
    b = b
    c = c
    d = d
    Steps = {a, b, c, d}
    Jobs <- MCJobs
    EventCap = 1
    CtxAware = TRUE
    LateCancels = TRUE
CHECK_DEADLOCK FALSE
INVARIANTS
    TypeOK
    DependenciesFirst
    NoSendAfterClose
    EventProtocol
    DeclaredRefsResolve
    EndMatchesSteps
    NeverStuck
PROPERTIES
    FailFast
    ImplementsDagRun
    Ends
