SPECIFICATION FairSpec
CONSTANTS
    a = a
    b = b
    c = c
    d = d
    Steps = {a, b, c, d}
    Jobs <- MCEndJobs
    EventCap = 1
    CtxAware = FALSE
    LateCancels = FALSE
CHECK_DEADLOCK FALSE
PROPERTY DeadlineEndsTask
