SPECIFICATION FairSpec
CONSTANTS
    a = a
    b = b
    c = c
    IDs = {a, b, c}
    NoId = NoId
    Tasks <- MCTasks
CHECK_DEADLOCK FALSE
INVARIANTS
    TypeOK
    ValidateExact
    PlanCorrect
PROPERTY Decides
