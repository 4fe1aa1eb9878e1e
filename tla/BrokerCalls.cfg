SPECIFICATION Spec
CONSTANTS
    c1 = c1
    c2 = c2
    Calls = {c1, c2}
    Ids = {i1, i2}
    Operations = {i2}
    Inputs = {i1}
    OpsOf <- MCOps
    Abortable = {c1}
    MaxAttempts = 2
    MaxPending = 1
    MaxSessions = 2
    MaxBindings = 2
    MaxRuns = 2
INVARIANTS
    TypeOK
    NotStartedIsTrue
    CompletedIsTrue
PROPERTY HostFreesUp
CHECK_DEADLOCK FALSE
