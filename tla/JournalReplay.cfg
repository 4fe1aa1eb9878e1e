SPECIFICATION Spec
CONSTANTS
    Ids = {i1}
    Clicks = {c}
    Typed = {x, y}
    Operations = {m, n}
    MultiStep = {m}
    NoPayload = NoPayload
    Horizon = 1
    MaxDurable = 1
    MaxPending = 1
    MayCorrupt = TRUE
    MaxClock = 3
    MaxRuns = 2
SYMMETRY Symmetry
INVARIANTS TypeOK ReplaysOwnRequest
CHECK_DEADLOCK FALSE
