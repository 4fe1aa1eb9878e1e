SPECIFICATION Spec
CONSTANTS
    Ids = {i1}
    Clicks = {c}
    Typed = {}
    Operations = {m, n}
    MultiStep = {m}
    NoPayload = NoPayload
    Horizon = 1
    MaxDurable = 1
    MaxPending = 1
    MayCorrupt = FALSE
    MaxClock = 3
    MaxRuns = 2
INVARIANT CompletedMeansApplied
CHECK_DEADLOCK FALSE
