SPECIFICATION Spec
CONSTANTS
    Ids = {i1, i2}
    Clicks = {c}
    Typed = {}
    Operations = {n}
    MultiStep = {}
    NoPayload = NoPayload
    Horizon = 1
    MaxDurable = 1
    MaxPending = 2
    MayCorrupt = FALSE
    MaxClock = 2
    MaxRuns = 2
SYMMETRY Symmetry
INVARIANT JournalAhead
PROPERTIES RunsAtMostOnce CompletionIsFinal
CHECK_DEADLOCK FALSE
