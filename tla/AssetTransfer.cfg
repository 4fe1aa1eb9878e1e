SPECIFICATION Spec
CONSTANTS
    Requests = {r1, r2}
    Length = 1
    Cap = 1
    MaxOpens = 2
    MaxChanges = 1
SYMMETRY Symmetry
INVARIANTS TypeOK StreamInOrder OneBinding A1CapHolds
CHECK_DEADLOCK FALSE
