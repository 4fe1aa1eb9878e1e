SPECIFICATION Spec
CONSTANTS
    Shots = {s1}
    Readers = {r1}
    Reaps = {p1}
    MaxFiles = 1
    Chunks = 2
    Attempts = 2
    MaxArtifacts = 2
    MaxBindings = 2
    MaxEvents = 1
INVARIANTS TypeOK ReadWasCovered
PROPERTIES SparesTheLive EndedGoes
CHECK_DEADLOCK FALSE
