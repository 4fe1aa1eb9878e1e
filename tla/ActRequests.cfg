SPECIFICATION Spec
CONSTANTS
    Tabs = {t1}
    Origins = {o1}
    Audiences = {a1}
    NoTab = NoTab
    NoAudience = NoAudience
    Agent = a1
    Ids = {i1, i2}
    MaxCompleted = 1
    MaxGeneration = 4
    MaxBindings = 2
    MaxPage = 2
    MaxObserved = 1
    MaxCancels = 1
SYMMETRY Symmetry
INVARIANTS TypeOK OneWriteAtATime OneEffect
PROPERTIES LandsWhereObserved EffectIsRecorded SentUnderItsClaim
CHECK_DEADLOCK FALSE
