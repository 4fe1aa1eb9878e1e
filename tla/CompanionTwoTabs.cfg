SPECIFICATION Spec
CONSTANTS
    Tabs = {t1, t2}
    Origins = {o1}
    Audiences = {a1}
    NoTab = NoTab
    NoAudience = NoAudience
    Actions = {"inspect", "interact"}
    Calls = {p}
    MaxGeneration = 3
    MaxId = 1
    MaxRuns = 1
    MaxEvents = 1
SYMMETRY Symmetry
INVARIANTS TypeOK AuthorityCoherent ClaimWithinScope
PROPERTY GenerationNamesClaim
CHECK_DEADLOCK FALSE
