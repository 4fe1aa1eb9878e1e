SPECIFICATION Spec
CONSTANTS
    Tabs = {t1, t2}
    Sites = {s1, s2}
    Groups = {g1}
    NoGroup = NoGroup
    NoTab = NoTab
    Calls = {c1}
    Runs = {r1, r2}
    MaxBindings = 2
    MaxUser = 2
    MaxCalls = 2
    MaxRuns = 2
    MaxWork = 3
SYMMETRY Symmetry
INVARIANTS TypeOK OwnedTabsAreShared AccessIsConsented
CHECK_DEADLOCK FALSE
