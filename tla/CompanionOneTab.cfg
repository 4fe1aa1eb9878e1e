SPECIFICATION Spec
CONSTANTS
    Tabs = {t1}
    Origins = {o1, o2}
    Audiences = {a1}
    NoTab = NoTab
    NoAudience = NoAudience
    Actions = {"inspect", "interact"}
    Calls = {p}
    MaxGeneration = 3
    MaxId = 2
    MaxRuns = 2
    MaxEvents = 1
INVARIANT BindingOfLiveHost
PROPERTIES ExpiredGrantsNothing UserControlHeld ExpiryEndsAuthority
CHECK_DEADLOCK FALSE
