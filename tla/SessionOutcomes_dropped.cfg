SPECIFICATION Spec
CONSTANTS
    s1 = s1
    s2 = s2
    Sessions <- OneSession
    Ordinals <- One
    XOrdinals <- One
    Rounds = 2
    MaxCancels = 0
    MaxRestarts = 0
    Crashes = TRUE
    MaxRetries = 0
    MaxDisconnects = 0
CHECK_DEADLOCK FALSE
INVARIANTS NoLaunchDropped
