SPECIFICATION LiveSpec
CONSTANTS
    s1 = s1
    s2 = s2
    Sessions <- TwoSessions
    Ordinals <- One
    XOrdinals <- One
    Rounds = 2
    MaxCancels = 0
    MaxRestarts = 0
    Crashes = TRUE
    MaxRetries = 1
    MaxDisconnects = 1
CHECK_DEADLOCK FALSE
INVARIANTS NothingForgotten
PROPERTIES EverythingSettles
