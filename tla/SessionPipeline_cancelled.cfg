SPECIFICATION Spec
CONSTANTS
    s1 = s1
    s2 = s2
    Sessions <- OneSession
    Ordinals <- One
    XOrdinals <- One
    Rounds = 2
    MaxCancels = 1
    MaxRestarts = 1
    Crashes = TRUE
    MaxRetries = 1
    MaxDisconnects = 1
CHECK_DEADLOCK FALSE
INVARIANTS SettledSession
PROPERTIES CompletedIsFinal
