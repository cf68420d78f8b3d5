SPECIFICATION LiveSpec
CONSTANTS
    s1 = s1
    s2 = s2
    Sessions <- OneSession
    Ordinals <- One
    XOrdinals <- One
    Rounds = 1
    MaxCancels = 0
    MaxRestarts = 1
    Crashes = FALSE
    MaxRetries = 0
    MaxDisconnects = 0
CHECK_DEADLOCK FALSE
PROPERTIES FinalizationHappens
