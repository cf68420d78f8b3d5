SPECIFICATION Spec
CONSTANTS
    s1 = s1
    s2 = s2
    Sessions <- OneSession
    Ordinals <- One
    XOrdinals <- One
    Rounds = 1
    MaxCancels = 1
    MaxRestarts = 0
    Crashes = TRUE
    MaxRetries = 0
    MaxDisconnects = 0
CHECK_DEADLOCK FALSE
PROPERTIES CancelledStaysCancelled
