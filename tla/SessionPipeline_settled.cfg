SPECIFICATION Spec
CONSTANTS
    s1 = s1
    s2 = s2
    Sessions <- TwoSessions
    Ordinals <- One
    XOrdinals <- One
    Rounds = 1
    MaxCancels = 1
    MaxRestarts = 1
    Crashes = TRUE
    MaxRetries = 1
    MaxDisconnects = 0
CHECK_DEADLOCK FALSE
INVARIANTS
  SettledSession
  PauseClearsX
PROPERTIES
  CompletedIsFinal
