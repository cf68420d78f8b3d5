SPECIFICATION Spec
CONSTANTS
    s1 = s1
    s2 = s2
    Sessions <- OneSession
    Ordinals <- Two
    XOrdinals <- One
    Rounds = 2
    MaxCancels = 0
    MaxRestarts = 1
    Crashes = TRUE
    MaxRetries = 1
    MaxDisconnects = 1
CHECK_DEADLOCK FALSE
INVARIANTS
  CommandInv
  RunsInOrder
  WholePublication
  NothingForgotten
PROPERTIES
  CommandsAreNotRecycled
