SPECIFICATION Spec
CONSTANTS
    t1 = t1
    t2 = t2
    i1 = i1
    i2 = i2
    Topics = {t1, t2}
    Items = {i1, i2}
    Clients = {1, 2}
    MaxMembers = 1
    Instances <- MCDrifted
CHECK_DEADLOCK FALSE
INVARIANTS
  SettledIsPresent
