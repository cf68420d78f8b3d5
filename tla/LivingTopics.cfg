SPECIFICATION FairSpec
CONSTANTS
    t1 = t1
    t2 = t2
    i1 = i1
    i2 = i2
    Topics = {t1, t2}
    Items = {i1, i2}
    Clients = {1, 2}
    MaxMembers = 1
    Instances <- MCInstances
CHECK_DEADLOCK FALSE
INVARIANTS
  JobsHonest
  MembershipSound
PROPERTIES
  ReviewKept
  QueuesDrain
