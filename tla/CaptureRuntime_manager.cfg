SPECIFICATION FairSpec
CONSTANTS
  l1 = l1
  l2 = l2
  Leases <- MCLeases
  MaxGeneration = 3
INVARIANTS
  ManagerSound
PROPERTIES
  OwnersFinal
  ImplementsProfile
  TransitionEnds
