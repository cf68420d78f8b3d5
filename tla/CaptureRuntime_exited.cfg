SPECIFICATION Spec
CONSTANTS
  l1 = l1
  l2 = l2
  Leases <- MCLeases
  MaxGeneration = 3
INVARIANT
  ExitedOwnerNotReady
