SPECIFICATION EASpec
CONSTANTS
  Works = {w1}
  Times = {0, 1, 2, 3, 4, 5}
  EvidenceAge = 3
  BindingAge = 2
  MaxVersion = 3
CHECK_DEADLOCK FALSE
INVARIANTS
  EvidenceSound
  RevokedForGood
PROPERTIES
  ImplementsSeam
