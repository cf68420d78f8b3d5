SPECIFICATION CSFairSpec
CONSTANTS
  Works = {w1}
  Windows = {a}
  Setups = {"independent", "authorized"}
  MaxEpoch = 2
  Exits <- CollectorGone
CHECK_DEADLOCK FALSE
INVARIANTS
  AdmissionSound
  PortsAgree
PROPERTIES
  EndedWorkStays
  ParentCleanupEnds
