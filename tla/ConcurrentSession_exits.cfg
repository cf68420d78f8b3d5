SPECIFICATION CSSpec
CONSTANTS
  Works = {w1}
  Windows = {a}
  Setups = {"independent", "authorized"}
  MaxEpoch = 2
  Exits <- AnyExit
CHECK_DEADLOCK FALSE
INVARIANTS
  AdmissionSound
  PortsAgree
PROPERTIES
  EndedWorkStays
