SPECIFICATION CFairSpec
CONSTANTS
  Leases = {l1}
  MaxGeneration = 2
  Modes = {"browser", "headless"}
  Roles = {"source", "native", "collection"}
  Shutdowns = TRUE
INVARIANTS
  CoordinatorSound
PROPERTIES
  SwitchHappens
