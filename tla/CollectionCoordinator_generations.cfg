SPECIFICATION CSpec
CONSTANTS
  Leases = {l1}
  MaxGeneration = 3
  Modes = {"browser", "headless"}
  Roles = {"source", "native"}
  Shutdowns = FALSE
INVARIANTS
  CoordinatorSound
