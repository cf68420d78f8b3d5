SPECIFICATION CSpec
CONSTANTS
  Leases = {l1, l2}
  MaxGeneration = 2
  Modes = {"browser", "headless"}
  Roles = {"source", "native"}
  Shutdowns = FALSE
SYMMETRY LeaseSymmetry
INVARIANTS
  ReaderOnlyRejects
