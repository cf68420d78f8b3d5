SPECIFICATION MRFairSpec
CONSTANTS
  MaxJobs = 2
  Items = {f, x}
  FacebookItems = {f}
  Reasons = {"playback_error"}
  MaxGeneration = 2
  MaxEpoch = 2
  OwnerExits = TRUE
INVARIANTS
  RecaptureSound
PROPERTIES
  EndedStays
  HoldReturned
