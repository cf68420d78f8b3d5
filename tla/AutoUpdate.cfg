SPECIFICATION AUFairSpec
CONSTANTS
  Instances <- MCInstances
  PreparedBatchLimit = 1
  RefillCadence = 1
  MaxAge = 1
  DailyBudget = 3
  Horizon = 2
  PresenceWindow = 1
  GenerationWindow = 1
  StandbyCadence = 2
  AdaptiveCadence = 1
CHECK_DEADLOCK FALSE
INVARIANTS
  UpdateLimits
  CalibrationHonest
PROPERTIES
  BatchesFinal
  SchedulerProgress
