SPECIFICATION SplitFairSpec
CONSTANTS
  Actions <- MCActions
  Instances <- MCInstances
CHECK_DEADLOCK FALSE
INVARIANTS
  TransportSound
  OwnerHandedOver
PROPERTIES
  AnswersFinal
  LeasesReturn
