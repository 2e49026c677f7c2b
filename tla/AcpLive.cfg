SPECIFICATION LoopSpec
CONSTANTS
  Jobs = {j1}
  Kinds <- OrdinaryKinds
  BlockEnabled = TRUE
  CleanupThreshold = 100
  MaxDups = 1
  MaxFails = 0
  MaxCrashes = 1
PROPERTIES NeverRejectFunded DecisionIsPermanent FundedIsDelivered EveryJobIsAnswered
CHECK_DEADLOCK FALSE
