SPECIFICATION LoopSpec
CONSTANTS
  Jobs = {j1}
  Kinds <- ServedOnly
  BlockEnabled = FALSE
  CleanupThreshold = 100
  MaxDups = 0
  MaxFails = 1
  MaxCrashes = 0
PROPERTY FundedIsDelivered
CHECK_DEADLOCK FALSE
