SPECIFICATION Spec
CONSTANTS
  b1 = b1
  Buyers = {b1}
  BuyerOf <- SameBuyer
  Jobs <- FourJobs
  Sweeps = {s1}
  Sockets = {}
  BlockEnabled = TRUE
  Timeout1h = 1
  Timeout12h = 2
  Limit = 100
  MaxNow = 5
  MaxFails = 0
  MaxCrashes = 0
INVARIANTS OneStepPerStiff
PROPERTIES OnlyStiffersAreRefused
CHECK_DEADLOCK FALSE
