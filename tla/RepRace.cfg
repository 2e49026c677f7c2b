SPECIFICATION FairSpec
CONSTANTS
  b1 = b1
  Buyers = {b1}
  BuyerOf <- SameBuyer
  Jobs <- TwoJobs
  Sweeps = {s1, s2}
  Sockets = {k1}
  BlockEnabled = TRUE
  Timeout1h = 1
  Timeout12h = 2
  Limit = 1
  MaxNow = 3
  MaxFails = 1
  MaxCrashes = 1
INVARIANTS NoFalseStrike LadderIsConsistent
PROPERTIES EveryTrackedJobIsResolved
CHECK_DEADLOCK FALSE
