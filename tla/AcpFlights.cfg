SPECIFICATION Spec
CONSTANTS
  Jobs = {j1}
  Kinds <- AllKinds
  BlockEnabled = TRUE
  CleanupThreshold = 0
  MaxDups = 1
  MaxFails = 1
  MaxCrashes = 0
INVARIANTS ClaimsMatchFlights ObserveSignsNothing
PROPERTIES OneAcceptAttempt OneDelivery RedeliveryIsHarmless
CHECK_DEADLOCK FALSE
