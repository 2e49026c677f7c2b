SPECIFICATION FairSpec
CONSTANTS
  RefuelEnabled = TRUE
  Threshold = 3
  Cadence = 2
  Floor = 1
  Target = 2
  MaxPerTick = 2
  MinUsdcIn = 1
  MaxIncome = 3
  MaxNow = 2
  MaxFaults = 1
  MaxLags = 1
INVARIANTS TypeOK SweepSeesReality AuditSpine
PROPERTIES SweepsAreSpaced StrandedIsDelivered
