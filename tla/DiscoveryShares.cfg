SPECIFICATION FairSpec
CONSTANTS
  Calls = {"c1", "c2", "c3"}
  Project <- Projects
  Web <- World
  RATE_LIMIT_PER_HOUR = 2
  BROWSER_RESTART_THRESHOLD = 2
  Hour = 1
  MaxNow = 1
  MaxFaults = 1
INVARIANTS DiscoveryInv YieldsAreRationed CallsDoNotDisturbEachOther
PROPERTIES EveryDiscoveryEnds
CHECK_DEADLOCK FALSE
