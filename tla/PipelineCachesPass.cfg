SPECIFICATION Spec
CONSTANTS
  Jobs = {"j1", "j2", "j3"}
  Asks <- AskSets
  DocumentOf <- Docs
  Discoverable <- Finds
  MarketName <- Labels
  ChainName <- Contracts
  KnownLabels <- Canonical
  EvmTokens = {"t1"}
  VersionOf <- Versions
  ViolationNames = {"scam"}
  KnownProtocols = {"Aave"}
  Opinions <- Says3
  MaxFaults = 0
  MaxActive = 2
INVARIANT CachedVerdictsAreAdjusted
CHECK_DEADLOCK FALSE
