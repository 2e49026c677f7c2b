SPECIFICATION FairSpec
CONSTANTS
  Reqs = {r1, r2}
  Auths = {a1}
  NoAuth = NoAuth
  BridgeSecret = BridgeSecret
  Offered <- OfferedValue
  Signed <- SignedValue
  Envs <- EnvsValue
  MaxNow = 1
  MaxFaults = 1
INVARIANTS GateInv ChargedOnlyWhenDue
PROPERTIES ImplementsPaidService EveryRequestIsAnswered
CHECK_DEADLOCK FALSE
