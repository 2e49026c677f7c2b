SPECIFICATION FairSpec
CONSTANTS
    Requests = {q1, q2}
    SelfTest = q1
    Responses = {d1}
    Envs <- EnvsValue
    MaxAttempts = 2
    ResponseTimeout = 1
    MaxHead = 3
    MaxFaults = 1
INVARIANTS DeliveryInv NoRequestSkipped SentOnce
PROPERTIES EveryRequestIsDelivered
CHECK_DEADLOCK FALSE
