SPECIFICATION FairSpec
CONSTANTS
    Runs = {r1, r2}
    MaxServices = 2
    MaxMechs = 1
    MaxAttempts = 1
    MaxFaults = 1
INVARIANTS RegistrationInv OneService NothingReverts
PROPERTIES RegistrationCompletes
CHECK_DEADLOCK FALSE
