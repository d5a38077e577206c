SPECIFICATION Spec
CONSTANTS
    Requests = {p1}
    MaxRounds = 4
    StallRounds = 2
    MaxSchemaFailures = 2
    StallThreshold = 4
    MaxOffers = 4
    UowEntered = TRUE
    EarlyExpiry <- DeadlineKept
    Faults = FALSE
PROPERTIES
    AgreementIsMutual
CHECK_DEADLOCK FALSE
