SPECIFICATION Spec
CONSTANTS
    Requests = {p1}
    MaxRounds = 4
    StallRounds = 2
    MaxSchemaFailures = 2
    StallThreshold = 4
    MaxOffers = 4
    UowEntered = FALSE
    EarlyExpiry <- DeadlineKept
    Faults = FALSE
PROPERTIES
    MatchGetsSession
CHECK_DEADLOCK FALSE
