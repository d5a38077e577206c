SPECIFICATION Spec
CONSTANTS
    Requests = {p1, p2}
    MaxRounds = 4
    StallRounds = 2
    MaxSchemaFailures = 2
    StallThreshold = 4
    MaxOffers = 4
    UowEntered = TRUE
    EarlyExpiry <- EitherAnswer
    Faults = TRUE
SYMMETRY MCSymmetry
INVARIANTS
    OutcomeIsAnnounced
    OffersAreInOrder
    RoundsAreUsed
    PhaseMatchesOffers
PROPERTIES
    OutcomeIsFinal
CHECK_DEADLOCK FALSE
