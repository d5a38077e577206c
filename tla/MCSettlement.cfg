SPECIFICATION Spec
CONSTANTS
    Sessions = {s1}
    NoSession = NoSession
    Apps = {a1, a2}
    NoApp = NoApp
    Price <- MCPrice
    Requests = {p1, p2, p3}
    Calls <- ApiCalls
    Faults = TRUE
SYMMETRY MCSymmetry
INVARIANTS
    OneAppPerSession
    OutcomeRowIsTrue
    SettledOnce
    EventsAreTrue
    RowsMatchChain
PROPERTIES
    ImplementsCustody
CHECK_DEADLOCK FALSE
