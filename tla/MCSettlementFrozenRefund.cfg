SPECIFICATION Spec
CONSTANTS
    Sessions = {s1}
    NoSession = NoSession
    Apps = {a1}
    NoApp = NoApp
    Price <- MCPrice
    Requests = {p1}
    Calls <- ApiCalls
    Faults = FALSE
INVARIANT FrozenEscrowCanBeRefunded
