SPECIFICATION FairSpec
CONSTANTS
    Sessions = {s1, s2}
    NoSession = NoSession
    Apps = {a1, a2}
    NoApp = NoApp
    Price <- MCPrice
    Requests = {p1}
    Calls <- ServiceCalls
    Faults = FALSE
INVARIANTS
    OutcomeIsRecorded
PROPERTIES
    ReleaseIsRecorded
    RowGetsItsApp
