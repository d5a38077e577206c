CONSTANTS
    Escrows = {e1}
    Workers = {p1, p2}
    Jobs = {j1}
    Amounts <- MCAmounts
    Snapshots = {"none", "same state"}
    ClockSteps <- MCClockSteps
    PageLimit = 1
    MaxEvents = 4
    Faults = TRUE
    None = None
SPECIFICATION FairSpec
INVARIANTS
    AppendNeverCollides
    VerifyAcceptsBeginnings
    RecordsFollowRelease
    ExportsAreUsable
    PagesMissNothing
PROPERTIES
    ImplementsTrail
    RequestsEnd
CHECK_DEADLOCK FALSE
