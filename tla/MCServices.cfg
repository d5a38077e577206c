CONSTANTS
    Limit = 2
    Window = 2
    MaxDelay = 1
    MaxTime = 5
    Requests = {r1, r2, r3}
    None = None
    e1 = e1
    e2 = e2
    e3 = e3
    KeyOf <- MCKeyOf
    Roles = {"ADMIN", "AUDITOR"}
    Workers = {p1, p2}
    Keys = {a1, k1}
    Addresses = {a1}
    Challenges = {c1, c2}
    Configs = {g1}
    EndsOf = {"commit", "rollback"}
    MaxRequests = 3
    Owners = {e1}
    Currencies = {"INR"}
    Amounts = {50, 300}
    Rates = {1, 2}
    Positions = {x1}
    MaxCommands = 4
    Burns = {0, 50, 60}
    ForecastDays = 8
    Deals <- MCDeals
    Answers <- MCAnswers
    HumanPrices = {7000, 11000}
    MaxRounds = 20
    MaxOverrides = 6
    Texts <- MCTexts
    MaxChars = 10
    Overlap = 3
    PageSize = 1
    MaxFiles = 2
    MaxJobs = 2
    Clients = {w1}
    Publishers = {p1, p2}
    Retained = 2
    MaxEvents = 4
    MaxStreams = 3
    Users = {u1}
    ApiKeys = {h1}
    AccessLife = 1
    RefreshLife = 2
    MaxWait = 1
    MaxClock = 5
    Entries = {1, 2, 3, 4, 5}
    Stub <- MCStub
    Callers = {w1, w2}
    FailureThreshold = 2
    SuccessThreshold = 2
    RecoveryTimeout = 1
    MaxNow = 4
    Parties = {"a", "b"}
    Dealings = {"s1", "s2"}
    BuyerIn <- MCBuyerIn
    SellerIn <- MCSellerIn
    Turns = {p1, p2}
    MaxAgreed = 4
SYMMETRY Symmetry
SPECIFICATION MCSpec
INVARIANTS
    WindowIsBounded
    RegistrationIsConsistent
    WritesAreKept
    WalletIsProven
    BooksBalance
    RunwayMatchesForecast
    PricesRespectLimits
    MemoryHoldsDocuments
    StreamMissesNothing
    RequestsAreAuthorized
    ProofsVerify
    OutagesEnd
    ProfilesLearnAgreements
CHECK_DEADLOCK FALSE
