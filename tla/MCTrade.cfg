CONSTANTS
    MaxRequests = 3
    Sellers = {s1, s2}
    Texts = {1, 2}
    TopN = 2
    Ends = {"commit", "rollback"}
    Matchmakers = {"pgvector", "stub"}
    NoOne = NoOne
SPECIFICATION MCSpec
INVARIANTS
    EmbeddingIsOfText
    MatchedRfqHasMatches
PROPERTIES
    MarketEnds
CHECK_DEADLOCK FALSE
