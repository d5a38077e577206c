----------------------------- MODULE MCServices -----------------------------
(***************************************************************************)
(* The services around a trade: the rate limit, the accounts and their     *)
(* tokens, the treasury, the prices, the memory, the live events and the   *)
(* agent profiles of negotiations, the anchoring of an audit trail, and    *)
(* the circuit breaker.  They share nothing but the pool of database       *)
(* connections, so that a behaviour here is one of one of them: the focus, *)
(* chosen at the start.                                                    *)
(*                                                                         *)
(* Three would-be enterprises, of which the second has the first one's     *)
(* e-mail address and the third its PAN.  Three deals: the appetites of    *)
(* most profiles; a cautious seller of dearer stock with a greedy buyer;   *)
(* a seller whose margin floor lies above its target margin.  Documents:   *)
(* an empty one, a sentence, two paragraphs that need two chunks, and a    *)
(* paragraph with a sentence longer than a chunk.                          *)
(***************************************************************************)
EXTENDS RateLimiter, TLC

CONSTANTS
    e1, e2, e3,
    KeyOf, Roles, Workers, Keys, Addresses, Challenges, Configs, EndsOf, MaxRequests,
    Owners, Currencies, Amounts, Rates, Positions, MaxCommands, Burns, ForecastDays,
    Deals, Answers, HumanPrices, MaxRounds, MaxOverrides,
    Texts, MaxChars, Overlap, PageSize, MaxFiles, MaxJobs,
    Clients, Publishers, Retained, MaxEvents, MaxStreams,
    Users, ApiKeys, AccessLife, RefreshLife, MaxWait, MaxClock,
    Entries, Stub,
    Callers, FailureThreshold, SuccessThreshold, RecoveryTimeout, MaxNow,
    Parties, Dealings, BuyerIn, SellerIn, Turns, MaxAgreed

VARIABLES
    focus,
    row, user, challenge, drawn, request, kept, proven, started,
    pool, position, command, booked, closed, begun,
    deal, talk, last, turn, agreement, overrides,
    vault, memory, job, reported,
    events, terminal, trimming, dropped, stream, got, opened,
    clock, active, held, apiKey, visit,
    trail, attempt, anchored,
    instant, circuit, caller,
    profile, session, agreed, met, doing

accountVars == <<row, user, challenge, drawn, request, kept, proven, started>>
treasuryVars == <<pool, position, command, booked, closed, begun>>
priceVars == <<deal, talk, last, turn, agreement, overrides>>
memoryVars == <<vault, memory, job, reported>>
streamVars == <<events, terminal, trimming, dropped, stream, got, opened>>
sessionVars == <<clock, active, held, apiKey, visit>>
anchoringVars == <<trail, attempt, anchored>>
breakerVars == <<instant, circuit, caller>>
profileVars == <<profile, session, agreed, met, doing>>

Acc == INSTANCE Accounts WITH Enterprises <- {e1, e2, e3}

Tre == INSTANCE Treasury WITH
         Enterprises <- Owners, MaxRequests <- MaxCommands, request <- command, started <- begun

Pri == INSTANCE Pricing

Mem == INSTANCE AgentMemory

Str == INSTANCE Stream

Ses == INSTANCE Sessions

Anc == INSTANCE Anchoring

Bre == INSTANCE CircuitBreaker WITH now <- instant

Pro == INSTANCE Profiles

ASSUME ServicesAssumption ==
    /\ Acc!AccountsAssumption /\ Tre!TreasuryAssumption /\ Pri!PricingAssumption
    /\ Mem!MemoryAssumption /\ Str!StreamAssumption /\ Ses!SessionsAssumption
    /\ Anc!AnchoringAssumption /\ Bre!BreakerAssumption /\ Pro!ProfilesAssumption

MCKeyOf ==
    (e1 :> [pan |-> 1, gstin |-> 1, email |-> 1])
    @@ (e2 :> [pan |-> 2, gstin |-> 2, email |-> 1])
    @@ (e3 :> [pan |-> 1, gstin |-> 3, email |-> 3])

MCDeals ==
    {[ceiling |-> 10000, stock |-> 10000, buying |-> "MEDIUM", selling |-> "MEDIUM", floor |-> 10],
     [ceiling |-> 9000, stock |-> 12345, buying |-> "HIGH", selling |-> "LOW", floor |-> 15],
     [ceiling |-> 10000, stock |-> 10000, buying |-> "LOW", selling |-> "MEDIUM", floor |-> 25]}

MCAnswers ==
    [action : {"OFFER"}, price : {0, 5000, 7150, 7200}, word : {FALSE}]
    \cup [action : {"COUNTER", "PAUSE"}, price : {12000}, word : {FALSE}]
    \cup [action : {"ACCEPT", "REJECT"}, price : {7200}, word : BOOLEAN]

MCTexts == {<<>>, <<<<4>>>>, <<<<3, 5, 2>>, <<6>>>>, <<<<2>>, <<3, 12>>>>}

MCStub == <<11, 10, 12>>

\* Two sessions in which the enterprises have each other's role.
MCBuyerIn == [s1 |-> "a", s2 |-> "b"]
MCSellerIn == [s1 |-> "b", s2 |-> "a"]

\* Requests, and challenges, are alike.
Symmetry == Permutations(Workers) \cup Permutations(Challenges)

MCInit ==
    /\ focus \in {"limiter", "accounts", "treasury", "pricing", "memory", "stream",
                  "sessions", "anchoring", "breaker", "profiles"}
    /\ Init /\ Acc!Init /\ Tre!Init /\ Pri!Init
    /\ Mem!Init /\ Str!Init /\ Ses!Init /\ Anc!Init /\ Bre!Init /\ Pro!Init
    /\ focus # "pricing" => deal = CHOOSE d \in Deals : TRUE
    /\ focus # "profiles" => profile = [e \in Parties |-> Pro!Absent]

\* Nothing changes but the state of the focus.
OnlyOf(name) ==
    /\ focus = name /\ UNCHANGED focus
    /\ name # "limiter" => UNCHANGED vars
    /\ name # "accounts" => UNCHANGED accountVars
    /\ name # "treasury" => UNCHANGED treasuryVars
    /\ name # "pricing" => UNCHANGED priceVars
    /\ name # "memory" => UNCHANGED memoryVars
    /\ name # "stream" => UNCHANGED streamVars
    /\ name # "sessions" => UNCHANGED sessionVars
    /\ name # "anchoring" => UNCHANGED anchoringVars
    /\ name # "breaker" => UNCHANGED breakerVars
    /\ name # "profiles" => UNCHANGED profileVars

MCNext ==
    \/ OnlyOf("limiter") /\ Next
    \/ OnlyOf("accounts") /\ Acc!Next
    \/ OnlyOf("treasury") /\ Tre!Next
    \/ OnlyOf("pricing") /\ Pri!Next
    \/ OnlyOf("memory") /\ Mem!Next
    \/ OnlyOf("stream") /\ Str!Next
    \/ OnlyOf("sessions") /\ Ses!Next
    \/ OnlyOf("anchoring") /\ Anc!Next
    \/ OnlyOf("breaker") /\ Bre!Next
    \/ OnlyOf("profiles") /\ Pro!Next

MCSpec ==
    MCInit /\ [][MCNext]_<<focus, vars, accountVars, treasuryVars, priceVars, memoryVars,
                          streamVars, sessionVars, anchoringVars,
                          breakerVars, profileVars>>

\* No two enterprises get one PAN, GSTIN or e-mail address, and none is
\* without its user (Accounts).
RegistrationIsConsistent == Acc!RegistrationIsConsistent

\* Unless two requests overlapped, a column has what its own operation wrote
\* last (Accounts).
WritesAreKept == focus = "accounts" => Acc!WritesAreKept

\* A linked wallet's key has signed a live challenge in a request of that
\* enterprise (Accounts).
WalletIsProven == Acc!WalletIsProven

\* Unless two commands overlapped, the balances are what the committed
\* commands add up to, and a closed position stays closed (Treasury).
BooksBalance == Tre!BooksBalance

\* Runway and alert of a forecast agree with the balances it projects
\* (Treasury).
RunwayMatchesForecast == focus = "treasury" => Tre!RunwayMatchesForecast

\* Offers of agents, and prices they converge on, keep to the limits of their
\* sides (Pricing).
PricesRespectLimits == Pri!PricesRespectLimits

\* What an ingestion reported can be retrieved in full, and no document is left in
\* part (AgentMemory).
MemoryHoldsDocuments == Mem!MemoryHoldsDocuments

\* A client gets every event once and in order over broken connections (Stream).
StreamMissesNothing == Str!StreamMissesNothing

\* A request is let in only within a refresh token's life of a login, for a user
\* not suspended when it began and since (Sessions).
RequestsAreAuthorized == Ses!RequestsAreAuthorized

\* An anchored root is that of one beginning of the trail, and the proofs of its
\* entries verify them and no others (Anchoring).
ProofsVerify == Anc!ProofsVerify

\* A call is rejected only if another one has failed within the recovery timeout
\* before it began, or since (CircuitBreaker).
OutagesEnd == Bre!OutagesEnd

\* A profile has learned from the agreements committed, with both sides, unless
\* two turns of the enterprise overlapped (Profiles).
ProfilesLearnAgreements == Pro!ProfilesLearnAgreements

=============================================================================
