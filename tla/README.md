# A verification development for the Cadencia platform

Cadencia is a B2B trade platform: a buyer's request for quotation is matched
with sellers, LLM agents negotiate a price, and the agreed amount is held in an
Algorand escrow contract until it is released or refunded; every step feeds a
compliance log. The backend (`src/cadencia-a2a-phases`) is a FastAPI modular
monolith over Postgres, Redis and an Algorand node; `src/final-frontend-cadencia`
is its user interface.

This directory holds TLA+ modules that model the parts where money and
agreements are at stake, TLC configurations that check them on small instances,
and proofs of the main results for every instance.

## Inventory

Paths are under `src/cadencia-a2a-phases/src` unless they say otherwise.

| Component | State | Operations | What must be right | Here |
|---|---|---|---|---|
| Escrow contract (`../contracts/escrow_contract.py`) | global state of an application, its balance | initialize, fund, release, refund, freeze, unfreeze | money in once, out once, to one party; inert while frozen | EscrowContract, TradeCustody; proved |
| Settlement (`settlement/`) | rows of `escrow_contracts` and `settlements`, Merkle anchors, events | deploy, fund, release, refund, freeze, unfreeze, signed fund | rows, records and events agree with the chain whatever requests race or die | Settlement; proved |
| Negotiation session (`negotiation/`) | a session row, its offers, events | create (by a client or `RFQConfirmed`), agent turn, automatic loop, human override, terminate, expiry | offers in order, outcomes final, announced, and meant by the parties | Negotiation; proved |
| Agent profiles (`negotiation/domain/agent_profile.py`) | one profile per enterprise | create, load, learn from an agreement | a profile learned from the agreements that exist | Profiles; proved |
| Pricing (`negotiation/domain`, `neutral_engine.py`) | prices of both sides, stall counter | valuation, strategy, guardrails, override, convergence | an agent keeps to its side's limits | Pricing (beliefs are choices); proved |
| Agent memory (`application/personalization_service.py`, vault, embeddings) | documents, chunks | upload, ingest, clear | a document that was reported is there in full | AgentMemory; proved |
| Live events (`infrastructure/sse_publisher.py`, stream route) | a Redis list per session | publish, trim, replay, poll, reconnect | every event once and in order | Stream; proved |
| Marketplace (`marketplace/`) | RFQ, matches, capability profiles | upload, parse and match (background), confirm, update and recompute profiles | matches follow the profiles, nothing hangs | Marketplace; safety proved |
| Compliance (`compliance/`) | hash-chained audit entries, FEMA/GST records, export jobs | append, verify, generate, export, page | one unbroken chain per escrow, records that follow a release | Compliance, AuditTrail; safety proved |
| Treasury (`treasury/`) | liquidity pools, FX positions | deposit, withdraw, FX update, open, close, forecast | books balance, forecast agrees with itself | Treasury; proved |
| Events (`shared/infrastructure/events`) | in-process subscriptions | publish, handlers | what is recorded of an event is true | inside Compliance, Negotiation, Settlement |
| Identity (`identity/`) | enterprises, users, challenges | register, KYC, configuration, wallet challenge and link, admin decisions | no half registration, no lost update, a wallet is proven | Accounts; proved |
| Tokens and API keys (`identity/`) | users, keys, tokens of clients | login, refresh, authenticate, create and revoke keys, suspend | who is let in was authorized, and recently | Sessions; proved |
| Merkle service and anchoring (`shared/infrastructure/merkle_service.py`) | the anchored root | root, proof, verify | a proof shows the anchored entry and no other | Anchoring; proved |
| Rate limiter, circuit breaker (`shared/infrastructure`) | Redis counters and keys | check; call, fail, recover | no more than the limit; outages end | RateLimiter, CircuitBreaker; proved |
| Unit of work, database sessions (`shared/infrastructure/db`) | a transaction per request | commit, rollback | what a service commits is committed | inside the models (`UowEntered`, `Ends`, `EndsOf`) |
| Wallet and admin APIs | - | challenge, link; KYC decisions, suspension | as for identity | in Accounts and Sessions |
| Redis task queue | a list | push, pop | tests only | not modelled |
| Webhooks, x402 headers, on-ramp, DigiLocker, weekly report | little or none | edge I/O | - | not modelled |
| Frontend, migrations, deployment files | - | - | - | not modelled (the tables' constraints are in the models) |

Components interact by calls inside one request (router, service, repository,
gateway) and, between contexts, by domain events that an in-process publisher
hands to handlers: `RFQConfirmed` creates a negotiation session (`Marketplace`
publishes it, `HandleRFQConfirmed` of `Negotiation` receives it), `SessionAgreed`
should deploy an escrow (it raises, `DeployAgreed` of `Compliance`) and is audited,
`EscrowReleased` generates compliance records. The
publisher logs the exceptions of handlers and keeps nothing.

What makes the system hard: every request is a coroutine with its own database
session, loads a copy of an aggregate, awaits (the LLM, the Algorand node) and
writes the copy back, with no row lock held while it waits and no version
column; the chain and the database cannot commit together; events are published
beside the commit and are lost in a crash.

## Modules

- **TradeCustody** - the abstract promise: the price of a deal is taken into
  custody at most once and leaves it at most once, to one party.
- **EscrowContract** - `CadenciaEscrow` for a set of applications. One action
  per method, guard by guard (`CanFund`, `CanRelease`, `CanRefund`, `CanFreeze`,
  `CanUnfreeze` are the assertions); the callers are the platform's account
  (the creator), the buyer, the seller and anyone else. `StageOf` maps an
  application to a deal of `TradeCustody`. Fees and the minimum balance are
  left out.
- **Settlement** - `SettlementService`, the `Escrow` aggregate, the Postgres
  repositories and `AlgorandGateway`, over `EscrowContract` (INSTANCE `Contract`).
  Each request (`req[p]`) is a coroutine with a program counter that walks through
  the awaits of the code: load the row (`Start...`), insert a new row
  (`InsertRow`), call the contract (`...OnChain`), anchor the root
  (`AnchorRoot`), check the aggregate and merge (`Persist`), flush and commit
  (`Write`), publish (`Publish`). `esc` is the copy loaded at the start; `base` is
  the row `merge()` reads again, because the ORM object of the first read has
  been garbage-collected (weak identity map, one AsyncSession per request,
  `autoflush=False`, `expire_on_commit=False`) and Postgres runs at READ
  COMMITTED; the flush writes the columns in which the copy differs from `base`
  (`Overlay`). `Record...` are the aggregate's transitions, `Store`/`Load` the
  conversion to and from the row (FROZEN is stored as FUNDED with `is_frozen`).
  `Abandon` ends a request between two steps: the gateway raised, the database
  refused, or the process died.
- **Negotiation** - one `NegotiationSession` with `NegotiationService`,
  `NeutralEngine.process_turn` and the repositories. `AddOffer`, `Transition`,
  `Resume`, `NextProposer` are the aggregate; `Turns` is what the engine can return
  (an accept, a reject, an offer that concedes or not, is vetoed or not,
  converges, reaches the stall limit, or a placeholder for a breach or a
  timeout); `Outcome` is the dispatch of `run_agent_turn`, which searches words in
  the agent's text; `Think`, `Conclude`, `CommitTurn` are the steps of a turn
  between its awaits. The `UPDATE` of a turn keeps the row locked until it
  commits (`Locked`); loading locks nothing. `LoopTurn` is the next round of
  `run_auto_negotiation` after a commit: the session is loaded again.
- **Profiles** - the turns of several sessions that meet in the profiles of their
  enterprises: each profile is what its averages have absorbed. Row locks are
  kept to the end of a transaction, buyer first, so that two enterprises with
  opposite roles can deadlock (`BreakDeadlock`); a value the table's CHECK refuses
  rolls the agreement back.
- **Pricing** - every price of one session as an integer of paise: reservation and
  target of each side (`valuation.py`), the strategy's concession curves
  (`strategy.py`), the sanitised answer of the model, the guardrails' veto, the
  ceiling, convergence and stall. Beliefs about the opponent are choices among
  the classes the strategy distinguishes.
- **AgentMemory** - `TextChunker` as recursive functions over paragraphs and sentences
  (which make a chunk, an overlap, a document), and ingestion document by
  document in one transaction, with failures, clearing and deaths. A sentence is known by
  its place, so that no two chunks are equal and the removal of equal ones has nothing
  to do.
- **Stream** - the Redis list of one session under publishers (push and trim are two
  calls) and clients that replay, poll, break off and come back with their last id.
- **Marketplace** - an RFQ from upload to confirmation, with the background task that
  shares the request's session, and the capability profiles with their
  embeddings. Transactions hold row locks and end by commit or rollback (`Ends`);
  a cycle of waiters is broken as Postgres does.
- **AuditTrail** - the abstract promise of the compliance log: what happened is
  recorded one at a time, at the end, at most once, for ever.
- **Compliance** - the handlers an event passes through inside the publishing
  request, the advisory lock, the hash chain (`Entry`, `Verify`), the FEMA and GST
  records with their roundings, exports and the paged log. A hash is the
  sequence of events it covers. Trails belong to an escrow or a session.
- **Accounts** - registration with its three unique columns, and operations on an
  enterprise as copies that are written back column by column; the wallet
  challenges in Redis. As wired, admin requests are never committed; the model
  takes both ends (`EndsOf`).
- **Sessions** - access and refresh tokens, API keys, and suspension between the
  decoding of a token and the loading of its user.
- **Treasury** - a pool per enterprise, created on first use, absolute writes of
  balances, FX positions, and the day-by-day forecast next to its runway.
- **Anchoring** - the Merkle tree over a growing trail, its proofs, the stub. The loops over
  layers are recursive functions (`Layers`, `Climbed`), which a proof can reason about.
- **RateLimiter, CircuitBreaker** - each Redis command a step, with deaths between
  two of them.
- **MCServices** - the ten services that share nothing, one `focus` per behaviour, so
  that the states add up instead of multiplying. **MCTrade** does the same for the
  RFQ and the profiles of the marketplace.
- **MCEscrowContract, MCSettlement, MCNegotiation, MCCompliance** - the constants and the
  symmetry sets for TLC.
- **EscrowContractProofs, SettlementProofs, NegotiationProofs, ComplianceProofs,
  MarketplaceProofs, AccountsProofs** - the theorems about those modules.
  **ServicesProofs** holds those about the rate limiter, the circuit breaker, sessions,
  accounts, the stream, pricing and profiles as MCServices instantiates them,
  **LedgerProofs** those about treasury, anchoring and agent memory.

Definitions marked "Mutation check only" are plausible bugs of the definition
that follows them. No specification uses them: each shows that a property fails
when the code is broken so.

## Runs

| Run | What it asks | Bounds |
|---|---|---|
| contract | every payout covered and made once; frozen means inert; refinement of TradeCustody | 2 applications, 2 sessions, all callers |
| settlement_concurrent | one application per session, outcome rows, settlement records and events are true; funded and frozen rows have the money; refinement of TradeCustody | 1 session, 2 applications, 3 requests, API calls, faults |
| settlement_sequential | rows end up saying what the contract did; a row gets its application | 2 sessions, 2 applications, 1 request, unfreeze too, no fault |
| settlement_signed_fund | `submit-signed-fund` records the funding: violated | 1 request |
| settlement_frozen_refund | a frozen escrow can be refunded: violated | 1 request |
| settlement_stale_write | a recorded outcome is final: violated | 2 requests, no fault |
| negotiation | outcomes announced, final, rounds used, offers in order, phase in step | 2 requests, 4 rounds, stall counter limit 2, stall threshold 4, 2 schema failures, `MaxOffers` 4, faults |
| negotiation_consent | only an accept or a convergence agrees: violated | 1 request, no fault |
| negotiation_commit | `create_session` leaves a session: violated | 1 request, the unit of work as wired |

| compliance | appends never collide, verification, records, exports, pages, refinement of AuditTrail, every request ends | 1 escrow or session, 4 events, 2 requests, 1 export, pages of 1 entry, 3 amounts around a rounding and the 5 lakh limit, faults |
| trade | embeddings match their texts, matched RFQs have their ranked matches, everything begun ends | 2 sellers, 3 requests with their tasks (2 on profiles), 2 texts, both matchmakers, commit or rollback |
| services | the ten properties of the services, each under its focus | below |

The bounds of *services*, focus by focus: **limiter** 3 requests, limit 2, windows of
2 s, 5 s, a delay of 1 s; **accounts** 3 enterprises of which two pairs collide in a
column, 2 concurrent requests, 3 after registration, 2 challenges, 2 keys;
**treasury** 4 commands of 2 workers, deposits and withdrawals of 50 and 300, two
rates, a position, an 8-day forecast with burns 0, 50 and 60 (a runway that ends on,
before and after the last day); **pricing** 20 rounds (the code's), three deals (usual
appetites; a cautious seller with a greedy buyer; a floor above the target margin),
usable and unusable answers, words that stop the sanitiser, human overrides;
**memory** 4 texts (empty, one sentence, two paragraphs in two chunks, a sentence longer
than a chunk), 2 names, 2 jobs, one key per page of the vault; **stream** 4 events of 2
publishers, 2 retained, a client with 3 connections; **sessions** a user, a key, tokens
of 1 and 2 ticks, 5 ticks; **anchoring** 5 entries (odd and even levels of the tree) and
a stub of 3; **breaker** 2 callers, thresholds of 2, a timeout of 1, 4 ticks; **profiles** two
enterprises with opposite roles in two sessions, 2 turns, four announcements of each
enterprise's sessions. The ten foci have 770,367 states together.

Why the bounds are enough. Two applications let a second deployment of one
session exist if the code allows it; three requests let two finish while a
third holds a copy older than both, which is as stale as a copy can matter for
one row (the copy is compared with one later reading). In negotiation four
rounds contain the opening, two rounds of the loop and the round bound, and
reach each limit (stall counter, stall threshold, schema failures, MAX_ROUNDS);
the code's 3, 10, 3 and 20 only make the same paths longer. `MaxOffers` bounds
the offers, which stale writes could otherwise add for ever; it is a guard of
`Begin` and of the automatic loop, and a bound of the model, not of the code. A
chain of four events has a first, a middle and a last link and takes an escrow to
its release; two concurrent handlers are what a lock can keep apart. Requests are
interchangeable, so symmetry reduces them in the passing runs with several
requests; the runs with symmetry check no liveness.

Deadlock is not checked: when every trade or session has ended and no request
is in flight, the system may rest.

**Fairness.** `FairSpec` of Settlement gives weak fairness to `Progress(p)`, the
next step of a request that has started: the event loop runs every coroutine it
has started. Nothing obliges anyone to send a request, so starting one is never
fair, and the run that uses `FairSpec` has no faults. In Compliance the same holds of
a request's handlers, and the advisory lock is strongly fair: Postgres grants it in
the order of the waiting; there faults are on, and a dead request's connection
frees its locks. In Marketplace every request and every task that is running goes on
(weak fairness of `Progress(w)`): the event loop schedules them, and Postgres lets a
waiter go on when the row is free or breaks the cycle. The other runs need none.

**Expiry.** `PostgresSessionRepository` restores `expires_at` from `created_at`, so a
session loaded from the database counts as expired at once. The negotiation run
lets `is_expired` answer either way before the deadline (`EitherAnswer`), which
covers that repository, a skewed clock and a repaired repository alike.

**The unit of work.** `NegotiationService` calls `commit()` on a unit of work it
never enters, and `SqlAlchemyUnitOfWork.commit` raises then. The constant
`UowEntered` says which of the two a run is about: FALSE is the wiring of
`negotiation/api/dependencies.py`, under which no session ever exists
(negotiation_commit); TRUE is the service against a unit of work that commits,
which is what the protocol's own properties are about.

## What the violated runs show

1. *Signed funding is not recorded.* The wallet route broadcasts the group and
   returns; the row stays DEPLOYED although its docstring says otherwise, and a
   later release pays the seller and then fails in `record_release`.
2. *A frozen escrow cannot be refunded.* The aggregate permits it and says so; the
   contract asserts `frozen == 0`.
3. *A recorded outcome is not final.* A freeze that loaded its copy before a
   release committed writes FUNDED over RELEASED. The proof shows what still
   holds: a row that does say RELEASED or REFUNDED is true.
4. *An agreement need not be mutual.* The engine writes "REJECT: ", the service
   looks for "REJECTED"; everything unrecognised becomes AGREED.
5. *No negotiation session is ever committed* as the service is wired.

## Proofs

TLAPS proves every safety property of the passing runs, for every value of the constants
that satisfies the assumptions: the runs show them on small instances,
the theorems for any number of requests, sessions, sellers, amounts and so on. In each
module the argument is the same: an inductive invariant, true at first and kept by each
action, from which the properties follow. What is worth saying of each is what the
property lacks to be inductive.

- **EscrowContractProofs**. From `AmountsAssumption` (deposits are positive) and
  `NoSessionAssumption`. The inductive invariant `IInv` fixes, for each status,
  what the application holds and has paid; `Solvent` follows from it, while
  `Solvent` by itself is not inductive (it does not say that a FUNDED application
  has paid nobody). `FrozenIsInert` is an action property from the same invariant,
  and `ContractImplementsCustody` maps each step to a step of `TradeCustody` or a
  stutter.
- **SettlementProofs**. From the four assumptions of `Settlement` (positive prices,
  `Calls` within `AllCalls`, the two "absent" identifiers are not real ones). The
  inductive invariant `Inv` says, besides the types: an application belongs to a
  session exactly when it exists, and no two to one session (`GoodApps`); a row
  precedes its application, names the right one, and has an outcome only when
  the application has it (`GoodRow`); what a request at each program counter may
  rely on, for instance that a release past its contract call knows that the
  contract has paid (`GoodRequest`); and no two requests are both past the
  deployment's insert, or both past the release's contract call (`NoClash`). The
  last two are why the theorems hold although copies are stale: after the
  contract call nothing in the copy is trusted, and RELEASED and REFUNDED are
  for ever on chain. The theorems: `SettlementInvariant`, `TypeCorrect`,
  `NoDoubleDeploy`, `OutcomesAreTrue`, `TradesSettleOnce`, `PublishedIsTrue`,
  `SettlementImplementsCustody`.
  `RowsMatchTheChain` needs that nothing unfreezes (no route of the API does) and a
  second invariant, `FlagsInv`: the chain only moves on and what is frozen stays so
  (`Ratchet`), and what a request is about to write was true when it was read, so
  that it lags behind the chain and never runs ahead of it.
  `OutcomesAreRecorded` is about requests one at a time, without faults and without
  the wallet's own funding: `TurnsInv` says how row and application differ between
  a request's contract call and its write, and that nobody else is in between.
- **NegotiationProofs**. From `BoundsAssumption` and `ChoicesAssumption`, for any
  `MaxOffers`. `Good` is what a request may rely on though others have committed since
  it loaded its copy (the round it will write follows one that is used, an end it is
  about to commit has been announced); `Alone` relates copy and row as long as no
  two requests have overlapped. The first gives `RoundsAreUsed` and
  `OutcomeIsAnnounced` for all behaviours, the second the order of the offers, the
  phases and the finality of an end while requests do not overlap, which is what the
  code promises.
- **ComplianceProofs**. `Inv` says that the entries of an escrow are a chain, that who
  holds its lock at the insert has read its end, that what is recorded and what is in
  flight never exceeds what happened (`IsOwed`, a count), and that an export under way
  has its FEMA records among those whose GST record exists. The log implements
  `AuditTrail` (`LogIsTrail`). `VerifyAcceptsBeginnings` is a fact about chains of any
  length, by the least entry that is missing. `PagesAreComplete` assumes
  `0 \notin ClockSteps`, that two appends are never in one tick of the clock, as the
  run does: with equal times a cursor can skip an entry.
- **MarketplaceProofs**. From `MarketplaceAssumption`, with a finite set of sellers. What
  a transaction has written belongs to its operation and commits whole; the RFQ is
  parsed by the one task of its upload; a confirmation holds a copy that is
  confirmed with a seller who was matched.
- **AccountsProofs**. From `AccountsAssumption`, for any enterprises, keys and requests.
  Who registers is alone with the keys' row; a copy that is the only one of a row
  differs from it in its operation's own columns; the wallet of every copy, however
  old, is proven. **ServicesProofs** carries the three theorems over to the instance
  that MCServices has.
- **ServicesProofs**, from `ServicesAssumption` and `RateLimiterAssumption`.
  *Rate limiter*: any limit and window, and a call that reaches Redis within the one second of
  the buffer. `WindowIsBounded` is not inductive, since a counter that is gone would
  start again from nothing; the invariant adds that a request on its way is of a
  window whose buffer is not over (`GoodCall`, by the bounds of the division), that a
  counter which expires lives past that buffer, so that a missing one is of a window
  nobody has passed yet or of one nobody is on the way to (`GoodCounter`), and that
  a window has at most one request between its INCR and its EXPIRE, counted and not
  yet let through (`GoodPassed`). Deaths between the two calls are among the steps.
  *Circuit breaker*: an open circuit has a last failure, and a call that was rejected
  began no later than the recovery timeout after it.
  *Sessions*: how old the login behind each token can be, and what a request
  between the decoding of its token and the loading of its user knows.
  *Stream*: ids that left the list are the first ones; what a connection waits to send
  has no gap and ends where the list ended when it was read; its next question
  follows what its client has. A client that misses an event has asked after it was
  trimmed or expired.
  *Pricing*: every curve and its roundings keep to the limits (`SellerSuggestion`,
  `HalfUpBound`), the guardrails cut what the model suggests, and an override is a
  human's, which binds no agent; a convergence is within 2% of offers that keep to their
  limits.
  *Profiles*: a turn's copies are what the rows are unless another turn met them
  (`StillTrue`), have learned no more than was announced, and what it will commit is each
  copy with one agreement more (`CopiesFit`). That gives the count of agreements while no
  turns meet, and the upper bound always.
- **LedgerProofs**, from `ServicesAssumption`.
  The three compute in loops, and the library's induction is out of reach (it takes an
  operator as a parameter). Two lemmas replace it: `LoopRuns`, that a loop whose steps
  stay in a set can be run any number of times - so that the recursive function which
  stands for it exists and satisfies its equation - and `UpTo`, that what holds before a
  loop and is kept by each step holds all along. Both rest on the least number for which
  they would fail (`LeastOf`).
  *Treasury*: a writer that is the only one of its enterprise has a copy that differs from the
  row by its own command (`Exact`), and one request at most inserts the pool, which
  together give the balances (`BooksBalance`). `RunwaysDoMatch` finds the closed form
  of the forecast's recursion (`Left`: what is left after d days is the balance less d
  burns, or nothing), by the least day that would contradict it (`LeastOf`), and
  compares it with the division. The model takes horizons below 999 days: 999 is what the
  code answers when the balance never ends.
  *Anchoring*: a layer of more than one node is followed by a shorter one, so that a single
  node is reached (`HeightIs`); hashes of one layer have one length (`LayersEven`) and the
  numbers of their entries (`LayerValues`). Hence `RootTellsEntries`, and
  `ProofLeadsToRoot`: a proof that starts at the entry follows the path of its position
  (`ClimbIs`), and one that starts at another entry differs from that path in every
  layer, since two hashes of one length have different hashes with a third
  (`PairsDiffer`). `AnchoringInv` adds that what was read or anchored is a beginning of the
  trail or of the stub, neither of which repeats an entry; beginnings are then told apart
  by the set of their entries (`KnownIs`), and that set by the root.
  *Agent memory*: each step of the chunker, with its state as a pair of finished chunks and
  a current one, adds one sentence or one paragraph to what they hold together
  (`AllHeld`), and keeps every chunk within the size or at one sentence (`FitChunk`). So
  `SplitKeepsTheText`, for any text, chunk size and overlap. `MemoryHoldsDocuments` is not
  inductive, since it says nothing of requests under way: `MemoryInv` adds that what an
  ingestion is about to add are the rows of the documents it has processed and of the
  one in hand up to the next chunk, that it processes no document of its list twice,
  that what a clearing is about to delete are the rows of whole documents, and that one
  clearing runs at a time. A failed flush ends in a rollback and a death in nothing, and
  the rows of a document are told apart by its request and name (`RowsOfAre`).
  TLC has checked both invariants on the foci of *services*, and `MemoryInv` with two
  keys per page as well (358,482 states), where one ingestion takes two documents.

Where a theorem needs a hypothesis, the run that checks the property has it in its
constants: `"unfreeze" \notin Calls` (settlement_concurrent), `OneAtATime`, no faults and
no signed funding (settlement_sequential), `0 \notin ClockSteps` (compliance).

Only model-checked:

- `ReleaseIsRecorded` and `RowGetsItsApp` (settlement_sequential), `RequestsEnd`
  (compliance), `MarketEnds` (trade): liveness under fairness, out of this prover's reach.

What the proofs take, as the runs do:

- The hash of an audit entry is the sequence of the events it covers, and a Merkle hash
  spells out what was hashed: that SHA-256 is injective is an abstraction that both
  the runs and the proofs take.

## Not modelled, and why

- Calls that a wallet makes directly on chain while requests run: the contract
  alone is checked with every caller, the service with the calls its gateway
  makes. Planned.
- `_simulate_app_call`'s dry run: it simulates a bare call and swallows errors, so
  it decides nothing that the network does not decide again.
- Embeddings and similarities (sellers are ranked in any order), LLM text beyond the
  words the service looks for, the floating-point arithmetic of the Bayesian model.
- A second session of one match, which two concurrent `create_session` can create:
  no constraint excludes it, and `Negotiation` follows one session.
- `cleanup_expired_sessions`, `mark_expired`, `mark_settled`, `verify_kyc`, the SSE connection
  counters: nothing calls them. Unlinking a wallet: the aggregate has no such method
  and the route raises.
- The Redis task queue: tests only. Webhook delivery is one step; on-ramp, DigiLocker,
  x402 and the weekly report keep no state here.
- Routes that only read, reports, formatting, metrics and logging.
- The wiring that keeps a service from working at all is a constant where a property
  is about it (`UowEntered`, `Ends`, `EndsOf`, `Matchmakers`); the memory routes cannot
  build their service, and `AgentMemory` is about the service its tests build.

## Plan

Done: all modules above, checked; the safety properties of the contract, settlement,
negotiation, compliance, the marketplace, accounts, sessions, the rate limiter, the
circuit breaker, the stream, treasury, pricing, profiles, agent memory and anchoring,
proved. What is left of the properties is liveness.

Next: settlement with calls that a wallet makes on the chain itself while requests run.
