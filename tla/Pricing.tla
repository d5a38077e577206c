------------------------------- MODULE Pricing -------------------------------
(***************************************************************************)
(* The prices of one negotiation session: the valuation of each side, the  *)
(* strategy engine, the guardrails and the way NeutralEngine.process_turn  *)
(* turns what the language model answers into the price that is offered.   *)
(* The life of the session (expiry, races, events) is module Negotiation.  *)
(*                                                                         *)
(* A price is an integer number of paise (the code's Decimal, quantized to *)
(* 0.01); a percentage is an integer; a concession is counted in           *)
(* ten-thousandths, as the code quantizes it.  What the Bayesian model     *)
(* believes of the opponent is a choice among the classes the strategy     *)
(* engine tells apart.                                                     *)
(***************************************************************************)
EXTENDS Integers

CONSTANTS
    Deals,        \* the pairs of agent profiles a session may have
    Answers,      \* what the language model may answer, usable or not
    HumanPrices,  \* prices of human overrides
    MaxRounds,    \* MAX_ROUNDS: 20
    MaxOverrides  \* model bound: human overrides of one session

PricingAssumption ==
    /\ Deals \subseteq [ceiling : Nat \ {0}, stock : Nat \ {0},
                        buying : {"LOW", "MEDIUM", "HIGH"},
                        selling : {"LOW", "MEDIUM", "HIGH"}, floor : 0..100]
    /\ Answers \subseteq [action : STRING, price : Nat, word : BOOLEAN]
    /\ HumanPrices \subseteq Nat \ {0}
    /\ MaxRounds \in Nat \ {0} /\ MaxOverrides \in Nat

VARIABLES
    deal,      \* the risk profiles: the buyer's and the seller's budget_ceiling
               \* (the latter stands for the seller's stock), their appetites,
               \* and the seller's margin_floor
    talk,      \* the session: status, round, stall and failure counters
    last,      \* the last offer of each side, and how many it made (2: or more)
    turn,      \* next_proposer
    agreement, \* the agreed price and what made it
    overrides  \* human overrides so far

vars == <<deal, talk, last, turn, agreement, overrides>>

----------------------------------------------------------------------------
(* Layer 1: valuation. *)

\* quantize(Decimal("0.01"), ROUND_HALF_UP) of n / d, for n >= 0.
HalfUp(n, d) == (2 * n + d) \div (2 * d)

AtLeast(a, b) == IF a < b THEN b ELSE a
AtMost(a, b) == IF a > b THEN b ELSE a

\* compute_valuation: both prices lie below the intrinsic value.
Valuation(intrinsic, risk, margin) ==
    [reservation |-> AtLeast(HalfUp(intrinsic * (100 - risk), 10000), 1),
     target      |-> AtLeast(HalfUp(intrinsic * (100 - margin), 10000), 1)]

\* compute_buyer_valuation of 80% of the ceiling (intrinsic is in 1/100 paise).
BuyerValuation(ceiling, appetite) ==
    LET risk == [LOW |-> 5, MEDIUM |-> 10, HIGH |-> 20][appetite]
        margin == [LOW |-> 3, MEDIUM |-> 5, HIGH |-> 10][appetite]
        v == Valuation(80 * ceiling, risk, margin)
    IN  [v EXCEPT !.reservation = AtMost(@, ceiling)]

TargetMargin(appetite) == [LOW |-> 15, MEDIUM |-> 20, HIGH |-> 30][appetite]

\* compute_seller_valuation of a cost of 60% of the seller's own ceiling.
SellerValuation(stock, floor, appetite) ==
    LET cost == 60 * stock
    IN  [reservation |-> AtLeast(HalfUp(cost * (100 + floor), 10000), 1),
         target |-> AtLeast(HalfUp(cost * (100 + TargetMargin(appetite)), 10000), 1)]

\* _compute_valuation.
ValuationOf(role) ==
    IF role = "BUYER" THEN BuyerValuation(deal.ceiling, deal.buying)
    ELSE SellerValuation(deal.stock, deal.floor, deal.selling)

----------------------------------------------------------------------------
(* Layer 2: strategy.  Each operator is the price a strategy suggests.     *)

\* 1 - (1 - t)^3, as a pair.
BoulwareCurve(round) ==
    LET cube(n) == n * n * n
    IN  <<cube(MaxRounds) - cube(MaxRounds - round), cube(MaxRounds)>>

\* (e^(3t) - 1) / (e^3 - 1) in ten-thousandths.  It is only asked for t = 0.80
\* and t = 0.85: later rounds are left to the ultimatum.
DeadlineCurve(round) ==
    IF 100 * round < 85 * MaxRounds THEN <<5252, 10000>> ELSE <<6186, 10000>>

\* From the target by a fraction of its distance to the reservation price: up
\* for a buyer, down for a seller, wherever the reservation lies.
Along(curve, val, role) ==
    LET range == AtLeast(val.reservation - val.target, val.target - val.reservation)
        move == range * curve[1]
    IN  IF role = "BUYER" THEN HalfUp(val.target * curve[2] + move, curve[2])
        ELSE HalfUp(val.target * curve[2] - move, curve[2])

\* Never beyond the reservation price.
Bounded(price, val, role) ==
    IF role = "BUYER" THEN AtMost(price, val.reservation)
    ELSE AtLeast(price, val.reservation)

StrongAnchor(val, role) ==
    HalfUp(val.target * (IF role = "BUYER" THEN 95 ELSE 110), 100)

Boulware(round, val, role) == Along(BoulwareCurve(round), val, role)

DeadlinePressure(round, val, role) == Along(DeadlineCurve(round), val, role)

\* A concession of 0.85 of the gap, kept between 0.5% and 15%; 2% when the other
\* side has made no offer.
TitForTat(mine, theirs, val, role) ==
    LET gap == AtLeast(theirs - mine, mine - theirs)
        wanted == IF theirs = 0 THEN 200 ELSE HalfUp(8500 * gap, mine)
        concession == AtLeast(AtMost(wanted, 1500), 50)
        sign == IF role = "BUYER" THEN 1 ELSE -1
    IN  Bounded(HalfUp(mine * (10000 + sign * concession), 10000), val, role)

Ultimatum(mine, theirs, val, role) ==
    Bounded(IF theirs = 0 THEN mine ELSE HalfUp(mine + theirs, 2), val, role)

Hardball(mine, val, role) ==
    Bounded(HalfUp(mine * (IF role = "BUYER" THEN 101 ELSE 99), 100), val, role)

\* The strategy that select_strategy selects.  mine and theirs are 0 when there is
\* no such offer; the flexibility is a class: under 0.15, over 0.7, or between.
Selected(role, round, mine, theirs, flexibility, stall) ==
    LET val == ValuationOf(role)
        mineOrTarget == IF mine = 0 THEN val.target ELSE mine
    IN  CASE round = 0 \/ (round = 1 /\ mine = 0) -> StrongAnchor(val, role)
          [] role = "SELLER" /\ theirs # 0 /\ theirs < val.reservation -> val.reservation
          [] MaxRounds - round <= 2 -> Ultimatum(mineOrTarget, theirs, val, role)
          [] flexibility = "rigid" /\ stall >= 2 -> Hardball(mineOrTarget, val, role)
          [] 4 * (MaxRounds - round) < MaxRounds -> DeadlinePressure(round, val, role)
          [] flexibility = "yielding" -> TitForTat(mineOrTarget, theirs, val, role)
          [] OTHER -> Boulware(round, val, role)

\* select_strategy: one paisa at least.
Suggestion(role, round, mine, theirs, flexibility, stall) ==
    AtLeast(1, Selected(role, round, mine, theirs, flexibility, stall))

\* update_belief: any class may become the likeliest.
Beliefs == {"rigid", "medium", "yielding"}

\* _get_or_compute_belief: the prior until the opponent has made two offers.
BeliefsAbout(count) == IF count < 2 THEN {"medium"} ELSE Beliefs

----------------------------------------------------------------------------
(* Layer 4: guardrails. *)

\* validate_envelope of an OFFER or a COUNTER.  The margin check never runs,
\* because process_turn passes no cost_basis.
Violates(role, price) ==
    \/ role = "BUYER" /\ price > deal.ceiling
    \/ role = "SELLER" /\ price < ValuationOf("SELLER").reservation

\* check_budget_guard, and what is done when it raises.
BudgetGuard(role, price) ==
    IF role = "BUYER" THEN AtMost(price, deal.ceiling) ELSE price

\* Mutation check only: a violation is logged, and the model's price kept.
FinalPriceNotVetoed(role, price, suggestion) == price

\* The price offered: the suggestion replaces a vetoed one, and is not itself
\* validated.
FinalPrice(role, price, suggestion) ==
    BudgetGuard(role, IF Violates(role, price) THEN suggestion ELSE price)

\* check_convergence, at 2% of the buyer's price.
Converged(buyer, seller) ==
    /\ buyer # 0 /\ seller # 0
    /\ 100 * AtLeast(seller - buyer, buyer - seller) <= 2 * buyer

\* _track_concession: a change under 0.2% of one's last price is none.
StallAfter(mine, price) ==
    IF mine # 0 /\ 1000 * AtLeast(price - mine, mine - price) < 2 * mine
    THEN talk.stall + 1 ELSE 0

----------------------------------------------------------------------------
(* The session. *)

StallRounds == 3
MaxSchemaFailures == 3
StallThreshold == 10

NoOffer == [price |-> 0, by |-> "none", count |-> 0]

Other(role) == IF role = "BUYER" THEN "SELLER" ELSE "BUYER"

Init ==
    /\ deal \in Deals
    /\ talk = [status |-> "open", round |-> 0, stall |-> 0, failures |-> 0]
    /\ last = [BUYER |-> NoOffer, SELLER |-> NoOffer]
    /\ turn = "BUYER" /\ overrides = 0
    /\ agreement = [price |-> 0, via |-> "none"]

\* add_offer.
Add(role, price, by) ==
    /\ talk.round < MaxRounds
    /\ last' = [last EXCEPT ![role] = [price |-> price, by |-> by,
                                       count |-> AtMost(@.count + 1, 2)]]
    /\ turn' = Other(role)

\* run_agent_turn once process_turn has returned: a session that ends without
\* one of the words of a failure stalls when the counter says so, and is agreed
\* at the price of the last offer when it does not.
Conclude(via, word, price, stall, failures) ==
    LET status == CASE via = "none" -> "open"
                    [] via = "breach" -> "failed"
                    [] via # "none" /\ word -> "failed"
                    [] stall >= StallRounds -> "review"
                    [] OTHER -> "agreed"
    IN  /\ talk' = [status |-> status, round |-> talk.round + 1,
                    stall |-> stall, failures |-> failures]
        /\ agreement' = IF status = "agreed" /\ via # "breach"
                        THEN [price |-> price, via |-> via] ELSE agreement
        /\ UNCHANGED <<deal, overrides>>

\* validate_agent_output.
Usable(answer) ==
    answer.action \in {"OFFER", "COUNTER", "ACCEPT", "REJECT"} /\ answer.price > 0

\* generate_offer: the first usable answer of four attempts.
Generated == {answer \in Answers : Usable(answer)}

\* An OFFER or COUNTER: the price passes the guardrails; a third violation ends
\* the session with a placeholder offer of one rupee.
CounterOffer(answer) ==
    \E belief \in BeliefsAbout(last[Other(turn)].count) :
        LET mine == last[turn].price
            theirs == last[Other(turn)].price
            price == FinalPrice(turn, answer.price,
                         Suggestion(turn, talk.round, mine, theirs, belief, talk.stall))
            failures == talk.failures + (IF Violates(turn, answer.price) THEN 1 ELSE 0)
            stall == StallAfter(mine, price)
            via == CASE Converged(IF turn = "BUYER" THEN price ELSE theirs,
                                  IF turn = "SELLER" THEN price ELSE theirs) -> "converged"
                     [] talk.round + 1 >= StallThreshold -> "stalled"
                     [] OTHER -> "none"
        IN  IF failures > talk.failures /\ failures >= MaxSchemaFailures
            THEN /\ Add(turn, 100, "placeholder")
                 /\ Conclude("breach", FALSE, 100, talk.stall, failures)
            ELSE /\ Add(turn, price, "agent")
                 /\ Conclude(via, answer.word, price, stall, failures)

\* ACCEPT takes the other side's last price as it is, REJECT the model's.
Close(answer) ==
    LET theirs == last[Other(turn)].price
        price == IF answer.action = "ACCEPT" /\ theirs # 0 THEN theirs ELSE answer.price
    IN  /\ Add(turn, price, "closing")
        /\ Conclude(answer.action, answer.word, price, talk.stall, talk.failures)

\* process_turn and run_agent_turn.  A turn without a usable answer changes
\* nothing.
AgentTurn ==
    /\ talk.status = "open"
    /\ \E answer \in Generated :
          IF answer.action \in {"OFFER", "COUNTER"} THEN CounterOffer(answer) ELSE Close(answer)

\* apply_human_override: an offer of the buyer's side, of any price, whoever's
\* turn it is.
HumanOverride ==
    /\ talk.status \in {"open", "review"}
    /\ overrides < MaxOverrides
    /\ overrides' = overrides + 1
    /\ \E price \in HumanPrices : Add("BUYER", price, "human")
    /\ talk' = [talk EXCEPT !.status = "open", !.round = @ + 1]
    /\ UNCHANGED <<deal, agreement>>

Next == AgentTurn \/ HumanOverride

Spec == Init /\ [][Next]_vars

----------------------------------------------------------------------------
(* Properties. *)

Agent(role) == last[role].by = "agent"

\* The seller's floor is no more than the margin it aims at.
FloorUnderTarget == deal.floor <= TargetMargin(deal.selling)

\* An agent's offer keeps to its side's limit whichever strategy, belief or
\* override of the model's price made it: a buyer's to the ceiling, a seller's to
\* the reservation price, provided the floor is under the target margin (above
\* it, the curves start below the reservation price).  A price that two agents'
\* offers converge on is within 2% of both limits.
PricesRespectLimits ==
    /\ Agent("BUYER") => last["BUYER"].price <= deal.ceiling
    /\ Agent("SELLER") /\ FloorUnderTarget
          => last["SELLER"].price >= ValuationOf("SELLER").reservation
    /\ agreement.via = "converged" /\ Agent("BUYER") /\ Agent("SELLER")
          => /\ 100 * agreement.price <= 102 * deal.ceiling
             /\ FloorUnderTarget =>
                  102 * agreement.price >= 100 * ValuationOf("SELLER").reservation
=============================================================================
