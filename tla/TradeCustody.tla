---------------------------- MODULE TradeCustody ----------------------------
(***************************************************************************)
(* What the platform promises about the money of a trade, with nothing     *)
(* said of requests, rows or contracts: the price of a deal is taken into  *)
(* custody at most once, and leaves it at most once, to the seller or back *)
(* to the buyer, never both.  EscrowContract implements this for every     *)
(* application id and Settlement for every negotiation session.            *)
(***************************************************************************)
CONSTANT Deals

VARIABLE stage

Stages == {"open", "held", "paid", "returned"}

Init == stage = [d \in Deals |-> "open"]

\* The buyer's money enters custody.
Hold(d) ==
    /\ stage[d] = "open"
    /\ stage' = [stage EXCEPT ![d] = "held"]

\* The money goes to the seller.
Pay(d) ==
    /\ stage[d] = "held"
    /\ stage' = [stage EXCEPT ![d] = "paid"]

\* The money goes back to the buyer.
Return(d) ==
    /\ stage[d] = "held"
    /\ stage' = [stage EXCEPT ![d] = "returned"]

Next == \E d \in Deals : Hold(d) \/ Pay(d) \/ Return(d)

Spec == Init /\ [][Next]_stage

=============================================================================
