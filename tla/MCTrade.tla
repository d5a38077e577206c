------------------------------- MODULE MCTrade -------------------------------
(***************************************************************************)
(* The marketplace: two sellers, three requests.  A profile and an RFQ     *)
(* meet only when sellers are ranked, so that a behaviour here either      *)
(* follows the RFQ, with profiles that are complete or missing, or the     *)
(* profiles, with requests 1 and 2: the focus.                             *)
(***************************************************************************)
EXTENDS Marketplace

VARIABLE focus

ASSUME MarketplaceAssumption

MCInit == Init /\ focus \in {"rfq", "profiles"}

MCNext ==
    /\ \E w \in Workers :
          \/ focus = "rfq" /\ StartRfq(w)
          \/ focus = "profiles" /\ w[1] \in 1..2 /\ StartProfile(w)
          \/ Progress(w)
    /\ UNCHANGED focus

MCSpec == MCInit /\ [][MCNext]_<<vars, focus>> /\ Fairness

=============================================================================
