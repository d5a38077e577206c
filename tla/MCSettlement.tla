---------------------------- MODULE MCSettlement ----------------------------
(***************************************************************************)
(* Settlement for TLC.                                                     *)
(***************************************************************************)
EXTENDS Settlement, TLC

\* Every session settles for the same amount: no property compares amounts of
\* two sessions.
MCPrice == [s \in Sessions |-> 1]

\* What the API offers: the settlement router has no unfreeze route.
ApiCalls == AllCalls \ {"unfreeze"}

\* The operations of SettlementService itself.
ServiceCalls == AllCalls \ {"signed_fund"}

\* Requests and applications are interchangeable.
MCSymmetry == Permutations(Requests) \cup Permutations(Apps)

=============================================================================
