-------------------------- MODULE MCEscrowContract --------------------------
(***************************************************************************)
(* EscrowContract for TLC: two applications of two sessions, two amounts,  *)
(* so that a payment of the wrong amount can be offered.                   *)
(***************************************************************************)
EXTENDS EscrowContract

MCAmounts == {1, 2}

=============================================================================
