---------------------------- MODULE MCCompliance ----------------------------
(***************************************************************************)
(* One escrow whose changes are published by two requests.  The amounts,   *)
(* in thousandths of a rupee: one whose tax is rounded, one that only      *)
(* rounding to paise takes to five lakh, and one above it.                 *)
(***************************************************************************)
EXTENDS Compliance

MCAmounts == {12345, 499999995, 500000015}

\* Two appends of one escrow are at least a tick of the clock apart.
MCClockSteps == {1}

=============================================================================
