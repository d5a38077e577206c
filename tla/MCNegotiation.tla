---------------------------- MODULE MCNegotiation ----------------------------
(***************************************************************************)
(* Negotiation for TLC.                                                    *)
(***************************************************************************)
EXTENDS Negotiation, TLC

\* Requests are interchangeable.
MCSymmetry == Permutations(Requests)

\* What is_expired can answer before the TTL has passed: a session whose
\* deadline was restored from created_at is expired at once, unless the clock
\* of the database runs ahead of the application's.
EitherAnswer == {TRUE, FALSE}

\* A repository that keeps the deadline (none is shipped: a test's).
DeadlineKept == {FALSE}

=============================================================================
