----------------------------- MODULE AuditTrail -----------------------------
(***************************************************************************)
(* What the compliance log promises, without locks, hashes or requests:    *)
(* things happen to an escrow, and the trail of the escrow records them    *)
(* one at a time, at its end, each at most once, and never rewrites what   *)
(* it has recorded.  It may record them late, in another order, or never.  *)
(***************************************************************************)
EXTENDS Naturals, Sequences, FiniteSets

CONSTANTS Escrows, Kinds

VARIABLES happened, trail

Occurrences(kind, seq) == Cardinality({i \in DOMAIN seq : seq[i] = kind})

Init ==
    /\ happened = [e \in Escrows |-> <<>>]
    /\ trail = [e \in Escrows |-> <<>>]

Happen(e, kind) ==
    /\ happened' = [happened EXCEPT ![e] = Append(@, kind)]
    /\ UNCHANGED trail

Record(e, kind) ==
    /\ Occurrences(kind, trail[e]) < Occurrences(kind, happened[e])
    /\ trail' = [trail EXCEPT ![e] = Append(@, kind)]
    /\ UNCHANGED happened

Next == \E e \in Escrows, kind \in Kinds : Happen(e, kind) \/ Record(e, kind)

Spec == Init /\ [][Next]_<<happened, trail>>

=============================================================================
