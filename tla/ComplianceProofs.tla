-------------------------- MODULE ComplianceProofs --------------------------
(***************************************************************************)
(* The properties of the compliance context, for any number of escrows,    *)
(* requests and events.  The chain of an escrow, what a request may rely   *)
(* on while others run, and a balance - what is recorded and what is on    *)
(* its way never exceed what has happened - make the inductive invariant.  *)
(***************************************************************************)
EXTENDS Compliance, FiniteSetTheorems, WellFoundedInduction, TLAPS

----------------------------------------------------------------------------
(* The inductive invariant. *)

\* The entries S of one escrow: numbered from 0 without a gap, each linked to the one
\* before it by its hash, and none older than the one before it.
IsChain(S) ==
    /\ IsFiniteSet(S)
    /\ \A x, y \in S : x.seq = y.seq => x = y
    /\ \A x \in S : x.seq < Cardinality(S)
    /\ \A n \in 0..Cardinality(S) - 1 : \E x \in S : x.seq = n
    /\ \A x \in S : x.hash = Hash(x.prev, x.kind) /\ Len(x.prev) = x.seq
    /\ \A x, y \in S : y.seq = x.seq + 1 => y.prev = x.hash
    /\ \A x, y \in S : x.at >= 1 /\ (x.seq < y.seq => x.at <= y.at)

\* The entry that get_latest finds among the entries S of an escrow.
LastOf(S) == IF S = {} THEN None ELSE CHOOSE x \in S : \A y \in S : y.seq <= x.seq

InDeploy == {"deploy", "lock", "read", "insert"}

\* The events of e that wait to be recorded, or may have been lost.
InFlight(e, kind) ==
    {p \in Workers : req[p].pc \in InDeploy /\ req[p].escrow = e /\ req[p].kind = kind}

IsReleased(e) == \E x \in Of(e) : x.kind = "EscrowReleased"

\* What a request of worker p may rely on.
GoodRequest(p) ==
    LET r == req[p]
    IN  /\ r.pc \in {"deploy", "notify"} \cup InHandler =>
             r.escrow \in Escrows /\ r.kind \in Audited
        /\ r.pc \in {"read", "insert"} => lock[r.escrow] = p
        /\ r.pc = "insert" => r.latest = LastOf(Of(r.escrow))
        /\ r.pc = "records" => IsReleased(r.escrow)
        /\ r.pc \in {"first", "second", "build"} =>
             /\ r.job \in Jobs
             /\ \A e \in r.fema : gst[e] # None
        /\ r.pc \in {"first", "build"} => r.fema \subseteq r.gst
        /\ r.pc = "second" => r.escrow \in Escrows /\ r.fema \subseteq r.gst \cup {r.escrow}

\* What the trail has recorded and what is on its way to it has happened.
IsOwed(e, kind) ==
    /\ IsFiniteSet(InFlight(e, kind))
    /\ Cardinality(InFlight(e, kind)) + TrailOf!Occurrences(kind, Trail(e))
         <= TrailOf!Occurrences(kind, committed[e])

Inv ==
    /\ TypeOK
    /\ \A e \in Escrows : IsChain(Of(e))
    /\ \A p \in Workers : GoodRequest(p)
    /\ \A e \in Escrows, kind \in Audited : IsOwed(e, kind)
    /\ page.more => page.escrow \in Escrows
    /\ RecordsFollowRelease
    /\ ExportsAreUsable

\* While two appends are never in the same tick of the clock.
IsTimed(S) == \A x, y \in S : x.seq < y.seq => x.at < y.at

PageInv ==
    /\ \A e \in Escrows : IsTimed(Of(e))
    /\ PagesMissNothing
    /\ page.more =>
               \/ page.seen = <<>> /\ page.cursor = 0
            \/ \E x \in Of(page.escrow) : x.seq = Len(page.seen) - 1 /\ x.at = page.cursor

----------------------------------------------------------------------------
(* Types. *)

LEMMA RequestFields ==
    ASSUME NEW r \in RequestState
    PROVE  /\ r.escrow \in Escrows \cup {None} /\ r.kind \in Kinds \cup {"none"}
           /\ r.amount \in Nat /\ r.latest \in EntryRow \cup {None}
           /\ r.job \in Jobs \cup {None}
           /\ r.todo \subseteq Escrows /\ r.fema \subseteq Escrows /\ r.gst \subseteq Escrows
BY DEF RequestState

LEMMA IdleIsState == Idle \in RequestState
BY DEF Idle, RequestState, InHandler

LEMMA Quantized ==
    ASSUME NEW n \in Nat, NEW d \in {10, 100}
    PROVE  /\ Quantize(n, d) \in Nat
           /\ 2 * (d * Quantize(n, d) - n) <= d /\ 2 * (n - d * Quantize(n, d)) <= d
<1> DEFINE q == n \div d  r == n % d
<1>1. q \in Nat /\ r \in 0..d - 1 /\ n = d * q + r
  <2>1. CASE d = 10
    BY <2>1
  <2>2. CASE d = 100
    BY <2>2
  <2> QED BY <2>1, <2>2
<1>2. /\ Quantize(n, d) \in {q, q + 1}
      /\ Quantize(n, d) = q => 2 * r <= d
      /\ Quantize(n, d) = q + 1 => 2 * r >= d
  BY <1>1 DEF Quantize
<1> HIDE DEF q, r
<1>3. CASE Quantize(n, d) = q
  BY <1>1, <1>2, <1>3
<1>4. CASE Quantize(n, d) = q + 1
  <2>1. d * (q + 1) = d * q + d
    BY <1>1
  <2> QED BY <1>1, <1>2, <1>4, <2>1
<1> QED BY <1>2, <1>3, <1>4

LEMMA RecordTypes ==
    ASSUME NEW a \in Nat, NEW s \in Snapshots
    PROVE  /\ FemaOf(a) \in FemaRow /\ FemaOf(a) # None
           /\ GstOf(a, s) \in GstRow /\ GstOf(a, s) # None
<1>1. FemaOf(a) \in FemaRow
  BY Quantized DEF FemaOf, FemaRow
<1>2. Quantize(a, 10) \in Nat
  BY Quantized
<1>3. Tax(18, Quantize(a, 10)) \in Nat /\ Tax(9, Quantize(a, 10)) \in Nat
  <2>1. 18 * Quantize(a, 10) \in Nat /\ 9 * Quantize(a, 10) \in Nat
    BY <1>2
  <2> QED BY <2>1, Quantized DEF Tax
<1>4. PICK q \in Nat : q = Quantize(a, 10)
  BY <1>2
<1>5. PICK t \in Nat : t = Tax(18, q)
  BY <1>3, <1>4
<1>6. PICK h \in Nat : h = Tax(9, q)
  BY <1>3, <1>4
<1>7. GstOf(a, s) \in {[taxable |-> q, igst |-> 0, cgst |-> h, sgst |-> h],
                        [taxable |-> q, igst |-> t, cgst |-> 0, sgst |-> 0]}
  BY <1>4, <1>5, <1>6 DEF GstOf
<1>8. GstOf(a, s) \in GstRow
  BY <1>7 DEF GstRow
<1> QED BY <1>1, <1>8, ComplianceAssumption

LEMMA EntryType ==
    ASSUME NEW e \in Escrows, NEW latest \in EntryRow \cup {None}, NEW kind \in Audited,
           NEW step \in Nat
    PROVE  Entry(e, latest, kind, step) \in EntryRow
<1>1. CASE latest = None
  <2>1. Append(<<>>, kind) \in Seq(Audited) /\ <<>> \in Seq(Audited)
    OBVIOUS
  <2>2. Entry(e, latest, kind, step) =
          [escrow |-> e, kind |-> kind, prev |-> <<>>, hash |-> Append(<<>>, kind),
           seq |-> 0, at |-> 1]
    BY <1>1 DEF Entry, GenesisHash, Hash
  <2> HIDE DEF Entry
  <2> QED BY <2>1, <2>2 DEF EntryRow
<1>2. CASE latest # None
  <2>1. latest.hash \in Seq(Audited) /\ latest.seq \in Nat /\ latest.at \in Nat
    BY <1>2 DEF EntryRow
  <2>2. PICK h \in Seq(Audited) : h = latest.hash
    BY <2>1
  <2>3. Append(h, kind) \in Seq(Audited)
    BY <2>2
  <2>4. Entry(e, latest, kind, step) =
          [escrow |-> e, kind |-> kind, prev |-> h, hash |-> Append(h, kind),
           seq |-> latest.seq + 1, at |-> latest.at + step]
    BY <1>2, <2>2 DEF Entry, Hash
  <2>5. latest.seq + 1 \in Nat /\ latest.at + step \in Nat
    BY <2>1
  <2> QED BY <2>3, <2>4, <2>5 DEF EntryRow
<1> QED BY <1>1, <1>2

\* The changes of a request's own state.
LEMMA MovesTo ==
    ASSUME NEW r \in RequestState,
           NEW pc \in {"idle", "deploy", "notify", "first", "second", "build"} \cup InHandler
    PROVE  /\ [r EXCEPT !.pc = pc] \in RequestState
           /\ \A l \in EntryRow \cup {None} :
                 [r EXCEPT !.pc = pc, !.latest = l] =
                   [pc |-> pc, escrow |-> r.escrow, kind |-> r.kind, amount |-> r.amount,
                    latest |-> l, job |-> r.job, todo |-> r.todo, fema |-> r.fema,
                    gst |-> r.gst]
<1>1. [r EXCEPT !.pc = pc] =
        [pc |-> pc, escrow |-> r.escrow, kind |-> r.kind, amount |-> r.amount,
         latest |-> r.latest, job |-> r.job, todo |-> r.todo, fema |-> r.fema, gst |-> r.gst]
  <2>1. r = [pc |-> r.pc, escrow |-> r.escrow, kind |-> r.kind, amount |-> r.amount,
             latest |-> r.latest, job |-> r.job, todo |-> r.todo, fema |-> r.fema,
             gst |-> r.gst]
    BY DEF RequestState
  <2> QED BY ONLY <2>1
<1>2. [r EXCEPT !.pc = pc] \in RequestState
  BY <1>1, RequestFields DEF RequestState
<1>3. PICK d : d = [r EXCEPT !.pc = pc]
  OBVIOUS
<1>4. ASSUME NEW l \in EntryRow \cup {None}
      PROVE  [r EXCEPT !.pc = pc, !.latest = l] =
               [pc |-> pc, escrow |-> r.escrow, kind |-> r.kind, amount |-> r.amount,
                latest |-> l, job |-> r.job, todo |-> r.todo, fema |-> r.fema,
                gst |-> r.gst]
  <2>1. [r EXCEPT !.pc = pc, !.latest = l] = [d EXCEPT !.latest = l]
    BY <1>3
  <2>2. d = [pc |-> pc, escrow |-> r.escrow, kind |-> r.kind, amount |-> r.amount,
             latest |-> r.latest, job |-> r.job, todo |-> r.todo, fema |-> r.fema,
             gst |-> r.gst]
    BY <1>1, <1>3
  <2>3. [d EXCEPT !.latest = l] =
            [pc |-> pc, escrow |-> r.escrow, kind |-> r.kind, amount |-> r.amount,
             latest |-> l, job |-> r.job, todo |-> r.todo, fema |-> r.fema, gst |-> r.gst]
    BY ONLY <2>2
  <2> QED BY <2>1, <2>3
<1> QED BY <1>2, <1>4

----------------------------------------------------------------------------
(* The chain of one escrow. *)

LEMMA LatestIsLast ==
    \A e : Latest(e) = LastOf(Of(e)) /\ Of(e) \subseteq entries
BY DEF Latest, LastOf, Of

LEMMA LastEntry ==
    ASSUME NEW S \in SUBSET EntryRow, IsChain(S), S # {}
    PROVE  LastOf(S) \in S /\ LastOf(S).seq = Cardinality(S) - 1
<1>1. Cardinality(S) \in Nat /\ Cardinality(S) # 0
  BY FS_CardinalityType, FS_EmptySet DEF IsChain
<1>2. \A x \in S : x.seq \in Nat
  BY DEF EntryRow
<1>3. PICK l \in S : l.seq = Cardinality(S) - 1
  BY <1>1 DEF IsChain
<1>4. \A y \in S : y.seq <= l.seq
  BY <1>1, <1>2, <1>3 DEF IsChain
<1>5. LastOf(S) \in S /\ \A y \in S : y.seq <= LastOf(S).seq
  BY <1>4 DEF LastOf
<1>6. LastOf(S).seq = l.seq
  BY <1>2, <1>4, <1>5
<1> QED BY <1>3, <1>5, <1>6

\* An entry is the next one of S if its number follows, and its hash the last one's.
IsNextOf(x, S) ==
    /\ x.hash = Hash(x.prev, x.kind)
    /\ x.seq = Cardinality(S)
    /\ IF S = {} THEN x.prev = <<>> /\ x.at = 1
       ELSE x.prev = LastOf(S).hash /\ x.at >= LastOf(S).at

LEMMA NextEntry ==
    ASSUME NEW e \in Escrows, NEW kind \in Audited, NEW step \in Nat,
           NEW S \in SUBSET EntryRow, IsChain(S)
    PROVE  IsNextOf(Entry(e, LastOf(S), kind, step), S)
<1>1. CASE S = {}
  BY <1>1, FS_EmptySet DEF LastOf, Entry, IsNextOf, Hash, GenesisHash
<1>2. CASE S # {}
  <2>1. LastOf(S) \in S /\ LastOf(S).seq = Cardinality(S) - 1 /\ Cardinality(S) \in Nat
    BY <1>2, LastEntry, FS_CardinalityType DEF IsChain
  <2>2. LastOf(S) # None
    BY <2>1, ComplianceAssumption
  <2>3. PICK l : l = LastOf(S)
    OBVIOUS
  <2>4. l # None /\ l.seq = Cardinality(S) - 1
    BY <2>1, <2>2, <2>3
  <2>5. Entry(e, l, kind, step) =
          [escrow |-> e, kind |-> kind, prev |-> l.hash, hash |-> Hash(l.hash, kind),
           seq |-> l.seq + 1, at |-> l.at + step]
    BY <2>4 DEF Entry
  <2>6. l.at \in Nat /\ l.seq \in Nat
    BY <2>1, <2>3 DEF EntryRow
  <2> QED BY <1>2, <2>1, <2>3, <2>4, <2>5, <2>6 DEF IsNextOf
<1> QED BY <1>1, <1>2

LEMMA ChainGrows ==
    ASSUME NEW S \in SUBSET EntryRow, NEW x \in EntryRow, IsChain(S), IsNextOf(x, S)
    PROVE  /\ IsChain(S \cup {x})
           /\ Cardinality(S \cup {x}) = Cardinality(S) + 1
           /\ \A y \in S : y.seq # x.seq
<1> DEFINE n == Cardinality(S)
<1>1. n \in Nat /\ IsFiniteSet(S)
  BY FS_CardinalityType DEF IsChain
<1>2. \A y \in S : y.seq \in Nat /\ y.seq < n
  BY DEF IsChain, EntryRow
<1>3. x.seq = n
  BY DEF IsNextOf
<1>4. x \notin S
  BY <1>1, <1>2, <1>3
<1>5. IsFiniteSet(S \cup {x}) /\ Cardinality(S \cup {x}) = n + 1
  BY <1>1, <1>4, FS_AddElement
<1> HIDE DEF n
<1>6. \A y, z \in S \cup {x} : y.seq = z.seq => y = z
  BY <1>1, <1>2, <1>3 DEF IsChain
<1>7. \A y \in S \cup {x} : y.seq < n + 1
  BY <1>1, <1>2, <1>3
<1>8. \A i \in 0..n : \E y \in S \cup {x} : y.seq = i
  <2> SUFFICES ASSUME NEW i \in 0..n PROVE \E y \in S \cup {x} : y.seq = i
    OBVIOUS
  <2>1. CASE i = n
    BY <1>3, <2>1
  <2>2. CASE i # n
    <3>1. i \in 0..n - 1
      BY <1>1, <2>2
    <3> QED BY <3>1 DEF IsChain, n
  <2> QED BY <2>1, <2>2
<1>9. Len(x.prev) = n /\ \A y \in S : x.seq = y.seq + 1 => x.prev = y.hash
  <2>1. CASE S = {}
    BY <2>1, FS_EmptySet DEF IsNextOf, n
  <2>2. CASE S # {}
    <3>1. PICK l \in S : l = LastOf(S) /\ l.seq = n - 1
      BY <2>2, LastEntry DEF n
    <3>2. x.prev = l.hash /\ l.hash = Append(l.prev, l.kind) /\ Len(l.prev) = n - 1
      BY <2>2, <3>1 DEF IsNextOf, IsChain, Hash
    <3>3. l.prev \in Seq(Audited)
      BY DEF EntryRow
    <3>4. Len(x.prev) = n
      BY <1>1, <3>2, <3>3
    <3>5. ASSUME NEW y \in S, x.seq = y.seq + 1 PROVE y = l
      <4>1. y.seq = l.seq
        BY <1>1, <1>2, <1>3, <3>1, <3>5
      <4> QED BY <4>1 DEF IsChain
    <3> QED BY <3>2, <3>4, <3>5
  <2> QED BY <2>1, <2>2
<1>10. \A y \in S \cup {x} : y.hash = Hash(y.prev, y.kind) /\ Len(y.prev) = y.seq
  BY <1>3, <1>9 DEF IsChain, IsNextOf
<1>11. \A y, z \in S \cup {x} : z.seq = y.seq + 1 => z.prev = y.hash
  <2> SUFFICES ASSUME NEW y \in S \cup {x}, NEW z \in S \cup {x}, z.seq = y.seq + 1
               PROVE  z.prev = y.hash
    OBVIOUS
  <2>1. CASE y \in S /\ z \in S
    BY <2>1 DEF IsChain
  <2>2. CASE y \in S /\ z = x
    BY <1>9, <2>2
  <2>3. y # x
    BY <1>1, <1>2, <1>3
  <2> QED BY <2>1, <2>2, <2>3
<1>12. Cardinality(S \cup {x}) - 1 = n
  BY <1>1, <1>5
<1>13. x.at >= 1 /\ \A y \in S : y.at <= x.at
  <2>1. CASE S = {}
    BY <2>1 DEF IsNextOf
  <2>2. CASE S # {}
    <3>1. PICK l \in S : l = LastOf(S) /\ l.seq = n - 1
      BY <2>2, LastEntry DEF n
    <3>2. x.at \in Nat /\ \A y \in S : y.at \in Nat
      BY DEF EntryRow
    <3>3. x.at >= l.at /\ l.at >= 1
      BY <2>2, <3>1 DEF IsNextOf, IsChain
    <3>4. ASSUME NEW y \in S PROVE y.at <= l.at
      <4>1. CASE y.seq = l.seq
        BY <3>1, <3>2, <4>1 DEF IsChain
      <4>2. CASE y.seq < l.seq
        BY <3>1, <4>2 DEF IsChain
      <4> QED BY <1>1, <1>2, <3>1, <4>1, <4>2
    <3> QED BY <3>2, <3>3, <3>4
  <2> QED BY <2>1, <2>2
<1>14. \A y, z \in S \cup {x} : y.at >= 1 /\ (y.seq < z.seq => y.at <= z.at)
  BY <1>1, <1>2, <1>3, <1>13 DEF IsChain
<1>15. IsChain(S \cup {x})
  BY <1>5, <1>6, <1>7, <1>8, <1>10, <1>11, <1>12, <1>14 DEF IsChain
<1> QED BY <1>2, <1>3, <1>5, <1>15 DEF n

\* The kinds of S in the order of its numbers.
KindsOf(S) == [i \in 1..Cardinality(S) |-> (CHOOSE x \in S : x.seq = i - 1).kind]

LEMMA TrailIsKinds == \A e : Trail(e) = KindsOf(Of(e))
BY DEF Trail, KindsOf

LEMMA KindsType ==
    ASSUME NEW S \in SUBSET EntryRow, IsChain(S)
    PROVE  KindsOf(S) \in Seq(Audited)
<1> DEFINE n == Cardinality(S)
           row(i) == CHOOSE y \in S : y.seq = i - 1
<1>1. n \in Nat
  BY FS_CardinalityType DEF IsChain
<1>2. ASSUME NEW i \in 1..n PROVE row(i) \in S
  <2>1. i - 1 \in 0..n - 1
    BY <1>1
  <2>2. \E y \in S : y.seq = i - 1
    BY <2>1 DEF IsChain
  <2> QED BY <2>2
<1>3. KindsOf(S) = [i \in 1..n |-> row(i).kind]
  BY DEF KindsOf
<1> HIDE DEF n, row
<1> QED BY <1>1, <1>2, <1>3 DEF EntryRow

LEMMA KindsGrow ==
    ASSUME NEW S \in SUBSET EntryRow, NEW x \in EntryRow, IsChain(S), IsNextOf(x, S)
    PROVE  KindsOf(S \cup {x}) = Append(KindsOf(S), x.kind)
<1> DEFINE n == Cardinality(S)
           T == S \cup {x}
           At(U, i) == CHOOSE y \in U : y.seq = i - 1
<1>1. n \in Nat /\ Cardinality(T) = n + 1 /\ IsChain(T) /\ x.seq = n
  BY ChainGrows, FS_CardinalityType DEF IsChain, IsNextOf
<1>2. ASSUME NEW i \in 1..n PROVE At(S, i) \in S /\ At(S, i).seq = i - 1
  <2>1. i - 1 \in 0..n - 1
    BY <1>1
  <2>2. \E y \in S : y.seq = i - 1
    BY <2>1 DEF IsChain
  <2> QED BY <2>2
<1>3. ASSUME NEW i \in 1..n + 1 PROVE At(T, i) \in T /\ At(T, i).seq = i - 1
  <2>1. i - 1 \in 0..Cardinality(T) - 1
    BY <1>1
  <2>2. \E y \in T : y.seq = i - 1
    BY <1>1, <2>1 DEF IsChain
  <2> QED BY <2>2
<1>4. ASSUME NEW i \in 1..n PROVE At(T, i) = At(S, i)
  <2>1. i \in 1..n + 1 /\ At(S, i) \in T
    BY <1>1, <1>2
  <2>2. At(T, i) \in T /\ At(T, i).seq = At(S, i).seq
    BY <1>2, <1>3, <2>1
  <2> HIDE DEF At
  <2> QED BY <1>1, <2>1, <2>2 DEF IsChain
<1>5. At(T, n + 1) = x
  <2>1. n + 1 \in 1..n + 1 /\ x \in T
    BY <1>1
  <2>2. At(T, n + 1) \in T /\ At(T, n + 1).seq = x.seq
    BY <1>1, <1>3, <2>1
  <2> HIDE DEF At
  <2> QED BY <1>1, <2>1, <2>2 DEF IsChain
<1>6. KindsOf(S) = [i \in 1..n |-> At(S, i).kind]
  BY DEF KindsOf
<1>7. KindsOf(T) = [i \in 1..n + 1 |-> At(T, i).kind]
  BY <1>1 DEF KindsOf
<1> HIDE DEF n, At
<1>8. KindsOf(S) \in Seq(Audited)
  BY KindsType
<1>9. Append(KindsOf(S), x.kind) =
        [i \in 1..n + 1 |-> IF i = n + 1 THEN x.kind ELSE KindsOf(S)[i]]
  <2>1. Len(KindsOf(S)) = n
    BY <1>1, <1>6, <1>8
  <2> QED BY <2>1, <1>8
<1>10. ASSUME NEW i \in 1..n + 1
       PROVE  At(T, i).kind = IF i = n + 1 THEN x.kind ELSE KindsOf(S)[i]
  <2>1. CASE i = n + 1
    BY <1>5, <2>1
  <2>2. CASE i # n + 1
    <3>1. i \in 1..n
      BY <1>1, <2>2
    <3> QED BY <1>4, <1>6, <2>2, <3>1
  <2> QED BY <2>1, <2>2
<1>11. KindsOf(T) = Append(KindsOf(S), x.kind)
  BY <1>7, <1>9, <1>10
<1> QED BY <1>11

----------------------------------------------------------------------------
(* Verification. *)

\* A set of numbers that is not empty has a least one.
LEMMA LeastNumber ==
    ASSUME NEW T \in SUBSET Nat, T # {}
    PROVE  \E n \in T : \A m \in T : n <= m
<1>1. PICK n \in T : \A m \in T : ~(<<m, n>> \in OpToRel(<, Nat))
  <2> DEFINE R == OpToRel(<, Nat)
  <2>1. IsWellFoundedOn(R, Nat)
    BY NatLessThanWellFounded
  <2> HIDE DEF R
  <2>2. \E n \in T : \A m \in T : ~(<<m, n>> \in R)
    BY <2>1, WFMin
  <2> QED BY <2>2 DEF R
<1>2. \A m \in T : ~(m < n)
  BY <1>1 DEF OpToRel
<1> QED BY <1>2

\* Of any part of a chain, the entries before one of them are empty or have a last one.
LEMMA LastBefore ==
    ASSUME NEW S \in SUBSET EntryRow, NEW x \in EntryRow, \E y \in S : y.seq < x.seq
    PROVE  \E y \in S : y.seq < x.seq /\ \A z \in S : z.seq < x.seq => z.seq <= y.seq
<1>1. x.seq \in Nat /\ \A y \in S : y.seq \in Nat
  BY DEF EntryRow
<1> DEFINE T == {x.seq - y.seq : y \in {z \in S : z.seq < x.seq}}
<1>2. T \in SUBSET Nat /\ T # {}
  BY <1>1
<1>3. PICK n \in T : \A m \in T : n <= m
  BY <1>2, LeastNumber
<1>4. PICK y \in S : y.seq < x.seq /\ n = x.seq - y.seq
  BY <1>3
<1>5. ASSUME NEW z \in S, z.seq < x.seq PROVE z.seq <= y.seq
  <2>1. x.seq - z.seq \in T
    BY <1>5
  <2> HIDE DEF T
  <2> QED BY <1>1, <1>3, <1>4, <2>1
<1> QED BY <1>4, <1>5

LEMMA ChainVerifies ==
    ASSUME NEW C \in SUBSET EntryRow, IsChain(C), NEW S \in SUBSET C
    PROVE  Verify(S) <=> \A x \in S, y \in C : y.seq < x.seq => y \in S
<1> DEFINE Before(x) == {y \in S : y.seq < x.seq}
           IsLast(y, x) == \A z \in Before(x) : z.seq <= y.seq
           Beginning == \A x \in S, y \in C : y.seq < x.seq => y \in S
<1>1. \A x \in C : x.seq \in Nat /\ x.prev \in Seq(Audited)
  BY DEF EntryRow
<1>2. \A x \in C : x.hash = Append(x.prev, x.kind) /\ Len(x.prev) = x.seq
  BY DEF IsChain, Hash
<1>3. ASSUME NEW x \in S, Before(x) = {} PROVE ExpectedPrev(S, x) = <<>>
  BY <1>3 DEF ExpectedPrev, GenesisHash
<1>4. ASSUME NEW x \in S, NEW y \in Before(x), IsLast(y, x)
      PROVE  ExpectedPrev(S, x) = y.hash
  <2>1. PICK z : z = CHOOSE w \in Before(x) : IsLast(w, x)
    OBVIOUS
  <2>2. z \in Before(x) /\ IsLast(z, x)
    BY <1>4, <2>1
  <2>3. z.seq = y.seq /\ z \in C /\ y \in C
    BY <1>1, <1>4, <2>2
  <2>4. z = y
    BY <2>3 DEF IsChain
  <2>5. ExpectedPrev(S, x) = z.hash
    BY <2>1, <2>2 DEF ExpectedPrev
  <2> QED BY <2>4, <2>5
<1>5. ASSUME Beginning, NEW x \in S
      PROVE  x.hash = Hash(x.prev, x.kind) /\ x.prev = ExpectedPrev(S, x)
  <2>1. CASE x.seq = 0
    <3>1. Before(x) = {} /\ x.prev = <<>>
      BY <1>1, <1>2, <2>1
    <3> HIDE DEF Before
    <3> QED BY <1>3, <3>1 DEF IsChain
  <2>2. CASE x.seq # 0
    <3>1. x.seq - 1 \in 0..Cardinality(C) - 1
      BY <1>1, <2>2, FS_CardinalityType DEF IsChain
    <3>2. PICK y \in C : y.seq = x.seq - 1
      BY <3>1 DEF IsChain
    <3>3. y \in Before(x) /\ IsLast(y, x)
      BY <1>1, <1>5, <3>2
    <3>4. x.seq = y.seq + 1
      BY <1>1, <3>2
    <3>5. x.prev = y.hash
      BY <3>4 DEF IsChain
    <3> HIDE DEF Before, IsLast
    <3> QED BY <1>4, <3>3, <3>5 DEF IsChain
  <2> QED BY <2>1, <2>2
<1>6. ASSUME Verify(S), NEW x \in S, x.seq # 0
      PROVE  \E z \in S : z.seq = x.seq - 1
  <2>1. x.prev = ExpectedPrev(S, x) /\ x.prev # <<>>
    BY <1>1, <1>2, <1>6 DEF Verify
  <2>2. \E y \in S : y.seq < x.seq
    BY <1>3, <2>1
  <2>3. PICK z \in Before(x) : IsLast(z, x)
    BY <2>2, LastBefore
  <2>4. z \in C /\ x.prev = z.hash
    BY <1>4, <2>1, <2>3
  <2>5. z.prev \in Seq(Audited) /\ x.prev = Append(z.prev, z.kind)
    BY <1>1, <1>2, <2>4
  <2>6. Len(x.prev) = Len(z.prev) + 1
    BY <2>5
  <2>7. x.seq = z.seq + 1
    BY <1>2, <2>4, <2>6
  <2> QED BY <1>1, <2>4, <2>7
<1>7. ASSUME Verify(S), NEW x \in S, NEW y \in C, y.seq < x.seq PROVE y \in S
  <2> DEFINE Above == {w \in S : w.seq > y.seq}
             T == {w.seq : w \in Above}
  <2>1. T \in SUBSET Nat /\ T # {}
    BY <1>1, <1>7
  <2>2. PICK n \in T : \A m \in T : n <= m
    BY <2>1, LeastNumber
  <2>3. PICK w \in S : w.seq > y.seq /\ w.seq = n
    BY <2>2
  <2>4. w.seq # 0
    BY <1>1, <2>3
  <2>5. PICK z \in S : z.seq = w.seq - 1
    BY <1>6, <1>7, <2>4
  <2>6. z.seq = y.seq
    <3>1. CASE z.seq > y.seq
      <4>1. z.seq \in T
        BY <3>1
      <4> HIDE DEF T
      <4>2. w.seq <= z.seq
        BY <2>2, <2>3, <4>1
      <4> QED BY <1>1, <2>5, <4>2
    <3> QED BY <1>1, <2>3, <2>5, <3>1
  <2> QED BY <2>6 DEF IsChain
<1> QED BY <1>5, <1>7 DEF Verify

----------------------------------------------------------------------------
(* Counting what has happened and what is recorded. *)

LEMMA SameCardinality == ASSUME NEW S PROVE TrailOf!Cardinality(S) = Cardinality(S)
BY DEF TrailOf!Cardinality, Cardinality

LEMMA OneMoreOccurrence ==
    ASSUME NEW T, NEW s \in Seq(T), NEW k \in T, NEW kind
    PROVE  /\ TrailOf!Occurrences(kind, s) \in Nat
           /\ TrailOf!Occurrences(kind, Append(s, k)) =
                TrailOf!Occurrences(kind, s) + (IF k = kind THEN 1 ELSE 0)
<1> DEFINE I == {i \in DOMAIN s : s[i] = kind}
           t == Append(s, k)
           J == {i \in DOMAIN t : t[i] = kind}
           n == Len(s)
<1>1. n \in Nat /\ DOMAIN s = 1..n /\ DOMAIN t = 1..n + 1 /\ t[n + 1] = k
  OBVIOUS
<1>2. \A i \in 1..n : t[i] = s[i]
  OBVIOUS
<1>3. IsFiniteSet(I)
  <2>1. IsFiniteSet(1..n) /\ I \in SUBSET (1..n)
    BY <1>1, FS_Interval
  <2> QED BY <2>1, FS_Subset
<1>4. J = IF k = kind THEN I \cup {n + 1} ELSE I
  <2> HIDE DEF t
  <2> QED BY <1>1, <1>2
<1>5. n + 1 \notin I
  BY <1>1
<1> HIDE DEF I, J, n, t
<1>6. Cardinality(I) \in Nat
  BY <1>3, FS_CardinalityType
<1>7. Cardinality(I \cup {n + 1}) = Cardinality(I) + 1
  BY <1>3, <1>5, FS_AddElement
<1>8. Cardinality(J) = Cardinality(I) + (IF k = kind THEN 1 ELSE 0)
  BY <1>4, <1>6, <1>7
<1>9. TrailOf!Occurrences(kind, s) = Cardinality(I)
  BY SameCardinality DEF I, TrailOf!Occurrences
<1>10. TrailOf!Occurrences(kind, t) = Cardinality(J)
  BY SameCardinality DEF J, TrailOf!Occurrences
<1> QED BY <1>6, <1>8, <1>9, <1>10 DEF t

----------------------------------------------------------------------------
(* The pages of a log. *)

\* The entries of a chain are counted by their numbers.
LEMMA Between ==
    ASSUME NEW C \in SUBSET EntryRow, IsChain(C),
           NEW a \in Nat, NEW b \in Nat, a <= b, b <= Cardinality(C)
    PROVE  Cardinality({x \in C : a <= x.seq /\ x.seq < b}) = b - a
<1> DEFINE B == {x \in C : a <= x.seq /\ x.seq < b}
           f == [i \in a..b - 1 |-> CHOOSE x \in C : x.seq = i]
<1>1. ASSUME NEW i \in a..b - 1 PROVE f[i] \in B /\ f[i].seq = i
  <2>1. Cardinality(C) \in Nat
    BY FS_CardinalityType DEF IsChain
  <2>2. i \in 0..Cardinality(C) - 1
    BY <2>1
  <2>3. \E x \in C : x.seq = i
    BY <2>2 DEF IsChain
  <2> QED BY <2>3
<1>2. ASSUME NEW x \in B PROVE x.seq \in a..b - 1 /\ f[x.seq] = x
  <2>1. x.seq \in a..b - 1
    BY DEF EntryRow
  <2>2. f[x.seq] \in C /\ f[x.seq].seq = x.seq
    BY <1>1, <2>1
  <2> HIDE DEF f
  <2> QED BY <2>1, <2>2 DEF IsChain
<1>3. f \in [a..b - 1 -> B]
  BY <1>1
<1> HIDE DEF f, B
<1>4. f \in Bijection(a..b - 1, B)
  BY <1>1, <1>2, <1>3 DEF Bijection, Injection, Surjection, IsInjective
<1>5. IsFiniteSet(a..b - 1) /\ Cardinality(a..b - 1) = b - a
  <2>1. b - 1 \in Int /\ (a > b - 1 => b = a)
    OBVIOUS
  <2>2. Cardinality(a..b - 1) = IF a > b - 1 THEN 0 ELSE (b - 1) - a + 1
    BY <2>1, FS_Interval
  <2>3. IsFiniteSet(a..b - 1)
    BY <2>1, FS_Interval
  <2>4. (IF a > b - 1 THEN 0 ELSE (b - 1) - a + 1) = b - a
    BY <2>1
  <2> QED BY ONLY <2>2, <2>3, <2>4
<1> QED BY <1>4, <1>5, FS_Bijection DEF ExistsBijection, B

\* The rows of a page are the last ones of the chain, in order: all those after the
\* time of the cursor.
LEMMA RowsAreTheLast ==
    ASSUME NEW e, NEW cursor \in Nat, Of(e) \in SUBSET EntryRow, IsChain(Of(e))
    PROVE  LET rows == RowsAfter(e, cursor)
               n == Cardinality({x \in Of(e) : x.at > cursor})
               a == Cardinality(Of(e)) - n
           IN  /\ n \in Nat /\ a \in Nat /\ rows = [i \in 1..n |-> rows[i]]
               /\ \A x \in Of(e) : x.at > cursor <=> x.seq >= a
               /\ \A i \in 1..n : rows[i] \in Of(e) /\ rows[i].seq = a + i - 1
<1>1. PICK C \in SUBSET EntryRow : C = Of(e)
  OBVIOUS
<1> DEFINE S == {x \in C : x.at > cursor}
           n == Cardinality(S)
           m == Cardinality(C)
           Before(x) == {y \in S : y.seq < x.seq}
<1>2. IsChain(C) /\ m \in Nat
  BY <1>1, FS_CardinalityType DEF IsChain
<1>3. \A x \in C : x.seq \in Nat /\ x.at \in Nat /\ x.seq < m
  BY <1>2 DEF EntryRow, IsChain
<1>4. \E a \in 0..m : \A x \in C : x \in S <=> x.seq >= a
  <2>1. CASE S = {}
    <3>1. \A x \in C : x \notin S /\ ~(x.seq >= m)
      BY <1>2, <1>3, <2>1
    <3> QED BY <1>2, <3>1
  <2>2. CASE S # {}
    <3> DEFINE T == {x.seq : x \in S}
    <3>1. T \in SUBSET Nat /\ T # {}
      BY <1>3, <2>2
    <3>2. PICK a \in T : \A k \in T : a <= k
      BY <3>1, LeastNumber
    <3>3. PICK w \in S : w.seq = a
      BY <3>2
    <3>4. ASSUME NEW x \in C, x.seq >= a PROVE x \in S
      <4>1. CASE x.seq = w.seq
        BY <1>2, <3>3, <4>1 DEF IsChain
      <4>2. CASE w.seq < x.seq
        <5>1. w.at <= x.at /\ w.at > cursor
          BY <1>2, <3>3, <4>2 DEF IsChain
        <5> QED BY <1>3, <3>3, <5>1
      <4> QED BY <1>3, <3>3, <3>4, <4>1, <4>2
    <3>5. \A x \in S : x.seq >= a
      BY <1>3, <3>2, <3>3
    <3>6. a \in 0..m
      BY <1>2, <1>3, <3>3
    <3> QED BY <3>4, <3>5, <3>6
  <2> QED BY <2>1, <2>2
<1>5. PICK a \in 0..m : \A x \in C : x \in S <=> x.seq >= a
  BY <1>4
<1>6. n = m - a
  <2>1. S = {x \in C : a <= x.seq /\ x.seq < m}
    BY <1>2, <1>3, <1>5
  <2>2. a \in Nat /\ a <= m /\ m <= Cardinality(C)
    BY <1>2, <1>5
  <2> HIDE DEF S
  <2>3. Cardinality(S) = m - a
    BY <1>2, <2>1, <2>2, Between
  <2> QED BY <2>3
<1>7. ASSUME NEW x \in S PROVE Cardinality(Before(x)) = x.seq - a
  <2>1. x.seq \in Nat /\ a <= x.seq /\ x.seq <= m
    BY <1>2, <1>3, <1>5
  <2>2. Before(x) = {y \in C : a <= y.seq /\ y.seq < x.seq}
    BY <1>3, <1>5
  <2>3. a \in Nat /\ x.seq <= Cardinality(C)
    BY <1>2, <1>3, <1>5
  <2> HIDE DEF Before
  <2> QED BY <1>2, <2>1, <2>2, <2>3, Between
<1>8. ASSUME NEW i \in 1..n
      PROVE  \E x \in S : x.seq = a + i - 1 /\ Cardinality(Before(x)) = i - 1
  <2>1. a + i - 1 \in 0..m - 1
    BY <1>2, <1>5, <1>6
  <2>2. PICK x \in C : x.seq = a + i - 1
    BY <1>2, <2>1 DEF IsChain
  <2>3. x \in S
    BY <1>2, <1>5, <2>2
  <2> QED BY <1>5, <1>7, <2>2, <2>3
<1> DEFINE row(i) == CHOOSE x \in S : Cardinality(Before(x)) = i - 1
<1>9. ASSUME NEW i \in 1..n PROVE row(i) \in C /\ row(i).seq = a + i - 1
  <2>1. PICK x \in S : x = row(i) /\ Cardinality(Before(x)) = i - 1
    BY <1>8
  <2>2. x.seq - a = i - 1 /\ x \in C
    BY <1>7, <2>1
  <2> QED BY <1>2, <1>3, <1>5, <2>1, <2>2
<1>10. RowsAfter(e, cursor) = [i \in 1..n |-> row(i)]
  BY <1>1 DEF RowsAfter
<1>11. PICK rows : rows = RowsAfter(e, cursor)
  OBVIOUS
<1>12. rows = [i \in 1..n |-> rows[i]] /\ \A i \in 1..n : rows[i] = row(i)
  BY <1>10, <1>11
<1>13. m - n = a /\ n \in Nat
  BY <1>2, <1>5, <1>6
<1> HIDE DEF row
<1>14. \A i \in 1..n : rows[i] \in C /\ rows[i].seq = a + i - 1
  BY <1>9, <1>12
<1> HIDE DEF n, m
<1> HIDE DEF S
<1>15. n = Cardinality({x \in Of(e) : x.at > cursor}) /\ m = Cardinality(Of(e))
  BY <1>1 DEF n, m, S
<1>16. \A x \in C : x.at > cursor <=> x.seq >= a
  BY <1>5 DEF S
<1>17. rows = RowsAfter(e, cursor) /\ a \in Nat
  BY <1>2, <1>5, <1>11
<1> QED BY <1>1, <1>12, <1>13, <1>14, <1>15, <1>16, <1>17

----------------------------------------------------------------------------
(* Types are kept. *)

PCs == {"idle", "deploy", "notify", "first", "second", "build"} \cup InHandler

LEMMA RequestMoves ==
    ASSUME TypeOK, NEW p \in Workers, NEW r \in RequestState, req' = [req EXCEPT ![p] = r]
    PROVE  /\ req' \in [Workers -> RequestState]
           /\ req'[p] = r /\ \A q \in Workers \ {p} : req'[q] = req[q]
BY DEF TypeOK

LEMMA GotoMoves ==
    ASSUME TypeOK, NEW p \in Workers, NEW pc \in PCs, Goto(p, pc)
    PROVE  /\ req' \in [Workers -> RequestState]
           /\ req'[p].pc = pc
           /\ req'[p].escrow = req[p].escrow /\ req'[p].kind = req[p].kind
           /\ \A q \in Workers \ {p} : req'[q] = req[q]
<1>1. req[p] \in RequestState /\ req' = [req EXCEPT ![p] = [req[p] EXCEPT !.pc = pc]]
  BY DEF TypeOK, Goto
<1>2. PICK s : s = [req[p] EXCEPT !.pc = pc]
  OBVIOUS
<1>3. s \in RequestState
  BY <1>1, <1>2, MovesTo DEF PCs
<1>4. s.pc = pc /\ s.escrow = req[p].escrow /\ s.kind = req[p].kind
  BY <1>1, <1>2 DEF RequestState
<1> QED BY <1>1, <1>2, <1>3, <1>4, RequestMoves

LEMMA UnlockedType ==
    ASSUME TypeOK, NEW p \in Workers, lock' = Unlocked(p)
    PROVE  /\ lock' \in [Escrows -> Workers \cup {None}]
           /\ \A e \in Escrows, q \in Workers \ {p} : lock[e] = q => lock'[e] = q
BY DEF TypeOK, Unlocked

\* What a step makes of the state of its request.
LEMMA PublishMoves ==
    ASSUME TypeOK, NEW p \in Workers, NEW e \in Escrows, NEW kind \in Kinds, NEW m \in Nat,
           Publish(p, e, kind, m)
    PROVE  /\ req' \in [Workers -> RequestState]
           /\ \A q \in Workers \ {p} : req'[q] = req[q]
           /\ kind \notin Audited => req'[p] = Idle
           /\ kind \in Audited =>
                /\ req'[p].pc \in {"deploy", "lock"}
                /\ req'[p].escrow = e /\ req'[p].kind = kind
<1> DEFINE pc == IF kind = "SessionAgreed" THEN "deploy" ELSE "lock"
           r == [pc |-> pc, escrow |-> e, kind |-> kind, amount |-> m, latest |-> None,
                 job |-> None, todo |-> {}, fema |-> {}, gst |-> {}]
<1>1. r \in RequestState /\ Idle \in RequestState
  BY IdleIsState DEF RequestState, InHandler
<1>2. r = [Idle EXCEPT !.pc = pc, !.escrow = e, !.kind = kind, !.amount = m]
  <2>1. PICK a : a = [Idle EXCEPT !.pc = pc]
    OBVIOUS
  <2>2. a = [pc |-> pc, escrow |-> None, kind |-> "none", amount |-> 0, latest |-> None,
             job |-> None, todo |-> {}, fema |-> {}, gst |-> {}]
    BY ONLY <2>1 DEF Idle
  <2>3. PICK b : b = [a EXCEPT !.escrow = e]
    OBVIOUS
  <2>4. b = [pc |-> pc, escrow |-> e, kind |-> "none", amount |-> 0, latest |-> None,
             job |-> None, todo |-> {}, fema |-> {}, gst |-> {}]
    BY ONLY <2>2, <2>3
  <2>5. PICK d : d = [b EXCEPT !.kind = kind]
    OBVIOUS
  <2>6. d = [pc |-> pc, escrow |-> e, kind |-> kind, amount |-> 0, latest |-> None,
             job |-> None, todo |-> {}, fema |-> {}, gst |-> {}]
    BY ONLY <2>4, <2>5
  <2>7. r = [d EXCEPT !.amount = m]
    BY ONLY <2>6
  <2> QED BY <2>1, <2>3, <2>5, <2>7
<1>3. req' = [req EXCEPT ![p] = IF kind \in Audited THEN r ELSE Idle]
  BY <1>2 DEF Publish
<1>4. r.pc \in {"deploy", "lock"} /\ r.escrow = e /\ r.kind = kind
  OBVIOUS
<1> HIDE DEF r
<1> QED BY <1>1, <1>3, <1>4, RequestMoves

LEMMA GetLatestMoves ==
    ASSUME TypeOK, NEW p \in Workers, IsChain(Of(req[p].escrow)), GetLatest(p)
    PROVE  LET r == req[p]  s == req'[p]
           IN  /\ req' \in [Workers -> RequestState]
               /\ \A q \in Workers \ {p} : req'[q] = req[q]
               /\ s.pc = "insert" /\ s.latest = Latest(r.escrow)
               /\ s.escrow = r.escrow /\ s.kind = r.kind
<1>1. PICK r \in RequestState : r = req[p]
  BY DEF TypeOK
<1>2. Latest(r.escrow) \in EntryRow \cup {None}
  <2>1. Of(r.escrow) \in SUBSET EntryRow /\ IsChain(Of(r.escrow))
    BY <1>1 DEF TypeOK, Of
  <2> QED BY <2>1, LatestIsLast, LastEntry DEF LastOf
<1>3. PICK l \in EntryRow \cup {None} : l = Latest(r.escrow)
  BY <1>2
<1>4. PICK s : s = [pc |-> "insert", escrow |-> r.escrow, kind |-> r.kind,
                    amount |-> r.amount, latest |-> l, job |-> r.job, todo |-> r.todo,
                    fema |-> r.fema, gst |-> r.gst]
  OBVIOUS
<1>5. [r EXCEPT !.pc = "insert", !.latest = l] = s
  BY <1>4, MovesTo DEF InHandler
<1>6. req' = [req EXCEPT ![p] = s]
  BY <1>1, <1>3, <1>5 DEF GetLatest
<1>7. s \in RequestState
  BY <1>4, RequestFields DEF RequestState, InHandler
<1>8. s.pc = "insert" /\ s.latest = l /\ s.escrow = r.escrow /\ s.kind = r.kind
  BY <1>4
<1> QED BY <1>1, <1>3, <1>6, <1>7, <1>8, RequestMoves

LEMMA Collects ==
    ASSUME NEW r \in RequestState, NEW table \in {"fema", "gst"}, NEW e \in Escrows
    PROVE  LET c == Collected(r, table, e)
           IN  /\ c \in RequestState
               /\ c.job = r.job /\ c.todo = r.todo
               /\ c.fema = r.fema \cup (IF table = "fema" /\ fema[e] # None THEN {e} ELSE {})
               /\ c.gst = r.gst \cup (IF table = "gst" /\ gst[e] # None THEN {e} ELSE {})
<1>0. PICK c : c = Collected(r, table, e)
  OBVIOUS
<1>1. PICK S : S \subseteq Escrows /\ S = r.fema \cup {e}
  BY RequestFields
<1>2. PICK T : T \subseteq Escrows /\ T = r.gst \cup {e}
  BY RequestFields
<1>3. /\ [r EXCEPT !.fema = S] \in RequestState
      /\ [r EXCEPT !.gst = T] \in RequestState
  BY <1>1, <1>2 DEF RequestState
<1>4. c = IF ~Has(table, e) THEN r
          ELSE IF table = "fema" THEN [r EXCEPT !.fema = S] ELSE [r EXCEPT !.gst = T]
  BY <1>0, <1>1, <1>2 DEF Collected
<1>5. /\ [r EXCEPT !.fema = S].fema = S /\ [r EXCEPT !.fema = S].gst = r.gst
      /\ [r EXCEPT !.fema = S].job = r.job /\ [r EXCEPT !.fema = S].todo = r.todo
      /\ [r EXCEPT !.gst = T].fema = r.fema /\ [r EXCEPT !.gst = T].gst = T
      /\ [r EXCEPT !.gst = T].job = r.job /\ [r EXCEPT !.gst = T].todo = r.todo
  BY DEF RequestState
<1> QED BY <1>0, <1>1, <1>2, <1>3, <1>4, <1>5 DEF Has

\* A request that has read one table goes on.
At(c, pc, e) == [c EXCEPT !.pc = pc, !.escrow = e]
With(c, pc, rest) == [c EXCEPT !.pc = pc, !.todo = rest]

LEMMA ThenAt ==
    ASSUME NEW c \in RequestState, NEW pc \in PCs, NEW e \in Escrows
    PROVE  /\ At(c, pc, e) \in RequestState
           /\ At(c, pc, e).pc = pc /\ At(c, pc, e).escrow = e
           /\ At(c, pc, e).job = c.job
           /\ At(c, pc, e).fema = c.fema /\ At(c, pc, e).gst = c.gst
<1>0. PICK s : s = At(c, pc, e)
  OBVIOUS
<1>1. PICK d : d = [c EXCEPT !.pc = pc]
  OBVIOUS
<1>2. d = [pc |-> pc, escrow |-> c.escrow, kind |-> c.kind, amount |-> c.amount,
           latest |-> c.latest, job |-> c.job, todo |-> c.todo, fema |-> c.fema,
           gst |-> c.gst]
  <2>1. c = [pc |-> c.pc, escrow |-> c.escrow, kind |-> c.kind, amount |-> c.amount,
           latest |-> c.latest, job |-> c.job, todo |-> c.todo, fema |-> c.fema,
           gst |-> c.gst]
    BY DEF RequestState
  <2> QED BY ONLY <1>1, <2>1
<1>3. s = [d EXCEPT !.escrow = e]
  BY <1>0, <1>1 DEF At
<1>4. s = [pc |-> pc, escrow |-> e, kind |-> c.kind, amount |-> c.amount,
           latest |-> c.latest, job |-> c.job, todo |-> c.todo, fema |-> c.fema,
           gst |-> c.gst]
  BY ONLY <1>2, <1>3
<1>5. s \in RequestState
  BY <1>4, RequestFields DEF RequestState, PCs
<1> QED BY <1>0, <1>4, <1>5

LEMMA ThenWith ==
    ASSUME NEW c \in RequestState, NEW pc \in PCs, NEW rest \in SUBSET Escrows
    PROVE  /\ With(c, pc, rest) \in RequestState
           /\ With(c, pc, rest).pc = pc
           /\ With(c, pc, rest).job = c.job
           /\ With(c, pc, rest).fema = c.fema /\ With(c, pc, rest).gst = c.gst
<1>0. PICK s : s = With(c, pc, rest)
  OBVIOUS
<1>1. PICK d : d = [c EXCEPT !.pc = pc]
  OBVIOUS
<1>2. d = [pc |-> pc, escrow |-> c.escrow, kind |-> c.kind, amount |-> c.amount,
           latest |-> c.latest, job |-> c.job, todo |-> c.todo, fema |-> c.fema,
           gst |-> c.gst]
  <2>1. c = [pc |-> c.pc, escrow |-> c.escrow, kind |-> c.kind, amount |-> c.amount,
           latest |-> c.latest, job |-> c.job, todo |-> c.todo, fema |-> c.fema,
           gst |-> c.gst]
    BY DEF RequestState
  <2> QED BY ONLY <1>1, <2>1
<1>3. s = [d EXCEPT !.todo = rest]
  BY <1>0, <1>1 DEF With
<1>4. s = [pc |-> pc, escrow |-> c.escrow, kind |-> c.kind, amount |-> c.amount,
           latest |-> c.latest, job |-> c.job, todo |-> rest, fema |-> c.fema,
           gst |-> c.gst]
  BY ONLY <1>2, <1>3
<1>5. s \in RequestState
  BY <1>4, RequestFields DEF RequestState, PCs
<1> QED BY <1>0, <1>4, <1>5

LEMMA CollectFirstMoves ==
    ASSUME TypeOK, NEW p \in Workers, NEW e \in Escrows, CollectFirst(p, e)
    PROVE  LET r == req[p]  s == req'[p]
           IN  /\ req' \in [Workers -> RequestState]
               /\ \A q \in Workers \ {p} : req'[q] = req[q]
               /\ s.pc = "second" /\ s.escrow = e /\ s.job = r.job /\ s.gst = r.gst
               /\ s.fema = r.fema \cup (IF fema[e] # None THEN {e} ELSE {})
<1>1. PICK r \in RequestState : r = req[p]
  BY DEF TypeOK
<1>2. PICK c : c = Collected(r, "fema", e)
  OBVIOUS
<1>3. /\ c \in RequestState /\ c.job = r.job /\ c.gst = r.gst
      /\ c.fema = r.fema \cup (IF fema[e] # None THEN {e} ELSE {})
  BY <1>2, Collects
<1>4. PICK s : s = At(c, "second", e)
  OBVIOUS
<1>5. /\ s \in RequestState /\ s.pc = "second" /\ s.escrow = e
      /\ s.job = c.job /\ s.fema = c.fema /\ s.gst = c.gst
  <2>1. "second" \in PCs
    BY DEF PCs
  <2> QED BY <1>3, <1>4, <2>1, ThenAt
<1>6. req' = [req EXCEPT ![p] = s]
  BY <1>1, <1>2, <1>4 DEF CollectFirst, Tables, At
<1> QED BY <1>1, <1>3, <1>5, <1>6, RequestMoves

LEMMA CollectSecondMoves ==
    ASSUME TypeOK, NEW p \in Workers, req[p].escrow \in Escrows, CollectSecond(p)
    PROVE  LET r == req[p]  s == req'[p]
           IN  /\ req' \in [Workers -> RequestState]
               /\ \A q \in Workers \ {p} : req'[q] = req[q]
               /\ s.pc \in {"first", "build"} /\ s.job = r.job /\ s.fema = r.fema
               /\ s.gst = r.gst \cup (IF gst[r.escrow] # None THEN {r.escrow} ELSE {})
<1>1. PICK r \in RequestState : r = req[p]
  BY DEF TypeOK
<1>2. PICK e \in Escrows : e = r.escrow
  BY <1>1
<1>3. PICK rest \in SUBSET Escrows : rest = r.todo \ {e}
  BY RequestFields
<1>4. PICK pc \in PCs : pc = IF rest = {} THEN "build" ELSE "first"
  BY DEF PCs
<1>5. PICK c : c = Collected(r, "gst", e)
  OBVIOUS
<1>6. /\ c \in RequestState /\ c.job = r.job /\ c.fema = r.fema
      /\ c.gst = r.gst \cup (IF gst[e] # None THEN {e} ELSE {})
  <2>1. LET d == Collected(r, "gst", e)
        IN  /\ d \in RequestState /\ d.job = r.job /\ d.fema = r.fema \cup {}
            /\ d.gst = r.gst \cup (IF gst[e] # None THEN {e} ELSE {})
    BY Collects
  <2> QED BY <1>5, <2>1
<1>7. PICK s : s = With(c, pc, rest)
  OBVIOUS
<1>8. /\ s \in RequestState /\ s.pc = pc
      /\ s.job = c.job /\ s.fema = c.fema /\ s.gst = c.gst
  BY <1>6, <1>7, ThenWith
<1>9. req' = [req EXCEPT ![p] = s]
  BY <1>1, <1>2, <1>3, <1>4, <1>5, <1>7 DEF CollectSecond, Tables, With
<1> QED BY <1>1, <1>2, <1>4, <1>6, <1>8, <1>9, RequestMoves

LEMMA CreateJobMoves ==
    ASSUME TypeOK, NEW p \in Workers, NEW j \in Jobs, CreateJob(p, j)
    PROVE  /\ req' \in [Workers -> RequestState]
           /\ \A q \in Workers \ {p} : req'[q] = req[q]
           /\ req'[p].pc = "first" /\ req'[p].job = j
           /\ req'[p].fema = {} /\ req'[p].gst = {}
<1> DEFINE r == [pc |-> "first", escrow |-> None, kind |-> "none", amount |-> 0,
                 latest |-> None, job |-> j, todo |-> Escrows, fema |-> {}, gst |-> {}]
<1>1. r \in RequestState
  BY DEF RequestState, InHandler
<1>2. r = [Idle EXCEPT !.pc = "first", !.job = j, !.todo = Escrows]
  <2>1. PICK a : a = [Idle EXCEPT !.pc = "first"]
    OBVIOUS
  <2>2. a = [pc |-> "first", escrow |-> None, kind |-> "none", amount |-> 0,
             latest |-> None, job |-> None, todo |-> {}, fema |-> {}, gst |-> {}]
    BY ONLY <2>1 DEF Idle
  <2>3. PICK b : b = [a EXCEPT !.job = j]
    OBVIOUS
  <2>4. b = [pc |-> "first", escrow |-> None, kind |-> "none", amount |-> 0,
             latest |-> None, job |-> j, todo |-> {}, fema |-> {}, gst |-> {}]
    BY ONLY <2>2, <2>3
  <2>5. r = [b EXCEPT !.todo = Escrows]
    BY ONLY <2>4
  <2> QED BY <2>1, <2>3, <2>5
<1>3. req' = [req EXCEPT ![p] = r]
  BY <1>2 DEF CreateJob
<1>4. r.pc = "first" /\ r.job = j /\ r.fema = {} /\ r.gst = {}
  OBVIOUS
<1> HIDE DEF r
<1> QED BY <1>1, <1>3, <1>4, RequestMoves

----------------------------------------------------------------------------
(* Appending. *)

\* What a handler that holds the lock appends follows the last entry.
LEMMA NoCollision ==
    ASSUME Inv, NEW p \in Workers, req[p].pc = "insert", NEW step \in ClockSteps
    PROVE  LET e == req[p].escrow
               x == Entry(e, req[p].latest, req[p].kind, step)
           IN  /\ e \in Escrows /\ req[p].kind \in Audited
               /\ req[p].latest = LastOf(Of(e)) /\ step \in Nat
               /\ x \in EntryRow /\ x.escrow = e /\ x.kind = req[p].kind
               /\ IsNextOf(x, Of(e)) /\ Insertable(x)
<1>1. PICK r \in RequestState : r = req[p]
  BY DEF Inv, TypeOK
<1>2. /\ r.escrow \in Escrows /\ r.kind \in Audited
      /\ r.latest = LastOf(Of(r.escrow))
  BY <1>1 DEF Inv, GoodRequest, InHandler
<1>3. PICK e \in Escrows : e = r.escrow
  BY <1>2
<1>4. step \in Nat
  BY ComplianceAssumption
<1>5. Of(e) \in SUBSET EntryRow /\ IsChain(Of(e))
  BY DEF Inv, TypeOK, Of
<1>6. PICK x : x = Entry(e, r.latest, r.kind, step)
  OBVIOUS
<1>7. x \in EntryRow
  BY <1>2, <1>4, <1>6, EntryType, RequestFields
<1>8. x.escrow = e /\ x.kind = r.kind
  BY <1>6 DEF Entry
<1>9. IsNextOf(x, Of(e))
  BY <1>2, <1>3, <1>4, <1>5, <1>6, NextEntry
<1>10. \A y \in Of(e) : y.seq # x.seq
  BY <1>5, <1>7, <1>9, ChainGrows
<1>11. Insertable(x)
  BY <1>8, <1>10 DEF Insertable, Of
<1> QED BY <1>1, <1>2, <1>3, <1>4, <1>6, <1>7, <1>8, <1>9, <1>11

LEMMA Appended ==
    ASSUME Inv, NEW p \in Workers, NEW step \in ClockSteps, AppendEntry(p, step)
    PROVE  \E e \in Escrows, x \in EntryRow :
              /\ e = req[p].escrow /\ x.kind = req[p].kind /\ x.escrow = e
              /\ x = Entry(e, LastOf(Of(e)), req[p].kind, step)
              /\ entries' = entries \cup {x}
              /\ IsNextOf(x, Of(e))
              /\ Of(e)' = Of(e) \cup {x}
              /\ \A f \in Escrows \ {e} : Of(f)' = Of(f)
<1>1. req[p].pc = "insert"
  BY DEF AppendEntry
<1>2. PICK e \in Escrows : e = req[p].escrow
  BY <1>1, NoCollision
<1>3. PICK x \in EntryRow : x = Entry(e, req[p].latest, req[p].kind, step)
  BY <1>1, <1>2, NoCollision
<1>4. /\ x.kind = req[p].kind /\ x.escrow = e /\ req[p].latest = LastOf(Of(e))
      /\ IsNextOf(x, Of(e)) /\ Insertable(x)
  BY <1>1, <1>2, <1>3, NoCollision
<1>5. entries' = entries \cup {x}
  BY <1>2, <1>3, <1>4 DEF AppendEntry
<1>6. Of(e)' = Of(e) \cup {x} /\ \A f \in Escrows \ {e} : Of(f)' = Of(f)
  BY <1>4, <1>5 DEF Of
<1> QED BY <1>2, <1>3, <1>4, <1>5, <1>6

\* Only an append changes the entries.
LEMMA OnlyAppends ==
    ASSUME Next
    PROVE  \/ entries' = entries
           \/ \E p \in Workers, step \in ClockSteps : AppendEntry(p, step)
<1>1. CASE Auditor
  BY <1>1 DEF Auditor, ReadPage, OpenLog
<1>2. ASSUME NEW p \in Workers, Begin(p) PROVE entries' = entries
  BY <1>2 DEF Begin, Publish, CreateJob
<1>3. ASSUME NEW p \in Workers, Progress(p)
      PROVE  entries' = entries \/ \E step \in ClockSteps : AppendEntry(p, step)
  BY <1>3 DEF Progress, DeployAgreed, AcquireLock, GetLatest, GenerateRecords, Notify,
     CollectFirst, CollectSecond, FinishJob
<1>4. ASSUME NEW p \in Workers, FailJob(p) \/ HandlerRaises(p) \/ Die(p)
      PROVE  entries' = entries
  BY <1>4 DEF FailJob, HandlerRaises, Die
<1> QED BY <1>1, <1>2, <1>3, <1>4 DEF Next

LEMMA ChainsKept ==
    ASSUME Inv, Next
    PROVE  \A e \in Escrows : /\ Of(e) \subseteq Of(e)'
                              /\ IsChain(Of(e))' /\ Of(e)' \in SUBSET EntryRow
<1>1. \A e \in Escrows : Of(e) \in SUBSET EntryRow /\ IsChain(Of(e))
  BY DEF Inv, TypeOK, Of
<1>2. CASE entries' = entries
  <2>1. \A e \in Escrows : Of(e)' = Of(e)
    BY <1>2 DEF Of
  <2> QED BY <1>1, <2>1 DEF IsChain
<1>3. CASE \E p \in Workers, step \in ClockSteps : AppendEntry(p, step)
  <2>1. PICK p \in Workers, step \in ClockSteps : AppendEntry(p, step)
    BY <1>3
  <2>2. PICK e \in Escrows, x \in EntryRow :
           /\ IsNextOf(x, Of(e))
           /\ Of(e)' = Of(e) \cup {x}
           /\ \A f \in Escrows \ {e} : Of(f)' = Of(f)
    BY <2>1, Appended
  <2>3. IsChain(Of(e) \cup {x})
    BY <1>1, <2>2, ChainGrows
  <2>4. IsChain(Of(e))'
    BY <2>2, <2>3 DEF IsChain
  <2>5. \A f \in Escrows \ {e} : IsChain(Of(f))'
    BY <1>1, <2>2 DEF IsChain
  <2> QED BY <1>1, <2>2, <2>4, <2>5
<1> QED BY <1>2, <1>3, OnlyAppends

----------------------------------------------------------------------------
(* Reading a page. *)

\* A page appends the k numbers from a and moves the cursor to the last of them; n
\* entries are left.
ReadsOn(n, a, c, k) ==
    LET C == Of(page.escrow)
    IN  /\ k <= n /\ n = Cardinality(C) - a
        /\ \A x \in C : x.at > page.cursor <=> x.seq >= a
        /\ page' = [escrow |-> page.escrow, cursor |-> c,
                    seen |-> page.seen \o [i \in 1..k |-> a + i - 1],
                    more |-> n > PageLimit]
        /\ n > PageLimit => k >= 1 /\ \E x \in C : x.seq = a + k - 1 /\ x.at = c

LEMMA PageRead ==
    ASSUME Inv, ReadPage
    PROVE  \E n, a, c, k \in Nat : ReadsOn(n, a, c, k)
<1>1. PICK r \in [escrow : Escrows \cup {None}, cursor : Nat, seen : Seq(Nat),
                  more : BOOLEAN] : r = page
  BY DEF Inv, TypeOK
<1>2. r.escrow \in Escrows /\ r.cursor \in Nat
  BY <1>1 DEF Inv, ReadPage
<1>3. Of(r.escrow) \in SUBSET EntryRow /\ IsChain(Of(r.escrow))
  BY <1>2 DEF Inv, TypeOK, Of
<1>4. PICK C \in SUBSET EntryRow : C = Of(r.escrow)
  BY <1>3
<1> DEFINE nn == Cardinality({x \in C : x.at > r.cursor})
<1>5. PICK n : n = nn
  OBVIOUS
<1>6. PICK a : a = Cardinality(C) - n
  OBVIOUS
<1>7. PICK rows : rows = RowsAfter(r.escrow, r.cursor)
  OBVIOUS
<1>8. /\ n \in Nat /\ a \in Nat /\ rows = [i \in 1..n |-> rows[i]]
      /\ \A x \in C : x.at > r.cursor <=> x.seq >= a
      /\ \A i \in 1..n : rows[i] \in C /\ rows[i].seq = a + i - 1
  BY <1>2, <1>3, <1>4, <1>5, <1>6, <1>7, RowsAreTheLast
<1>9. Len(rows) = n
  BY <1>8
<1>10. PageLimit \in Nat \ {0}
  BY ComplianceAssumption
<1>11. PICK k : k = IF Len(rows) > PageLimit THEN PageLimit ELSE Len(rows)
  OBVIOUS
<1>12. k \in 0..n /\ (n > PageLimit => k >= 1)
  BY <1>8, <1>9, <1>10, <1>11
<1>13. PICK seqs : seqs = [i \in 1..k |-> rows[i].seq]
  OBVIOUS
<1>14. seqs = [i \in 1..k |-> a + i - 1]
  BY <1>8, <1>12, <1>13
<1>15. PICK c : c = IF Len(rows) > PageLimit THEN rows[k].at ELSE r.cursor
  OBVIOUS
<1>16. c \in Nat /\ (n > PageLimit => \E x \in C : x.seq = a + k - 1 /\ x.at = c)
  <2>1. CASE n > PageLimit
    <3>1. rows[k] \in C /\ rows[k].seq = a + k - 1 /\ c = rows[k].at
      BY <1>8, <1>9, <1>12, <1>15, <2>1
    <3> QED BY <3>1 DEF EntryRow
  <2>2. CASE ~(n > PageLimit)
    BY <1>2, <1>9, <1>15, <2>2
  <2> QED BY <2>1, <2>2
<1>17. page' = [r EXCEPT !.seen = r.seen \o seqs, !.cursor = c, !.more = Len(rows) > PageLimit]
  BY <1>1, <1>7, <1>11, <1>13, <1>15 DEF ReadPage
<1>18. page' = [escrow |-> r.escrow, cursor |-> c, seen |-> r.seen \o seqs,
                more |-> n > PageLimit]
  <2>1. r = [escrow |-> r.escrow, cursor |-> r.cursor, seen |-> r.seen, more |-> r.more]
    OBVIOUS
  <2>2. PICK s : s = r.seen \o seqs
    OBVIOUS
  <2>3. PICK b : b = [r EXCEPT !.seen = s]
    OBVIOUS
  <2>4. b = [escrow |-> r.escrow, cursor |-> r.cursor, seen |-> s, more |-> r.more]
    BY ONLY <2>1, <2>3
  <2>5. PICK d : d = [b EXCEPT !.cursor = c]
    OBVIOUS
  <2>6. d = [escrow |-> r.escrow, cursor |-> c, seen |-> s, more |-> r.more]
    BY ONLY <2>4, <2>5
  <2>7. PICK m : m = (n > PageLimit)
    OBVIOUS
  <2>8. [d EXCEPT !.more = m] = [escrow |-> r.escrow, cursor |-> c, seen |-> s, more |-> m]
    BY ONLY <2>6
  <2>9. page' = [d EXCEPT !.more = m]
    BY <1>9, <1>17, <2>2, <2>3, <2>5, <2>7
  <2> QED BY <2>2, <2>7, <2>8, <2>9
<1>19. n = Cardinality(C) - a
  <2>1. Cardinality(C) \in Nat
    BY <1>3, <1>4, FS_CardinalityType DEF IsChain
  <2> QED BY <1>6, <1>8, <2>1
<1> HIDE DEF nn
<1>20. PICK seen : seen = page.seen \o [i \in 1..k |-> a + i - 1]
  OBVIOUS
<1>21. /\ k \in Nat /\ k <= n /\ C = Of(page.escrow)
       /\ \A x \in C : x.at > page.cursor <=> x.seq >= a
       /\ n > PageLimit => k >= 1 /\ \E x \in C : x.seq = a + k - 1 /\ x.at = c
  BY <1>1, <1>4, <1>8, <1>12, <1>16
<1>22. page' = [escrow |-> page.escrow, cursor |-> c, seen |-> seen, more |-> n > PageLimit]
  BY <1>1, <1>14, <1>18, <1>20
<1>23. n \in Nat /\ a \in Nat /\ c \in Nat
  BY <1>8, <1>16
<1>24. ReadsOn(n, a, c, k)
  BY <1>19, <1>20, <1>21, <1>22 DEF ReadsOn
<1> QED BY <1>21, <1>23, <1>24

----------------------------------------------------------------------------
(* Every step keeps the types. *)

LEMMA TypesKept ==
    ASSUME Inv, Next
    PROVE  TypeOK'
<1> USE DEF TypeOK
<1>0. TypeOK
  BY DEF Inv
<1>1. CASE Auditor
  <2>1. CASE ReadPage
    <3>1. PICK n, a, c, k \in Nat :
             page' = [escrow |-> page.escrow, cursor |-> c,
                      seen |-> page.seen \o [i \in 1..k |-> a + i - 1],
                      more |-> n > PageLimit]
      BY <2>1, PageRead DEF ReadsOn
    <3>2. PICK s \in Seq(Nat) : s = page.seen \o [i \in 1..k |-> a + i - 1]
      <4>1. \A i \in 1..k : a + i - 1 \in Nat
        OBVIOUS
      <4>2. [i \in 1..k |-> a + i - 1] \in Seq(Nat)
        BY <4>1
      <4>3. page.seen \in Seq(Nat)
        BY <1>0
      <4>4. PICK t \in Seq(Nat) : t = [i \in 1..k |-> a + i - 1]
        BY <4>2
      <4>5. page.seen \o t \in Seq(Nat)
        BY <4>3
      <4> QED BY <4>4, <4>5
    <3>3. page.escrow \in Escrows \cup {None} /\ (n > PageLimit) \in BOOLEAN
      BY <1>0
    <3>4. PICK more \in BOOLEAN : more = (n > PageLimit)
      BY <3>3
    <3>5. page' = [escrow |-> page.escrow, cursor |-> c, seen |-> s, more |-> more]
      BY <3>1, <3>2, <3>4
    <3>6. page' \in [escrow : Escrows \cup {None}, cursor : Nat, seen : Seq(Nat),
                     more : BOOLEAN]
      BY <3>3, <3>5
    <3> QED BY <1>0, <2>1, <3>6 DEF ReadPage
  <2>2. CASE \E e \in Escrows : OpenLog(e)
    BY <1>0, <2>2 DEF OpenLog
  <2> QED BY <1>1, <2>1, <2>2 DEF Auditor
<1>2. ASSUME NEW p \in Workers, Begin(p) PROVE TypeOK'
  <2>1. ASSUME NEW e \in Escrows, NEW kind \in Kinds, NEW m \in Nat, Publish(p, e, kind, m)
        PROVE  TypeOK'
    <3>1. committed' \in [Escrows -> Seq(Kinds)]
      BY <1>0, <2>1 DEF Publish
    <3>2. req' \in [Workers -> RequestState]
      BY <1>0, <2>1, PublishMoves
    <3> QED BY <1>0, <2>1, <3>1, <3>2 DEF Publish
  <2>2. ASSUME NEW j \in Jobs, CreateJob(p, j) PROVE TypeOK'
    <3>1. req' \in [Workers -> RequestState]
      BY <1>0, <2>2, CreateJobMoves
    <3>2. jobs' \in [Jobs -> [status : {"none", "PENDING", "DONE", "FAILED"},
                              fema : SUBSET Escrows, gst : SUBSET Escrows]]
      <4>1. jobs' = [jobs EXCEPT ![j].status = "PENDING"]
        BY <2>2 DEF CreateJob
      <4>2. jobs \in [Jobs -> [status : {"none", "PENDING", "DONE", "FAILED"},
                               fema : SUBSET Escrows, gst : SUBSET Escrows]]
        BY <1>0
      <4> QED BY <4>1, <4>2
    <3> QED BY <1>0, <2>2, <3>1, <3>2 DEF CreateJob
  <2>3. 0 \in Nat /\ Amounts \subseteq Nat
    BY ComplianceAssumption
  <2>4. CASE \E j \in Jobs : CreateJob(p, j)
    BY <2>2, <2>4
  <2>5. ASSUME NEW e \in Escrows, NEW kind \in Kinds,
               IF kind = "EscrowReleased"
               THEN \E amount \in Amounts : Publish(p, e, kind, amount)
               ELSE Publish(p, e, kind, 0)
        PROVE  TypeOK'
    <3>1. PICK m \in Nat : Publish(p, e, kind, m)
      BY <2>3, <2>5
    <3> HIDE DEF TypeOK
    <3> QED BY <2>1, <3>1
  <2> QED BY <1>2, <2>4, <2>5 DEF Begin
<1>3. ASSUME NEW p \in Workers, Progress(p) PROVE TypeOK'
  <2>1. CASE DeployAgreed(p) \/ Notify(p)
    <3>1. CASE DeployAgreed(p)
      <4>1. req' \in [Workers -> RequestState]
        BY <1>0, <3>1, GotoMoves DEF DeployAgreed, PCs, InHandler
      <4> QED BY <1>0, <3>1, <4>1 DEF DeployAgreed
    <3>2. CASE Notify(p)
      <4>1. req' \in [Workers -> RequestState]
        BY <1>0, <3>2, IdleIsState, RequestMoves DEF Notify
      <4> QED BY <1>0, <3>2, <4>1 DEF Notify
    <3> QED BY <2>1, <3>1, <3>2
  <2>2. CASE AcquireLock(p)
    <3>1. req' \in [Workers -> RequestState]
      BY <1>0, <2>2, GotoMoves DEF AcquireLock, PCs, InHandler
    <3>2. lock' \in [Escrows -> Workers \cup {None}]
      BY <1>0, <2>2 DEF AcquireLock
    <3> QED BY <1>0, <2>2, <3>1, <3>2 DEF AcquireLock
  <2>3. CASE GetLatest(p)
    <3>1. IsChain(Of(req[p].escrow))
      BY <2>3 DEF Inv, GoodRequest, GetLatest, InHandler
    <3>2. req' \in [Workers -> RequestState]
      BY <1>0, <2>3, <3>1, GetLatestMoves
    <3> QED BY <1>0, <2>3, <3>2 DEF GetLatest
  <2>4. ASSUME NEW step \in ClockSteps, AppendEntry(p, step) PROVE TypeOK'
    <3>1. entries' \subseteq EntryRow
      BY <1>0, <2>4, Appended
    <3>2. lock' \in [Escrows -> Workers \cup {None}]
      BY <1>0, <2>4, UnlockedType DEF AppendEntry
    <3>3. \E pc \in PCs : Goto(p, pc)
      BY <2>4 DEF AppendEntry, Onward, PCs, InHandler
    <3>4. req' \in [Workers -> RequestState]
      BY <1>0, <3>3, GotoMoves
    <3> QED BY <1>0, <2>4, <3>1, <3>2, <3>4 DEF AppendEntry
  <2>5. ASSUME NEW s \in Snapshots, GenerateRecords(p, s) PROVE TypeOK'
    <3>1. PICK r \in RequestState : r = req[p]
      BY <1>0
    <3>2. r.amount \in Nat
      BY RequestFields
    <3>3. fema' \in [Escrows -> FemaRow \cup {None}]
      BY <1>0, <2>5, <3>1, <3>2, RecordTypes DEF GenerateRecords
    <3>4. gst' \in [Escrows -> GstRow \cup {None}]
      BY <1>0, <2>5, <3>1, <3>2, RecordTypes DEF GenerateRecords
    <3>5. \E pc \in PCs : Goto(p, pc)
      BY <2>5 DEF GenerateRecords, Onward, PCs
    <3>6. req' \in [Workers -> RequestState]
      BY <1>0, <3>5, GotoMoves
    <3> QED BY <1>0, <2>5, <3>3, <3>4, <3>6 DEF GenerateRecords
  <2>6. CASE CollectSecond(p) \/ \E e \in Escrows : CollectFirst(p, e)
    <3>1. CASE CollectSecond(p)
      <4>1. req[p].escrow \in Escrows
        BY <3>1 DEF Inv, GoodRequest, CollectSecond
      <4>2. req' \in [Workers -> RequestState]
        BY <1>0, <3>1, <4>1, CollectSecondMoves
      <4> QED BY <1>0, <3>1, <4>2 DEF CollectSecond
    <3>2. ASSUME NEW e \in Escrows, CollectFirst(p, e) PROVE TypeOK'
      <4>1. req' \in [Workers -> RequestState]
        BY <1>0, <3>2, CollectFirstMoves
      <4> QED BY <1>0, <3>2, <4>1 DEF CollectFirst
    <3> QED BY <2>6, <3>1, <3>2
  <2>7. CASE FinishJob(p)
    <3>1. PICK r \in RequestState : r = req[p]
      BY <1>0
    <3>2. r.fema \subseteq Escrows /\ r.gst \subseteq Escrows
      BY RequestFields
    <3>3. jobs' \in [Jobs -> [status : {"none", "PENDING", "DONE", "FAILED"},
                              fema : SUBSET Escrows, gst : SUBSET Escrows]]
      BY <1>0, <2>7, <3>1, <3>2 DEF FinishJob
    <3>4. req' \in [Workers -> RequestState]
      BY <1>0, <2>7, IdleIsState, RequestMoves DEF FinishJob
    <3> QED BY <1>0, <2>7, <3>3, <3>4 DEF FinishJob
  <2> QED BY <1>3, <2>1, <2>2, <2>3, <2>4, <2>5, <2>6, <2>7 DEF Progress
<1>4. ASSUME NEW p \in Workers, FailJob(p) \/ HandlerRaises(p) \/ Die(p) PROVE TypeOK'
  <2>1. CASE FailJob(p)
    <3>1. jobs' \in [Jobs -> [status : {"none", "PENDING", "DONE", "FAILED"},
                              fema : SUBSET Escrows, gst : SUBSET Escrows]]
      <4>1. PICK j \in Jobs : j = req[p].job
        BY <2>1 DEF Inv, GoodRequest, FailJob
      <4>2. PICK d : d = [jobs[j] EXCEPT !.status = "FAILED"]
        OBVIOUS
      <4>3. d \in [status : {"none", "PENDING", "DONE", "FAILED"},
                   fema : SUBSET Escrows, gst : SUBSET Escrows]
        BY <1>0, <4>2
      <4>4. jobs' = [jobs EXCEPT ![j] = d]
        BY <2>1, <4>1, <4>2 DEF FailJob
      <4> QED BY <1>0, <4>3, <4>4
    <3>2. req' \in [Workers -> RequestState]
      BY <1>0, <2>1, IdleIsState, RequestMoves DEF FailJob
    <3> QED BY <1>0, <2>1, <3>1, <3>2 DEF FailJob
  <2>2. CASE HandlerRaises(p)
    <3>1. lock' \in [Escrows -> Workers \cup {None}]
      BY <1>0, <2>2, UnlockedType DEF HandlerRaises
    <3>2. \E pc \in PCs : Goto(p, pc)
      BY <2>2 DEF HandlerRaises, Onward, PCs
    <3>3. req' \in [Workers -> RequestState]
      BY <1>0, <3>2, GotoMoves
    <3> QED BY <1>0, <2>2, <3>1, <3>3 DEF HandlerRaises
  <2>3. CASE Die(p)
    <3>1. lock' \in [Escrows -> Workers \cup {None}]
      BY <1>0, <2>3, UnlockedType DEF Die
    <3>2. req' \in [Workers -> RequestState]
      BY <1>0, <2>3, IdleIsState, RequestMoves DEF Die
    <3> QED BY <1>0, <2>3, <3>1, <3>2 DEF Die
  <2> QED BY <1>4, <2>1, <2>2, <2>3
<1> QED BY <1>1, <1>2, <1>3, <1>4 DEF Next

----------------------------------------------------------------------------
(* What the requests rely on stays true. *)

\* No step takes a lock from another request, or a record from an escrow, and an
\* escrow's entries change only while its lock is not another's.
Others(p) ==
    /\ \A e \in Escrows, q \in Workers \ {p} :
          /\ lock[e] = q => lock'[e] = q /\ Of(e)' = Of(e)
          /\ Of(e) \subseteq Of(e)'
    /\ \A e \in Escrows : gst[e] # None => gst'[e] # None

LEMMA GoodStays ==
    ASSUME Inv, NEW p \in Workers, NEW q \in Workers \ {p}, req'[q] = req[q], Others(p)
    PROVE  GoodRequest(q)'
<1>1. PICK r \in RequestState : r = req[q] /\ r = req'[q]
  BY DEF Inv, TypeOK
<1>2. /\ r.pc \in {"deploy", "notify"} \cup InHandler =>
           r.escrow \in Escrows /\ r.kind \in Audited
      /\ r.pc \in {"read", "insert"} => lock[r.escrow] = q
      /\ r.pc = "insert" => r.latest = LastOf(Of(r.escrow))
      /\ r.pc = "records" => IsReleased(r.escrow)
      /\ r.pc \in {"first", "second", "build"} =>
           /\ r.job \in Jobs
           /\ \A e \in r.fema : gst[e] # None
      /\ r.pc \in {"first", "build"} => r.fema \subseteq r.gst
      /\ r.pc = "second" => r.escrow \in Escrows /\ r.fema \subseteq r.gst \cup {r.escrow}
  <2>1. GoodRequest(q)
    BY DEF Inv
  <2> QED BY <1>1, <2>1 DEF GoodRequest, IsReleased, Of
<1>3. r.pc \in {"read", "insert"} => lock'[r.escrow] = q /\ Of(r.escrow)' = Of(r.escrow)
  BY <1>2 DEF Others, InHandler
<1>4. r.pc = "records" => \E x \in Of(r.escrow)' : x.kind = "EscrowReleased"
  BY <1>2 DEF Others, InHandler, IsReleased
<1>5. r.pc \in {"first", "second", "build"} => \A e \in r.fema : gst'[e] # None
  BY <1>2, RequestFields DEF Others
<1>6. r.pc = "insert" => r.latest = LastOf(Of(r.escrow)')
  BY <1>2, <1>3
<1> QED BY <1>1, <1>2, <1>3, <1>4, <1>5, <1>6 DEF GoodRequest, IsReleased, Of

\* The steps that touch neither entries, locks nor records.
LEMMA OthersSame ==
    ASSUME NEW p \in Workers, UNCHANGED <<entries, lock, gst>>
    PROVE  Others(p)
BY DEF Others, Of

LEMMA OthersUnlocked ==
    ASSUME Inv, NEW p \in Workers, UNCHANGED <<entries, gst>>, lock' = Unlocked(p)
    PROVE  Others(p)
BY UnlockedType DEF Others, Of, Inv

LEMMA OthersAppend ==
    ASSUME Inv, NEW p \in Workers, NEW step \in ClockSteps, AppendEntry(p, step)
    PROVE  Others(p)
<1>1. lock' = Unlocked(p) /\ UNCHANGED gst /\ TypeOK
  BY DEF AppendEntry, Inv
<1>2. PICK e \in Escrows : e = req[p].escrow /\ \A f \in Escrows \ {e} : Of(f)' = Of(f)
  BY Appended
<1>3. Of(e) \subseteq Of(e)'
  BY Appended, <1>2
<1>4. lock[e] = p
  BY <1>2 DEF Inv, GoodRequest, AppendEntry
<1> QED BY <1>1, <1>2, <1>3, <1>4, UnlockedType DEF Others

LEMMA BeginKeepsRequests ==
    ASSUME Inv, NEW p \in Workers, Begin(p)
    PROVE  \A q \in Workers : GoodRequest(q)'
<1>0. TypeOK
  BY DEF Inv
<1>1. ASSUME NEW e \in Escrows, NEW kind \in Kinds, NEW m \in Nat, Publish(p, e, kind, m)
      PROVE  \A q \in Workers : GoodRequest(q)'
  <2>1. GoodRequest(p)'
    <3>1. CASE kind \in Audited
      BY <1>0, <1>1, <3>1, PublishMoves DEF GoodRequest, InHandler
    <3>2. CASE kind \notin Audited
      <4>1. req'[p] = Idle
        BY <1>0, <1>1, <3>2, PublishMoves
      <4> QED BY <4>1 DEF GoodRequest, InHandler, Idle
    <3> QED BY <3>1, <3>2
  <2>2. Others(p)
    BY <1>1, OthersSame DEF Publish
  <2> QED BY <1>0, <1>1, <2>1, <2>2, PublishMoves, GoodStays
<1>2. ASSUME NEW j \in Jobs, CreateJob(p, j)
      PROVE  \A q \in Workers : GoodRequest(q)'
  <2>1. GoodRequest(p)'
    BY <1>0, <1>2, CreateJobMoves DEF GoodRequest, InHandler
  <2>2. Others(p)
    BY <1>2, OthersSame DEF CreateJob
  <2> QED BY <1>0, <1>2, <2>1, <2>2, CreateJobMoves, GoodStays
<1>3. 0 \in Nat /\ Amounts \subseteq Nat
  BY ComplianceAssumption
<1>4. CASE \E j \in Jobs : CreateJob(p, j)
  BY <1>2, <1>4
<1>5. ASSUME NEW e \in Escrows, NEW kind \in Kinds,
             IF kind = "EscrowReleased"
             THEN \E amount \in Amounts : Publish(p, e, kind, amount)
             ELSE Publish(p, e, kind, 0)
      PROVE  \A q \in Workers : GoodRequest(q)'
  <2>1. PICK m \in Nat : Publish(p, e, kind, m)
    BY <1>3, <1>5
  <2> QED BY <1>1, <2>1
<1> QED BY <1>4, <1>5 DEF Begin

\* A request that goes on or ends after its handler.
LEMMA GoesOn ==
    ASSUME Inv, NEW p \in Workers, NEW pc \in {"lock", "notify", "idle"}, Goto(p, pc),
           req[p].pc \in {"deploy"} \cup InHandler
    PROVE  GoodRequest(p)' /\ \A q \in Workers \ {p} : req'[q] = req[q]
<1>1. TypeOK /\ pc \in PCs
  BY DEF Inv, PCs, InHandler
<1>2. req[p].escrow \in Escrows /\ req[p].kind \in Audited
  BY DEF Inv, GoodRequest, InHandler
<1>3. /\ req'[p].pc = pc /\ req'[p].escrow = req[p].escrow /\ req'[p].kind = req[p].kind
      /\ \A q \in Workers \ {p} : req'[q] = req[q]
  BY <1>1, GotoMoves
<1> QED BY <1>2, <1>3 DEF GoodRequest, InHandler

LEMMA Ends ==
    ASSUME Inv, NEW p \in Workers, req' = [req EXCEPT ![p] = Idle]
    PROVE  GoodRequest(p)' /\ \A q \in Workers \ {p} : req'[q] = req[q]
<1>1. req'[p] = Idle /\ \A q \in Workers \ {p} : req'[q] = req[q]
  BY IdleIsState, RequestMoves DEF Inv
<1> QED BY <1>1 DEF GoodRequest, InHandler, Idle

LEMMA ProgressKeepsRequests ==
    ASSUME Inv, NEW p \in Workers, Progress(p)
    PROVE  \A q \in Workers : GoodRequest(q)'
<1> SUFFICES /\ GoodRequest(p)' /\ Others(p)
             /\ \A q \in Workers \ {p} : req'[q] = req[q]
  BY GoodStays
<1>0. TypeOK /\ GoodRequest(p)
  BY DEF Inv
<1>1. CASE DeployAgreed(p)
  BY <1>1, GoesOn, OthersSame DEF DeployAgreed
<1>2. CASE Notify(p)
  BY <1>2, Ends, OthersSame DEF Notify
<1>3. CASE AcquireLock(p)
  <2>1. req[p].escrow \in Escrows /\ req[p].kind \in Audited
    BY <1>0, <1>3 DEF AcquireLock, GoodRequest, InHandler
  <2>2. /\ req'[p].pc = "read" /\ req'[p].escrow = req[p].escrow
        /\ req'[p].kind = req[p].kind /\ \A q \in Workers \ {p} : req'[q] = req[q]
    BY <1>0, <1>3, GotoMoves DEF AcquireLock, PCs, InHandler
  <2>3. lock' = [lock EXCEPT ![req[p].escrow] = p] /\ lock[req[p].escrow] = None
    BY <1>3 DEF AcquireLock
  <2>4. None \notin Workers
    BY ComplianceAssumption
  <2>5. GoodRequest(p)'
    BY <1>0, <2>1, <2>2, <2>3 DEF GoodRequest, TypeOK, InHandler
  <2>6. Others(p)
    BY <1>0, <1>3, <2>1, <2>3, <2>4 DEF Others, Of, TypeOK, AcquireLock
  <2> QED BY <2>2, <2>5, <2>6
<1>4. CASE GetLatest(p)
  <2>1. /\ req[p].escrow \in Escrows /\ req[p].kind \in Audited
        /\ lock[req[p].escrow] = p
    BY <1>0, <1>4 DEF GetLatest, GoodRequest, InHandler
  <2>2. IsChain(Of(req[p].escrow))
    BY <2>1 DEF Inv
  <2>3. /\ req'[p].pc = "insert" /\ req'[p].escrow = req[p].escrow
        /\ req'[p].kind = req[p].kind /\ req'[p].latest = LastOf(Of(req[p].escrow))
        /\ \A q \in Workers \ {p} : req'[q] = req[q]
    BY <1>0, <1>4, <2>2, GetLatestMoves, LatestIsLast
  <2>4. entries' = entries /\ lock' = lock
    BY <1>4 DEF GetLatest
  <2>5. GoodRequest(p)'
    BY <2>1, <2>3, <2>4 DEF GoodRequest, InHandler, Of
  <2> QED BY <1>4, <2>3, <2>5, OthersSame DEF GetLatest
<1>5. ASSUME NEW step \in ClockSteps, AppendEntry(p, step)
      PROVE  /\ GoodRequest(p)' /\ Others(p)
             /\ \A q \in Workers \ {p} : req'[q] = req[q]
  <2>1. PICK e \in Escrows, x \in EntryRow :
           /\ e = req[p].escrow /\ x.kind = req[p].kind
           /\ Of(e)' = Of(e) \cup {x}
    BY <1>5, Appended
  <2>2. CASE req[p].kind = "EscrowReleased" /\ Goto(p, "records")
    <3>1. /\ req'[p].pc = "records" /\ req'[p].escrow = e /\ req'[p].kind = "EscrowReleased"
          /\ \A q \in Workers \ {p} : req'[q] = req[q]
      BY <1>0, <2>1, <2>2, GotoMoves DEF PCs, InHandler
    <3>2. \E y \in Of(e)' : y.kind = "EscrowReleased"
      BY <2>1, <2>2
    <3>3. GoodRequest(p)'
      BY <3>1, <3>2 DEF GoodRequest, IsReleased, Of, InHandler, Audited, EscrowAudited, Kinds
    <3> QED BY <1>5, <3>1, <3>3, OthersAppend
  <2>3. CASE Goto(p, Onward(req[p].kind))
    BY <1>5, <2>3, GoesOn, OthersAppend DEF AppendEntry, Onward, InHandler
  <2> QED BY <1>5, <2>2, <2>3 DEF AppendEntry
<1>6. ASSUME NEW s \in Snapshots, GenerateRecords(p, s)
      PROVE  /\ GoodRequest(p)' /\ Others(p)
             /\ \A q \in Workers \ {p} : req'[q] = req[q]
  <2>1. /\ GoodRequest(p)' /\ \A q \in Workers \ {p} : req'[q] = req[q]
    BY <1>6, GoesOn DEF GenerateRecords, Onward, InHandler
  <2>2. PICK r \in RequestState : r = req[p]
    BY <1>0 DEF TypeOK
  <2>3. \A e \in Escrows : gst[e] # None => gst'[e] # None
    BY <1>0, <1>6, <2>2, RequestFields, RecordTypes DEF GenerateRecords, TypeOK
  <2>4. Others(p)
    BY <1>6, <2>3 DEF GenerateRecords, Others, Of
  <2> QED BY <2>1, <2>4
<1>7. ASSUME NEW e \in Escrows, CollectFirst(p, e)
      PROVE  /\ GoodRequest(p)' /\ Others(p)
             /\ \A q \in Workers \ {p} : req'[q] = req[q]
  <2>1. /\ req[p].job \in Jobs /\ req[p].fema \subseteq req[p].gst
        /\ \A f \in req[p].fema : gst[f] # None
    BY <1>0, <1>7 DEF GoodRequest, CollectFirst
  <2>2. /\ req'[p].pc = "second" /\ req'[p].escrow = e /\ req'[p].job = req[p].job
        /\ req'[p].gst = req[p].gst
        /\ req'[p].fema = req[p].fema \cup (IF fema[e] # None THEN {e} ELSE {})
        /\ \A q \in Workers \ {p} : req'[q] = req[q]
    BY <1>0, <1>7, CollectFirstMoves
  <2>3. fema[e] # None => gst[e] # None
    BY DEF Inv, RecordsFollowRelease
  <2>4. gst' = gst
    BY <1>7 DEF CollectFirst
  <2>5. GoodRequest(p)'
    BY <2>1, <2>2, <2>3, <2>4 DEF GoodRequest, InHandler
  <2> QED BY <1>7, <2>2, <2>5, OthersSame DEF CollectFirst
<1>8. CASE CollectSecond(p)
  <2>1. /\ req[p].job \in Jobs /\ \A f \in req[p].fema : gst[f] # None
        /\ req[p].escrow \in Escrows /\ req[p].fema \subseteq req[p].gst \cup {req[p].escrow}
    BY <1>0, <1>8 DEF GoodRequest, CollectSecond
  <2>2. /\ req'[p].pc \in {"first", "build"} /\ req'[p].job = req[p].job
        /\ req'[p].fema = req[p].fema
        /\ req'[p].gst = req[p].gst \cup
             (IF gst[req[p].escrow] # None THEN {req[p].escrow} ELSE {})
        /\ \A q \in Workers \ {p} : req'[q] = req[q]
    BY <1>0, <1>8, <2>1, CollectSecondMoves
  <2>3. gst' = gst
    BY <1>8 DEF CollectSecond
  <2>4. GoodRequest(p)'
    BY <2>1, <2>2, <2>3 DEF GoodRequest, InHandler
  <2> QED BY <1>8, <2>2, <2>4, OthersSame DEF CollectSecond
<1>9. CASE FinishJob(p)
  BY <1>9, Ends, OthersSame DEF FinishJob
<1> QED BY <1>1, <1>2, <1>3, <1>4, <1>5, <1>6, <1>7, <1>8, <1>9 DEF Progress

LEMMA FailureKeepsRequests ==
    ASSUME Inv, NEW p \in Workers, FailJob(p) \/ HandlerRaises(p) \/ Die(p)
    PROVE  \A q \in Workers : GoodRequest(q)'
<1>1. CASE FailJob(p)
  BY <1>1, Ends, OthersSame, GoodStays DEF FailJob
<1>2. CASE HandlerRaises(p)
  <2>1. Others(p)
    BY <1>2, OthersUnlocked DEF HandlerRaises
  <2> QED BY <1>2, <2>1, GoesOn, GoodStays DEF HandlerRaises, Onward
<1>3. CASE Die(p)
  <2>1. Others(p)
    BY <1>3, OthersUnlocked DEF Die
  <2> QED BY <1>3, <2>1, Ends, GoodStays DEF Die
<1> QED BY <1>1, <1>2, <1>3

----------------------------------------------------------------------------
(* Records and exports. *)

LEMMA RecordsAgree ==
    ASSUME NEW a \in Nat, NEW s \in Snapshots
    PROVE  LET f == FemaOf(a)  g == GstOf(a, s)
           IN  /\ f.amount = g.taxable
               /\ f.amount > FiveLakh * 100 => f.form = "15CB"
               /\ LET tax == g.igst + g.cgst + g.sgst
                  IN  100 * tax - 18 * g.taxable \in -100..100
<1>1. PICK q \in Nat : q = Quantize(a, 10) /\ 2 * (10 * q - a) <= 10
  BY Quantized
<1>2. PICK t \in Nat : /\ t = Tax(18, q)
                       /\ 2 * (100 * t - 18 * q) <= 100 /\ 2 * (18 * q - 100 * t) <= 100
  <2>1. PICK x \in Nat : x = 18 * q
    OBVIOUS
  <2>2. /\ Quantize(x, 100) \in Nat
        /\ 2 * (100 * Quantize(x, 100) - x) <= 100 /\ 2 * (x - 100 * Quantize(x, 100)) <= 100
    <3>1. 100 \in {10, 100}
      OBVIOUS
    <3> QED BY <3>1, Quantized
  <2>3. PICK u \in Nat : u = Quantize(x, 100)
    BY <2>2
  <2> QED BY <2>1, <2>2, <2>3 DEF Tax
<1>3. PICK h \in Nat : /\ h = Tax(9, q)
                       /\ 2 * (100 * h - 9 * q) <= 100 /\ 2 * (9 * q - 100 * h) <= 100
  <2>1. PICK x \in Nat : x = 9 * q
    OBVIOUS
  <2>2. /\ Quantize(x, 100) \in Nat
        /\ 2 * (100 * Quantize(x, 100) - x) <= 100 /\ 2 * (x - 100 * Quantize(x, 100)) <= 100
    <3>1. 100 \in {10, 100}
      OBVIOUS
    <3> QED BY <3>1, Quantized
  <2>3. PICK u \in Nat : u = Quantize(x, 100)
    BY <2>2
  <2> QED BY <2>1, <2>2, <2>3 DEF Tax
<1>4. PICK f, g, limit : f = FemaOf(a) /\ g = GstOf(a, s) /\ limit = FiveLakh
  OBVIOUS
<1>5. /\ f.amount = q /\ g.taxable = q
      /\ f.form = IF a >= limit * 1000 THEN "15CB" ELSE "15CA"
  <2>1. f.amount = Quantize(a, 10)
    BY <1>4, Zenon DEF FemaOf
  <2>3. g.taxable = Quantize(a, 10)
    BY <1>4, Zenon DEF GstOf
  <2>2. f.form = IF a >= limit * 1000 THEN "15CB" ELSE "15CA"
    BY <1>4, SMTT(30) DEF FemaOf
  <2> QED BY <1>1, <2>1, <2>2, <2>3, Zenon
<1>6. q > limit * 100 => a >= limit * 1000
  <2>1. limit \in Nat
    BY <1>4, SMT DEF FiveLakh
  <2>2. 10 * q <= a + 5
    BY <1>1
  <2> QED BY <2>1, <2>2
<1>7. \/ g.igst = 0 /\ g.cgst = h /\ g.sgst = h
      \/ g.igst = t /\ g.cgst = 0 /\ g.sgst = 0
  BY <1>1, <1>2, <1>3, <1>4 DEF GstOf
<1>8. PICK tax \in Nat : tax = g.igst + g.cgst + g.sgst /\ tax \in {t, 2 * h}
  BY <1>7
<1>9. 100 * tax - 18 * q <= 100 /\ 18 * q - 100 * tax <= 100
  <2>1. CASE tax = t
    BY <1>2, <2>1
  <2>2. CASE tax = 2 * h
    BY <1>3, <2>2
  <2> QED BY <1>8, <2>1, <2>2
<1>10. 100 * tax - 18 * q \in -100..100
  BY <1>9
<1> QED BY <1>4, <1>5, <1>6, <1>8, <1>10
LEMMA RecordsKept ==
    ASSUME Inv, Next
    PROVE  RecordsFollowRelease'
<1>1. \A e \in Escrows : Of(e) \subseteq Of(e)'
  BY ChainsKept
<1>2. CASE UNCHANGED <<fema, gst>>
  BY <1>1, <1>2 DEF Inv, RecordsFollowRelease
<1>3. ASSUME NEW p \in Workers, NEW s \in Snapshots, GenerateRecords(p, s)
      PROVE  RecordsFollowRelease'
  <2>1. PICK r \in RequestState : r = req[p]
    BY DEF Inv, TypeOK
  <2>2. r.escrow \in Escrows /\ IsReleased(r.escrow)
    <3>1. GoodRequest(p) /\ r.pc = "records"
      BY <1>3, <2>1 DEF Inv, GenerateRecords
    <3> QED BY <2>1, <3>1 DEF GoodRequest, InHandler, IsReleased, Of
  <2>3. PICK e \in Escrows, a \in Nat : e = r.escrow /\ a = r.amount
    BY <2>2, RequestFields
  <2>4. /\ fema' = [fema EXCEPT ![e] = IF @ = None THEN FemaOf(a) ELSE @]
        /\ gst' = [gst EXCEPT ![e] = IF @ = None THEN GstOf(a, s) ELSE @]
    BY <1>3, <2>1, <2>3 DEF GenerateRecords
  <2>5. CASE fema[e] # None
    <3>1. gst[e] # None
      BY <2>5 DEF Inv, RecordsFollowRelease
    <3>2. fema' = fema /\ gst' = gst
      BY <2>4, <2>5, <3>1 DEF Inv, TypeOK
    <3> QED BY <1>2, <3>2
  <2>6. CASE fema[e] = None
    <3>1. gst[e] = None
      BY <2>6 DEF Inv, RecordsFollowRelease
    <3>2. /\ fema'[e] = FemaOf(a) /\ gst'[e] = GstOf(a, s)
          /\ \A f \in Escrows \ {e} : fema'[f] = fema[f] /\ gst'[f] = gst[f]
      BY <2>4, <2>6, <3>1 DEF Inv, TypeOK
    <3>3. FemaOf(a) # None /\ GstOf(a, s) # None
      BY RecordTypes
    <3>4. \E x \in Of(e)' : x.kind = "EscrowReleased"
      BY <1>1, <2>2, <2>3 DEF IsReleased
    <3> DEFINE Fine(d) ==
          LET f == fema[d]  g == gst[d]
          IN  /\ (f = None) <=> (g = None)
              /\ f # None =>
                   /\ \E x \in Of(d) : x.kind = "EscrowReleased"
                   /\ f.amount = g.taxable
                   /\ f.amount > FiveLakh * 100 => f.form = "15CB"
                   /\ LET tax == g.igst + g.cgst + g.sgst
                      IN  100 * tax - 18 * g.taxable \in -100..100
    <3>5. Fine(e)'
      BY <3>2, <3>3, <3>4, RecordsAgree
    <3>6. ASSUME NEW d \in Escrows \ {e} PROVE Fine(d)'
      <4>1. Fine(d)
        BY DEF Inv, RecordsFollowRelease
      <4> QED BY <1>1, <3>2, <4>1
    <3> QED BY <3>5, <3>6 DEF RecordsFollowRelease
  <2> QED BY <2>5, <2>6
<1>4. CASE Auditor
  BY <1>2, <1>4 DEF Auditor, ReadPage, OpenLog
<1>5. ASSUME NEW p \in Workers, Begin(p) PROVE UNCHANGED <<fema, gst>>
  BY <1>5 DEF Begin, Publish, CreateJob
<1>6. ASSUME NEW p \in Workers, Progress(p)
      PROVE  UNCHANGED <<fema, gst>> \/ \E s \in Snapshots : GenerateRecords(p, s)
  BY <1>6 DEF Progress, DeployAgreed, AcquireLock, GetLatest, AppendEntry, Notify,
     CollectFirst, CollectSecond, FinishJob
<1>7. ASSUME NEW p \in Workers, FailJob(p) \/ HandlerRaises(p) \/ Die(p)
      PROVE  UNCHANGED <<fema, gst>>
  BY <1>7 DEF FailJob, HandlerRaises, Die
<1> QED BY <1>2, <1>3, <1>4, <1>5, <1>6, <1>7 DEF Next

LEMMA ExportsKept ==
    ASSUME Inv, Next
    PROVE  ExportsAreUsable'
<1>1. CASE UNCHANGED jobs
  BY <1>1 DEF Inv, ExportsAreUsable
<1>2. ASSUME NEW p \in Workers, NEW j \in Jobs, CreateJob(p, j) PROVE ExportsAreUsable'
  <2>1. \A i \in Jobs \ {j} : jobs'[i] = jobs[i]
    BY <1>2 DEF CreateJob, Inv, TypeOK
  <2>2. jobs'[j].status = "PENDING"
    BY <1>2 DEF CreateJob, Inv, TypeOK
  <2> QED BY <2>1, <2>2 DEF Inv, ExportsAreUsable
<1>3. ASSUME NEW p \in Workers, FinishJob(p) PROVE ExportsAreUsable'
  <2>1. req[p].job \in Jobs /\ req[p].fema \subseteq req[p].gst
    BY <1>3 DEF FinishJob, Inv, GoodRequest
  <2>2. \A i \in Jobs \ {req[p].job} : jobs'[i] = jobs[i]
    BY <1>3 DEF FinishJob, Inv, TypeOK
  <2>3. jobs'[req[p].job].fema = req[p].fema /\ jobs'[req[p].job].gst = req[p].gst
    BY <1>3, <2>1 DEF FinishJob, Inv, TypeOK
  <2> QED BY <2>1, <2>2, <2>3 DEF Inv, ExportsAreUsable
<1>4. ASSUME NEW p \in Workers, FailJob(p) PROVE ExportsAreUsable'
  <2>1. req[p].job \in Jobs
    BY <1>4 DEF FailJob, Inv, GoodRequest
  <2>0. PICK j \in Jobs : j = req[p].job
    BY <2>1
  <2>2. PICK d : d = [jobs[j] EXCEPT !.status = "FAILED"]
    OBVIOUS
  <2>3. d.status = "FAILED"
    BY <2>2 DEF Inv, TypeOK
  <2>4. jobs' = [jobs EXCEPT ![j] = d]
    BY <1>4, <2>0, <2>2 DEF FailJob
  <2>5. jobs'[j] = d /\ \A i \in Jobs \ {j} : jobs'[i] = jobs[i]
    BY <2>4 DEF Inv, TypeOK
  <2> QED BY <2>3, <2>5 DEF Inv, ExportsAreUsable
<1>5. CASE Auditor
  BY <1>1, <1>5 DEF Auditor, ReadPage, OpenLog
<1>6. ASSUME NEW p \in Workers, Begin(p)
      PROVE  UNCHANGED jobs \/ \E j \in Jobs : CreateJob(p, j)
  BY <1>6 DEF Begin, Publish
<1>7. ASSUME NEW p \in Workers, Progress(p) PROVE UNCHANGED jobs \/ FinishJob(p)
  BY <1>7 DEF Progress, DeployAgreed, AcquireLock, GetLatest, AppendEntry, GenerateRecords,
     Notify, CollectFirst, CollectSecond
<1>8. ASSUME NEW p \in Workers, HandlerRaises(p) \/ Die(p) PROVE UNCHANGED jobs
  BY <1>8 DEF HandlerRaises, Die
<1> QED BY <1>1, <1>2, <1>3, <1>4, <1>5, <1>6, <1>7, <1>8 DEF Next

----------------------------------------------------------------------------
(* Nothing is recorded that has not happened. *)

\* No step rewrites what has happened.
LEMMA MoreHappens ==
    ASSUME TypeOK, NEW e \in Escrows, NEW kind \in Audited,
           committed'[e] = committed[e] \/ \E k \in Kinds : committed'[e] = Append(committed[e], k)
    PROVE  /\ TrailOf!Occurrences(kind, committed[e]) \in Nat
           /\ TrailOf!Occurrences(kind, committed'[e]) \in Nat
           /\ TrailOf!Occurrences(kind, committed[e])
                <= TrailOf!Occurrences(kind, committed'[e])
<1>1. PICK s \in Seq(Kinds) : s = committed[e]
  BY DEF TypeOK
<1>2. PICK t : t = committed'[e]
  OBVIOUS
<1>3. t = s \/ \E k \in Kinds : t = Append(s, k)
  BY <1>1, <1>2
<1>4. "EscrowFunded" \in Kinds
  BY DEF Kinds
<1>5. TrailOf!Occurrences(kind, s) \in Nat
  BY <1>4, OneMoreOccurrence
<1>6. /\ TrailOf!Occurrences(kind, t) \in Nat
      /\ TrailOf!Occurrences(kind, s) <= TrailOf!Occurrences(kind, t)
  <2>1. CASE t = s
    BY <1>5, <2>1
  <2>2. ASSUME NEW k \in Kinds, t = Append(s, k)
        PROVE  /\ TrailOf!Occurrences(kind, t) \in Nat
               /\ TrailOf!Occurrences(kind, s) <= TrailOf!Occurrences(kind, t)
    BY <1>5, <2>2, OneMoreOccurrence
  <2> QED BY <1>3, <2>1, <2>2
<1> QED BY <1>1, <1>2, <1>5, <1>6

LEMMA TrailType ==
    ASSUME Inv, NEW e \in Escrows, NEW kind
    PROVE  /\ Trail(e) \in Seq(Audited)
           /\ TrailOf!Occurrences(kind, Trail(e)) \in Nat
<1>1. Of(e) \in SUBSET EntryRow /\ IsChain(Of(e))
  BY DEF Inv, TypeOK, Of
<1>2. Trail(e) \in Seq(Audited)
  BY <1>1, TrailIsKinds, KindsType
<1>3. "EscrowFunded" \in Audited
  BY DEF Audited, EscrowAudited, Kinds
<1> QED BY <1>2, <1>3, OneMoreOccurrence

LEMMA TrailSame ==
    ASSUME NEW e, Of(e)' = Of(e)
    PROVE  Trail(e)' = Trail(e)
BY DEF Trail

\* A step that records nothing of e and brings nothing of this kind on its way.
LEMMA QuietKeepsOwed ==
    ASSUME Inv, NEW e \in Escrows, NEW kind \in Audited,
           Of(e)' = Of(e), InFlight(e, kind)' \subseteq InFlight(e, kind),
           committed'[e] = committed[e] \/ \E k \in Kinds : committed'[e] = Append(committed[e], k)
    PROVE  IsOwed(e, kind)'
<1>1. /\ IsFiniteSet(InFlight(e, kind))
      /\ Cardinality(InFlight(e, kind)) + TrailOf!Occurrences(kind, Trail(e))
           <= TrailOf!Occurrences(kind, committed[e])
  BY DEF Inv, IsOwed
<1>2. PICK T : T = Trail(e) /\ T = Trail(e)'
  BY TrailSame
<1>3. PICK F, G : F = InFlight(e, kind) /\ G = InFlight(e, kind)'
  OBVIOUS
<1>4. G \in SUBSET F
  BY <1>3
<1>5. IsFiniteSet(G) /\ Cardinality(G) <= Cardinality(F)
      /\ Cardinality(G) \in Nat /\ Cardinality(F) \in Nat
  BY <1>1, <1>3, <1>4, FS_Subset, FS_CardinalityType
<1>6. /\ TrailOf!Occurrences(kind, committed[e]) \in Nat
      /\ TrailOf!Occurrences(kind, committed'[e]) \in Nat
      /\ TrailOf!Occurrences(kind, committed[e]) <= TrailOf!Occurrences(kind, committed'[e])
  BY MoreHappens DEF Inv
<1>7. TrailOf!Occurrences(kind, T) \in Nat
  BY <1>2, TrailType
<1>8. Cardinality(G) + TrailOf!Occurrences(kind, T) <= TrailOf!Occurrences(kind, committed'[e])
  BY <1>1, <1>2, <1>3, <1>5, <1>6, <1>7
<1> QED BY <1>2, <1>3, <1>5, <1>8 DEF IsOwed, TrailOf!Occurrences

LEMMA PublishKeepsOwed ==
    ASSUME Inv, NEW p \in Workers, NEW d \in Escrows, NEW k \in Kinds, NEW m \in Nat,
           Publish(p, d, k, m), NEW e \in Escrows, NEW kind \in Audited
    PROVE  IsOwed(e, kind)'
<1>0. TypeOK
  BY DEF Inv
<1>1. /\ committed'[d] = Append(committed[d], k) /\ req[p].pc = "idle"
      /\ \A f \in Escrows \ {d} : committed'[f] = committed[f]
      /\ \A f : Of(f)' = Of(f)
  BY <1>0 DEF Publish, TypeOK, Of
<1>2. /\ \A q \in Workers \ {p} : req'[q] = req[q]
      /\ k \notin Audited => req'[p] = Idle
      /\ k \in Audited => /\ req'[p].pc \in {"deploy", "lock"}
                          /\ req'[p].escrow = d /\ req'[p].kind = k
  BY <1>0, PublishMoves
<1>3. CASE e # d \/ kind # k
  <2>1. InFlight(e, kind)' \subseteq InFlight(e, kind)
    BY <1>2, <1>3 DEF InFlight, Idle, InDeploy
  <2> QED BY <1>1, <2>1, QuietKeepsOwed
<1>4. CASE e = d /\ kind = k
  <2>1. PICK F, G : F = InFlight(e, kind) /\ G = InFlight(e, kind)'
    OBVIOUS
  <2>2. G = F \cup {p} /\ p \notin F
    BY <1>1, <1>2, <1>4, <2>1 DEF InFlight, InDeploy
  <2>3. /\ IsFiniteSet(F)
        /\ Cardinality(F) + TrailOf!Occurrences(kind, Trail(e))
             <= TrailOf!Occurrences(kind, committed[e])
    BY <2>1 DEF Inv, IsOwed
  <2>4. IsFiniteSet(G) /\ Cardinality(G) = Cardinality(F) + 1 /\ Cardinality(F) \in Nat
    BY <2>2, <2>3, FS_AddElement, FS_CardinalityType
  <2>5. PICK T : T = Trail(e) /\ T = Trail(e)'
    BY <1>1, TrailSame
  <2>6. TrailOf!Occurrences(kind, T) \in Nat
    BY <2>5, TrailType
  <2>7. PICK s \in Seq(Kinds) : s = committed[e]
    BY <1>0 DEF TypeOK
  <2>8. /\ TrailOf!Occurrences(kind, s) \in Nat
        /\ TrailOf!Occurrences(kind, Append(s, k)) = TrailOf!Occurrences(kind, s) + 1
    BY <1>4, OneMoreOccurrence
  <2>9. Cardinality(G) + TrailOf!Occurrences(kind, T)
          <= TrailOf!Occurrences(kind, Append(s, k))
    BY <2>3, <2>4, <2>5, <2>6, <2>7, <2>8
  <2>10. committed'[e] = Append(s, k)
    BY <1>1, <1>4, <2>7
  <2> QED BY <2>1, <2>4, <2>5, <2>9, <2>10 DEF IsOwed, TrailOf!Occurrences
<1> QED BY <1>3, <1>4

\* An append records the event of its own request.
LEMMA TrailGrows ==
    ASSUME Inv, NEW p \in Workers, NEW step \in ClockSteps, AppendEntry(p, step)
    PROVE  \E e \in Escrows, kind \in Audited :
              /\ e = req[p].escrow /\ kind = req[p].kind
              /\ p \in InFlight(e, kind)
              /\ Trail(e)' = Append(Trail(e), kind)
              /\ \A f \in Escrows \ {e} : Of(f)' = Of(f) /\ Trail(f)' = Trail(f)
<1>1. PICK e \in Escrows, x \in EntryRow :
         /\ e = req[p].escrow /\ x.kind = req[p].kind
         /\ IsNextOf(x, Of(e))
         /\ Of(e)' = Of(e) \cup {x}
         /\ \A f \in Escrows \ {e} : Of(f)' = Of(f)
  BY Appended
<1>2. IsChain(Of(e)) /\ Of(e) \in SUBSET EntryRow
  BY DEF Inv, TypeOK, Of
<1>3. KindsOf(Of(e) \cup {x}) = Append(KindsOf(Of(e)), x.kind)
  BY <1>1, <1>2, KindsGrow
<1>4. Trail(e)' = KindsOf(Of(e)')
  BY DEF Trail, KindsOf
<1>5. Trail(e)' = Append(Trail(e), x.kind)
  BY <1>1, <1>3, <1>4, TrailIsKinds
<1>6. p \in InFlight(e, x.kind) /\ x.kind \in Audited
  BY <1>1 DEF AppendEntry, InFlight, InDeploy, EntryRow
<1> QED BY <1>1, <1>5, <1>6, TrailSame

LEMMA AppendKeepsOwed ==
    ASSUME Inv, NEW p \in Workers, NEW step \in ClockSteps, AppendEntry(p, step),
           NEW e \in Escrows, NEW kind \in Audited
    PROVE  IsOwed(e, kind)'
<1>0. TypeOK /\ committed' = committed
  BY DEF Inv, AppendEntry
<1>1. PICK d \in Escrows, k \in Audited :
         /\ d = req[p].escrow /\ k = req[p].kind
         /\ p \in InFlight(d, k)
         /\ Trail(d)' = Append(Trail(d), k)
         /\ \A f \in Escrows \ {d} : Of(f)' = Of(f) /\ Trail(f)' = Trail(f)
  BY TrailGrows
<1>2. /\ req'[p].pc \notin InDeploy
      /\ \A q \in Workers \ {p} : req'[q] = req[q]
  <2>1. \E pc \in {"records", "notify", "idle"} : Goto(p, pc)
    BY DEF AppendEntry, Onward
  <2> QED BY <1>0, <2>1, GotoMoves DEF PCs, InDeploy, InHandler
<1>3. PICK F, G : F = InFlight(e, kind) /\ G = InFlight(e, kind)'
  OBVIOUS
<1>4. G = F \ {p}
  BY <1>2, <1>3 DEF InFlight
<1>5. CASE e # d
  <2>1. Of(e)' = Of(e) /\ InFlight(e, kind)' \subseteq InFlight(e, kind)
    BY <1>1, <1>3, <1>4, <1>5
  <2> QED BY <1>0, <2>1, QuietKeepsOwed
<1>6. CASE e = d
  <2>1. /\ IsFiniteSet(F)
        /\ Cardinality(F) + TrailOf!Occurrences(kind, Trail(e))
             <= TrailOf!Occurrences(kind, committed[e])
    BY <1>3 DEF Inv, IsOwed
  <2>2. IsFiniteSet(G) /\ Cardinality(F) \in Nat /\ Cardinality(G) \in Nat
        /\ Cardinality(G) = IF p \in F THEN Cardinality(F) - 1 ELSE Cardinality(F)
    BY <1>4, <2>1, FS_RemoveElement, FS_CardinalityType
  <2>3. k = kind => p \in F
    BY <1>1, <1>3, <1>6
  <2>4. PICK T \in Seq(Audited) : T = Trail(e)
    BY TrailType
  <2>5. /\ TrailOf!Occurrences(kind, T) \in Nat
        /\ TrailOf!Occurrences(kind, Append(T, k)) =
             TrailOf!Occurrences(kind, T) + (IF k = kind THEN 1 ELSE 0)
    BY OneMoreOccurrence
  <2>6. TrailOf!Occurrences(kind, committed[e]) \in Nat
    BY <1>0, MoreHappens
  <2>7. Cardinality(G) + TrailOf!Occurrences(kind, Append(T, k))
          <= TrailOf!Occurrences(kind, committed[e])
    <3>1. CASE k = kind
      BY <2>1, <2>2, <2>3, <2>4, <2>5, <2>6, <3>1
    <3>2. CASE k # kind
      BY <2>1, <2>2, <2>4, <2>5, <2>6, <3>2
    <3> QED BY <3>1, <3>2
  <2>8. Trail(e)' = Append(T, k)
    BY <1>1, <1>6, <2>4
  <2> QED BY <1>0, <1>3, <2>2, <2>7, <2>8 DEF IsOwed, TrailOf!Occurrences
<1> QED BY <1>5, <1>6

\* A step of p that records nothing and brings nothing on its way.
LEMMA SilentKeepsOwed ==
    ASSUME Inv, UNCHANGED <<committed, entries>>, NEW p \in Workers,
           \A q \in Workers \ {p} : req'[q] = req[q],
           req'[p].pc \in InDeploy =>
             /\ req[p].pc \in InDeploy
             /\ req'[p].escrow = req[p].escrow /\ req'[p].kind = req[p].kind
    PROVE  \A e \in Escrows, kind \in Audited : IsOwed(e, kind)'
<1> SUFFICES ASSUME NEW e \in Escrows, NEW kind \in Audited
             PROVE  IsOwed(e, kind)'
  OBVIOUS
<1>1. Of(e)' = Of(e)
  BY DEF Of
<1>2. InFlight(e, kind)' \subseteq InFlight(e, kind)
  BY DEF InFlight
<1> QED BY <1>1, <1>2, QuietKeepsOwed

LEMMA OwedKept ==
    ASSUME Inv, Next
    PROVE  \A e \in Escrows, kind \in Audited : IsOwed(e, kind)'
<1>0. TypeOK
  BY DEF Inv
<1>1. CASE Auditor
  <2>1. UNCHANGED <<committed, entries, req>>
    BY <1>1 DEF Auditor, ReadPage, OpenLog
  <2> SUFFICES ASSUME NEW e \in Escrows, NEW kind \in Audited
               PROVE  IsOwed(e, kind)'
    OBVIOUS
  <2>2. Of(e)' = Of(e) /\ InFlight(e, kind)' = InFlight(e, kind)
    BY <2>1 DEF Of, InFlight
  <2> QED BY <2>1, <2>2, QuietKeepsOwed
<1>2. ASSUME NEW p \in Workers, Begin(p)
      PROVE  \A e \in Escrows, kind \in Audited : IsOwed(e, kind)'
  <2>1. 0 \in Nat /\ Amounts \subseteq Nat
    BY ComplianceAssumption
  <2>2. ASSUME NEW j \in Jobs, CreateJob(p, j)
        PROVE  \A e \in Escrows, kind \in Audited : IsOwed(e, kind)'
    <3>1. req'[p].pc \notin InDeploy /\ \A q \in Workers \ {p} : req'[q] = req[q]
      BY <1>0, <2>2, CreateJobMoves DEF InDeploy
    <3> QED BY <2>2, <3>1, SilentKeepsOwed DEF CreateJob
  <2>3. ASSUME NEW d \in Escrows, NEW k \in Kinds,
               IF k = "EscrowReleased"
               THEN \E amount \in Amounts : Publish(p, d, k, amount)
               ELSE Publish(p, d, k, 0)
        PROVE  \A e \in Escrows, kind \in Audited : IsOwed(e, kind)'
    <3>1. PICK m \in Nat : Publish(p, d, k, m)
      BY <2>1, <2>3
    <3> QED BY <3>1, PublishKeepsOwed
  <2> QED BY <1>2, <2>2, <2>3 DEF Begin
<1>3. ASSUME NEW p \in Workers, Progress(p)
      PROVE  \A e \in Escrows, kind \in Audited : IsOwed(e, kind)'
  <2>1. CASE DeployAgreed(p) \/ AcquireLock(p)
    <3>1. \E pc \in {"lock", "read"} : Goto(p, pc)
      BY <2>1 DEF DeployAgreed, AcquireLock
    <3>2. /\ req'[p].escrow = req[p].escrow /\ req'[p].kind = req[p].kind
          /\ \A q \in Workers \ {p} : req'[q] = req[q]
      BY <1>0, <3>1, GotoMoves DEF PCs, InHandler
    <3>3. req[p].pc \in InDeploy /\ UNCHANGED <<committed, entries>>
      BY <2>1 DEF DeployAgreed, AcquireLock, InDeploy
    <3> QED BY <3>2, <3>3, SilentKeepsOwed
  <2>2. CASE GetLatest(p)
    <3>1. IsChain(Of(req[p].escrow))
      BY <2>2 DEF Inv, GoodRequest, GetLatest, InHandler
    <3>2. /\ req'[p].escrow = req[p].escrow /\ req'[p].kind = req[p].kind
          /\ \A q \in Workers \ {p} : req'[q] = req[q]
      BY <1>0, <2>2, <3>1, GetLatestMoves
    <3>3. req[p].pc \in InDeploy /\ UNCHANGED <<committed, entries>>
      BY <2>2 DEF GetLatest, InDeploy
    <3> QED BY <3>2, <3>3, SilentKeepsOwed
  <2>3. CASE \E step \in ClockSteps : AppendEntry(p, step)
    BY <2>3, AppendKeepsOwed
  <2>4. CASE \E s \in Snapshots : GenerateRecords(p, s)
    <3>1. Goto(p, Onward(req[p].kind)) /\ UNCHANGED <<committed, entries>>
      BY <2>4 DEF GenerateRecords
    <3>2. req'[p].pc \notin InDeploy /\ \A q \in Workers \ {p} : req'[q] = req[q]
      BY <1>0, <3>1, GotoMoves DEF PCs, InDeploy, Onward
    <3> QED BY <3>1, <3>2, SilentKeepsOwed
  <2>5. CASE Notify(p) \/ FinishJob(p)
    <3>1. req' = [req EXCEPT ![p] = Idle] /\ UNCHANGED <<committed, entries>>
      BY <2>5 DEF Notify, FinishJob
    <3>2. req'[p].pc \notin InDeploy /\ \A q \in Workers \ {p} : req'[q] = req[q]
      BY <1>0, <3>1, IdleIsState, RequestMoves DEF InDeploy, Idle
    <3> QED BY <3>1, <3>2, SilentKeepsOwed
  <2>6. CASE \E e \in Escrows : CollectFirst(p, e)
    <3>1. req'[p].pc \notin InDeploy /\ \A q \in Workers \ {p} : req'[q] = req[q]
      BY <1>0, <2>6, CollectFirstMoves DEF InDeploy
    <3> QED BY <2>6, <3>1, SilentKeepsOwed DEF CollectFirst
  <2>7. CASE CollectSecond(p)
    <3>1. req[p].escrow \in Escrows
      BY <2>7 DEF Inv, GoodRequest, CollectSecond
    <3>2. req'[p].pc \notin InDeploy /\ \A q \in Workers \ {p} : req'[q] = req[q]
      BY <1>0, <2>7, <3>1, CollectSecondMoves DEF InDeploy
    <3> QED BY <2>7, <3>2, SilentKeepsOwed DEF CollectSecond
  <2> QED BY <1>3, <2>1, <2>2, <2>3, <2>4, <2>5, <2>6, <2>7 DEF Progress
<1>4. ASSUME NEW p \in Workers, FailJob(p) \/ HandlerRaises(p) \/ Die(p)
      PROVE  \A e \in Escrows, kind \in Audited : IsOwed(e, kind)'
  <2>1. CASE FailJob(p) \/ Die(p)
    <3>1. req' = [req EXCEPT ![p] = Idle] /\ UNCHANGED <<committed, entries>>
      BY <2>1 DEF FailJob, Die
    <3>2. req'[p].pc \notin InDeploy /\ \A q \in Workers \ {p} : req'[q] = req[q]
      BY <1>0, <3>1, IdleIsState, RequestMoves DEF InDeploy, Idle
    <3> QED BY <3>1, <3>2, SilentKeepsOwed
  <2>2. CASE HandlerRaises(p)
    <3>1. Goto(p, Onward(req[p].kind)) /\ UNCHANGED <<committed, entries>>
      BY <2>2 DEF HandlerRaises
    <3>2. req'[p].pc \notin InDeploy /\ \A q \in Workers \ {p} : req'[q] = req[q]
      BY <1>0, <3>1, GotoMoves DEF PCs, InDeploy, Onward
    <3> QED BY <3>1, <3>2, SilentKeepsOwed
  <2> QED BY <1>4, <2>1, <2>2
<1> QED BY <1>1, <1>2, <1>3, <1>4 DEF Next

----------------------------------------------------------------------------
(* The invariant. *)

LEMMA EmptyChain ==
    /\ IsChain({})
    /\ KindsOf({}) = <<>>
<1>1. IsFiniteSet({}) /\ Cardinality({}) = 0
  BY FS_EmptySet
<1> QED BY <1>1 DEF IsChain, KindsOf

LEMMA InitInv == Init => Inv
<1> SUFFICES ASSUME Init PROVE Inv
  OBVIOUS
<1> USE DEF Init
<1>1. TypeOK
  <2>1. req \in [Workers -> RequestState]
    BY IdleIsState
  <2>2. page \in [escrow : Escrows \cup {None}, cursor : Nat, seen : Seq(Nat), more : BOOLEAN]
    BY DEF NotReading
  <2>3. jobs \in [Jobs -> [status : {"none", "PENDING", "DONE", "FAILED"},
                           fema : SUBSET Escrows, gst : SUBSET Escrows]]
    BY DEF NoJob
  <2> QED BY <2>1, <2>2, <2>3 DEF TypeOK
<1>2. \A e : Of(e) = {}
  BY DEF Of
<1>3. \A p \in Workers : GoodRequest(p)
  BY DEF GoodRequest, Idle, InHandler
<1>4. ASSUME NEW e \in Escrows, NEW kind \in Audited PROVE IsOwed(e, kind)
  <2>1. InFlight(e, kind) = {}
    BY DEF InFlight, InDeploy, Idle
  <2>2. Trail(e) = <<>> /\ committed[e] = <<>>
    BY <1>2, EmptyChain, TrailIsKinds
  <2>3. TrailOf!Occurrences(kind, <<>>) = 0
    <3>1. {i \in DOMAIN <<>> : <<>>[i] = kind} = {}
      OBVIOUS
    <3> QED BY <3>1, FS_EmptySet, SameCardinality DEF TrailOf!Occurrences
  <2> QED BY <2>1, <2>2, <2>3, FS_EmptySet DEF IsOwed
<1>5. RecordsFollowRelease /\ ExportsAreUsable /\ ~page.more
  BY DEF RecordsFollowRelease, ExportsAreUsable, NoJob, NotReading
<1> QED BY <1>1, <1>2, <1>3, <1>4, <1>5, EmptyChain DEF Inv

LEMMA PageOpens ==
    ASSUME Inv, Next
    PROVE  page'.more => page'.escrow \in Escrows
<1>1. CASE UNCHANGED page
  BY <1>1 DEF Inv
<1>2. CASE ReadPage
  <2>1. page'.escrow = page.escrow /\ page.more
    BY <1>2, PageRead DEF ReadPage, ReadsOn
  <2> QED BY <2>1 DEF Inv
<1>3. CASE \E e \in Escrows : OpenLog(e)
  BY <1>3 DEF OpenLog
<1>4. ASSUME NEW p \in Workers, Begin(p) \/ FailJob(p) \/ HandlerRaises(p) \/ Die(p)
      PROVE  UNCHANGED page
  BY <1>4 DEF Begin, Publish, CreateJob, FailJob, HandlerRaises, Die
<1>5. ASSUME NEW p \in Workers, Progress(p) PROVE UNCHANGED page
  BY <1>5 DEF Progress, DeployAgreed, AcquireLock, GetLatest, AppendEntry, GenerateRecords,
     Notify, CollectFirst, CollectSecond, FinishJob
<1> QED BY <1>1, <1>2, <1>3, <1>4, <1>5 DEF Next, Auditor

LEMMA StutterInv ==
    ASSUME Inv, UNCHANGED vars
    PROVE  Inv'
<1> USE DEF vars
<1>1. TypeOK'
  BY DEF Inv, TypeOK
<1>2. \A e : Of(e)' = Of(e)
  BY DEF Of
<1>3. \A e \in Escrows : IsChain(Of(e))'
  BY <1>2 DEF Inv, IsChain
<1>4. \A p \in Workers : GoodRequest(p)'
  BY DEF Inv, GoodRequest, IsReleased, Of
<1>5. ASSUME NEW e \in Escrows, NEW kind \in Audited PROVE IsOwed(e, kind)'
  <2>1. InFlight(e, kind)' \subseteq InFlight(e, kind)
    BY DEF InFlight
  <2> QED BY <1>2, <2>1, QuietKeepsOwed
<1>6. RecordsFollowRelease' /\ ExportsAreUsable' /\ (page'.more => page'.escrow \in Escrows)
  BY <1>2 DEF Inv, RecordsFollowRelease, ExportsAreUsable
<1> QED BY <1>1, <1>3, <1>4, <1>5, <1>6 DEF Inv

LEMMA StepInv == Inv /\ [Next]_vars => Inv'
<1>1. ASSUME Inv, Next PROVE Inv'
  <2>1. \A p \in Workers : GoodRequest(p)'
    <3>1. CASE Auditor
      <4>1. UNCHANGED <<entries, lock, gst, req>>
        BY <3>1 DEF Auditor, ReadPage, OpenLog
      <4> QED BY <1>1, <4>1 DEF Inv, GoodRequest, IsReleased, Of
    <3> QED BY <1>1, <3>1, BeginKeepsRequests, ProgressKeepsRequests, FailureKeepsRequests
            DEF Next
  <2> QED BY <1>1, <2>1, TypesKept, ChainsKept, OwedKept, RecordsKept, ExportsKept, PageOpens
          DEF Inv
<1> QED BY <1>1, StutterInv

\* The chain of every escrow has no gap and no fork, and what the requests hold agrees
\* with it, however they interleave, fail and die.
THEOREM ComplianceInvariant == Spec => []Inv
BY InitInv, StepInv, PTL DEF Spec

\* The tables and the requests keep their types.
THEOREM ComplianceTypeCorrect == Spec => []TypeOK
<1>1. Inv => TypeOK
  BY DEF Inv
<1> QED BY <1>1, ComplianceInvariant, PTL

\* The entry a handler is about to insert never collides with another one: the
\* advisory lock makes the constraint of the table unnecessary.
THEOREM AppendsNeverCollide == Spec => []AppendNeverCollides
<1>1. Inv => AppendNeverCollides
  BY NoCollision DEF AppendNeverCollides
<1> QED BY <1>1, ComplianceInvariant, PTL

\* Verification accepts the beginnings of the chain and nothing else, for chains of
\* any length.
THEOREM BeginningsVerify == Spec => []VerifyAcceptsBeginnings
<1>1. Inv => VerifyAcceptsBeginnings
  <2> SUFFICES ASSUME Inv, NEW e \in Escrows, NEW S \in SUBSET Of(e)
               PROVE  Verify(S) <=> \A x \in S, y \in Of(e) : y.seq < x.seq => y \in S
    BY DEF VerifyAcceptsBeginnings
  <2>1. IsChain(Of(e)) /\ Of(e) \in SUBSET EntryRow
    BY DEF Inv, TypeOK, Of
  <2> QED BY <2>1, ChainVerifies
<1> QED BY <1>1, ComplianceInvariant, PTL

\* The two records of an escrow come together, after its release, and agree, for any
\* amount.
THEOREM RecordsAreReleases == Spec => []RecordsFollowRelease
<1>1. Inv => RecordsFollowRelease
  BY DEF Inv
<1> QED BY <1>1, ComplianceInvariant, PTL

\* A finished export has no FEMA record without its GST record, although it reads them
\* one by one.
THEOREM ExportsStayUsable == Spec => []ExportsAreUsable
<1>1. Inv => ExportsAreUsable
  BY DEF Inv
<1> QED BY <1>1, ComplianceInvariant, PTL

----------------------------------------------------------------------------
(* The log is an audit trail. *)

trailVars == <<committed, [e \in Escrows |-> Trail(e)]>>

LEMMA InitTrail == Init => TrailOf!Init
<1> SUFFICES ASSUME Init PROVE TrailOf!Init
  OBVIOUS
<1>1. \A e : Of(e) = {}
  BY DEF Init, Of
<1>2. \A e : Trail(e) = <<>>
  BY <1>1, EmptyChain, TrailIsKinds
<1> QED BY <1>2 DEF Init, TrailOf!Init

\* Publishing lets a change happen, and an append records one; nothing else shows.
LEMMA StepTrail == Inv /\ [Next]_vars => [TrailOf!Next]_trailVars
<1> SUFFICES ASSUME Inv, [Next]_vars PROVE [TrailOf!Next]_trailVars
  OBVIOUS
<1>1. CASE UNCHANGED <<committed, entries>>
  <2>1. \A e \in Escrows : Trail(e)' = Trail(e)
    BY <1>1, TrailSame DEF Of
  <2> QED BY <1>1, <2>1 DEF trailVars
<1>2. ASSUME NEW p \in Workers, NEW e \in Escrows, NEW kind \in Kinds, NEW m,
             Publish(p, e, kind, m)
      PROVE  TrailOf!Next
  <2>1. \A d \in Escrows : Trail(d)' = Trail(d)
    BY <1>2, TrailSame DEF Of, Publish
  <2>2. TrailOf!Happen(e, kind)
    BY <1>2, <2>1 DEF Publish, TrailOf!Happen
  <2> QED BY <2>2 DEF TrailOf!Next
<1>3. ASSUME NEW p \in Workers, NEW step \in ClockSteps, AppendEntry(p, step)
      PROVE  TrailOf!Next
  <2>1. PICK e \in Escrows, kind \in Audited :
           /\ p \in InFlight(e, kind)
           /\ Trail(e)' = Append(Trail(e), kind)
           /\ \A f \in Escrows \ {e} : Trail(f)' = Trail(f)
    BY <1>3, TrailGrows
  <2>2. committed' = committed /\ kind \in Kinds
    BY <1>3 DEF AppendEntry, Audited, EscrowAudited, Kinds
  <2>3. TrailOf!Occurrences(kind, Trail(e)) < TrailOf!Occurrences(kind, committed[e])
    <3>1. PICK F : F = InFlight(e, kind)
      OBVIOUS
    <3>2. /\ IsFiniteSet(F)
          /\ Cardinality(F) + TrailOf!Occurrences(kind, Trail(e))
               <= TrailOf!Occurrences(kind, committed[e])
      BY <3>1 DEF Inv, IsOwed
    <3>3. Cardinality(F) \in Nat /\ Cardinality(F) # 0
      BY <2>1, <3>1, <3>2, FS_CardinalityType, FS_EmptySet
    <3>4. /\ TrailOf!Occurrences(kind, Trail(e)) \in Nat
          /\ TrailOf!Occurrences(kind, committed[e]) \in Nat
      BY <2>2, TrailType, MoreHappens DEF Inv
    <3> QED BY <3>2, <3>3, <3>4
  <2>4. TrailOf!Record(e, kind)
    BY <2>1, <2>2, <2>3 DEF TrailOf!Record
  <2> QED BY <2>2, <2>4 DEF TrailOf!Next
<1>4. ASSUME NEW p \in Workers, Begin(p)
      PROVE  \/ UNCHANGED <<committed, entries>>
             \/ \E e \in Escrows, kind \in Kinds, m \in Amounts \cup {0} :
                   Publish(p, e, kind, m)
  BY <1>4 DEF Begin, CreateJob
<1>5. ASSUME NEW p \in Workers, Progress(p)
      PROVE  \/ UNCHANGED <<committed, entries>>
             \/ \E step \in ClockSteps : AppendEntry(p, step)
  BY <1>5 DEF Progress, DeployAgreed, AcquireLock, GetLatest, GenerateRecords, Notify,
     CollectFirst, CollectSecond, FinishJob
<1>6. ASSUME NEW p \in Workers, FailJob(p) \/ HandlerRaises(p) \/ Die(p)
      PROVE  UNCHANGED <<committed, entries>>
  BY <1>6 DEF FailJob, HandlerRaises, Die
<1>7. CASE Auditor
  BY <1>1, <1>7 DEF Auditor, ReadPage, OpenLog
<1>8. CASE UNCHANGED vars
  BY <1>1, <1>8 DEF vars
<1> QED BY <1>1, <1>2, <1>3, <1>4, <1>5, <1>6, <1>7, <1>8 DEF Next

\* With all its locks, lost handlers and concurrent appends the log is an audit trail:
\* each committed change is recorded at most once, at the end, for ever.
THEOREM LogIsTrail == Spec => ImplementsTrail
<1>1. Init => TrailOf!Init
  BY InitTrail
<1>2. Inv /\ [Next]_vars => [TrailOf!Next]_trailVars
  BY StepTrail
<1> QED BY <1>1, <1>2, ComplianceInvariant, PTL DEF Spec, ImplementsTrail, TrailOf!Spec, trailVars

----------------------------------------------------------------------------
(* The pages of the log, when no two appends fall into one tick of the clock. *)

LEMMA InitPage == Init => PageInv
BY DEF Init, PageInv, IsTimed, Of, PagesMissNothing, NotReading

LEMMA TimesKept ==
    ASSUME 0 \notin ClockSteps, Inv, PageInv, Next
    PROVE  /\ \A e \in Escrows : IsTimed(Of(e))'
           /\ \A e \in Escrows : Of(e) \subseteq Of(e)'
<1>1. \A e \in Escrows : Of(e) \subseteq Of(e)'
  BY ChainsKept
<1>2. CASE entries' = entries
  BY <1>2 DEF PageInv, IsTimed, Of
<1>3. ASSUME NEW p \in Workers, NEW step \in ClockSteps, AppendEntry(p, step)
      PROVE  \A e \in Escrows : IsTimed(Of(e))'
  <2>1. PICK e \in Escrows, x \in EntryRow :
           /\ x = Entry(e, LastOf(Of(e)), req[p].kind, step)
           /\ IsNextOf(x, Of(e))
           /\ Of(e)' = Of(e) \cup {x}
           /\ \A f \in Escrows \ {e} : Of(f)' = Of(f)
    BY <1>3, Appended
  <2>2. PICK C \in SUBSET EntryRow : C = Of(e) /\ IsChain(C) /\ IsTimed(C)
    BY DEF Inv, TypeOK, Of, PageInv
  <2>3. step \in Nat /\ step # 0
    BY ComplianceAssumption
  <2>4. \A y \in C : y.seq < x.seq /\ y.at < x.at
    <3>1. CASE C = {}
      BY <3>1
    <3>2. CASE C # {}
      <4>1. PICK l \in C : l = LastOf(C) /\ l.seq = Cardinality(C) - 1
        BY <2>2, <3>2, LastEntry
      <4>2. l # None
        BY <4>1, ComplianceAssumption
      <4>3. x.at = l.at + step /\ x.seq = l.seq + 1
        BY <2>1, <2>2, <4>1, <4>2 DEF Entry
      <4>4. l.at \in Nat /\ l.seq \in Nat
        BY DEF EntryRow
      <4>5. ASSUME NEW y \in C PROVE y.seq < x.seq /\ y.at < x.at
        <5>1. y.seq \in Nat /\ y.at \in Nat /\ y.seq < Cardinality(C) /\ Cardinality(C) \in Nat
          BY <2>2, FS_CardinalityType DEF IsChain, EntryRow
        <5>2. y.seq = l.seq => y = l
          BY <2>2 DEF IsChain
        <5>3. y.seq < l.seq => y.at < l.at
          BY <2>2 DEF IsTimed
        <5> QED BY <2>3, <4>1, <4>3, <4>4, <5>1, <5>2, <5>3
      <4> QED BY <4>5
    <3> QED BY <3>1, <3>2
  <2>5. \A y \in C : y.seq \in Nat
    BY DEF EntryRow
  <2>6. x.seq \in Nat
    BY DEF EntryRow
  <2>7. IsTimed(C \cup {x})
    BY <2>2, <2>4, <2>5, <2>6 DEF IsTimed
  <2> QED BY <2>1, <2>2, <2>7 DEF PageInv, IsTimed
<1> QED BY <1>1, <1>2, <1>3, OnlyAppends

\* A page begins where the one before it ended.
LEMMA ReadsWhereItStopped ==
    ASSUME Inv, PageInv, page.more, NEW n \in Nat, NEW a \in Nat, NEW c, NEW k,
           ReadsOn(n, a, c, k)
    PROVE  a = Len(page.seen)
<1>1. PICK C \in SUBSET EntryRow : C = Of(page.escrow) /\ IsChain(C) /\ IsTimed(C)
  BY DEF Inv, TypeOK, Of, PageInv
<1>2. Cardinality(C) \in Nat /\ a <= Cardinality(C)
  BY <1>1, FS_CardinalityType DEF IsChain, ReadsOn
<1>3. PICK r \in [escrow : Escrows \cup {None}, cursor : Nat, seen : Seq(Nat),
                  more : BOOLEAN] : r = page
  BY DEF Inv, TypeOK
<1>4. \A x \in C : x.at > r.cursor <=> x.seq >= a
  BY <1>1, <1>3 DEF ReadsOn
<1>5. \A x \in C : x.seq \in Nat /\ x.at \in Nat /\ x.seq < Cardinality(C) /\ x.at >= 1
  BY <1>1 DEF EntryRow, IsChain
<1>6. CASE r.seen = <<>> /\ r.cursor = 0
  <2>1. ASSUME a > 0 PROVE FALSE
    <3>1. 0 \in 0..Cardinality(C) - 1
      BY <1>2, <2>1
    <3>2. PICK x \in C : x.seq = 0
      BY <1>1, <3>1 DEF IsChain
    <3> QED BY <1>4, <1>5, <1>6, <2>1, <3>2
  <2> QED BY <1>3, <1>6, <2>1
<1>7. ASSUME NEW x \in C, x.seq = Len(r.seen) - 1, x.at = r.cursor
      PROVE  a = Len(r.seen)
  <2>1. ~(x.seq >= a) /\ Len(r.seen) \in Nat
    BY <1>4, <1>5, <1>7
  <2>2. ASSUME a > x.seq + 1 PROVE FALSE
    <3>1. x.seq + 1 \in 0..Cardinality(C) - 1
      BY <1>2, <1>5, <2>2
    <3>2. PICK y \in C : y.seq = x.seq + 1
      BY <1>1, <3>1 DEF IsChain
    <3>3. x.at < y.at
      BY <1>1, <1>5, <3>2 DEF IsTimed
    <3> QED BY <1>4, <1>5, <1>7, <2>2, <3>2, <3>3
  <2> QED BY <1>5, <1>7, <2>1, <2>2
<1> QED BY <1>1, <1>3, <1>6, <1>7 DEF PageInv

LEMMA StepPage == ASSUME 0 \notin ClockSteps PROVE Inv /\ PageInv /\ [Next]_vars => PageInv'
<1>1. ASSUME Inv, PageInv, UNCHANGED vars PROVE PageInv'
  BY <1>1 DEF vars, PageInv, IsTimed, Of, PagesMissNothing
<1>2. ASSUME Inv, PageInv, Next PROVE PageInv'
  <2>1. /\ \A e \in Escrows : IsTimed(Of(e))'
        /\ \A e \in Escrows : Of(e) \subseteq Of(e)'
    BY <1>2, TimesKept
  <2>2. CASE UNCHANGED page
    <3>1. page.more => page.escrow \in Escrows
      BY <1>2 DEF Inv
    <3>2. PICK e : e = page.escrow
      OBVIOUS
    <3>3. page.more => Of(e) \subseteq Of(e)'
      BY <2>1, <3>1, <3>2
    <3>4. page.more =>
             \/ page.seen = <<>> /\ page.cursor = 0
             \/ \E x \in Of(e)' : x.seq = Len(page.seen) - 1 /\ x.at = page.cursor
      BY <1>2, <3>2, <3>3 DEF PageInv
    <3> QED BY <1>2, <2>1, <2>2, <3>2, <3>4 DEF PageInv, PagesMissNothing, Of
  <2>3. CASE \E e \in Escrows : OpenLog(e)
    BY <2>1, <2>3 DEF OpenLog, PageInv, PagesMissNothing
  <2>4. CASE ReadPage
    <3>1. PICK n, a, c, k \in Nat : ReadsOn(n, a, c, k)
      BY <1>2, <2>4, PageRead
    <3>2. page.more
      BY <2>4 DEF ReadPage
    <3>3. PICK s \in Seq(Nat) : s = page.seen
      BY <1>2 DEF Inv, TypeOK
    <3>4. a = Len(s) /\ Len(s) \in Nat
      BY <1>2, <3>1, <3>2, <3>3, ReadsWhereItStopped
    <3>5. PICK seqs : seqs = [i \in 1..k |-> a + i - 1]
      OBVIOUS
    <3>6. seqs \in Seq(Nat) /\ Len(seqs) = k /\ \A i \in 1..k : seqs[i] = a + i - 1
      <4>1. \A i \in 1..k : a + i - 1 \in Nat
        BY <3>4
      <4> QED BY <3>5, <4>1
    <3>7. PICK t : t = s \o seqs
      OBVIOUS
    <3>8. /\ t \in Seq(Nat) /\ Len(t) = a + k
          /\ \A i \in 1..a + k : t[i] = IF i <= a THEN s[i] ELSE seqs[i - a]
      <4>0. PICK z \in Seq(Nat) : z = seqs
        BY <3>6
      <4>1. t \in Seq(Nat) /\ Len(t) = Len(s) + Len(seqs)
        BY <3>7, <4>0
      <4>2. \A i \in 1..Len(s) + Len(seqs) :
               t[i] = IF i <= Len(s) THEN s[i] ELSE seqs[i - Len(s)]
        BY <3>6, <3>7
      <4> QED BY ONLY <3>4, <3>6, <4>1, <4>2
    <3>9. \A i \in 1..a : s[i] = i - 1
      BY <1>2, <3>3, <3>4 DEF PageInv, PagesMissNothing
    <3>10. ASSUME NEW i \in 1..a + k PROVE t[i] = i - 1
      <4>1. CASE i <= a
        <5>1. i \in 1..a
          BY <4>1
        <5> QED BY ONLY <3>8, <3>9, <3>10, <4>1, <5>1
      <4>2. CASE i > a
        <5>1. i - a \in 1..k
          BY <3>4, <4>2
        <5>2. t[i] = a + (i - a) - 1
          BY <3>6, <3>8, <4>2, <5>1
        <5> QED BY <5>2
      <4> QED BY <4>1, <4>2
    <3>11. DOMAIN t = 1..a + k
      BY <3>8
    <3>12. /\ page'.seen = t /\ page'.escrow = page.escrow /\ page'.cursor = c
           /\ page'.more = (n > PageLimit)
      BY <3>1, <3>3, <3>5, <3>7 DEF ReadsOn
    <3>13. PagesMissNothing'
      BY <3>10, <3>11, <3>12 DEF PagesMissNothing
    <3>14. PICK e : e = page.escrow
      OBVIOUS
    <3>15. n > PageLimit => \E x \in Of(e)' : x.seq = Len(t) - 1 /\ x.at = c
      <4>1. entries' = entries
        BY <2>4 DEF ReadPage
      <4>2. Of(e)' = Of(e)
        BY <4>1 DEF Of
      <4>3. n > PageLimit => \E x \in Of(e) : x.seq = a + k - 1 /\ x.at = c
        BY <3>1, <3>14 DEF ReadsOn
      <4> QED BY <3>8, <4>2, <4>3
    <3> QED BY <2>1, <3>12, <3>13, <3>14, <3>15 DEF PageInv, Of
  <2>5. ASSUME NEW p \in Workers, Begin(p) \/ FailJob(p) \/ HandlerRaises(p) \/ Die(p)
        PROVE  UNCHANGED page
    BY <2>5 DEF Begin, Publish, CreateJob, FailJob, HandlerRaises, Die
  <2>6. ASSUME NEW p \in Workers, Progress(p) PROVE UNCHANGED page
    BY <2>6 DEF Progress, DeployAgreed, AcquireLock, GetLatest, AppendEntry, GenerateRecords,
       Notify, CollectFirst, CollectSecond, FinishJob
  <2> QED BY <1>2, <2>2, <2>3, <2>4, <2>5, <2>6 DEF Next, Auditor
<1> QED BY <1>1, <1>2

\* An auditor who follows the cursors sees every entry once and in order, for any limit
\* of a page, if the clock moves between two appends.
THEOREM PagesAreComplete ==
    ASSUME 0 \notin ClockSteps
    PROVE  Spec => []PagesMissNothing
<1>1. PageInv => PagesMissNothing
  BY DEF PageInv
<1>2. Inv /\ PageInv /\ [Next]_vars => PageInv'
  BY StepPage
<1> QED BY <1>1, <1>2, InitPage, ComplianceInvariant, PTL DEF Spec
=============================================================================
