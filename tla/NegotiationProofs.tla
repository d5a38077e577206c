-------------------------- MODULE NegotiationProofs --------------------------
(***************************************************************************)
(* The properties of a negotiation session, for any number of requests and *)
(* offers: MaxOffers, which keeps the model finite, may be any number.     *)
(*                                                                         *)
(* The invariant has two parts.  Good says what a request may rely on  *)
(* although its copy is stale; InStep says how copy and row are related *)
(* while requests do not overlap.                                          *)
(***************************************************************************)
EXTENDS Negotiation, TLAPS

USE BoundsAssumption, ChoicesAssumption

----------------------------------------------------------------------------
(* The inductive invariant. *)

Open == Active \cup {"HUMAN_REVIEW"}

Rounds == {offers[i].round : i \in DOMAIN offers}
Sides == {offers[i].role : i \in DOMAIN offers}
LastRole == IF offers = <<>> THEN "none" ELSE offers[Len(offers)].role

\* A session that may still take turns is short of a breach, and there is no
\* stall without a round.
GoodRow ==
    /\ row.stall <= row.round
    /\ row.status \in Open => row.failures < MaxSchemaFailures

\* What a request r may rely on whatever other requests have committed since it
\* loaded its copy.
Good(r) ==
    LET s == r.session
    IN  /\ s.row.stall <= s.row.round
        /\ r.pc \in {"think", "override", "conclude"} => s.row.status \in Active
        /\ r.pc \in {"think", "override"} => s.row.failures < MaxSchemaFailures
        /\ r.pc = "conclude" /\ r.closing # "breach" => s.row.failures < MaxSchemaFailures
        /\ r.pc = "commit" =>
             /\ s.row.status \in Open => s.row.failures < MaxSchemaFailures
             /\ s.row.status \in DOMAIN EventOf => EventOf[s.row.status] \in announced
        /\ r.pc = "terminate" => s.row.status = "FAILED"
        /\ r.pc \in {"think", "override", "terminate"} => s.row.round \in Rounds \cup {0}
        /\ r.pc \in {"conclude", "commit"} =>
             /\ s.row.round \in 1..MaxRounds /\ s.row.round - 1 \in Rounds \cup {0}
             /\ s.last \in Roles

\* The state of the protocol, by the sides that have spoken; a stall takes a
\* second offer of one side.
Phase(r, sides) ==
    /\ r.status = "BUYER_ANCHOR" => sides = {}
    /\ r.status = "SELLER_RESPONSE" => sides = {"BUYER"}
    /\ r.status \in {"ROUND_LOOP", "HUMAN_REVIEW"} => sides = Roles
    /\ r.status # "ACTIVE"
    /\ r.stall > 0 => sides = Roles

\* What the copy of a request r says while no other has been in flight.
InStep(r) ==
    LET s == r.session
    IN  /\ r.pc = "think" =>
             /\ s.row = row /\ s.count = Len(offers)
             /\ s.sides = Sides /\ s.last = LastRole
        /\ r.pc \in {"conclude", "commit"} =>
             /\ row.status \in Active
             /\ s.row.round = row.round + 1
             /\ s.last # LastRole
             /\ Phase(s.row, Sides \cup {s.last})
        /\ r.pc = "conclude" => s.sides = Sides \cup {s.last}
        /\ r.pc = "override" =>
             /\ row.status \in Open
             /\ s.row.round = row.round /\ s.count = Len(offers)
             /\ s.sides = Sides /\ Phase(s.row, Sides)
        /\ r.pc = "terminate" =>
             /\ row.status \in Open
             /\ s.row.round = row.round
             /\ Phase(s.row, Sides)

Alone ==
    /\ \A p, q \in Requests : req[p] # Idle /\ req[q] # Idle => p = q
    /\ OffersAreInOrder
    /\ Phase(row, Sides)
    /\ \A p \in Requests : InStep(req[p])

Inv ==
    /\ TypeOK
    /\ GoodRow
    /\ RoundsAreUsed
    /\ OutcomeIsAnnounced
    /\ \A p \in Requests : Good(req[p])
    /\ ~overlapped => Alone

----------------------------------------------------------------------------
(* A request's record with two of its fields replaced. *)

LEMMA SetPcAndSession ==
  ASSUME TypeOK, NEW p \in Requests, NEW d, NEW e,
         req' = [req EXCEPT ![p].pc = d, ![p].session = e]
  PROVE  req' = [req EXCEPT ![p] = [pc |-> d, session |-> e, closing |-> req[p].closing]]
<1>1. PICK x : x = req[p]
  OBVIOUS
<1>2. PICK a, b, c : x = [pc |-> a, session |-> b, closing |-> c]
  BY <1>1 DEF TypeOK, RequestState
<1>3. PICK y : y = [x EXCEPT !.pc = d]
  OBVIOUS
<1>4. y = [pc |-> d, session |-> b, closing |-> c]
  BY ONLY <1>2, <1>3
<1>5. [y EXCEPT !.session = e] = [pc |-> d, session |-> e, closing |-> c]
  BY ONLY <1>4
<1>6. [x EXCEPT !.pc = d, !.session = e] = [pc |-> d, session |-> e, closing |-> req[p].closing]
  BY ONLY <1>1, <1>2, <1>3, <1>5
<1>7. [req EXCEPT ![p].pc = d, ![p].session = e]
        = [req EXCEPT ![p] = [x EXCEPT !.pc = d, !.session = e]]
  BY <1>1
<1> QED BY <1>6, <1>7

LEMMA SetStatusAndPc ==
  ASSUME TypeOK, NEW p \in Requests, NEW d, NEW e,
         req' = [req EXCEPT ![p].session.row.status = e, ![p].pc = d]
  PROVE  req' = [req EXCEPT ![p] = [pc |-> d, session |-> [req[p].session EXCEPT !.row.status = e],
                                    closing |-> req[p].closing]]
<1>1. PICK x : x = req[p]
  OBVIOUS
<1>2. PICK a, b, c : x = [pc |-> a, session |-> b, closing |-> c]
  BY <1>1 DEF TypeOK, RequestState
<1>3. PICK z : z = [b EXCEPT !.row.status = e]
  OBVIOUS
<1>4. PICK y : y = [x EXCEPT !.session = z]
  OBVIOUS
<1>5. y = [pc |-> a, session |-> z, closing |-> c]
  BY ONLY <1>2, <1>4
<1>6. [y EXCEPT !.pc = d] = [pc |-> d, session |-> z, closing |-> c]
  BY ONLY <1>5
<1>7. x.session = b /\ x.closing = c
  BY ONLY <1>2
<1>8. [x EXCEPT !.session.row.status = e] = y
  BY ONLY <1>3, <1>4, <1>7
<1>9. [x EXCEPT !.session.row.status = e, !.pc = d] = [y EXCEPT !.pc = d]
  BY ONLY <1>8
<1>10. [req EXCEPT ![p].session.row.status = e, ![p].pc = d]
        = [req EXCEPT ![p] = [x EXCEPT !.session.row.status = e, !.pc = d]]
  BY <1>1
<1> QED BY <1>1, <1>3, <1>6, <1>7, <1>9, <1>10

----------------------------------------------------------------------------
(* The operators of the aggregate and of the engine. *)

LEMMA OfferTypes ==
  ASSUME TypeOK
  PROVE  /\ Len(offers) \in Nat /\ DOMAIN offers = 1..Len(offers)
         /\ offers = <<>> <=> Len(offers) = 0
         /\ \A i \in DOMAIN offers :
              /\ offers[i] \in Offer /\ offers[i].role \in Roles
              /\ offers[i].round \in 1..MaxRounds
         /\ Sides \subseteq Roles /\ Rounds \subseteq 1..MaxRounds
<1> USE DEF TypeOK
<1>1. Len(offers) \in Nat /\ DOMAIN offers = 1..Len(offers) /\ (offers = <<>> <=> Len(offers) = 0)
  OBVIOUS
<1>2. \A i \in DOMAIN offers : offers[i] \in Offer
  BY <1>1
<1>3. \A i \in DOMAIN offers : offers[i].role \in Roles /\ offers[i].round \in 1..MaxRounds
  BY <1>2 DEF Offer
<1> QED BY <1>1, <1>2, <1>3 DEF Sides, Rounds

\* A loaded session is the row and a summary of its offers.
LEMMA LoadedSession ==
  ASSUME TypeOK, NEW s \in Loaded
  PROVE  /\ s \in Session /\ s.row = row
         /\ s.count = Len(offers) /\ s.sides = Sides
<1> DEFINE Last == {i \in DOMAIN offers : \A j \in DOMAIN offers : offers[j].round <= offers[i].round}
<1>1. PICK l \in IF offers = <<>> THEN {"none"} ELSE {offers[i].role : i \in Last} :
         s = [row |-> row, count |-> Len(offers), last |-> l, sides |-> Sides]
  BY DEF Loaded, Sides
<1>2. l \in Roles \cup {"none"}
  BY <1>1, OfferTypes
<1> QED BY <1>1, <1>2, OfferTypes DEF Session, TypeOK

\* Offers that are numbered from 1 have one last offer.
LEMMA LoadedLast ==
  ASSUME TypeOK, \A i \in DOMAIN offers : offers[i].round = i, NEW s \in Loaded
  PROVE  s.last = LastRole
<1> DEFINE Last == {i \in DOMAIN offers : \A j \in DOMAIN offers : offers[j].round <= offers[i].round}
<1>1. s.last \in IF offers = <<>> THEN {"none"} ELSE {offers[i].role : i \in Last}
  BY DEF Loaded
<1>2. ASSUME offers # <<>> PROVE Last = {Len(offers)}
  <2>1. Last = {i \in DOMAIN offers : \A j \in DOMAIN offers : j <= i}
    OBVIOUS
  <2>2. \A i : i \in Last <=> i = Len(offers)
    <3>1. PICK n \in Nat : n = Len(offers) /\ DOMAIN offers = 1..n /\ n # 0
      BY <1>2, OfferTypes
    <3>2. \A i : (i \in 1..n /\ \A j \in 1..n : j <= i) <=> i = n
      <4>1. n \in 1..n
        BY <3>1
      <4> QED BY <4>1
    <3>3. \A i : i \in Last <=> i \in 1..n /\ \A j \in 1..n : j <= i
      BY <2>1, <3>1
    <3> QED BY <3>1, <3>2, <3>3, Zenon
  <2> HIDE DEF Last
  <2> QED BY <2>2
<1> HIDE DEF Last
<1>3. CASE offers = <<>>
  BY <1>1, <1>3 DEF LastRole
<1>4. CASE offers # <<>>
  <2>1. s.last \in {offers[i].role : i \in {Len(offers)}}
    BY <1>1, <1>2, <1>4
  <2> QED BY <1>4, <2>1 DEF LastRole
<1> QED BY <1>3, <1>4

\* s with other counters.
Counted(s, stall, failures) ==
    [row |-> [status |-> s.row.status, round |-> s.row.round,
              stall |-> stall, failures |-> failures],
     count |-> s.count, last |-> s.last, sides |-> s.sides]

LEMMA CountedSession ==
  ASSUME NEW s \in Session
  PROVE  /\ s = Counted(s, s.row.stall, s.row.failures)
         /\ s.row.stall \in 0..MaxRounds /\ s.row.failures \in 0..MaxSchemaFailures
BY DEF Session, Row, Counted

\* What a turn does to the session: it advances the counters and nothing else, by
\* one at most and not beyond what MaxSchemaFailures allows; a side without an offer
\* of its own cannot stall.
Advanced(s, t) ==
    LET stall == t.session.row.stall  failures == t.session.row.failures
    IN  /\ t.session = Counted(s, stall, failures)
        /\ stall \in Nat /\ failures \in 0..MaxSchemaFailures
        /\ t.closing \in Closings \cup {"none"}
        /\ t.closing # "breach" => failures < MaxSchemaFailures
        /\ stall <= s.row.stall + 1
        /\ stall > 0 => s.row.stall > 0 \/ NextProposer(s) \in s.sides

LEMMA CounterAdvances ==
  ASSUME NEW s \in Session, s.row.failures < MaxSchemaFailures,
         NEW veto \in BOOLEAN, NEW t \in CounterOffers(s, veto)
  PROVE  Advanced(s, t)
<1> DEFINE f == IF veto THEN s.row.failures + 1 ELSE s.row.failures
           c == IF veto THEN RecordSchemaFailure(s) ELSE s
<1>0. s = Counted(s, s.row.stall, s.row.failures) /\ s.row.stall \in Nat
      /\ s.row.failures \in Nat
  BY CountedSession
<1>1. f \in 0..MaxSchemaFailures /\ (f < MaxSchemaFailures \/ veto)
  BY <1>0
<1>2. c = Counted(s, s.row.stall, f)
  <2>1. CASE veto
    BY <1>0, <2>1 DEF RecordSchemaFailure, Counted
  <2>2. CASE ~veto
    BY <1>0, <2>2
  <2> QED BY <2>1, <2>2
<1> HIDE DEF c, f
<1>3. NextProposer(c) = NextProposer(s) /\ c.sides = s.sides /\ c.row.failures = f
  BY <1>2 DEF NextProposer, Counted
<1>4. c = IF veto THEN RecordSchemaFailure(s) ELSE s
  BY DEF c
<1>5. CASE veto /\ f >= MaxSchemaFailures
  <2>1. t = [session |-> c, closing |-> "breach"]
    BY <1>3, <1>4, <1>5 DEF CounterOffers
  <2>2. t.session = c /\ t.closing = "breach" /\ c.row.stall = s.row.stall
    BY <2>1, <1>2 DEF Counted
  <2> QED BY <2>2, <1>0, <1>1, <1>2, <1>3 DEF Closings, Advanced
<1>6. CASE ~(veto /\ f >= MaxSchemaFailures)
  <2>1. /\ t.session \in TrackConcession(c)
        /\ t.closing \in {"none", "stall", "converged"}
    BY <1>3, <1>4, <1>6 DEF CounterOffers
  <2>2. f < MaxSchemaFailures
    BY <1>1, <1>6
  <2>3. \/ t.session = ResetStallCounter(c)
        \/ t.session = RecordNoConcession(c) /\ NextProposer(s) \in s.sides
    BY <2>1, <1>3 DEF TrackConcession
  <2>4. CASE t.session = ResetStallCounter(c)
    <3>1. t.session = Counted(s, 0, f)
      BY <2>4, <1>2 DEF ResetStallCounter, Counted
    <3>2. t.session.row.stall = 0 /\ t.session.row.failures = f
      BY <3>1 DEF Counted
    <3> QED BY <3>1, <3>2, <2>1, <2>2, <1>0, <1>1 DEF Closings, Advanced
  <2>5. CASE t.session = RecordNoConcession(c) /\ NextProposer(s) \in s.sides
    <3>1. t.session = Counted(s, s.row.stall + 1, f)
      BY <2>5, <1>2 DEF RecordNoConcession, Counted
    <3>2. t.session.row.stall = s.row.stall + 1 /\ t.session.row.failures = f
      BY <3>1 DEF Counted
    <3> QED BY <3>1, <3>2, <2>1, <2>2, <2>5, <1>0, <1>1 DEF Closings, Advanced
  <2> QED BY <2>3, <2>4, <2>5
<1> QED BY <1>5, <1>6

LEMMA TurnAdvances ==
  ASSUME NEW s \in Session, s.row.failures < MaxSchemaFailures,
         NEW expired \in BOOLEAN, NEW t \in Turns(s, expired)
  PROVE  Advanced(s, t)
<1>1. CASE t.session = s /\ t.closing \in {"timeout", "accept", "reject"}
  BY <1>1, CountedSession DEF Closings, Advanced
<1>2. CASE t \in CounterOffers(s, TRUE) \cup CounterOffers(s, FALSE)
  BY <1>2, CounterAdvances
<1>3. CASE expired
  <2>1. t = [session |-> s, closing |-> "timeout"]
    BY <1>3 DEF Turns
  <2> QED BY <1>1, <2>1
<1>4. CASE ~expired /\ t \in {[session |-> s, closing |-> c] : c \in {"accept", "reject"}}
  BY <1>1, <1>4
<1> QED BY <1>2, <1>3, <1>4 DEF Turns

\* Adding an offer to a session that can take one.
LEMMA AddOfferSession ==
  ASSUME NEW s, NEW stall \in Nat, NEW failures \in 0..MaxSchemaFailures, NEW role \in Roles,
         NEW x \in Session, s = Counted(x, stall, failures),
         x.row.status \in Active, stall <= x.row.round + 1, CanAddOffer(s)
  PROVE  LET r == AddOffer(s, role)
         IN  /\ r \in Session
             /\ r.row = [status |-> Transition(x.row.status, role, x.count + 1),
                         round |-> x.row.round + 1, stall |-> stall, failures |-> failures]
             /\ r.row.status \in Active /\ x.row.round < MaxRounds
             /\ r.count = x.count + 1 /\ r.last = role /\ r.sides = x.sides \cup {role}
<1> DEFINE r == AddOffer(s, role)
<1>1. x.row.round \in 0..MaxRounds /\ x.count \in Nat /\ x.sides \subseteq Roles
  BY DEF Session, Row
<1>2. x.row.round < MaxRounds
  BY DEF CanAddOffer, Counted
<1>3. /\ r.row = [status |-> Transition(x.row.status, role, x.count + 1),
                  round |-> x.row.round + 1, stall |-> stall, failures |-> failures]
      /\ r = [row |-> r.row, count |-> x.count + 1, last |-> role, sides |-> x.sides \cup {role}]
  BY DEF AddOffer, Counted
<1>4. Transition(x.row.status, role, x.count + 1) \in Active
  BY DEF Transition, Active
<1>5. r.row \in Row
  BY <1>1, <1>2, <1>3, <1>4 DEF Row
<1>6. r \in Session
  BY <1>1, <1>3, <1>5 DEF Session
<1> HIDE DEF r
<1>7. /\ r.row.status \in Active
      /\ r.count = x.count + 1 /\ r.last = role /\ r.sides = x.sides \cup {role}
  BY <1>3, <1>4
<1> QED BY <1>2, <1>3, <1>6, <1>7 DEF r

----------------------------------------------------------------------------
(* Steps. *)

LEMMA InitInv == Init => Inv
<1> SUFFICES ASSUME Init PROVE Inv
  OBVIOUS
<1> USE DEF Init
<1>1. NoSession \in Session /\ NoRow \in Row
  BY DEF NoSession, NoRow, Session, Row
<1>2. Idle \in RequestState
  BY <1>1 DEF Idle, RequestState
<1>3. TypeOK
  <2>1. offers \in Seq(Offer)
    OBVIOUS
  <2> QED BY <1>1, <1>2, <2>1 DEF TypeOK
<1>4. GoodRow /\ OutcomeIsAnnounced
  BY DEF GoodRow, OutcomeIsAnnounced, NoRow, Open, Active, EventOf
<1>5. Rounds = {} /\ Sides = {} /\ Len(offers) = 0
  BY DEF Rounds, Sides
<1>6. RoundsAreUsed
  BY <1>5 DEF RoundsAreUsed, Rounds, NoRow
<1>7. OffersAreInOrder
  BY <1>5 DEF OffersAreInOrder, NoRow
<1>8. Phase(row, Sides)
  BY <1>5 DEF Phase, NoRow
<1>9. Good(Idle) /\ InStep(Idle)
  BY DEF Good, InStep, Idle, NoSession, NoRow
<1> QED BY <1>3, <1>4, <1>6, <1>7, <1>8, <1>9 DEF Inv, Alone

\* The case common to all steps of a request p: nobody else's request changes.
LEMMA StepOf ==
  ASSUME Inv, NEW p \in Requests, NEW r \in RequestState, req' = [req EXCEPT ![p] = r],
         Rounds \subseteq Rounds', announced \subseteq announced',
         TypeOK', GoodRow', RoundsAreUsed', OutcomeIsAnnounced', Good(r)',
         ~overlapped' =>
            /\ ~overlapped
            /\ req[p] # Idle \/ \A q \in Requests : req[q] = Idle
            /\ OffersAreInOrder' /\ Phase(row, Sides)' /\ InStep(r)'
  PROVE  Inv'
<1>1. \A q \in Requests : req'[q] = IF q = p THEN r ELSE req[q]
  BY DEF Inv, TypeOK
<1>2. ASSUME NEW q \in Requests PROVE Good(req[q])'
  <2>1. CASE q = p
    BY <1>1, <2>1 DEF Good
  <2>2. CASE q # p
    <3>1. Good(req[q]) /\ req'[q] = req[q]
      BY <1>1, <2>2 DEF Inv
    <3> QED BY <3>1 DEF Good
  <2> QED BY <2>1, <2>2
<1>3. ASSUME ~overlapped' PROVE Alone'
  <2>1. Alone
    BY <1>3 DEF Inv
  <2>2. \A q \in Requests \ {p} : req[q] = Idle
    BY <1>3, <2>1 DEF Alone
  <2>3. \A q \in Requests \ {p} : req'[q] = Idle
    BY <1>1, <2>2
  <2>4. ASSUME NEW q \in Requests PROVE InStep(req[q])'
    <3>1. CASE q = p
      BY <1>1, <1>3, <3>1 DEF InStep
    <3>2. CASE q # p
      <4>1. req'[q].pc = "idle"
        BY <2>3, <3>2 DEF Idle
      <4> QED BY <4>1 DEF InStep
    <3> QED BY <3>1, <3>2
  <2> QED BY <1>3, <2>3, <2>4 DEF Alone
<1> QED BY <1>2, <1>3 DEF Inv

\* Rounds only grow, and what a row or a copy knows of them stays true.
LEMMA OffersKept ==
  ASSUME UNCHANGED offers
  PROVE  Rounds' = Rounds /\ Sides' = Sides /\ LastRole' = LastRole
BY DEF Rounds, Sides, LastRole

\* A step of p that writes neither the row nor an offer.
LEMMA QuietStep ==
  ASSUME Inv, NEW p \in Requests, NEW r \in RequestState, req' = [req EXCEPT ![p] = r],
         UNCHANGED <<row, offers>>, announced \subseteq announced',
         announced' \subseteq {"agreed", "failed", "expired", "escalated"},
         ttlPassed' \in BOOLEAN, overlapped' \in BOOLEAN,
         Good(r)',
         ~overlapped' =>
            /\ ~overlapped
            /\ req[p] # Idle \/ \A q \in Requests : req[q] = Idle
            /\ InStep(r)
  PROVE  Inv'
<1>1. TypeOK'
  BY DEF Inv, TypeOK
<1>2. GoodRow' /\ RoundsAreUsed' /\ OutcomeIsAnnounced'
  BY DEF Inv, GoodRow, RoundsAreUsed, OutcomeIsAnnounced
<1>3. ASSUME ~overlapped' PROVE OffersAreInOrder' /\ Phase(row, Sides)' /\ InStep(r)'
  <2>1. Alone
    BY <1>3 DEF Inv
  <2>2. OffersAreInOrder' /\ Phase(row, Sides)'
    BY <1>3, <2>1, OffersKept DEF Alone, OffersAreInOrder, Phase
  <2> QED BY <1>3, <2>2, OffersKept DEF InStep
<1> QED BY <1>1, <1>2, <1>3, OffersKept, StepOf

\* A request that ends without a write.
LEMMA DoneStep ==
  ASSUME Inv, NEW p \in Requests, Done(p), req[p] # Idle, UNCHANGED <<row, offers>>,
         announced \subseteq announced',
         announced' \subseteq {"agreed", "failed", "expired", "escalated"},
         UNCHANGED <<ttlPassed, overlapped>>
  PROVE  Inv'
<1>1. Idle \in RequestState
  BY DEF Idle, RequestState, NoSession, NoRow, Session, Row
<1>2. Good(Idle)' /\ InStep(Idle)
  BY DEF Good, InStep, Idle, NoSession, NoRow
<1>3. PICK r \in RequestState : r = Idle
  BY <1>1
<1>4. Good(r)' /\ InStep(r)
  BY <1>2, <1>3 DEF Good, InStep
<1> QED BY <1>3, <1>4, QuietStep DEF Done, Inv, TypeOK

\* A request that begins with a copy s.
LEMMA BeginStep ==
  ASSUME Inv, NEW p \in Requests, NEW pc, NEW s \in Session, Begin(p, pc, s),
         [pc |-> pc, session |-> s, closing |-> "none"] \in RequestState,
         Good([pc |-> pc, session |-> s, closing |-> "none"]),
         ~overlapped => InStep([pc |-> pc, session |-> s, closing |-> "none"])
  PROVE  Inv'
<1>1. PICK r \in RequestState : r = [pc |-> pc, session |-> s, closing |-> "none"]
  OBVIOUS
<1>2. /\ req' = [req EXCEPT ![p] = r] /\ UNCHANGED <<row, offers, ttlPassed, announced>>
      /\ overlapped' = (overlapped \/ \E q \in Requests : req[q] # Idle)
  BY <1>1 DEF Begin
<1>3. Good(r)'
  BY <1>1, <1>2, OffersKept DEF Good
<1>4. overlapped \in BOOLEAN /\ announced \subseteq {"agreed", "failed", "expired", "escalated"}
      /\ ttlPassed \in BOOLEAN
  BY DEF Inv, TypeOK
<1> QED BY <1>1, <1>2, <1>3, <1>4, QuietStep

----------------------------------------------------------------------------
(* One lemma per kind of step. *)

LEMMA StartCreateInv ==
  ASSUME Inv, NEW p \in Requests, StartCreate(p)
  PROVE  Inv'
<1>1. Begin(p, "create", NoSession) /\ NoSession \in Session
  BY DEF StartCreate, PostSession, HandleRFQConfirmed, NoSession, NoRow, Session, Row
<1> DEFINE r == [pc |-> "create", session |-> NoSession, closing |-> "none"]
<1>2. r \in RequestState
  BY <1>1 DEF RequestState
<1>3. Good(r) /\ InStep(r)
  BY DEF Good, InStep, NoSession, NoRow
<1> QED BY <1>1, <1>2, <1>3, BeginStep

\* A loaded session that may take turns is what a copy should be.
LEMMA LoadedCopy ==
  ASSUME Inv, NEW s \in Loaded, s.row.status \in Active
  PROVE  LET r == [pc |-> "think", session |-> s, closing |-> "none"]
         IN  r \in RequestState /\ Good(r) /\ (~overlapped => InStep(r))
<1> DEFINE r == [pc |-> "think", session |-> s, closing |-> "none"]
<1>1. s \in Session /\ s.row = row /\ s.count = Len(offers) /\ s.sides = Sides
  BY LoadedSession DEF Inv
<1>2. r \in RequestState
  BY <1>1 DEF RequestState
<1>3. row.round \in Rounds \cup {0}
  BY DEF Inv, RoundsAreUsed, Rounds
<1>4. Good(r)
  BY <1>1, <1>3 DEF Good, Inv, GoodRow, Open
<1>5. ASSUME ~overlapped PROVE InStep(r)
  <2>1. s.last = LastRole
    BY <1>5, LoadedLast DEF Inv, Alone, OffersAreInOrder
  <2> QED BY <1>1, <2>1 DEF InStep
<1> QED BY <1>2, <1>4, <1>5

LEMMA StartTurnInv ==
  ASSUME Inv, NEW p \in Requests, StartTurn(p)
  PROVE  Inv'
<1>1. PICK s \in Loaded : s.row.status \in Active /\ Begin(p, "think", s)
  BY DEF StartTurn
<1> QED BY <1>1, LoadedCopy, LoadedSession, BeginStep DEF Inv

LEMMA LoopTurnInv ==
  ASSUME Inv, NEW p \in Requests, LoopTurn(p)
  PROVE  Inv'
<1>1. PICK s \in Loaded :
         /\ s.row.status \in Active
         /\ req' = [req EXCEPT ![p].pc = "think", ![p].session = s]
  BY DEF LoopTurn
<1>2. req[p] = Looping /\ UNCHANGED <<row, offers, ttlPassed, announced, overlapped>>
  BY DEF LoopTurn
<1>3. PICK r \in RequestState : r = [pc |-> "think", session |-> s, closing |-> "none"]
  BY <1>1, LoadedCopy
<1>4. req' = [req EXCEPT ![p] = r]
  <2>1. req[p].closing = "none"
    BY <1>2 DEF Looping, Idle
  <2>2. req' = [req EXCEPT ![p] = [pc |-> "think", session |-> s, closing |-> req[p].closing]]
    BY <1>1, SetPcAndSession DEF Inv
  <2> QED BY <1>3, <2>1, <2>2
<1>5. Good(r) /\ (~overlapped => InStep(r))
  BY <1>1, <1>3, LoadedCopy
<1>6. Good(r)'
  BY <1>2, <1>5, OffersKept DEF Good
<1>7. req[p] # Idle
  BY <1>2 DEF Looping, Idle
<1> QED BY <1>2, <1>4, <1>5, <1>6, <1>7, QuietStep DEF Inv, TypeOK

\* Both sides have spoken twice in all.
LEMMA BothSides ==
  ASSUME TypeOK, Sides = Roles
  PROVE  Len(offers) >= 2
<1>1. PICK i \in DOMAIN offers : offers[i].role = "BUYER"
  BY DEF Sides, Roles
<1>2. PICK j \in DOMAIN offers : offers[j].role = "SELLER"
  BY DEF Sides, Roles
<1> QED BY <1>1, <1>2, OfferTypes

LEMMA StartOverrideInv ==
  ASSUME Inv, NEW p \in Requests, StartOverride(p)
  PROVE  Inv'
<1>1. PICK s \in Loaded :
         \/ s.row.status \in Active /\ Begin(p, "override", s)
         \/ s.row.status = "HUMAN_REVIEW" /\ Begin(p, "override", Resume(s))
  BY DEF StartOverride
<1>2. s \in Session /\ s.row = row /\ s.count = Len(offers) /\ s.sides = Sides
  BY LoadedSession DEF Inv
<1>3. PICK t : t = IF s.row.status \in Active THEN s ELSE Resume(s)
  OBVIOUS
<1>4. s.row.status \in Open /\ Begin(p, "override", t)
  BY <1>1, <1>3 DEF Open, Active
<1> DEFINE r == [pc |-> "override", session |-> t, closing |-> "none"]
<1>5. /\ t \in Session /\ t.row.status \in Active
      /\ t.row.round = row.round /\ t.row.stall = row.stall /\ t.row.failures = row.failures
      /\ t.count = Len(offers) /\ t.sides = Sides
  BY <1>2, <1>3, <1>4 DEF Resume, Session, Row, Open, Active
<1>6. r \in RequestState
  BY <1>5 DEF RequestState
<1>7. row.round \in Rounds \cup {0}
  BY DEF Inv, RoundsAreUsed, Rounds
<1>8. Good(r)
  BY <1>2, <1>4, <1>5, <1>7 DEF Good, Inv, GoodRow
<1>9. ASSUME ~overlapped PROVE InStep(r)
  <2>1. Phase(row, Sides)
    BY <1>9 DEF Inv, Alone
  <2>2. Phase(t.row, Sides)
    <3>1. CASE row.status \in Active
      BY <1>2, <1>3, <2>1, <3>1
    <3>2. CASE row.status = "HUMAN_REVIEW"
      <4>1. Sides = Roles /\ Len(offers) >= 2
        BY <2>1, <3>2, BothSides DEF Phase, Inv
      <4>2. t.row.status = "ROUND_LOOP"
        BY <1>2, <1>3, <3>2, <4>1 DEF Resume, Active, Session, Row
      <4> QED BY <4>1, <4>2 DEF Phase
    <3> QED BY <1>2, <1>4, <3>1, <3>2 DEF Open
  <2> QED BY <1>2, <1>4, <1>5, <2>2 DEF InStep
<1> QED BY <1>4, <1>5, <1>6, <1>8, <1>9, BeginStep

LEMMA StartTerminateInv ==
  ASSUME Inv, NEW p \in Requests, StartTerminate(p)
  PROVE  Inv'
<1>1. PICK s \in Loaded :
         /\ s.row.status \in Open
         /\ Begin(p, "terminate", [s EXCEPT !.row.status = "FAILED"])
  BY DEF StartTerminate, Open
<1>2. s \in Session /\ s.row = row /\ s.count = Len(offers) /\ s.sides = Sides
  BY LoadedSession DEF Inv
<1>3. PICK t : t = [s EXCEPT !.row.status = "FAILED"]
  OBVIOUS
<1>4. t \in Session /\ t.row = [row EXCEPT !.status = "FAILED"]
  BY <1>2, <1>3 DEF Session, Row, Terminal
<1> DEFINE r == [pc |-> "terminate", session |-> t, closing |-> "none"]
<1>5. /\ t.row.status = "FAILED" /\ t.row.round = row.round /\ t.row.stall = row.stall
  BY <1>4 DEF Inv, TypeOK, Row
<1>6. r \in RequestState
  BY <1>4 DEF RequestState
<1>7. row.round \in Rounds \cup {0}
  BY DEF Inv, RoundsAreUsed, Rounds
<1>8. Good(r)
  BY <1>5, <1>7 DEF Good, Inv, GoodRow
<1>9. ASSUME ~overlapped PROVE InStep(r)
  BY <1>1, <1>2, <1>5, <1>9 DEF InStep, Phase, Inv, Alone
<1> QED BY <1>1, <1>3, <1>4, <1>6, <1>8, <1>9, BeginStep

LEMMA ThinkInv ==
  ASSUME Inv, NEW p \in Requests, Think(p)
  PROVE  Inv'
<1> DEFINE s == req[p].session
<1>1. /\ req[p] \in RequestState /\ req[p].pc = "think" /\ s \in Session
      /\ UNCHANGED <<row, offers, ttlPassed, announced, overlapped>>
  BY DEF Think, Inv, TypeOK, RequestState
<1>2. /\ s.row.stall <= s.row.round /\ s.row.status \in Active
      /\ s.row.failures < MaxSchemaFailures /\ s.row.round \in Rounds \cup {0}
  BY <1>1 DEF Inv, Good
<1>3. PICK expired \in BOOLEAN : \E t \in Turns(s, expired) :
         /\ CanAddOffer(t.session)
         /\ req' = [req EXCEPT
               ![p] = [pc |-> IF t.closing = "none" THEN "commit" ELSE "conclude",
                       session |-> AddOffer(t.session, NextProposer(t.session)),
                       closing |-> t.closing]]
  BY DEF Think, Expired
<1>4. PICK t \in Turns(s, expired) :
         /\ CanAddOffer(t.session)
         /\ req' = [req EXCEPT
               ![p] = [pc |-> IF t.closing = "none" THEN "commit" ELSE "conclude",
                       session |-> AddOffer(t.session, NextProposer(t.session)),
                       closing |-> t.closing]]
  BY <1>3
<1> DEFINE stall == t.session.row.stall
           failures == t.session.row.failures
           role == NextProposer(s)
           u == AddOffer(t.session, role)
<1>5. /\ t.session = Counted(s, stall, failures)
      /\ stall \in Nat /\ failures \in 0..MaxSchemaFailures
      /\ t.closing \in Closings \cup {"none"}
      /\ t.closing # "breach" => failures < MaxSchemaFailures
      /\ stall <= s.row.stall + 1
      /\ stall > 0 => s.row.stall > 0 \/ role \in s.sides
  BY <1>1, <1>2, <1>4, TurnAdvances DEF Advanced
<1>6. NextProposer(t.session) = role /\ role \in Roles
  BY <1>5 DEF NextProposer, Counted, Roles
<1>7. s.row.round \in Nat /\ s.row.stall \in Nat /\ s.count \in Nat
  BY <1>1 DEF Session, Row
<1> HIDE DEF s, stall, failures, role
<1>8. stall <= s.row.round + 1
  BY <1>2, <1>5, <1>7
<1>9. /\ u \in Session
      /\ u.row = [status |-> Transition(s.row.status, role, s.count + 1),
                  round |-> s.row.round + 1, stall |-> stall, failures |-> failures]
      /\ u.row.status \in Active /\ s.row.round < MaxRounds
      /\ u.count = s.count + 1 /\ u.last = role /\ u.sides = s.sides \cup {role}
  BY <1>1, <1>2, <1>4, <1>5, <1>6, <1>8, AddOfferSession
<1> HIDE DEF u
<1>10. PICK r : r = [pc |-> IF t.closing = "none" THEN "commit" ELSE "conclude",
                     session |-> u, closing |-> t.closing]
  OBVIOUS
<1>11. r \in RequestState /\ req' = [req EXCEPT ![p] = r]
  BY <1>4, <1>5, <1>6, <1>9, <1>10 DEF RequestState, u
<1>12. Good(r)
  <2>1. /\ u.row.stall <= u.row.round /\ u.row.round \in 1..MaxRounds
        /\ u.row.round - 1 \in Rounds \cup {0} /\ u.last \in Roles
    BY <1>2, <1>6, <1>7, <1>8, <1>9
  <2>2. t.closing # "breach" => u.row.failures < MaxSchemaFailures
    BY <1>5, <1>9
  <2>3. u.row.status \notin DOMAIN EventOf
    BY <1>9 DEF Active, EventOf
  <2> QED BY <1>9, <1>10, <2>1, <2>2, <2>3 DEF Good
<1>13. Good(r)'
  BY <1>1, <1>12, OffersKept DEF Good
<1>14. ASSUME ~overlapped PROVE InStep(r)
  <2>1. s.row = row /\ s.count = Len(offers) /\ s.sides = Sides /\ s.last = LastRole
        /\ Phase(row, Sides)
    BY <1>1, <1>14 DEF Inv, Alone, InStep, s
  <2>2. role = (IF LastRole = "BUYER" THEN "SELLER" ELSE "BUYER")
    BY <2>1 DEF role, NextProposer
  <2>3. LastRole \in Roles \cup {"none"} /\ (LastRole = "none" <=> Sides = {})
        /\ (LastRole # "none" => LastRole \in Sides)
    <3>1. CASE offers = <<>>
      BY <3>1, OfferTypes DEF Inv, LastRole, Sides
    <3>2. CASE offers # <<>>
      <4>1. Len(offers) \in DOMAIN offers
        BY <3>2, OfferTypes DEF Inv
      <4>2. LastRole = offers[Len(offers)].role
        BY <3>2 DEF LastRole
      <4>3. LastRole \in Sides /\ LastRole \in Roles
        BY <4>1, <4>2, OfferTypes DEF Inv, Sides
      <4> QED BY <4>3 DEF Roles
    <3> QED BY <3>1, <3>2
  <2>4. Sides \subseteq Roles
    BY OfferTypes DEF Inv
  <2>5. Phase(u.row, Sides \cup {role})
    <3>1. stall > 0 => Sides \cup {role} = Roles
      <4>1. stall > 0 => row.stall > 0 \/ role \in Sides
        BY <1>5, <2>1
      <4>2. role \in Sides => Sides = Roles
        BY <2>2, <2>3, <2>4 DEF Roles
      <4>3. row.stall > 0 => Sides = Roles
        BY <2>1 DEF Phase
      <4> QED BY <4>1, <4>2, <4>3, <1>6
    <3>2. CASE row.status = "BUYER_ANCHOR"
      <4>1. Sides = {} /\ role = "BUYER"
        BY <2>1, <2>2, <2>3, <3>2 DEF Phase
      <4>2. u.row.status = "SELLER_RESPONSE"
        BY <1>9, <2>1, <3>2, <4>1 DEF Transition
      <4> QED BY <1>9, <3>1, <4>1, <4>2 DEF Phase
    <3>3. CASE row.status = "SELLER_RESPONSE"
      <4>1. Sides = {"BUYER"} /\ role = "SELLER"
        BY <2>1, <2>2, <2>3, <3>3 DEF Phase
      <4>2. u.row.status = "ROUND_LOOP"
        BY <1>9, <2>1, <3>3, <4>1 DEF Transition
      <4> QED BY <1>9, <3>1, <4>1, <4>2 DEF Phase, Roles
    <3>4. CASE row.status = "ROUND_LOOP"
      <4>1. Sides = Roles /\ u.row.status = "ROUND_LOOP"
        BY <1>9, <2>1, <3>4 DEF Transition, Phase
      <4> QED BY <1>6, <1>9, <3>1, <4>1 DEF Phase
    <3> QED BY <1>2, <2>1, <3>2, <3>3, <3>4 DEF Active, Phase
  <2>6. role # LastRole
    BY <2>2
  <2>7. row.status \in Active /\ u.row.round = row.round + 1
    BY <1>2, <1>9, <2>1
  <2>8. u.last = role /\ u.sides = Sides \cup {role}
    BY <1>9, <2>1
  <2>9. r.session = u /\ r.pc \in {"conclude", "commit"}
    BY <1>10
  <2> HIDE DEF stall, failures, role
  <2> QED BY <2>5, <2>6, <2>7, <2>8, <2>9 DEF InStep
<1>15. req[p] # Idle
  BY <1>1 DEF Idle
<1> QED BY <1>1, <1>11, <1>13, <1>14, <1>15, QuietStep DEF Inv, TypeOK

LEMMA ConcludeInv ==
  ASSUME Inv, NEW p \in Requests, Conclude(p)
  PROVE  Inv'
<1> DEFINE s == req[p].session
<1>1. /\ req[p] \in RequestState /\ req[p].pc = "conclude" /\ s \in Session
      /\ req[p].closing \in Closings \cup {"none"}
      /\ UNCHANGED <<row, offers, ttlPassed, overlapped>>
  BY DEF Conclude, Inv, TypeOK, RequestState
<1>2. PICK word \in WordsOf(req[p].closing) :
         /\ req' = [req EXCEPT ![p].session.row.status = Outcome(s, word), ![p].pc = "commit"]
         /\ announced' = announced \cup {EventOf[Outcome(s, word)]}
  BY DEF Conclude
<1>3. PICK outcome : outcome = Outcome(s, word)
  OBVIOUS
<1>4. /\ outcome \in {"WALK_AWAY", "POLICY_BREACH", "TIMEOUT", "HUMAN_REVIEW", "AGREED"}
      /\ outcome = "HUMAN_REVIEW" => s.row.stall >= StallRounds /\ word = "none"
  BY <1>3, <1>2 DEF Outcome, WordsOf, Words
<1>5. EventOf[outcome] \in announced' /\ announced \subseteq announced'
      /\ announced' \subseteq {"agreed", "failed", "expired", "escalated"}
  BY <1>2, <1>3, <1>4 DEF EventOf, Inv, TypeOK
<1>6. PICK r : r = [pc |-> "commit", session |-> [s EXCEPT !.row.status = outcome],
                    closing |-> req[p].closing]
  OBVIOUS
<1>7. req' = [req EXCEPT ![p] = r]
  <2>1. req' = [req EXCEPT ![p].session.row.status = outcome, ![p].pc = "commit"]
    BY <1>2, <1>3
  <2>2. req' = [req EXCEPT ![p] = [pc |-> "commit", session |-> [req[p].session EXCEPT !.row.status = outcome],
                                   closing |-> req[p].closing]]
    BY <2>1, SetStatusAndPc DEF Inv
  <2> QED BY <1>6, <2>2
<1>8. /\ r.session \in Session
      /\ r.session.row = [s.row EXCEPT !.status = outcome]
      /\ r.session.last = s.last /\ r.session.row.status = outcome
      /\ r.session.row.round = s.row.round /\ r.session.row.stall = s.row.stall
      /\ r.session.row.failures = s.row.failures
  BY <1>1, <1>4, <1>6 DEF Session, Row, Terminal
<1>9. r \in RequestState /\ r.pc = "commit"
  BY <1>1, <1>6, <1>8 DEF RequestState
<1>10. Good(r)'
  <2>1. /\ s.row.stall <= s.row.round
        /\ req[p].closing # "breach" => s.row.failures < MaxSchemaFailures
        /\ s.row.round \in 1..MaxRounds /\ s.row.round - 1 \in Rounds \cup {0}
        /\ s.last \in Roles
    BY <1>1 DEF Inv, Good
  <2>2. outcome \in Open => s.row.failures < MaxSchemaFailures
    <3>1. outcome \in Open => outcome = "HUMAN_REVIEW"
      BY <1>4 DEF Open, Active
    <3>2. word = "none" => req[p].closing # "breach"
      BY <1>2 DEF WordsOf
    <3> QED BY <1>4, <2>1, <3>1, <3>2
  <2> QED BY <1>1, <1>5, <1>8, <1>9, <2>1, <2>2, OffersKept DEF Good
<1>11. ASSUME ~overlapped PROVE InStep(r)
  <2>1. /\ row.status \in Active /\ s.row.round = row.round + 1
        /\ s.last # LastRole /\ Phase(s.row, Sides \cup {s.last})
    BY <1>1, <1>11 DEF Inv, Alone, InStep
  <2>2. outcome = "HUMAN_REVIEW" => s.row.stall > 0
    BY <1>1, <1>4 DEF Session, Row
  <2>3. Phase(r.session.row, Sides \cup {s.last})
    BY <1>4, <1>8, <2>1, <2>2 DEF Phase
  <2> QED BY <1>8, <1>9, <2>1, <2>3 DEF InStep
<1>12. req[p] # Idle
  BY <1>1 DEF Idle
<1> QED BY <1>1, <1>5, <1>7, <1>9, <1>10, <1>11, <1>12, QuietStep DEF Inv, TypeOK

LEMMA IdleRequest == Idle \in RequestState /\ Looping \in RequestState
BY DEF Looping, Idle, RequestState, NoSession, NoRow, Session, Row

\* One more offer.
LEMMA OneMore ==
  ASSUME TypeOK, NEW o \in Offer, offers' = Append(offers, o)
  PROVE  /\ offers' \in Seq(Offer) /\ Len(offers') = Len(offers) + 1
         /\ DOMAIN offers' = 1..(Len(offers) + 1)
         /\ \A i \in DOMAIN offers : offers'[i] = offers[i]
         /\ offers'[Len(offers) + 1] = o
         /\ Rounds' = Rounds \cup {o.round} /\ Sides' = Sides \cup {o.role}
<1>1. /\ offers' \in Seq(Offer) /\ Len(offers') = Len(offers) + 1
      /\ DOMAIN offers' = 1..(Len(offers) + 1)
      /\ \A i \in DOMAIN offers : offers'[i] = offers[i]
      /\ offers'[Len(offers) + 1] = o
  BY DEF TypeOK
<1>2. DOMAIN offers = 1..Len(offers) /\ Len(offers) \in Nat
  BY OfferTypes
<1>3. DOMAIN offers' = DOMAIN offers \cup {Len(offers) + 1}
  BY <1>1, <1>2
<1>4. Rounds' = Rounds \cup {o.round}
  BY <1>1, <1>3 DEF Rounds
<1>5. Sides' = Sides \cup {o.role}
  BY <1>1, <1>3 DEF Sides
<1> QED BY <1>1, <1>4, <1>5

\* The next round, or one that has been before.
LEMMA NoRoundSkipped ==
  ASSUME TypeOK, RoundsAreUsed, NEW o \in Offer, offers' = Append(offers, o),
         o.round - 1 \in Rounds \cup {0}, row'.round = o.round
  PROVE  RoundsAreUsed'
<1>1. Rounds' = Rounds \cup {o.round} /\ o.round \in 1..MaxRounds
  BY OneMore DEF Offer
<1>2. \A k \in Rounds : 1..k \subseteq Rounds
  BY DEF RoundsAreUsed, Rounds
<1>3. Rounds \subseteq 1..MaxRounds
  BY OfferTypes
<1>4. 1..o.round \subseteq Rounds'
  <2>1. ASSUME NEW j \in 1..o.round PROVE j \in Rounds'
    <3>1. CASE j = o.round
      BY <1>1, <3>1
    <3>2. CASE j # o.round
      <4>1. j \in 1..(o.round - 1) /\ o.round - 1 # 0
        BY <1>1, <2>1, <3>2
      <4> QED BY <1>1, <1>2, <4>1
    <3> QED BY <3>1, <3>2
  <2> QED BY <2>1
<1>5. \A k \in Rounds' : 1..k \subseteq Rounds'
  BY <1>1, <1>2, <1>4
<1> QED BY <1>1, <1>5 DEF RoundsAreUsed, Rounds

\* The offers stay in order when the last one is of another side, or a human's.
LEMMA StillInOrder ==
  ASSUME TypeOK, OffersAreInOrder, ~overlapped, NEW o \in Offer, offers' = Append(offers, o),
         o.round = row.round + 1, row'.round = o.round, o.role # LastRole \/ o.human
  PROVE  OffersAreInOrder'
<1>1. /\ row.round = Len(offers)
      /\ \A i \in DOMAIN offers : offers[i].round = i
      /\ \A i \in DOMAIN offers \ {1} :
            offers[i].role # offers[i - 1].role \/ offers[i].human
  BY DEF OffersAreInOrder
<1>2. /\ Len(offers') = Len(offers) + 1
      /\ DOMAIN offers' = 1..(Len(offers) + 1)
      /\ \A i \in DOMAIN offers : offers'[i] = offers[i]
      /\ offers'[Len(offers) + 1] = o
  BY OneMore
<1>3. /\ DOMAIN offers = 1..Len(offers) /\ Len(offers) \in Nat
      /\ offers = <<>> <=> Len(offers) = 0
  BY OfferTypes
<1>4. row'.round = Len(offers')
  BY <1>1, <1>2
<1>5. ASSUME NEW i \in DOMAIN offers' PROVE offers'[i].round = i
  <2>1. CASE i \in DOMAIN offers
    BY <1>1, <1>2, <2>1
  <2>2. CASE i = Len(offers) + 1
    BY <1>1, <1>2, <2>2
  <2> QED BY <1>2, <1>3, <2>1, <2>2
<1>6. ASSUME NEW i \in DOMAIN offers' \ {1}
      PROVE  offers'[i].role # offers'[i - 1].role \/ offers'[i].human
  <2>1. i - 1 \in DOMAIN offers
    BY <1>2, <1>3
  <2>2. CASE i \in DOMAIN offers
    BY <1>1, <1>2, <2>1, <2>2
  <2>3. CASE i = Len(offers) + 1
    <3>1. LastRole = offers'[i - 1].role
      BY <1>2, <1>3, <2>1, <2>3 DEF LastRole
    <3> QED BY <1>2, <2>3, <3>1
  <2> QED BY <1>2, <1>3, <2>2, <2>3
<1> QED BY <1>4, <1>5, <1>6 DEF OffersAreInOrder

LEMMA CommitTurnInv ==
  ASSUME Inv, NEW p \in Requests, CommitTurn(p)
  PROVE  Inv'
<1> DEFINE s == req[p].session
<1>1. /\ req[p] \in RequestState /\ req[p].pc = "commit" /\ s \in Session
      /\ s.row \in Row /\ row' = s.row
      /\ UNCHANGED <<ttlPassed, announced, overlapped>>
  BY DEF CommitTurn, WriteRow, Inv, TypeOK, RequestState, Session
<1>2. Good(req[p])
  BY DEF Inv
<1>3. PICK o : o = [role |-> s.last, round |-> s.row.round, human |-> FALSE]
  OBVIOUS
<1>4. offers' = Append(offers, o)
  BY <1>3 DEF CommitTurn, InsertOffer
<1>5. o \in Offer /\ o.role = s.last /\ o.round = s.row.round /\ ~o.human
      /\ o.round - 1 \in Rounds \cup {0}
  BY <1>1, <1>2, <1>3 DEF Offer, Good
<1>7. PICK r \in RequestState : r \in {Idle, Looping} /\ req' = [req EXCEPT ![p] = r]
  BY IdleRequest DEF CommitTurn, Done
<1>8. r.pc \in {"idle", "loop"} /\ r.session = NoSession
  BY <1>7 DEF Idle, Looping
<1>9. TypeOK'
  BY <1>1, <1>4, <1>5, <1>7, OneMore DEF Inv, TypeOK
<1>10. GoodRow' /\ OutcomeIsAnnounced'
  BY <1>1, <1>2 DEF Good, GoodRow, OutcomeIsAnnounced
<1>11. RoundsAreUsed' /\ Rounds \subseteq Rounds'
  BY <1>1, <1>4, <1>5, NoRoundSkipped, OneMore DEF Inv
<1>12. Good(r)' /\ InStep(r)'
  BY <1>8 DEF Good, InStep, NoSession, NoRow
<1>13. ASSUME ~overlapped' PROVE OffersAreInOrder' /\ Phase(row, Sides)'
  <2>1. /\ s.row.round = row.round + 1 /\ s.last # LastRole
        /\ Phase(s.row, Sides \cup {s.last})
    BY <1>1, <1>13 DEF Inv, Alone, InStep
  <2>2. OffersAreInOrder'
    BY <1>1, <1>4, <1>5, <1>13, <2>1, StillInOrder DEF Inv, Alone
  <2>3. Phase(row, Sides)'
    BY <1>1, <1>4, <1>5, <2>1, OneMore DEF Inv, Phase
  <2> QED BY <2>2, <2>3
<1>14. req[p] # Idle
  BY <1>1 DEF Idle
<1> QED BY <1>1, <1>7, <1>9, <1>10, <1>11, <1>12, <1>13, <1>14, StepOf

LEMMA OverrideInv ==
  ASSUME Inv, NEW p \in Requests, Override(p)
  PROVE  Inv'
<1> DEFINE s == req[p].session
           u == AddOffer(s, "BUYER")
<1>1. /\ req[p] \in RequestState /\ req[p].pc = "override" /\ s \in Session /\ Done(p)
      /\ UNCHANGED <<ttlPassed, announced, overlapped>>
  BY DEF Override, Inv, TypeOK, RequestState
<1>2. req[p] # Idle
  BY <1>1 DEF Idle
<1>3. CASE ~CanAddOffer(s)
  BY <1>1, <1>2, <1>3, DoneStep DEF Override, Inv, TypeOK
<1>4. CASE CanAddOffer(s)
  <2>1. /\ s.row.stall <= s.row.round /\ s.row.status \in Active
        /\ s.row.failures < MaxSchemaFailures /\ s.row.round \in Rounds \cup {0}
    BY <1>1 DEF Inv, Good
  <2>2. /\ s = Counted(s, s.row.stall, s.row.failures)
        /\ s.row.stall \in Nat /\ s.row.failures \in 0..MaxSchemaFailures
        /\ s.row.round \in Nat /\ "BUYER" \in Roles
    BY <1>1, CountedSession DEF Session, Row, Roles
  <2>3. /\ u \in Session
        /\ u.row = [status |-> Transition(s.row.status, "BUYER", s.count + 1),
                    round |-> s.row.round + 1, stall |-> s.row.stall,
                    failures |-> s.row.failures]
        /\ u.row.status \in Active /\ s.row.round < MaxRounds
        /\ u.count = s.count + 1 /\ u.last = "BUYER" /\ u.sides = s.sides \cup {"BUYER"}
    BY <1>1, <1>4, <2>1, <2>2, AddOfferSession
  <2>4. row' = u.row /\ offers' = Append(offers, [role |-> u.last, round |-> u.row.round,
                                                  human |-> TRUE])
    BY <1>4 DEF Override, InsertOffer
  <2> HIDE DEF u
  <2>5. PICK o : o = [role |-> u.last, round |-> u.row.round, human |-> TRUE]
    OBVIOUS
  <2>6. /\ o \in Offer /\ o.role = "BUYER" /\ o.round = s.row.round + 1 /\ o.human
        /\ o.round - 1 \in Rounds \cup {0} /\ offers' = Append(offers, o)
        /\ row'.round = o.round
    <3>1. u.row.round = s.row.round + 1 /\ s.row.round + 1 \in 1..MaxRounds
          /\ (s.row.round + 1) - 1 = s.row.round
      BY <2>2, <2>3
    <3>2. o.role = "BUYER" /\ o.round = s.row.round + 1 /\ o.human
      BY <2>3, <2>5, <3>1
    <3>3. o \in Offer
      BY <2>2, <2>3, <2>5, <3>1 DEF Offer
    <3> QED BY <2>1, <2>4, <2>5, <3>1, <3>2, <3>3
  <2>7. PICK r \in RequestState : r = Idle /\ req' = [req EXCEPT ![p] = r]
    BY <1>1, IdleRequest DEF Done
  <2>8. TypeOK'
    BY <1>1, <2>3, <2>4, <2>6, <2>7, OneMore DEF Inv, TypeOK, Session
  <2>9. GoodRow' /\ OutcomeIsAnnounced'
    BY <2>1, <2>2, <2>3, <2>4 DEF GoodRow, OutcomeIsAnnounced, EventOf, Active
  <2>10. RoundsAreUsed' /\ Rounds \subseteq Rounds'
    BY <2>6, NoRoundSkipped, OneMore DEF Inv
  <2>11. Good(r)' /\ InStep(r)'
    BY <2>7 DEF Good, InStep, Idle, NoSession, NoRow
  <2>12. ASSUME ~overlapped' PROVE OffersAreInOrder' /\ Phase(row, Sides)'
    <3>1. ~overlapped /\ s.row.round = row.round /\ Phase(s.row, Sides)
      BY <1>1, <2>12 DEF Inv, Alone, InStep
    <3>2. OffersAreInOrder'
      BY <2>6, <3>1, StillInOrder DEF Inv, Alone
    <3>3. Sides' = Sides \cup {"BUYER"} /\ Sides \subseteq Roles
      BY <2>6, OneMore, OfferTypes DEF Inv
    <3>4. Phase(u.row, Sides \cup {"BUYER"})
      <4>1. s.row.stall > 0 => Sides \cup {"BUYER"} = Roles
        BY <3>1 DEF Phase, Roles
      <4>2. s.row.status # "ACTIVE"
        BY <3>1 DEF Phase
      <4>3. CASE s.row.status \in {"BUYER_ANCHOR", "SELLER_RESPONSE"}
        <5>1. u.row.status = "SELLER_RESPONSE" /\ Sides \cup {"BUYER"} = {"BUYER"}
          BY <2>3, <3>1, <4>3 DEF Transition, Phase
        <5> QED BY <2>3, <4>1, <5>1 DEF Phase
      <4>4. CASE s.row.status = "ROUND_LOOP"
        <5>1. u.row.status = "ROUND_LOOP" /\ Sides \cup {"BUYER"} = Roles
          BY <2>3, <3>1, <4>4 DEF Transition, Phase, Roles
        <5> QED BY <2>3, <4>1, <5>1 DEF Phase
      <4> QED BY <2>1, <4>2, <4>3, <4>4 DEF Active
    <3> QED BY <2>4, <3>2, <3>3, <3>4 DEF Phase
  <2> QED BY <1>1, <1>2, <2>7, <2>8, <2>9, <2>10, <2>11, <2>12, StepOf
<1> QED BY <1>3, <1>4

\* A step that writes the row alone, without a round.
LEMMA TerminateInv ==
  ASSUME Inv, NEW p \in Requests, Terminate(p)
  PROVE  Inv'
<1> DEFINE s == req[p].session
<1>1. /\ req[p] \in RequestState /\ req[p].pc = "terminate" /\ s \in Session
      /\ s.row \in Row /\ row' = s.row
      /\ UNCHANGED <<offers, ttlPassed, announced, overlapped>>
      /\ req' = [req EXCEPT ![p].pc = "publish"]
  BY DEF Terminate, WriteRow, Inv, TypeOK, RequestState, Session
<1>2. /\ s.row.stall <= s.row.round /\ s.row.status = "FAILED"
      /\ s.row.round \in Rounds \cup {0}
  BY <1>1 DEF Inv, Good
<1>3. PICK r : r = [req[p] EXCEPT !.pc = "publish"]
  OBVIOUS
<1>4. r \in RequestState /\ r.pc = "publish" /\ r.session = s
  BY <1>1, <1>3 DEF RequestState
<1>5. req' = [req EXCEPT ![p] = r]
  BY <1>1, <1>3
<1>6. TypeOK'
  BY <1>1, <1>4, <1>5 DEF Inv, TypeOK
<1>7. GoodRow' /\ OutcomeIsAnnounced'
  BY <1>1, <1>2 DEF GoodRow, OutcomeIsAnnounced, Open, Active, EventOf
<1>8. RoundsAreUsed'
  BY <1>1, <1>2 DEF Inv, RoundsAreUsed, Rounds
<1>9. Good(r)' /\ InStep(r)'
  BY <1>2, <1>4 DEF Good, InStep
<1>10. ASSUME ~overlapped' PROVE OffersAreInOrder' /\ Phase(row, Sides)'
  <2>1. s.row.round = row.round /\ Phase(s.row, Sides)
    BY <1>1, <1>10 DEF Inv, Alone, InStep
  <2> QED BY <1>1, <1>10, <2>1, OffersKept DEF Inv, Alone, OffersAreInOrder, Phase
<1>11. req[p] # Idle
  BY <1>1 DEF Idle
<1> QED BY <1>1, <1>4, <1>5, <1>6, <1>7, <1>8, <1>9, <1>10, <1>11, OffersKept, StepOf

LEMMA CreateInv ==
  ASSUME Inv, NEW p \in Requests, Create(p)
  PROVE  Inv'
<1>1. /\ req[p].pc = "create" /\ Done(p)
      /\ UNCHANGED <<offers, ttlPassed, announced, overlapped>>
  BY DEF Create
<1>2. req[p] # Idle
  BY <1>1 DEF Idle
<1>3. CASE row' = row
  BY <1>1, <1>2, <1>3, DoneStep DEF Inv, TypeOK
<1>4. CASE row = NoRow /\ row' = Fresh
  <2>1. Fresh \in Row /\ Fresh.round = 0 /\ Fresh.stall = 0 /\ Fresh.failures = 0
        /\ Fresh.status = "BUYER_ANCHOR"
    BY DEF Fresh, Row, Active
  <2>2. PICK r \in RequestState : r = Idle /\ req' = [req EXCEPT ![p] = r]
    BY <1>1, IdleRequest DEF Done
  <2>3. TypeOK'
    BY <1>1, <1>4, <2>1, <2>2 DEF Inv, TypeOK
  <2>4. GoodRow' /\ OutcomeIsAnnounced'
    BY <1>4, <2>1 DEF GoodRow, OutcomeIsAnnounced, EventOf
  <2>5. RoundsAreUsed'
    BY <1>1, <1>4, <2>1 DEF Inv, RoundsAreUsed
  <2>6. Good(r)' /\ InStep(r)'
    BY <2>2 DEF Good, InStep, Idle, NoSession, NoRow
  <2>7. ASSUME ~overlapped' PROVE OffersAreInOrder' /\ Phase(row, Sides)'
    <3>1. OffersAreInOrder /\ ~overlapped /\ row.round = 0
      BY <1>1, <1>4, <2>7 DEF Inv, Alone, NoRow
    <3>2. OffersAreInOrder'
      BY <1>1, <1>4, <2>1, <3>1 DEF OffersAreInOrder
    <3>3. Len(offers) = 0
      BY <3>1 DEF OffersAreInOrder
    <3>4. Sides = {}
      BY <3>3, OfferTypes DEF Sides, Inv
    <3> QED BY <1>1, <1>4, <2>1, <3>2, <3>4, OffersKept DEF Phase
  <2> QED BY <1>1, <1>2, <2>2, <2>3, <2>4, <2>5, <2>6, <2>7, OffersKept, StepOf
<1> QED BY <1>3, <1>4 DEF Create

\* The clock, and an event that does not concern the row.
LEMMA StutterInv ==
  ASSUME Inv, UNCHANGED <<row, offers, overlapped, req>>, announced \subseteq announced',
         announced' \subseteq {"agreed", "failed", "expired", "escalated"},
         ttlPassed' \in BOOLEAN
  PROVE  Inv'
<1>1. TypeOK' /\ GoodRow' /\ RoundsAreUsed' /\ OutcomeIsAnnounced'
  <2>1. TypeOK'
    BY DEF Inv, TypeOK
  <2>2. GoodRow'
    BY DEF Inv, GoodRow
  <2>3. RoundsAreUsed'
    BY DEF Inv, RoundsAreUsed
  <2>4. OutcomeIsAnnounced'
    BY DEF Inv, OutcomeIsAnnounced
  <2> QED BY <2>1, <2>2, <2>3, <2>4
<1>2. \A p \in Requests : Good(req[p])'
  BY OffersKept DEF Inv, Good
<1>3. ASSUME ~overlapped' PROVE Alone'
  BY <1>3, OffersKept DEF Inv, Alone, OffersAreInOrder, Phase, InStep
<1> QED BY <1>1, <1>2, <1>3 DEF Inv

\* A request that ends: its turn fails or expires, its loop or its last step is over,
\* or it is abandoned.
LEMMA EndInv ==
  ASSUME Inv, NEW p \in Requests,
         LoopEnds(p) \/ TurnExpired(p) \/ TurnFails(p) \/ PublishTermination(p) \/ Abandon(p)
  PROVE  Inv'
<1>1. /\ Done(p) /\ UNCHANGED <<row, offers, ttlPassed, overlapped>>
      /\ announced' \in {announced, announced \cup {"expired"}, announced \cup {"failed"}}
  BY DEF LoopEnds, TurnExpired, TurnFails, PublishTermination, Abandon
<1>2. /\ announced \subseteq announced'
      /\ announced' \subseteq {"agreed", "failed", "expired", "escalated"}
      /\ ttlPassed' \in BOOLEAN
  BY <1>1 DEF Inv, TypeOK
<1>3. CASE req[p] # Idle
  BY <1>1, <1>2, <1>3, DoneStep
<1>4. CASE req[p] = Idle
  <2>1. req' = req
    BY <1>1, <1>4 DEF Done, Inv, TypeOK
  <2> QED BY <1>1, <1>2, <2>1, StutterInv
<1> QED BY <1>3, <1>4

LEMMA NextInv == Inv /\ [Next]_vars => Inv'
<1> SUFFICES ASSUME Inv, [Next]_vars PROVE Inv'
  OBVIOUS
<1>1. ASSUME NEW p \in Requests, Request(p) PROVE Inv'
  BY <1>1, StartCreateInv, CreateInv, StartTurnInv, LoopTurnInv, EndInv, ThinkInv, ConcludeInv,
     CommitTurnInv, StartOverrideInv, OverrideInv, StartTerminateInv, TerminateInv
     DEF Request
<1>2. CASE TtlPasses
  BY <1>2, StutterInv DEF TtlPasses, Inv, TypeOK
<1>3. CASE UNCHANGED vars
  BY <1>3, StutterInv DEF vars, Inv, TypeOK
<1> QED BY <1>1, <1>2, <1>3 DEF Next

----------------------------------------------------------------------------
(* Theorems. *)

\* The invariant of a session.
THEOREM NegotiationInvariant == Spec => []Inv
BY InitInv, NextInv, PTL DEF Spec

\* No counter leaves its range and no status or copy is one the code cannot make,
\* however stale the copies that are written back.
THEOREM SessionTypeCorrect == Spec => []TypeOK
<1>1. Inv => TypeOK
  BY DEF Inv
<1> QED BY <1>1, NegotiationInvariant, PTL

\* A committed outcome of a turn has been announced, however many requests overlap
\* and wherever they end.
THEOREM OutcomesAreAnnounced == Spec => []OutcomeIsAnnounced
<1>1. Inv => OutcomeIsAnnounced
  BY DEF Inv
<1> QED BY <1>1, NegotiationInvariant, PTL

\* Whatever stale copies are written back, the offers use every round up to the last.
THEOREM NoRoundIsSkipped == Spec => []RoundsAreUsed
<1>1. Inv => RoundsAreUsed
  BY DEF Inv
<1> QED BY <1>1, NegotiationInvariant, PTL

\* The sides alternate and the row counts its offers, while requests do not overlap.
THEOREM OffersStayInOrder == Spec => []OffersAreInOrder
<1>1. Inv => OffersAreInOrder
  BY DEF Inv, Alone, OffersAreInOrder
<1> QED BY <1>1, NegotiationInvariant, PTL

\* The status tells which sides have spoken, while requests do not overlap.
THEOREM PhasesMatch == Spec => []PhaseMatchesOffers
<1>1. Inv => PhaseMatchesOffers
  BY DEF Inv, Alone, Phase, PhaseMatchesOffers, Sides
<1> QED BY <1>1, NegotiationInvariant, PTL

\* No step changes a session that has ended, while requests do not overlap.
THEOREM EndedSessionsStay == Spec => OutcomeIsFinal
<1>1. Inv /\ [Next]_vars =>
        [~overlapped /\ row.status \in Terminal => UNCHANGED <<row, offers>>]_vars
  <2> SUFFICES ASSUME Inv, Next, ~overlapped, row.status \in Terminal
               PROVE  UNCHANGED <<row, offers>>
    OBVIOUS
  <2>1. row.status \notin Open /\ row # NoRow
    BY DEF Open, Active, Terminal, NoRow
  <2>2. \A p \in Requests : req[p].pc \notin {"commit", "override", "terminate"}
    BY <2>1 DEF Inv, Alone, InStep, Open
  <2>3. ASSUME NEW p \in Requests, Request(p) PROVE UNCHANGED <<row, offers>>
    <3>1. CASE \/ StartCreate(p) \/ StartTurn(p) \/ StartOverride(p) \/ StartTerminate(p)
      BY <3>1 DEF StartCreate, PostSession, HandleRFQConfirmed, StartTurn, StartOverride,
         StartTerminate, Begin
    <3>2. CASE Create(p)
      BY <2>1, <3>2 DEF Create
    <3>3. CASE CommitTurn(p) \/ Override(p) \/ Terminate(p)
      BY <2>2, <3>3 DEF CommitTurn, Override, Terminate
    <3>4. CASE \/ LoopTurn(p) \/ LoopEnds(p) \/ TurnExpired(p) \/ Think(p) \/ TurnFails(p)
               \/ Conclude(p) \/ PublishTermination(p) \/ Abandon(p)
      BY <3>4 DEF LoopTurn, LoopEnds, TurnExpired, Think, TurnFails, Conclude,
         PublishTermination, Abandon
    <3> QED BY <2>3, <3>1, <3>2, <3>3, <3>4 DEF Request
  <2>4. CASE TtlPasses
    BY <2>4 DEF TtlPasses
  <2> QED BY <2>3, <2>4 DEF Next
<1> QED BY <1>1, NegotiationInvariant, PTL DEF Spec, OutcomeIsFinal
=============================================================================
