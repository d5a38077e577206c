----------------------------- MODULE Negotiation -----------------------------
(***************************************************************************)
(* One negotiation session: the NegotiationSession aggregate (the DANP     *)
(* state machine), NegotiationService, the NeutralEngine that makes each   *)
(* agent turn, and the Postgres repositories.                              *)
(*                                                                         *)
(* A request loads a copy of the session, works on the copy across awaits  *)
(* (an agent turn waits for the LLM) and writes every column of the row    *)
(* back.  The UPDATE takes the row's lock until the commit or the          *)
(* rollback, but the loading takes none, so a request may write a copy     *)
(* that is stale.  An agent turn publishes its event before it commits;    *)
(* terminate_session publishes after.                                      *)
(*                                                                         *)
(* Abstracted: prices (whether an offer concedes, and whether it converges *)
(* with the other side's, are choices), the LLM's text (whether it holds   *)
(* one of the words run_agent_turn looks for), SSE messages, and agent     *)
(* profiles.  A row and its offers are loaded in one step.                 *)
(* cleanup_expired_sessions is left out: nothing calls it.  The module     *)
(* follows one session: the second one that two concurrent create_session  *)
(* requests give a match is not represented.                               *)
(***************************************************************************)
EXTENDS Integers, Sequences, FiniteSets

CONSTANTS
    Requests,          \* concurrent requests
    MaxRounds,         \* MAX_ROUNDS
    StallRounds,       \* STALL_ROUNDS
    MaxSchemaFailures, \* MAX_SCHEMA_FAILURES
    StallThreshold,    \* stall_threshold of the agents' profiles
    MaxOffers,         \* model bound: no request starts beyond so many offers
    UowEntered,        \* is the unit of work entered when the service commits?
    EarlyExpiry,       \* what is_expired may answer before the TTL has passed
    Faults             \* may a request end between two of its steps?

ASSUME BoundsAssumption ==
    /\ MaxRounds \in Nat \ {0} /\ StallRounds \in Nat \ {0}
    /\ MaxSchemaFailures \in Nat \ {0} /\ StallThreshold \in Nat
    /\ MaxOffers \in Nat
ASSUME ChoicesAssumption ==
    EarlyExpiry \subseteq BOOLEAN /\ UowEntered \in BOOLEAN /\ Faults \in BOOLEAN

VARIABLES
    row,         \* the row of negotiation_sessions
    offers,      \* table offers, in the order of their commits
    ttlPassed,   \* 24 hours have passed since the session was created
    announced,   \* the kinds of events published about the session
    overlapped,  \* have two requests been in flight at the same time?
    req          \* the requests in flight

vars == <<row, offers, ttlPassed, announced, overlapped, req>>

----------------------------------------------------------------------------
(* The aggregate. *)

Active == {"BUYER_ANCHOR", "SELLER_RESPONSE", "ROUND_LOOP", "ACTIVE"}

Terminal == {"AGREED", "WALK_AWAY", "TIMEOUT", "POLICY_BREACH", "FAILED"}

Roles == {"BUYER", "SELLER"}

Offer == [role : Roles, round : 1..MaxRounds, human : BOOLEAN]

Row == [status   : Active \cup Terminal \cup {"HUMAN_REVIEW", "none"},
        round    : 0..MaxRounds,
        stall    : 0..MaxRounds,
        failures : 0..MaxSchemaFailures]

\* A loaded session: its row, and what is asked of its offers - how many, who
\* made the last one, and who has made one.
Session == [row : Row, count : Nat, last : Roles \cup {"none"},
            sides : SUBSET Roles]

NoRow == [status |-> "none", round |-> 0, stall |-> 0, failures |-> 0]

\* create_session: INIT, activated at once.
Fresh == [status |-> "BUYER_ANCHOR", round |-> 0, stall |-> 0, failures |-> 0]

\* get_by_id.  Offers are sorted by round number: when two have the last one,
\* either may come last.
Loaded ==
    LET Sides == {offers[i].role : i \in DOMAIN offers}
        Last == {i \in DOMAIN offers :
                    \A j \in DOMAIN offers : offers[j].round <= offers[i].round}
    IN  {[row |-> row, count |-> Len(offers), last |-> l, sides |-> Sides] :
            l \in IF offers = <<>> THEN {"none"} ELSE {offers[i].role : i \in Last}}

NextProposer(s) == IF s.last = "BUYER" THEN "SELLER" ELSE "BUYER"

\* Mutation check only: the session leaves SELLER_RESPONSE on any offer.
TransitionOnAnyOffer(status, role, count) ==
    CASE status = "BUYER_ANCHOR" -> "SELLER_RESPONSE"
      [] status = "SELLER_RESPONSE" -> "ROUND_LOOP"
      [] status = "ACTIVE" -> IF count >= 2 THEN "ROUND_LOOP" ELSE "SELLER_RESPONSE"
      [] OTHER -> status

\* transition(), called after the offer is appended: count includes it.
Transition(status, role, count) ==
    CASE status = "BUYER_ANCHOR" /\ role = "BUYER" -> "SELLER_RESPONSE"
      [] status = "SELLER_RESPONSE" /\ role = "SELLER" -> "ROUND_LOOP"
      [] status = "ACTIVE" -> IF count >= 2 THEN "ROUND_LOOP" ELSE "SELLER_RESPONSE"
      [] OTHER -> status

CanAddOffer(s) ==
    /\ s.row.status \in Active \cup {"HUMAN_REVIEW"}
    /\ s.row.round < MaxRounds

\* Mutation check only: an offer does not count as a round.
AddOfferUncounted(s, role) ==
    [row   |-> [s.row EXCEPT !.status = Transition(@, role, s.count + 1)],
     count |-> s.count + 1, last |-> role, sides |-> s.sides \cup {role}]

AddOffer(s, role) ==
    [row   |-> [s.row EXCEPT !.round = @ + 1,
                             !.status = Transition(@, role, s.count + 1)],
     count |-> s.count + 1, last |-> role, sides |-> s.sides \cup {role}]

Resume(s) ==
    [s EXCEPT !.row.status = IF s.count >= 2 THEN "ROUND_LOOP" ELSE "ACTIVE"]

RecordSchemaFailure(s) == [s EXCEPT !.row.failures = @ + 1]

RecordNoConcession(s) == [s EXCEPT !.row.stall = @ + 1]

ResetStallCounter(s) == [s EXCEPT !.row.stall = 0]

----------------------------------------------------------------------------
(* The engine: process_turn.  Its result is the session with its counters  *)
(* advanced, and how the turn closes the session, if it does.              *)

Closings == {"accept", "reject", "converged", "stall", "breach", "timeout"}

\* A price close to the side's last one is no concession; a first price is none
\* to compare with.
TrackConcession(s) ==
    {ResetStallCounter(s)} \cup
        IF NextProposer(s) \in s.sides THEN {RecordNoConcession(s)} ELSE {}

\* An OFFER or COUNTER, vetoed by the guardrails or not.
CounterOffers(s, veto) ==
    LET checked == IF veto THEN RecordSchemaFailure(s) ELSE s
        Ends == {IF s.row.round + 1 >= StallThreshold THEN "stall" ELSE "none"}
                  \cup IF s.sides \ {NextProposer(s)} # {} THEN {"converged"} ELSE {}
    IN  IF veto /\ checked.row.failures >= MaxSchemaFailures
        THEN {[session |-> checked, closing |-> "breach"]}
        ELSE {[session |-> t, closing |-> e] : t \in TrackConcession(checked), e \in Ends}

\* A turn made after the session's deadline is a timeout whatever the agent says.
Turns(s, expired) ==
    IF expired THEN {[session |-> s, closing |-> "timeout"]}
    ELSE {[session |-> s, closing |-> c] : c \in {"accept", "reject"}}
           \cup CounterOffers(s, TRUE) \cup CounterOffers(s, FALSE)

\* run_agent_turn looks for these words in the agent's reasoning, in this order.
Words == {"rejected", "policy_breach", "timeout", "none"}

\* The placeholder offers have a text of the engine's own.
WordsOf(closing) ==
    IF closing = "breach" THEN {"policy_breach"}
    ELSE IF closing = "timeout" THEN {"timeout"}
    ELSE Words

\* Which handler a closing turn is dispatched to.
Outcome(s, word) ==
    IF word = "rejected" THEN "WALK_AWAY"
    ELSE IF word = "policy_breach" THEN "POLICY_BREACH"
    ELSE IF word = "timeout" THEN "TIMEOUT"
    ELSE IF s.row.stall >= StallRounds THEN "HUMAN_REVIEW"
    ELSE "AGREED"

\* The event each handler publishes.
EventOf == [AGREED |-> "agreed", WALK_AWAY |-> "failed", POLICY_BREACH |-> "failed",
            TIMEOUT |-> "expired", HUMAN_REVIEW |-> "escalated"]

\* is_expired of a loaded session.
Expired == IF ttlPassed THEN {TRUE} ELSE EarlyExpiry

----------------------------------------------------------------------------
(* Requests. *)

NoSession == [row |-> NoRow, count |-> 0, last |-> "none", sides |-> {}]

Idle == [pc |-> "idle", session |-> NoSession, closing |-> "none"]

RequestState ==
    [pc      : {"idle", "create", "think", "conclude", "commit", "loop",
                "override", "terminate", "publish"},
     session : Session,
     closing : Closings \cup {"none"}]

TypeOK ==
    /\ row \in Row
    /\ offers \in Seq(Offer)
    /\ ttlPassed \in BOOLEAN
    /\ announced \subseteq {"agreed", "failed", "expired", "escalated"}
    /\ overlapped \in BOOLEAN
    /\ req \in [Requests -> RequestState]

Init ==
    /\ row = NoRow
    /\ offers = <<>>
    /\ ttlPassed = FALSE
    /\ announced = {}
    /\ overlapped = FALSE
    /\ req = [p \in Requests |-> Idle]

\* Does another request hold the lock of the row?
Locked(p) == \E q \in Requests \ {p} : req[q].pc \in {"conclude", "commit"}

Done(p) == req' = [req EXCEPT ![p] = Idle]

Begin(p, pc, s) ==
    /\ req[p] = Idle
    /\ Len(offers) < MaxOffers
    /\ req' = [req EXCEPT ![p] = [pc |-> pc, session |-> s, closing |-> "none"]]
    /\ overlapped' = (overlapped \/ \E q \in Requests : req[q] # Idle)
    /\ UNCHANGED <<row, offers, ttlPassed, announced>>

\* The write of a request: all the columns of its copy, and its offer.
WriteRow(p) == row' = req[p].session.row

InsertOffer(s, human) ==
    offers' = Append(offers, [role |-> s.last, round |-> s.row.round,
                              human |-> human])

----------------------------------------------------------------------------
(* create_session. *)

\* POST /v1/sessions.
PostSession(p) == Begin(p, "create", NoSession)

\* RFQConfirmed of the marketplace: the handler builds a service of its own, and
\* swallows whatever create_session raises.
HandleRFQConfirmed(p) == Begin(p, "create", NoSession)

StartCreate(p) == row = NoRow /\ (PostSession(p) \/ HandleRFQConfirmed(p))

\* commit() raises RuntimeError when the unit of work has not been entered, and
\* the request's transaction rolls back.  No other request finds a session then,
\* which is why their commits do not mention UowEntered.
Create(p) ==
    /\ req[p].pc = "create"
    /\ row' = IF UowEntered /\ row = NoRow THEN Fresh ELSE row
    /\ Done(p)
    /\ UNCHANGED <<offers, ttlPassed, announced, overlapped>>

----------------------------------------------------------------------------
(* run_agent_turn, and run_auto_negotiation, which calls it in a loop. *)

StartTurn(p) ==
    \E s \in Loaded :
        /\ s.row.status \in Active
        /\ FALSE \in Expired
        /\ Begin(p, "think", s)

Looping == [Idle EXCEPT !.pc = "loop"]

\* The next round of the loop: the session is loaded again, with what others have
\* committed in between.
LoopTurn(p) ==
    /\ req[p] = Looping
    /\ \E s \in Loaded :
          /\ s.row.status \in Active
          /\ FALSE \in Expired
          /\ req' = [req EXCEPT ![p].pc = "think", ![p].session = s]
    /\ UNCHANGED <<row, offers, ttlPassed, announced, overlapped>>

\* The loop ends: the session is no longer active, or max_rounds turns are made.
LoopEnds(p) ==
    /\ req[p] = Looping
    /\ Done(p)
    /\ UNCHANGED <<row, offers, ttlPassed, announced, overlapped>>

\* The session has expired: _handle_timeout writes the row and publishes, then
\* ConflictError is raised, which ends a loop; the transaction, never committed,
\* rolls back.
TurnExpired(p) ==
    /\ req[p] \in {Idle, Looping}
    /\ ~Locked(p)
    /\ row.status \in Active
    /\ TRUE \in Expired
    /\ announced' = announced \cup {"expired"}
    /\ Done(p)
    /\ UNCHANGED <<row, offers, ttlPassed, overlapped>>

\* The LLM answers, the offer is added, and the row and the offer are written.
Think(p) ==
    /\ req[p].pc = "think"
    /\ ~Locked(p)
    /\ \E expired \in Expired : \E t \in Turns(req[p].session, expired) :
          /\ CanAddOffer(t.session)
          /\ req' = [req EXCEPT
                ![p] = [pc |-> IF t.closing = "none" THEN "commit" ELSE "conclude",
                        session |-> AddOffer(t.session, NextProposer(t.session)),
                        closing |-> t.closing]]
    /\ UNCHANGED <<row, offers, ttlPassed, announced, overlapped>>

\* All retries of the LLM failed, or the rounds are used up: nothing is written.
TurnFails(p) ==
    /\ req[p].pc = "think"
    /\ Done(p)
    /\ UNCHANGED <<row, offers, ttlPassed, announced, overlapped>>

\* Mutation check only: the event is left to be published after the commit.
ConcludeQuietly(p) ==
    /\ req[p].pc = "conclude"
    /\ \E word \in WordsOf(req[p].closing) :
          req' = [req EXCEPT ![p].session.row.status = Outcome(req[p].session, word),
                             ![p].pc = "commit"]
    /\ UNCHANGED <<row, offers, ttlPassed, announced, overlapped>>

\* The handler of the outcome: mark, write, publish.
Conclude(p) ==
    /\ req[p].pc = "conclude"
    /\ \E word \in WordsOf(req[p].closing) :
          LET outcome == Outcome(req[p].session, word)
          IN  /\ req' = [req EXCEPT ![p].session.row.status = outcome,
                                    ![p].pc = "commit"]
              /\ announced' = announced \cup {EventOf[outcome]}
    /\ UNCHANGED <<row, offers, ttlPassed, overlapped>>

\* Mutation check only: the offer of a turn that closes the session is not saved.
CommitTurnOpenOffersOnly(p) ==
    /\ req[p].pc = "commit"
    /\ WriteRow(p)
    /\ IF req[p].closing = "none" THEN InsertOffer(req[p].session, FALSE)
                                  ELSE UNCHANGED offers
    /\ Done(p)
    /\ UNCHANGED <<ttlPassed, announced, overlapped>>

\* A turn of run_auto_negotiation is followed by another round of its loop.
CommitTurn(p) ==
    /\ req[p].pc = "commit"
    /\ WriteRow(p)
    /\ InsertOffer(req[p].session, FALSE)
    /\ Done(p) \/ (Len(offers) + 1 < MaxOffers /\ req' = [req EXCEPT ![p] = Looping])
    /\ UNCHANGED <<ttlPassed, announced, overlapped>>

----------------------------------------------------------------------------
(* apply_human_override and terminate_session. *)

\* Mutation check only: an override also reopens a session that has ended.
StartOverrideAlways(p) == \E s \in Loaded : Begin(p, "override", Resume(s))

\* The human speaks for the buyer, whoever's turn it is.
StartOverride(p) ==
    \E s \in Loaded :
        \/ s.row.status \in Active /\ Begin(p, "override", s)
        \/ s.row.status = "HUMAN_REVIEW" /\ Begin(p, "override", Resume(s))

Override(p) ==
    /\ req[p].pc = "override"
    /\ ~Locked(p)
    /\ IF CanAddOffer(req[p].session)
       THEN LET s == AddOffer(req[p].session, "BUYER")
            IN  row' = s.row /\ InsertOffer(s, TRUE)
       ELSE UNCHANGED <<row, offers>>
    /\ Done(p)
    /\ UNCHANGED <<ttlPassed, announced, overlapped>>

StartTerminate(p) ==
    \E s \in Loaded :
        /\ s.row.status \in Active \cup {"HUMAN_REVIEW"}
        /\ Begin(p, "terminate", [s EXCEPT !.row.status = "FAILED"])

Terminate(p) ==
    /\ req[p].pc = "terminate"
    /\ ~Locked(p)
    /\ WriteRow(p)
    /\ req' = [req EXCEPT ![p].pc = "publish"]
    /\ UNCHANGED <<offers, ttlPassed, announced, overlapped>>

PublishTermination(p) ==
    /\ req[p].pc = "publish"
    /\ announced' = announced \cup {"failed"}
    /\ Done(p)
    /\ UNCHANGED <<row, offers, ttlPassed, overlapped>>

----------------------------------------------------------------------------

\* The request dies or its connection is cancelled; what is not committed is
\* rolled back.
Abandon(p) ==
    /\ Faults
    /\ req[p] # Idle
    /\ Done(p)
    /\ UNCHANGED <<row, offers, ttlPassed, announced, overlapped>>

TtlPasses ==
    /\ row # NoRow /\ ~ttlPassed
    /\ ttlPassed' = TRUE
    /\ UNCHANGED <<row, offers, announced, overlapped, req>>

Request(p) ==
    \/ StartCreate(p)
    \/ Create(p)
    \/ StartTurn(p)
    \/ LoopTurn(p)
    \/ LoopEnds(p)
    \/ TurnExpired(p)
    \/ Think(p)
    \/ TurnFails(p)
    \/ Conclude(p)
    \/ CommitTurn(p)
    \/ StartOverride(p)
    \/ Override(p)
    \/ StartTerminate(p)
    \/ Terminate(p)
    \/ PublishTermination(p)
    \/ Abandon(p)

Next == TtlPasses \/ \E p \in Requests : Request(p)

Spec == Init /\ [][Next]_vars

----------------------------------------------------------------------------
(* Properties. *)

\* An outcome that has been committed has been announced, even if the process
\* dies at the worst moment: the subscribers (the escrow deployment and the
\* audit log among them) cannot miss an agreement that the row shows.  Turns
\* publish before they commit; terminate_session, which does not, is excluded.
OutcomeIsAnnounced ==
    row.status \in DOMAIN EventOf => EventOf[row.status] \in announced

\* As long as no two requests overlap, a session that has ended stays as it is:
\* no late turn, override or termination changes its row or adds an offer.
OutcomeIsFinal ==
    [][~overlapped /\ row.status \in Terminal => UNCHANGED <<row, offers>>]_vars

\* As long as no two requests overlap, the row counts its offers, which are
\* numbered without gaps or repetitions, and the sides alternate except where
\* a human stepped in - through rollbacks, reviews and resumptions.
OffersAreInOrder ==
    ~overlapped =>
        /\ row.round = Len(offers)
        /\ \A i \in DOMAIN offers : offers[i].round = i
        /\ \A i \in DOMAIN offers \ {1} :
              offers[i].role # offers[i - 1].role \/ offers[i].human

\* Whatever the interleaving, no round is skipped: the rounds of the offers are
\* those up to the last one, and the row is at one of them, even when a stale
\* copy has set it back.
RoundsAreUsed ==
    LET Rounds == {offers[i].round : i \in DOMAIN offers}
    IN  /\ \A k \in Rounds : 1..k \subseteq Rounds
        /\ row.round \in Rounds \cup {0}

\* As long as no two requests overlap, the state of the protocol says who has
\* spoken: nobody yet, only the buyer's side, or both sides.
PhaseMatchesOffers ==
    LET Sides == {offers[i].role : i \in DOMAIN offers}
    IN  ~overlapped =>
            /\ row.status = "BUYER_ANCHOR" => Sides = {}
            /\ row.status = "SELLER_RESPONSE" => Sides = {"BUYER"}
            /\ row.status \in {"ROUND_LOOP", "HUMAN_REVIEW"} => Sides = Roles

----------------------------------------------------------------------------
(* What the repository says of this code and the code does not do. *)

\* "ROUND_LOOP -> AGREED (Gap <= 2%)", "ROUND_LOOP -> WALK_AWAY (Reject)"
\* (session.py), and a stall goes to HUMAN_REVIEW (SRS-FR-055): SessionAgreed is
\* published for a turn that accepted or converged, and for no other.
AgreementIsMutual ==
    [][\A p \in Requests :
          req[p].pc = "conclude" /\ req'[p].session.row.status = "AGREED" =>
              req[p].closing \in {"accept", "converged"}]_vars

\* "The system SHALL create a NegotiationSession for each confirmed RFQ match"
\* (SRS-FR-050): a create_session that is not interrupted leaves a session.
MatchGetsSession ==
    [][\A p \in Requests :
          req[p].pc = "create" /\ req'[p] = Idle => row' # NoRow]_vars

=============================================================================
