------------------------------ MODULE Profiles ------------------------------
(***************************************************************************)
(* The agent profiles of the enterprises, which every agreement of theirs  *)
(* updates.  A turn loads the session and then the profiles of buyer and   *)
(* seller, waits for the language model, and - when the sides agree -      *)
(* writes the session, publishes SessionAgreed, and overwrites both        *)
(* profiles, the buyer's first, with what update_after_session made of the *)
(* copies.  An UPDATE keeps its row locked until the transaction ends.     *)
(* Negotiation models the turns of one session; this module the several    *)
(* sessions of an enterprise, whose turns meet in its profile.             *)
(*                                                                         *)
(* Abstracted: a profile is its automation level and how many agreements   *)
(* its averages have absorbed.  Every copy has version 1, so that each     *)
(* agreement is weighed 1/2.  No other outcome is learned from.  Both      *)
(* profiles are loaded in one step.                                        *)
(***************************************************************************)
EXTENDS Naturals, FiniteSets

CONSTANTS
    Parties,     \* enterprises
    Dealings,    \* sessions
    BuyerIn, SellerIn,  \* the enterprises of a session
    Turns,       \* concurrent turns
    MaxAgreed    \* model bound: agreements announced of one enterprise

ProfilesAssumption ==
    /\ BuyerIn \in [Dealings -> Parties] /\ SellerIn \in [Dealings -> Parties]
    /\ \A s \in Dealings : BuyerIn[s] # SellerIn[s]
    /\ MaxAgreed \in Nat

VARIABLES
    profile,   \* table agent_profiles
    session,   \* per session, the status of its row
    agreed,    \* per enterprise, how often SessionAgreed was published of a session of its
    met,       \* enterprises of two turns that were in flight at the same time
    doing      \* the turns in flight

profileVars == <<profile, session, agreed, met, doing>>

----------------------------------------------------------------------------

\* The CHECK of the table, and what the domain calls FULLY_AUTONOMOUS.
Storable(level) == level \in {"FULLY_AUTONOMOUS", "SUPERVISED", "MANUAL"}

ToDomain(level) == IF level = "FULLY_AUTONOMOUS" THEN "FULL" ELSE level

Absent == [level |-> "absent", learned |-> 0]

Default == [level |-> "FULL", learned |-> 0]

PartiesOf(s) == {BuyerIn[s], SellerIn[s]}

NoTurn == [pc |-> "idle", session |-> "none", buyer |-> Absent, seller |-> Absent,
           held |-> {}, kept |-> {}]

Init ==
    /\ profile \in [Parties -> {Absent} \cup
                      [level : {"FULLY_AUTONOMOUS", "SUPERVISED"}, learned : {0}]]
    /\ session = [s \in Dealings |-> "none"]
    /\ agreed = [e \in Parties |-> 0]
    /\ met = {}
    /\ doing = [p \in Turns |-> NoTurn]

\* create_session gives a party without a profile the default one; the INSERT
\* fails when the table does not accept its level, and the request with it.
CreateSession(s) ==
    LET missing == {e \in PartiesOf(s) : profile[e] = Absent}
    IN  /\ session[s] = "none"
        /\ missing # {} => Storable(Default.level)
        /\ session' = [session EXCEPT ![s] = "open"]
        /\ profile' = [e \in Parties |-> IF e \in missing THEN Default ELSE profile[e]]
        /\ UNCHANGED <<agreed, met, doing>>

----------------------------------------------------------------------------
(* run_agent_turn. *)

\* get_by_enterprise.
Loaded(e) == [profile[e] EXCEPT !.level = ToDomain(@)]

LoadSession(p, s) ==
    /\ doing[p] = NoTurn
    /\ session[s] = "open" /\ \A e \in PartiesOf(s) : agreed[e] < MaxAgreed
    /\ doing' = [doing EXCEPT ![p] = [NoTurn EXCEPT !.pc = "load", !.session = s]]
    /\ met' = met \cup {e \in PartiesOf(s) :
                  \E q \in Turns \ {p} : doing[q] # NoTurn /\ e \in PartiesOf(doing[q].session)}
    /\ UNCHANGED <<profile, session, agreed>>

LoadProfiles(p) ==
    /\ doing[p].pc = "load"
    /\ doing' = [doing EXCEPT ![p].pc = "think",
                              ![p].buyer = Loaded(BuyerIn[doing[p].session]),
                              ![p].seller = Loaded(SellerIn[doing[p].session])]
    /\ UNCHANGED <<profile, session, agreed, met>>

SessionRow(s) == <<"session", s>>
ProfileRow(e) == <<"profile", e>>

Holds(p, row) == row \in doing[p].held

Free(p, row) == \A q \in Turns \ {p} : ~Holds(q, row)

\* A turn that does not agree leaves the profiles alone, and writes the status its
\* copy has, over whatever the row has by now.
NoAgreement(p) ==
    LET s == doing[p].session
    IN  /\ doing[p].pc = "think"
        /\ Free(p, SessionRow(s))
        /\ \E status \in {"open", "closed"} : session' = [session EXCEPT ![s] = status]
        /\ doing' = [doing EXCEPT ![p] = NoTurn]
        /\ UNCHANGED <<profile, agreed, met>>

\* _handle_agreement writes the session and publishes before it learns.
Agree(p) ==
    LET s == doing[p].session
    IN  /\ doing[p].pc = "think"
        /\ Free(p, SessionRow(s))
        /\ agreed' = [e \in Parties |-> IF e \in PartiesOf(s) THEN agreed[e] + 1 ELSE agreed[e]]
        /\ doing' = [doing EXCEPT ![p].pc = "buyer", ![p].held = {SessionRow(s)}]
        /\ UNCHANGED <<profile, session, met>>

\* The profile that p writes next, and the copy it writes.
Written(p) ==
    IF doing[p].pc = "buyer" THEN BuyerIn[doing[p].session] ELSE SellerIn[doing[p].session]

\* update_after_session of the copy.
Updated(copy) == [copy EXCEPT !.learned = @ + 1]

Copy(p) == IF doing[p].pc = "buyer" THEN doing[p].buyer ELSE doing[p].seller

\* Mutation check only: each update is kept by itself, whatever follows it.
UpdateProfileAtOnce(p) ==
    LET e == Written(p)  row == Updated(Copy(p))
    IN  /\ doing[p].pc \in {"buyer", "seller"}
        /\ Free(p, ProfileRow(e))
        /\ doing' = [doing EXCEPT ![p].pc = IF ~Storable(row.level) THEN "failed"
                                            ELSE IF @ = "buyer" THEN "seller" ELSE "end"]
        /\ profile' = IF Storable(row.level) THEN [profile EXCEPT ![e] = row] ELSE profile
        /\ UNCHANGED <<session, agreed, met>>

\* A turn that has written a profile, which it holds from then on.
Stored(turn, e, row) ==
    [turn EXCEPT !.pc = IF @ = "buyer" THEN "seller" ELSE "end",
                 !.held = @ \cup {ProfileRow(e)},
                 !.kept = @ \cup {[of |-> e, row |-> row]}]

\* update: every column, if the table accepts the level.
UpdateProfile(p) ==
    LET e == Written(p)  row == Updated(Copy(p))
    IN  /\ doing[p].pc \in {"buyer", "seller"}
        /\ Free(p, ProfileRow(e))
        /\ doing' = [doing EXCEPT ![p] = IF Storable(row.level) THEN Stored(doing[p], e, row)
                                        ELSE [doing[p] EXCEPT !.pc = "failed"]]
        /\ UNCHANGED <<profile, session, agreed, met>>

\* Two turns that wait for the profiles of one another: Postgres fails one.
Waits(p, q) ==
    doing[p].pc \in {"buyer", "seller"} /\ Holds(q, ProfileRow(Written(p)))

BreakDeadlock(p) ==
    /\ \E q \in Turns \ {p} : Waits(p, q) /\ Waits(q, p)
    /\ doing' = [doing EXCEPT ![p].pc = "failed"]
    /\ UNCHANGED <<profile, session, agreed, met>>

CommitTurn(p) ==
    /\ doing[p].pc = "end"
    /\ session' = [session EXCEPT ![doing[p].session] = "agreed"]
    /\ profile' = [e \in Parties |->
                     IF \E k \in doing[p].kept : k.of = e
                     THEN (CHOOSE k \in doing[p].kept : k.of = e).row ELSE profile[e]]
    /\ doing' = [doing EXCEPT ![p] = NoTurn]
    /\ UNCHANGED <<agreed, met>>

\* A statement failed, or the request dies before its commit: nothing is kept,
\* but what has been published.
RollBack(p) ==
    /\ doing[p].pc \in {"load", "think", "buyer", "seller", "end", "failed"}
    /\ doing' = [doing EXCEPT ![p] = NoTurn]
    /\ UNCHANGED <<profile, session, agreed, met>>

Next ==
    \/ \E s \in Dealings : CreateSession(s)
    \/ \E p \in Turns :
          \/ \E s \in Dealings : LoadSession(p, s)
          \/ LoadProfiles(p) \/ NoAgreement(p) \/ Agree(p) \/ UpdateProfile(p)
          \/ BreakDeadlock(p) \/ CommitTurn(p) \/ RollBack(p)

Spec == Init /\ [][Next]_profileVars

----------------------------------------------------------------------------
(* Properties. *)


DealingsOf(e) == {s \in Dealings : e \in PartiesOf(s)}

\* A profile has learned from exactly the agreements that were committed, with
\* the other side's, unless two turns of the enterprise were in flight together:
\* then one may be lost with an overwritten copy, or be learned twice, but never
\* one that was not announced.  An enterprise that is FULLY_AUTONOMOUS never has
\* an agreement, however often one is announced: the profile cannot be stored.
ProfilesLearnAgreements ==
    \A e \in Parties :
        LET done == {s \in DealingsOf(e) : session[s] = "agreed"}
        IN  /\ profile[e].learned <= agreed[e]
            /\ e \notin met => profile[e].learned = Cardinality(done)
            /\ done # {} => profile[e].learned > 0 /\ profile[e].level # "FULLY_AUTONOMOUS"
=============================================================================
