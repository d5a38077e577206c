------------------------------ MODULE Accounts ------------------------------
(***************************************************************************)
(* The identity context: registration, KYC, agent configuration, login,    *)
(* the linking of an Algorand wallet by challenge and signature, and the   *)
(* administrator's actions on enterprises and users.                       *)
(*                                                                         *)
(* A request loads an enterprise (or a user), changes the copy, and writes *)
(* it back: the repository reads the row a second time and assigns every   *)
(* column, and the ORM sends the columns in which the copy differs from    *)
(* that second reading.  Other requests commit in between.                 *)
(*                                                                         *)
(* The administrator's actions only flush: EndsOf says how the session of  *)
(* such a request ends.  As the code is wired get_db_session never         *)
(* commits, which is {"rollback"}; {"commit", "rollback"} makes the        *)
(* properties independent of that omission.                                *)
(*                                                                         *)
(* Abstracted: one user per enterprise (nothing creates a second), the     *)
(* password check, tokens (they carry no state), the columns no operation  *)
(* changes.  Not here: API keys, and verify_kyc, which no route calls;     *)
(* unlinking a wallet always raises (Enterprise has no                     *)
(* unlink_algorand_wallet), so that it changes nothing.                    *)
(***************************************************************************)
EXTENDS Naturals, FiniteSets

CONSTANTS
    Enterprises,  \* would-be enterprises with their first user
    KeyOf,        \* per table column with a unique constraint, the enterprise's value
    Roles,        \* role a user may register with
    Workers,      \* concurrent requests
    Keys,         \* signing keys, each named by its Algorand address
    Addresses,    \* the addresses a client asks to link
    Challenges,   \* challenge ids, each drawn once
    Configs,      \* agent configurations
    EndsOf,       \* how a request that only flushes ends
    MaxRequests,  \* model bound: requests after registration
    None

KycStatus == {"PENDING", "KYC_SUBMITTED", "VERIFIED", "ACTIVE"}

\* A row of the tables enterprises and users.
EnterpriseRow == [kyc : KycStatus, docs : BOOLEAN, wallet : Addresses \cup {None},
                  config : Configs \cup {None}]

UserRow == [active : BOOLEAN, role : Roles]

\* What the constants are; MCServices assumes it.
AccountsAssumption ==
    /\ \A e \in Enterprises : DOMAIN KeyOf[e] = {"pan", "gstin", "email"}
    /\ Addresses \subseteq Keys
    /\ EndsOf \subseteq {"commit", "rollback"} /\ MaxRequests \in Nat
    /\ None \notin Addresses \cup Configs \cup Enterprises \cup EnterpriseRow \cup UserRow

VARIABLES
    row,        \* table enterprises
    user,       \* table users
    challenge,  \* Redis: the enterprise a live challenge was drawn for
    drawn,      \* challenge ids used up
    request,    \* the requests in flight
    kept,       \* per enterprise, what its operations have written; None once two overlapped
    proven,     \* per enterprise, the addresses whose key has signed a live challenge in its requests
    started     \* requests counted by MaxRequests

vars == <<row, user, challenge, drawn, request, kept, proven, started>>

Idle == [op |-> "none"]

InFlight(e) == {p \in Workers : request[p].op # "none" /\ request[p].of = e}

\* Requests that hold a copy of e's row in the table enterprises.
Holding(e) == {p \in InFlight(e) : request[p].op \in {"submit", "config", "link", "admin kyc"}}

\* A request loads a copy of the row next to others that hold one.
NoteOverlap(e) == kept' = IF Holding(e) = {} THEN kept ELSE [kept EXCEPT ![e] = None]

----------------------------------------------------------------------------
(* Registration. *)

\* The unique constraints: an insert of e's row into the table of these
\* columns is refused when another row has one of its values.
Unique(e, columns) ==
    \A d \in Enterprises \ {e}, c \in columns :
        (IF c = "email" THEN user[d] ELSE row[d]) # None => KeyOf[d][c] # KeyOf[e][c]

NewRow == [kyc |-> "PENDING", docs |-> FALSE, wallet |-> None, config |-> None]

\* register_enterprise: none of the three keys is found.
CheckUnique(p, e) ==
    /\ request[p].op = "none" /\ row[e] = None /\ InFlight(e) = {}
    /\ Unique(e, {"pan", "gstin", "email"})
    /\ \E r \in Roles :
         request' = [request EXCEPT ![p] = [op |-> "register", of |-> e, role |-> r]]
    /\ UNCHANGED <<row, user, challenge, drawn, kept, proven, started>>

\* Mutation check only: two transactions, of which the second may be refused.
InsertBothApart(p) ==
    LET e == request[p].of
    IN  /\ request[p].op = "register"
        /\ row' = IF Unique(e, {"pan", "gstin"}) THEN [row EXCEPT ![e] = NewRow] ELSE row
        /\ user' = IF row'[e] # None /\ Unique(e, {"email"})
                   THEN [user EXCEPT ![e] = [active |-> TRUE, role |-> request[p].role]]
                   ELSE user
        /\ kept' = [kept EXCEPT ![e] = row'[e]]
        /\ request' = [request EXCEPT ![p] = Idle]
        /\ UNCHANGED <<challenge, drawn, proven, started>>

\* ... and both rows are inserted in one transaction, which a unique
\* constraint may refuse as a whole.
InsertBoth(p) ==
    LET e == request[p].of
        accepted == Unique(e, {"pan", "gstin"}) /\ Unique(e, {"email"})
    IN  /\ request[p].op = "register"
        /\ row' = IF accepted THEN [row EXCEPT ![e] = NewRow] ELSE row
        /\ user' = IF accepted
                   THEN [user EXCEPT ![e] = [active |-> TRUE, role |-> request[p].role]]
                   ELSE user
        /\ kept' = IF accepted THEN [kept EXCEPT ![e] = row'[e]] ELSE kept
        /\ request' = [request EXCEPT ![p] = Idle]
        /\ UNCHANGED <<challenge, drawn, proven, started>>

----------------------------------------------------------------------------
(* Operations on an enterprise's row: what each makes of the copy, or no   *)
(* record where it raises, and the columns it means to change.             *)

\* Mutation check only: the copy was loaded without its other columns.
SubmitKycAfresh(copy) ==
    IF copy.kyc = "PENDING" THEN {[NewRow EXCEPT !.kyc = "KYC_SUBMITTED", !.docs = TRUE]} ELSE {}

\* Enterprise.submit_kyc
SubmitKyc(copy) ==
    IF copy.kyc = "PENDING" THEN {[copy EXCEPT !.kyc = "KYC_SUBMITTED", !.docs = TRUE]} ELSE {}

\* IdentityService.update_agent_config with an __agent_config__, the only
\* form the route sends.
UpdateAgentConfig(copy) == {[copy EXCEPT !.config = c] : c \in Configs}

\* Enterprise.link_algorand_wallet
LinkWallet(copy, a) == IF copy.wallet = None THEN {[copy EXCEPT !.wallet = a]} ELSE {}

Results(op, copy, a) ==
    CASE op = "submit" -> SubmitKyc(copy)
      [] op = "config" -> UpdateAgentConfig(copy)
      [] op = "link" -> LinkWallet(copy, a)

Columns(op) ==
    CASE op = "submit" -> {"kyc", "docs"} [] op = "config" -> {"config"} [] op = "link" -> {"wallet"}

\* get_current_user and require_role("ADMIN") at the head of a route.
Admitted(e) == user[e] # None /\ user[e].active /\ user[e].role = "ADMIN"

\* A route that loads the enterprise at once.
Load(p, e) ==
    /\ request[p].op = "none" /\ Admitted(e) /\ started < MaxRequests
    /\ \E op \in {"submit", "config"} : \E new \in Results(op, row[e], None) :
         request' = [request EXCEPT ![p] =
                        [op |-> op, of |-> e, pc |-> "select", new |-> new]]
    /\ NoteOverlap(e) /\ started' = started + 1
    /\ UNCHANGED <<row, user, challenge, drawn, proven>>

\* PostgresEnterpriseRepository.update reads the row a second time ...
Reselect(p) ==
    /\ request[p].op \in {"submit", "config", "link"} /\ request[p].pc = "select"
    /\ request' = [request EXCEPT ![p] =
                     [op |-> @.op, of |-> @.of, pc |-> "update", new |-> @.new, base |-> row[@.of]]]
    /\ UNCHANGED <<row, user, challenge, drawn, kept, proven, started>>

\* The columns an UPDATE sends: those in which the copy differs.
Overlay(now, base, new) ==
    [c \in DOMAIN now |-> IF new[c] # base[c] THEN new[c] ELSE now[c]]

Stamp(e, new, columns) ==
    IF kept[e] = None THEN kept
    ELSE [kept EXCEPT ![e] = [c \in DOMAIN @ |-> IF c \in columns THEN new[c] ELSE @[c]]]

\* ... and the unit of work commits.
Commit(p) ==
    LET r == request[p]
    IN  /\ r.op \in {"submit", "config", "link"} /\ r.pc = "update"
        /\ row' = [row EXCEPT ![r.of] = Overlay(@, r.base, r.new)]
        /\ kept' = Stamp(r.of, r.new, Columns(r.op))
        /\ request' = [request EXCEPT ![p] = Idle]
        /\ UNCHANGED <<user, challenge, drawn, proven, started>>

----------------------------------------------------------------------------
(* Login writes the user's row from the copy it loaded. *)

Login(p, e) ==
    /\ request[p].op = "none" /\ started < MaxRequests
    /\ user[e] # None /\ user[e].active
    /\ request' = [request EXCEPT ![p] = [op |-> "login", of |-> e, new |-> user[e]]]
    /\ started' = started + 1
    /\ UNCHANGED <<row, user, challenge, drawn, kept, proven>>

RecordLogin(p) ==
    /\ request[p].op = "login"
    /\ user' = [user EXCEPT ![request[p].of] = request[p].new]
    /\ request' = [request EXCEPT ![p] = Idle]
    /\ UNCHANGED <<row, challenge, drawn, kept, proven, started>>

----------------------------------------------------------------------------
(* Wallet challenges. *)

\* The identity API draws a challenge for the enterprise of the path.
Challenge(e, ch) ==
    /\ \E admin \in Enterprises : Admitted(admin)
    /\ ch \notin drawn
    /\ challenge' = [challenge EXCEPT ![ch] = e]
    /\ drawn' = drawn \cup {ch}
    /\ UNCHANGED <<row, user, request, kept, proven, started>>

\* The wallet API draws one for the caller's own, and deletes its earlier
\* ones first, as far as Redis lets it.
ChallengeAnew(e, ch) ==
    /\ user[e] # None /\ user[e].active /\ ch \notin drawn
    /\ \E deleted \in SUBSET {d \in Challenges : challenge[d] = e} :
         challenge' = [d \in Challenges |->
                         IF d = ch THEN e ELSE IF d \in deleted THEN None ELSE challenge[d]]
    /\ drawn' = drawn \cup {ch}
    /\ UNCHANGED <<row, user, request, kept, proven, started>>

\* The five minutes of a challenge are over.
Expire(ch) ==
    /\ challenge[ch] # None
    /\ challenge' = [challenge EXCEPT ![ch] = None]
    /\ UNCHANGED <<row, user, drawn, request, kept, proven, started>>

\* The challenges a link request may be verified against.  Identity API, for
\* administrators: the one the client names, whoever it was drawn for.
\* Wallet API: one of the enterprise's own, unless another enterprise has
\* the address.
Named(e) == IF Admitted(e) THEN {ch \in Challenges : challenge[ch] # None} ELSE {}
Scanned(e, a) ==
    IF \E d \in Enterprises \ {e} : row[d] # None /\ row[d].wallet = a THEN {}
    ELSE {ch \in Challenges : challenge[ch] = e}

\* Mutation check only: the signature may be over any challenge there was.
SignedOnce(a, ch, sig) == sig.key = a

\* verify_challenge: the signature covers the nonce of the challenge found
\* and was made with the key of the address.
Signed(a, ch, sig) == sig.key = a /\ sig.over = ch

\* A link request reads its challenge and verifies the signature.
Verify(p, e, a, sig) ==
    /\ request[p].op = "none" /\ started < MaxRequests
    /\ user[e] # None /\ user[e].active /\ sig.over \in drawn
    /\ \E ch \in Named(e) \cup Scanned(e, a) :
         request' = [request EXCEPT ![p] =
                       [op |-> "verify", of |-> e, addr |-> a, ch |-> ch, valid |-> Signed(a, ch, sig)]]
    /\ proven' = IF challenge[sig.over] # None THEN [proven EXCEPT ![e] = @ \cup ({sig.key} \cap Addresses)] ELSE proven
    /\ started' = started + 1
    /\ UNCHANGED <<row, user, challenge, drawn, kept>>

\* The challenge is deleted whatever the answer; a valid signature goes on
\* to link_wallet, which loads the enterprise and asks for an administrator.
UseUp(p) ==
    LET r == request[p]
        copies == IF r.valid /\ user[r.of].role = "ADMIN"
                  THEN Results("link", row[r.of], r.addr) ELSE {}
    IN  /\ r.op = "verify"
        /\ challenge' = [challenge EXCEPT ![r.ch] = None]
        /\ \/ /\ NoteOverlap(r.of)
              /\ \E new \in copies :
                   request' = [request EXCEPT ![p] =
                                 [op |-> "link", of |-> r.of, pc |-> "select", new |-> new]]
           \/ /\ copies = {}
              /\ request' = [request EXCEPT ![p] = Idle]
              /\ kept' = kept
        /\ UNCHANGED <<row, user, drawn, proven, started>>

----------------------------------------------------------------------------
(* The administrator. *)

\* AdminService.apply_kyc_action: the status each action asks for, and the
\* one it sets.
KycActions ==
    { [from |-> {"KYC_SUBMITTED"}, to |-> "ACTIVE"],
      [from |-> {"KYC_SUBMITTED"}, to |-> "PENDING"],
      [from |-> {"VERIFIED", "ACTIVE"}, to |-> "PENDING"] }

AdminKyc(p, e) ==
    /\ request[p].op = "none" /\ started < MaxRequests /\ row[e] # None
    /\ \E admin \in Enterprises : Admitted(admin)
    /\ \E act \in KycActions :
         /\ row[e].kyc \in act.from
         /\ request' = [request EXCEPT ![p] = [op |-> "admin kyc", of |-> e, kyc |-> act.to]]
    /\ NoteOverlap(e) /\ started' = started + 1
    /\ UNCHANGED <<row, user, challenge, drawn, proven>>

\* AdminService.suspend_user
AdminSuspend(p, e) ==
    /\ request[p].op = "none" /\ started < MaxRequests /\ user[e] # None
    /\ \E admin \in Enterprises : Admitted(admin)
    /\ \E active \in BOOLEAN :
         /\ ~ active => user[e].role # "ADMIN"
         /\ request' = [request EXCEPT ![p] = [op |-> "admin user", of |-> e, active |-> active]]
    /\ started' = started + 1
    /\ UNCHANGED <<row, user, challenge, drawn, kept, proven>>

\* The session of the administrator's request is closed.
AdminEnd(p) ==
    LET r == request[p]
    IN  /\ r.op \in {"admin kyc", "admin user"}
        /\ \E end \in EndsOf :
             /\ row' = IF end = "commit" /\ r.op = "admin kyc"
                       THEN [row EXCEPT ![r.of].kyc = r.kyc] ELSE row
             /\ user' = IF end = "commit" /\ r.op = "admin user"
                        THEN [user EXCEPT ![r.of].active = r.active] ELSE user
             /\ kept' = IF end = "commit" THEN Stamp(r.of, row'[r.of], {"kyc"}) ELSE kept
        /\ request' = [request EXCEPT ![p] = Idle]
        /\ UNCHANGED <<challenge, drawn, proven, started>>

----------------------------------------------------------------------------

\* A request dies, or its connection is lost.
Die(p) ==
    /\ request[p].op # "none"
    /\ request' = [request EXCEPT ![p] = Idle]
    /\ UNCHANGED <<row, user, challenge, drawn, kept, proven, started>>

Init ==
    /\ row = [e \in Enterprises |-> None]
    /\ user = [e \in Enterprises |-> None]
    /\ challenge = [ch \in Challenges |-> None]
    /\ drawn = {}
    /\ request = [p \in Workers |-> Idle]
    /\ kept = [e \in Enterprises |-> None]
    /\ proven = [e \in Enterprises |-> {}]
    /\ started = 0

Next ==
    \/ \E p \in Workers :
         \/ InsertBoth(p) \/ Reselect(p) \/ Commit(p) \/ RecordLogin(p)
         \/ UseUp(p) \/ AdminEnd(p) \/ Die(p)
         \/ \E e \in Enterprises :
              \/ CheckUnique(p, e) \/ Load(p, e) \/ Login(p, e)
              \/ AdminKyc(p, e) \/ AdminSuspend(p, e)
              \/ \E a \in Addresses, sig \in [key : Keys, over : Challenges] :
                   Verify(p, e, a, sig)
    \/ \E e \in Enterprises, ch \in Challenges :
         Challenge(e, ch) \/ ChallengeAnew(e, ch)
    \/ \E ch \in Challenges : Expire(ch)

Spec == Init /\ [][Next]_vars

----------------------------------------------------------------------------
(* Properties. *)

\* Every table row and every request in flight is one the code can make.
TypeOK ==
    /\ \A e \in Enterprises :
         /\ row[e] \in EnterpriseRow \cup {None} /\ user[e] \in UserRow \cup {None}
         /\ kept[e] = None \/ row[e] # None
    /\ challenge \in [Challenges -> Enterprises \cup {None}] /\ drawn \subseteq Challenges
    /\ \A p \in Workers : request[p].op # "none" => request[p].of \in Enterprises
    /\ \A p \in Workers : request[p].op \in {"submit", "config", "link"} =>
         row[request[p].of] # None /\ DOMAIN request[p].new = DOMAIN NewRow
    /\ proven \in [Enterprises -> SUBSET Addresses] /\ started \in 0 .. MaxRequests

\* However two registrations interleave between the look-up of the keys and
\* the insert, no two enterprises end up with one PAN, GSTIN or e-mail
\* address, and none is left without the user that registered it.
RegistrationIsConsistent ==
    \A e \in Enterprises :
        /\ row[e] = None <=> user[e] = None
        /\ row[e] # None => \A d \in Enterprises \ {e}, c \in {"pan", "gstin", "email"} :
             row[d] # None => KeyOf[d][c] # KeyOf[e][c]

\* As long as no two requests have held copies of one enterprise's row at the
\* same time, each column has the value its own operation wrote last: an
\* update writes all columns and gives none of them back.
WritesAreKept == \A e \in Enterprises : kept[e] # None => row[e] = kept[e]

\* A linked wallet is one whose key has signed a live challenge in a request
\* of that very enterprise, whatever expired, was drawn anew or was written
\* back from a stale copy in between.
WalletIsProven ==
    \A e \in Enterprises :
        row[e] # None => row[e].wallet = None \/ row[e].wallet \in proven[e]

=============================================================================
