------------------------------- MODULE Sessions -------------------------------
(***************************************************************************)
(* Who may do what: JWTService, the login, refresh and API key operations  *)
(* of IdentityService, get_current_user and                                *)
(* get_current_enterprise_from_api_key, and the administrator's suspending *)
(* and reinstating of users.  An access token lives 15 minutes, a refresh  *)
(* token 30 days; a token is checked first and its user loaded later.      *)
(*                                                                         *)
(* A client keeps the last access token and the last refresh token it was  *)
(* given (an answer is lost when its request ends before); the 7 days      *)
(* after which a browser drops the cookie are up to the client.  As in     *)
(* Accounts an enterprise has one user, and EndsOf says how the session of *)
(* an administrator's request ends.  The users are those who can be        *)
(* suspended, which is all but administrators; the request of an           *)
(* administrator begins here when it has been let in.                      *)
(*                                                                         *)
(* Abstracted: signatures and hashes (nobody forges one; JWT_SECRET_KEY is *)
(* set, without which the service and the dependency hash a key with       *)
(* different defaults), passwords, the other claims, and the role, which   *)
(* nothing changes.                                                        *)
(***************************************************************************)
EXTENDS Integers, FiniteSets

CONSTANTS
    Users,
    Workers,       \* concurrent requests
    ApiKeys,       \* raw keys, each drawn once
    EndsOf,        \* how a request that only flushes ends
    AccessLife, RefreshLife,
    MaxWait,       \* how long a request takes
    MaxClock       \* model bound

SessionsAssumption ==
    /\ AccessLife \in Nat /\ RefreshLife \in Nat /\ AccessLife < RefreshLife
    /\ MaxWait \in Nat /\ MaxClock \in Nat
    /\ EndsOf \subseteq {"commit", "rollback"}

VARIABLES
    clock,
    active,    \* column users.is_active
    held,      \* the tokens each user's client keeps
    apiKey,    \* table api_keys: per key "none", "active" or "revoked", and its user
    visit      \* what each request is doing

sessionVars == <<clock, active, held, apiKey, visit>>

Idle == [op |-> "none"]
NoToken == [type |-> "none"]
NoKey == [status |-> "none"]

----------------------------------------------------------------------------
(* JWTService.  A token also says when its holder logged in.  *)

CreateAccessToken(login) == [type |-> "access", until |-> clock + AccessLife, login |-> login]
CreateRefreshToken == [type |-> "refresh", until |-> clock + RefreshLife, login |-> clock]

Live(token) == token.type # "none" /\ clock <= token.until

\* Mutation check only: any token that has not expired will do.
DecodeAny(token, type) == Live(token)

\* decode_access_token, decode_refresh_token.
Decode(token, type) == Live(token) /\ token.type = type

\* The answers of the routes: a new access token, or both tokens.
AnswerRefresh(u, token) == held' = [held EXCEPT ![u].access = token]

AnswerLogin(u, access, refresh) ==
    held' = [held EXCEPT ![u] = [access |-> access, refresh |-> refresh]]

----------------------------------------------------------------------------
(* PostgresAPIKeyRepository.  *)

\* get_by_hash: a key that is not revoked.
GetByHash(k) == {row \in {apiKey[k]} : row # NoKey /\ row.status = "active"}

SaveKey(k, u) == apiKey' = [apiKey EXCEPT ![k] = [status |-> "active", of |-> u]]

\* revoke: only a key of the user's enterprise is found.
Revoke(k, u) ==
    apiKey' = IF apiKey[k] # NoKey /\ apiKey[k].of = u
              THEN [apiKey EXCEPT ![k].status = "revoked"] ELSE apiKey

----------------------------------------------------------------------------
(* Requests.  *)

Guarded == {"read", "create key", "revoke key"}
OfAdmins == {"suspend", "reinstate"}

Begin(p, op, pc, u, login) ==
    visit' = [visit EXCEPT ![p] =
        [op |-> op, pc |-> pc, user |-> u, began |-> clock, login |-> login,
         live |-> active[u]]]

\* get_current_user, and refresh_token: the token is decoded.
Present(p, u) ==
    /\ visit[p] = Idle
    /\ \E token \in {held[u].access, held[u].refresh} :
          \/ Decode(token, "refresh") /\ Begin(p, "refresh", "load", u, token.login)
          \/ /\ Decode(token, "access")
             /\ \E op \in Guarded : Begin(p, op, "load", u, token.login)
    /\ UNCHANGED <<clock, active, held, apiKey>>

Finish(p) == visit' = [visit EXCEPT ![p] = Idle]

\* The user is loaded: one that is not active is refused.
Load(p) ==
    /\ visit[p].op \in Guarded /\ visit[p].pc = "load"
    /\ IF active[visit[p].user] THEN visit' = [visit EXCEPT ![p].pc = "act"] ELSE Finish(p)
    /\ UNCHANGED <<clock, active, held, apiKey>>

\* refresh_token, after the decoding: an access token for an active user.  The
\* refresh token stays as it is.
Refresh(p) ==
    /\ visit[p].op = "refresh"
    /\ LET u == visit[p].user
       IN  IF active[u] THEN AnswerRefresh(u, CreateAccessToken(visit[p].login))
           ELSE UNCHANGED held
    /\ Finish(p)
    /\ UNCHANGED <<clock, active, apiKey>>

\* User.authenticate: an inactive user is refused, and the password is right.
Authenticated(u) == active[u]

\* login loads the user and checks the password.
Login(p, u) ==
    /\ visit[p] = Idle /\ Authenticated(u)
    /\ Begin(p, "login", "load", u, clock)
    /\ UNCHANGED <<clock, active, held, apiKey>>

\* login, after its commit: both tokens, in one answer.
IssueTokens(p) ==
    /\ visit[p].op = "login"
    /\ AnswerLogin(visit[p].user, CreateAccessToken(clock), CreateRefreshToken)
    /\ Finish(p)
    /\ UNCHANGED <<clock, active, apiKey>>

\* create_api_key: the user is not checked again.
CreateApiKey(p, k) ==
    /\ visit[p].op = "create key" /\ visit[p].pc = "act"
    /\ apiKey[k] = NoKey
    /\ SaveKey(k, visit[p].user)
    /\ Finish(p)
    /\ UNCHANGED <<clock, active, held>>

RevokeApiKey(p, k) ==
    /\ visit[p].op = "revoke key" /\ visit[p].pc = "act"
    /\ Revoke(k, visit[p].user)
    /\ Finish(p)
    /\ UNCHANGED <<clock, active, held>>

\* A request with a key: whose user it is of is not looked at.
PresentKey(p, k) ==
    /\ visit[p] = Idle
    /\ \E row \in GetByHash(k) : Begin(p, "by key", "act", row.of, clock)
    /\ UNCHANGED <<clock, active, held, apiKey>>

\* What the request reads is not of interest here.
Answer(p) ==
    /\ visit[p].op \in {"read", "by key"} /\ visit[p].pc = "act"
    /\ Finish(p)
    /\ UNCHANGED <<clock, active, held, apiKey>>

\* suspend_user: the target is loaded, and the request flushes when the column
\* changes.
LoadTarget(p, v) ==
    /\ visit[p] = Idle
    /\ \E op \in OfAdmins :
          /\ active[v] = (op = "suspend")
          /\ Begin(p, op, "end", v, clock)
    /\ UNCHANGED <<clock, active, held, apiKey>>

EndSuspend(p) ==
    /\ visit[p].op \in OfAdmins
    /\ \E end \in EndsOf :
          active' = IF end = "rollback" THEN active
                    ELSE [active EXCEPT ![visit[p].user] = visit[p].op = "reinstate"]
    \* The other requests of that user see it active or not from here on.
    /\ visit' = [q \in Workers |->
                    IF q = p THEN Idle
                    ELSE IF visit[q] # Idle /\ active'[visit[q].user]
                         THEN [visit[q] EXCEPT !.live = TRUE]
                         ELSE visit[q]]
    /\ UNCHANGED <<clock, held, apiKey>>

Die(p) ==
    /\ visit[p] # Idle
    /\ Finish(p)
    /\ UNCHANGED <<clock, active, held, apiKey>>

\* The client forgets a token that is of no use any more.
Kept(token) == IF Live(token) /\ clock < token.until THEN token ELSE NoToken

\* No request takes longer than MaxWait.
Tick ==
    /\ clock < MaxClock
    /\ \A p \in Workers : visit[p] # Idle => clock < visit[p].began + MaxWait
    /\ clock' = clock + 1
    /\ held' = [u \in Users |-> [kind \in {"access", "refresh"} |-> Kept(held[u][kind])]]
    /\ UNCHANGED <<active, apiKey, visit>>

Init ==
    /\ clock = 0
    /\ active = [u \in Users |-> TRUE]
    /\ held = [u \in Users |-> [access |-> NoToken, refresh |-> NoToken]]
    /\ apiKey = [k \in ApiKeys |-> NoKey]
    /\ visit = [p \in Workers |-> Idle]

Next ==
    \/ \E p \in Workers :
          \/ \E u \in Users : Present(p, u) \/ Login(p, u) \/ LoadTarget(p, u)
          \/ \E k \in ApiKeys : PresentKey(p, k) \/ CreateApiKey(p, k) \/ RevokeApiKey(p, k)
          \/ Load(p) \/ Answer(p) \/ Refresh(p) \/ IssueTokens(p)
          \/ EndSuspend(p) \/ Die(p)
    \/ Tick

Spec == Init /\ [][Next]_sessionVars

----------------------------------------------------------------------------
(* Properties. *)

\* A request that is let in comes from a user who gave the password at most a
\* refresh token's life ago (plus an access token's, and the time the refreshing
\* took), however often the access token was renewed, and who was active at some
\* moment since the request began.
RequestsAreAuthorized ==
    \A p \in Workers :
        visit[p].op \in Guarded /\ visit[p].pc = "act" =>
            /\ visit[p].began <= visit[p].login + RefreshLife + MaxWait + AccessLife
            /\ visit[p].live
=============================================================================
