---------------------------- MODULE RateLimiter ----------------------------
(***************************************************************************)
(* The rate limit in front of the API: a counter in Redis per enterprise   *)
(* and per window of the clock.  One enterprise is modelled, the counters  *)
(* of different enterprises have nothing in common.                        *)
(*                                                                         *)
(* A request reads the clock of its server, then calls INCR, and the first *)
(* of a window calls EXPIRE; Redis drops the counter when its time has     *)
(* come, which is as long after the EXPIRE as that call said.  Time goes   *)
(* in seconds, and a call reaches Redis at most MaxDelay of them after the *)
(* clock was read.                                                         *)
(***************************************************************************)
EXTENDS Naturals, FiniteSets

CONSTANTS
    Limit,      \* API_RATE_LIMIT_REQUESTS
    Window,     \* API_RATE_LIMIT_WINDOW_SECONDS
    MaxDelay,   \* seconds from the clock to the INCR: at most the one of the buffer
    MaxTime,    \* model bound: seconds
    Requests,   \* requests, each of which calls the limiter once
    None

ASSUME RateLimiterAssumption ==
    /\ Limit \in Nat /\ Window \in Nat \ {0}
    /\ MaxDelay \in {0, 1} /\ MaxTime \in Nat
    /\ None \notin Nat

VARIABLES
    now,      \* the clock
    count,    \* per window, the counter in Redis, 0 when there is none
    expires,  \* per window, when the counter goes; None while no EXPIRE has been called
    call,     \* where each request is
    passed    \* per window, the requests let through

vars == <<now, count, expires, call, passed>>

Buckets == 0 .. MaxTime \div Window

Idle == [pc |-> "none"]
Done == [pc |-> "done"]

\* Mutation check only: a counter that lives as long as a window.
TimeToLiveBare == Window

\* The counter outlives its window by the buffer for clock skew.
TimeToLive == Window + 1

ReadClock(p) ==
    /\ call[p].pc = "none"
    /\ call' = [call EXCEPT ![p] = [pc |-> "incr", bucket |-> now \div Window, at |-> now]]
    /\ UNCHANGED <<now, count, expires, passed>>

\* A request over the limit gets RateLimitError.
Answer(b, n) == passed' = IF n > Limit THEN passed ELSE [passed EXCEPT ![b] = @ + 1]

Incr(p) ==
    LET b == call[p].bucket
    IN  /\ call[p].pc = "incr"
        /\ count' = [count EXCEPT ![b] = @ + 1]
        /\ IF count'[b] = 1
           THEN /\ call' = [call EXCEPT ![p] = [pc |-> "expire", bucket |-> b, at |-> now]]
                /\ passed' = passed
           ELSE /\ Answer(b, count'[b])
                /\ call' = [call EXCEPT ![p] = Done]
        /\ UNCHANGED <<now, expires>>

Expire(p) ==
    LET b == call[p].bucket
    IN  /\ call[p].pc = "expire"
        /\ expires' = IF count[b] = 0 THEN expires
                      ELSE [expires EXCEPT ![b] = now + TimeToLive]
        /\ Answer(b, 1)
        /\ call' = [call EXCEPT ![p] = Done]
        /\ UNCHANGED <<now, count>>

\* The request is gone: between the two calls it leaves a counter that
\* never expires, of a window that does not come back.
Die(p) ==
    /\ call[p].pc \in {"incr", "expire"}
    /\ call' = [call EXCEPT ![p] = Done]
    /\ UNCHANGED <<now, count, expires, passed>>

\* A second passes, and Redis drops what has expired.
Tick ==
    /\ now < MaxTime
    /\ \A p \in Requests : call[p].pc = "incr" => now < call[p].at + MaxDelay
    /\ now' = now + 1
    /\ count' = [b \in Buckets |-> IF expires[b] = now' THEN 0 ELSE count[b]]
    /\ expires' = [b \in Buckets |-> IF expires[b] = now' THEN None ELSE expires[b]]
    /\ UNCHANGED <<call, passed>>

Init ==
    /\ now = 0
    /\ count = [b \in Buckets |-> 0]
    /\ expires = [b \in Buckets |-> None]
    /\ call = [p \in Requests |-> Idle]
    /\ passed = [b \in Buckets |-> 0]

Next == Tick \/ \E p \in Requests : ReadClock(p) \/ Incr(p) \/ Expire(p) \/ Die(p)

Spec == Init /\ [][Next]_vars

----------------------------------------------------------------------------

TypeOK ==
    /\ now \in 0 .. MaxTime
    /\ count \in [Buckets -> Nat] /\ passed \in [Buckets -> Nat]
    /\ expires \in [Buckets -> Nat \cup {None}]
    /\ call \in [Requests -> {Idle, Done} \cup
                   [pc : {"incr", "expire"}, bucket : Buckets, at : 0 .. MaxTime]]

\* However the requests interleave, and whichever die between the counter and
\* its expiry, at most Limit of those that read the clock in one window are
\* let through, provided no call is later than the one second of the buffer:
\* the counter of a window is not gone while requests of it are on their way.
WindowIsBounded == \A b \in Buckets : passed[b] <= Limit

=============================================================================
