--------------------------- MODULE ServicesProofs ---------------------------
(***************************************************************************)
(* Proofs about the services around a trade, for any values of their       *)
(* constants that satisfy their assumptions: the rate limiter, the circuit *)
(* breaker, sessions, accounts, the event stream, pricing and profiles.    *)
(* LedgerProofs has those about treasury, anchoring and agent memory.      *)
(***************************************************************************)
EXTENDS MCServices, FiniteSetTheorems, SequenceTheorems, TLAPS

----------------------------------------------------------------------------
(* A behaviour of all services is one of each of them. *)

LEMMA OwnInit ==
    MCInit => Acc!Init /\ Str!Init /\ Ses!Init /\ Bre!Init /\ Pri!Init /\ Pro!Init
BY DEF MCInit

LEMMA OwnNext ==
    ASSUME [MCNext]_<<focus, vars, accountVars, treasuryVars, priceVars, memoryVars,
                      streamVars, sessionVars, anchoringVars, breakerVars, profileVars>>
    PROVE  /\ Acc!Next \/ UNCHANGED accountVars
           /\ Str!Next \/ UNCHANGED streamVars
           /\ Bre!Next \/ UNCHANGED breakerVars
           /\ Ses!Next \/ UNCHANGED sessionVars
           /\ Pri!Next \/ UNCHANGED priceVars
           /\ Pro!Next \/ UNCHANGED profileVars
BY DEF MCNext, OnlyOf

----------------------------------------------------------------------------
(* RateLimiter: the windows. *)

\* The quotient of a division, as the product that it is.
LEMMA DivBounds ==
  ASSUME NEW x \in Nat, NEW w \in Nat \ {0}
  PROVE  /\ x \div w \in Nat
         /\ (x \div w) * w <= x
         /\ x < (x \div w) * w + w
BY SMT

\* Windows follow one another in time.
LEMMA DivMonotone ==
  ASSUME NEW x \in Nat, NEW y \in Nat, NEW w \in Nat \ {0}, x <= y
  PROVE  x \div w <= y \div w
<1> DEFINE p == x \div w
           q == y \div w
<1>1. p \in Nat /\ q \in Nat /\ p * w <= x /\ y < q * w + w
  BY DivBounds
<1>2. SUFFICES ASSUME p > q PROVE FALSE
  BY <1>1
<1> HIDE DEF p, q
<1>3. PICK d \in Nat : p = q + 1 + d
  <2>1. p - q - 1 \in Nat /\ p = q + 1 + (p - q - 1)
    BY <1>1, <1>2
  <2> QED BY <2>1
<1>4. p * w = q * w + w + d * w /\ d * w \in Nat /\ q * w \in Nat
  BY <1>1, <1>3
<1> QED BY <1>1, <1>4

----------------------------------------------------------------------------
(* RateLimiter: the inductive invariant. *)

\* p has made the counter of window b, and not yet called EXPIRE.
Opening(p, b) == call[p].pc = "expire" /\ call[p].bucket = b

\* The buffer after window b is over.
BufferIsOver(b) == now > b * Window + Window

\* What a request that is on its way knows of the time.
GoodCall(p) ==
    /\ call[p].pc = "incr" =>
         /\ call[p].bucket = call[p].at \div Window
         /\ call[p].at <= now /\ now <= call[p].at + MaxDelay
    /\ call[p].pc = "expire" => call[p].bucket * Window <= now

\* A counter that is missing is new or of the past; one that will expire lives on
\* past the buffer.
GoodCounter(b) ==
    /\ count[b] = 0 => expires[b] = None /\ (BufferIsOver(b) \/ passed[b] = 0)
    /\ expires[b] # None => expires[b] > b * Window + Window

\* Those let through were counted; the place of the request that opens a window is
\* kept for it.
GoodPassed(b) ==
    /\ passed[b] <= Limit
    /\ count[b] > 0 => passed[b] <= count[b]
    /\ \A p \in Requests : Opening(p, b) =>
         /\ expires[b] = None
         /\ passed[b] + 1 <= count[b]
         /\ passed[b] + 1 <= Limit \/ (Limit = 0 /\ passed[b] = 0)
         /\ \A q \in Requests : Opening(q, b) => q = p

LimiterInv ==
    /\ TypeOK
    /\ \A p \in Requests : GoodCall(p)
    /\ \A b \in Buckets : GoodCounter(b) /\ GoodPassed(b)

LEMMA LimiterInit == Init => LimiterInv
<1> SUFFICES ASSUME Init PROVE LimiterInv
  OBVIOUS
<1> USE RateLimiterAssumption DEF Init, Idle
<1>1. 0 \div Window \in Nat /\ MaxTime \div Window \in Nat
  BY DivBounds
<1>2. TypeOK
  BY <1>1 DEF TypeOK, Buckets
<1>3. \A p \in Requests : GoodCall(p)
  BY DEF GoodCall
<1>4. \A b \in Buckets : GoodCounter(b) /\ GoodPassed(b)
  BY DEF GoodCounter, GoodPassed, Opening
<1> QED BY <1>2, <1>3, <1>4 DEF LimiterInv

\* A call that is on its way to Redis is of a window whose buffer is not over.
LEMMA OnTheWay ==
  ASSUME LimiterInv, NEW p \in Requests, call[p].pc = "incr"
  PROVE  call[p].bucket \in Buckets /\ ~BufferIsOver(call[p].bucket)
         /\ call[p].bucket * Window <= now
<1> USE RateLimiterAssumption
<1>1. call[p].at \in Nat /\ call[p].bucket \in Buckets /\ now \in Nat
  BY DEF LimiterInv, TypeOK, Idle, Done
<1>2. /\ call[p].bucket = call[p].at \div Window
      /\ call[p].at <= now /\ now <= call[p].at + 1
  BY <1>1 DEF LimiterInv, GoodCall
<1> DEFINE b == call[p].bucket
<1>3. b \in Nat /\ b * Window <= call[p].at /\ call[p].at < b * Window + Window
  BY <1>1, <1>2, DivBounds
<1> HIDE DEF b
<1>4. b * Window \in Nat
  BY <1>3
<1>5. b * Window <= now /\ ~(now > b * Window + Window)
  BY <1>1, <1>2, <1>3, <1>4
<1> QED BY <1>1, <1>5 DEF BufferIsOver, b

LEMMA LimiterNext == LimiterInv /\ [Next]_vars => LimiterInv'
<1> SUFFICES ASSUME LimiterInv, [Next]_vars PROVE LimiterInv'
  OBVIOUS
<1> USE RateLimiterAssumption
<1>t. TypeOK
  BY DEF LimiterInv
<1>w. \A b \in Buckets : b \in Nat /\ b * Window \in Nat
  BY DivBounds DEF Buckets
<1>1. ASSUME NEW p \in Requests, ReadClock(p) PROVE LimiterInv'
  <2>1. now \in Nat /\ now <= MaxTime
    BY <1>t DEF TypeOK
  <2>2. now \div Window \in Buckets
    BY <2>1, DivBounds, DivMonotone DEF Buckets
  <2>3. TypeOK'
    BY <1>1, <1>t, <2>1, <2>2 DEF TypeOK, ReadClock
  <2>4. ASSUME NEW q \in Requests PROVE GoodCall(q)'
    BY <1>1, <1>t, <2>1 DEF LimiterInv, GoodCall, ReadClock, TypeOK
  <2>5. \A b \in Buckets : GoodCounter(b)'
    BY <1>1 DEF LimiterInv, GoodCounter, BufferIsOver, ReadClock
  <2>6. \A b \in Buckets, q \in Requests : Opening(q, b)' => Opening(q, b)
    BY <1>1, <1>t DEF Opening, ReadClock, TypeOK
  <2>7. \A b \in Buckets : GoodPassed(b)'
    BY <1>1, <2>6 DEF LimiterInv, GoodPassed, ReadClock
  <2> QED BY <2>3, <2>4, <2>5, <2>7 DEF LimiterInv
<1>2. ASSUME NEW p \in Requests, Incr(p) PROVE LimiterInv'
  <2> DEFINE b == call[p].bucket
  <2>1. b \in Buckets /\ ~BufferIsOver(b) /\ b * Window <= now
    BY <1>2, OnTheWay DEF Incr
  <2> HIDE DEF b
  <2>2. /\ call[p].pc = "incr" /\ now \in Nat
        /\ count' = [count EXCEPT ![b] = @ + 1]
        /\ count[b] \in Nat /\ count'[b] = count[b] + 1
        /\ now' = now /\ expires' = expires
    BY <1>2, <1>t, <2>1 DEF Incr, TypeOK, b
  <2>3. CASE count[b] = 0
    <3>1. call' = [call EXCEPT ![p] = [pc |-> "expire", bucket |-> b, at |-> now]]
          /\ passed' = passed
      BY <1>2, <2>2, <2>3 DEF Incr, b
    <3>2. TypeOK'
      BY <1>t, <2>1, <2>2, <3>1 DEF TypeOK
    <3>3. \A q \in Requests : GoodCall(q)'
      BY <1>t, <2>1, <2>2, <3>1 DEF LimiterInv, GoodCall, TypeOK
    <3>4. ASSUME NEW c \in Buckets PROVE GoodCounter(c)'
      BY <1>t, <2>1, <2>2, <3>1 DEF LimiterInv, GoodCounter, BufferIsOver, TypeOK
    <3>5. passed[b] = 0 /\ expires[b] = None
      BY <2>1, <2>3 DEF LimiterInv, GoodCounter
    <3>6. \A q \in Requests : ~Opening(q, b)
      BY <1>t, <2>1, <2>3 DEF LimiterInv, GoodPassed, TypeOK
    <3>7. \A q \in Requests, c \in Buckets :
             Opening(q, c)' <=> IF c = b THEN q = p ELSE Opening(q, c)
      <4> SUFFICES ASSUME NEW q \in Requests, NEW c \in Buckets
                   PROVE  Opening(q, c)' <=> IF c = b THEN q = p ELSE Opening(q, c)
        OBVIOUS
      <4>1. CASE q = p
        BY <1>t, <2>1, <2>2, <3>1, <3>6, <4>1 DEF Opening, TypeOK
      <4>2. CASE q # p
        BY <1>t, <2>1, <2>2, <3>1, <3>6, <4>2 DEF Opening, TypeOK
      <4> QED BY <4>1, <4>2
    <3>8. ASSUME NEW c \in Buckets PROVE GoodPassed(c)'
      <4>1. CASE c = b
        BY <1>t, <2>1, <2>2, <2>3, <3>1, <3>5, <3>7, <4>1 DEF GoodPassed, TypeOK
      <4>2. CASE c # b
        BY <1>t, <2>1, <2>2, <3>1, <3>7, <4>2 DEF LimiterInv, GoodPassed, TypeOK
      <4> QED BY <4>1, <4>2
    <3> QED BY <3>2, <3>3, <3>4, <3>8 DEF LimiterInv
  <2>4. CASE count[b] # 0
    <3>1. /\ call' = [call EXCEPT ![p] = Done]
          /\ passed' = IF count[b] + 1 > Limit THEN passed
                       ELSE [passed EXCEPT ![b] = @ + 1]
      BY <1>2, <2>2, <2>4 DEF Incr, Answer, b
    <3>2. TypeOK'
      BY <1>t, <2>1, <2>2, <3>1 DEF TypeOK
    <3>3. \A q \in Requests : GoodCall(q)'
      BY <1>t, <2>2, <3>1 DEF LimiterInv, GoodCall, TypeOK, Done
    <3>4. ASSUME NEW c \in Buckets PROVE GoodCounter(c)'
      BY <1>t, <2>1, <2>2, <2>4, <3>1 DEF LimiterInv, GoodCounter, BufferIsOver, TypeOK
    <3>5. \A q \in Requests, c \in Buckets : Opening(q, c)' => Opening(q, c)
      BY <1>t, <3>1 DEF Opening, TypeOK, Done
    <3>6. ASSUME NEW c \in Buckets PROVE GoodPassed(c)'
      <4>1. CASE c = b
        BY <1>t, <2>1, <2>2, <2>4, <3>1, <3>5, <4>1 DEF LimiterInv, GoodPassed, TypeOK
      <4>2. CASE c # b
        BY <1>t, <2>1, <2>2, <3>1, <3>5, <4>2 DEF LimiterInv, GoodPassed, TypeOK
      <4> QED BY <4>1, <4>2
    <3> QED BY <3>2, <3>3, <3>4, <3>6 DEF LimiterInv
  <2> QED BY <2>3, <2>4
<1>3. ASSUME NEW p \in Requests, Expire(p) PROVE LimiterInv'
  <2> DEFINE b == call[p].bucket
  <2>1. b \in Buckets /\ Opening(p, b) /\ b * Window <= now /\ now \in Nat
    BY <1>3, <1>t DEF Expire, LimiterInv, GoodCall, Opening, TypeOK, Idle, Done
  <2> HIDE DEF b
  <2>2. /\ expires[b] = None /\ passed[b] + 1 <= count[b]
        /\ passed[b] + 1 <= Limit \/ (Limit = 0 /\ passed[b] = 0)
        /\ \A q \in Requests : Opening(q, b) => q = p
        /\ count[b] \in Nat /\ passed[b] \in Nat
    BY <1>t, <2>1 DEF LimiterInv, GoodPassed, TypeOK
  <2>3. /\ expires' = [expires EXCEPT ![b] = now + Window + 1]
        /\ passed' = IF 1 > Limit THEN passed ELSE [passed EXCEPT ![b] = @ + 1]
        /\ call' = [call EXCEPT ![p] = Done]
        /\ now' = now /\ count' = count
    <3>1. count[b] # 0 /\ now + (Window + 1) = now + Window + 1
      BY <2>1, <2>2
    <3> QED BY <1>3, <3>1 DEF Expire, Answer, TimeToLive, b
  <2>4. TypeOK'
    BY <1>t, <2>1, <2>2, <2>3 DEF TypeOK
  <2>5. \A q \in Requests : GoodCall(q)'
    BY <1>t, <2>3 DEF LimiterInv, GoodCall, TypeOK, Done
  <2>6. now + Window + 1 > b * Window + Window /\ now + Window + 1 \in Nat
    BY <1>w, <2>1
  <2>7. ASSUME NEW c \in Buckets PROVE GoodCounter(c)'
    BY <1>t, <2>1, <2>2, <2>3, <2>6 DEF LimiterInv, GoodCounter, BufferIsOver, TypeOK
  <2>8. \A q \in Requests, c \in Buckets : Opening(q, c)' => Opening(q, c) /\ c # b
    BY <1>t, <2>2, <2>3 DEF Opening, TypeOK, Done
  <2>9. ASSUME NEW c \in Buckets PROVE GoodPassed(c)'
    <3>1. CASE c = b
      BY <1>t, <2>1, <2>2, <2>3, <2>8, <3>1 DEF GoodPassed, TypeOK
    <3>2. CASE c # b
      BY <1>t, <2>1, <2>3, <2>8, <3>2 DEF LimiterInv, GoodPassed, TypeOK
    <3> QED BY <3>1, <3>2
  <2> QED BY <2>4, <2>5, <2>7, <2>9 DEF LimiterInv
<1>4. ASSUME NEW p \in Requests, Die(p) PROVE LimiterInv'
  <2>1. TypeOK'
    BY <1>4, <1>t DEF TypeOK, Die
  <2>2. \A q \in Requests : GoodCall(q)'
    BY <1>4, <1>t DEF LimiterInv, GoodCall, Die, TypeOK, Done
  <2>3. \A b \in Buckets : GoodCounter(b)'
    BY <1>4 DEF LimiterInv, GoodCounter, BufferIsOver, Die
  <2>4. \A b \in Buckets, q \in Requests : Opening(q, b)' => Opening(q, b)
    BY <1>4, <1>t DEF Opening, Die, TypeOK, Done
  <2>5. \A b \in Buckets : GoodPassed(b)'
    BY <1>4, <2>4 DEF LimiterInv, GoodPassed, Die
  <2> QED BY <2>1, <2>2, <2>3, <2>5 DEF LimiterInv
<1>5. CASE Tick
  <2>1. now' = now + 1 /\ now \in Nat /\ now < MaxTime /\ call' = call /\ passed' = passed
    BY <1>5, <1>t DEF Tick, TypeOK
  <2>2. \A b \in Buckets :
           /\ count'[b] = IF expires[b] = now + 1 THEN 0 ELSE count[b]
           /\ expires'[b] = IF expires[b] = now + 1 THEN None ELSE expires[b]
    BY <1>5, <2>1 DEF Tick
  <2>3. TypeOK'
    BY <1>5, <1>t, <2>1, <2>2 DEF TypeOK, Tick
  <2>4. \A p \in Requests : GoodCall(p)'
    <3> SUFFICES ASSUME NEW p \in Requests PROVE GoodCall(p)'
      OBVIOUS
    <3>1. CASE call[p].pc = "incr"
      BY <1>5, <1>t, <2>1, <3>1 DEF LimiterInv, GoodCall, TypeOK, Tick, Idle, Done
    <3>2. CASE call[p].pc = "expire"
      <4>1. call[p].bucket \in Buckets
        BY <1>t, <3>2 DEF TypeOK, Idle, Done
      <4> QED BY <1>w, <2>1, <3>2, <4>1 DEF LimiterInv, GoodCall
    <3> QED BY <2>1, <3>1, <3>2 DEF GoodCall
  <2>5. ASSUME NEW b \in Buckets PROVE GoodCounter(b)'
    <3>1. GoodCounter(b) /\ count[b] \in Nat /\ expires[b] \in Nat \cup {None}
      BY <1>t DEF LimiterInv, TypeOK
    <3>2. b * Window \in Nat
      BY <1>w
    <3> QED BY <2>1, <2>2, <3>1, <3>2 DEF GoodCounter, BufferIsOver
  <2>6. ASSUME NEW b \in Buckets PROVE GoodPassed(b)'
    <3>1. GoodPassed(b) /\ count[b] \in Nat /\ passed[b] \in Nat
      BY <1>t DEF LimiterInv, TypeOK
    <3> QED BY <2>1, <2>2, <3>1 DEF GoodPassed, Opening
  <2> QED BY <2>3, <2>4, <2>5, <2>6 DEF LimiterInv
<1>6. CASE UNCHANGED vars
  BY <1>6 DEF LimiterInv, TypeOK, GoodCall, GoodCounter, GoodPassed, Opening, BufferIsOver, vars
<1> QED BY <1>1, <1>2, <1>3, <1>4, <1>5, <1>6 DEF Next

----------------------------------------------------------------------------

\* The invariant of the limiter.
THEOREM LimiterInvariant == Spec => []LimiterInv
BY LimiterInit, LimiterNext, PTL DEF Spec

\* At most Limit requests that read the clock in one window are let through,
\* whatever the limit, the window and the number of requests, and whichever of
\* them die between INCR and EXPIRE.
THEOREM LimitIsKept == Spec => []WindowIsBounded
<1>1. LimiterInv => WindowIsBounded
  BY DEF LimiterInv, GoodPassed, WindowIsBounded
<1> QED BY <1>1, LimiterInvariant, PTL


----------------------------------------------------------------------------
(* CircuitBreaker. *)

CallPoints == {"idle", "state", "elapsed", "half-open", "run", "fail", "stamp",
               "stamp and open", "open", "succeed", "clear", "close", "forgive",
               "rejected"}

CallState == [pc : CallPoints, when : {"before", "after"}, began : Nat]

\* A circuit that is open, about to be opened, or was found open, has failed; and
\* who was rejected began before the timeout was over.
BreakerInv ==
    /\ instant \in Nat \ {0}
    /\ circuit \in [state : {"CLOSED", "OPEN", "HALF_OPEN"}, failures : Nat,
                    lastFailure : Nat, successes : Nat]
    /\ caller \in [Callers -> CallState]
    /\ circuit.lastFailure <= instant
    /\ circuit.state = "OPEN" => circuit.lastFailure # 0
    /\ \A c \in Callers :
          /\ caller[c].began <= instant
          /\ caller[c].pc \in {"open", "elapsed"} => circuit.lastFailure # 0
          /\ caller[c].pc = "rejected" =>
                /\ circuit.lastFailure # 0
                /\ caller[c].began <= circuit.lastFailure + RecoveryTimeout

LEMMA BreakerGoto ==
    ASSUME BreakerInv, NEW c \in Callers, NEW pc \in CallPoints, Bre!Goto(c, pc)
    PROVE  /\ instant' = instant /\ caller' \in [Callers -> CallState]
           /\ caller'[c].pc = pc /\ caller'[c].began = caller[c].began
           /\ \A d \in Callers \ {c} : caller'[d] = caller[d]
<1>1. PICK r \in CallState : r = caller[c]
  BY DEF BreakerInv
<1>2. PICK n : n = [r EXCEPT !.pc = pc]
  OBVIOUS
<1>3. n \in CallState /\ n.pc = pc /\ n.began = r.began
  BY <1>2 DEF CallState
<1>4. caller' = [caller EXCEPT ![c] = n] /\ instant' = instant
  BY <1>1, <1>2 DEF Bre!Goto
<1> QED BY <1>1, <1>3, <1>4 DEF BreakerInv

\* One call takes a step, and no failure is forgotten.
LEMMA BreakerStep ==
    ASSUME BreakerInv, RecoveryTimeout \in Nat,
           NEW c \in Callers, NEW pc \in CallPoints, Bre!Goto(c, pc),
           circuit' \in [state : {"CLOSED", "OPEN", "HALF_OPEN"}, failures : Nat,
                         lastFailure : Nat, successes : Nat],
           circuit'.lastFailure \in {circuit.lastFailure, instant},
           circuit'.state = "OPEN" => circuit'.lastFailure # 0,
           pc \in {"open", "elapsed"} => circuit'.lastFailure # 0,
           pc = "rejected" =>
              circuit'.lastFailure # 0 /\ instant <= circuit'.lastFailure + RecoveryTimeout
    PROVE  BreakerInv'
<1>1. /\ instant' = instant /\ caller' \in [Callers -> CallState]
      /\ caller'[c].pc = pc /\ caller'[c].began = caller[c].began
      /\ \A d \in Callers \ {c} : caller'[d] = caller[d]
  BY BreakerGoto
<1>2. /\ instant \in Nat \ {0} /\ circuit.lastFailure \in Nat
      /\ circuit.lastFailure <= instant /\ circuit'.lastFailure \in Nat
  BY DEF BreakerInv
<1>3. ASSUME NEW d \in Callers
      PROVE  /\ caller'[d].began <= instant'
             /\ caller'[d].pc \in {"open", "elapsed"} => circuit'.lastFailure # 0
             /\ caller'[d].pc = "rejected" =>
                   /\ circuit'.lastFailure # 0
                   /\ caller'[d].began <= circuit'.lastFailure + RecoveryTimeout
  <2>1. caller[d].began \in Nat /\ caller[d].began <= instant
    BY DEF BreakerInv, CallState
  <2>2. CASE d = c
    BY <1>1, <1>2, <2>1, <2>2
  <2>3. CASE d # c
    <3>1. caller'[d] = caller[d]
      BY <1>1, <2>3
    <3> QED BY <1>1, <1>2, <2>1, <3>1 DEF BreakerInv
  <2> QED BY <2>2, <2>3
<1> QED BY <1>1, <1>2, <1>3 DEF BreakerInv

LEMMA BreakerInit == Bre!Init => BreakerInv
BY DEF Bre!Init, Bre!NoCall, BreakerInv, CallState, CallPoints

LEMMA BreakerNext ==
    ASSUME BreakerInv, Bre!BreakerAssumption, Bre!Next \/ UNCHANGED breakerVars
    PROVE  BreakerInv'
<1>0. RecoveryTimeout \in Nat /\ FailureThreshold \in Nat /\ SuccessThreshold \in Nat
  BY DEF Bre!BreakerAssumption
<1>1. CASE UNCHANGED breakerVars
  BY <1>1 DEF breakerVars, BreakerInv
<1>2. CASE Bre!Tick
  <2>1. instant' = instant + 1 /\ UNCHANGED <<circuit, caller>>
    BY <1>2 DEF Bre!Tick
  <2>2. \A c \in Callers : caller[c].began \in Nat
    BY DEF BreakerInv, CallState
  <2> QED BY <2>1, <2>2 DEF BreakerInv
<1>3. ASSUME NEW c \in Callers, Bre!Call(c) PROVE BreakerInv'
  <2>1. PICK n : n = [Bre!NoCall EXCEPT !.pc = "state", !.began = instant]
    OBVIOUS
  <2>2. n \in CallState /\ n.pc = "state" /\ n.began = instant
    BY <2>1 DEF Bre!NoCall, CallState, CallPoints, BreakerInv
  <2>3. /\ caller' = [caller EXCEPT ![c] = n]
        /\ UNCHANGED <<instant, circuit>>
    BY <1>3, <2>1 DEF Bre!Call
  <2> QED BY <2>2, <2>3 DEF BreakerInv
<1>4. ASSUME NEW c \in Callers, Bre!Die(c) PROVE BreakerInv'
  <2>1. caller' = [caller EXCEPT ![c] = Bre!NoCall] /\ UNCHANGED <<instant, circuit>>
    BY <1>4 DEF Bre!Die
  <2>2. Bre!NoCall \in CallState /\ Bre!NoCall.pc = "idle" /\ Bre!NoCall.began = 0
    BY DEF Bre!NoCall, CallState, CallPoints
  <2> QED BY <2>1, <2>2 DEF BreakerInv
<1>5. ASSUME NEW c \in Callers, NEW st \in {"CLOSED", "OPEN", "HALF_OPEN"}
      PROVE  /\ Bre!Onward(c, st) \in CallPoints \ {"open", "elapsed"}
             /\ st # "OPEN" => Bre!Onward(c, st) # "rejected"
  BY DEF Bre!Onward, CallPoints
<1>6. ASSUME NEW c \in Callers, Bre!GetState(c) PROVE BreakerInv'
  <2>1. CASE circuit.state = "OPEN"
    <3>1. Bre!Goto(c, "elapsed") /\ UNCHANGED circuit
      BY <1>6, <2>1 DEF Bre!GetState
    <3> QED BY <1>0, <2>1, <3>1, BreakerStep DEF BreakerInv, CallPoints
  <2>2. CASE circuit.state # "OPEN"
    <3>1. PICK pc \in CallPoints \ {"open", "elapsed", "rejected"} :
             pc = Bre!Onward(c, circuit.state)
      BY <1>5, <2>2 DEF BreakerInv
    <3>2. Bre!Goto(c, pc) /\ UNCHANGED circuit
      BY <1>6, <2>2, <3>1 DEF Bre!GetState
    <3> QED BY <1>0, <2>2, <3>2, BreakerStep DEF BreakerInv
  <2> QED BY <2>1, <2>2
<1>7. ASSUME NEW c \in Callers, Bre!GetLastFailure(c) PROVE BreakerInv'
  <2>1. circuit.lastFailure # 0 /\ UNCHANGED circuit
    BY <1>7 DEF Bre!GetLastFailure, BreakerInv
  <2>2. CASE instant - circuit.lastFailure > RecoveryTimeout
    <3>1. Bre!Goto(c, "half-open")
      BY <1>7, <2>1, <2>2 DEF Bre!GetLastFailure
    <3> QED BY <1>0, <2>1, <3>1, BreakerStep DEF BreakerInv, CallPoints
  <2>3. CASE ~(instant - circuit.lastFailure > RecoveryTimeout)
    <3>1. PICK pc \in CallPoints \ {"open", "elapsed"} : pc = Bre!Onward(c, "OPEN")
      BY <1>5
    <3>2. Bre!Goto(c, pc)
      BY <1>7, <2>3, <3>1 DEF Bre!GetLastFailure
    <3>3. instant <= circuit.lastFailure + RecoveryTimeout
      BY <1>0, <2>3 DEF BreakerInv
    <3> QED BY <1>0, <2>1, <3>2, <3>3, BreakerStep DEF BreakerInv
  <2> QED BY <2>2, <2>3
<1>8. ASSUME NEW c \in Callers, Bre!SetHalfOpen(c) PROVE BreakerInv'
  <2>1. PICK pc \in CallPoints \ {"open", "elapsed", "rejected"} :
           pc = Bre!Onward(c, "HALF_OPEN")
    BY <1>5
  <2>2. Bre!Goto(c, pc) /\ circuit' = [circuit EXCEPT !.state = "HALF_OPEN"]
    BY <1>8, <2>1 DEF Bre!SetHalfOpen
  <2> QED BY <1>0, <2>2, BreakerStep DEF BreakerInv
<1>9. ASSUME NEW c \in Callers, Bre!Run(c) PROVE BreakerInv'
  <2>0. PICK r \in CallState : r = caller[c]
    BY DEF BreakerInv
  <2>1. PICK n1 : n1 = [r EXCEPT !.pc = "state"]
    OBVIOUS
  <2>2. PICK n2 : n2 = [n1 EXCEPT !.when = "after"]
    OBVIOUS
  <2>3. n1 \in CallState /\ n1.pc = "state" /\ n1.began = r.began
    BY <2>1 DEF CallState, CallPoints
  <2>4. n2 \in CallState /\ n2.pc = "state" /\ n2.began = r.began
    BY <2>2, <2>3 DEF CallState, CallPoints
  <2>5. CASE Bre!Goto(c, "fail") /\ UNCHANGED circuit
    BY <1>0, <2>5, BreakerStep DEF BreakerInv, CallPoints
  <2>6. CASE caller' = [caller EXCEPT ![c] = n2] /\ UNCHANGED <<instant, circuit>>
    BY <2>0, <2>4, <2>6 DEF BreakerInv
  <2> QED BY <1>9, <2>0, <2>1, <2>2, <2>5, <2>6 DEF Bre!Run, Bre!Goto
<1>10. ASSUME NEW c \in Callers, Bre!CountFailure(c) PROVE BreakerInv'
  <2>0. circuit.failures + 1 \in Nat
    BY DEF BreakerInv
  <2>1. \E n \in Nat, pc \in {"stamp", "stamp and open"} :
           circuit' = [circuit EXCEPT !.failures = n] /\ Bre!Goto(c, pc)
    <3>1. CASE circuit.failures + 1 >= FailureThreshold
      BY <1>0, <1>10, <3>1 DEF Bre!CountFailure
    <3>2. CASE ~(circuit.failures + 1 >= FailureThreshold)
      BY <1>10, <2>0, <3>2 DEF Bre!CountFailure
    <3> QED BY <3>1, <3>2
  <2> QED BY <1>0, <2>1, BreakerStep DEF BreakerInv, CallPoints
<1>11. ASSUME NEW c \in Callers, Bre!StampFailure(c) PROVE BreakerInv'
  <2>1. PICK pc \in {"idle", "open"} :
           circuit' = [circuit EXCEPT !.lastFailure = instant] /\ Bre!Goto(c, pc)
    BY <1>11 DEF Bre!StampFailure
  <2> QED BY <1>0, <2>1, BreakerStep DEF BreakerInv, CallPoints
<1>12. ASSUME NEW c \in Callers, Bre!SetOpen(c) PROVE BreakerInv'
  <2>1. circuit' = [circuit EXCEPT !.state = "OPEN"] /\ Bre!Goto(c, "idle")
        /\ circuit.lastFailure # 0
    BY <1>12 DEF Bre!SetOpen, BreakerInv
  <2> QED BY <1>0, <2>1, BreakerStep DEF BreakerInv, CallPoints
<1>13. ASSUME NEW c \in Callers, Bre!CountSuccess(c) PROVE BreakerInv'
  <2>0. PICK k \in Nat : k = circuit.successes + 1
    BY DEF BreakerInv
  <2>1. PICK n \in Nat, pc \in {"clear", "idle"} :
           circuit' = [circuit EXCEPT !.successes = n] /\ Bre!Goto(c, pc)
    <3>1. CASE k >= SuccessThreshold
      BY <1>0, <1>13, <2>0, <3>1 DEF Bre!CountSuccess
    <3>2. CASE ~ k >= SuccessThreshold
      BY <1>13, <2>0, <3>2 DEF Bre!CountSuccess
    <3> QED BY <3>1, <3>2
  <2>2. /\ circuit' \in [state : {"CLOSED", "OPEN", "HALF_OPEN"}, failures : Nat,
                          lastFailure : Nat, successes : Nat]
        /\ circuit'.lastFailure = circuit.lastFailure /\ circuit'.state = circuit.state
    BY <2>1 DEF BreakerInv
  <2>3. pc \in CallPoints /\ pc \notin {"open", "elapsed", "rejected"}
    BY DEF CallPoints
  <2>4. circuit'.state = "OPEN" => circuit'.lastFailure # 0
    BY <2>2 DEF BreakerInv
  <2> QED BY <1>0, <2>1, <2>2, <2>3, <2>4, BreakerStep
<1>14. ASSUME NEW c \in Callers, Bre!ClearCounters(c) PROVE BreakerInv'
  <2>1. circuit' = [circuit EXCEPT !.failures = 0, !.successes = 0] /\ Bre!Goto(c, "close")
    BY <1>14 DEF Bre!ClearCounters
  <2> QED BY <1>0, <2>1, BreakerStep DEF BreakerInv, CallPoints
<1>15. ASSUME NEW c \in Callers, Bre!SetClosed(c) \/ Bre!ForgiveFailures(c)
       PROVE  BreakerInv'
  <2>1. \/ circuit' = [circuit EXCEPT !.state = "CLOSED"]
        \/ circuit' = [circuit EXCEPT !.failures = 0]
    BY <1>15 DEF Bre!SetClosed, Bre!ForgiveFailures
  <2>2. Bre!Goto(c, "idle")
    BY <1>15 DEF Bre!SetClosed, Bre!ForgiveFailures
  <2>3. CASE circuit' = [circuit EXCEPT !.state = "CLOSED"]
    BY <1>0, <2>2, <2>3, BreakerStep DEF BreakerInv, CallPoints
  <2>4. CASE circuit' = [circuit EXCEPT !.failures = 0]
    BY <1>0, <2>2, <2>4, BreakerStep DEF BreakerInv, CallPoints
  <2> QED BY <2>1, <2>3, <2>4
<1> QED BY <1>1, <1>2, <1>3, <1>4, <1>6, <1>7, <1>8, <1>9, <1>10, <1>11, <1>12, <1>13,
           <1>14, <1>15 DEF Bre!Next

\* The invariant of the circuit breaker.
THEOREM BreakerInvariant == MCSpec => []BreakerInv
<1>1. MCInit => BreakerInv
  BY OwnInit, BreakerInit
<1>2. BreakerInv /\ [MCNext]_<<focus, vars, accountVars, treasuryVars, priceVars,
         memoryVars, streamVars, sessionVars, anchoringVars, breakerVars, profileVars>>
         => BreakerInv'
  BY OwnNext, BreakerNext, ServicesAssumption
<1> QED BY <1>1, <1>2, PTL DEF MCSpec

\* Nobody is rejected for longer than the recovery timeout after a failure, in
\* whatever order the commands of any number of calls come and whoever dies.
THEOREM OutagesDoEnd == MCSpec => []OutagesEnd
<1>1. BreakerInv => OutagesEnd
  BY DEF BreakerInv, OutagesEnd, Bre!OutagesEnd
<1> QED BY <1>1, BreakerInvariant, PTL


----------------------------------------------------------------------------
(* Sessions. *)

AccessTokens ==
    {t \in [type : {"access"}, until : Nat, login : Nat] :
        t.until <= t.login + RefreshLife + MaxWait + AccessLife}

RefreshTokens ==
    {t \in [type : {"refresh"}, until : Nat, login : Nat] : t.until = t.login + RefreshLife}

Purses == [access : {Ses!NoToken} \cup AccessTokens, refresh : {Ses!NoToken} \cup RefreshTokens]

KeyRows == {Ses!NoKey} \cup [status : {"active", "revoked"}, of : Users]

Visits == [op : {"read", "create key", "revoke key", "refresh", "login", "by key",
                 "suspend", "reinstate"},
           pc : {"load", "act", "end"}, user : Users, began : Nat, login : Nat,
           live : BOOLEAN]

\* How old the login behind a request can be, and what the request knows of its user.
GoodVisit(v) ==
    v # Ses!Idle =>
        /\ clock <= v.began + MaxWait
        /\ v.op = "refresh" => v.began <= v.login + RefreshLife
        /\ v.op \in Ses!Guarded => v.began <= v.login + RefreshLife + MaxWait + AccessLife
        /\ active[v.user] = TRUE => v.live = TRUE
        /\ v.op \in Ses!Guarded /\ v.pc = "act" => v.live = TRUE

SessionsInv ==
    /\ clock \in Nat
    /\ active \in [Users -> BOOLEAN]
    /\ held \in [Users -> Purses]
    /\ apiKey \in [ApiKeys -> KeyRows]
    /\ visit \in [Workers -> {Ses!Idle} \cup Visits]
    /\ \A p \in Workers : GoodVisit(visit[p])

LEMMA IdleOp == Ses!Idle.op = "none"
BY DEF Ses!Idle

LEMMA SessionsInit == ASSUME Ses!Init PROVE SessionsInv
<1>1. [access |-> Ses!NoToken, refresh |-> Ses!NoToken] \in Purses
  BY DEF Purses
<1> QED BY <1>1 DEF Ses!Init, SessionsInv, GoodVisit, KeyRows

\* One request changes what it does, and may hand out tokens or keys.
LEMMA VisitStep ==
    ASSUME SessionsInv, NEW p \in Workers, NEW v \in {Ses!Idle} \cup Visits, GoodVisit(v),
           visit' = [visit EXCEPT ![p] = v], clock' = clock, active' = active,
           held' \in [Users -> Purses], apiKey' \in [ApiKeys -> KeyRows]
    PROVE  SessionsInv'
BY DEF SessionsInv, GoodVisit

LEMMA NotLater == \A a, b \in Nat : a <= a + b
OBVIOUS

\* A request begins.
LEMMA BeginVisit ==
    ASSUME SessionsInv, MaxWait \in Nat, NEW p \in Workers, NEW u \in Users,
           NEW op \in {"read", "create key", "revoke key", "refresh", "login", "by key",
                       "suspend", "reinstate"},
           NEW pc \in {"load", "act", "end"}, NEW login \in Nat,
           Ses!Begin(p, op, pc, u, login),
           op = "refresh" => clock <= login + RefreshLife,
           op \in Ses!Guarded =>
              pc = "load" /\ clock <= login + RefreshLife + MaxWait + AccessLife,
           UNCHANGED <<clock, active, held, apiKey>>
    PROVE  SessionsInv'
<1>1. PICK v : v = [op |-> op, pc |-> pc, user |-> u, began |-> clock, login |-> login,
                    live |-> active[u]]
  OBVIOUS
<1>2. v \in Visits /\ v.op = op /\ v.pc = pc /\ v.user = u /\ v.began = clock
      /\ v.login = login /\ v.live = active[u]
  BY <1>1 DEF Visits, SessionsInv
<1>3. clock \in Nat
  BY DEF SessionsInv
<1>4. clock <= v.began + MaxWait
  <2>1. v.began = clock
    BY <1>1
  <2>2. clock <= clock + MaxWait
    BY <1>3, NotLater, Zenon
  <2> QED BY <2>1, <2>2, Zenon
<1>5. active[v.user] = TRUE => v.live = TRUE
  BY <1>2
<1>6. v.op \in Ses!Guarded => v.pc # "act"
  BY <1>2
<1>7. GoodVisit(v)
  BY <1>2, <1>4, <1>5, <1>6 DEF GoodVisit
<1> QED BY <1>1, <1>2, <1>7, VisitStep DEF Ses!Begin, SessionsInv

\* A request ends.
LEMMA FinishVisit ==
    ASSUME SessionsInv, NEW p \in Workers, Ses!Finish(p), clock' = clock, active' = active,
           held' \in [Users -> Purses], apiKey' \in [ApiKeys -> KeyRows]
    PROVE  SessionsInv'
<1>1. GoodVisit(Ses!Idle)
  BY DEF GoodVisit
<1> QED BY <1>1, VisitStep DEF Ses!Finish

LEMMA TokensKept ==
    ASSUME SessionsInv, NEW u \in Users
    PROVE  [kind \in {"access", "refresh"} |-> Ses!Kept(held[u][kind])] \in Purses
<1>1. PICK purse \in Purses : purse = held[u]
  BY DEF SessionsInv
<1>2. PICK a \in {Ses!NoToken, purse.access} : a = Ses!Kept(purse["access"])
  BY DEF Ses!Kept
<1>3. PICK r \in {Ses!NoToken, purse.refresh} : r = Ses!Kept(purse["refresh"])
  BY DEF Ses!Kept
<1>4. [kind \in {"access", "refresh"} |-> Ses!Kept(held[u][kind])]
         = [access |-> a, refresh |-> r]
  BY <1>1, <1>2, <1>3
<1>5. a \in {Ses!NoToken} \cup AccessTokens /\ r \in {Ses!NoToken} \cup RefreshTokens
  BY <1>2, <1>3 DEF Purses
<1> QED BY <1>4, <1>5 DEF Purses

LEMMA SessionsNext ==
    ASSUME SessionsInv, Ses!SessionsAssumption, Ses!Next \/ UNCHANGED sessionVars
    PROVE  SessionsInv'
<1>0. /\ AccessLife \in Nat /\ RefreshLife \in Nat /\ MaxWait \in Nat
      /\ clock \in Nat /\ held \in [Users -> Purses] /\ apiKey \in [ApiKeys -> KeyRows]
      /\ visit \in [Workers -> {Ses!Idle} \cup Visits]
  BY DEF Ses!SessionsAssumption, SessionsInv
<1>1. CASE UNCHANGED sessionVars
  BY <1>1 DEF sessionVars, SessionsInv, GoodVisit
<1>2. ASSUME NEW p \in Workers, NEW u \in Users, Ses!Present(p, u) PROVE SessionsInv'
  <2>1. PICK token \in {held[u].access, held[u].refresh} :
           \/ Ses!Decode(token, "refresh") /\ Ses!Begin(p, "refresh", "load", u, token.login)
           \/ /\ Ses!Decode(token, "access")
              /\ \E op \in Ses!Guarded : Ses!Begin(p, op, "load", u, token.login)
    BY <1>2 DEF Ses!Present
  <2>2. UNCHANGED <<clock, active, held, apiKey>>
    BY <1>2 DEF Ses!Present
  <2>3. token \in {Ses!NoToken} \cup AccessTokens \cup RefreshTokens
    BY <1>0 DEF Purses
  <2>4. CASE Ses!Decode(token, "refresh") /\ Ses!Begin(p, "refresh", "load", u, token.login)
    <3>1. token \in RefreshTokens /\ clock <= token.until
      BY <2>3, <2>4 DEF Ses!Decode, Ses!Live, Ses!NoToken, AccessTokens
    <3>2. token.login \in Nat /\ clock <= token.login + RefreshLife
      BY <3>1 DEF RefreshTokens
    <3>3. "refresh" \notin Ses!Guarded
      BY DEF Ses!Guarded
    <3> QED BY <1>0, <2>2, <2>4, <3>2, <3>3, BeginVisit
  <2>5. ASSUME NEW op \in Ses!Guarded, Ses!Decode(token, "access"),
               Ses!Begin(p, op, "load", u, token.login)
        PROVE  SessionsInv'
    <3>1. token \in AccessTokens /\ clock <= token.until
      BY <2>3, <2>5 DEF Ses!Decode, Ses!Live, Ses!NoToken, RefreshTokens
    <3>2. /\ token.login \in Nat
          /\ clock <= token.login + RefreshLife + MaxWait + AccessLife
      BY <1>0, <3>1 DEF AccessTokens
    <3>3. op \in {"read", "create key", "revoke key"}
      BY DEF Ses!Guarded
    <3> QED BY <1>0, <2>2, <2>5, <3>2, <3>3, BeginVisit
  <2> QED BY <2>1, <2>4, <2>5
<1>3. ASSUME NEW p \in Workers, NEW u \in Users, Ses!Login(p, u) PROVE SessionsInv'
  <2>1. "login" \notin Ses!Guarded
    BY DEF Ses!Guarded
  <2>2. Ses!Begin(p, "login", "load", u, clock) /\ UNCHANGED <<clock, active, held, apiKey>>
    BY <1>3 DEF Ses!Login
  <2> QED BY <1>0, <2>1, <2>2, BeginVisit
<1>4. ASSUME NEW p \in Workers, NEW u \in Users, Ses!LoadTarget(p, u) PROVE SessionsInv'
  <2>1. PICK op \in Ses!OfAdmins :
           Ses!Begin(p, op, "end", u, clock) /\ UNCHANGED <<clock, active, held, apiKey>>
    BY <1>4 DEF Ses!LoadTarget
  <2>2. op \in {"suspend", "reinstate"} /\ op \notin Ses!Guarded
    BY <2>1 DEF Ses!OfAdmins, Ses!Guarded
  <2> QED BY <1>0, <2>1, <2>2, BeginVisit
<1>5. ASSUME NEW p \in Workers, NEW k \in ApiKeys, Ses!PresentKey(p, k) PROVE SessionsInv'
  <2>1. apiKey[k] # Ses!NoKey /\ Ses!Begin(p, "by key", "act", apiKey[k].of, clock)
        /\ UNCHANGED <<clock, active, held, apiKey>>
    BY <1>5 DEF Ses!PresentKey, Ses!GetByHash
  <2>2. PICK u \in Users : u = apiKey[k].of
    BY <1>0, <2>1 DEF KeyRows
  <2> QED BY <1>0, <2>1, <2>2, BeginVisit DEF Ses!Guarded
<1>6. ASSUME NEW p \in Workers, NEW k \in ApiKeys, Ses!CreateApiKey(p, k) PROVE SessionsInv'
  <2>1. visit[p] \in Visits
    BY <1>0, <1>6, IdleOp DEF Ses!CreateApiKey
  <2>2. [status |-> "active", of |-> visit[p].user] \in KeyRows
    BY <2>1 DEF Visits, KeyRows
  <2>3. apiKey' \in [ApiKeys -> KeyRows]
    BY <1>0, <1>6, <2>2 DEF Ses!CreateApiKey, Ses!SaveKey
  <2> QED BY <1>0, <1>6, <2>3, FinishVisit DEF Ses!CreateApiKey
<1>7. ASSUME NEW p \in Workers, NEW k \in ApiKeys, Ses!RevokeApiKey(p, k) PROVE SessionsInv'
  <2>1. apiKey' \in [ApiKeys -> KeyRows]
    <3>1. CASE apiKey[k] = Ses!NoKey
      BY <1>0, <1>7, <3>1 DEF Ses!RevokeApiKey, Ses!Revoke
    <3>2. CASE apiKey[k] # Ses!NoKey
      <4>1. PICK r \in [status : {"active", "revoked"}, of : Users] : r = apiKey[k]
        BY <1>0, <3>2 DEF KeyRows
      <4>2. [r EXCEPT !.status = "revoked"] \in KeyRows
        BY DEF KeyRows
      <4> QED BY <1>0, <1>7, <4>1, <4>2 DEF Ses!RevokeApiKey, Ses!Revoke
    <3> QED BY <3>1, <3>2
  <2> QED BY <1>0, <1>7, <2>1, FinishVisit DEF Ses!RevokeApiKey
<1>8. ASSUME NEW p \in Workers, Ses!Load(p) PROVE SessionsInv'
  <2>1. PICK r \in Visits : r = visit[p] /\ r # Ses!Idle
    BY <1>0, <1>8, IdleOp DEF Ses!Load, Ses!Guarded
  <2>2. CASE active[r.user] = TRUE
    <3>1. PICK v : v = [r EXCEPT !.pc = "act"]
      OBVIOUS
    <3>2. v \in Visits /\ v.op = r.op /\ v.user = r.user /\ v.began = r.began
          /\ v.login = r.login /\ v.live = r.live
      BY <3>1 DEF Visits
    <3>3. GoodVisit(v)
      BY <2>1, <2>2, <3>2 DEF SessionsInv, GoodVisit
    <3>4. visit' = [visit EXCEPT ![p] = v] /\ UNCHANGED <<clock, active, held, apiKey>>
      BY <1>8, <2>1, <2>2, <3>1 DEF Ses!Load
    <3> QED BY <1>0, <3>2, <3>3, <3>4, VisitStep
  <2>3. CASE active[r.user] # TRUE
    <3>1. active[r.user] = FALSE
      BY <2>1, <2>3 DEF SessionsInv, Visits
    <3> QED BY <1>0, <1>8, <2>1, <3>1, FinishVisit DEF Ses!Load
  <2> QED BY <2>2, <2>3
<1>9. ASSUME NEW p \in Workers, Ses!Answer(p) \/ Ses!Die(p) PROVE SessionsInv'
  BY <1>0, <1>9, FinishVisit DEF Ses!Answer, Ses!Die
<1>10. ASSUME NEW p \in Workers, Ses!Refresh(p) PROVE SessionsInv'
  <2>1. PICK r \in Visits : r = visit[p] /\ r.op = "refresh" /\ r # Ses!Idle
    BY <1>0, <1>10, IdleOp DEF Ses!Refresh
  <2>2. r.began <= r.login + RefreshLife /\ clock <= r.began + MaxWait
        /\ r.login \in Nat /\ r.began \in Nat /\ r.user \in Users
    BY <2>1 DEF SessionsInv, GoodVisit, Visits
  <2>3. PICK token : token = [type |-> "access", until |-> clock + AccessLife, login |-> r.login]
    OBVIOUS
  <2>4. token \in AccessTokens
    BY <1>0, <2>2, <2>3 DEF AccessTokens
  <2>5. PICK purse \in Purses : purse = held[r.user]
    BY <1>0, <2>2
  <2>6. [purse EXCEPT !.access = token] \in Purses
    BY <2>4 DEF Purses
  <2>7. held' = held \/ held' = [held EXCEPT ![r.user] = [purse EXCEPT !.access = token]]
    BY <1>10, <2>1, <2>3, <2>5 DEF Ses!Refresh, Ses!AnswerRefresh, Ses!CreateAccessToken
  <2>8. held' \in [Users -> Purses]
    BY <1>0, <2>6, <2>7
  <2> QED BY <1>0, <1>10, <2>8, FinishVisit DEF Ses!Refresh
<1>11. ASSUME NEW p \in Workers, Ses!IssueTokens(p) PROVE SessionsInv'
  <2>1. PICK t1 : t1 = [type |-> "access", until |-> clock + AccessLife, login |-> clock]
    OBVIOUS
  <2>2. PICK t2 : t2 = [type |-> "refresh", until |-> clock + RefreshLife, login |-> clock]
    OBVIOUS
  <2>3. t1 \in AccessTokens
    BY <1>0, <2>1 DEF AccessTokens
  <2>4. t2 \in RefreshTokens
    BY <1>0, <2>2 DEF RefreshTokens
  <2>5. [access |-> t1, refresh |-> t2] \in Purses
    BY <2>3, <2>4 DEF Purses
  <2>6. held' = [held EXCEPT ![visit[p].user] = [access |-> t1, refresh |-> t2]]
    BY <1>11, <2>1, <2>2
    DEF Ses!IssueTokens, Ses!AnswerLogin, Ses!CreateAccessToken, Ses!CreateRefreshToken
  <2>7. held' \in [Users -> Purses]
    BY <1>0, <2>5, <2>6
  <2> QED BY <1>0, <1>11, <2>7, FinishVisit DEF Ses!IssueTokens
<1>12. ASSUME NEW p \in Workers, Ses!EndSuspend(p) PROVE SessionsInv'
  <2>1. UNCHANGED <<clock, held, apiKey>>
    BY <1>12 DEF Ses!EndSuspend
  <2>2. active' \in [Users -> BOOLEAN]
    BY <1>12 DEF Ses!EndSuspend, SessionsInv
  <2>3. ASSUME NEW q \in Workers
        PROVE  /\ visit'[q] \in {Ses!Idle} \cup Visits
               /\ GoodVisit(visit[q])
               /\ visit'[q] # Ses!Idle =>
                     /\ visit[q] # Ses!Idle
                     /\ visit'[q].op = visit[q].op /\ visit'[q].pc = visit[q].pc
                     /\ visit'[q].began = visit[q].began /\ visit'[q].login = visit[q].login
                     /\ visit[q].live = TRUE => visit'[q].live = TRUE
                     /\ active'[visit'[q].user] = TRUE => visit'[q].live = TRUE
    <3>1. visit'[q] = IF q = p THEN Ses!Idle
                      ELSE IF visit[q] # Ses!Idle /\ active'[visit[q].user]
                           THEN [visit[q] EXCEPT !.live = TRUE]
                           ELSE visit[q]
      BY <1>12 DEF Ses!EndSuspend
    <3>2. GoodVisit(visit[q])
      BY DEF SessionsInv
    <3>3. CASE q = p \/ visit[q] = Ses!Idle
      BY <1>0, <3>1, <3>2, <3>3
    <3>4. CASE q # p /\ visit[q] # Ses!Idle
      <4>1. PICK r \in Visits : r = visit[q]
        BY <1>0, <3>4
      <4>2. active'[r.user] \in BOOLEAN
        BY <2>2, <4>1 DEF Visits
      <4>3. CASE active'[r.user] = TRUE
        <5>1. PICK v : v = [r EXCEPT !.live = TRUE]
          OBVIOUS
        <5>2. v \in Visits /\ v.op = r.op /\ v.pc = r.pc /\ v.user = r.user
              /\ v.began = r.began /\ v.login = r.login /\ v.live = TRUE
          BY <5>1 DEF Visits
        <5>3. visit'[q] = v
          BY <3>1, <3>4, <4>1, <4>3, <5>1
        <5> QED BY <3>2, <3>4, <4>1, <5>2, <5>3
      <4>4. CASE active'[r.user] = FALSE
        <5>1. visit'[q] = r
          BY <3>1, <3>4, <4>1, <4>4
        <5> QED BY <3>2, <3>4, <4>1, <4>4, <5>1
      <4> QED BY <4>2, <4>3, <4>4
    <3> QED BY <3>3, <3>4
  <2>4. visit' \in [Workers -> {Ses!Idle} \cup Visits]
    <3>1. visit' = [q \in Workers |-> visit'[q]]
      BY <1>12 DEF Ses!EndSuspend
    <3> QED BY <2>3, <3>1
  <2>5. ASSUME NEW q \in Workers PROVE GoodVisit(visit[q])'
    BY <2>1, <2>3 DEF GoodVisit
  <2> QED BY <1>0, <2>1, <2>2, <2>4, <2>5 DEF SessionsInv
<1>13. CASE Ses!Tick
  <2>1. clock' = clock + 1 /\ UNCHANGED <<active, apiKey, visit>>
    BY <1>13 DEF Ses!Tick
  <2>2. held' \in [Users -> Purses]
    BY <1>13, TokensKept DEF Ses!Tick
  <2>3. ASSUME NEW p \in Workers PROVE GoodVisit(visit[p])'
    <3>1. CASE visit[p] = Ses!Idle
      BY <2>1, <3>1 DEF GoodVisit
    <3>2. CASE visit[p] # Ses!Idle
      <4>1. visit[p].began \in Nat
        BY <1>0, <3>2 DEF Visits
      <4>2. clock < visit[p].began + MaxWait
        BY <1>13, <3>2 DEF Ses!Tick
      <4> QED BY <1>0, <2>1, <4>1, <4>2 DEF GoodVisit, SessionsInv
    <3> QED BY <3>1, <3>2
  <2> QED BY <1>0, <2>1, <2>2, <2>3 DEF SessionsInv
<1> QED BY <1>1, <1>2, <1>3, <1>4, <1>5, <1>6, <1>7, <1>8, <1>9, <1>10, <1>11, <1>12,
           <1>13 DEF Ses!Next

\* The invariant of tokens and requests.
THEOREM SessionsInvariant == MCSpec => []SessionsInv
<1>1. MCInit => SessionsInv
  BY OwnInit, SessionsInit
<1>2. SessionsInv /\ [MCNext]_<<focus, vars, accountVars, treasuryVars, priceVars,
         memoryVars, streamVars, sessionVars, anchoringVars, breakerVars, profileVars>>
         => SessionsInv'
  BY OwnNext, SessionsNext, ServicesAssumption
<1> QED BY <1>1, <1>2, PTL DEF MCSpec

\* However often an access token was renewed, and however requests overlap with
\* suspensions, a request is let in within a refresh token's life of a login, and
\* for a user who was active since it began.
THEOREM OnlyTheAuthorizedGetIn == MCSpec => []RequestsAreAuthorized
<1>1. SessionsInv => RequestsAreAuthorized
  <2> SUFFICES ASSUME SessionsInv, NEW p \in Workers, visit[p].op \in Ses!Guarded,
                      visit[p].pc = "act"
               PROVE  /\ visit[p].began <= visit[p].login + RefreshLife + MaxWait + AccessLife
                      /\ visit[p].live
    BY DEF RequestsAreAuthorized, Ses!RequestsAreAuthorized
  <2>1. visit[p] # Ses!Idle
    BY IdleOp DEF Ses!Guarded
  <2>2. GoodVisit(visit[p])
    BY DEF SessionsInv
  <2> QED BY <2>1, <2>2 DEF GoodVisit
<1> QED BY <1>1, SessionsInvariant, PTL

----------------------------------------------------------------------------
(* Accounts: what AccountsProofs shows of any enterprises. *)

AccP == INSTANCE AccountsProofs WITH Enterprises <- {e1, e2, e3}

LEMMA AccountsAreTheirs ==
    /\ Acc!Init => AccP!Init
    /\ [Acc!Next]_accountVars => [AccP!Next]_(AccP!vars)
    /\ Acc!AccountsAssumption => AccP!AccountsAssumption
<1>1. Acc!Init => AccP!Init
  BY DEF Acc!Init, AccP!Init, Acc!Idle, AccP!Idle
<1>2. Acc!Next => AccP!Next
  BY DEF Acc!Next, AccP!Next, Acc!InsertBoth, AccP!InsertBoth, Acc!Reselect, AccP!Reselect, Acc!Commit,
      AccP!Commit, Acc!RecordLogin, AccP!RecordLogin, Acc!UseUp, AccP!UseUp, Acc!AdminEnd,
      AccP!AdminEnd, Acc!Die, AccP!Die, Acc!CheckUnique, AccP!CheckUnique, Acc!Load,
      AccP!Load, Acc!Login, AccP!Login, Acc!AdminKyc, AccP!AdminKyc, Acc!AdminSuspend,
      AccP!AdminSuspend, Acc!Verify, AccP!Verify, Acc!Challenge, AccP!Challenge,
      Acc!ChallengeAnew, AccP!ChallengeAnew, Acc!Expire, AccP!Expire, Acc!Idle, AccP!Idle,
      Acc!InFlight, AccP!InFlight, Acc!Holding, AccP!Holding, Acc!NoteOverlap,
      AccP!NoteOverlap, Acc!Unique, AccP!Unique, Acc!NewRow, AccP!NewRow, Acc!SubmitKyc,
      AccP!SubmitKyc, Acc!UpdateAgentConfig, AccP!UpdateAgentConfig, Acc!LinkWallet,
      AccP!LinkWallet, Acc!Results, AccP!Results, Acc!Columns, AccP!Columns, Acc!Admitted,
      AccP!Admitted, Acc!Overlay, AccP!Overlay, Acc!Stamp, AccP!Stamp, Acc!Named,
      AccP!Named, Acc!Scanned, AccP!Scanned, Acc!Signed, AccP!Signed, Acc!KycActions,
      AccP!KycActions
<1>3. accountVars = AccP!vars /\ accountVars' = AccP!vars'
  BY DEF accountVars, AccP!vars
<1>4. Acc!AccountsAssumption => AccP!AccountsAssumption
  BY DEF Acc!AccountsAssumption, AccP!AccountsAssumption, Acc!EnterpriseRow, AccP!EnterpriseRow,
         Acc!UserRow, AccP!UserRow, Acc!KycStatus, AccP!KycStatus
<1> QED BY <1>1, <1>2, <1>3, <1>4

LEMMA AccountsHold == MCSpec => []AccP!AccountsInv
<1>1. AccP!AccountsAssumption
  BY ServicesAssumption, AccountsAreTheirs
<1>2. MCInit => AccP!AccountsInv
  BY AccountsAreTheirs, <1>1, AccP!AccountsInit DEF MCInit
<1>3. ASSUME AccP!AccountsInv,
             [MCNext]_<<focus, vars, accountVars, treasuryVars, priceVars, memoryVars,
                        streamVars, sessionVars, anchoringVars, breakerVars, profileVars>>
      PROVE  AccP!AccountsInv'
  <2>1. [Acc!Next]_accountVars
    BY <1>3, OwnNext
  <2>2. [AccP!Next]_(AccP!vars)
    BY <2>1, AccountsAreTheirs
  <2> QED BY <1>1, <1>3, <2>2, AccP!AccountsNext
<1> QED BY <1>2, <1>3, PTL DEF MCSpec

\* No two enterprises get one PAN, GSTIN or e-mail address, and none is without its
\* user, however registrations interleave.
THEOREM RegistrationStaysConsistent == MCSpec => []RegistrationIsConsistent
<1>1. AccP!AccountsInv => RegistrationIsConsistent
  BY DEF AccP!AccountsInv, AccP!RegistrationIsConsistent, RegistrationIsConsistent,
         Acc!RegistrationIsConsistent
<1> QED BY <1>1, AccountsHold, PTL

\* Until two requests hold copies of one row together, a column has what its own
\* operation wrote last.
THEOREM WritesStayKept == MCSpec => []WritesAreKept
<1>1. AccP!AccountsInv => WritesAreKept
  BY DEF AccP!AccountsInv, AccP!Tidy, WritesAreKept, Acc!WritesAreKept
<1> QED BY <1>1, AccountsHold, PTL

\* A linked wallet's key has signed a live challenge in a request of that enterprise.
THEOREM WalletsStayProven == MCSpec => []WalletIsProven
<1>1. AccP!AccountsInv => WalletIsProven
  BY DEF AccP!AccountsInv, AccP!WalletIsProven, WalletIsProven, Acc!WalletIsProven
<1> QED BY <1>1, AccountsHold, PTL
----------------------------------------------------------------------------
(* Stream. *)

LEMMA SameCardinality == \A S : Str!Cardinality(S) = Cardinality(S)
BY DEF Str!Cardinality, Cardinality

\* The end of a sequence.
LEMMA Suffix ==
    ASSUME NEW s \in Seq(Nat), NEW j \in 0 .. Len(s)
    PROVE  \E m \in Seq(Nat) :
              /\ m = SubSeq(s, j + 1, Len(s)) /\ Len(m) = Len(s) - j
              /\ \A i \in 1 .. Len(m) : m[i] = s[j + i]
<1>1. PICK a \in Int, z \in Int : a = j + 1 /\ z = Len(s)
  OBVIOUS
<1>2. \A i \in a .. z : s[i] \in Nat
  BY <1>1
<1>3. PICK m : m = SubSeq(s, a, z)
  OBVIOUS
<1>4. /\ m \in Seq(Nat) /\ Len(m) = IF a <= z THEN z - a + 1 ELSE 0
      /\ \A i \in 1 .. z - a + 1 : m[i] = s[a + i - 1]
  BY <1>2, <1>3, SubSeqProperties
<1>5. Len(m) = Len(s) - j
  BY <1>1, <1>4
<1>6. \A i \in 1 .. Len(m) : i \in 1 .. z - a + 1 /\ a + i - 1 = j + i
  BY <1>1, <1>5
<1>7. \A i \in 1 .. Len(m) : m[i] = s[j + i]
  BY <1>4, <1>6
<1> QED BY <1>1, <1>3, <1>4, <1>5, <1>7

\* The ids that are no longer in the list are the first ones.
Gone == Cardinality(dropped)

Connection == [pc : {"closed", "replay", "poll"}, after : Nat, pending : Seq(Nat),
               ended : BOOLEAN]

LastId(g) == IF Len(g) = 0 THEN 0 ELSE g[Len(g)]

\* What waits to be sent are ids without a gap, from the first one the client has
\* not got that could be read.
Waiting(pending, latest) ==
    /\ \A i \in 1 .. Len(pending) : pending[i] = pending[1] + i - 1
    /\ Len(pending) > 0 =>
         /\ latest < pending[1]
         /\ pending[1] = latest + 1 \/ pending[1] <= Gone + 1
         /\ pending[1] + Len(pending) - 1 <= Gone + Len(events)

\* A connection and what its client has received.
Follows(s, g) ==
    /\ \A i \in 1 .. Len(g) - 1 : g[i] < g[i + 1]
    /\ \A id \in 1 .. LastId(g) : id <= Gone \/ \E i \in 1 .. Len(g) : g[i] = id
    /\ LastId(g) <= Gone + Len(events)
    /\ s.ended = TRUE => LastId(g) \in terminal
    /\ Waiting(s.pending, LastId(g))
    /\ s.pc = "closed" => Len(s.pending) = 0
    /\ s.pc # "closed" =>
         s.ended = FALSE
    /\ s.pc = "replay" =>
         s.after = IF Len(s.pending) = 0 THEN LastId(g) ELSE s.pending[1] + Len(s.pending) - 1
    /\ s.pc = "poll" => s.after = LastId(g)

StreamInv ==
    /\ Gone \in Nat /\ dropped = 1 .. Gone
    /\ events \in Seq(Nat) /\ \A i \in 1 .. Len(events) : events[i] = Gone + i
    /\ stream \in [Clients -> Connection] /\ got \in [Clients -> Seq(Nat)]
    /\ \A c \in Clients : Follows(stream[c], got[c])

\* The list grows at its end and shrinks at its beginning; the clients stay.
LEMMA ListStep ==
    ASSUME StreamInv, NEW n \in Nat, dropped' = 1 .. n, n >= Gone, events' \in Seq(Nat),
           \A i \in 1 .. Len(events') : events'[i] = n + i,
           n + Len(events') >= Gone + Len(events),
           terminal \subseteq terminal', UNCHANGED <<stream, got>>
    PROVE  StreamInv'
<1>1. Gone' = n
  BY FS_Interval DEF Gone
<1>2. ASSUME NEW c \in Clients PROVE Follows(stream[c], got[c])'
  <2>1. PICK s \in Connection : s = stream[c]
    BY DEF StreamInv
  <2>2. PICK g \in Seq(Nat) : g = got[c]
    BY DEF StreamInv
  <2>3. Follows(s, g) /\ Gone \in Nat /\ Len(events) \in Nat /\ Len(events') \in Nat
    BY <2>1, <2>2 DEF StreamInv
  <2>4. LastId(g) \in Nat
    BY DEF LastId
  <2>5. Waiting(s.pending, LastId(g))'
    <3>1. PICK m \in Seq(Nat) : m = s.pending
      BY DEF Connection
    <3>2. Len(m) \in Nat /\ (Len(m) > 0 => m[1] \in Nat)
      OBVIOUS
    <3>3. Waiting(m, LastId(g))
      BY <2>3, <3>1 DEF Follows
    <3>4. ASSUME Len(m) > 0
          PROVE  /\ m[1] = LastId(g) + 1 \/ m[1] <= n + 1
                 /\ m[1] + Len(m) - 1 <= n + Len(events')
      <4>1. PICK l \in Nat, x \in Nat, k \in Nat : l = LastId(g) /\ x = m[1] /\ k = Len(m)
        BY <2>4, <3>2, <3>4
      <4>2. (x = l + 1 \/ x <= Gone + 1) /\ x + k - 1 <= Gone + Len(events)
        BY <3>3, <3>4, <4>1 DEF Waiting
      <4>3. (x = l + 1 \/ x <= n + 1) /\ x + k - 1 <= n + Len(events')
        BY <2>3, <4>2
      <4> QED BY <4>1, <4>3
    <3>5. /\ \A i \in 1 .. Len(m) : m[i] = m[1] + i - 1
          /\ Len(m) > 0 => LastId(g) < m[1]
      BY <3>3 DEF Waiting
    <3>6. Waiting(m, LastId(g))'
      BY <1>1, <3>4, <3>5 DEF Waiting
    <3> QED BY <3>1, <3>6
  <2>6. \A id \in 1 .. LastId(g) : id <= n \/ \E i \in 1 .. Len(g) : g[i] = id
    BY <2>3, <2>4 DEF Follows
  <2>7. Follows(s, g)'
    BY <1>1, <2>3, <2>4, <2>5, <2>6 DEF Follows, LastId
  <2> QED BY <2>1, <2>2, <2>7 DEF Follows, Waiting
<1>3. stream' = stream /\ got' = got
  OBVIOUS
<1> QED BY <1>1, <1>2, <1>3 DEF StreamInv

\* One client connects, receives or is cut off; the list stays.
LEMMA ClientStep ==
    ASSUME StreamInv, NEW c \in Clients, NEW s \in Connection, NEW g \in Seq(Nat),
           stream' = [stream EXCEPT ![c] = s], got' = [got EXCEPT ![c] = g],
           UNCHANGED <<events, terminal, dropped>>, Follows(s, g)
    PROVE  StreamInv'
<1>1. Gone' = Gone
  BY DEF Gone
<1>2. /\ stream' \in [Clients -> Connection] /\ got' \in [Clients -> Seq(Nat)]
      /\ stream'[c] = s /\ got'[c] = g
      /\ \A d \in Clients \ {c} : stream'[d] = stream[d] /\ got'[d] = got[d]
  BY DEF StreamInv
<1>3. ASSUME NEW d \in Clients PROVE Follows(stream'[d], got'[d])
  <2>1. CASE d = c
    BY <1>2, <2>1
  <2>2. CASE d # c
    BY <1>2, <2>2 DEF StreamInv
  <2> QED BY <2>1, <2>2
<1>4. ASSUME NEW d \in Clients PROVE Follows(stream[d], got[d])'
  BY <1>1, <1>3 DEF Follows, Waiting
<1> QED BY <1>1, <1>2, <1>4 DEF StreamInv

\* What a client has not got yet.
LEMMA Since ==
    ASSUME StreamInv, NEW latest \in Nat, latest <= Gone + Len(events)
    PROVE  LET missed == Str!EventsSince(latest)
           IN  missed \in Seq(Nat) /\ Waiting(missed, latest)
               /\ (Len(missed) > 0 => missed[1] + Len(missed) - 1 = Gone + Len(events))
<1>0. /\ Gone \in Nat /\ events \in Seq(Nat) /\ Len(events) \in Nat
      /\ \A i \in 1 .. Len(events) : events[i] = Gone + i
  BY DEF StreamInv
<1>1. CASE latest \notin Str!ToSet(events)
  <2>1. Str!EventsSince(latest) = events
    BY <1>1 DEF Str!EventsSince
  <2>2. Len(events) = 0 \/ latest <= Gone
    <3>1. SUFFICES ASSUME latest > Gone, Len(events) > 0 PROVE FALSE
      BY <1>0
    <3>2. latest - Gone \in 1 .. Len(events) /\ events[latest - Gone] = latest
      BY <1>0, <3>1
    <3> QED BY <1>0, <1>1, <3>2 DEF Str!ToSet
  <2>3. Len(events) > 0 => events[1] = Gone + 1
    BY <1>0
  <2>4. \A i \in 1 .. Len(events) : events[i] = events[1] + i - 1
    BY <1>0, <2>3
  <2>5. Waiting(events, latest)
    BY <1>0, <2>2, <2>3, <2>4 DEF Waiting
  <2> QED BY <1>0, <2>1, <2>3, <2>5
<1>2. CASE latest \in Str!ToSet(events)
  <2>1. PICK j : j = CHOOSE i \in DOMAIN events : events[i] = latest
    OBVIOUS
  <2>2. j \in 1 .. Len(events) /\ latest = Gone + j
    <3>1. \E i \in DOMAIN events : events[i] = latest
      BY <1>2 DEF Str!ToSet
    <3>2. j \in DOMAIN events /\ events[j] = latest
      BY <2>1, <3>1
    <3>3. DOMAIN events = 1 .. Len(events)
      BY <1>0
    <3> QED BY <1>0, <3>2, <3>3
  <2>3. Str!EventsSince(latest) = SubSeq(events, j + 1, Len(events))
    BY <1>2, <2>1 DEF Str!EventsSince
  <2>4. PICK m \in Seq(Nat) :
           /\ m = SubSeq(events, j + 1, Len(events)) /\ Len(m) = Len(events) - j
           /\ \A i \in 1 .. Len(m) : m[i] = events[j + i]
    <3>1. j \in 0 .. Len(events)
      BY <2>2
    <3> QED BY <1>0, <3>1, Suffix
  <2>5. Len(m) = Len(events) - j
    BY <2>4
  <2>6. \A i \in 1 .. Len(m) : m[i] = latest + i
    BY <1>0, <2>2, <2>4, <2>5
  <2>7. Waiting(m, latest) /\ (Len(m) > 0 => m[1] + Len(m) - 1 = Gone + Len(events))
    <3>1. PICK k \in Nat : k = Len(m)
      OBVIOUS
    <3>2. \A i \in 1 .. k : m[i] = latest + i
      BY <2>6, <3>1
    <3>3. k > 0 => m[1] = latest + 1
      BY <3>2
    <3>4. \A i \in 1 .. k : m[i] = m[1] + i - 1
      BY <3>2, <3>3
    <3>5. latest + k = Gone + Len(events)
      <4>1. k = Len(events) - j /\ j \in Nat
        BY <1>0, <2>2, <2>5, <3>1
      <4> QED BY <1>0, <2>2, <4>1
    <3> QED BY <1>0, <3>1, <3>3, <3>4, <3>5 DEF Waiting
  <2> QED BY <2>3, <2>4, <2>7
<1> QED BY <1>1, <1>2

\* The ids in a list without a gap.
LEMMA IdsOf ==
    ASSUME NEW s \in Seq(Nat), NEW k \in Nat, \A i \in 1 .. Len(s) : s[i] = k + i
    PROVE  Str!ToSet(s) = k + 1 .. k + Len(s)
<1>1. DOMAIN s = 1 .. Len(s) /\ Len(s) \in Nat
  OBVIOUS
<1>2. ASSUME NEW id \in k + 1 .. k + Len(s) PROVE \E i \in 1 .. Len(s) : s[i] = id
  <2>1. PICK i : i = id - k
    OBVIOUS
  <2>2. i \in 1 .. Len(s) /\ k + i = id
    BY <1>1, <2>1
  <2>3. s[i] = id
    BY <2>2
  <2> QED BY <2>2, <2>3
<1>3. ASSUME NEW i \in 1 .. Len(s) PROVE s[i] \in k + 1 .. k + Len(s)
  BY <1>1
<1>4. \A id : id \in Str!ToSet(s) <=> \E i \in 1 .. Len(s) : s[i] = id
  BY <1>1 DEF Str!ToSet
<1>5. \A id : id \in Str!ToSet(s) <=> id \in k + 1 .. k + Len(s)
  BY <1>2, <1>3, <1>4, Zenon
<1> QED BY <1>5

LEMMA CountIs ==
    ASSUME StreamInv PROVE Str!Count = Gone + Len(events) /\ Gone \in Nat /\ Len(events) \in Nat
BY SameCardinality DEF Str!Count, Gone, StreamInv

LEMMA PushStep ==
    ASSUME StreamInv, NEW p \in Publishers, Str!Push(p)
    PROVE  StreamInv'
<1>1. PICK n \in Nat : n = Gone + Len(events) + 1
  BY DEF StreamInv
<1>2. events' = Append(events, n) /\ terminal \subseteq terminal' /\ UNCHANGED <<dropped, stream, got>>
  BY <1>1, CountIs DEF Str!Push
<1>3. /\ events' \in Seq(Nat) /\ Len(events') = Len(events) + 1
      /\ \A i \in 1 .. Len(events') : events'[i] = Gone + i
  <2>1. events \in Seq(Nat) /\ Gone \in Nat /\ \A i \in 1 .. Len(events) : events[i] = Gone + i
    BY DEF StreamInv
  <2>2. /\ events' \in Seq(Nat) /\ Len(events') = Len(events) + 1
        /\ events'[Len(events) + 1] = n
        /\ \A i \in 1 .. Len(events) : events'[i] = events[i]
    BY <1>2, <2>1
  <2>3. ASSUME NEW i \in 1 .. Len(events') PROVE events'[i] = Gone + i
    <3>1. Len(events) \in Nat /\ Gone \in Nat
      BY <2>1
    <3>2. CASE i = Len(events) + 1
      BY <1>1, <2>2, <3>1, <3>2
    <3>3. CASE i # Len(events) + 1
      <4>1. i \in 1 .. Len(events)
        BY <2>2, <3>1, <3>3
      <4> QED BY <2>1, <2>2, <4>1
    <3> QED BY <3>2, <3>3
  <2> QED BY <2>2, <2>3
<1>4. PICK k \in Nat : k = Gone
  BY DEF StreamInv
<1>5. dropped' = 1 .. k /\ k >= Gone /\ k + Len(events') >= Gone + Len(events)
  BY <1>2, <1>3, <1>4 DEF StreamInv
<1>6. \A i \in 1 .. Len(events') : events'[i] = k + i
  BY <1>3, <1>4
<1> QED BY <1>2, <1>3, <1>5, <1>6, ListStep

\* Where no event came or went.
LEMMA SameList ==
    ASSUME StreamInv, UNCHANGED <<events, terminal, dropped, stream, got>>
    PROVE  StreamInv'
<1>1. PICK k \in Nat : k = Gone
  BY DEF StreamInv
<1>2. /\ dropped' = 1 .. k /\ k >= Gone /\ k + Len(events') >= Gone + Len(events)
      /\ events' \in Seq(Nat) /\ \A i \in 1 .. Len(events') : events'[i] = k + i
  BY <1>1 DEF StreamInv
<1>3. terminal \subseteq terminal' /\ UNCHANGED <<stream, got>>
  OBVIOUS
<1> QED BY <1>2, <1>3, ListStep

\* What is dropped of the ids from 1 to a + k, when those up to n stay out.
LEMMA Dropping ==
    ASSUME NEW a \in Nat, NEW k \in Nat, NEW n \in Nat, n >= a, n <= a + k
    PROVE  1 .. a \cup (a + 1 .. a + k \ n + 1 .. a + k) = 1 .. n
<1>1. \A i : i \in 1 .. a \cup (a + 1 .. a + k \ n + 1 .. a + k) <=> i \in 1 .. n
  OBVIOUS
<1> QED BY <1>1

LEMMA TrimStep ==
    ASSUME StreamInv, Retained \in Nat \ {0}, NEW p \in Publishers, Str!Trim(p)
    PROVE  StreamInv'
<1>0. /\ Gone \in Nat /\ events \in Seq(Nat) /\ Len(events) \in Nat /\ dropped = 1 .. Gone
      /\ \A i \in 1 .. Len(events) : events[i] = Gone + i
  BY DEF StreamInv
<1>1. CASE ~ Len(events) > Retained
  <2>1. UNCHANGED <<events, terminal, stream, got>>
    BY <1>1 DEF Str!Trim
  <2>2. dropped' = dropped
    BY <2>1 DEF Str!Trim
  <2> QED BY <2>1, <2>2, SameList
<1>2. CASE Len(events) > Retained
  <2>0. Len(events) - Retained \in 0 .. Len(events)
    BY <1>0, <1>2
  <2>1. PICK j \in 0 .. Len(events) : j = Len(events) - Retained
    BY <2>0
  <2>2. /\ events' = SubSeq(events, j + 1, Len(events))
        /\ dropped' = dropped \cup (Str!ToSet(events) \ Str!ToSet(events'))
        /\ UNCHANGED <<terminal, stream, got>>
    BY <1>2, <2>1 DEF Str!Trim
  <2>3. PICK m \in Seq(Nat) :
           /\ m = SubSeq(events, j + 1, Len(events)) /\ Len(m) = Len(events) - j
           /\ \A i \in 1 .. Len(m) : m[i] = events[j + i]
    BY <1>0, Suffix
  <2>4. PICK n \in Nat : n = Gone + j
    BY <1>0
  <2>5. events' = m /\ \A i \in 1 .. Len(m) : m[i] = n + i
    BY <1>0, <2>2, <2>3, <2>4
  <2>6. Str!ToSet(events) = Gone + 1 .. Gone + Len(events)
    BY <1>0, IdsOf
  <2>7. Str!ToSet(m) = n + 1 .. n + Len(m)
    BY <2>5, IdsOf
  <2>8. n + Len(m) = Gone + Len(events)
    <3>1. Len(m) = Len(events) - j /\ j \in Nat
      BY <1>0, <2>3
    <3> QED BY <1>0, <2>4, <3>1
  <2>9. dropped' = 1 .. n
    <3>1. PICK k \in Nat : k = Len(events)
      BY <1>0
    <3>2. dropped' = 1 .. Gone \cup (Gone + 1 .. Gone + k \ n + 1 .. Gone + k)
      BY <1>0, <2>2, <2>5, <2>6, <2>7, <2>8, <3>1, Zenon
    <3>3. Gone \in Nat /\ n >= Gone /\ n <= Gone + k
      BY <1>0, <2>1, <2>4, <3>1
    <3>4. 1 .. Gone \cup (Gone + 1 .. Gone + k \ n + 1 .. Gone + k) = 1 .. n
      BY <3>3, Dropping
    <3> QED BY <3>2, <3>4
  <2>10. n >= Gone /\ n + Len(events') >= Gone + Len(events) /\ events' \in Seq(Nat)
         /\ \A i \in 1 .. Len(events') : events'[i] = n + i
    BY <1>0, <2>4, <2>5, <2>8
  <2>11. terminal \subseteq terminal' /\ UNCHANGED <<stream, got>>
    BY <2>2
  <2> QED BY <2>9, <2>10, <2>11, ListStep
<1> QED BY <1>1, <1>2

LEMMA ExpireStep ==
    ASSUME StreamInv, Str!Expire
    PROVE  StreamInv'
<1>0. /\ Gone \in Nat /\ events \in Seq(Nat) /\ Len(events) \in Nat /\ dropped = 1 .. Gone
      /\ \A i \in 1 .. Len(events) : events[i] = Gone + i
  BY DEF StreamInv
<1>1. /\ events' = <<>> /\ dropped' = dropped \cup Str!ToSet(events)
      /\ UNCHANGED <<terminal, stream, got>>
  BY DEF Str!Expire
<1>2. PICK n \in Nat : n = Gone + Len(events)
  BY <1>0
<1>3. Str!ToSet(events) = Gone + 1 .. n
  BY <1>0, <1>2, IdsOf
<1>4. dropped' = 1 .. n
  <2>1. \A id : id \in dropped' <=> id \in 1 .. Gone \/ id \in Gone + 1 .. n
    BY <1>0, <1>1, <1>3
  <2>2. \A id : id \in dropped' <=> id \in 1 .. n
    BY <1>0, <1>2, <2>1
  <2> QED BY <2>2
<1>5. /\ n >= Gone /\ Len(events') = 0 /\ n + Len(events') >= Gone + Len(events)
      /\ events' \in Seq(Nat)
  BY <1>0, <1>1, <1>2
<1>6. \A i \in 1 .. Len(events') : events'[i] = n + i
  BY <1>5
<1>7. terminal \subseteq terminal' /\ UNCHANGED <<stream, got>>
  BY <1>1
<1> QED BY <1>4, <1>5, <1>6, <1>7, ListStep

LEMMA LastIdIs ==
    ASSUME StreamInv, NEW c \in Clients
    PROVE  /\ Str!LastGot(c) = LastId(got[c]) /\ LastId(got[c]) \in Nat
           /\ LastId(got[c]) <= Gone + Len(events)
<1>1. got[c] \in Seq(Nat) /\ Follows(stream[c], got[c])
  BY DEF StreamInv
<1> QED BY <1>1 DEF Str!LastGot, Str!Last, Str!NoId, LastId, Follows

\* A client has what it got, and what it is now sent follows that.
LEMMA SendStep ==
    ASSUME StreamInv, NEW c \in Clients, NEW s \in Connection,
           stream' = [stream EXCEPT ![c] = s],
           UNCHANGED <<events, terminal, dropped, got>>,
           s.pc # "closed" /\ s.ended = FALSE, Waiting(s.pending, LastId(got[c])),
           s.pc = "replay" =>
              s.after = IF Len(s.pending) = 0 THEN LastId(got[c])
                        ELSE s.pending[1] + Len(s.pending) - 1,
           s.pc = "poll" => s.after = LastId(got[c])
    PROVE  StreamInv'
<1>1. PICK g \in Seq(Nat) : g = got[c]
  BY DEF StreamInv
<1>2. Follows(s, g)
  BY <1>1 DEF StreamInv, Follows
<1>3. got' = [got EXCEPT ![c] = g]
  BY <1>1 DEF StreamInv
<1> QED BY <1>2, <1>3, ClientStep

LEMMA ConnectStep ==
    ASSUME StreamInv, NEW c \in Clients, Str!Connect(c)
    PROVE  StreamInv'
<1>1. PICK l \in Nat : l = LastId(got[c]) /\ l = Str!LastGot(c) /\ l <= Gone + Len(events)
  BY LastIdIs
<1>2. PICK missed \in Seq(Nat) :
         /\ missed = Str!EventsSince(l) /\ Waiting(missed, l)
         /\ Len(missed) > 0 => missed[1] + Len(missed) - 1 = Gone + Len(events)
  BY <1>1, Since
<1>3. PICK a : a = IF missed = <<>> THEN l ELSE Str!Last(missed)
  OBVIOUS
<1>4. a = (IF Len(missed) = 0 THEN l ELSE missed[1] + Len(missed) - 1) /\ a \in Nat
  <2>1. Len(missed) \in Nat /\ (missed = <<>> <=> Len(missed) = 0)
    OBVIOUS
  <2>2. Len(missed) # 0 => missed[Len(missed)] = missed[1] + Len(missed) - 1 /\ missed[1] \in Nat
    BY <1>2, <2>1 DEF Waiting
  <2> QED BY <1>3, <2>1, <2>2 DEF Str!Last
<1>5. PICK s : s = [pc |-> "replay", pending |-> missed, ended |-> FALSE, after |-> a]
  OBVIOUS
<1>6. s \in Connection /\ s.pc = "replay" /\ s.pending = missed /\ s.ended = FALSE /\ s.after = a
  BY <1>4, <1>5 DEF Connection
<1>7. stream' = [stream EXCEPT ![c] = s] /\ UNCHANGED <<events, terminal, dropped, got>>
  BY <1>1, <1>2, <1>3, <1>5 DEF Str!Connect
<1> QED BY <1>1, <1>2, <1>4, <1>6, <1>7, SendStep

LEMMA PollStep ==
    ASSUME StreamInv, NEW c \in Clients, Str!Poll(c)
    PROVE  StreamInv'
<1>1. PICK l \in Nat : l = LastId(got[c]) /\ l <= Gone + Len(events)
  BY LastIdIs
<1>2. PICK old \in Connection : old = stream[c] /\ Follows(old, got[c])
  BY DEF StreamInv
<1>3. old.pc \in {"replay", "poll"} /\ Len(old.pending) = 0
  BY <1>2 DEF Str!Poll
<1>4. old.after = l /\ old.ended = FALSE
  BY <1>1, <1>2, <1>3 DEF Follows
<1>5. PICK missed \in Seq(Nat) : missed = Str!EventsSince(l) /\ Waiting(missed, l)
  BY <1>1, Since
<1>6. PICK r : r = [old EXCEPT !.pc = "poll"]
  OBVIOUS
<1>7. PICK s : s = [r EXCEPT !.pending = missed]
  OBVIOUS
<1>8. r \in Connection /\ r.pc = "poll" /\ r.after = l /\ r.ended = FALSE
  BY <1>4, <1>6 DEF Connection
<1>9. s \in Connection /\ s.pc = "poll" /\ s.pending = missed /\ s.after = l /\ s.ended = FALSE
  BY <1>7, <1>8 DEF Connection
<1>10. stream' = [stream EXCEPT ![c] = s] /\ UNCHANGED <<events, terminal, dropped, got>>
  <2>1. stream' = [stream EXCEPT ![c] = [old EXCEPT !.pc = "poll", !.pending = missed]]
    BY <1>2, <1>4, <1>5 DEF Str!Poll, StreamInv
  <2>2. s = [old EXCEPT !.pc = "poll", !.pending = missed]
    BY <1>6, <1>7
  <2> QED BY <2>1, <2>2 DEF Str!Poll
<1> QED BY <1>1, <1>5, <1>9, <1>10, SendStep

LEMMA ClosedIs ==
    /\ Str!Closed \in Connection /\ Str!Closed.pc = "closed" /\ Str!Closed.ended = FALSE
    /\ Len(Str!Closed.pending) = 0
BY DEF Str!Closed, Connection, Str!NoId

\* Whatever has been sent, a closed connection has nothing waiting.
LEMMA ClosedFollows ==
    ASSUME StreamInv, NEW s \in Connection, NEW g \in Seq(Nat),
           s.pc = "closed", Len(s.pending) = 0, s.ended = TRUE => LastId(g) \in terminal,
           \A i \in 1 .. Len(g) - 1 : g[i] < g[i + 1],
           \A id \in 1 .. LastId(g) : id <= Gone \/ \E i \in 1 .. Len(g) : g[i] = id,
           LastId(g) <= Gone + Len(events)
    PROVE  Follows(s, g)
<1>1. PICK m \in Seq(Nat) : m = s.pending
  BY DEF Connection
<1>2. Waiting(m, LastId(g))
  BY <1>1 DEF Waiting
<1> QED BY <1>1, <1>2 DEF Follows

LEMMA BreakStep ==
    ASSUME StreamInv, NEW c \in Clients, Str!Break(c)
    PROVE  StreamInv'
<1>1. PICK g \in Seq(Nat) : g = got[c] /\ Follows(stream[c], g)
  BY DEF StreamInv
<1>2. PICK s \in Connection : s = Str!Closed
  BY ClosedIs
<1>3. Follows(s, g)
  BY <1>1, <1>2, ClosedIs, ClosedFollows DEF Follows
<1>4. /\ stream' = [stream EXCEPT ![c] = s] /\ got' = [got EXCEPT ![c] = g]
      /\ UNCHANGED <<events, terminal, dropped>>
  BY <1>1, <1>2 DEF Str!Break, StreamInv
<1> QED BY <1>3, <1>4, ClientStep

\* What has been got, with the next event that was waiting.
InOrder(g) == \A i \in 1 .. Len(g) - 1 : g[i] < g[i + 1]
Complete(g, k) == \A id \in 1 .. LastId(g) : id <= k \/ \E i \in 1 .. Len(g) : g[i] = id
Adds(n, g, x) == Len(n) = Len(g) + 1 /\ n[Len(g) + 1] = x /\ \A i \in 1 .. Len(g) : n[i] = g[i]
IsNext(x, l, k) == l < x /\ (x = l + 1 \/ x <= k + 1)

LEMMA Received ==
    ASSUME NEW k \in Nat, NEW g \in Seq(Nat), NEW l \in Nat, NEW x \in Nat, NEW n \in Seq(Nat),
           LastId(g) = l, IsNext(x, l, k), InOrder(g), Complete(g, k), Adds(n, g, x)
    PROVE  LastId(n) = x /\ InOrder(n) /\ Complete(n, k)
<1> USE DEF InOrder, Complete, Adds, IsNext
<1>1. PICK m \in Nat : m = Len(g)
  OBVIOUS
<1>2. Len(n) = m + 1 /\ n[m + 1] = x /\ \A i \in 1 .. m : n[i] = g[i]
  BY <1>1
<1>3. LastId(n) = x
  BY <1>2 DEF LastId
<1>4. ASSUME NEW i \in 1 .. m PROVE n[i] < n[i + 1]
  <2>1. CASE i = m
    <3>1. m # 0 /\ n[i] = g[m] /\ n[i + 1] = x
      BY <1>2, <2>1
    <3>2. g[m] = l
      BY <1>1, <3>1 DEF LastId
    <3> QED BY <3>1, <3>2
  <2>2. CASE i # m
    <3>1. i \in 1 .. Len(g) - 1 /\ i + 1 \in 1 .. m /\ i \in 1 .. m
      BY <1>1, <2>2
    <3>2. n[i] = g[i] /\ n[i + 1] = g[i + 1] /\ g[i] < g[i + 1]
      BY <1>2, <3>1
    <3> QED BY <3>2
  <2> QED BY <2>1, <2>2
<1>5. ASSUME NEW id \in 1 .. x PROVE id <= k \/ \E i \in 1 .. Len(n) : n[i] = id
  <2>1. CASE id = x
    <3>1. m + 1 \in 1 .. Len(n) /\ n[m + 1] = id
      BY <1>2, <2>1
    <3> QED BY <3>1
  <2>2. CASE id \in 1 .. l
    <3>1. CASE id <= k
      BY <3>1
    <3>2. CASE ~ id <= k
      <4>1. PICK i \in 1 .. Len(g) : g[i] = id
        BY <2>2, <3>2
      <4>2. i \in 1 .. m /\ i \in 1 .. m + 1
        BY <1>1
      <4>3. i \in 1 .. Len(n) /\ n[i] = id
        BY <1>2, <4>1, <4>2
      <4> QED BY <4>3
    <3> QED BY <3>1, <3>2
  <2>3. CASE id # x /\ ~ id \in 1 .. l
    BY <2>3
  <2> QED BY <2>1, <2>2, <2>3
<1>6. Len(n) - 1 = m
  BY <1>2
<1> QED BY <1>3, <1>4, <1>5, <1>6

\* What still waits after the first is sent.
LEMMA RestWaits ==
    ASSUME Gone \in Nat, Len(events) \in Nat, NEW m \in Nat, NEW x \in Nat,
           NEW rest \in Seq(Nat), Len(rest) = m, \A i \in 1 .. m : rest[i] = x + i,
           x + m <= Gone + Len(events)
    PROVE  Waiting(rest, x) /\ x + m = IF Len(rest) = 0 THEN x ELSE rest[1] + Len(rest) - 1
<1>1. m > 0 => rest[1] = x + 1
  OBVIOUS
<1>2. \A i \in 1 .. Len(rest) : rest[i] = rest[1] + i - 1
  BY <1>1
<1>3. Len(rest) > 0 =>
         /\ x < rest[1] /\ rest[1] = x + 1
         /\ rest[1] + Len(rest) - 1 <= Gone + Len(events)
  BY <1>1
<1>4. Waiting(rest, x)
  BY <1>2, <1>3 DEF Waiting
<1>5. x + m = IF Len(rest) = 0 THEN x ELSE rest[1] + Len(rest) - 1
  BY <1>1
<1> QED BY <1>4, <1>5

LEMMA YieldStep ==
    ASSUME StreamInv, NEW c \in Clients, Str!Yield(c)
    PROVE  StreamInv'
<1>1. PICK old \in Connection : old = stream[c]
  BY DEF StreamInv
<1>2. PICK g \in Seq(Nat) : g = got[c]
  BY DEF StreamInv
<1>3. Follows(old, g) /\ LastId(g) \in Nat
  BY <1>1, <1>2 DEF StreamInv, LastId
<1>4. PICK pending \in Seq(Nat) : pending = old.pending
  BY DEF Connection
<1>5. pending # <<>> /\ Len(pending) > 0 /\ Len(pending) \in Nat
  BY <1>1, <1>4 DEF Str!Yield
<1>6. PICK x \in Nat : x = pending[1] /\ x = Head(pending)
  BY <1>5
<1>7. PICK n \in Seq(Nat) : n = Append(g, x)
  <2>1. Append(g, x) \in Seq(Nat)
    OBVIOUS
  <2> QED BY <2>1
<1>8. PICK rest \in Seq(Nat) : rest = Tail(pending)
  <2>1. Tail(pending) \in Seq(Nat)
    BY <1>5
  <2> QED BY <2>1
<1>9. /\ LastId(n) = x /\ x <= Gone + Len(events)
      /\ \A i \in 1 .. Len(n) - 1 : n[i] < n[i + 1]
      /\ \A id \in 1 .. x : id <= Gone \/ \E i \in 1 .. Len(n) : n[i] = id
      /\ Waiting(rest, x)
      /\ x + Len(pending) - 1 = IF Len(rest) = 0 THEN x ELSE rest[1] + Len(rest) - 1
  <2>1. PICK l \in Nat : l = LastId(g)
    BY <1>3
  <2>2. Waiting(pending, l) /\ Gone \in Nat /\ Len(events) \in Nat
    BY <1>3, <1>4, <2>1 DEF Follows, StreamInv
  <2>3. /\ \A i \in 1 .. Len(g) - 1 : g[i] < g[i + 1]
        /\ \A id \in 1 .. l : id <= Gone \/ \E i \in 1 .. Len(g) : g[i] = id
    BY <1>3, <2>1 DEF Follows
  <2>4. PICK m \in Nat : m + 1 = Len(pending)
    <3>1. Len(pending) - 1 \in Nat /\ (Len(pending) - 1) + 1 = Len(pending)
      BY <1>5
    <3> QED BY <3>1
  <2>5. \A i \in 1 .. m + 1 : pending[i] = x + i - 1
    BY <1>6, <2>2, <2>4 DEF Waiting
  <2>6. l < x /\ (x = l + 1 \/ x <= Gone + 1) /\ x + m <= Gone + Len(events)
    BY <1>6, <2>2, <2>4 DEF Waiting
  <2>7. Len(rest) = m /\ \A i \in 1 .. m : rest[i] = pending[i + 1]
    BY <1>5, <1>8, <2>4
  <2>8. \A i \in 1 .. m : rest[i] = x + i
    <3>1. \A i \in 1 .. m : i + 1 \in 1 .. m + 1 /\ x + (i + 1) - 1 = x + i
      OBVIOUS
    <3> QED BY <2>5, <2>7, <3>1
  <2>9. Waiting(rest, x) /\ x + m = IF Len(rest) = 0 THEN x ELSE rest[1] + Len(rest) - 1
    BY <2>2, <2>6, <2>7, <2>8, RestWaits
  <2>10. x + Len(pending) - 1 = x + m /\ x <= Gone + Len(events)
    <3>1. x + Len(pending) - 1 = x + m
      <4>1. PICK k \in Nat : k = Len(pending)
        BY <1>5
      <4>2. k = m + 1
        BY <2>4, <4>1
      <4>3. x + k - 1 = x + m
        BY <4>2
      <4> QED BY <4>1, <4>3
    <3>2. x <= Gone + Len(events)
      <4>1. PICK total \in Nat : total = Gone + Len(events)
        BY <2>2
      <4> QED BY <2>6, <4>1
    <3> QED BY <3>1, <3>2
  <2>11. PICK k \in Nat : k = Gone
    BY <2>2
  <2>13. Adds(n, g, x)
    BY <1>7 DEF Adds
  <2>14. LastId(g) = l /\ IsNext(x, l, k)
    BY <2>1, <2>6, <2>11 DEF IsNext
  <2>17. InOrder(g) /\ Complete(g, k)
    BY <2>1, <2>3, <2>11 DEF InOrder, Complete
  <2>15. LastId(n) = x /\ InOrder(n) /\ Complete(n, k)
    BY <2>13, <2>14, <2>17, Received
  <2>16. /\ \A i \in 1 .. Len(n) - 1 : n[i] < n[i + 1]
         /\ \A id \in 1 .. x : id <= k \/ \E i \in 1 .. Len(n) : n[i] = id
    BY <2>15 DEF InOrder, Complete
  <2> QED BY <2>9, <2>10, <2>11, <2>15, <2>16
<1>10. /\ got' = [got EXCEPT ![c] = n]
       /\ UNCHANGED <<events, terminal, dropped>>
  BY <1>1, <1>2, <1>4, <1>6, <1>7 DEF Str!Yield, StreamInv
<1>11. old.pc # "closed" /\ old.ended = FALSE /\ old.pc \in {"replay", "poll"}
  BY <1>3, <1>4, <1>5 DEF Follows, Connection
<1>12. CASE old.pc = "poll" /\ x \in terminal
  <2>1. PICK s : s = [Str!Closed EXCEPT !.ended = TRUE]
    OBVIOUS
  <2>2. s \in Connection /\ s.pc = "closed" /\ Len(s.pending) = 0
    BY <2>1, ClosedIs DEF Connection
  <2>3. stream' = [stream EXCEPT ![c] = s]
    BY <1>1, <1>4, <1>6, <1>12, <2>1 DEF Str!Yield, Str!Yielded
  <2>4. Follows(s, n)
    BY <1>9, <1>12, <2>2, ClosedFollows
  <2> QED BY <1>10, <2>2, <2>3, <2>4, ClientStep
<1>13. CASE ~ (old.pc = "poll" /\ x \in terminal)
  <2>1. PICK a : a = IF old.pc = "poll" THEN x ELSE old.after
    OBVIOUS
  <2>2. PICK r : r = [old EXCEPT !.pending = rest]
    OBVIOUS
  <2>3. PICK s : s = [r EXCEPT !.after = a]
    OBVIOUS
  <2>4. r \in Connection /\ r.pc = old.pc /\ r.pending = rest /\ r.ended = FALSE
    BY <1>11, <2>2 DEF Connection
  <2>5. a \in Nat
    BY <2>1 DEF Connection
  <2>6. /\ s \in Connection /\ s.pc = old.pc /\ s.pending = rest /\ s.ended = FALSE
        /\ s.after = a
    BY <2>3, <2>4, <2>5 DEF Connection
  <2>7. stream' = [stream EXCEPT ![c] = s]
    <3>1. stream' = [stream EXCEPT ![c] = Str!Yielded(old)]
      BY <1>1 DEF Str!Yield, StreamInv
    <3>2. Str!Yielded(old) = [old EXCEPT !.pending = rest, !.after = a]
      BY <1>4, <1>6, <1>8, <1>13, <2>1 DEF Str!Yielded
    <3> QED BY <2>2, <2>3, <3>1, <3>2
  <2>8. old.pc = "replay" =>
           a = IF Len(rest) = 0 THEN LastId(n) ELSE rest[1] + Len(rest) - 1
    <3>1. old.pc = "replay" => a = x + Len(pending) - 1
      BY <1>3, <1>4, <1>5, <1>6, <2>1 DEF Follows
    <3> QED BY <1>9, <3>1
  <2>9. Follows(s, n)
    BY <1>9, <1>11, <2>1, <2>6, <2>8 DEF Follows
  <2> QED BY <1>10, <2>6, <2>7, <2>9, ClientStep
<1> QED BY <1>12, <1>13

LEMMA StreamInit == Str!Init => StreamInv
<1> SUFFICES ASSUME Str!Init PROVE StreamInv
  OBVIOUS
<1>1. /\ events = <<>> /\ terminal = {} /\ dropped = {}
      /\ stream = [c \in Clients |-> Str!Closed] /\ got = [c \in Clients |-> <<>>]
  BY DEF Str!Init
<1>2. Gone = 0 /\ dropped = 1 .. Gone
  BY <1>1, FS_EmptySet DEF Gone
<1>3. events \in Seq(Nat) /\ Len(events) = 0
  BY <1>1
<1>4. ASSUME NEW c \in Clients PROVE Follows(stream[c], got[c])
  <2>1. stream[c] = Str!Closed /\ got[c] = <<>>
    BY <1>1
  <2>2. Len(got[c]) = 0 /\ LastId(got[c]) = 0
    BY <2>1 DEF LastId
  <2> QED BY <1>2, <1>3, <2>1, <2>2, ClosedIs DEF Follows, Waiting
<1>5. stream \in [Clients -> Connection] /\ got \in [Clients -> Seq(Nat)]
  BY <1>1, ClosedIs
<1> QED BY <1>2, <1>3, <1>4, <1>5 DEF StreamInv

LEMMA StreamNext ==
    ASSUME StreamInv, Str!StreamAssumption, Str!Next \/ UNCHANGED streamVars
    PROVE  StreamInv'
<1>0. Retained \in Nat \ {0}
  BY DEF Str!StreamAssumption
<1>1. CASE UNCHANGED streamVars
  BY <1>1, SameList DEF streamVars
<1>2. ASSUME NEW p \in Publishers, Str!Push(p) PROVE StreamInv'
  BY <1>2, PushStep
<1>3. ASSUME NEW p \in Publishers, Str!Trim(p) PROVE StreamInv'
  BY <1>0, <1>3, TrimStep
<1>4. ASSUME NEW p \in Publishers, Str!PublisherDies(p) PROVE StreamInv'
  BY <1>4, SameList DEF Str!PublisherDies
<1>5. ASSUME NEW c \in Clients, Str!Connect(c) PROVE StreamInv'
  BY <1>5, ConnectStep
<1>6. ASSUME NEW c \in Clients, Str!Yield(c) PROVE StreamInv'
  BY <1>6, YieldStep
<1>7. ASSUME NEW c \in Clients, Str!Poll(c) PROVE StreamInv'
  BY <1>7, PollStep
<1>8. ASSUME NEW c \in Clients, Str!Break(c) PROVE StreamInv'
  BY <1>8, BreakStep
<1> QED BY <1>1, <1>2, <1>3, <1>4, <1>5, <1>6, <1>7, <1>8, ExpireStep DEF Str!Next

\* What every client has received follows the list, for any number of clients,
\* publishers and events.
THEOREM StreamInvariant == MCSpec => []StreamInv
<1>1. MCInit => StreamInv
  BY OwnInit, StreamInit
<1>2. StreamInv /\ [MCNext]_<<focus, vars, accountVars, treasuryVars, priceVars,
         memoryVars, streamVars, sessionVars, anchoringVars, breakerVars, profileVars>>
         => StreamInv'
  BY OwnNext, StreamNext, ServicesAssumption
<1> QED BY <1>1, <1>2, PTL DEF MCSpec

\* Over broken connections, trims and expiries a client gets every event at most
\* once and in order, skips none that could still be read, and is given a
\* terminal event last by a stream that ends by itself.
THEOREM NothingIsMissed == MCSpec => []StreamMissesNothing
<1>1. StreamInv => StreamMissesNothing
  <2> SUFFICES ASSUME StreamInv, NEW c \in Clients
               PROVE  /\ \A i \in 1 .. Len(got[c]) - 1 : got[c][i] < got[c][i + 1]
                      /\ 1 .. Str!LastGot(c) \subseteq Str!ToSet(got[c]) \cup dropped
                      /\ stream[c].ended => Str!LastGot(c) \in terminal
    BY DEF StreamMissesNothing, Str!StreamMissesNothing
  <2>1. PICK g \in Seq(Nat) : g = got[c] /\ Follows(stream[c], g)
    BY DEF StreamInv
  <2>2. Str!LastGot(c) = LastId(g)
    BY <2>1, LastIdIs
  <2>3. \A i \in 1 .. Len(g) - 1 : g[i] < g[i + 1]
    BY <2>1 DEF Follows
  <2>4. 1 .. LastId(g) \subseteq Str!ToSet(g) \cup dropped
    <3> SUFFICES ASSUME NEW id \in 1 .. LastId(g)
                 PROVE  id \in Str!ToSet(g) \cup dropped
      OBVIOUS
    <3>1. id <= Gone \/ \E i \in 1 .. Len(g) : g[i] = id
      BY <2>1 DEF Follows
    <3>2. CASE id <= Gone
      <4>1. id \in 1 .. Gone
        BY <3>2 DEF StreamInv, LastId
      <4> QED BY <4>1 DEF StreamInv
    <3>3. CASE \E i \in 1 .. Len(g) : g[i] = id
      BY <3>3 DEF Str!ToSet
    <3> QED BY <3>1, <3>2, <3>3
  <2>5. stream[c].ended => LastId(g) \in terminal
    BY <2>1 DEF StreamInv, Follows, Connection
  <2> QED BY <2>1, <2>2, <2>3, <2>4, <2>5
<1> QED BY <1>1, StreamInvariant, PTL

----------------------------------------------------------------------------
(* Pricing. *)

\* Rounding half up keeps to an integer bound.
LEMMA HalfUpBound ==
    ASSUME NEW n \in Int, NEW d \in Nat \ {0}, NEW m \in Int, n >= m * d
    PROVE  Pri!HalfUp(n, d) \in Int /\ Pri!HalfUp(n, d) >= m
<1>1. PICK a \in Int, k \in Nat \ {0}, b \in Int : a = 2 * n + d /\ k = 2 * d /\ b = m * d
  BY Z3
<1>2. PICK q : q = a \div k
  OBVIOUS
<1>3. q \in Int /\ q * k <= a /\ a < (q + 1) * k
  BY <1>2, Z3
<1>4. a >= m * k
  <2>1. m * k = 2 * b
    BY <1>1, Z3
  <2> QED BY <1>1, <2>1, Z3
<1>5. q >= m
  <2>1. m * k < (q + 1) * k
    BY <1>3, <1>4, Z3
  <2> QED BY <1>3, <2>1, Z3
<1> QED BY <1>1, <1>2, <1>3, <1>5 DEF Pri!HalfUp

LEMMA HalfUpMonotone ==
    ASSUME NEW n \in Int, NEW m \in Int, n <= m
    PROVE  Pri!HalfUp(n, 10000) <= Pri!HalfUp(m, 10000)
BY Z3 DEF Pri!HalfUp

LEMMA HalfUpInt ==
    ASSUME NEW n \in Int, NEW d \in Nat \ {0} PROVE Pri!HalfUp(n, d) \in Int
BY Z3 DEF Pri!HalfUp

LEMMA Bounds ==
    ASSUME NEW a \in Int, NEW b \in Int
    PROVE  /\ Pri!AtLeast(a, b) \in Int /\ Pri!AtLeast(a, b) >= a /\ Pri!AtLeast(a, b) >= b
           /\ Pri!AtLeast(a, b) \in {a, b}
           /\ Pri!AtMost(a, b) \in Int /\ Pri!AtMost(a, b) <= a /\ Pri!AtMost(a, b) <= b
           /\ Pri!AtMost(a, b) \in {a, b}
BY DEF Pri!AtLeast, Pri!AtMost

\* What the seller aims at is no less than what it accepts.
LEMMA SellerAims ==
    ASSUME NEW stock \in Nat \ {0}, NEW floor \in 0 .. 100, NEW appetite \in {"LOW", "MEDIUM", "HIGH"},
           NEW v, v = Pri!SellerValuation(stock, floor, appetite)
    PROVE  /\ v.reservation \in Nat \ {0} /\ v.target \in Nat \ {0}
           /\ floor <= Pri!TargetMargin(appetite) => v.target >= v.reservation
<1>1. PICK m \in {15, 20, 30} : m = Pri!TargetMargin(appetite)
  BY DEF Pri!TargetMargin
<1>2. PICK a \in Int, b \in Int : a = (60 * stock) * (100 + floor) /\ b = (60 * stock) * (100 + m)
  BY <1>1
<1>3. Pri!HalfUp(a, 10000) \in Int /\ Pri!HalfUp(b, 10000) \in Int
  BY HalfUpInt
<1>4. floor <= m => Pri!HalfUp(a, 10000) <= Pri!HalfUp(b, 10000)
  <2> SUFFICES ASSUME floor <= m PROVE a <= b
    BY HalfUpMonotone
  <2> QED BY <1>1, <1>2, Z3
<1>5. /\ v.reservation = Pri!AtLeast(Pri!HalfUp(a, 10000), 1)
      /\ v.target = Pri!AtLeast(Pri!HalfUp(b, 10000), 1)
  BY <1>1, <1>2 DEF Pri!SellerValuation
<1> QED BY <1>1, <1>3, <1>4, <1>5 DEF Pri!AtLeast

LEMMA SellerLimits ==
    ASSUME NEW v, v.reservation \in Nat \ {0}, v.target \in Nat \ {0}, v.target >= v.reservation,
           NEW mine \in Int, NEW theirs \in Int
    PROVE  /\ Pri!StrongAnchor(v, "SELLER") >= v.reservation
           /\ Pri!StrongAnchor(v, "SELLER") \in Int
           /\ \A p \in Int : Pri!Bounded(p, v, "SELLER") >= v.reservation
                             /\ Pri!Bounded(p, v, "SELLER") \in Int
           /\ \A c1 \in Int, c2 \in Nat \ {0} :
                c1 <= c2 => /\ Pri!Along(<<c1, c2>>, v, "SELLER") >= v.reservation
                            /\ Pri!Along(<<c1, c2>>, v, "SELLER") \in Int
<1>1. PICK t \in Nat \ {0}, r \in Nat \ {0} : t = v.target /\ r = v.reservation
  OBVIOUS
<1>2. Pri!StrongAnchor(v, "SELLER") >= r /\ Pri!StrongAnchor(v, "SELLER") \in Int
  <2>1. PICK n \in Int : n = t * 110
    OBVIOUS
  <2>2. n >= r * 100 /\ 100 \in Nat \ {0}
    BY <1>1, <2>1
  <2>3. Pri!HalfUp(n, 100) \in Int /\ Pri!HalfUp(n, 100) >= r
    BY <2>2, HalfUpBound
  <2> QED BY <1>1, <2>1, <2>3 DEF Pri!StrongAnchor
<1>3. ASSUME NEW p \in Int
      PROVE  Pri!Bounded(p, v, "SELLER") >= r /\ Pri!Bounded(p, v, "SELLER") \in Int
  <2>1. Pri!Bounded(p, v, "SELLER") = Pri!AtLeast(p, r)
    BY <1>1 DEF Pri!Bounded
  <2> QED BY <2>1, Bounds
<1>4. ASSUME NEW c1 \in Int, NEW c2 \in Nat \ {0}, c1 <= c2
      PROVE  /\ Pri!Along(<<c1, c2>>, v, "SELLER") >= r
             /\ Pri!Along(<<c1, c2>>, v, "SELLER") \in Int
  <2>1. PICK g \in Nat : g = t - r /\ g = Pri!AtLeast(v.reservation - v.target, v.target - v.reservation)
    BY <1>1 DEF Pri!AtLeast
  <2>2. PICK n \in Int : n = t * c2 - g * c1
    BY Z3
  <2>3. n >= r * c2
    <3>1. g * c1 <= g * c2
      BY <1>4, Z3
    <3>2. t * c2 = r * c2 + g * c2
      BY <2>1, Z3
    <3> QED BY <2>2, <3>1, <3>2, Z3
  <2>4. Pri!HalfUp(n, c2) \in Int /\ Pri!HalfUp(n, c2) >= r
    BY <2>3, HalfUpBound
  <2>5. Pri!Along(<<c1, c2>>, v, "SELLER") = Pri!HalfUp(n, c2)
    BY <1>1, <2>1, <2>2 DEF Pri!Along
  <2> QED BY <2>4, <2>5
<1> QED BY <1>1, <1>2, <1>3, <1>4

\* Whatever the strategy engine suggests, a seller could accept.
LEMMA SellerSuggestion ==
    ASSUME NEW v, v = Pri!ValuationOf("SELLER"), v.reservation \in Nat \ {0}, v.target \in Nat \ {0},
           v.target >= v.reservation, MaxRounds \in Nat \ {0}, NEW round \in Nat, round <= MaxRounds,
           NEW mine \in Nat, NEW theirs \in Nat, NEW belief, NEW stall \in Nat
    PROVE  LET s == Pri!Suggestion("SELLER", round, mine, theirs, belief, stall)
           IN  s \in Int /\ s >= v.reservation
<1>1. PICK r \in Nat \ {0} : r = v.reservation
  OBVIOUS
<1>2. PICK own \in Nat \ {0} : own = IF mine = 0 THEN v.target ELSE mine
  OBVIOUS
<1>3. \A p \in Int : Pri!Bounded(p, v, "SELLER") >= r /\ Pri!Bounded(p, v, "SELLER") \in Int
  BY <1>1, SellerLimits
<1>4. Pri!StrongAnchor(v, "SELLER") >= r /\ Pri!StrongAnchor(v, "SELLER") \in Int
  BY <1>1, SellerLimits
<1>5. Pri!Ultimatum(own, theirs, v, "SELLER") >= r /\ Pri!Ultimatum(own, theirs, v, "SELLER") \in Int
  <2>1. PICK p : p = IF theirs = 0 THEN own ELSE Pri!HalfUp(own + theirs, 2)
    OBVIOUS
  <2>2. p \in Int
    <3>1. own + theirs \in Int /\ 2 \in Nat \ {0}
      OBVIOUS
    <3>2. Pri!HalfUp(own + theirs, 2) \in Int
      BY <3>1, HalfUpInt
    <3> QED BY <2>1, <3>2
  <2>3. Pri!Ultimatum(own, theirs, v, "SELLER") = Pri!Bounded(p, v, "SELLER")
    BY <2>1 DEF Pri!Ultimatum
  <2> QED BY <1>3, <2>2, <2>3
<1>6. Pri!Hardball(own, v, "SELLER") >= r /\ Pri!Hardball(own, v, "SELLER") \in Int
  <2>1. PICK p : p = Pri!HalfUp(own * 99, 100)
    OBVIOUS
  <2>2. p \in Int
    <3>1. own * 99 \in Int /\ 100 \in Nat \ {0}
      OBVIOUS
    <3> QED BY <2>1, <3>1, HalfUpInt
  <2>3. Pri!Hardball(own, v, "SELLER") = Pri!Bounded(p, v, "SELLER")
    BY <2>1 DEF Pri!Hardball
  <2> QED BY <1>3, <2>2, <2>3
<1>7. Pri!TitForTat(own, theirs, v, "SELLER") >= r /\ Pri!TitForTat(own, theirs, v, "SELLER") \in Int
  <2>1. PICK gap \in Int : gap = Pri!AtLeast(theirs - own, own - theirs)
    BY Bounds
  <2>2. PICK wanted \in Int : wanted = IF theirs = 0 THEN 200 ELSE Pri!HalfUp(8500 * gap, own)
    <3>1. Pri!HalfUp(8500 * gap, own) \in Int
      BY HalfUpInt
    <3> QED BY <3>1
  <2>3. PICK cut \in Int : cut = Pri!AtMost(wanted, 1500)
    BY Bounds
  <2>4. PICK c \in Int : c = Pri!AtLeast(cut, 50)
    BY Bounds
  <2>5. PICK n \in Int : n = own * (10000 + -1 * c)
    OBVIOUS
  <2>6. Pri!HalfUp(n, 10000) \in Int
    BY HalfUpInt
  <2>7. Pri!TitForTat(own, theirs, v, "SELLER") = Pri!Bounded(Pri!HalfUp(n, 10000), v, "SELLER")
    BY <2>1, <2>2, <2>3, <2>4, <2>5 DEF Pri!TitForTat
  <2> QED BY <1>3, <2>6, <2>7
<1>8. /\ Pri!DeadlinePressure(round, v, "SELLER") >= r
      /\ Pri!DeadlinePressure(round, v, "SELLER") \in Int
  <2>1. /\ Pri!Along(<<5252, 10000>>, v, "SELLER") >= r /\ Pri!Along(<<5252, 10000>>, v, "SELLER") \in Int
        /\ Pri!Along(<<6186, 10000>>, v, "SELLER") >= r /\ Pri!Along(<<6186, 10000>>, v, "SELLER") \in Int
    BY <1>1, SellerLimits
  <2> QED BY <2>1 DEF Pri!DeadlinePressure, Pri!DeadlineCurve
<1>9. Pri!Boulware(round, v, "SELLER") >= r /\ Pri!Boulware(round, v, "SELLER") \in Int
  <2>1. PICK k \in Nat : k = MaxRounds - round
    OBVIOUS
  <2>2. PICK c2 \in Nat \ {0} : c2 = MaxRounds * MaxRounds * MaxRounds
    <3>1. MaxRounds * MaxRounds \in Nat \ {0}
      BY Z3
    <3> QED BY <3>1, Z3
  <2>3. PICK left \in Nat : left = k * k * k
    <3>1. k * k \in Nat
      BY Z3
    <3> QED BY <3>1, Z3
  <2>4. PICK c1 \in Int : c1 = c2 - left /\ c1 <= c2
    OBVIOUS
  <2>5. Pri!BoulwareCurve(round) = <<c1, c2>>
    BY <2>1, <2>2, <2>3, <2>4 DEF Pri!BoulwareCurve
  <2>6. Pri!Along(<<c1, c2>>, v, "SELLER") >= r /\ Pri!Along(<<c1, c2>>, v, "SELLER") \in Int
    BY <1>1, <2>4, SellerLimits
  <2> QED BY <2>5, <2>6 DEF Pri!Boulware
<1>10. PICK s : s = Pri!Selected("SELLER", round, mine, theirs, belief, stall)
  OBVIOUS
<1>11. s \in Int /\ s >= r
  <2> DEFINE Fine(x) == x \in Int /\ x >= r
  <2>1. /\ Fine(Pri!StrongAnchor(v, "SELLER")) /\ Fine(v.reservation)
        /\ Fine(Pri!Ultimatum(own, theirs, v, "SELLER")) /\ Fine(Pri!Hardball(own, v, "SELLER"))
        /\ Fine(Pri!DeadlinePressure(round, v, "SELLER"))
        /\ Fine(Pri!TitForTat(own, theirs, v, "SELLER")) /\ Fine(Pri!Boulware(round, v, "SELLER"))
    BY <1>1, <1>4, <1>5, <1>6, <1>7, <1>8, <1>9
  <2>2. Pri!ValuationOf("SELLER") = v
    OBVIOUS
  <2> HIDE DEF Fine
  <2>3. Fine(Pri!Selected("SELLER", round, mine, theirs, belief, stall))
    BY <1>2, <2>1, <2>2, Zenon DEF Pri!Selected
  <2>4. Fine(s)
    BY <1>10, <2>3
  <2> QED BY <2>4 DEF Fine
<1>12. PICK a \in Int : a = Pri!AtLeast(1, s) /\ a >= s
  <2>1. 1 \in Int /\ s \in Int
    BY <1>11
  <2>2. Pri!AtLeast(1, s) \in Int /\ Pri!AtLeast(1, s) >= s
    BY <2>1, Bounds
  <2> QED BY <2>2
<1>13. Pri!Suggestion("SELLER", round, mine, theirs, belief, stall) = a
  BY <1>10, <1>12, Zenon DEF Pri!Suggestion
<1>14. a >= v.reservation
  BY <1>1, <1>11, <1>12
<1> QED BY <1>12, <1>13, <1>14

\* A suggestion is a price.
LEMMA SuggestionType ==
    ASSUME NEW role \in {"BUYER", "SELLER"}, NEW v, v = Pri!ValuationOf(role),
           v.reservation \in Nat \ {0}, v.target \in Nat \ {0}, MaxRounds \in Nat \ {0},
           NEW round \in Nat, round <= MaxRounds,
           NEW mine \in Nat, NEW theirs \in Nat, NEW belief, NEW stall \in Nat
    PROVE  Pri!Suggestion(role, round, mine, theirs, belief, stall) \in Nat \ {0}
<1>1. PICK t \in Nat \ {0}, r \in Nat \ {0} : t = v.target /\ r = v.reservation
  OBVIOUS
<1>2. PICK own \in Nat \ {0} : own = IF mine = 0 THEN v.target ELSE mine
  OBVIOUS
<1>3. \A p \in Int : Pri!Bounded(p, v, role) \in Int
  BY <1>1 DEF Pri!Bounded, Pri!AtMost, Pri!AtLeast
<1>4. Pri!StrongAnchor(v, role) \in Int
  <2>1. t * (IF role = "BUYER" THEN 95 ELSE 110) \in Int /\ 100 \in Nat \ {0}
    OBVIOUS
  <2>2. Pri!HalfUp(t * (IF role = "BUYER" THEN 95 ELSE 110), 100) \in Int
    BY <2>1, HalfUpInt
  <2> QED BY <1>1, <2>2 DEF Pri!StrongAnchor
<1>5. Pri!Ultimatum(own, theirs, v, role) \in Int
  <2>1. own + theirs \in Int /\ 2 \in Nat \ {0}
    OBVIOUS
  <2>2. Pri!HalfUp(own + theirs, 2) \in Int
    BY <2>1, HalfUpInt
  <2>3. (IF theirs = 0 THEN own ELSE Pri!HalfUp(own + theirs, 2)) \in Int
    BY <2>2
  <2> QED BY <1>3, <2>3 DEF Pri!Ultimatum
<1>6. Pri!Hardball(own, v, role) \in Int
  <2>1. own * (IF role = "BUYER" THEN 101 ELSE 99) \in Int /\ 100 \in Nat \ {0}
    OBVIOUS
  <2>2. Pri!HalfUp(own * (IF role = "BUYER" THEN 101 ELSE 99), 100) \in Int
    BY <2>1, HalfUpInt
  <2> QED BY <1>3, <2>2 DEF Pri!Hardball
<1>7. Pri!TitForTat(own, theirs, v, role) \in Int
  <2>1. PICK gap \in Int : gap = Pri!AtLeast(theirs - own, own - theirs)
    BY Bounds
  <2>2. PICK wanted \in Int : wanted = IF theirs = 0 THEN 200 ELSE Pri!HalfUp(8500 * gap, own)
    <3>1. Pri!HalfUp(8500 * gap, own) \in Int
      BY HalfUpInt
    <3> QED BY <3>1
  <2>3. PICK cut \in Int : cut = Pri!AtMost(wanted, 1500)
    BY Bounds
  <2>4. PICK c \in Int : c = Pri!AtLeast(cut, 50)
    BY Bounds
  <2>5. PICK sign \in Int : sign = IF role = "BUYER" THEN 1 ELSE -1
    OBVIOUS
  <2>6. PICK n \in Int : n = own * (10000 + sign * c)
    OBVIOUS
  <2>7. Pri!HalfUp(n, 10000) \in Int
    BY HalfUpInt
  <2>8. Pri!TitForTat(own, theirs, v, role) = Pri!Bounded(Pri!HalfUp(n, 10000), v, role)
    BY <2>1, <2>2, <2>3, <2>4, <2>5, <2>6 DEF Pri!TitForTat
  <2> QED BY <1>3, <2>7, <2>8
<1>8. ASSUME NEW c1 \in Int, NEW c2 \in Nat \ {0} PROVE Pri!Along(<<c1, c2>>, v, role) \in Int
  <2>1. PICK g \in Int : g = Pri!AtLeast(v.reservation - v.target, v.target - v.reservation)
    BY <1>1 DEF Pri!AtLeast
  <2>2. t * c2 + g * c1 \in Int /\ t * c2 - g * c1 \in Int
    OBVIOUS
  <2>3. Pri!HalfUp(t * c2 + g * c1, c2) \in Int /\ Pri!HalfUp(t * c2 - g * c1, c2) \in Int
    BY <2>2, HalfUpInt
  <2> QED BY <1>1, <2>1, <2>3 DEF Pri!Along
<1>9. Pri!DeadlinePressure(round, v, role) \in Int
  <2>1. Pri!Along(<<5252, 10000>>, v, role) \in Int /\ Pri!Along(<<6186, 10000>>, v, role) \in Int
    BY <1>8
  <2> QED BY <2>1 DEF Pri!DeadlinePressure, Pri!DeadlineCurve
<1>10. Pri!Boulware(round, v, role) \in Int
  <2>1. PICK c2 \in Nat \ {0} : c2 = MaxRounds * MaxRounds * MaxRounds
    <3>1. MaxRounds * MaxRounds \in Nat \ {0}
      BY Z3
    <3> QED BY <3>1, Z3
  <2>2. PICK c1 \in Int :
           c1 = c2 - (MaxRounds - round) * (MaxRounds - round) * (MaxRounds - round)
    OBVIOUS
  <2>3. Pri!BoulwareCurve(round) = <<c1, c2>>
    BY <2>1, <2>2 DEF Pri!BoulwareCurve
  <2> QED BY <1>8, <2>3 DEF Pri!Boulware
<1>11. PICK s : s = Pri!Selected(role, round, mine, theirs, belief, stall)
  OBVIOUS
<1>12. s \in Int
  <2> DEFINE Fine(x) == x \in Int
  <2>1. /\ Fine(Pri!StrongAnchor(v, role)) /\ Fine(v.reservation)
        /\ Fine(Pri!Ultimatum(own, theirs, v, role)) /\ Fine(Pri!Hardball(own, v, role))
        /\ Fine(Pri!DeadlinePressure(round, v, role))
        /\ Fine(Pri!TitForTat(own, theirs, v, role)) /\ Fine(Pri!Boulware(round, v, role))
    BY <1>1, <1>4, <1>5, <1>6, <1>7, <1>9, <1>10
  <2>2. Pri!ValuationOf(role) = v
    OBVIOUS
  <2> HIDE DEF Fine
  <2>3. Fine(Pri!Selected(role, round, mine, theirs, belief, stall))
    BY <1>2, <2>1, <2>2, Zenon DEF Pri!Selected
  <2>4. Fine(s)
    BY <1>11, <2>3
  <2> QED BY <2>4 DEF Fine
<1>13. Pri!AtLeast(1, s) \in Nat \ {0}
  BY <1>12 DEF Pri!AtLeast
<1> QED BY <1>11, <1>13, Zenon DEF Pri!Suggestion

Offers == [price : Int, by : {"none", "agent", "human", "closing", "placeholder"}, count : 0 .. 2]

\* An agreement the offers converged on ended the session, at the last price of
\* one side.
PricingInv ==
    /\ deal \in [ceiling : Nat \ {0}, stock : Nat \ {0}, buying : {"LOW", "MEDIUM", "HIGH"},
                 selling : {"LOW", "MEDIUM", "HIGH"}, floor : 0 .. 100]
    /\ talk \in [status : {"open", "review", "failed", "agreed"}, round : 0 .. MaxRounds,
                 stall : Nat, failures : Nat]
    /\ last \in [{"BUYER", "SELLER"} -> Offers] /\ turn \in {"BUYER", "SELLER"}
    /\ \A role \in {"BUYER", "SELLER"} : last[role].price >= 0
    /\ last["BUYER"].by = "agent" => last["BUYER"].price <= deal.ceiling
    /\ last["SELLER"].by = "agent" /\ Pri!FloorUnderTarget
          => last["SELLER"].price >= Pri!ValuationOf("SELLER").reservation
    /\ agreement.via = "converged" =>
          /\ talk.status = "agreed" /\ Pri!Converged(last["BUYER"].price, last["SELLER"].price)
          /\ agreement.price \in {last["BUYER"].price, last["SELLER"].price}

LEMMA PricesHold ==
    ASSUME PricingInv PROVE Pri!PricesRespectLimits
<1>1. PICK c \in Nat : c = deal.ceiling
  BY DEF PricingInv
<1>2. PICK b \in Nat, s \in Nat : b = last["BUYER"].price /\ s = last["SELLER"].price
  <2>1. last["BUYER"].price \in Nat /\ last["SELLER"].price \in Nat
    BY DEF PricingInv, Offers
  <2> QED BY <2>1
<1>3. PICK r \in Nat : r = Pri!ValuationOf("SELLER").reservation
  <2>1. Pri!SellerValuation(deal.stock, deal.floor, deal.selling).reservation \in Nat \ {0}
    BY SellerAims DEF PricingInv
  <2> QED BY <2>1 DEF Pri!ValuationOf
<1>4. last["BUYER"].by = "agent" => b <= c
  BY <1>1, <1>2 DEF PricingInv
<1>5. last["SELLER"].by = "agent" /\ Pri!FloorUnderTarget => s >= r
  BY <1>2, <1>3 DEF PricingInv
<1>6. ASSUME agreement.via = "converged", last["BUYER"].by = "agent", last["SELLER"].by = "agent"
      PROVE  /\ 100 * agreement.price <= 102 * c
             /\ Pri!FloorUnderTarget => 102 * agreement.price >= 100 * r
  <2>1. Pri!Converged(b, s) /\ (agreement.price = b \/ agreement.price = s)
    BY <1>2, <1>6 DEF PricingInv
  <2>2. 100 * (s - b) <= 2 * b /\ 100 * (b - s) <= 2 * b
    BY <2>1 DEF Pri!Converged, Pri!AtLeast
  <2>3. CASE agreement.price = b
    BY <1>4, <1>5, <1>6, <2>2, <2>3
  <2>4. CASE agreement.price = s
    BY <1>4, <1>5, <1>6, <2>2, <2>4
  <2> QED BY <2>1, <2>3, <2>4
<1> QED BY <1>1, <1>2, <1>3, <1>4, <1>5, <1>6 DEF Pri!PricesRespectLimits, Pri!Agent

LEMMA PricingInit ==
    ASSUME Pri!Init, Pri!PricingAssumption PROVE PricingInv
<1>1. /\ last["BUYER"] = Pri!NoOffer /\ last["SELLER"] = Pri!NoOffer
      /\ last \in [{"BUYER", "SELLER"} -> Offers]
  BY DEF Pri!Init, Pri!NoOffer, Offers
<1>2. \A role \in {"BUYER", "SELLER"} : last[role].price >= 0 /\ last[role].by # "agent"
  BY <1>1 DEF Pri!NoOffer
<1> QED BY <1>1, <1>2 DEF Pri!Init, Pri!PricingAssumption, PricingInv

\* What both sides' valuations are.
LEMMA Valuations ==
    ASSUME PricingInv, NEW role \in {"BUYER", "SELLER"}
    PROVE  /\ Pri!ValuationOf(role).reservation \in Nat \ {0}
           /\ Pri!ValuationOf(role).target \in Nat \ {0}
           /\ role = "SELLER" /\ Pri!FloorUnderTarget
                => Pri!ValuationOf(role).target >= Pri!ValuationOf(role).reservation
<1>1. CASE role = "SELLER"
  <2>1. PICK v : v = Pri!SellerValuation(deal.stock, deal.floor, deal.selling)
    OBVIOUS
  <2>2. /\ v.reservation \in Nat \ {0} /\ v.target \in Nat \ {0}
        /\ deal.floor <= Pri!TargetMargin(deal.selling) => v.target >= v.reservation
    BY <2>1, SellerAims DEF PricingInv
  <2>3. Pri!ValuationOf(role) = v
    BY <1>1, <2>1 DEF Pri!ValuationOf
  <2> QED BY <2>2, <2>3 DEF Pri!FloorUnderTarget
<1>2. CASE role = "BUYER"
  <2>1. PICK c \in Nat \ {0} : c = deal.ceiling
    BY DEF PricingInv
  <2>2. PICK risk \in Nat : risk = [LOW |-> 5, MEDIUM |-> 10, HIGH |-> 20][deal.buying]
    BY DEF PricingInv
  <2>3. PICK margin \in Nat : margin = [LOW |-> 3, MEDIUM |-> 5, HIGH |-> 10][deal.buying]
    BY DEF PricingInv
  <2>4. PICK a \in Int, b \in Int : a = (80 * c) * (100 - risk) /\ b = (80 * c) * (100 - margin)
    OBVIOUS
  <2>5. PICK v : v = Pri!Valuation(80 * c, risk, margin)
    OBVIOUS
  <2>6. /\ v.reservation = Pri!AtLeast(Pri!HalfUp(a, 10000), 1)
        /\ v.target = Pri!AtLeast(Pri!HalfUp(b, 10000), 1)
        /\ DOMAIN v = {"reservation", "target"}
    BY <2>4, <2>5 DEF Pri!Valuation
  <2>7. Pri!HalfUp(a, 10000) \in Int /\ Pri!HalfUp(b, 10000) \in Int
    BY HalfUpInt
  <2>8. v.reservation \in Nat \ {0} /\ v.target \in Nat \ {0}
    BY <2>6, <2>7 DEF Pri!AtLeast
  <2>9. Pri!ValuationOf(role) = [v EXCEPT !.reservation = Pri!AtMost(@, c)]
    BY <1>2, <2>1, <2>2, <2>3, <2>5 DEF Pri!ValuationOf, Pri!BuyerValuation
  <2>10. /\ Pri!ValuationOf(role).reservation = Pri!AtMost(v.reservation, c)
         /\ Pri!ValuationOf(role).target = v.target
    BY <2>6, <2>9
  <2> QED BY <1>2, <2>8, <2>10 DEF Pri!AtMost
<1> QED BY <1>1, <1>2

\* The guardrails, whatever the model answered.
LEMMA GuardedPrice ==
    ASSUME PricingInv, NEW role \in {"BUYER", "SELLER"}, NEW price \in Nat,
           NEW suggestion \in Nat \ {0},
           role = "SELLER" /\ Pri!FloorUnderTarget
             => suggestion >= Pri!ValuationOf("SELLER").reservation
    PROVE  /\ Pri!FinalPrice(role, price, suggestion) \in Nat
           /\ role = "BUYER" => Pri!FinalPrice(role, price, suggestion) <= deal.ceiling
           /\ role = "SELLER" /\ Pri!FloorUnderTarget
                => Pri!FinalPrice(role, price, suggestion)
                     >= Pri!ValuationOf("SELLER").reservation
<1>1. PICK x \in Nat : x = IF Pri!Violates(role, price) THEN suggestion ELSE price
  OBVIOUS
<1>2. PICK c \in Nat, r \in Nat : c = deal.ceiling /\ r = Pri!ValuationOf("SELLER").reservation
  BY Valuations DEF PricingInv
<1>3. PICK f : f = Pri!FinalPrice(role, price, suggestion) /\ f = Pri!BudgetGuard(role, x)
  BY <1>1 DEF Pri!FinalPrice
<1>4. CASE role = "BUYER"
  BY <1>2, <1>3, <1>4 DEF Pri!BudgetGuard, Pri!AtMost
<1>5. CASE role = "SELLER"
  <2>1. f = x
    BY <1>3, <1>5 DEF Pri!BudgetGuard
  <2>2. ~ Pri!Violates(role, price) => price >= r
    BY <1>2, <1>5 DEF Pri!Violates
  <2>3. Pri!FloorUnderTarget => x >= r
    BY <1>1, <1>2, <1>5, <2>2
  <2> QED BY <1>2, <1>3, <1>5, <2>1, <2>3
<1> QED BY <1>4, <1>5

\* An offer is added and the session goes on, or ends.
LEMMA OfferStep ==
    ASSUME PricingInv, NEW role \in {"BUYER", "SELLER"}, NEW price \in Nat,
           NEW by \in {"agent", "human", "closing", "placeholder"}, Pri!Add(role, price, by),
           by = "agent" /\ role = "BUYER" => price <= deal.ceiling,
           by = "agent" /\ role = "SELLER" /\ Pri!FloorUnderTarget
             => price >= Pri!ValuationOf("SELLER").reservation,
           NEW t, talk' = t, t.status \in {"open", "review", "failed", "agreed"},
           t \in [status : {"open", "review", "failed", "agreed"}, round : Nat,
                  stall : Nat, failures : Nat], t.round = talk.round + 1,
           agreement'.via = "converged" =>
             /\ t.status = "agreed" /\ agreement'.price = price
             /\ Pri!Converged(last'["BUYER"].price, last'["SELLER"].price),
           UNCHANGED deal, MaxRounds \in Nat
    PROVE  PricingInv'
<1>1. PICK n : n = [price |-> price, by |-> by, count |-> Pri!AtMost(last[role].count + 1, 2)]
  OBVIOUS
<1>2. last' = [last EXCEPT ![role] = n] /\ talk.round < MaxRounds /\ turn' \in {"BUYER", "SELLER"}
  BY <1>1 DEF Pri!Add, Pri!Other, PricingInv
<1>3. n \in Offers /\ n.price = price /\ n.by = by
  <2>1. last[role].count \in 0 .. 2
    BY DEF PricingInv, Offers
  <2> QED BY <1>1, <2>1 DEF Offers, Pri!AtMost
<1>4. /\ last' \in [{"BUYER", "SELLER"} -> Offers] /\ last'[role] = n
      /\ \A other \in {"BUYER", "SELLER"} : other # role => last'[other] = last[other]
  BY <1>2, <1>3 DEF PricingInv
<1>5. \A any \in {"BUYER", "SELLER"} : last'[any].price >= 0
  BY <1>3, <1>4 DEF PricingInv
<1>6. last'["BUYER"].by = "agent" => last'["BUYER"].price <= deal.ceiling
  BY <1>3, <1>4 DEF PricingInv
<1>7. last'["SELLER"].by = "agent" /\ Pri!FloorUnderTarget
        => last'["SELLER"].price >= Pri!ValuationOf("SELLER").reservation
  BY <1>3, <1>4 DEF PricingInv
<1>8. agreement'.via = "converged" =>
         /\ talk'.status = "agreed" /\ Pri!Converged(last'["BUYER"].price, last'["SELLER"].price)
         /\ agreement'.price \in {last'["BUYER"].price, last'["SELLER"].price}
  BY <1>3, <1>4
<1>9. Pri!FloorUnderTarget' = Pri!FloorUnderTarget
      /\ Pri!ValuationOf("SELLER")' = Pri!ValuationOf("SELLER")
  BY DEF Pri!FloorUnderTarget, Pri!ValuationOf
<1>10. talk' \in [status : {"open", "review", "failed", "agreed"}, round : 0 .. MaxRounds,
                  stall : Nat, failures : Nat]
  <2>1. talk.round \in Nat
    BY DEF PricingInv
  <2>2. t.round \in 0 .. MaxRounds
    BY <1>2, <2>1
  <2> QED BY <2>2
<1> QED BY <1>2, <1>4, <1>5, <1>6, <1>7, <1>8, <1>9, <1>10 DEF PricingInv

\* How a turn leaves the session.
LEMMA Concluded ==
    ASSUME PricingInv, talk.status = "open", NEW stall \in Nat, NEW failures \in Nat,
           NEW via, NEW word, NEW price, Pri!Conclude(via, word, price, stall, failures)
    PROVE  \E t \in [status : {"open", "review", "failed", "agreed"}, round : Nat,
                     stall : Nat, failures : Nat] :
              /\ talk' = t /\ t.round = talk.round + 1 /\ UNCHANGED deal
              /\ agreement'.via = "converged" =>
                    t.status = "agreed" /\ agreement'.price = price /\ via = "converged"
<1>1. PICK status : status = CASE via = "none" -> "open"
                             [] via = "breach" -> "failed"
                             [] via # "none" /\ word -> "failed"
                             [] stall >= Pri!StallRounds -> "review"
                             [] OTHER -> "agreed"
  OBVIOUS
<1>2. /\ talk' = [status |-> status, round |-> talk.round + 1, stall |-> stall,
                  failures |-> failures]
      /\ agreement' = IF status = "agreed" /\ via # "breach"
                      THEN [price |-> price, via |-> via] ELSE agreement
      /\ UNCHANGED <<deal, overrides>>
  BY <1>1, Zenon DEF Pri!Conclude
<1>3. status \in {"open", "review", "failed", "agreed"}
  BY <1>1, Zenon
<1>4. agreement.via # "converged" /\ talk.round \in Nat
  BY DEF PricingInv
<1>5. CASE status = "agreed" /\ via # "breach"
  <2>1. agreement'.price = price /\ agreement'.via = via
    BY <1>2, <1>5
  <2> QED BY <1>2, <1>3, <1>4, <1>5, <2>1
<1>6. CASE ~ (status = "agreed" /\ via # "breach")
  <2>1. agreement' = agreement
    BY <1>2, <1>6
  <2> QED BY <1>2, <1>3, <1>4, <2>1
<1> QED BY <1>5, <1>6

LEMMA CloseStep ==
    ASSUME PricingInv, Pri!PricingAssumption, talk.status = "open", NEW answer \in Answers,
           answer.action \in {"ACCEPT", "REJECT"}, Pri!Close(answer)
    PROVE  PricingInv'
<1>1. turn \in {"BUYER", "SELLER"} /\ talk.stall \in Nat /\ talk.failures \in Nat
  BY DEF PricingInv
<1>2. PICK theirs \in Nat : theirs = last[Pri!Other(turn)].price
  BY <1>1 DEF PricingInv, Offers, Pri!Other
<1>3. PICK price \in Nat :
         price = IF answer.action = "ACCEPT" /\ theirs # 0 THEN theirs ELSE answer.price
  BY DEF Pri!PricingAssumption
<1>4. /\ Pri!Add(turn, price, "closing")
      /\ Pri!Conclude(answer.action, answer.word, price, talk.stall, talk.failures)
  BY <1>2, <1>3 DEF Pri!Close
<1>5. PICK t \in [status : {"open", "review", "failed", "agreed"}, round : Nat,
                  stall : Nat, failures : Nat] :
         /\ talk' = t /\ t.round = talk.round + 1 /\ UNCHANGED deal
         /\ agreement'.via = "converged" =>
               t.status = "agreed" /\ agreement'.price = price /\ answer.action = "converged"
  BY <1>1, <1>4, Concluded
<1>6. agreement'.via # "converged" /\ MaxRounds \in Nat
  BY <1>5 DEF Pri!PricingAssumption
<1>7. t.status \in {"open", "review", "failed", "agreed"}
  OBVIOUS
<1> QED BY <1>1, <1>4, <1>5, <1>6, <1>7, OfferStep

LEMMA CounterStep ==
    ASSUME PricingInv, Pri!PricingAssumption, talk.status = "open", NEW answer \in Answers,
           Pri!CounterOffer(answer)
    PROVE  PricingInv'
<1>1. /\ turn \in {"BUYER", "SELLER"} /\ talk.stall \in Nat /\ talk.failures \in Nat
      /\ talk.round \in Nat /\ talk.round <= MaxRounds /\ MaxRounds \in Nat \ {0}
  BY DEF PricingInv, Pri!PricingAssumption
<1>2. PICK theirs \in Nat : theirs = last[Pri!Other(turn)].price
  BY <1>1 DEF PricingInv, Offers, Pri!Other
<1>3. PICK mine \in Nat : mine = last[turn].price
  BY <1>1 DEF PricingInv, Offers
<1>4. PICK belief \in Pri!BeliefsAbout(last[Pri!Other(turn)].count) :
         LET price == Pri!FinalPrice(turn, answer.price,
                         Pri!Suggestion(turn, talk.round, mine, theirs, belief, talk.stall))
             failures == talk.failures + (IF Pri!Violates(turn, answer.price) THEN 1 ELSE 0)
             stall == Pri!StallAfter(mine, price)
             via == CASE Pri!Converged(IF turn = "BUYER" THEN price ELSE theirs,
                                       IF turn = "SELLER" THEN price ELSE theirs) -> "converged"
                      [] talk.round + 1 >= Pri!StallThreshold -> "stalled"
                      [] OTHER -> "none"
         IN  IF failures > talk.failures /\ failures >= Pri!MaxSchemaFailures
             THEN /\ Pri!Add(turn, 100, "placeholder")
                  /\ Pri!Conclude("breach", FALSE, 100, talk.stall, failures)
             ELSE /\ Pri!Add(turn, price, "agent")
                  /\ Pri!Conclude(via, answer.word, price, stall, failures)
  BY <1>2, <1>3, Zenon DEF Pri!CounterOffer
<1>5. PICK suggestion \in Nat \ {0} :
         /\ suggestion = Pri!Suggestion(turn, talk.round, mine, theirs, belief, talk.stall)
         /\ turn = "SELLER" /\ Pri!FloorUnderTarget
              => suggestion >= Pri!ValuationOf("SELLER").reservation
  <2>1. PICK v : v = Pri!ValuationOf(turn)
    OBVIOUS
  <2>2. /\ v.reservation \in Nat \ {0} /\ v.target \in Nat \ {0}
        /\ turn = "SELLER" /\ Pri!FloorUnderTarget => v.target >= v.reservation
    BY <1>1, <2>1, Valuations
  <2>3. Pri!Suggestion(turn, talk.round, mine, theirs, belief, talk.stall) \in Nat \ {0}
    BY <1>1, <2>1, <2>2, SuggestionType
  <2>4. ASSUME turn = "SELLER", Pri!FloorUnderTarget
        PROVE  Pri!Suggestion("SELLER", talk.round, mine, theirs, belief, talk.stall) >= v.reservation
    <3>1. v = Pri!ValuationOf("SELLER") /\ v.target >= v.reservation
      BY <2>1, <2>2, <2>4
    <3> QED BY <1>1, <2>2, <3>1, SellerSuggestion
  <2> QED BY <2>1, <2>3, <2>4
<1>6. PICK price \in Nat :
         /\ price = Pri!FinalPrice(turn, answer.price, suggestion)
         /\ turn = "BUYER" => price <= deal.ceiling
         /\ turn = "SELLER" /\ Pri!FloorUnderTarget
              => price >= Pri!ValuationOf("SELLER").reservation
  <2>1. answer.price \in Nat
    BY DEF Pri!PricingAssumption
  <2> QED BY <1>1, <1>5, <2>1, GuardedPrice
<1>7. PICK failures \in Nat :
         failures = talk.failures + (IF Pri!Violates(turn, answer.price) THEN 1 ELSE 0)
  BY <1>1
<1>8. PICK stall \in Nat : stall = Pri!StallAfter(mine, price)
  BY <1>1 DEF Pri!StallAfter
<1>9. PICK via : via = CASE Pri!Converged(IF turn = "BUYER" THEN price ELSE theirs,
                                       IF turn = "SELLER" THEN price ELSE theirs) -> "converged"
                      [] talk.round + 1 >= Pri!StallThreshold -> "stalled"
                      [] OTHER -> "none"
  OBVIOUS
<1>10. \/ /\ Pri!Add(turn, 100, "placeholder")
          /\ Pri!Conclude("breach", FALSE, 100, talk.stall, failures)
       \/ /\ Pri!Add(turn, price, "agent")
          /\ Pri!Conclude(via, answer.word, price, stall, failures)
  BY <1>4, <1>5, <1>6, <1>7, <1>8, <1>9, Zenon
<1>11. via = "converged" => Pri!Converged(IF turn = "BUYER" THEN price ELSE theirs,
                                          IF turn = "SELLER" THEN price ELSE theirs)
  BY <1>9, Zenon
<1>12. ASSUME Pri!Add(turn, 100, "placeholder"),
              Pri!Conclude("breach", FALSE, 100, talk.stall, failures)
       PROVE  PricingInv'
  <2>0. PICK how, word, placeholder :
           /\ how = "breach" /\ placeholder = 100
           /\ Pri!Conclude(how, word, placeholder, talk.stall, failures)
    BY <1>12, Zenon
  <2>1. PICK t \in [status : {"open", "review", "failed", "agreed"}, round : Nat,
                    stall : Nat, failures : Nat] :
           /\ talk' = t /\ t.round = talk.round + 1 /\ UNCHANGED deal
           /\ agreement'.via = "converged" =>
                 t.status = "agreed" /\ agreement'.price = placeholder /\ how = "converged"
    BY <1>1, <2>0, Concluded
  <2>2. agreement'.via # "converged" /\ MaxRounds \in Nat /\ 100 \in Nat
        /\ t.status \in {"open", "review", "failed", "agreed"}
    BY <1>1, <2>0, <2>1
  <2> QED BY <1>1, <1>12, <2>1, <2>2, OfferStep
<1>13. ASSUME Pri!Add(turn, price, "agent"),
              Pri!Conclude(via, answer.word, price, stall, failures)
       PROVE  PricingInv'
  <2>1. PICK t \in [status : {"open", "review", "failed", "agreed"}, round : Nat,
                    stall : Nat, failures : Nat] :
           /\ talk' = t /\ t.round = talk.round + 1 /\ UNCHANGED deal
           /\ agreement'.via = "converged" =>
                 t.status = "agreed" /\ agreement'.price = price /\ via = "converged"
    BY <1>1, <1>13, Concluded
  <2>2. t.status \in {"open", "review", "failed", "agreed"} /\ MaxRounds \in Nat
    BY <1>1
  <2>3. /\ last'[turn].price = price /\ last'[Pri!Other(turn)].price = theirs
    BY <1>1, <1>2, <1>13 DEF Pri!Add, Pri!Other, PricingInv
  <2>4. /\ last'["BUYER"].price = IF turn = "BUYER" THEN price ELSE theirs
        /\ last'["SELLER"].price = IF turn = "SELLER" THEN price ELSE theirs
    BY <1>1, <2>3 DEF Pri!Other
  <2>5. agreement'.via = "converged" =>
          /\ t.status = "agreed" /\ agreement'.price = price
          /\ Pri!Converged(last'["BUYER"].price, last'["SELLER"].price)
    BY <1>11, <2>1, <2>4
  <2> QED BY <1>1, <1>6, <1>13, <2>1, <2>2, <2>5, OfferStep
<1> QED BY <1>10, <1>12, <1>13

LEMMA OverrideStep ==
    ASSUME PricingInv, Pri!PricingAssumption, Pri!HumanOverride
    PROVE  PricingInv'
<1>1. PICK price \in HumanPrices : Pri!Add("BUYER", price, "human")
  BY DEF Pri!HumanOverride
<1>2. price \in Nat /\ MaxRounds \in Nat
  BY <1>1 DEF Pri!PricingAssumption
<1>3. PICK r \in [status : {"open", "review", "failed", "agreed"}, round : Nat,
                  stall : Nat, failures : Nat] : r = talk
  BY DEF PricingInv
<1>4. PICK o : o = [r EXCEPT !.status = "open"]
  OBVIOUS
<1>5. PICK t : t = [o EXCEPT !.round = r.round + 1]
  OBVIOUS
<1>6. /\ o \in [status : {"open", "review", "failed", "agreed"}, round : Nat,
                stall : Nat, failures : Nat]
      /\ o.status = "open" /\ o.round = r.round
  BY <1>4
<1>7. /\ t \in [status : {"open", "review", "failed", "agreed"}, round : Nat,
                stall : Nat, failures : Nat]
      /\ t.status = "open" /\ t.round = talk.round + 1
  BY <1>3, <1>5, <1>6
<1>8. talk' = t
  BY <1>3, <1>4, <1>5 DEF Pri!HumanOverride
<1>9. agreement'.via # "converged" /\ UNCHANGED deal
  BY DEF Pri!HumanOverride, PricingInv
<1>10. PICK by \in {"agent", "human", "closing", "placeholder"}, role \in {"BUYER", "SELLER"} :
          by = "human" /\ role = "BUYER"
  OBVIOUS
<1>11. Pri!Add(role, price, by) /\ by # "agent" /\ t.status \in {"open", "review", "failed", "agreed"}
  BY <1>1, <1>7, <1>10
<1> QED BY <1>2, <1>7, <1>8, <1>9, <1>11, OfferStep

LEMMA PricingNext ==
    ASSUME PricingInv, Pri!PricingAssumption, Pri!Next \/ UNCHANGED priceVars
    PROVE  PricingInv'
<1>1. CASE UNCHANGED priceVars
  BY <1>1 DEF priceVars, PricingInv, Pri!FloorUnderTarget, Pri!ValuationOf, Pri!Converged
<1>2. CASE Pri!HumanOverride
  BY <1>2, OverrideStep
<1>3. CASE Pri!AgentTurn
  <2>1. PICK answer \in Answers : answer \in Pri!Generated /\ talk.status = "open" /\
           IF answer.action \in {"OFFER", "COUNTER"} THEN Pri!CounterOffer(answer)
           ELSE Pri!Close(answer)
    BY <1>3 DEF Pri!AgentTurn, Pri!Generated
  <2>2. CASE answer.action \in {"OFFER", "COUNTER"}
    BY <2>1, <2>2, CounterStep
  <2>3. CASE answer.action \notin {"OFFER", "COUNTER"}
    <3>1. answer.action \in {"ACCEPT", "REJECT"}
      BY <2>1, <2>3 DEF Pri!Generated, Pri!Usable
    <3> QED BY <2>1, <2>3, <3>1, CloseStep
  <2> QED BY <2>2, <2>3
<1> QED BY <1>1, <1>2, <1>3 DEF Pri!Next

\* What every round of a negotiation's pricing preserves.
THEOREM PricingInvariant == MCSpec => []PricingInv
<1>1. MCInit => PricingInv
  BY OwnInit, PricingInit, ServicesAssumption
<1>2. PricingInv /\ [MCNext]_<<focus, vars, accountVars, treasuryVars, priceVars,
         memoryVars, streamVars, sessionVars, anchoringVars, breakerVars, profileVars>>
         => PricingInv'
  BY OwnNext, PricingNext, ServicesAssumption
<1> QED BY <1>1, <1>2, PTL DEF MCSpec

\* Whatever the model answers, the limits of its side hold for every price an agent
\* offers, and the prices two agents converge on are within both sides' limits.
THEOREM PricesStayInLimits == MCSpec => []PricesRespectLimits
<1>1. PricingInv => PricesRespectLimits
  BY PricesHold DEF PricesRespectLimits
<1> QED BY <1>1, PricingInvariant, PTL

----------------------------------------------------------------------------
(* Profiles. *)

ProfileRows ==
    [level : {"absent", "FULLY_AUTONOMOUS", "FULL", "SUPERVISED", "MANUAL"}, learned : Nat]

DealingStates == {"none", "open", "closed", "agreed"}

TurnRows ==
    [pc : {"idle", "load", "think", "buyer", "seller", "end", "failed"},
     session : {"none"} \cup Dealings, buyer : ProfileRows, seller : ProfileRows,
     held : SUBSET (({"session"} \X Dealings) \cup ({"profile"} \X Parties)),
     kept : SUBSET [of : Parties, row : ProfileRows]]

DoneOf(e, st) == {s \in Dealings : e \in Pro!PartiesOf(s) /\ st[s] = "agreed"}

CopyOf(t, e) == IF e = BuyerIn[t.session] THEN t.buyer ELSE t.seller

\* What an enterprise's profile has learned, of n agreements announced.
LearnedBy(e, r, st, n, m) ==
    /\ IsFiniteSet(DoneOf(e, st)) /\ r.learned <= n
    /\ e \notin m => r.learned = Cardinality(DoneOf(e, st))
    /\ DoneOf(e, st) # {} => r.learned > 0 /\ r.level # "FULLY_AUTONOMOUS"

\* The copies of a turn are no later than what has been announced, and what it
\* will keep is made of them.
CopiesFit(t, a) ==
    /\ t.pc = "idle" => t = Pro!NoTurn
    /\ t.pc # "idle" => t.session \in Dealings
    /\ t.pc \in {"think", "buyer", "seller", "end"} =>
          \A e \in Pro!PartiesOf(t.session) :
             /\ CopyOf(t, e).level # "FULLY_AUTONOMOUS"
             /\ CopyOf(t, e).learned + (IF t.pc = "think" THEN 0 ELSE 1) <= a[e]
    /\ \A k \in t.kept : /\ k.of \in Pro!PartiesOf(t.session)
                         /\ k.row.level = CopyOf(t, k.of).level
                         /\ k.row.learned = CopyOf(t, k.of).learned + 1
    /\ t.pc \in {"load", "think", "buyer"} => t.kept = {}
    /\ t.pc \in {"seller", "end"} => \E k \in t.kept : k.of = BuyerIn[t.session]
    /\ t.pc = "end" => \E k \in t.kept : k.of = SellerIn[t.session]

\* Nobody else has touched what a turn has read of an enterprise that no two turns
\* shared.
StillTrue(t, pr, st, m) ==
    t.pc # "idle" =>
       \A e \in Pro!PartiesOf(t.session) \ m :
          /\ st[t.session] = "open"
          /\ t.pc \notin {"load", "failed"} => CopyOf(t, e).learned = pr[e].learned

SharedAreMet(t, u, m) ==
    t.pc # "idle" /\ u.pc # "idle" =>
       \A e \in Pro!PartiesOf(t.session) : e \in Pro!PartiesOf(u.session) => e \in m

ProfilesInv ==
    /\ profile \in [Parties -> ProfileRows] /\ session \in [Dealings -> DealingStates]
    /\ agreed \in [Parties -> Nat] /\ doing \in [Turns -> TurnRows]
    /\ \A e \in Parties : LearnedBy(e, profile[e], session, agreed[e], met)
    /\ \A p \in Turns : /\ CopiesFit(doing[p], agreed)
                        /\ StillTrue(doing[p], profile, session, met)
                        /\ \A q \in Turns \ {p} : SharedAreMet(doing[p], doing[q], met)

LEMMA SameCount == \A S : Pro!Cardinality(S) = Cardinality(S)
BY DEF Pro!Cardinality, Cardinality

LEMMA TurnTakes ==
    ASSUME ProfilesInv, NEW p \in Turns, NEW t \in TurnRows, doing' = [doing EXCEPT ![p] = t],
           NEW pr \in [Parties -> ProfileRows], profile' = pr,
           NEW st \in [Dealings -> DealingStates], session' = st,
           NEW a \in [Parties -> Nat], agreed' = a, NEW m, met' = m,
           \A e \in Parties : LearnedBy(e, pr[e], st, a[e], m), CopiesFit(t, a),
           StillTrue(t, pr, st, m), \A e \in Parties : agreed[e] <= a[e], met \subseteq m,
           \A q \in Turns \ {p} : StillTrue(doing[q], pr, st, m) /\ SharedAreMet(t, doing[q], m),
           Pro!ProfilesAssumption
    PROVE  ProfilesInv'
<1>1. /\ doing' \in [Turns -> TurnRows] /\ doing'[p] = t
      /\ \A q \in Turns \ {p} : doing'[q] = doing[q]
  BY DEF ProfilesInv
<1>2. ASSUME NEW q \in Turns \ {p} PROVE CopiesFit(doing[q], a)
  <2>1. PICK u \in TurnRows : u = doing[q] /\ CopiesFit(u, agreed)
    BY DEF ProfilesInv
  <2>2. ASSUME u.pc \in {"think", "buyer", "seller", "end"}, NEW e \in Pro!PartiesOf(u.session)
        PROVE  /\ CopyOf(u, e).level # "FULLY_AUTONOMOUS"
               /\ CopyOf(u, e).learned + (IF u.pc = "think" THEN 0 ELSE 1) <= a[e]
    <3>1. u.session \in Dealings
      BY <2>1, <2>2 DEF CopiesFit
    <3>2. e \in Parties
      BY <3>1 DEF Pro!PartiesOf, Pro!ProfilesAssumption
    <3>3. CopyOf(u, e).learned \in Nat /\ agreed[e] <= a[e] /\ agreed[e] \in Nat /\ a[e] \in Nat
      BY <3>2 DEF CopyOf, TurnRows, ProfileRows, ProfilesInv
    <3>4. /\ CopyOf(u, e).level # "FULLY_AUTONOMOUS"
          /\ CopyOf(u, e).learned + (IF u.pc = "think" THEN 0 ELSE 1) <= agreed[e]
      BY <2>1, <2>2 DEF CopiesFit
    <3> QED BY <3>3, <3>4
  <2>3. CopiesFit(u, a)
    BY <2>1, <2>2 DEF CopiesFit
  <2> QED BY <2>1, <2>3
<1>3. \A q \in Turns : CopiesFit(doing'[q], a) /\ StillTrue(doing'[q], pr, st, m)
  BY <1>1, <1>2
<1>4. ASSUME NEW q \in Turns, NEW s \in Turns \ {q} PROVE SharedAreMet(doing'[q], doing'[s], m)
  <2>1. CASE q = p
    BY <1>1, <2>1
  <2>2. CASE s = p
    <3>1. SharedAreMet(t, doing[q], m) /\ doing'[q] = doing[q] /\ doing'[s] = t
      BY <1>1, <2>2
    <3> QED BY <3>1 DEF SharedAreMet
  <2>3. CASE q # p /\ s # p
    <3>1. SharedAreMet(doing[q], doing[s], met)
      BY DEF ProfilesInv
    <3>2. SharedAreMet(doing[q], doing[s], m)
      BY <3>1 DEF SharedAreMet
    <3> QED BY <1>1, <2>3, <3>2
  <2> QED BY <2>1, <2>2, <2>3
<1>5. ASSUME NEW q \in Turns
      PROVE  CopiesFit(doing[q], agreed)' /\ StillTrue(doing[q], profile, session, met)'
  BY <1>3 DEF CopiesFit, StillTrue, CopyOf, Pro!NoTurn, Pro!Absent
<1>6. ASSUME NEW q \in Turns, NEW s \in Turns \ {q}
      PROVE  SharedAreMet(doing[q], doing[s], met)'
  BY <1>4 DEF SharedAreMet
<1>7. ASSUME NEW e \in Parties
      PROVE  LearnedBy(e, profile[e], session, agreed[e], met)'
  BY DEF LearnedBy, DoneOf
<1> QED BY <1>1, <1>5, <1>6, <1>7 DEF ProfilesInv

\* What is needed when neither the tables nor the announcements change.
LEMMA TurnGoesOn ==
    ASSUME ProfilesInv, Pro!ProfilesAssumption, NEW p \in Turns, NEW t \in TurnRows,
           NEW old, old = doing[p], doing' = [doing EXCEPT ![p] = t],
           UNCHANGED <<profile, session, agreed, met>>,
           CopiesFit(t, agreed), StillTrue(t, profile, session, met),
           t.pc # "idle" => old.pc # "idle" /\ t.session = old.session
    PROVE  ProfilesInv'
<1>1. PICK pr, st, a, m : pr = profile /\ st = session /\ a = agreed /\ m = met
  OBVIOUS
<1>2. /\ pr \in [Parties -> ProfileRows] /\ st \in [Dealings -> DealingStates]
      /\ a \in [Parties -> Nat] /\ met \subseteq m
      /\ \A e \in Parties : LearnedBy(e, pr[e], st, a[e], m) /\ agreed[e] <= a[e]
  BY <1>1 DEF ProfilesInv
<1>3. /\ profile' = pr /\ session' = st /\ agreed' = a /\ met' = m
      /\ CopiesFit(t, a) /\ StillTrue(t, pr, st, m)
  BY <1>1
<1>4. ASSUME NEW q \in Turns \ {p}
      PROVE  StillTrue(doing[q], pr, st, m) /\ SharedAreMet(t, doing[q], m)
  <2>1. StillTrue(doing[q], pr, st, m) /\ SharedAreMet(doing[p], doing[q], m)
    BY <1>1 DEF ProfilesInv
  <2>2. SharedAreMet(t, doing[q], m)
    BY <2>1 DEF SharedAreMet
  <2> QED BY <2>1, <2>2
<1> QED BY <1>2, <1>3, <1>4, TurnTakes

LEMMA IdleTurn ==
    /\ Pro!NoTurn \in TurnRows /\ Pro!NoTurn.pc = "idle" /\ \A a : CopiesFit(Pro!NoTurn, a)
    /\ \A pr, st, m : StillTrue(Pro!NoTurn, pr, st, m)
    /\ \A u, m : SharedAreMet(Pro!NoTurn, u, m)
<1>1. PICK t : t = Pro!NoTurn
  OBVIOUS
<1>2. t.pc = "idle" /\ t.kept = {} /\ t \in TurnRows
  <2>1. PICK b \in ProfileRows : b = Pro!Absent
    BY DEF Pro!Absent, ProfileRows
  <2>2. t = [pc |-> "idle", session |-> "none", buyer |-> b, seller |-> b,
             held |-> {}, kept |-> {}]
    BY <1>1, <2>1 DEF Pro!NoTurn
  <2> QED BY <2>2 DEF TurnRows
<1>3. \A a : CopiesFit(t, a)
  BY <1>1, <1>2 DEF CopiesFit
<1> QED BY <1>1, <1>2, <1>3 DEF StillTrue, SharedAreMet

LEMMA CreateHolds ==
    ASSUME ProfilesInv, Pro!ProfilesAssumption, NEW s \in Dealings, Pro!CreateSession(s)
    PROVE  ProfilesInv'
<1>1. {e \in Pro!PartiesOf(s) : profile[e] = Pro!Absent} = {}
  BY DEF Pro!CreateSession, Pro!Storable, Pro!Default
<1>2. profile' = profile
  BY <1>1 DEF Pro!CreateSession, ProfilesInv
<1>3. PICK st : st = [session EXCEPT ![s] = "open"]
  OBVIOUS
<1>4. /\ session[s] = "none" /\ session' = st /\ st \in [Dealings -> DealingStates] /\ st[s] = "open"
      /\ \A z \in Dealings \ {s} : st[z] = session[z]
      /\ UNCHANGED <<agreed, met, doing>>
  <2>1. session \in [Dealings -> DealingStates]
    BY DEF ProfilesInv
  <2>2. /\ session[s] = "none" /\ session' = st /\ UNCHANGED <<agreed, met, doing>>
    BY <1>3 DEF Pro!CreateSession
  <2> QED BY <1>3, <2>1, <2>2 DEF DealingStates
<1>5. \A e : DoneOf(e, st) = DoneOf(e, session)
  BY <1>4 DEF DoneOf
<1>6. ASSUME NEW e \in Parties PROVE LearnedBy(e, profile[e], st, agreed[e], met)
  BY <1>5 DEF LearnedBy, ProfilesInv
<1>7. ASSUME NEW q \in Turns PROVE StillTrue(doing[q], profile, st, met)
  <2>1. PICK u \in TurnRows : /\ u = doing[q] /\ StillTrue(u, profile, session, met)
                              /\ CopiesFit(u, agreed)
    BY DEF ProfilesInv
  <2>2. ASSUME u.pc # "idle", session[u.session] = "open" PROVE st[u.session] = "open"
    BY <1>4, <2>1, <2>2 DEF CopiesFit
  <2>3. StillTrue(u, profile, st, met)
    BY <2>1, <2>2 DEF StillTrue
  <2> QED BY <2>1, <2>3
<1>8. ASSUME NEW e \in Parties PROVE LearnedBy(e, profile[e], session, agreed[e], met)'
  BY <1>2, <1>4, <1>6 DEF LearnedBy, DoneOf
<1>9. ASSUME NEW q \in Turns
      PROVE  CopiesFit(doing[q], agreed)' /\ StillTrue(doing[q], profile, session, met)'
  <2>1. CopiesFit(doing[q], agreed) /\ StillTrue(doing[q], profile, st, met)
    BY <1>7 DEF ProfilesInv
  <2> QED BY <1>2, <1>4, <2>1 DEF CopiesFit, StillTrue, CopyOf, Pro!NoTurn, Pro!Absent
<1>10. ASSUME NEW q \in Turns, NEW z \in Turns \ {q}
       PROVE  SharedAreMet(doing[q], doing[z], met)'
  <2>1. SharedAreMet(doing[q], doing[z], met)
    BY DEF ProfilesInv
  <2> QED BY <1>4, <2>1 DEF SharedAreMet
<1> QED BY <1>2, <1>4, <1>8, <1>9, <1>10 DEF ProfilesInv

LEMMA LoadSessionHolds ==
    ASSUME ProfilesInv, Pro!ProfilesAssumption, NEW p \in Turns, NEW s \in Dealings,
           Pro!LoadSession(p, s)
    PROVE  ProfilesInv'
<1>1. PICK n \in TurnRows : n = Pro!NoTurn
  BY IdleTurn
<1>2. PICK t0 : t0 = [n EXCEPT !.pc = "load"]
  OBVIOUS
<1>3. t0 \in TurnRows /\ t0.pc = "load" /\ t0.kept = n.kept
  BY <1>2 DEF TurnRows
<1>4. PICK t : t = [t0 EXCEPT !.session = s]
  OBVIOUS
<1>5. t \in TurnRows /\ t.pc = "load" /\ t.session = s /\ t.kept = {}
  <2>1. n.kept = {}
    BY <1>1 DEF Pro!NoTurn
  <2> QED BY <1>3, <1>4, <2>1 DEF TurnRows
<1>6. doing' = [doing EXCEPT ![p] = t] /\ session[s] = "open" /\ doing[p] = n
  BY <1>1, <1>2, <1>4 DEF Pro!LoadSession
<1>7. PICK m : m = met'
  OBVIOUS
<1>8. /\ met \subseteq m
      /\ \A q \in Turns \ {p}, e \in Pro!PartiesOf(s) :
            doing[q] # n /\ e \in Pro!PartiesOf(doing[q].session) => e \in m
  BY <1>1, <1>7 DEF Pro!LoadSession
<1>9. PICK pr, st, a : pr = profile /\ st = session /\ a = agreed
  OBVIOUS
<1>10. /\ pr \in [Parties -> ProfileRows] /\ st \in [Dealings -> DealingStates] /\ a \in [Parties -> Nat]
       /\ profile' = pr /\ session' = st /\ agreed' = a
       /\ \A e \in Parties : agreed[e] <= a[e]
  BY <1>9 DEF ProfilesInv, Pro!LoadSession
<1>11. ASSUME NEW e \in Parties PROVE LearnedBy(e, pr[e], st, a[e], m)
  <2>1. LearnedBy(e, pr[e], st, a[e], met)
    BY <1>9 DEF ProfilesInv
  <2> QED BY <1>8, <2>1 DEF LearnedBy
<1>12. CopiesFit(t, a) /\ StillTrue(t, pr, st, m)
  BY <1>5, <1>6, <1>9 DEF CopiesFit, StillTrue
<1>13. ASSUME NEW q \in Turns \ {p}
       PROVE  StillTrue(doing[q], pr, st, m) /\ SharedAreMet(t, doing[q], m)
  <2>1. StillTrue(doing[q], pr, st, met)
    BY <1>9 DEF ProfilesInv
  <2>2. StillTrue(doing[q], pr, st, m)
    BY <1>8, <2>1 DEF StillTrue
  <2>3. doing[q].pc # "idle" => doing[q] # n
    BY <1>1, IdleTurn
  <2>4. SharedAreMet(t, doing[q], m)
    BY <1>5, <1>8, <2>3 DEF SharedAreMet
  <2> QED BY <2>2, <2>4
<1>14. met' = m
  BY <1>7
<1> QED BY <1>5, <1>6, <1>8, <1>10, <1>11, <1>12, <1>13, <1>14, TurnTakes

LEMMA LoadProfilesHolds ==
    ASSUME ProfilesInv, Pro!ProfilesAssumption, NEW p \in Turns, Pro!LoadProfiles(p)
    PROVE  ProfilesInv'
<1>1. PICK old \in TurnRows :
         /\ old = doing[p] /\ CopiesFit(old, agreed) /\ StillTrue(old, profile, session, met)
  BY DEF ProfilesInv
<1>2. old.pc = "load" /\ old.session \in Dealings
  BY <1>1 DEF Pro!LoadProfiles, CopiesFit
<1>3. PICK s \in Dealings : s = old.session
  BY <1>2
<1>4. /\ BuyerIn[s] \in Parties /\ SellerIn[s] \in Parties /\ BuyerIn[s] # SellerIn[s]
      /\ Pro!PartiesOf(s) = {BuyerIn[s], SellerIn[s]}
  BY DEF Pro!ProfilesAssumption, Pro!PartiesOf
<1>5. ASSUME NEW e \in Parties
      PROVE  /\ Pro!Loaded(e) \in ProfileRows /\ Pro!Loaded(e).learned = profile[e].learned
             /\ Pro!Loaded(e).level # "FULLY_AUTONOMOUS"
  <2>1. PICK r \in ProfileRows : r = profile[e]
    BY DEF ProfilesInv
  <2>2. Pro!ToDomain(r.level) \in {"absent", "FULL", "SUPERVISED", "MANUAL"} /\ Pro!ToDomain(r.level) # "FULLY_AUTONOMOUS"
    BY DEF Pro!ToDomain, ProfileRows
  <2>3. Pro!Loaded(e) = [r EXCEPT !.level = Pro!ToDomain(r.level)]
    BY <2>1 DEF Pro!Loaded
  <2> QED BY <2>1, <2>2, <2>3 DEF ProfileRows
<1>6. PICK b \in ProfileRows : b = Pro!Loaded(BuyerIn[s])
  BY <1>4, <1>5
<1>7. PICK c \in ProfileRows : c = Pro!Loaded(SellerIn[s])
  BY <1>4, <1>5
<1>8. PICK t1 : t1 = [old EXCEPT !.pc = "think"]
  OBVIOUS
<1>9. t1 \in TurnRows /\ t1.pc = "think" /\ t1.session = s /\ t1.kept = old.kept
  BY <1>3, <1>8 DEF TurnRows
<1>10. PICK t2 : t2 = [t1 EXCEPT !.buyer = b]
  OBVIOUS
<1>11. t2 \in TurnRows /\ t2.pc = "think" /\ t2.session = s /\ t2.kept = old.kept /\ t2.buyer = b
  BY <1>9, <1>10 DEF TurnRows
<1>12. PICK t : t = [t2 EXCEPT !.seller = c]
  OBVIOUS
<1>13. /\ t \in TurnRows /\ t.pc = "think" /\ t.session = s /\ t.kept = old.kept
       /\ t.buyer = b /\ t.seller = c
  BY <1>11, <1>12 DEF TurnRows
<1>14. /\ doing' = [doing EXCEPT ![p] = t] /\ UNCHANGED <<profile, session, agreed, met>>
  BY <1>1, <1>3, <1>6, <1>7, <1>8, <1>10, <1>12 DEF Pro!LoadProfiles, ProfilesInv
<1>15. ASSUME NEW e \in Pro!PartiesOf(s)
       PROVE  /\ CopyOf(t, e).level # "FULLY_AUTONOMOUS"
              /\ CopyOf(t, e).learned = profile[e].learned /\ CopyOf(t, e).learned \in Nat
              /\ CopyOf(t, e).learned <= agreed[e]
  <2>1. e \in Parties /\ CopyOf(t, e) = Pro!Loaded(e)
    BY <1>4, <1>6, <1>7, <1>13 DEF CopyOf
  <2>2. LearnedBy(e, profile[e], session, agreed[e], met)
    BY <2>1 DEF ProfilesInv
  <2> QED BY <1>5, <2>1, <2>2 DEF LearnedBy, ProfileRows
<1>16. CopiesFit(t, agreed)
  <2>1. t.kept = {}
    <3>1. old.kept = {}
      BY <1>1, <1>2 DEF CopiesFit
    <3> QED BY <1>13, <3>1
  <2>2. \A e \in Pro!PartiesOf(t.session) :
             /\ CopyOf(t, e).level # "FULLY_AUTONOMOUS"
             /\ CopyOf(t, e).learned + (IF t.pc = "think" THEN 0 ELSE 1) <= agreed[e]
    BY <1>13, <1>15
  <2> QED BY <1>13, <2>1, <2>2 DEF CopiesFit
<1>17. StillTrue(t, profile, session, met)
  BY <1>1, <1>2, <1>3, <1>13, <1>15 DEF StillTrue
<1>18. t.pc # "idle" => old.pc # "idle" /\ t.session = old.session
  BY <1>2, <1>3, <1>13
<1> QED BY <1>1, <1>13, <1>14, <1>16, <1>17, <1>18, TurnGoesOn

\* The turns of the others when this one's session or profiles are written.
LEMMA OthersStillTrue ==
    ASSUME ProfilesInv, NEW p \in Turns, NEW q \in Turns \ {p}, doing[p].pc # "idle",
           NEW pr, NEW st,
           \A e \in Parties : e \notin Pro!PartiesOf(doing[p].session) => pr[e] = profile[e],
           \A s \in Dealings \ {doing[p].session} : st[s] = session[s],
           Pro!ProfilesAssumption
    PROVE  StillTrue(doing[q], pr, st, met)
<1>1. PICK u \in TurnRows : /\ u = doing[q] /\ CopiesFit(u, agreed)
                            /\ StillTrue(u, profile, session, met)
                            /\ SharedAreMet(doing[p], u, met)
  BY DEF ProfilesInv
<1>2. SUFFICES ASSUME u.pc # "idle", NEW e \in Pro!PartiesOf(u.session) \ met
               PROVE  /\ st[u.session] = "open"
                      /\ u.pc \notin {"load", "failed"} => CopyOf(u, e).learned = pr[e].learned
  BY <1>1 DEF StillTrue
<1>3. e \notin Pro!PartiesOf(doing[p].session)
  BY <1>1, <1>2 DEF SharedAreMet
<1>4. u.session \in Dealings /\ u.session # doing[p].session
  BY <1>1, <1>2, <1>3 DEF CopiesFit
<1>5. e \in Parties
  BY <1>2, <1>4 DEF Pro!PartiesOf, Pro!ProfilesAssumption
<1> QED BY <1>1, <1>2, <1>3, <1>4, <1>5 DEF StillTrue

LEMMA NoAgreementHolds ==
    ASSUME ProfilesInv, Pro!ProfilesAssumption, NEW p \in Turns, Pro!NoAgreement(p)
    PROVE  ProfilesInv'
<1>1. PICK old \in TurnRows :
         /\ old = doing[p] /\ CopiesFit(old, agreed) /\ StillTrue(old, profile, session, met)
  BY DEF ProfilesInv
<1>2. old.pc = "think" /\ old.session \in Dealings
  BY <1>1 DEF Pro!NoAgreement, CopiesFit
<1>3. PICK s \in Dealings : s = old.session
  BY <1>2
<1>4. PICK status \in {"open", "closed"} : session' = [session EXCEPT ![s] = status]
  BY <1>1, <1>3 DEF Pro!NoAgreement
<1>5. PICK st : st = session'
  OBVIOUS
<1>6. /\ st \in [Dealings -> DealingStates] /\ st[s] # "agreed"
      /\ \A z \in Dealings \ {s} : st[z] = session[z]
  BY <1>4, <1>5 DEF ProfilesInv, DealingStates
<1>7. PICK t \in TurnRows : t = Pro!NoTurn
  BY IdleTurn
<1>8. PICK pr, a, m : pr = profile /\ a = agreed /\ m = met
  OBVIOUS
<1>9. /\ doing' = [doing EXCEPT ![p] = t] /\ profile' = pr /\ agreed' = a /\ met' = m
      /\ pr \in [Parties -> ProfileRows] /\ a \in [Parties -> Nat] /\ met \subseteq m
      /\ \A e \in Parties : agreed[e] <= a[e]
  BY <1>7, <1>8 DEF Pro!NoAgreement, ProfilesInv
<1>10. ASSUME NEW e \in Parties PROVE LearnedBy(e, pr[e], st, a[e], m)
  <2>1. LearnedBy(e, profile[e], session, agreed[e], met)
    BY DEF ProfilesInv
  <2>2. DoneOf(e, st) \subseteq DoneOf(e, session)
    BY <1>6 DEF DoneOf
  <2>3. IsFiniteSet(DoneOf(e, st))
    BY <2>1, <2>2, FS_Subset DEF LearnedBy
  <2>4. e \notin met => DoneOf(e, st) = DoneOf(e, session)
    <3>1. e \notin met /\ e \in Pro!PartiesOf(s) => session[s] = "open"
      BY <1>1, <1>2, <1>3 DEF StillTrue
    <3> QED BY <1>6, <3>1 DEF DoneOf
  <2> QED BY <1>8, <2>1, <2>2, <2>3, <2>4 DEF LearnedBy
<1>11. CopiesFit(t, a) /\ StillTrue(t, pr, st, m)
  BY <1>7, IdleTurn
<1>12. ASSUME NEW q \in Turns \ {p}
       PROVE  StillTrue(doing[q], pr, st, m) /\ SharedAreMet(t, doing[q], m)
  <2>1. \A e \in Parties : e \notin Pro!PartiesOf(doing[p].session) => pr[e] = profile[e]
    BY <1>8
  <2>2. doing[p].pc # "idle" /\ \A z \in Dealings \ {doing[p].session} : st[z] = session[z]
    BY <1>1, <1>2, <1>3, <1>6
  <2>3. StillTrue(doing[q], pr, st, met)
    BY <2>1, <2>2, OthersStillTrue
  <2> QED BY <1>7, <1>8, <2>3, IdleTurn
<1>13. session' = st
  BY <1>5
<1> QED BY <1>6, <1>7, <1>9, <1>10, <1>11, <1>12, <1>13, TurnTakes

LEMMA AgreeHolds ==
    ASSUME ProfilesInv, Pro!ProfilesAssumption, NEW p \in Turns, Pro!Agree(p)
    PROVE  ProfilesInv'
<1>1. PICK old \in TurnRows :
         /\ old = doing[p] /\ CopiesFit(old, agreed) /\ StillTrue(old, profile, session, met)
  BY DEF ProfilesInv
<1>2. old.pc = "think" /\ old.session \in Dealings /\ old.kept = {}
  BY <1>1 DEF Pro!Agree, CopiesFit
<1>3. PICK s \in Dealings : s = old.session
  BY <1>2
<1>4. PICK a : a = [e \in Parties |-> IF e \in Pro!PartiesOf(s) THEN agreed[e] + 1 ELSE agreed[e]]
  OBVIOUS
<1>5. /\ a \in [Parties -> Nat] /\ agreed' = a
      /\ \A e \in Parties : agreed[e] <= a[e] /\ agreed[e] \in Nat /\ a[e] \in Nat
      /\ \A e \in Parties : e \in Pro!PartiesOf(s) => a[e] = agreed[e] + 1
  BY <1>1, <1>3, <1>4 DEF Pro!Agree, ProfilesInv
<1>6. PICK t1 : t1 = [old EXCEPT !.pc = "buyer"]
  OBVIOUS
<1>7. /\ t1 \in TurnRows /\ t1.pc = "buyer" /\ t1.session = s /\ t1.kept = {}
      /\ t1.buyer = old.buyer /\ t1.seller = old.seller
  BY <1>2, <1>3, <1>6 DEF TurnRows
<1>8. PICK t : t = [t1 EXCEPT !.held = {Pro!SessionRow(s)}]
  OBVIOUS
<1>9. /\ t \in TurnRows /\ t.pc = "buyer" /\ t.session = s /\ t.kept = {}
      /\ t.buyer = old.buyer /\ t.seller = old.seller
  <2>1. {Pro!SessionRow(s)} \in
           SUBSET (({"session"} \X Dealings) \cup ({"profile"} \X Parties))
    BY DEF Pro!SessionRow
  <2> QED BY <1>7, <1>8, <2>1 DEF TurnRows
<1>10. doing' = [doing EXCEPT ![p] = t]
  BY <1>1, <1>3, <1>6, <1>8 DEF Pro!Agree, ProfilesInv
<1>11. PICK pr, st, m : pr = profile /\ st = session /\ m = met
  OBVIOUS
<1>12. /\ profile' = pr /\ session' = st /\ met' = m /\ met \subseteq m
       /\ pr \in [Parties -> ProfileRows] /\ st \in [Dealings -> DealingStates]
  BY <1>11 DEF Pro!Agree, ProfilesInv
<1>13. ASSUME NEW e \in Parties PROVE LearnedBy(e, pr[e], st, a[e], m)
  <2>1. LearnedBy(e, profile[e], session, agreed[e], met) /\ profile[e].learned \in Nat
    BY DEF ProfilesInv, ProfileRows
  <2> QED BY <1>5, <1>11, <2>1 DEF LearnedBy
<1>14. \A e : CopyOf(t, e) = CopyOf(old, e)
  BY <1>3, <1>9 DEF CopyOf
<1>15. CopiesFit(t, a)
  <2>1. ASSUME NEW e \in Pro!PartiesOf(s)
        PROVE  /\ CopyOf(t, e).level # "FULLY_AUTONOMOUS"
               /\ CopyOf(t, e).learned + (IF t.pc = "think" THEN 0 ELSE 1) <= a[e]
    <3>1. e \in Parties
      BY DEF Pro!PartiesOf, Pro!ProfilesAssumption
    <3>2. CopyOf(old, e).level # "FULLY_AUTONOMOUS" /\ CopyOf(old, e).learned + 0 <= agreed[e]
      BY <1>1, <1>2, <1>3 DEF CopiesFit
    <3>3. CopyOf(old, e).learned \in Nat
      BY DEF CopyOf, TurnRows, ProfileRows
    <3> QED BY <1>5, <1>9, <1>14, <3>1, <3>2, <3>3
  <2> QED BY <1>9, <2>1 DEF CopiesFit
<1>16. StillTrue(t, pr, st, m)
  BY <1>1, <1>2, <1>3, <1>9, <1>11, <1>14 DEF StillTrue
<1>17. ASSUME NEW q \in Turns \ {p}
       PROVE  StillTrue(doing[q], pr, st, m) /\ SharedAreMet(t, doing[q], m)
  <2>1. StillTrue(doing[q], profile, session, met) /\ SharedAreMet(old, doing[q], met)
    BY <1>1 DEF ProfilesInv
  <2>2. SharedAreMet(t, doing[q], met)
    BY <1>2, <1>3, <1>9, <2>1 DEF SharedAreMet
  <2> QED BY <1>11, <2>1, <2>2
<1> QED BY <1>5, <1>9, <1>10, <1>12, <1>13, <1>15, <1>16, <1>17, TurnTakes

\* A turn whose statement failed, or that has gone.
LEMMA FailHolds ==
    ASSUME ProfilesInv, Pro!ProfilesAssumption, NEW p \in Turns,
           doing[p].pc \in {"buyer", "seller"},
           doing' = [doing EXCEPT ![p] = [@ EXCEPT !.pc = "failed"]],
           UNCHANGED <<profile, session, agreed, met>>
    PROVE  ProfilesInv'
<1>1. PICK old \in TurnRows :
         /\ old = doing[p] /\ CopiesFit(old, agreed) /\ StillTrue(old, profile, session, met)
  BY DEF ProfilesInv
<1>2. PICK t : t = [old EXCEPT !.pc = "failed"]
  OBVIOUS
<1>3. /\ t \in TurnRows /\ t.pc = "failed" /\ t.session = old.session /\ t.kept = old.kept
      /\ t.buyer = old.buyer /\ t.seller = old.seller
  BY <1>2 DEF TurnRows
<1>4. doing' = [doing EXCEPT ![p] = t]
  BY <1>1, <1>2 DEF ProfilesInv
<1>5. CopiesFit(t, agreed)
  BY <1>1, <1>3 DEF CopiesFit, CopyOf
<1>6. StillTrue(t, profile, session, met)
  BY <1>1, <1>3 DEF StillTrue
<1> QED BY <1>1, <1>3, <1>4, <1>5, <1>6, TurnGoesOn

LEMMA UpdateHolds ==
    ASSUME ProfilesInv, Pro!ProfilesAssumption, NEW p \in Turns, Pro!UpdateProfile(p)
    PROVE  ProfilesInv'
<1>1. PICK old \in TurnRows :
         /\ old = doing[p] /\ CopiesFit(old, agreed) /\ StillTrue(old, profile, session, met)
  BY DEF ProfilesInv
<1>2. old.pc \in {"buyer", "seller"} /\ old.session \in Dealings
  BY <1>1 DEF Pro!UpdateProfile, CopiesFit
<1>3. PICK s \in Dealings : s = old.session
  BY <1>2
<1>4. PICK e \in Parties : e = Pro!Written(p)
  BY <1>1, <1>3 DEF Pro!Written, Pro!ProfilesAssumption
<1>5. /\ e \in Pro!PartiesOf(s)
      /\ old.pc = "buyer" => e = BuyerIn[s]
      /\ old.pc = "seller" => e = SellerIn[s]
      /\ BuyerIn[s] # SellerIn[s]
  BY <1>1, <1>2, <1>3, <1>4 DEF Pro!Written, Pro!PartiesOf, Pro!ProfilesAssumption
<1>6. PICK c \in ProfileRows : c = Pro!Copy(p) /\ c = CopyOf(old, e)
  BY <1>1, <1>2, <1>3, <1>5 DEF Pro!Copy, CopyOf, TurnRows
<1>7. PICK r : r = Pro!Updated(c)
  OBVIOUS
<1>8. r \in ProfileRows /\ r.level = c.level /\ r.learned = c.learned + 1
  BY <1>7 DEF Pro!Updated, ProfileRows
<1>9. CASE ~ Pro!Storable(r.level)
  <2>1. doing' = [doing EXCEPT ![p] = [@ EXCEPT !.pc = "failed"]]
    <3>1. doing' = [doing EXCEPT ![p] =
             IF Pro!Storable(r.level) THEN Pro!Stored(old, e, r) ELSE [old EXCEPT !.pc = "failed"]]
      BY <1>1, <1>4, <1>6, <1>7 DEF Pro!UpdateProfile
    <3> QED BY <1>1, <1>9, <3>1
  <2>2. UNCHANGED <<profile, session, agreed, met>>
    BY DEF Pro!UpdateProfile
  <2> QED BY <1>1, <1>2, <2>1, <2>2, FailHolds
<1>10. CASE Pro!Storable(r.level)
  <2>1. PICK k : k = [of |-> e, row |-> r]
    OBVIOUS
  <2>2. k \in [of : Parties, row : ProfileRows] /\ k.of = e /\ k.row = r
    BY <1>8, <2>1
  <2>3. PICK next \in {"seller", "end"} : next = IF old.pc = "buyer" THEN "seller" ELSE "end"
    OBVIOUS
  <2>4. PICK t1 : t1 = [old EXCEPT !.pc = next]
    OBVIOUS
  <2>5. /\ t1 \in TurnRows /\ t1.pc = next /\ t1.session = s /\ t1.kept = old.kept
        /\ t1.buyer = old.buyer /\ t1.seller = old.seller /\ t1.held = old.held
    BY <1>3, <2>4 DEF TurnRows
  <2>6. PICK t2 : t2 = [t1 EXCEPT !.held = old.held \cup {Pro!ProfileRow(e)}]
    OBVIOUS
  <2>7. /\ t2 \in TurnRows /\ t2.pc = next /\ t2.session = s /\ t2.kept = old.kept
        /\ t2.buyer = old.buyer /\ t2.seller = old.seller
    <3>1. old.held \cup {Pro!ProfileRow(e)} \in
             SUBSET (({"session"} \X Dealings) \cup ({"profile"} \X Parties))
      BY DEF Pro!ProfileRow, TurnRows
    <3> QED BY <2>5, <2>6, <3>1 DEF TurnRows
  <2>8. PICK t : t = [t2 EXCEPT !.kept = old.kept \cup {k}]
    OBVIOUS
  <2>9. /\ t \in TurnRows /\ t.pc = next /\ t.session = s /\ t.kept = old.kept \cup {k}
        /\ t.buyer = old.buyer /\ t.seller = old.seller
    <3>1. old.kept \cup {k} \in SUBSET [of : Parties, row : ProfileRows]
      BY <2>2 DEF TurnRows
    <3> QED BY <2>7, <2>8, <3>1 DEF TurnRows
  <2>10. doing' = [doing EXCEPT ![p] = t]
    <3>1. doing' = [doing EXCEPT ![p] =
             IF Pro!Storable(r.level) THEN Pro!Stored(old, e, r) ELSE [old EXCEPT !.pc = "failed"]]
      BY <1>1, <1>4, <1>6, <1>7 DEF Pro!UpdateProfile
    <3>2. Pro!Stored(old, e, r) = t
      BY <2>1, <2>3, <2>4, <2>6, <2>8 DEF TurnRows, Pro!Stored
    <3> QED BY <1>10, <3>1, <3>2
  <2>11. \A o : CopyOf(t, o) = CopyOf(old, o)
    BY <1>3, <2>9 DEF CopyOf
  <2>12. CopiesFit(t, agreed)
    <3>1. \A o \in Pro!PartiesOf(s) :
             /\ CopyOf(old, o).level # "FULLY_AUTONOMOUS"
             /\ CopyOf(old, o).learned + 1 <= agreed[o]
      BY <1>1, <1>2, <1>3 DEF CopiesFit
    <3>2. \A o \in Pro!PartiesOf(t.session) :
             /\ CopyOf(t, o).level # "FULLY_AUTONOMOUS"
             /\ CopyOf(t, o).learned + (IF t.pc = "think" THEN 0 ELSE 1) <= agreed[o]
      BY <2>3, <2>9, <2>11, <3>1
    <3>3. ASSUME NEW x \in t.kept
          PROVE  /\ x.of \in Pro!PartiesOf(t.session)
                 /\ x.row.level = CopyOf(t, x.of).level
                 /\ x.row.learned = CopyOf(t, x.of).learned + 1
      <4>1. CASE x = k
        BY <1>5, <1>6, <1>8, <2>2, <2>9, <2>11, <4>1
      <4>2. CASE x \in old.kept
        BY <1>1, <1>3, <2>9, <2>11, <4>2 DEF CopiesFit
      <4> QED BY <2>9, <4>1, <4>2
    <3>4. \E x \in t.kept : x.of = BuyerIn[t.session]
      <4>1. CASE old.pc = "buyer"
        BY <1>5, <2>2, <2>9, <4>1
      <4>2. CASE old.pc = "seller"
        BY <1>1, <1>3, <2>9, <4>2 DEF CopiesFit
      <4> QED BY <1>2, <4>1, <4>2
    <3>5. t.pc = "end" => \E x \in t.kept : x.of = SellerIn[t.session]
      BY <1>2, <1>5, <2>2, <2>3, <2>9
    <3> QED BY <2>3, <2>9, <3>2, <3>3, <3>4, <3>5 DEF CopiesFit
  <2>13. StillTrue(t, profile, session, met)
    BY <1>1, <1>2, <1>3, <2>3, <2>9, <2>11 DEF StillTrue
  <2>14. UNCHANGED <<profile, session, agreed, met>> /\ old.pc # "idle" /\ t.session = old.session
    BY <1>2, <1>3, <2>9 DEF Pro!UpdateProfile
  <2> QED BY <1>1, <2>9, <2>10, <2>12, <2>13, <2>14, TurnGoesOn
<1> QED BY <1>9, <1>10

LEMMA BreakHolds ==
    ASSUME ProfilesInv, Pro!ProfilesAssumption, NEW p \in Turns, Pro!BreakDeadlock(p)
    PROVE  ProfilesInv'
<1>1. doing[p].pc \in {"buyer", "seller"}
  BY DEF Pro!BreakDeadlock, Pro!Waits
<1>2. doing' = [doing EXCEPT ![p] = [@ EXCEPT !.pc = "failed"]]
  BY DEF Pro!BreakDeadlock
<1>3. UNCHANGED <<profile, session, agreed, met>>
  BY DEF Pro!BreakDeadlock
<1> QED BY <1>1, <1>2, <1>3, FailHolds

LEMMA RollBackHolds ==
    ASSUME ProfilesInv, Pro!ProfilesAssumption, NEW p \in Turns, Pro!RollBack(p)
    PROVE  ProfilesInv'
<1>1. PICK t \in TurnRows : /\ t = Pro!NoTurn /\ t.pc = "idle" /\ CopiesFit(t, agreed)
                            /\ StillTrue(t, profile, session, met)
  BY IdleTurn
<1>2. PICK old : old = doing[p]
  OBVIOUS
<1>3. doing' = [doing EXCEPT ![p] = t] /\ UNCHANGED <<profile, session, agreed, met>>
  BY <1>1 DEF Pro!RollBack
<1> QED BY <1>1, <1>2, <1>3, TurnGoesOn

LEMMA CommitHolds ==
    ASSUME ProfilesInv, Pro!ProfilesAssumption, NEW p \in Turns, Pro!CommitTurn(p)
    PROVE  ProfilesInv'
<1>1. PICK old \in TurnRows :
         /\ old = doing[p] /\ CopiesFit(old, agreed) /\ StillTrue(old, profile, session, met)
  BY DEF ProfilesInv
<1>2. old.pc = "end" /\ old.session \in Dealings
  BY <1>1 DEF Pro!CommitTurn, CopiesFit
<1>3. PICK s \in Dealings : s = old.session
  BY <1>2
<1>4. PICK st : st = [session EXCEPT ![s] = "agreed"]
  OBVIOUS
<1>5. /\ session' = st /\ st \in [Dealings -> DealingStates] /\ st[s] = "agreed"
      /\ \A z \in Dealings \ {s} : st[z] = session[z]
  BY <1>1, <1>3, <1>4 DEF Pro!CommitTurn, ProfilesInv, DealingStates
<1>6. PICK pr : pr = [e \in Parties |->
                        IF \E k \in old.kept : k.of = e
                        THEN (CHOOSE k \in old.kept : k.of = e).row ELSE profile[e]]
  OBVIOUS
<1>7. profile' = pr
  BY <1>1, <1>6 DEF Pro!CommitTurn
\* What is written of the two parties, and only of them.
<1>8. ASSUME NEW e \in Parties
      PROVE  /\ pr[e] \in ProfileRows
             /\ e \notin Pro!PartiesOf(s) => pr[e] = profile[e]
             /\ e \in Pro!PartiesOf(s) =>
                   /\ pr[e].level = CopyOf(old, e).level
                   /\ pr[e].learned = CopyOf(old, e).learned + 1
  <2>1. \A k \in old.kept : /\ k.of \in Pro!PartiesOf(s) /\ k.row \in ProfileRows
                            /\ k.row.level = CopyOf(old, k.of).level
                            /\ k.row.learned = CopyOf(old, k.of).learned + 1
    BY <1>1, <1>3 DEF CopiesFit, TurnRows
  <2>2. CASE \E k \in old.kept : k.of = e
    <3>1. PICK k : k = CHOOSE z \in old.kept : z.of = e
      OBVIOUS
    <3>2. k \in old.kept /\ k.of = e
      BY <2>2, <3>1
    <3>3. pr[e] = k.row
      BY <1>6, <2>2, <3>1
    <3> QED BY <2>1, <3>2, <3>3
  <2>3. CASE ~ \E k \in old.kept : k.of = e
    <3>1. pr[e] = profile[e]
      BY <1>6, <2>3
    <3>2. e # BuyerIn[s] /\ e # SellerIn[s]
      BY <1>1, <1>2, <1>3, <2>3 DEF CopiesFit
    <3> QED BY <3>1, <3>2 DEF Pro!PartiesOf, ProfilesInv
  <2> QED BY <2>2, <2>3
<1>9. pr \in [Parties -> ProfileRows]
  BY <1>6, <1>8
<1>10. PICK t \in TurnRows : t = Pro!NoTurn
  BY IdleTurn
<1>11. PICK a, m : a = agreed /\ m = met
  OBVIOUS
<1>12. /\ doing' = [doing EXCEPT ![p] = t] /\ agreed' = a /\ met' = m
       /\ a \in [Parties -> Nat] /\ met \subseteq m /\ \A e \in Parties : agreed[e] <= a[e]
  BY <1>10, <1>11 DEF Pro!CommitTurn, ProfilesInv
<1>13. ASSUME NEW e \in Parties PROVE LearnedBy(e, pr[e], st, a[e], m)
  <2>1. LearnedBy(e, profile[e], session, agreed[e], met)
    BY DEF ProfilesInv
  <2>2. CASE e \notin Pro!PartiesOf(s)
    <3>1. DoneOf(e, st) = DoneOf(e, session) /\ pr[e] = profile[e]
      BY <1>5, <1>8, <2>2 DEF DoneOf
    <3> QED BY <1>11, <2>1, <3>1 DEF LearnedBy
  <2>3. CASE e \in Pro!PartiesOf(s)
    <3>1. PICK c \in ProfileRows : c = CopyOf(old, e)
      BY DEF CopyOf, TurnRows
    <3>2. /\ pr[e].level = c.level /\ pr[e].learned = c.learned + 1 /\ c.learned \in Nat
      BY <1>8, <2>3, <3>1 DEF ProfileRows
    <3>3. c.level # "FULLY_AUTONOMOUS" /\ c.learned + 1 <= agreed[e]
      BY <1>1, <1>2, <1>3, <2>3, <3>1 DEF CopiesFit
    <3>4. DoneOf(e, st) = DoneOf(e, session) \cup {s}
      BY <1>5, <2>3 DEF DoneOf
    <3>5. IsFiniteSet(DoneOf(e, session))
      BY <2>1 DEF LearnedBy
    <3>6. /\ IsFiniteSet(DoneOf(e, st))
          /\ s \notin DoneOf(e, session) =>
                Cardinality(DoneOf(e, st)) = Cardinality(DoneOf(e, session)) + 1
      BY <3>4, <3>5, FS_AddElement
    <3>7. e \notin met => session[s] = "open" /\ c.learned = profile[e].learned
      BY <1>1, <1>2, <1>3, <2>3, <3>1 DEF StillTrue
    <3>8. e \notin met => s \notin DoneOf(e, session)
      BY <3>7 DEF DoneOf
    <3>9. e \notin met => profile[e].learned = Cardinality(DoneOf(e, session))
      BY <2>1 DEF LearnedBy
    <3>10. e \notin met => pr[e].learned = Cardinality(DoneOf(e, st))
      BY <3>2, <3>6, <3>7, <3>8, <3>9
    <3> QED BY <1>11, <3>2, <3>3, <3>6, <3>10 DEF LearnedBy
  <2> QED BY <2>2, <2>3
<1>14. CopiesFit(t, a) /\ StillTrue(t, pr, st, m)
  BY <1>10, IdleTurn
<1>15. ASSUME NEW q \in Turns \ {p}
       PROVE  StillTrue(doing[q], pr, st, m) /\ SharedAreMet(t, doing[q], m)
  <2>1. \A e \in Parties : e \notin Pro!PartiesOf(doing[p].session) => pr[e] = profile[e]
    BY <1>1, <1>3, <1>8
  <2>2. doing[p].pc # "idle" /\ \A z \in Dealings \ {doing[p].session} : st[z] = session[z]
    BY <1>1, <1>2, <1>3, <1>5
  <2>3. StillTrue(doing[q], pr, st, met)
    BY <2>1, <2>2, OthersStillTrue
  <2> QED BY <1>10, <1>11, <2>3, IdleTurn
<1> QED BY <1>5, <1>7, <1>9, <1>10, <1>12, <1>13, <1>14, <1>15, TurnTakes

LEMMA ProfilesNext ==
    ASSUME ProfilesInv, Pro!ProfilesAssumption, Pro!Next \/ UNCHANGED profileVars
    PROVE  ProfilesInv'
<1>1. CASE UNCHANGED profileVars
  <2>1. UNCHANGED <<profile, session, agreed, met, doing>>
    BY <1>1 DEF profileVars
  <2>2. \A e \in Parties : LearnedBy(e, profile[e], session, agreed[e], met)'
    BY <2>1 DEF ProfilesInv, LearnedBy, DoneOf
  <2>3. ASSUME NEW q \in Turns
        PROVE  CopiesFit(doing[q], agreed)' /\ StillTrue(doing[q], profile, session, met)'
    <3>1. CopiesFit(doing[q], agreed) /\ StillTrue(doing[q], profile, session, met)
      BY DEF ProfilesInv
    <3> QED BY <2>1, <3>1 DEF CopiesFit, StillTrue, CopyOf, Pro!NoTurn, Pro!Absent
  <2>4. ASSUME NEW q \in Turns, NEW z \in Turns \ {q}
        PROVE  SharedAreMet(doing[q], doing[z], met)'
    <3>1. SharedAreMet(doing[q], doing[z], met)
      BY DEF ProfilesInv
    <3> QED BY <2>1, <3>1 DEF SharedAreMet
  <2> QED BY <2>1, <2>2, <2>3, <2>4 DEF ProfilesInv
<1>2. CASE \E s \in Dealings : Pro!CreateSession(s)
  BY <1>2, CreateHolds
<1>3. CASE \E p \in Turns :
          \/ \E s \in Dealings : Pro!LoadSession(p, s)
          \/ Pro!LoadProfiles(p) \/ Pro!NoAgreement(p) \/ Pro!Agree(p) \/ Pro!UpdateProfile(p)
          \/ Pro!BreakDeadlock(p) \/ Pro!CommitTurn(p) \/ Pro!RollBack(p)
  BY <1>3, LoadSessionHolds, LoadProfilesHolds, NoAgreementHolds, AgreeHolds, UpdateHolds,
     BreakHolds, CommitHolds, RollBackHolds
<1> QED BY <1>1, <1>2, <1>3 DEF Pro!Next

LEMMA ProfilesInit ==
    ASSUME Pro!Init
    PROVE  ProfilesInv
<1>1. PICK t \in TurnRows : t = Pro!NoTurn
  BY IdleTurn
<1>2. doing \in [Turns -> TurnRows] /\ \A p \in Turns : doing[p] = Pro!NoTurn
  BY <1>1 DEF Pro!Init
<1>3. profile \in [Parties -> ProfileRows] /\ \A e \in Parties : profile[e].learned = 0
  BY DEF Pro!Init, Pro!Absent, ProfileRows
<1>4. /\ session \in [Dealings -> DealingStates] /\ \A s \in Dealings : session[s] = "none"
      /\ agreed \in [Parties -> Nat] /\ \A e \in Parties : agreed[e] = 0
  BY DEF Pro!Init, DealingStates
<1>5. ASSUME NEW e \in Parties PROVE LearnedBy(e, profile[e], session, agreed[e], met)
  <2>1. DoneOf(e, session) = {}
    BY <1>4 DEF DoneOf
  <2> QED BY <1>3, <1>4, <2>1, FS_EmptySet DEF LearnedBy
<1> QED BY <1>2, <1>3, <1>4, <1>5, IdleTurn DEF ProfilesInv

LEMMA ProfilesHold ==
    ASSUME ProfilesInv
    PROVE  Pro!ProfilesLearnAgreements
<1> SUFFICES ASSUME NEW e \in Parties
             PROVE  LET done == {s \in Pro!DealingsOf(e) : session[s] = "agreed"}
                    IN  /\ profile[e].learned <= agreed[e]
                        /\ e \notin met => profile[e].learned = Pro!Cardinality(done)
                        /\ done # {} => /\ profile[e].learned > 0
                                        /\ profile[e].level # "FULLY_AUTONOMOUS"
  BY DEF Pro!ProfilesLearnAgreements
<1>1. {s \in Pro!DealingsOf(e) : session[s] = "agreed"} = DoneOf(e, session)
  BY DEF Pro!DealingsOf, DoneOf
<1>2. LearnedBy(e, profile[e], session, agreed[e], met)
  BY DEF ProfilesInv
<1> QED BY <1>1, <1>2, SameCount DEF LearnedBy

\* What every step of the profiles preserves.
THEOREM ProfilesInvariant == MCSpec => []ProfilesInv
<1>1. MCInit => ProfilesInv
  BY OwnInit, ProfilesInit
<1>2. ProfilesInv /\ [MCNext]_<<focus, vars, accountVars, treasuryVars, priceVars,
         memoryVars, streamVars, sessionVars, anchoringVars, breakerVars, profileVars>>
         => ProfilesInv'
  BY OwnNext, ProfilesNext, ServicesAssumption
<1> QED BY <1>1, <1>2, PTL DEF MCSpec

\* However the turns of an enterprise's sessions interleave, deadlock or die, its
\* profile learns no agreement that was not announced, and exactly the committed
\* ones as long as no two of its turns overlap; an enterprise that is
\* FULLY_AUTONOMOUS has none.
THEOREM AgreementsAreLearned == MCSpec => []ProfilesLearnAgreements
<1>1. ProfilesInv => ProfilesLearnAgreements
  BY ProfilesHold DEF ProfilesLearnAgreements
<1> QED BY <1>1, ProfilesInvariant, PTL

=============================================================================
