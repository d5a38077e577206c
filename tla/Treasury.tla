------------------------------ MODULE Treasury ------------------------------
(***************************************************************************)
(* The treasury context: one liquidity pool per enterprise, created when   *)
(* it is first asked for, FX positions, and the liquidity forecast.        *)
(*                                                                         *)
(* A command loads the pool (or inserts it), changes the copy, and writes  *)
(* it back: the repository reads the row again and assigns the balances    *)
(* themselves, not the difference.  TreasuryService only flushes: EndsOf   *)
(* says how the sessions of its callers end.  The routes give it a session *)
(* that nothing commits, which is {"rollback"}; {"commit", "rollback"}     *)
(* asks what the service is worth under callers that do commit.            *)
(*                                                                         *)
(* Abstracted: time stamps, the profit of a position, which pair a rate is *)
(* for.  The three kinds of money are handled alike; amounts are in the    *)
(* smallest unit of each.                                                  *)
(***************************************************************************)
EXTENDS Integers, FiniteSets

CONSTANTS
    Enterprises,
    Currencies,   \* "INR", "USDC", "ALGO"
    Amounts,      \* amounts a command may carry
    Rates,        \* answers of the FX provider
    Positions,    \* FX positions, each opened at most once
    Workers,      \* concurrent requests
    EndsOf,       \* how a request ends its session
    MaxRequests,  \* model bound
    Burns,        \* daily burns the settlement history may give
    ForecastDays, \* 30
    None

PoolRow == [balance : [Currencies -> Nat], rate : Nat]
PositionRow == [of : Enterprises, status : {"OPEN", "CLOSED"}]

\* What the constants are; MCServices assumes it.  999 days stand for no end.
TreasuryAssumption ==
    /\ Amounts \subseteq Int /\ Rates \subseteq Nat /\ Burns \subseteq Nat
    /\ EndsOf \subseteq {"commit", "rollback"}
    /\ MaxRequests \in Nat /\ ForecastDays \in 0 .. 998
    /\ None \notin Enterprises \cup PoolRow \cup PositionRow \cup [Currencies -> Int]

VARIABLES
    pool,      \* table liquidity_pools
    position,  \* table fx_positions
    request,   \* the requests in flight
    booked,    \* per enterprise, what committed commands add up to; None once two overlapped
    closed,    \* positions whose close has been committed
    started    \* requests counted by MaxRequests

vars == <<pool, position, request, booked, closed, started>>

Idle == [op |-> "none", of |-> None, pc |-> "end", cmd |-> None, mine |-> FALSE,
         new |-> None, base |-> None, listed |-> {}, reopened |-> {}]

Commands ==
    [op : {"deposit", "withdraw"}, currency : Currencies, amount : Amounts]
      \cup [op : {"fx", "dashboard"}] \cup [op : {"open", "close"}, pos : Positions]

\* Requests that may write a copy of one of e's rows.
Writing(e) == {p \in Workers : request[p].op \notin {"none", "dashboard"} /\ request[p].of = e}

EmptyPool == [balance |-> [c \in Currencies |-> 0], rate |-> 0]

----------------------------------------------------------------------------
(* What a command makes of the copy, or no copy where it raises. *)

Deposit(copy, c, n) ==
    IF n <= 0 THEN {} ELSE {[copy EXCEPT !.balance[c] = @ + n]}

Withdraw(copy, c, n) ==
    IF n <= 0 \/ n > copy.balance[c] THEN {} ELSE {[copy EXCEPT !.balance[c] = @ - n]}

\* The FX provider answers from its cache, its service, or a stub.
FetchRate(copy) == {[copy EXCEPT !.rate = r] : r \in Rates}

Results(r, copy) ==
    CASE r.op = "deposit" -> Deposit(copy, r.currency, r.amount)
      [] r.op = "withdraw" -> Withdraw(copy, r.currency, r.amount)
      [] r.op = "fx" -> FetchRate(copy)
      [] OTHER -> {copy}

----------------------------------------------------------------------------

\* A command of enterprise e, with its copy of the pool if it needs one.
Loaded(e, cmd) ==
    IF cmd.op \in {"open", "close"} THEN [Idle EXCEPT !.op = cmd.op, !.of = e, !.cmd = cmd]
    ELSE [Idle EXCEPT !.op = cmd.op, !.of = e, !.cmd = cmd, !.new = pool[e],
                      !.pc = IF pool[e] = None THEN "create" ELSE "change"]

\* A request of enterprise e begins, with the reading of its pool or position.
Begin(p, e) ==
    /\ request[p].op = "none" /\ started < MaxRequests
    /\ \E cmd \in Commands :
         /\ \/ cmd.op \in {"deposit", "withdraw", "fx", "dashboard"}
            \/ /\ cmd.op = "open" /\ position[cmd.pos] = None
               /\ \A q \in Workers : request[q].op = "open" => request[q].cmd.pos # cmd.pos
            \/ /\ cmd.op = "close" /\ position[cmd.pos] # None
               /\ position[cmd.pos].of = e /\ position[cmd.pos].status = "OPEN"
         /\ request' = [request EXCEPT ![p] = Loaded(e, cmd)]
    /\ booked' = IF request'[p].op = "dashboard" \/ Writing(e) = {} THEN booked
                 ELSE [booked EXCEPT ![e] = None]
    /\ started' = started + 1
    /\ UNCHANGED <<pool, position, closed>>

\* The insert of a new pool waits while another session holds one it has not
\* committed; the unique constraint refuses it when there is one by then.
CreatePool(p) ==
    LET r == request[p]
    IN  /\ r.op # "none" /\ r.pc = "create"
        /\ \A q \in Workers \ {p} : request[q].of = r.of => ~ request[q].mine
        /\ request' = [request EXCEPT ![p] =
             IF pool[r.of] = None
             THEN [@ EXCEPT !.pc = "change", !.mine = TRUE, !.new = EmptyPool]
             ELSE Idle]
        /\ UNCHANGED <<pool, position, booked, closed, started>>

\* The copy is changed, or the command raises and its session is rolled back.
\* A dashboard or a forecast goes on to the end with what it has loaded.
Change(p) ==
    LET r == request[p]
        copies == Results(r.cmd, r.new)
    IN  /\ r.op # "none" /\ r.pc = "change"
        /\ \/ \E new \in copies :
                request' = [request EXCEPT ![p] =
                     [@ EXCEPT !.new = new, !.pc = IF r.op = "dashboard" THEN "end" ELSE "select"]]
           \/ copies = {} /\ request' = [request EXCEPT ![p] = Idle]
        /\ UNCHANGED <<pool, position, booked, closed, started>>

\* PostgresLiquidityRepository.update reads the row again (its own, if it has
\* just inserted it).
Reselect(p) ==
    LET r == request[p]
    IN  /\ r.op # "none" /\ r.pc = "select"
        /\ request' = [request EXCEPT ![p] =
             [@ EXCEPT !.base = IF r.mine THEN EmptyPool ELSE pool[r.of],
                       !.pc = IF r.op = "fx" THEN "list" ELSE "end"]]
        /\ UNCHANGED <<pool, position, booked, closed, started>>

OpenOf(e) ==
    {x \in Positions : position[x] # None /\ position[x].of = e /\ position[x].status = "OPEN"}

\* A new rate also goes to the open positions: they are listed ...
ListOpen(p) ==
    LET r == request[p]
    IN  /\ r.op # "none" /\ r.pc = "list"
        /\ request' = [request EXCEPT ![p] = [@ EXCEPT !.pc = "positions", !.listed = OpenOf(r.of)]]
        /\ UNCHANGED <<pool, position, booked, closed, started>>

\* ... and each is read again and written with the status of its copy.
ReselectPositions(p) ==
    LET r == request[p]
    IN  /\ r.op # "none" /\ r.pc = "positions"
        /\ request' = [request EXCEPT ![p] =
             [@ EXCEPT !.pc = "end", !.reopened = r.listed \ OpenOf(r.of)]]
        /\ UNCHANGED <<pool, position, booked, closed, started>>

\* Mutation check only: the row that was read again is not the one written.
OverlayNothing(now, base, new) == now

\* The columns an UPDATE sends are those in which the copy differs.
Overlay(now, base, new) ==
    [ balance |-> [c \in Currencies |->
         IF new.balance[c] # base.balance[c] THEN new.balance[c] ELSE now.balance[c]],
      rate |-> IF new.rate # base.rate THEN new.rate ELSE now.rate ]

PoolAfter(r) ==
    IF r.mine THEN r.new
    ELSE IF r.base # None THEN Overlay(pool[r.of], r.base, r.new) ELSE pool[r.of]

\* What the ledger of e's balances is after the command.
Booked(r) ==
    IF booked[r.of] = None \/ r.op \notin {"deposit", "withdraw"} THEN booked[r.of]
    ELSE [booked[r.of] EXCEPT ![r.cmd.currency] =
             IF r.op = "deposit" THEN @ + r.cmd.amount ELSE @ - r.cmd.amount]

\* The session ends.
End(p) ==
    LET r == request[p]
        e == r.of
    IN  /\ r.op # "none" /\ r.pc = "end"
        /\ \E end \in EndsOf :
             IF end = "rollback" THEN UNCHANGED <<pool, position, booked, closed>>
             ELSE /\ pool' = IF r.op \in {"open", "close"} THEN pool
                             ELSE [pool EXCEPT ![e] = PoolAfter(r)]
                  /\ position' = [x \in Positions |->
                        CASE r.op = "open" /\ x = r.cmd.pos -> [of |-> e, status |-> "OPEN"]
                          [] r.op = "close" /\ x = r.cmd.pos -> [position[x] EXCEPT !.status = "CLOSED"]
                          [] r.op = "fx" /\ x \in r.reopened -> [position[x] EXCEPT !.status = "OPEN"]
                          [] OTHER -> position[x]]
                  /\ booked' = [booked EXCEPT ![e] = Booked(r)]
                  /\ closed' = IF r.op = "close" THEN closed \cup {r.cmd.pos} ELSE closed
        /\ request' = [request EXCEPT ![p] = Idle]
        /\ UNCHANGED started

\* A request dies, or its connection is lost: a rollback.
Die(p) ==
    /\ request[p].op # "none"
    /\ request' = [request EXCEPT ![p] = Idle]
    /\ UNCHANGED <<pool, position, booked, closed, started>>

Init ==
    /\ pool = [e \in Enterprises |-> None]
    /\ position = [x \in Positions |-> None]
    /\ request = [p \in Workers |-> Idle]
    /\ booked = [e \in Enterprises |-> [c \in Currencies |-> 0]]
    /\ closed = {}
    /\ started = 0

Next == \E p \in Workers :
    \/ CreatePool(p) \/ Change(p) \/ Reselect(p) \/ ListOpen(p)
    \/ ReselectPositions(p) \/ End(p) \/ Die(p)
    \/ \E e \in Enterprises : Begin(p, e)

Spec == Init /\ [][Next]_vars

----------------------------------------------------------------------------
(* The forecast of one currency. *)

\* Two per cent of the balance, when there is no settlement to go by.  (The
\* balances are taken to be multiples of 50.)
DailyBurn(balance, history) == IF history > 0 THEN history ELSE balance \div 50

\* The balance projected for the end of each day.
Projected(balance, burn) ==
    LET NextDay(x) == IF x > burn THEN x - burn ELSE 0
        left[d \in 0 .. ForecastDays] == IF d = 0 THEN balance ELSE NextDay(left[d - 1])
    IN  left

\* Mutation check only: a day begun counts.
RunwayRoundedUp(balance, burn) == IF burn > 0 THEN (balance + burn - 1) \div burn ELSE 999

Runway(balance, burn) == IF burn > 0 THEN balance \div burn ELSE 999

Alert(balance, burn) ==
    CASE Runway(balance, burn) < 7 -> "CRITICAL"
      [] Runway(balance, burn) \in 7 .. 13 -> "WARNING"
      [] OTHER -> "none"

----------------------------------------------------------------------------
(* Properties. *)

TypeOK ==
    /\ pool \in [Enterprises -> {None} \cup PoolRow]
    /\ position \in [Positions -> {None} \cup PositionRow]
    /\ booked \in [Enterprises -> {None} \cup [Currencies -> Int]]
    /\ closed \subseteq Positions /\ started \in 0 .. MaxRequests

\* However commands, new rates and failures alternate, each balance is what
\* the committed deposits and withdrawals add up to, and a closed position
\* stays closed, unless two commands of the enterprise overlapped: the
\* balances are written as they were computed from the copy, and a new rate
\* writes the status of the positions' copies.
BooksBalance ==
    \A e \in Enterprises : booked[e] # None =>
        /\ booked[e] = (IF pool[e] = None THEN EmptyPool ELSE pool[e]).balance
        /\ \A x \in closed : position[x].of = e => position[x].status = "CLOSED"

\* The runway and the alert of a forecast agree with the balances it projects
\* day by day, and CRITICAL says that the balance does not last seven days.
\* An empty pool without settlements is left out: its burn is 0, and the
\* forecast gives it 999 days.
RunwayMatchesForecast ==
    \A e \in Enterprises, c \in Currencies, history \in Burns :
        LET balance == IF pool[e] = None THEN 0 ELSE pool[e].balance[c]
            burn == DailyBurn(balance, history)
            left == Projected(balance, burn)
            runway == Runway(balance, burn)
        IN  balance + history > 0 =>
              /\ \A d \in 1 .. ForecastDays : left[d] >= burn => d < runway
              /\ \A d \in 0 .. ForecastDays - 1 : d < runway <=> left[d] - left[d + 1] = burn
              /\ ForecastDays >= 7 => (Alert(balance, burn) = "CRITICAL" <=> left[6] < burn)

=============================================================================
