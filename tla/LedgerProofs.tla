---------------------------- MODULE LedgerProofs ----------------------------
(***************************************************************************)
(* Proofs about what the services keep of many parts and must give back    *)
(* whole: the books of a treasury, the audit entries under a Merkle root,  *)
(* and the documents in an agent's memory; for any values of their         *)
(* constants that satisfy their assumptions.  All three compute in loops,  *)
(* which the models write as recursive functions; LoopRuns says that such  *)
(* a function exists and satisfies its equation, UpTo that what each step  *)
(* preserves holds all along.                                              *)
(***************************************************************************)
EXTENDS MCServices, FiniteSetTheorems, SequenceTheorems, WellFoundedInduction, TLAPS

----------------------------------------------------------------------------
(* A behaviour of all services is one of each of them. *)

LEMMA OwnInit ==
    MCInit => Tre!Init /\ Anc!Init /\ Mem!Init
BY DEF MCInit

LEMMA OwnNext ==
    ASSUME [MCNext]_<<focus, vars, accountVars, treasuryVars, priceVars, memoryVars,
                      streamVars, sessionVars, anchoringVars, breakerVars, profileVars>>
    PROVE  /\ Tre!Next \/ UNCHANGED treasuryVars
           /\ Anc!Next \/ UNCHANGED anchoringVars
           /\ Mem!Next \/ UNCHANGED memoryVars
BY DEF MCNext, OnlyOf

----------------------------------------------------------------------------
(* Loops. *)

\* A set of numbers that is not empty has a least.
LEMMA LeastOf ==
    ASSUME NEW T, T \subseteq Nat, T # {}
    PROVE  \E i \in T : \A j \in T : i <= j
<1>1. PICK R : R = {ss \in Nat \X Nat : ss[1] < ss[2]} /\ IsWellFoundedOn(R, Nat)
  BY NatLessThanWellFounded, Zenon DEF OpToRel
<1>2. PICK i \in T : \A j \in T : ~ (<<j, i>> \in R)
  BY <1>1, WFMin
<1>3. ASSUME NEW j \in Nat, j < i PROVE <<j, i>> \in R
  <2>1. PICK ss : ss = <<j, i>>
    OBVIOUS
  <2>2. ss \in Nat \X Nat /\ ss[1] = j /\ ss[2] = i
    BY <2>1
  <2>3. ss \in Nat \X Nat /\ ss[1] < ss[2]
    BY <1>3, <2>2
  <2>4. ss \in R
    BY <1>1, <2>3, Zenon
  <2> QED BY <2>1, <2>4
<1> SUFFICES ASSUME NEW j \in T PROVE i <= j
  BY <1>2, Zenon
<1>4. i \in Nat /\ j \in Nat
  BY <1>2
<1>5. ~ (j < i)
  BY <1>2, <1>3, <1>4, Zenon
<1> QED BY <1>4, <1>5

\* What f makes of base in the steps up to n.
Iterates(f, base, n, g) ==
    g = [i \in 0..n |-> IF i = 0 THEN base ELSE f[i][g[i - 1]]]

\* A loop that stays in X can be run any number of times: a recursive function over
\* 0..n is one that its equation holds of.
LEMMA LoopRuns ==
    ASSUME NEW X, NEW base \in X, NEW N \in Nat, NEW f \in [1..N -> [X -> X]]
    PROVE  \E g \in [0..N -> X] : Iterates(f, base, N, g)
<1> DEFINE Runs(n) == \E g \in [0..n -> X] : Iterates(f, base, n, g)
           T == {n \in 0..N : ~ Runs(n)}
<1>1. Runs(0)
  <2> DEFINE g == [i \in 0..0 |-> base]
  <2>1. g \in [0..0 -> X]
    OBVIOUS
  <2>2. g = [i \in 0..0 |-> IF i = 0 THEN base ELSE f[i][g[i - 1]]]
    OBVIOUS
  <2> QED BY <2>1, <2>2 DEF Iterates
<1>2. ASSUME NEW n \in 1..N, Runs(n - 1) PROVE Runs(n)
  <2>1. PICK g \in [0..(n - 1) -> X] : Iterates(f, base, n - 1, g)
    BY <1>2
  <2> DEFINE h == [i \in 0..n |-> IF i < n THEN g[i] ELSE f[n][g[n - 1]]]
  <2>2. f[n][g[n - 1]] \in X
    <3>1. n - 1 \in 0..(n - 1) /\ g[n - 1] \in X
      OBVIOUS
    <3>2. f[n] \in [X -> X]
      OBVIOUS
    <3> QED BY <3>1, <3>2
  <2>3. h \in [0..n -> X]
    BY <2>2
  <2>4. ASSUME NEW i \in 0..n PROVE h[i] = IF i = 0 THEN base ELSE f[i][h[i - 1]]
    <3>1. CASE i < n
      <4>1. h[i] = g[i] /\ (i # 0 => h[i - 1] = g[i - 1])
        BY <3>1
      <4>2. g[i] = IF i = 0 THEN base ELSE f[i][g[i - 1]]
        BY <2>1, <3>1 DEF Iterates
      <4> HIDE DEF h
      <4> QED BY <4>1, <4>2
    <3>2. CASE i = n
      <4>1. h[n] = f[n][g[n - 1]] /\ h[n - 1] = g[n - 1]
        OBVIOUS
      <4> HIDE DEF h
      <4> QED BY <3>2, <4>1
    <3> QED BY <3>1, <3>2
  <2>5. h = [i \in 0..n |-> h[i]]
    OBVIOUS
  <2>6. Iterates(f, base, n, h)
    <3> HIDE DEF h
    <3> QED BY <2>4, <2>5 DEF Iterates
  <2> QED BY <2>3, <2>6
<1>3. SUFFICES ASSUME T # {} PROVE FALSE
  <2>1. N \notin T
    BY <1>3
  <2> QED BY <2>1
<1>4. PICK n \in T : \A j \in T : n <= j
  <2>1. T \subseteq Nat
    OBVIOUS
  <2> HIDE DEF T
  <2> QED BY <1>3, <2>1, LeastOf
<1>5. n \in 0..N /\ ~ Runs(n)
  BY <1>4
<1>6. n # 0
  BY <1>1, <1>5
<1>7. n - 1 \in 0..N /\ ~ (n <= n - 1)
  BY <1>5, <1>6
<1>8. Runs(n - 1)
  BY <1>4, <1>7
<1> HIDE DEF Runs
<1> QED BY <1>2, <1>5, <1>6, <1>8

\* What holds of a loop before its first step, and after each step if before it, holds
\* all along.
LEMMA UpTo ==
    ASSUME NEW N \in Nat, NEW T, 0 \in T, \A h \in 1 .. N : h - 1 \in T => h \in T
    PROVE  \A h \in 0 .. N : h \in T
<1> DEFINE U == {h \in 0 .. N : h \notin T}
<1> SUFFICES ASSUME U # {} PROVE FALSE
  OBVIOUS
<1>1. PICK h \in U : \A j \in U : h <= j
  <2>1. U \subseteq Nat
    OBVIOUS
  <2> HIDE DEF U
  <2> QED BY <2>1, LeastOf
<1>2. h \in 0 .. N /\ h # 0 /\ h \notin T
  BY <1>1
<1>3. h \in 1 .. N /\ h - 1 \in 0 .. N /\ ~ (h <= h - 1)
  BY <1>2
<1>4. h - 1 \in T
  BY <1>1, <1>3
<1> QED BY <1>2, <1>3, <1>4

----------------------------------------------------------------------------
(* Treasury. *)

PoolOps == {"deposit", "withdraw", "fx", "dashboard"}

CommandRows ==
    [op : {"none", "open", "close"} \cup PoolOps, of : {None} \cup Owners,
     pc : {"create", "change", "select", "list", "positions", "end"},
     cmd : {None} \cup Tre!Commands, mine : BOOLEAN,
     new : {None} \cup Tre!PoolRow, base : {None} \cup Tre!PoolRow,
     listed : SUBSET Positions, reopened : SUBSET Positions]

Writer(r) == r.op \notin {"none", "dashboard"}

\* What a request has loaded, and the tables.
Fits(r) ==
    /\ r.op # "none" => r.of \in Owners /\ r.cmd \in Tre!Commands /\ r.cmd.op = r.op
    /\ r.op \in PoolOps /\ r.pc # "create" =>
          r.new \in Tre!PoolRow /\ (r.mine = TRUE <=> pool[r.of] = None)
    /\ r.mine = TRUE => r.op \in PoolOps /\ r.pc # "create"
    /\ r.op \in {"deposit", "withdraw", "fx"} /\ r.pc \in {"list", "positions", "end"}
          => r.base # None
    /\ r.op = "dashboard" =>
          /\ r.base = None /\ r.pc \in {"create", "change", "end"}
          /\ r.mine = TRUE => r.new = Tre!EmptyPool
    /\ r.op \in {"open", "close"} => r.pc = "end"
    /\ r.op = "open" => position[r.cmd.pos] = None
    /\ r.op = "close" => position[r.cmd.pos] # None /\ position[r.cmd.pos].of = r.of
    /\ r.op # "none" /\ r.pc # "end" => r.reopened = {}
    /\ r.reopened \subseteq r.listed
    /\ \A x \in r.listed : position[x] # None /\ position[x].of = r.of

\* What a ledger is after the command.
After(r, ledger) ==
    IF r.op \notin {"deposit", "withdraw"} THEN ledger
    ELSE [ledger EXCEPT ![r.cmd.currency] =
             IF r.op = "deposit" THEN @ + r.cmd.amount ELSE @ - r.cmd.amount]

\* The copy of a request that is alone with its rows.
Exact(r, ledger) ==
    /\ r.listed \subseteq Tre!OpenOf(r.of) /\ r.reopened = {}
    /\ r.op \in PoolOps =>
          /\ r.pc = "change" => r.new.balance = ledger
          /\ r.pc \in {"select", "list", "positions", "end"} => r.new.balance = After(r, ledger)
          /\ r.pc \in {"list", "positions", "end"} /\ r.mine = FALSE => r.base.balance = ledger

\* Two requests of one enterprise.
Apart(r, s, ledger) ==
    /\ r.of = s.of => /\ ~ (r.mine = TRUE /\ s.mine = TRUE)
                      /\ Writer(r) /\ Writer(s) => ledger = None
    /\ r.op = "open" /\ s.op = "open" => r.cmd.pos # s.cmd.pos

TreasuryTypes ==
    /\ pool \in [Owners -> {None} \cup Tre!PoolRow]
    /\ position \in [Positions -> {None} \cup Tre!PositionRow]
    /\ booked \in [Owners -> {None} \cup [Currencies -> Int]]
    /\ command \in [Workers -> CommandRows]
    /\ closed \subseteq {x \in Positions : position[x] # None}

TreasuryInv ==
    /\ TreasuryTypes
    /\ \A p \in Workers :
          /\ Fits(command[p])
          /\ Writer(command[p]) /\ booked[command[p].of] # None
                => Exact(command[p], booked[command[p].of])
          /\ \A q \in Workers \ {p} : Apart(command[p], command[q], booked[command[p].of])
    /\ Tre!BooksBalance

\* A request changes its copy, no table does.
LEMMA CopyStep ==
    ASSUME TreasuryInv, NEW p \in Workers, NEW r \in CommandRows, NEW b,
           command' = [command EXCEPT ![p] = r], UNCHANGED <<pool, position, closed>>, booked' = b,
           b \in [Owners -> {None} \cup [Currencies -> Int]],
           \A e \in Owners : b[e] = booked[e] \/ b[e] = None,
           Fits(r), Writer(r) /\ b[r.of] # None => Exact(r, b[r.of]),
           r.op # "none" =>
              \A q \in Workers \ {p} : Apart(r, command[q], b[r.of]) /\ Apart(command[q], r, b[r.of])
    PROVE  TreasuryInv'
<1>1. /\ command' \in [Workers -> CommandRows] /\ command'[p] = r
      /\ \A q \in Workers \ {p} : command'[q] = command[q]
  BY DEF TreasuryInv, TreasuryTypes
<1>2. TreasuryTypes'
  BY <1>1 DEF TreasuryInv, TreasuryTypes
<1>3. ASSUME NEW q \in Workers PROVE Fits(command'[q])
  <2>1. CASE q = p
    BY <1>1, <2>1
  <2>2. CASE q # p
    BY <1>1, <2>2 DEF TreasuryInv
  <2> QED BY <2>1, <2>2
<1>4. ASSUME NEW q \in Workers PROVE Fits(command[q])'
  BY <1>3 DEF Fits
<1>5. ASSUME NEW q \in Workers, Writer(command'[q]), b[command'[q].of] # None
      PROVE  Exact(command'[q], b[command'[q].of])
  <2>1. CASE q = p
    BY <1>1, <1>5, <2>1
  <2>2. CASE q # p
    <3>1. Fits(command[q]) /\ Writer(command[q]) /\ command'[q] = command[q]
      BY <1>1, <1>5, <2>2 DEF TreasuryInv
    <3>2. command[q].of \in Owners
      BY <3>1 DEF Fits, Writer
    <3>3. b[command[q].of] = booked[command[q].of]
      BY <1>5, <3>1, <3>2
    <3> QED BY <1>5, <3>1, <3>3 DEF TreasuryInv
  <2> QED BY <2>1, <2>2
<1>6. ASSUME NEW q \in Workers
      PROVE  (Writer(command[q]) /\ booked[command[q].of] # None
                 => Exact(command[q], booked[command[q].of]))'
  <2>1. Exact(command'[q], b[command'[q].of]) => Exact(command[q], booked[command[q].of])'
    <3>1. PICK r2, n : r2 = command'[q] /\ n = b[command'[q].of] /\ n = (booked[command[q].of])'
      OBVIOUS
    <3>2. Tre!OpenOf(r2.of)' = Tre!OpenOf(r2.of)
      BY DEF Tre!OpenOf
    <3>3. Exact(r2, n) => Exact(r2, n)'
      BY <3>2 DEF Exact, After
    <3> QED BY <3>1, <3>3
  <2>2. Writer(command[q])' => Writer(command'[q])
    BY DEF Writer
  <2> QED BY <1>5, <2>1, <2>2
<1>7. ASSUME NEW q \in Workers, NEW s \in Workers \ {q}
      PROVE  Apart(command'[q], command'[s], b[command'[q].of])
  <2>1. CASE q = p
    <3>1. command'[q] = r /\ command'[s] = command[s]
      BY <1>1, <2>1
    <3>2. CASE r.op = "none"
      <4>1. ~ r.mine = TRUE
        BY <3>2 DEF Fits, PoolOps
      <4> QED BY <3>1, <3>2, <4>1 DEF Apart, Writer
    <3>3. CASE r.op # "none"
      BY <2>1, <3>1, <3>3
    <3> QED BY <3>2, <3>3
  <2>2. CASE s = p
    <3>1. command'[s] = r /\ command'[q] = command[q]
      BY <1>1, <2>2
    <3>2. CASE r.op = "none"
      <4>1. ~ r.mine = TRUE
        BY <3>2 DEF Fits, PoolOps
      <4> QED BY <3>1, <3>2, <4>1 DEF Apart, Writer
    <3>3. CASE r.op # "none"
      <4>1. Apart(command[q], r, b[r.of])
        BY <2>2, <3>3
      <4> QED BY <3>1, <4>1 DEF Apart
    <3> QED BY <3>2, <3>3
  <2>3. CASE q # p /\ s # p
    <3>1. command'[s] = command[s] /\ command'[q] = command[q]
      BY <1>1, <2>3
    <3>2. Apart(command[q], command[s], booked[command[q].of]) /\ Fits(command[q])
      BY DEF TreasuryInv
    <3>3. Writer(command[q]) => b[command[q].of] = booked[command[q].of] \/ b[command[q].of] = None
      BY <3>2 DEF Fits, Writer
    <3> QED BY <3>1, <3>2, <3>3 DEF Apart
  <2> QED BY <2>1, <2>2, <2>3
<1>8. ASSUME NEW q \in Workers
      PROVE  (\A s \in Workers \ {q} : Apart(command[q], command[s], booked[command[q].of]))'
  BY <1>7 DEF Apart, Writer
<1>9. Tre!BooksBalance'
  BY DEF TreasuryInv, Tre!BooksBalance, Tre!EmptyPool
<1> QED BY <1>2, <1>4, <1>6, <1>8, <1>9 DEF TreasuryInv

LEMMA IdleCommand ==
    Tre!Idle \in CommandRows /\ Tre!Idle.op = "none" /\ Fits(Tre!Idle)
BY DEF Tre!Idle, CommandRows, Fits, PoolOps

LEMMA GivesUp ==
    ASSUME TreasuryInv, NEW p \in Workers, command' = [command EXCEPT ![p] = Tre!Idle],
           UNCHANGED <<pool, position, booked, closed>>
    PROVE  TreasuryInv'
<1>1. PICK r \in CommandRows : r = Tre!Idle /\ r.op = "none" /\ Fits(r)
  BY IdleCommand
<1>2. PICK b : b = booked
  OBVIOUS
<1>3. /\ b \in [Owners -> {None} \cup [Currencies -> Int]] /\ booked' = b
      /\ \A e \in Owners : b[e] = booked[e] \/ b[e] = None
  BY <1>2 DEF TreasuryInv, TreasuryTypes
<1>4. ~ Writer(r)
  BY <1>1 DEF Writer
<1>5. command' = [command EXCEPT ![p] = r] /\ UNCHANGED <<pool, position, closed>>
  BY <1>1
<1> QED BY <1>1, <1>3, <1>4, <1>5, CopyStep

\* Only the copy changes.
LEMMA OwnStep ==
    ASSUME TreasuryInv, NEW p \in Workers, NEW old, old = command[p], NEW r \in CommandRows,
           command' = [command EXCEPT ![p] = r], UNCHANGED <<pool, position, booked, closed>>,
           old.op # "none", old.op # "open", r.op = old.op, r.of = old.of, Fits(r),
           r.mine = TRUE => \A q \in Workers \ {p} :
                               command[q].of = r.of => ~ command[q].mine = TRUE,
           Writer(r) /\ booked[r.of] # None => Exact(r, booked[r.of])
    PROVE  TreasuryInv'
<1>2. PICK b : b = booked
  OBVIOUS
<1>3. /\ b \in [Owners -> {None} \cup [Currencies -> Int]] /\ booked' = b
      /\ \A e \in Owners : b[e] = booked[e] \/ b[e] = None
  BY <1>2 DEF TreasuryInv, TreasuryTypes
<1>4. ASSUME NEW q \in Workers \ {p}
      PROVE  Apart(r, command[q], b[r.of]) /\ Apart(command[q], r, b[r.of])
  <2>1. /\ Apart(command[p], command[q], booked[command[p].of])
        /\ Apart(command[q], command[p], booked[command[q].of])
    BY DEF TreasuryInv
  <2>2. r.mine = TRUE => (command[q].of = r.of => ~ command[q].mine = TRUE)
    OBVIOUS
  <2>3. Writer(r) <=> Writer(command[p])
    BY DEF Writer
  <2>4. r.op # "open" /\ r.of = command[p].of
    OBVIOUS
  <2> QED BY <1>2, <2>1, <2>2, <2>3, <2>4 DEF Apart
<1>5. Writer(r) /\ b[r.of] # None => Exact(r, b[r.of])
  BY <1>2
<1>6. UNCHANGED <<pool, position, closed>>
  OBVIOUS
<1> QED BY <1>3, <1>4, <1>5, <1>6, CopyStep

\* What is known of a request in flight.
LEMMA InFlight ==
    ASSUME TreasuryInv, NEW p \in Workers, command[p].op # "none"
    PROVE  \E old \in CommandRows :
              /\ old = command[p] /\ old.of \in Owners /\ old.cmd \in Tre!Commands
              /\ old.cmd.op = old.op /\ Fits(old)
              /\ Writer(old) /\ booked[old.of] # None => Exact(old, booked[old.of])
<1>1. command[p] \in CommandRows /\ Fits(command[p])
  BY DEF TreasuryInv, TreasuryTypes
<1>2. Writer(command[p]) /\ booked[command[p].of] # None
         => Exact(command[p], booked[command[p].of])
  BY DEF TreasuryInv
<1>3. command[p].of \in Owners /\ command[p].cmd \in Tre!Commands /\ command[p].cmd.op = command[p].op
  BY <1>1 DEF Fits
<1> QED BY <1>1, <1>2, <1>3

LEMMA CreateStep ==
    ASSUME TreasuryInv, Tre!TreasuryAssumption, NEW p \in Workers, Tre!CreatePool(p)
    PROVE  TreasuryInv'
<1>1. PICK old \in CommandRows :
         /\ old = command[p] /\ old.of \in Owners /\ old.cmd \in Tre!Commands
         /\ old.cmd.op = old.op /\ Fits(old)
         /\ Writer(old) /\ booked[old.of] # None => Exact(old, booked[old.of])
  <2>1. command[p].op # "none"
    BY DEF Tre!CreatePool
  <2> QED BY <2>1, InFlight
<1>2. /\ old.op # "none" /\ old.pc = "create"
      /\ \A q \in Workers \ {p} : command[q].of = old.of => ~ command[q].mine
      /\ UNCHANGED <<pool, position, booked, closed>>
      /\ pool[old.of] # None => command' = [command EXCEPT ![p] = Tre!Idle]
  BY <1>1 DEF Tre!CreatePool, TreasuryInv, TreasuryTypes
<1>3. CASE pool[old.of] # None
  BY <1>2, <1>3, GivesUp
<1>4. CASE pool[old.of] = None
  <2>1. PICK a : a = [old EXCEPT !.pc = "change"]
    OBVIOUS
  <2>2. PICK d : d = [a EXCEPT !.mine = TRUE]
    OBVIOUS
  <2>3. PICK z \in Tre!PoolRow : z = Tre!EmptyPool
    BY DEF Tre!EmptyPool, Tre!PoolRow
  <2>4. PICK r : r = [d EXCEPT !.new = z]
    OBVIOUS
  <2>5. a \in CommandRows /\ a.pc = "change" /\ a.op = old.op /\ a.of = old.of /\ a.cmd = old.cmd
        /\ a.listed = old.listed /\ a.reopened = old.reopened /\ a.base = old.base
    BY <2>1 DEF CommandRows
  <2>6. d \in CommandRows /\ d.pc = "change" /\ d.op = old.op /\ d.of = old.of /\ d.cmd = old.cmd
        /\ d.listed = old.listed /\ d.reopened = old.reopened /\ d.base = old.base /\ d.mine = TRUE
    BY <2>2, <2>5 DEF CommandRows
  <2>7. r \in CommandRows /\ r.pc = "change" /\ r.op = old.op /\ r.of = old.of /\ r.cmd = old.cmd
        /\ r.listed = old.listed /\ r.reopened = old.reopened /\ r.base = old.base /\ r.mine = TRUE
        /\ r.new = z
    BY <2>4, <2>6 DEF CommandRows
  <2>8. command' = [command EXCEPT ![p] = r]
    <3>1. command' = [command EXCEPT ![p] = [old EXCEPT !.pc = "change", !.mine = TRUE,
                                                          !.new = Tre!EmptyPool]]
      BY <1>1, <1>4 DEF Tre!CreatePool, TreasuryInv, TreasuryTypes
    <3>2. r = [old EXCEPT !.pc = "change", !.mine = TRUE, !.new = Tre!EmptyPool]
      BY <2>1, <2>2, <2>3, <2>4
    <3> QED BY <3>1, <3>2
  <2>9. old.op \in PoolOps
    BY <1>1, <1>2 DEF Fits, CommandRows
  <2>10. Fits(r)
    BY <1>1, <1>2, <1>4, <2>3, <2>7, <2>9 DEF Fits
  <2>11. Writer(r) /\ booked[r.of] # None => Exact(r, booked[r.of])
    <3> SUFFICES ASSUME Writer(r), booked[r.of] # None PROVE Exact(r, booked[r.of])
      OBVIOUS
    <3>1. Exact(old, booked[old.of])
      BY <1>1, <2>7 DEF Writer
    <3>2. r.new.balance = booked[r.of]
      <4>1. booked[old.of] = Tre!EmptyPool.balance
        BY <1>1, <1>4, <2>7 DEF TreasuryInv, Tre!BooksBalance
      <4> QED BY <2>3, <2>7, <4>1
    <3> QED BY <2>7, <3>1, <3>2 DEF Exact
  <2>12. r.mine = TRUE => \A q \in Workers \ {p} :
                             command[q].of = r.of => ~ command[q].mine = TRUE
    BY <1>2, <2>7
  <2>13. old.op # "open" /\ r.op = old.op /\ r.of = old.of
    BY <2>7, <2>9 DEF PoolOps
  <2> QED BY <1>1, <1>2, <2>7, <2>8, <2>10, <2>11, <2>12, <2>13, OwnStep
<1> QED BY <1>3, <1>4

\* What a command makes of a copy.
LEMMA ResultIs ==
    ASSUME Tre!TreasuryAssumption, NEW r \in CommandRows, r.op \in PoolOps, r.cmd \in Tre!Commands,
           r.cmd.op = r.op, NEW copy \in Tre!PoolRow, NEW new \in Tre!Results(r.cmd, copy)
    PROVE  /\ new \in Tre!PoolRow /\ new.balance = After(r, copy.balance)
           /\ r.op = "dashboard" => new = copy
<1>1. PICK s \in [Currencies -> Nat] : s = copy.balance
  BY DEF Tre!PoolRow
<1>2. CASE r.op = "deposit"
  <2>1. PICK c \in Currencies, n \in Int : c = r.cmd.currency /\ n = r.cmd.amount
    BY <1>2 DEF Tre!Commands, Tre!TreasuryAssumption
  <2>0. r.cmd.op = "deposit"
    BY <1>2
  <2>2. new \in Tre!Deposit(copy, c, n)
    BY <2>0, <2>1, Zenon DEF Tre!Results
  <2>3. n > 0 /\ new = [copy EXCEPT !.balance[c] = @ + n]
    BY <2>2 DEF Tre!Deposit
  <2>4. PICK t \in [Currencies -> Nat] : t = [s EXCEPT ![c] = s[c] + n]
    <3>1. s[c] + n \in Nat
      BY <2>3
    <3> QED BY <3>1
  <2>5. new = [copy EXCEPT !.balance = t]
    BY <1>1, <2>3, <2>4 DEF Tre!PoolRow
  <2>6. new \in Tre!PoolRow /\ new.balance = t
    BY <2>5 DEF Tre!PoolRow
  <2>7. After(r, s) = t
    BY <1>2, <2>1, <2>4 DEF After
  <2> QED BY <1>1, <1>2, <2>6, <2>7
<1>3. CASE r.op = "withdraw"
  <2>1. PICK c \in Currencies, n \in Int : c = r.cmd.currency /\ n = r.cmd.amount
    BY <1>3 DEF Tre!Commands, Tre!TreasuryAssumption
  <2>0. r.cmd.op = "withdraw"
    BY <1>3
  <2>2. new \in Tre!Withdraw(copy, c, n)
    BY <2>0, <2>1, Zenon DEF Tre!Results
  <2>3. n <= s[c] /\ new = [copy EXCEPT !.balance[c] = @ - n]
    BY <1>1, <2>2 DEF Tre!Withdraw
  <2>4. PICK t \in [Currencies -> Nat] : t = [s EXCEPT ![c] = s[c] - n]
    <3>1. s[c] - n \in Nat
      BY <2>3
    <3> QED BY <3>1
  <2>5. new = [copy EXCEPT !.balance = t]
    BY <1>1, <2>3, <2>4 DEF Tre!PoolRow
  <2>6. new \in Tre!PoolRow /\ new.balance = t
    BY <2>5 DEF Tre!PoolRow
  <2>7. After(r, s) = t
    BY <1>3, <2>1, <2>4 DEF After
  <2> QED BY <1>1, <1>3, <2>6, <2>7
<1>4. CASE r.op = "fx"
  <2>0. r.cmd.op = "fx"
    BY <1>4
  <2>1. new \in Tre!FetchRate(copy)
    BY <2>0, Zenon DEF Tre!Results
  <2>2. PICK rate \in Nat : new = [copy EXCEPT !.rate = rate]
    BY <2>1 DEF Tre!FetchRate, Tre!TreasuryAssumption
  <2>3. new \in Tre!PoolRow /\ new.balance = s
    BY <1>1, <2>2 DEF Tre!PoolRow
  <2> QED BY <1>1, <1>4, <2>3 DEF After
<1>5. CASE r.op = "dashboard"
  <2>0. r.cmd.op = "dashboard"
    BY <1>5
  <2>1. new = copy
    BY <2>0, Zenon DEF Tre!Results
  <2> QED BY <1>5, <2>1 DEF After
<1> QED BY <1>2, <1>3, <1>4, <1>5 DEF PoolOps

LEMMA ChangeStep ==
    ASSUME TreasuryInv, Tre!TreasuryAssumption, NEW p \in Workers, Tre!Change(p)
    PROVE  TreasuryInv'
<1>1. PICK old \in CommandRows :
         /\ old = command[p] /\ old.of \in Owners /\ old.cmd \in Tre!Commands
         /\ old.cmd.op = old.op /\ Fits(old)
         /\ Writer(old) /\ booked[old.of] # None => Exact(old, booked[old.of])
  <2>1. command[p].op # "none"
    BY DEF Tre!Change
  <2> QED BY <2>1, InFlight
<1>2. /\ old.op # "none" /\ old.pc = "change" /\ UNCHANGED <<pool, position, booked, closed>>
      /\ \/ \E new \in Tre!Results(old.cmd, old.new) :
              command' = [command EXCEPT ![p] = [old EXCEPT !.new = new,
                            !.pc = IF old.op = "dashboard" THEN "end" ELSE "select"]]
         \/ command' = [command EXCEPT ![p] = Tre!Idle]
  BY <1>1 DEF Tre!Change, TreasuryInv, TreasuryTypes
<1>3. CASE command' = [command EXCEPT ![p] = Tre!Idle]
  BY <1>2, <1>3, GivesUp
<1>4. ASSUME NEW new \in Tre!Results(old.cmd, old.new),
             command' = [command EXCEPT ![p] = [old EXCEPT !.new = new,
                            !.pc = IF old.op = "dashboard" THEN "end" ELSE "select"]]
      PROVE  TreasuryInv'
  <2>1. old.op \in PoolOps /\ old.new \in Tre!PoolRow
    BY <1>1, <1>2 DEF Fits, CommandRows
  <2>2. new \in Tre!PoolRow /\ new.balance = After(old, old.new.balance)
        /\ (old.op = "dashboard" => new = old.new)
    BY <1>1, <2>1, ResultIs
  <2>3. PICK pc \in {"end", "select"} : pc = IF old.op = "dashboard" THEN "end" ELSE "select"
    OBVIOUS
  <2>4. PICK a : a = [old EXCEPT !.new = new]
    OBVIOUS
  <2>5. PICK r : r = [a EXCEPT !.pc = pc]
    OBVIOUS
  <2>6. a \in CommandRows /\ a.new = new /\ a.op = old.op /\ a.of = old.of /\ a.cmd = old.cmd
        /\ a.listed = old.listed /\ a.reopened = old.reopened /\ a.base = old.base
        /\ a.mine = old.mine
    BY <2>2, <2>4 DEF CommandRows
  <2>7. r \in CommandRows /\ r.pc = pc /\ r.op = old.op /\ r.of = old.of /\ r.cmd = old.cmd
        /\ r.listed = old.listed /\ r.reopened = old.reopened /\ r.base = old.base
        /\ r.mine = old.mine /\ r.new = new
    BY <2>5, <2>6 DEF CommandRows
  <2>8. command' = [command EXCEPT ![p] = r]
    BY <1>4, <2>3, <2>4, <2>5
  <2>9. Fits(r)
    BY <1>1, <1>2, <2>1, <2>2, <2>3, <2>7 DEF Fits
  <2>10. Writer(r) /\ booked[r.of] # None => Exact(r, booked[r.of])
    <3> SUFFICES ASSUME Writer(r), booked[r.of] # None PROVE Exact(r, booked[r.of])
      OBVIOUS
    <3>1. Exact(old, booked[old.of]) /\ pc = "select"
      BY <1>1, <2>3, <2>7 DEF Writer
    <3>2. r.new.balance = After(r, booked[r.of])
      <4>1. old.new.balance = booked[old.of]
        BY <1>2, <2>1, <3>1 DEF Exact
      <4>2. After(r, booked[r.of]) = After(old, booked[r.of])
        BY <2>7 DEF After
      <4> QED BY <2>2, <2>7, <4>1, <4>2
    <3> QED BY <2>7, <3>1, <3>2 DEF Exact
  <2>11. r.mine = TRUE => \A q \in Workers \ {p} :
                             command[q].of = r.of => ~ command[q].mine = TRUE
    <3>1. \A q \in Workers \ {p} : Apart(command[p], command[q], booked[command[p].of])
      BY DEF TreasuryInv
    <3> QED BY <1>1, <2>7, <3>1 DEF Apart
  <2>12. old.op # "open" /\ r.op = old.op /\ r.of = old.of
    BY <2>1, <2>7 DEF PoolOps
  <2> QED BY <1>1, <1>2, <2>7, <2>8, <2>9, <2>10, <2>11, <2>12, OwnStep
<1> QED BY <1>2, <1>3, <1>4

\* Where a request keeps what it has inserted.
LEMMA StillMine ==
    ASSUME TreasuryInv, NEW p \in Workers, NEW e, command[p].of = e, command[p].mine = TRUE
    PROVE  \A q \in Workers \ {p} : command[q].of = e => ~ command[q].mine = TRUE
<1>1. \A q \in Workers \ {p} : Apart(command[p], command[q], booked[command[p].of])
  BY DEF TreasuryInv
<1> QED BY <1>1 DEF Apart

LEMMA ReselectStep ==
    ASSUME TreasuryInv, Tre!TreasuryAssumption, NEW p \in Workers, Tre!Reselect(p)
    PROVE  TreasuryInv'
<1>1. PICK old \in CommandRows :
         /\ old = command[p] /\ old.of \in Owners /\ old.cmd \in Tre!Commands
         /\ old.cmd.op = old.op /\ Fits(old)
         /\ Writer(old) /\ booked[old.of] # None => Exact(old, booked[old.of])
  <2>1. command[p].op # "none"
    BY DEF Tre!Reselect
  <2> QED BY <2>1, InFlight
<1>2. /\ old.op # "none" /\ old.pc = "select" /\ UNCHANGED <<pool, position, booked, closed>>
      /\ command' = [command EXCEPT ![p] = [old EXCEPT
              !.base = IF old.mine THEN Tre!EmptyPool ELSE pool[old.of],
              !.pc = IF old.op = "fx" THEN "list" ELSE "end"]]
  BY <1>1 DEF Tre!Reselect, TreasuryInv, TreasuryTypes
<1>3. old.op \in {"deposit", "withdraw", "fx"} /\ old.op \in PoolOps
  BY <1>1, <1>2 DEF Fits, CommandRows, PoolOps
<1>4. PICK base \in Tre!PoolRow : base = IF old.mine THEN Tre!EmptyPool ELSE pool[old.of]
  <2>1. Tre!EmptyPool \in Tre!PoolRow
    BY DEF Tre!EmptyPool, Tre!PoolRow
  <2>2. old.mine = FALSE => pool[old.of] \in Tre!PoolRow
    BY <1>1, <1>2, <1>3 DEF Fits, TreasuryInv, TreasuryTypes
  <2>3. old.mine \in BOOLEAN
    BY DEF CommandRows
  <2> QED BY <2>1, <2>2, <2>3
<1>5. PICK pc \in {"list", "end"} : pc = IF old.op = "fx" THEN "list" ELSE "end"
  OBVIOUS
<1>6. PICK a : a = [old EXCEPT !.base = base]
  OBVIOUS
<1>7. PICK r : r = [a EXCEPT !.pc = pc]
  OBVIOUS
<1>8. a \in CommandRows /\ a.base = base /\ a.op = old.op /\ a.of = old.of /\ a.cmd = old.cmd
      /\ a.listed = old.listed /\ a.reopened = old.reopened /\ a.new = old.new
      /\ a.mine = old.mine
  BY <1>6 DEF CommandRows
<1>9. r \in CommandRows /\ r.pc = pc /\ r.op = old.op /\ r.of = old.of /\ r.cmd = old.cmd
      /\ r.listed = old.listed /\ r.reopened = old.reopened /\ r.base = base
      /\ r.mine = old.mine /\ r.new = old.new
  BY <1>7, <1>8 DEF CommandRows
<1>10. command' = [command EXCEPT ![p] = r]
  BY <1>2, <1>4, <1>5, <1>6, <1>7
<1>11. Fits(r)
  <2>1. base # None
    BY DEF Tre!TreasuryAssumption
  <2> QED BY <1>1, <1>2, <1>3, <1>5, <1>9, <2>1 DEF Fits
<1>12. Writer(r) /\ booked[r.of] # None => Exact(r, booked[r.of])
  <2> SUFFICES ASSUME Writer(r), booked[r.of] # None PROVE Exact(r, booked[r.of])
    OBVIOUS
  <2>1. Exact(old, booked[old.of])
    BY <1>1, <1>9 DEF Writer
  <2>2. r.new.balance = After(r, booked[r.of])
    <3>1. old.new.balance = After(old, booked[old.of])
      BY <1>2, <1>3, <2>1 DEF Exact
    <3> QED BY <1>9, <3>1 DEF After
  <2>3. r.mine = FALSE => r.base.balance = booked[r.of]
    <3> SUFFICES ASSUME old.mine = FALSE PROVE base.balance = booked[old.of]
      BY <1>9
    <3>1. base = pool[old.of] /\ pool[old.of] # None
      BY <1>1, <1>2, <1>3, <1>4 DEF Fits
    <3> QED BY <1>1, <1>9, <3>1 DEF TreasuryInv, Tre!BooksBalance
  <2> QED BY <1>5, <1>9, <2>1, <2>2, <2>3 DEF Exact
<1>13. r.mine = TRUE => \A q \in Workers \ {p} :
                           command[q].of = r.of => ~ command[q].mine = TRUE
  BY <1>1, <1>9, StillMine
<1>14. old.op # "open" /\ r.op = old.op /\ r.of = old.of
  BY <1>3, <1>9
<1> QED BY <1>1, <1>2, <1>9, <1>10, <1>11, <1>12, <1>13, <1>14, OwnStep, Zenon

LEMMA ListOpenStep ==
    ASSUME TreasuryInv, NEW p \in Workers, Tre!ListOpen(p)
    PROVE  TreasuryInv'
<1>1. PICK old \in CommandRows :
         /\ old = command[p] /\ old.of \in Owners /\ old.cmd \in Tre!Commands
         /\ old.cmd.op = old.op /\ Fits(old)
         /\ Writer(old) /\ booked[old.of] # None => Exact(old, booked[old.of])
  <2>1. command[p].op # "none"
    BY DEF Tre!ListOpen
  <2> QED BY <2>1, InFlight
<1>2. PICK found \in SUBSET Positions : found = Tre!OpenOf(old.of)
  BY DEF Tre!OpenOf
<1>3. /\ old.op # "none" /\ old.pc = "list" /\ UNCHANGED <<pool, position, booked, closed>>
      /\ command' = [command EXCEPT ![p] = [old EXCEPT !.pc = "positions", !.listed = found]]
  BY <1>1, <1>2 DEF Tre!ListOpen, TreasuryInv, TreasuryTypes
<1>4. PICK a : a = [old EXCEPT !.pc = "positions"]
  OBVIOUS
<1>5. PICK r : r = [a EXCEPT !.listed = found]
  OBVIOUS
<1>6. a \in CommandRows /\ a.pc = "positions" /\ a.op = old.op /\ a.of = old.of /\ a.cmd = old.cmd
      /\ a.base = old.base /\ a.reopened = old.reopened /\ a.new = old.new /\ a.mine = old.mine
  BY <1>4 DEF CommandRows
<1>7. r \in CommandRows /\ r.pc = "positions" /\ r.op = old.op /\ r.of = old.of /\ r.cmd = old.cmd
      /\ r.base = old.base /\ r.reopened = old.reopened /\ r.new = old.new /\ r.mine = old.mine
      /\ r.listed = found
  BY <1>5, <1>6 DEF CommandRows
<1>8. command' = [command EXCEPT ![p] = r]
  BY <1>3, <1>4, <1>5
<1>9. old.op \in PoolOps /\ old.op # "open"
  BY <1>1, <1>3 DEF Fits, CommandRows, PoolOps
<1>10. /\ \A x \in found : position[x] # None /\ position[x].of = old.of
       /\ old.reopened = {}
  <2>1. \A x \in found : position[x] # None /\ position[x].of = old.of
    BY <1>2 DEF Tre!OpenOf
  <2> QED BY <1>1, <1>3, <2>1 DEF Fits
<1>11. Fits(r)
  BY <1>1, <1>3, <1>7, <1>9, <1>10 DEF Fits
<1>12. Writer(r) /\ booked[r.of] # None => Exact(r, booked[r.of])
  <2> SUFFICES ASSUME Writer(r), booked[r.of] # None PROVE Exact(r, booked[r.of])
    OBVIOUS
  <2>1. Exact(old, booked[old.of])
    BY <1>1, <1>7 DEF Writer
  <2>2. r.new.balance = After(r, booked[r.of])
    <3>1. old.new.balance = After(old, booked[old.of])
      BY <1>3, <1>9, <2>1 DEF Exact
    <3> QED BY <1>7, <3>1 DEF After
  <2>3. r.mine = FALSE => r.base.balance = booked[r.of]
    BY <1>3, <1>7, <1>9, <2>1 DEF Exact
  <2> QED BY <1>2, <1>7, <2>1, <2>2, <2>3 DEF Exact
<1>13. r.mine = TRUE => \A q \in Workers \ {p} :
                           command[q].of = r.of => ~ command[q].mine = TRUE
  BY <1>1, <1>7, StillMine
<1>14. old = command[p] /\ old.op # "none" /\ old.op # "open" /\ r.op = old.op /\ r.of = old.of
       /\ r \in CommandRows /\ UNCHANGED <<pool, position, booked, closed>>
  BY <1>1, <1>3, <1>7, <1>9
<1> QED BY <1>8, <1>11, <1>12, <1>13, <1>14, OwnStep

LEMMA ReopenStep ==
    ASSUME TreasuryInv, NEW p \in Workers, Tre!ReselectPositions(p)
    PROVE  TreasuryInv'
<1>1. PICK old \in CommandRows :
         /\ old = command[p] /\ old.of \in Owners /\ old.cmd \in Tre!Commands
         /\ old.cmd.op = old.op /\ Fits(old)
         /\ Writer(old) /\ booked[old.of] # None => Exact(old, booked[old.of])
  <2>1. command[p].op # "none"
    BY DEF Tre!ReselectPositions
  <2> QED BY <2>1, InFlight
<1>2. PICK stale \in SUBSET Positions : stale = old.listed \ Tre!OpenOf(old.of)
  BY DEF CommandRows
<1>3. /\ old.op # "none" /\ old.pc = "positions" /\ UNCHANGED <<pool, position, booked, closed>>
      /\ command' = [command EXCEPT ![p] = [old EXCEPT !.pc = "end", !.reopened = stale]]
  BY <1>1, <1>2 DEF Tre!ReselectPositions, TreasuryInv, TreasuryTypes
<1>4. PICK a : a = [old EXCEPT !.pc = "end"]
  OBVIOUS
<1>5. PICK r : r = [a EXCEPT !.reopened = stale]
  OBVIOUS
<1>6. a \in CommandRows /\ a.pc = "end" /\ a.op = old.op /\ a.of = old.of /\ a.cmd = old.cmd
      /\ a.base = old.base /\ a.listed = old.listed /\ a.new = old.new /\ a.mine = old.mine
  BY <1>4 DEF CommandRows
<1>7. r \in CommandRows /\ r.pc = "end" /\ r.op = old.op /\ r.of = old.of /\ r.cmd = old.cmd
      /\ r.base = old.base /\ r.listed = old.listed /\ r.new = old.new /\ r.mine = old.mine
      /\ r.reopened = stale
  BY <1>5, <1>6 DEF CommandRows
<1>8. command' = [command EXCEPT ![p] = r]
  BY <1>3, <1>4, <1>5
<1>9. old.op \in PoolOps /\ old.op # "open" /\ Writer(old)
  <2>1. old.op \notin {"none", "open", "close"} /\ old.op \in {"none", "open", "close"} \cup PoolOps
    BY <1>1, <1>3 DEF Fits, CommandRows
  <2> QED BY <1>1, <1>3, <2>1 DEF Fits, PoolOps, Writer
<1>10. stale \subseteq old.listed
  BY <1>2
<1>11. Fits(r)
  BY <1>1, <1>3, <1>7, <1>9, <1>10 DEF Fits
<1>12. Writer(r) /\ booked[r.of] # None => Exact(r, booked[r.of])
  <2> SUFFICES ASSUME Writer(r), booked[r.of] # None PROVE Exact(r, booked[r.of])
    OBVIOUS
  <2>1. Exact(old, booked[old.of])
    BY <1>1, <1>7 DEF Writer
  <2>2. r.new.balance = After(r, booked[r.of])
    <3>1. old.new.balance = After(old, booked[old.of])
      BY <1>3, <1>9, <2>1 DEF Exact
    <3> QED BY <1>7, <3>1 DEF After
  <2>3. r.mine = FALSE => r.base.balance = booked[r.of]
    BY <1>3, <1>7, <1>9, <2>1 DEF Exact
  <2>4. r.listed \subseteq Tre!OpenOf(r.of) /\ r.reopened = {}
    BY <1>2, <1>7, <2>1 DEF Exact
  <2> QED BY <1>7, <2>2, <2>3, <2>4 DEF Exact
<1>13. r.mine = TRUE => \A q \in Workers \ {p} :
                           command[q].of = r.of => ~ command[q].mine = TRUE
  BY <1>1, <1>7, StillMine
<1>14. old = command[p] /\ old.op # "none" /\ old.op # "open" /\ r.op = old.op /\ r.of = old.of
       /\ r \in CommandRows /\ UNCHANGED <<pool, position, booked, closed>>
  BY <1>1, <1>3, <1>7, <1>9
<1> QED BY <1>8, <1>11, <1>12, <1>13, <1>14, OwnStep

\* r is the request that cmd begins with.
IsLoaded(e, cmd, r) ==
    /\ r = Tre!Loaded(e, cmd) /\ r.op = cmd.op /\ r.of = e /\ r.cmd = cmd
    /\ r.mine = FALSE /\ r.base = None /\ r.listed = {} /\ r.reopened = {}
    /\ cmd.op \in {"open", "close"} => r.pc = "end"
    /\ cmd.op \notin {"open", "close"} =>
          r.new = pool[e] /\ r.pc = IF pool[e] = None THEN "create" ELSE "change"

LEMMA LoadedIs ==
    ASSUME TreasuryInv, NEW e \in Owners, NEW cmd \in Tre!Commands
    PROVE  \E r \in CommandRows : IsLoaded(e, cmd, r)
<1>0. PICK i \in CommandRows :
         /\ i = Tre!Idle /\ i.mine = FALSE /\ i.base = None /\ i.listed = {} /\ i.reopened = {}
         /\ i.pc = "end"
  BY IdleCommand DEF Tre!Idle
<1>1. cmd.op \in {"open", "close"} \cup PoolOps
  BY DEF Tre!Commands, PoolOps
<1>2. PICK a : a = [i EXCEPT !.op = cmd.op]
  OBVIOUS
<1>3. a \in CommandRows /\ a.op = cmd.op /\ a.mine = FALSE /\ a.base = None /\ a.listed = {}
      /\ a.reopened = {} /\ a.pc = "end"
  BY <1>0, <1>1, <1>2 DEF CommandRows
<1>4. PICK b : b = [a EXCEPT !.of = e]
  OBVIOUS
<1>5. b \in CommandRows /\ b.op = cmd.op /\ b.mine = FALSE /\ b.base = None /\ b.listed = {}
      /\ b.reopened = {} /\ b.pc = "end" /\ b.of = e
  BY <1>3, <1>4 DEF CommandRows
<1>6. PICK d : d = [b EXCEPT !.cmd = cmd]
  OBVIOUS
<1>7. d \in CommandRows /\ d.op = cmd.op /\ d.mine = FALSE /\ d.base = None /\ d.listed = {}
      /\ d.reopened = {} /\ d.pc = "end" /\ d.of = e /\ d.cmd = cmd
  BY <1>5, <1>6 DEF CommandRows
<1>8. CASE cmd.op \in {"open", "close"}
  <2>1. d = Tre!Loaded(e, cmd)
    <3>1. Tre!Loaded(e, cmd) = [i EXCEPT !.op = cmd.op, !.of = e, !.cmd = cmd]
      BY <1>0, <1>8 DEF Tre!Loaded
    <3> QED BY <1>2, <1>4, <1>6, <3>1
  <2> QED BY <1>7, <1>8, <2>1 DEF IsLoaded
<1>9. CASE cmd.op \notin {"open", "close"}
  <2>1. PICK new \in {None} \cup Tre!PoolRow : new = pool[e]
    BY DEF TreasuryInv, TreasuryTypes
  <2>2. PICK pc \in {"create", "change"} : pc = IF pool[e] = None THEN "create" ELSE "change"
    OBVIOUS
  <2>3. PICK f : f = [d EXCEPT !.new = new]
    OBVIOUS
  <2>4. f \in CommandRows /\ f.op = cmd.op /\ f.mine = FALSE /\ f.base = None /\ f.listed = {}
        /\ f.reopened = {} /\ f.of = e /\ f.cmd = cmd /\ f.new = new
    BY <1>7, <2>3 DEF CommandRows
  <2>5. PICK r : r = [f EXCEPT !.pc = pc]
    OBVIOUS
  <2>6. r \in CommandRows /\ r.op = cmd.op /\ r.mine = FALSE /\ r.base = None /\ r.listed = {}
        /\ r.reopened = {} /\ r.of = e /\ r.cmd = cmd /\ r.new = new /\ r.pc = pc
    BY <2>4, <2>5 DEF CommandRows
  <2>7. r = Tre!Loaded(e, cmd)
    <3>1. Tre!Loaded(e, cmd) = [i EXCEPT !.op = cmd.op, !.of = e, !.cmd = cmd, !.new = new,
                                         !.pc = pc]
      BY <1>0, <1>9, <2>1, <2>2 DEF Tre!Loaded
    <3> QED BY <1>2, <1>4, <1>6, <2>3, <2>5, <3>1
  <2> QED BY <1>9, <2>1, <2>2, <2>6, <2>7 DEF IsLoaded
<1> QED BY <1>8, <1>9

LEMMA BeginStep ==
    ASSUME TreasuryInv, NEW p \in Workers, NEW e \in Owners, Tre!Begin(p, e)
    PROVE  TreasuryInv'
<1>1. PICK cmd \in Tre!Commands :
         /\ \/ cmd.op \in {"deposit", "withdraw", "fx", "dashboard"}
            \/ /\ cmd.op = "open" /\ position[cmd.pos] = None
               /\ \A q \in Workers : command[q].op = "open" => command[q].cmd.pos # cmd.pos
            \/ /\ cmd.op = "close" /\ position[cmd.pos] # None
               /\ position[cmd.pos].of = e /\ position[cmd.pos].status = "OPEN"
         /\ command' = [command EXCEPT ![p] = Tre!Loaded(e, cmd)]
  BY DEF Tre!Begin
<1>2. PICK r \in CommandRows :
         /\ r = Tre!Loaded(e, cmd) /\ r.op = cmd.op /\ r.of = e /\ r.cmd = cmd
         /\ r.mine = FALSE /\ r.base = None /\ r.listed = {} /\ r.reopened = {}
         /\ cmd.op \in {"open", "close"} => r.pc = "end"
         /\ cmd.op \notin {"open", "close"} =>
               r.new = pool[e] /\ r.pc = IF pool[e] = None THEN "create" ELSE "change"
  <2>1. PICK r \in CommandRows : IsLoaded(e, cmd, r)
    BY LoadedIs
  <2> QED BY <2>1, Zenon DEF IsLoaded
<1>3. command' = [command EXCEPT ![p] = r] /\ command'[p] = r /\ command[p].op = "none"
  BY <1>1, <1>2 DEF Tre!Begin, TreasuryInv, TreasuryTypes
<1>4. PICK b : b = IF r.op = "dashboard" \/ Tre!Writing(e) = {} THEN booked
                   ELSE [booked EXCEPT ![e] = None]
  OBVIOUS
<1>5. booked' = b /\ UNCHANGED <<pool, position, closed>>
  BY <1>3, <1>4 DEF Tre!Begin
<1>6. /\ b \in [Owners -> {None} \cup [Currencies -> Int]]
      /\ \A o \in Owners : b[o] = booked[o] \/ b[o] = None
  BY <1>4 DEF TreasuryInv, TreasuryTypes
<1>7. Writer(r) /\ b[e] # None => Tre!Writing(e) = {} /\ b[e] = booked[e]
  BY <1>4 DEF Writer, TreasuryInv, TreasuryTypes
<1>8. Fits(r)
  <2>1. pool[e] # None => pool[e] \in Tre!PoolRow
    BY DEF TreasuryInv, TreasuryTypes
  <2>2. r.op = "open" => position[r.cmd.pos] = None
    BY <1>1, <1>2
  <2>3. r.op = "close" => position[r.cmd.pos] # None /\ position[r.cmd.pos].of = r.of
    BY <1>1, <1>2
  <2>4. r.op \in PoolOps => r.pc = IF pool[e] = None THEN "create" ELSE "change"
    BY <1>2 DEF PoolOps
  <2>5. r.op \in PoolOps => r.new = pool[e]
    BY <1>2 DEF PoolOps
  <2>6. r.op = "dashboard" => r.op \in PoolOps
    BY DEF PoolOps
  <2>7. r.op \in {"deposit", "withdraw", "fx"} => r.op \in PoolOps
    BY DEF PoolOps
  <2>8. r.op \in {"open", "close"} => r.pc = "end"
    BY <1>2
  <2> QED BY <1>2, <2>1, <2>2, <2>3, <2>4, <2>5, <2>6, <2>7, <2>8 DEF Fits
<1>9. Writer(r) /\ b[r.of] # None => Exact(r, b[r.of])
  <2> SUFFICES ASSUME Writer(r), b[e] # None PROVE Exact(r, b[e])
    BY <1>2
  <2>1. ASSUME r.op \in PoolOps, r.pc = "change" PROVE r.new.balance = b[e]
    <3>1. r.new = pool[e] /\ pool[e] # None
      BY <1>2, <2>1 DEF PoolOps
    <3>2. booked[e] = pool[e].balance
      BY <1>7, <3>1 DEF TreasuryInv, Tre!BooksBalance
    <3> QED BY <1>7, <3>1, <3>2
  <2>2. r.op \in PoolOps => r.pc \in {"create", "change"}
    BY <1>2 DEF PoolOps
  <2> QED BY <1>2, <2>1, <2>2 DEF Exact
<1>10. ASSUME NEW q \in Workers \ {p}
       PROVE  Apart(r, command[q], b[r.of]) /\ Apart(command[q], r, b[r.of])
  <2>1. command[q].of = e /\ Writer(r) /\ Writer(command[q]) => b[e] = None
    BY <1>7 DEF Tre!Writing, Writer
  <2>2. r.op = "open" /\ command[q].op = "open" => command[q].cmd.pos # cmd.pos
    BY <1>1, <1>2
  <2> QED BY <1>2, <2>1, <2>2 DEF Apart
<1> QED BY <1>3, <1>5, <1>6, <1>8, <1>9, <1>10, CopyStep

\* What a commit writes.
Committed(r) ==
    /\ pool' = IF r.op \in {"open", "close"} THEN pool
               ELSE [pool EXCEPT ![r.of] = Tre!PoolAfter(r)]
    /\ position' = [x \in Positions |->
          CASE r.op = "open" /\ x = r.cmd.pos -> [of |-> r.of, status |-> "OPEN"]
            [] r.op = "close" /\ x = r.cmd.pos -> [position[x] EXCEPT !.status = "CLOSED"]
            [] r.op = "fx" /\ x \in r.reopened -> [position[x] EXCEPT !.status = "OPEN"]
            [] OTHER -> position[x]]
    /\ booked' = [booked EXCEPT ![r.of] = Tre!Booked(r)]
    /\ closed' = IF r.op = "close" THEN closed \cup {r.cmd.pos} ELSE closed

LEMMA PositionAfter ==
    ASSUME TreasuryTypes, NEW r \in CommandRows, r.of \in Owners, Fits(r), Committed(r),
           NEW x \in Positions
    PROVE  \/ /\ r.op = "open" /\ x = r.cmd.pos /\ position[x] = None
              /\ position'[x] \in Tre!PositionRow /\ position'[x].of = r.of
           \/ /\ r.op = "close" /\ x = r.cmd.pos /\ position[x] # None /\ position[x].of = r.of
              /\ position'[x] \in Tre!PositionRow /\ position'[x].of = r.of
              /\ position'[x].status = "CLOSED"
           \/ /\ r.op = "fx" /\ x \in r.reopened /\ position[x] # None /\ position[x].of = r.of
              /\ position'[x] \in Tre!PositionRow /\ position'[x].of = r.of
           \/ /\ position'[x] = position[x]
              /\ ~ (r.op = "close" /\ x = r.cmd.pos)
<1>1. position'[x] = CASE r.op = "open" /\ x = r.cmd.pos -> [of |-> r.of, status |-> "OPEN"]
            [] r.op = "close" /\ x = r.cmd.pos -> [position[x] EXCEPT !.status = "CLOSED"]
            [] r.op = "fx" /\ x \in r.reopened -> [position[x] EXCEPT !.status = "OPEN"]
            [] OTHER -> position[x]
  BY Zenon DEF Committed
<1>2. CASE r.op = "open" /\ x = r.cmd.pos
  <2>1. r.op # "close" /\ r.op # "fx"
    BY <1>2
  <2>2. position'[x] = [of |-> r.of, status |-> "OPEN"]
    BY <1>1, <1>2, <2>1, Zenon
  <2>3. position[x] = None
    BY <1>2 DEF Fits
  <2> QED BY <1>2, <2>2, <2>3 DEF Tre!PositionRow
<1>3. CASE r.op = "close" /\ x = r.cmd.pos
  <2>1. r.op # "open" /\ r.op # "fx"
    BY <1>3
  <2>2. position'[x] = [position[x] EXCEPT !.status = "CLOSED"]
    BY <1>1, <1>3, <2>1, Zenon
  <2>3. position[x] \in Tre!PositionRow /\ position[x].of = r.of /\ position[x] # None
    BY <1>3 DEF Fits, TreasuryTypes
  <2> QED BY <1>3, <2>2, <2>3 DEF Tre!PositionRow
<1>4. CASE r.op = "fx" /\ x \in r.reopened
  <2>1. r.op # "open" /\ r.op # "close"
    BY <1>4
  <2>2. position'[x] = [position[x] EXCEPT !.status = "OPEN"]
    BY <1>1, <1>4, <2>1, Zenon
  <2>3. position[x] \in Tre!PositionRow /\ position[x].of = r.of /\ position[x] # None
    BY <1>4 DEF Fits, TreasuryTypes
  <2> QED BY <1>4, <2>2, <2>3 DEF Tre!PositionRow
<1>5. CASE /\ ~ (r.op = "open" /\ x = r.cmd.pos) /\ ~ (r.op = "close" /\ x = r.cmd.pos)
           /\ ~ (r.op = "fx" /\ x \in r.reopened)
  <2>1. position'[x] = position[x]
    BY <1>1, <1>5, Zenon
  <2> QED BY <1>5, <2>1
<1> QED BY <1>2, <1>3, <1>4, <1>5

\* The pool of the enterprise after the commit.
LEMMA PoolCommitted ==
    ASSUME TreasuryTypes, Tre!TreasuryAssumption, NEW r \in CommandRows, r.of \in Owners,
           r.op \in PoolOps, r.pc = "end", Fits(r)
    PROVE  /\ Tre!PoolAfter(r) \in Tre!PoolRow /\ Tre!PoolAfter(r) # None
           /\ r.mine = TRUE => Tre!PoolAfter(r) = r.new
           /\ r.mine = FALSE /\ r.base = None => Tre!PoolAfter(r) = pool[r.of]
           /\ r.mine = FALSE /\ r.base # None /\ r.base.balance = pool[r.of].balance
                => Tre!PoolAfter(r).balance = r.new.balance
<1>1. r.new \in Tre!PoolRow /\ (r.mine = TRUE <=> pool[r.of] = None) /\ r.mine \in BOOLEAN
  BY DEF Fits, CommandRows
<1>2. CASE r.mine = TRUE
  BY <1>1, <1>2 DEF Tre!PoolAfter, Tre!TreasuryAssumption
<1>3. CASE r.mine = FALSE
  <2>1. PICK old \in Tre!PoolRow : old = pool[r.of]
    BY <1>1, <1>3 DEF TreasuryTypes
  <2>2. CASE r.base = None
    BY <1>3, <2>1, <2>2 DEF Tre!PoolAfter, Tre!TreasuryAssumption
  <2>3. CASE r.base # None
    <3>1. PICK base \in Tre!PoolRow : base = r.base
      BY <2>3 DEF CommandRows
    <3>2. PICK new \in Tre!PoolRow : new = r.new
      BY <1>1
    <3>3. Tre!PoolAfter(r) = Tre!Overlay(old, base, new)
      BY <1>3, <2>1, <2>3, <3>1, <3>2 DEF Tre!PoolAfter
    <3>4. PICK s : s = [c \in Currencies |->
               IF new.balance[c] # base.balance[c] THEN new.balance[c] ELSE old.balance[c]]
      OBVIOUS
    <3>5. s \in [Currencies -> Nat]
      BY <3>4 DEF Tre!PoolRow
    <3>6. PICK rate \in Nat : rate = IF new.rate # base.rate THEN new.rate ELSE old.rate
      BY DEF Tre!PoolRow
    <3>7. Tre!Overlay(old, base, new) = [balance |-> s, rate |-> rate]
      BY <3>4, <3>6 DEF Tre!Overlay
    <3>8. /\ Tre!Overlay(old, base, new) \in Tre!PoolRow
          /\ Tre!Overlay(old, base, new).balance = s
      BY <3>5, <3>7 DEF Tre!PoolRow
    <3>9. base.balance = old.balance => s = new.balance
      BY <3>4 DEF Tre!PoolRow
    <3>10. Tre!Overlay(old, base, new) # None
      BY <3>8 DEF Tre!TreasuryAssumption
    <3> QED BY <1>3, <2>1, <2>3, <3>1, <3>2, <3>3, <3>8, <3>9, <3>10
  <2> QED BY <2>2, <2>3
<1> QED BY <1>1, <1>2, <1>3

\* The ledger after the commit.
LEMMA LedgerAfter ==
    ASSUME TreasuryTypes, Tre!TreasuryAssumption, NEW r \in CommandRows, r.of \in Owners,
           r.cmd \in Tre!Commands, r.cmd.op = r.op, Committed(r)
    PROVE  /\ booked' \in [Owners -> {None} \cup [Currencies -> Int]]
           /\ \A o \in Owners \ {r.of} : booked'[o] = booked[o]
           /\ booked[r.of] = None => booked'[r.of] = None
           /\ booked[r.of] # None => booked'[r.of] = After(r, booked[r.of])
<1>1. CASE booked[r.of] = None
  BY <1>1 DEF Committed, Tre!Booked, TreasuryTypes
<1>2. CASE booked[r.of] # None
  <2>1. PICK ledger \in [Currencies -> Int] : ledger = booked[r.of]
    BY <1>2 DEF TreasuryTypes
  <2>2. After(r, ledger) \in [Currencies -> Int]
    <3>1. CASE r.op \notin {"deposit", "withdraw"}
      BY <3>1 DEF After
    <3>2. CASE r.op \in {"deposit", "withdraw"}
      <4>1. r.cmd.currency \in Currencies /\ r.cmd.amount \in Int
        BY <3>2 DEF Tre!Commands, Tre!TreasuryAssumption
      <4> QED BY <4>1 DEF After
    <3> QED BY <3>1, <3>2
  <2>3. Tre!Booked(r) = After(r, ledger)
    BY <1>2, <2>1 DEF Tre!Booked, After
  <2> QED BY <1>2, <2>1, <2>2, <2>3 DEF Committed, TreasuryTypes
<1> QED BY <1>1, <1>2

LEMMA CommitStep ==
    ASSUME TreasuryInv, Tre!TreasuryAssumption, NEW p \in Workers, NEW r \in CommandRows,
           r = command[p], r.op # "none", r.pc = "end", Committed(r),
           command' = [command EXCEPT ![p] = Tre!Idle]
    PROVE  TreasuryInv'
<1>0. /\ TreasuryTypes /\ r.of \in Owners /\ r.cmd \in Tre!Commands /\ r.cmd.op = r.op /\ Fits(r)
      /\ Writer(r) /\ booked[r.of] # None => Exact(r, booked[r.of])
  BY InFlight DEF TreasuryInv
<1>1. PICK i \in CommandRows : i = Tre!Idle /\ i.op = "none" /\ Fits(i)
  BY IdleCommand
<1>2. /\ command' \in [Workers -> CommandRows] /\ command'[p] = i
      /\ \A q \in Workers \ {p} : command'[q] = command[q]
  BY <1>0, <1>1 DEF TreasuryTypes
<1>3. /\ \A o \in Owners \ {r.of} : pool'[o] = pool[o] /\ booked'[o] = booked[o]
      /\ booked[r.of] = None => booked'[r.of] = None
      /\ booked[r.of] # None => booked'[r.of] = After(r, booked[r.of])
      /\ r.op \in {"open", "close"} => pool' = pool
      /\ r.op \in PoolOps => pool'[r.of] = Tre!PoolAfter(r) /\ pool'[r.of] \in Tre!PoolRow
                             /\ pool'[r.of] # None
      /\ pool' \in [Owners -> {None} \cup Tre!PoolRow]
      /\ booked' \in [Owners -> {None} \cup [Currencies -> Int]]
  <2>1. r.op \in {"open", "close"} \/ (r.op \in PoolOps /\ r.op \notin {"open", "close"})
    BY DEF CommandRows, PoolOps
  <2>2. r.op \in PoolOps => Tre!PoolAfter(r) \in Tre!PoolRow /\ Tre!PoolAfter(r) # None
    BY <1>0, PoolCommitted
  <2>3. /\ booked' \in [Owners -> {None} \cup [Currencies -> Int]]
        /\ \A o \in Owners \ {r.of} : booked'[o] = booked[o]
        /\ booked[r.of] = None => booked'[r.of] = None
        /\ booked[r.of] # None => booked'[r.of] = After(r, booked[r.of])
    BY <1>0, LedgerAfter
  <2>4. CASE r.op \in {"open", "close"}
    <3>1. pool' = pool
      BY <2>4 DEF Committed
    <3> QED BY <1>0, <2>3, <2>4, <3>1 DEF PoolOps, TreasuryTypes
  <2>5. CASE r.op \in PoolOps /\ r.op \notin {"open", "close"}
    <3>1. pool' = [pool EXCEPT ![r.of] = Tre!PoolAfter(r)]
      BY <2>5 DEF Committed
    <3>2. /\ pool' \in [Owners -> {None} \cup Tre!PoolRow] /\ pool'[r.of] = Tre!PoolAfter(r)
          /\ \A o \in Owners \ {r.of} : pool'[o] = pool[o]
      BY <1>0, <2>2, <2>5, <3>1 DEF TreasuryTypes
    <3> QED BY <2>2, <2>3, <2>5, <3>2
  <2> QED BY <2>1, <2>4, <2>5
\* Only positions of this enterprise change, and none goes away.
<1>4. ASSUME NEW x \in Positions
      PROVE  /\ position'[x] \in {None} \cup Tre!PositionRow
             /\ position[x] # None => position'[x] # None /\ position'[x].of = position[x].of
             /\ position'[x] # position[x] =>
                  position'[x].of = r.of /\ r.op \in {"open", "close", "fx"}
             /\ position[x] = None /\ position'[x] # None => r.op = "open" /\ x = r.cmd.pos
  BY <1>0, PositionAfter DEF TreasuryTypes, Tre!TreasuryAssumption
<1>5. position' \in [Positions -> {None} \cup Tre!PositionRow]
  <2>1. DOMAIN position' = Positions /\ position' = [x \in Positions |-> position'[x]]
    BY Zenon DEF Committed
  <2> QED BY <1>4, <2>1
<1>6. closed' \subseteq {x \in Positions : position'[x] # None}
  <2>1. r.op = "close" => r.cmd.pos \in Positions /\ position[r.cmd.pos] # None
    BY <1>0 DEF Fits, Tre!Commands
  <2>2. \A x \in closed' : x \in Positions /\ position[x] # None
    BY <1>0, <2>1 DEF Committed, TreasuryTypes
  <2> QED BY <1>4, <2>2
<1>7. TreasuryTypes'
  BY <1>2, <1>3, <1>5, <1>6 DEF TreasuryTypes
<1>8. ASSUME NEW q \in Workers, NEW s, s = command'[q] PROVE Fits(s)'
  <2>1. CASE q = p
    <3>1. s.op = "none" /\ s.mine = FALSE /\ s.listed = {} /\ s.reopened = {}
      BY <1>1, <1>2, <1>8, <2>1 DEF Tre!Idle
    <3> QED BY <3>1 DEF Fits, PoolOps
  <2>2. CASE q # p
    <3>1. s \in CommandRows /\ s = command[q] /\ Fits(s)
      BY <1>2, <1>8, <2>2 DEF TreasuryInv, TreasuryTypes
    <3>2. Apart(r, s, booked[r.of])
      BY <2>2, <3>1 DEF TreasuryInv
    <3>3. s.op = "open" => position'[s.cmd.pos] = None
      <4>1. s.op = "open" => s.cmd.pos \in Positions /\ position[s.cmd.pos] = None
        BY <3>1 DEF Fits, Tre!Commands
      <4>2. s.op = "open" /\ r.op = "open" => r.cmd.pos # s.cmd.pos
        BY <3>2 DEF Apart
      <4> QED BY <1>4, <4>1, <4>2
    <3>4. s.op = "close" => position'[s.cmd.pos] # None /\ position'[s.cmd.pos].of = s.of
      <4>1. s.op = "close" => /\ s.cmd.pos \in Positions /\ position[s.cmd.pos] # None
                              /\ position[s.cmd.pos].of = s.of
        BY <3>1 DEF Fits, Tre!Commands
      <4> QED BY <1>4, <4>1
    <3>5. \A x \in s.listed : position'[x] # None /\ position'[x].of = s.of
      <4>1. \A x \in s.listed : x \in Positions /\ position[x] # None /\ position[x].of = s.of
        BY <3>1 DEF Fits, CommandRows
      <4> QED BY <1>4, <4>1
    <3>6. ASSUME s.op \in PoolOps, s.pc # "create" PROVE s.mine = TRUE <=> pool'[s.of] = None
      <4>1. (s.mine = TRUE <=> pool[s.of] = None) /\ s.of \in Owners
        BY <3>1, <3>6 DEF Fits, PoolOps
      <4>2. CASE s.of # r.of \/ r.op \notin PoolOps
        <5>1. pool'[s.of] = pool[s.of]
          BY <1>3, <4>1, <4>2 DEF CommandRows
        <5> QED BY <4>1, <5>1
      <4>3. CASE s.of = r.of /\ r.op \in PoolOps
        <5>1. r.mine = TRUE <=> pool[r.of] = None
          BY <1>0, <4>3 DEF Fits
        <5>2. ~ s.mine = TRUE
          BY <3>2, <4>1, <4>3, <5>1 DEF Apart
        <5>3. pool'[s.of] # None
          BY <1>3, <4>3
        <5> QED BY <5>2, <5>3
      <4> QED BY <4>2, <4>3
    <3>7. Fits(s)'
      BY <3>1, <3>3, <3>4, <3>5, <3>6 DEF Fits
    <3> QED BY <3>7
  <2> QED BY <2>1, <2>2
<1>9. ASSUME NEW q \in Workers, NEW s, s = command'[q], NEW ledger, ledger = booked'[s.of],
             Writer(s), ledger # None
      PROVE  Exact(s, ledger)'
  <2>1. q # p
    BY <1>1, <1>2, <1>9 DEF Writer
  <2>2. s \in CommandRows /\ s = command[q] /\ Fits(s)
    BY <1>2, <1>9, <2>1 DEF TreasuryInv, TreasuryTypes
  <2>3. s.of \in Owners /\ Writer(s)
    BY <1>9, <2>2 DEF Fits, Writer
  <2>4. Apart(r, s, booked[r.of])
    BY <2>1, <2>2 DEF TreasuryInv
  <2>5. booked'[s.of] = booked[s.of] /\ booked[s.of] # None
    <3>1. CASE s.of # r.of
      BY <1>3, <1>9, <2>2, <2>3, <3>1
    <3>2. CASE s.of = r.of
      <4>1. ~ Writer(r)
        BY <1>3, <1>9, <2>2, <2>3, <2>4, <3>2 DEF Apart
      <4>2. After(r, booked[r.of]) = booked[r.of]
        BY <4>1 DEF Writer, After, CommandRows
      <4> QED BY <1>3, <1>9, <2>2, <3>2, <4>2
    <3> QED BY <3>1, <3>2
  <2>6. Exact(s, booked[s.of])
    BY <2>2, <2>3, <2>5 DEF TreasuryInv
  <2>7. \A x \in Tre!OpenOf(s.of) : position'[x] = position[x]
    <3> SUFFICES ASSUME NEW x \in Tre!OpenOf(s.of), position'[x] # position[x] PROVE FALSE
      OBVIOUS
    <3>1. x \in Positions /\ position[x] # None /\ position[x].of = s.of
      BY DEF Tre!OpenOf
    <3>2. r.of = s.of /\ r.op \in {"open", "close", "fx"}
      BY <1>4, <3>1
    <3> QED BY <2>3, <2>4, <2>5, <3>2 DEF Apart, Writer
  <2>8. s.listed \subseteq Tre!OpenOf(s.of)'
    BY <2>6, <2>7 DEF Exact, Tre!OpenOf
  <2>9. Exact(s, ledger)
    BY <1>9, <2>5, <2>6
  <2> QED BY <2>8, <2>9 DEF Exact, After
<1>10. ASSUME NEW q \in Workers, NEW t \in Workers \ {q}
       PROVE  Apart(command'[q], command'[t], booked'[command'[q].of])
  <2>1. ~ Writer(i) /\ ~ i.mine = TRUE
    BY <1>1 DEF Writer, Fits, PoolOps
  <2>2. CASE q = p
    <3>1. command'[q] = i
      BY <1>2, <2>2
    <3> QED BY <1>1, <2>1, <3>1 DEF Apart
  <2>3. CASE t = p
    <3>1. command'[t] = i
      BY <1>2, <2>3
    <3> QED BY <1>1, <2>1, <3>1 DEF Apart
  <2>4. CASE q # p /\ t # p
    <3>1. command'[q] = command[q] /\ command'[t] = command[t]
      BY <1>2, <2>4
    <3>2. Apart(command[q], command[t], booked[command[q].of]) /\ Fits(command[q])
      BY DEF TreasuryInv
    <3>3. Writer(command[q]) => command[q].of \in Owners
      BY <3>2 DEF Fits, Writer
    <3>4. Writer(command[q]) /\ booked[command[q].of] = None => booked'[command[q].of] = None
      BY <1>3, <3>3
    <3> QED BY <3>1, <3>2, <3>4 DEF Apart
  <2> QED BY <2>2, <2>3, <2>4
<1>11. Tre!BooksBalance'
  <2> SUFFICES ASSUME NEW o \in Owners, booked'[o] # None
               PROVE  /\ booked'[o] = (IF pool'[o] = None THEN Tre!EmptyPool ELSE pool'[o]).balance
                      /\ \A x \in closed' : position'[x].of = o => position'[x].status = "CLOSED"
    BY DEF Tre!BooksBalance, Tre!EmptyPool
  <2>1. booked[o] # None
    BY <1>3
  <2>2. /\ booked[o] = (IF pool[o] = None THEN Tre!EmptyPool ELSE pool[o]).balance
        /\ \A x \in closed : position[x].of = o => position[x].status = "CLOSED"
    BY <2>1 DEF TreasuryInv, Tre!BooksBalance
  <2>3. booked'[o] = (IF pool'[o] = None THEN Tre!EmptyPool ELSE pool'[o]).balance
    <3>1. CASE o # r.of
      BY <1>3, <2>2, <3>1
    <3>2. CASE o = r.of /\ r.op \in {"open", "close"}
      <4>1. booked'[o] = booked[o] /\ pool' = pool
        BY <1>3, <2>1, <3>2 DEF After
      <4> QED BY <2>2, <4>1
    <3>3. CASE o = r.of /\ r.op = "dashboard"
      <4>1. booked'[o] = booked[o] /\ r.base = None /\ (r.mine = TRUE => r.new = Tre!EmptyPool)
        BY <1>0, <1>3, <2>1, <3>3 DEF After, Fits
      <4>2. pool'[o] = Tre!PoolAfter(r) /\ pool'[o] # None /\ (r.mine = TRUE <=> pool[o] = None)
        BY <1>0, <1>3, <3>3 DEF PoolOps, Fits
      <4>3. /\ r.mine = TRUE => Tre!PoolAfter(r) = r.new
            /\ r.mine = FALSE => Tre!PoolAfter(r) = pool[o]
        BY <1>0, <3>3, <4>1, PoolCommitted DEF PoolOps
      <4>4. r.mine \in BOOLEAN
        BY DEF CommandRows
      <4> QED BY <2>2, <4>1, <4>2, <4>3, <4>4
    <3>4. CASE o = r.of /\ r.op \in {"deposit", "withdraw", "fx"}
      <4>1. Writer(r) /\ r.op \in PoolOps
        BY <3>4 DEF Writer, PoolOps
      <4>2. Exact(r, booked[o])
        BY <1>0, <2>1, <3>4, <4>1
      <4>3. /\ r.new.balance = After(r, booked[o])
            /\ r.mine = FALSE => r.base.balance = booked[o]
        BY <4>1, <4>2 DEF Exact
      <4>4. /\ r.base # None /\ (r.mine = TRUE <=> pool[o] = None) /\ r.mine \in BOOLEAN
            /\ pool'[o] = Tre!PoolAfter(r) /\ pool'[o] # None
        BY <1>0, <1>3, <3>4, <4>1 DEF Fits, CommandRows
      <4>5. r.mine = TRUE => Tre!PoolAfter(r) = r.new
        BY <1>0, <3>4, <4>1, PoolCommitted
      <4>6. r.mine = FALSE => r.base.balance = pool[r.of].balance
        BY <2>2, <3>4, <4>3, <4>4
      <4>7. r.mine = FALSE => Tre!PoolAfter(r).balance = r.new.balance
        BY <1>0, <4>1, <4>4, <4>6, PoolCommitted
      <4> QED BY <1>3, <2>1, <3>4, <4>3, <4>4, <4>5, <4>7
    <3> QED BY <3>1, <3>2, <3>3, <3>4 DEF CommandRows, PoolOps
  <2>4. ASSUME NEW x \in closed', position'[x].of = o PROVE position'[x].status = "CLOSED"
    <3>1. x \in Positions
      BY <1>6
    <3>2. x \in closed \/ (r.op = "close" /\ x = r.cmd.pos)
      BY DEF Committed
    <3>3. x \in closed => position[x] # None
      BY <1>0 DEF TreasuryTypes
    <3>4. o = r.of /\ r.op = "fx" => r.reopened = {}
      BY <1>0, <2>1 DEF Exact, Writer
    <3>5. position[x] # None => position'[x].of = position[x].of
      BY <1>4, <3>1
    <3> QED BY <1>0, <2>2, <2>4, <3>1, <3>2, <3>3, <3>4, <3>5, PositionAfter
  <2> QED BY <2>3, <2>4
<1>12. ASSUME NEW q \in Workers PROVE Fits(command[q])'
  <2>1. PICK s : s = command'[q]
    OBVIOUS
  <2>2. Fits(s)'
    BY <1>8, <2>1
  <2> QED BY <2>1, <2>2 DEF Fits
<1>13. ASSUME NEW q \in Workers
       PROVE  (Writer(command[q]) /\ booked[command[q].of] # None
                 => Exact(command[q], booked[command[q].of]))'
  <2>1. PICK s, ledger : s = command'[q] /\ ledger = booked'[s.of]
    OBVIOUS
  <2>2. Writer(s) /\ ledger # None => Exact(s, ledger)'
    BY <1>9, <2>1
  <2> QED BY <2>1, <2>2 DEF Exact, After, Writer
<1>14. ASSUME NEW q \in Workers
       PROVE  (\A t \in Workers \ {q} : Apart(command[q], command[t], booked[command[q].of]))'
  BY <1>10 DEF Apart, Writer
<1> QED BY <1>7, <1>11, <1>12, <1>13, <1>14 DEF TreasuryInv

LEMMA EndStep ==
    ASSUME TreasuryInv, Tre!TreasuryAssumption, NEW p \in Workers, Tre!End(p)
    PROVE  TreasuryInv'
<1>1. command[p].op # "none" /\ command[p].pc = "end"
  BY DEF Tre!End
<1>2. PICK r \in CommandRows : r = command[p] /\ r.op # "none" /\ r.pc = "end"
  BY <1>1 DEF TreasuryInv, TreasuryTypes
<1>3. command' = [command EXCEPT ![p] = Tre!Idle]
  BY DEF Tre!End
<1>4. PICK end \in EndsOf :
         IF end = "rollback" THEN UNCHANGED <<pool, position, booked, closed>>
         ELSE Committed(r)
  BY <1>2, Zenon DEF Tre!End, Committed
<1>5. CASE end = "rollback"
  BY <1>3, <1>4, <1>5, GivesUp
<1>6. CASE end # "rollback"
  <2>1. Committed(r)
    BY <1>4, <1>6
  <2> QED BY <1>2, <1>3, <2>1, CommitStep
<1> QED BY <1>5, <1>6

LEMMA TreasuryNext ==
    ASSUME TreasuryInv, Tre!TreasuryAssumption, Tre!Next \/ UNCHANGED treasuryVars
    PROVE  TreasuryInv'
<1>1. CASE UNCHANGED treasuryVars
  <2>1. TreasuryTypes' /\ Tre!BooksBalance'
    BY <1>1 DEF treasuryVars, TreasuryInv, TreasuryTypes, Tre!BooksBalance, Tre!EmptyPool
  <2>2. ASSUME NEW p \in Workers PROVE TreasuryInv'
    <3>1. PICK r \in CommandRows : r = command[p]
      BY DEF TreasuryInv, TreasuryTypes
    <3>2. PICK b : b = booked
      OBVIOUS
    <3>3. command' = [command EXCEPT ![p] = r]
      BY <1>1, <3>1 DEF treasuryVars, TreasuryInv, TreasuryTypes
    <3>4. /\ UNCHANGED <<pool, position, closed>> /\ booked' = b
          /\ b \in [Owners -> {None} \cup [Currencies -> Int]]
          /\ \A e \in Owners : b[e] = booked[e] \/ b[e] = None
      BY <1>1, <3>2 DEF treasuryVars, TreasuryInv, TreasuryTypes
    <3>5. Fits(r) /\ (Writer(r) /\ b[r.of] # None => Exact(r, b[r.of]))
      BY <3>1, <3>2 DEF TreasuryInv
    <3>6. ASSUME NEW q \in Workers \ {p}
          PROVE  Apart(r, command[q], b[r.of]) /\ Apart(command[q], r, b[r.of])
      <4>1. /\ Apart(command[p], command[q], booked[command[p].of])
            /\ Apart(command[q], command[p], booked[command[q].of])
        BY DEF TreasuryInv
      <4> QED BY <3>1, <3>2, <4>1 DEF Apart
    <3> QED BY <3>3, <3>4, <3>5, <3>6, CopyStep
  <2> QED BY <2>1, <2>2 DEF TreasuryInv
<1>2. CASE Tre!Next
  <2>1. PICK p \in Workers :
           \/ Tre!CreatePool(p) \/ Tre!Change(p) \/ Tre!Reselect(p) \/ Tre!ListOpen(p)
           \/ Tre!ReselectPositions(p) \/ Tre!End(p) \/ Tre!Die(p)
           \/ \E e \in Owners : Tre!Begin(p, e)
    BY <1>2 DEF Tre!Next
  <2>2. CASE Tre!CreatePool(p)
    BY <2>2, CreateStep
  <2>3. CASE Tre!Change(p)
    BY <2>3, ChangeStep
  <2>4. CASE Tre!Reselect(p)
    BY <2>4, ReselectStep
  <2>5. CASE Tre!ListOpen(p)
    BY <2>5, ListOpenStep
  <2>6. CASE Tre!ReselectPositions(p)
    BY <2>6, ReopenStep
  <2>7. CASE Tre!End(p)
    BY <2>7, EndStep
  <2>8. CASE Tre!Die(p)
    BY <2>8, GivesUp DEF Tre!Die
  <2>9. CASE \E e \in Owners : Tre!Begin(p, e)
    BY <2>9, BeginStep
  <2> QED BY <2>1, <2>2, <2>3, <2>4, <2>5, <2>6, <2>7, <2>8, <2>9
<1> QED BY <1>1, <1>2

LEMMA TreasuryInit ==
    ASSUME Tre!Init
    PROVE  TreasuryInv
<1>1. PICK i \in CommandRows : /\ i = Tre!Idle /\ i.op = "none" /\ i.mine = FALSE /\ Fits(i)
  BY IdleCommand DEF Tre!Idle
<1>2. command \in [Workers -> CommandRows] /\ \A p \in Workers : command[p] = i
  BY <1>1 DEF Tre!Init
<1>3. TreasuryTypes
  BY <1>2 DEF Tre!Init, TreasuryTypes
<1>4. ~ Writer(i)
  BY <1>1 DEF Writer
<1>5. \A p, q \in Workers : Apart(command[p], command[q], booked[command[p].of])
  BY <1>1, <1>2, <1>4 DEF Apart
<1>6. Tre!BooksBalance
  BY DEF Tre!Init, Tre!BooksBalance, Tre!EmptyPool
<1> QED BY <1>1, <1>2, <1>3, <1>4, <1>5, <1>6 DEF TreasuryInv

\* What every step of the treasury preserves.
THEOREM TreasuryInvariant == MCSpec => []TreasuryInv
<1>1. MCInit => TreasuryInv
  BY OwnInit, TreasuryInit, ServicesAssumption
<1>2. TreasuryInv /\ [MCNext]_<<focus, vars, accountVars, treasuryVars, priceVars,
         memoryVars, streamVars, sessionVars, anchoringVars, breakerVars, profileVars>>
         => TreasuryInv'
  BY OwnNext, TreasuryNext, ServicesAssumption
<1> QED BY <1>1, <1>2, PTL DEF MCSpec
\* Each balance is what the committed deposits and withdrawals add up to, and a
\* closed position stays closed, for any number of requests, as long as no two
\* commands of the enterprise overlap.
THEOREM BooksStayBalanced == MCSpec => []BooksBalance
<1>1. TreasuryInv => BooksBalance
  BY DEF TreasuryInv, BooksBalance
<1> QED BY <1>1, TreasuryInvariant, PTL

\* m divisors fit where the quotient is m at least.
LEMMA QuotientIs ==
    ASSUME NEW n \in Nat, NEW k \in Nat, k > 0
    PROVE  n \div k \in Nat /\ \A m \in Nat : m <= n \div k <=> m * k <= n
<1>1. PICK q : q = n \div k
  OBVIOUS
<1>2. q \in Int /\ q * k <= n /\ n < (q + 1) * k
  BY <1>1, Z3
<1>3. q >= 0
  <2> SUFFICES ASSUME q + 1 <= 0 PROVE FALSE
    BY <1>2
  <2>1. (q + 1) * k <= 0
    BY <1>2, Z3
  <2> QED BY <1>2, <2>1
<1>4. ASSUME NEW m \in Nat, m <= q PROVE m * k <= n
  <2>1. m * k <= q * k
    BY <1>2, <1>4, Z3
  <2> QED BY <1>2, <2>1
<1>5. ASSUME NEW m \in Nat, m * k <= n PROVE m <= q
  <2> SUFFICES ASSUME m >= q + 1 PROVE FALSE
    BY <1>2
  <2>1. m * k >= (q + 1) * k
    BY <1>2, Z3
  <2> QED BY <1>2, <1>5, <2>1
<1> QED BY <1>1, <1>2, <1>3, <1>4, <1>5

\* What is left when the burn has been taken on d days.
Left(b, k, d) == IF d * k <= b THEN b - d * k ELSE 0

LEMMA ProjectedIs ==
    ASSUME NEW b \in Nat, NEW k \in Nat, ForecastDays \in Nat, NEW d \in 0 .. ForecastDays
    PROVE  Tre!Projected(b, k)[d] = Left(b, k, d)
<1> DEFINE next(x) == IF x > k THEN x - k ELSE 0
           is(f) == f = [i \in 0 .. ForecastDays |-> IF i = 0 THEN b ELSE next(f[i - 1])]
           closedForm == [i \in 0 .. ForecastDays |-> Left(b, k, i)]
<1>1. ASSUME NEW i \in Nat
      PROVE  /\ Left(b, k, i) \in Nat /\ Left(b, k, 0) = b
             /\ i > 0 => Left(b, k, i) = next(Left(b, k, i - 1))
  <2>1. i * k \in Nat /\ (i - 1) * k = i * k - k
    BY Z3
  <2>2. 0 * k = 0
    BY Z3
  <2> QED BY <2>1, <2>2 DEF Left
<1>2. is(closedForm)
  <2>1. ASSUME NEW i \in 0 .. ForecastDays
        PROVE  closedForm[i] = IF i = 0 THEN b ELSE next(closedForm[i - 1])
    <3>1. i \in Nat /\ closedForm[i] = Left(b, k, i) /\ (i # 0 => closedForm[i - 1] = Left(b, k, i - 1))
      OBVIOUS
    <3>2. Left(b, k, 0) = b /\ (i > 0 => Left(b, k, i) = next(Left(b, k, i - 1)))
      BY <1>1, <3>1
    <3> HIDE DEF next, closedForm
    <3> QED BY <3>1, <3>2
  <2> HIDE DEF next
  <2>2. closedForm = [i \in 0 .. ForecastDays |-> closedForm[i]]
    OBVIOUS
  <2> HIDE DEF closedForm
  <2> QED BY <2>1, <2>2
<1>3. PICK f : f = Tre!Projected(b, k) /\ is(f)
  <2>1. Tre!Projected(b, k) = CHOOSE f : is(f)
    BY DEF Tre!Projected
  <2> QED BY <1>2, <2>1
<1>4. f[d] = Left(b, k, d)
  <2> DEFINE wrong(i) == i \in 0 .. ForecastDays /\ f[i] # Left(b, k, i)
  <2> SUFFICES ASSUME wrong(d) PROVE FALSE
    OBVIOUS
  <2>1. PICK i \in Nat : wrong(i) /\ \A j \in 0 .. ForecastDays : wrong(j) => i <= j
    <3> DEFINE T == {j \in 0 .. ForecastDays : f[j] # Left(b, k, j)}
    <3>1. T \subseteq Nat /\ T # {}
      OBVIOUS
    <3>2. PICK i \in T : \A j \in T : i <= j
      <4> HIDE DEF T
      <4> QED BY <3>1, LeastOf
    <3> QED BY <3>2
  <2>2. f[i] = IF i = 0 THEN b ELSE next(f[i - 1])
    BY <1>3, <2>1
  <2>3. CASE i = 0
    BY <1>1, <2>1, <2>2, <2>3
  <2>4. CASE i # 0
    BY <1>1, <2>1, <2>2, <2>4
  <2> QED BY <2>3, <2>4
<1> QED BY <1>3, <1>4

\* The runway of a balance that some burn uses up agrees with what is left.
LEMMA RunwayIs ==
    ASSUME Tre!TreasuryAssumption, NEW b \in Nat, NEW k \in Nat, b + k > 0,
           k = 0 => b < 50
    PROVE  /\ Tre!Runway(b, k) \in Nat
           /\ \A d \in 1 .. ForecastDays : Left(b, k, d) >= k => d < Tre!Runway(b, k)
           /\ \A d \in 0 .. ForecastDays - 1 :
                 d < Tre!Runway(b, k) <=> Left(b, k, d) - Left(b, k, d + 1) = k
           /\ Tre!Runway(b, k) < 7 <=> Left(b, k, 6) < k
<1>0. ForecastDays \in 0 .. 998
  BY DEF Tre!TreasuryAssumption
<1>1. CASE k = 0
  <2>1. Tre!Runway(b, k) = 999
    BY <1>1 DEF Tre!Runway
  <2>2. \A d \in Nat : Left(b, k, d) = b
    <3>1. \A d \in Nat : d * 0 = 0
      OBVIOUS
    <3> QED BY <1>1, <3>1 DEF Left
  <2> QED BY <1>0, <1>1, <2>1, <2>2
<1>2. CASE k > 0
  <2>1. PICK q \in Nat : q = Tre!Runway(b, k) /\ \A m \in Nat : m <= q <=> m * k <= b
    BY <1>2, QuotientIs DEF Tre!Runway
  <2>2. ASSUME NEW d \in Nat
        PROVE  /\ Left(b, k, d) >= k <=> d < q
               /\ d < q <=> Left(b, k, d) - Left(b, k, d + 1) = k
    <3>1. PICK x \in Nat : x = d * k
      BY Z3
    <3>2. (d + 1) * k = x + k
      BY <3>1, Z3
    <3>3. (d <= q <=> x <= b) /\ (d + 1 <= q <=> x + k <= b)
      BY <2>1, <3>1, <3>2
    <3>4. Left(b, k, d) = (IF x <= b THEN b - x ELSE 0)
          /\ Left(b, k, d + 1) = IF x + k <= b THEN b - (x + k) ELSE 0
      BY <3>1, <3>2 DEF Left
    <3>5. d < q <=> x + k <= b
      BY <3>3
    <3> QED BY <1>2, <3>4, <3>5
  <2>3. Left(b, k, 6) \in Nat
    BY Z3 DEF Left
  <2>4. (Left(b, k, 6) >= k <=> 6 < q)
    BY <2>2
  <2> QED BY <1>0, <2>1, <2>2, <2>3, <2>4
<1> QED BY <1>1, <1>2

LEMMA RunwaysMatch ==
    ASSUME TreasuryTypes, Tre!TreasuryAssumption
    PROVE  Tre!RunwayMatchesForecast
<1> SUFFICES ASSUME NEW e \in Owners, NEW c \in Currencies, NEW history \in Burns
             PROVE  LET balance == IF pool[e] = None THEN 0 ELSE pool[e].balance[c]
                        burn == Tre!DailyBurn(balance, history)
                        left == Tre!Projected(balance, burn)
                        runway == Tre!Runway(balance, burn)
                    IN  balance + history > 0 =>
                          /\ \A d \in 1 .. ForecastDays : left[d] >= burn => d < runway
                          /\ \A d \in 0 .. ForecastDays - 1 :
                                d < runway <=> left[d] - left[d + 1] = burn
                          /\ ForecastDays >= 7 =>
                                (Tre!Alert(balance, burn) = "CRITICAL" <=> left[6] < burn)
  BY DEF Tre!RunwayMatchesForecast
<1> PICK b : b = IF pool[e] = None THEN 0 ELSE pool[e].balance[c]
  OBVIOUS
<1> PICK k : k = Tre!DailyBurn(b, history)
  OBVIOUS
<1> SUFFICES ASSUME b + history > 0
             PROVE  /\ \A d \in 1 .. ForecastDays :
                          Tre!Projected(b, k)[d] >= k => d < Tre!Runway(b, k)
                    /\ \A d \in 0 .. ForecastDays - 1 :
                          d < Tre!Runway(b, k) <=>
                             Tre!Projected(b, k)[d] - Tre!Projected(b, k)[d + 1] = k
                    /\ ForecastDays >= 7 =>
                          (Tre!Alert(b, k) = "CRITICAL" <=> Tre!Projected(b, k)[6] < k)
  OBVIOUS
<1>1. b \in Nat /\ history \in Nat /\ ForecastDays \in Nat
  BY DEF TreasuryTypes, Tre!PoolRow, Tre!TreasuryAssumption
<1>2. k \in Nat /\ b + k > 0 /\ (k = 0 => b < 50)
  <2>1. CASE history > 0
    BY <1>1, <2>1 DEF Tre!DailyBurn
  <2>2. CASE history = 0
    <3>1. k = b \div 50 /\ b > 0
      BY <1>1, <2>2 DEF Tre!DailyBurn
    <3> QED BY <1>1, <3>1
  <2> QED BY <1>1, <2>1, <2>2
<1>3. \A d \in 0 .. ForecastDays : Tre!Projected(b, k)[d] = Left(b, k, d)
  BY <1>1, <1>2, ProjectedIs
<1>4. /\ Tre!Runway(b, k) \in Nat
      /\ \A d \in 1 .. ForecastDays : Left(b, k, d) >= k => d < Tre!Runway(b, k)
      /\ \A d \in 0 .. ForecastDays - 1 :
            d < Tre!Runway(b, k) <=> Left(b, k, d) - Left(b, k, d + 1) = k
      /\ Tre!Runway(b, k) < 7 <=> Left(b, k, 6) < k
  BY <1>1, <1>2, RunwayIs
<1>5. Tre!Alert(b, k) = "CRITICAL" <=> Tre!Runway(b, k) < 7
  <2>1. Tre!Runway(b, k) \in 7 .. 13 => ~ (Tre!Runway(b, k) < 7)
    BY <1>4
  <2>2. "WARNING" # "CRITICAL" /\ "none" # "CRITICAL"
    OBVIOUS
  <2>3. CASE Tre!Runway(b, k) < 7
    <3>1. Tre!Runway(b, k) \notin 7 .. 13
      BY <2>1, <2>3
    <3> QED BY <2>3, <3>1, Zenon DEF Tre!Alert
  <2>4. CASE ~ (Tre!Runway(b, k) < 7)
    <3>1. Tre!Alert(b, k) = "WARNING" \/ Tre!Alert(b, k) = "none"
      BY <2>4, Zenon DEF Tre!Alert
    <3> QED BY <2>2, <2>4, <3>1
  <2> QED BY <2>3, <2>4
<1>6. \A d \in 0 .. ForecastDays - 1 : d \in 0 .. ForecastDays /\ d + 1 \in 0 .. ForecastDays
  BY <1>1
<1>7. \A d \in 1 .. ForecastDays : d \in 0 .. ForecastDays
  BY <1>1
<1>8. ForecastDays >= 7 => 6 \in 0 .. ForecastDays
  BY <1>1
<1>9. /\ \A d \in 1 .. ForecastDays : Tre!Projected(b, k)[d] >= k => d < Tre!Runway(b, k)
      /\ \A d \in 0 .. ForecastDays - 1 :
            d < Tre!Runway(b, k) <=> Tre!Projected(b, k)[d] - Tre!Projected(b, k)[d + 1] = k
  BY <1>3, <1>4, <1>6, <1>7
<1> QED BY <1>3, <1>4, <1>5, <1>8, <1>9

\* The runway and the alert of a forecast agree with the balances it projects day
\* by day, for every balance the pools can have, every history and horizon.
THEOREM RunwaysDoMatch == MCSpec => []RunwayMatchesForecast
<1>1. TreasuryInv => RunwayMatchesForecast
  BY RunwaysMatch, ServicesAssumption DEF TreasuryInv, RunwayMatchesForecast
<1> QED BY <1>1, TreasuryInvariant, PTL

----------------------------------------------------------------------------
(* Anchoring: hashes. *)

Hashes == Seq(Nat)

\* The hash of a pair, and its length (hash_pair).
LEMMA PairIs ==
    ASSUME NEW a \in Hashes, NEW b \in Hashes
    PROVE  /\ Anc!HashPair(a, b) \in Hashes
           /\ Len(Anc!HashPair(a, b)) = Len(a) + Len(b) + 1
           /\ Anc!HashPair(a, b) \in {<<0>> \o (a \o b), <<0>> \o (b \o a)}
<1>1. Anc!HashPair(a, b) \in {<<0>> \o (a \o b), <<0>> \o (b \o a)}
  BY DEF Anc!HashPair
<1>2. <<0>> \in Hashes /\ Len(<<0>>) = 1
  BY DEF Hashes
<1>3. a \o b \in Hashes /\ b \o a \in Hashes
      /\ Len(a \o b) = Len(a) + Len(b) /\ Len(b \o a) = Len(a) + Len(b)
      /\ Len(a) \in Nat /\ Len(b) \in Nat
  BY DEF Hashes
<1>4. ASSUME NEW s \in Hashes PROVE <<0>> \o s \in Hashes /\ Len(<<0>> \o s) = Len(s) + 1
  BY <1>2, ConcatProperties DEF Hashes
<1> QED BY <1>1, <1>3, <1>4

\* The hash of a pair has the numbers of both and a zero.
LEMMA PairValues ==
    ASSUME NEW a \in Hashes, NEW b \in Hashes
    PROVE  Range(Anc!HashPair(a, b)) = {0} \cup Range(a) \cup Range(b)
<1>1. <<0>> \in Hashes /\ Range(<<0>>) = {0}
  BY DEF Hashes, Range
<1>2. Range(a \o b) = Range(a) \cup Range(b) /\ Range(b \o a) = Range(a) \cup Range(b)
  BY RangeConcatenation DEF Hashes
<1>3. ASSUME NEW s \in Hashes PROVE Range(<<0>> \o s) = {0} \cup Range(s)
  <2>1. PICK z \in Hashes : z = <<0>> /\ Range(z) = {0}
    BY <1>1
  <2>2. Range(z \o s) = Range(z) \cup Range(s)
    BY RangeConcatenation DEF Hashes
  <2> QED BY <2>1, <2>2
<1>4. a \o b \in Hashes /\ b \o a \in Hashes
  BY DEF Hashes
<1>5. CASE Anc!HashPair(a, b) = <<0>> \o (a \o b)
  BY <1>2, <1>3, <1>4, <1>5
<1>6. CASE Anc!HashPair(a, b) = <<0>> \o (b \o a)
  BY <1>2, <1>3, <1>4, <1>6
<1> QED BY <1>5, <1>6, PairIs

\* Equal concatenations of sequences of one length have equal parts.
LEMMA PartsAre ==
    ASSUME NEW a \in Hashes, NEW b \in Hashes, NEW c \in Hashes, NEW d \in Hashes,
           Len(a) = Len(c), a \o b = c \o d
    PROVE  a = c /\ b = d
<1>1. Len(a) \in Nat /\ Len(b) \in Nat /\ Len(d) \in Nat
  BY DEF Hashes
<1>2. Len(b) = Len(d)
  <2>1. Len(a \o b) = Len(a) + Len(b) /\ Len(c \o d) = Len(c) + Len(d)
    BY ConcatProperties DEF Hashes
  <2> QED BY <1>1, <2>1
<1>3. \A i \in 1 .. Len(a) + Len(b) :
          /\ (a \o b)[i] = IF i <= Len(a) THEN a[i] ELSE b[i - Len(a)]
          /\ (c \o d)[i] = IF i <= Len(a) THEN c[i] ELSE d[i - Len(a)]
  <2>1. \A i \in 1 .. Len(a) + Len(b) :
            (a \o b)[i] = IF i <= Len(a) THEN a[i] ELSE b[i - Len(a)]
    BY ConcatProperties DEF Hashes
  <2>2. \A i \in 1 .. Len(c) + Len(d) :
            (c \o d)[i] = IF i <= Len(c) THEN c[i] ELSE d[i - Len(c)]
    BY ConcatProperties DEF Hashes
  <2> QED BY <1>2, <2>1, <2>2
<1>4. \A i \in 1 .. Len(a) : a[i] = c[i]
  BY <1>1, <1>3
<1>5. ASSUME NEW i \in 1 .. Len(b) PROVE b[i] = d[i]
  <2>1. Len(a) + i \in 1 .. Len(a) + Len(b) /\ ~ (Len(a) + i <= Len(a)) /\ Len(a) + i - Len(a) = i
    BY <1>1
  <2>2. (a \o b)[Len(a) + i] = b[i] /\ (c \o d)[Len(a) + i] = d[i]
    BY <1>3, <2>1
  <2> QED BY <2>2
<1>6. a = c
  BY <1>4, SeqEqual DEF Hashes
<1>7. b = d
  BY <1>2, <1>5, SeqEqual DEF Hashes
<1> QED BY <1>6, <1>7

\* Two hashes of one length give different hashes with a third of that length.
LEMMA PairsDiffer ==
    ASSUME NEW a \in Hashes, NEW b \in Hashes, NEW s \in Hashes,
           Len(a) = Len(b), Len(s) = Len(b), a # b
    PROVE  /\ Anc!HashPair(a, s) # Anc!HashPair(b, s)
           /\ Anc!HashPair(s, a) # Anc!HashPair(s, b)
<1>1. ASSUME NEW c \in Hashes, NEW d \in Hashes, << 0 >> \o c = << 0 >> \o d PROVE c = d
  <2>1. <<0>> \in Hashes
    BY DEF Hashes
  <2> QED BY <1>1, <2>1, PartsAre
<1>2. a \o s \in Hashes /\ s \o a \in Hashes /\ b \o s \in Hashes /\ s \o b \in Hashes
  BY DEF Hashes
<1>3. a \o s # b \o s /\ s \o a # s \o b
  BY PartsAre
<1>4. a \o s # s \o b /\ s \o a # b \o s
  BY PartsAre
<1>5. /\ Anc!HashPair(a, s) \in {<<0>> \o (a \o s), <<0>> \o (s \o a)}
      /\ Anc!HashPair(b, s) \in {<<0>> \o (b \o s), <<0>> \o (s \o b)}
      /\ Anc!HashPair(s, a) \in {<<0>> \o (a \o s), <<0>> \o (s \o a)}
      /\ Anc!HashPair(s, b) \in {<<0>> \o (b \o s), <<0>> \o (s \o b)}
  BY PairIs
<1>6. ASSUME NEW p, NEW q, NEW c \in {a \o s, s \o a}, NEW d \in {b \o s, s \o b},
             p = << 0 >> \o c, q = << 0 >> \o d
      PROVE  p # q
  <2>1. c \in Hashes /\ d \in Hashes /\ c # d
    BY <1>2, <1>3, <1>4
  <2> QED BY <1>1, <1>6, <2>1
<1>7. /\ \E c \in {a \o s, s \o a} : Anc!HashPair(a, s) = <<0>> \o c
      /\ \E d \in {b \o s, s \o b} : Anc!HashPair(b, s) = <<0>> \o d
      /\ \E c \in {a \o s, s \o a} : Anc!HashPair(s, a) = <<0>> \o c
      /\ \E d \in {b \o s, s \o b} : Anc!HashPair(s, b) = <<0>> \o d
  BY <1>5
<1> QED BY <1>6, <1>7, Zenon

----------------------------------------------------------------------------
(* Anchoring: one layer. *)

\* A layer has as many pairs as half its nodes, rounded up.
Pairs(layer) == (Len(layer) + 1) \div 2

\* A layer is padded to pairs, by its last node (MerkleService._next_layer).
LEMMA PaddedIs ==
    ASSUME NEW layer \in Seq(Hashes), layer # <<>>
    PROVE  /\ Anc!Padded(layer) \in Seq(Hashes)
           /\ Pairs(layer) \in Nat /\ Pairs(layer) > 0 /\ Len(layer) \in Nat /\ Len(layer) > 0
           /\ 2 * Pairs(layer) \in {Len(layer), Len(layer) + 1}
           /\ Len(Anc!Padded(layer)) = 2 * Pairs(layer)
           /\ \A k \in 1 .. 2 * Pairs(layer) :
                 Anc!Padded(layer)[k] = IF k <= Len(layer) THEN layer[k] ELSE layer[Len(layer)]
<1>1. Len(layer) \in Nat /\ Len(layer) > 0 /\ layer[Len(layer)] \in Hashes
  BY LenProperties, EmptySeq
<1>2. PICK n \in Nat : n = Len(layer)
  BY <1>1
<1>3. (n + 1) \div 2 \in Nat /\ n % 2 \in {0, 1}
      /\ 2 * ((n + 1) \div 2) = IF n % 2 = 1 THEN n + 1 ELSE n
  BY Z3
<1>4. CASE n % 2 = 1
  <2>1. Anc!Padded(layer) = Append(layer, layer[n])
    BY <1>2, <1>4 DEF Anc!Padded, Anc!Last
  <2>2. \A k \in 1 .. n + 1 : Append(layer, layer[n])[k] = IF k <= n THEN layer[k] ELSE layer[n]
    BY <1>1, <1>2, AppendProperties
  <2>3. Append(layer, layer[n]) \in Seq(Hashes) /\ Len(Append(layer, layer[n])) = n + 1
    BY <1>1, <1>2, AppendProperties
  <2>4. Pairs(layer) = (n + 1) \div 2 /\ 2 * Pairs(layer) = n + 1
    BY <1>2, <1>3, <1>4 DEF Pairs
  <2> QED BY <1>1, <1>2, <1>3, <2>1, <2>2, <2>3, <2>4
<1>5. CASE n % 2 # 1
  <2>1. Anc!Padded(layer) = layer
    BY <1>2, <1>5 DEF Anc!Padded
  <2>4. Pairs(layer) = (n + 1) \div 2 /\ 2 * Pairs(layer) = n
    BY <1>2, <1>3, <1>5 DEF Pairs
  <2> QED BY <1>1, <1>2, <1>3, <2>1, <2>4
<1> QED BY <1>4, <1>5

\* The pair above a node.
LEMMA NextLayerIs ==
    ASSUME NEW layer \in Seq(Hashes), layer # <<>>
    PROVE  /\ Anc!NextLayer(layer) \in Seq(Hashes)
           /\ Len(Anc!NextLayer(layer)) = Pairs(layer)
           /\ \A i \in 1 .. Pairs(layer) :
                 /\ 2 * i - 1 \in 1 .. 2 * Pairs(layer) /\ 2 * i \in 1 .. 2 * Pairs(layer)
                 /\ Anc!NextLayer(layer)[i] =
                       Anc!HashPair(Anc!Padded(layer)[2 * i - 1], Anc!Padded(layer)[2 * i])
<1> DEFINE even == Anc!Padded(layer)
           pair(i) == Anc!HashPair(even[2 * i - 1], even[2 * i])
<1>1. /\ even \in Seq(Hashes) /\ Pairs(layer) \in Nat /\ Len(even) = 2 * Pairs(layer)
      /\ (2 * Pairs(layer)) \div 2 = Pairs(layer)
  BY PaddedIs
<1>2. Anc!NextLayer(layer) = [i \in 1 .. Pairs(layer) |-> pair(i)]
  BY <1>1 DEF Anc!NextLayer
<1>3. ASSUME NEW i \in 1 .. Pairs(layer)
      PROVE  /\ 2 * i - 1 \in 1 .. 2 * Pairs(layer) /\ 2 * i \in 1 .. 2 * Pairs(layer)
             /\ pair(i) \in Hashes
  <2>1. 2 * i - 1 \in 1 .. 2 * Pairs(layer) /\ 2 * i \in 1 .. 2 * Pairs(layer)
    BY <1>1
  <2>2. even[2 * i - 1] \in Hashes /\ even[2 * i] \in Hashes
    <3> HIDE DEF even
    <3> QED BY <1>1, <2>1, ElementOfSeq
  <2> HIDE DEF even
  <2> QED BY <2>1, <2>2, PairIs
<1> HIDE DEF pair
<1>4. [i \in 1 .. Pairs(layer) |-> pair(i)] \in Seq(Hashes)
  <2>1. PICK g : g = [i \in 1 .. Pairs(layer) |-> pair(i)]
    OBVIOUS
  <2>2. g \in [1 .. Pairs(layer) -> Hashes]
    BY <1>3, <2>1
  <2>3. g \in Seq(Hashes)
    BY <1>1, <2>2
  <2> QED BY <2>1, <2>3, Zenon
<1>5. \A i \in 1 .. Pairs(layer) : Anc!NextLayer(layer)[i] = pair(i)
  BY <1>2
<1>6. Len(Anc!NextLayer(layer)) = Pairs(layer)
  BY <1>1, <1>2
<1> QED BY <1>2, <1>3, <1>4, <1>5, <1>6 DEF pair

\* A layer of more than one node is followed by a shorter one.
LEMMA NextLayerShrinks ==
    ASSUME NEW layer \in Seq(Hashes), layer # <<>>
    PROVE  /\ Anc!NextLayer(layer) # <<>>
           /\ Len(layer) # 1 => Len(Anc!NextLayer(layer)) < Len(layer)
           /\ Len(layer) = 1 => Len(Anc!NextLayer(layer)) = 1
<1>1. Len(Anc!NextLayer(layer)) = Pairs(layer)
  BY NextLayerIs
<1>2. /\ Pairs(layer) \in Nat /\ Pairs(layer) > 0 /\ Len(layer) \in Nat /\ Len(layer) > 0
      /\ 2 * Pairs(layer) \in {Len(layer), Len(layer) + 1}
  BY PaddedIs
<1>3. Anc!NextLayer(layer) # <<>>
  <2>1. Len(Anc!NextLayer(layer)) > 0
    BY <1>1, <1>2
  <2>2. Len(<<>>) = 0
    OBVIOUS
  <2> QED BY <2>1, <2>2, Zenon, Z3
<1>4. Len(layer) # 1 => Pairs(layer) < Len(layer)
  <2>1. PICK m \in Nat, n \in Nat : m = Pairs(layer) /\ n = Len(layer)
    BY <1>2
  <2>2. n > 0 /\ (2 * m = n \/ 2 * m = n + 1)
    BY <1>2, <2>1
  <2>3. n # 1 => m < n
    BY <2>2
  <2> QED BY <2>1, <2>3
<1>5. Len(layer) = 1 => Pairs(layer) = 1
  BY <1>2
<1> QED BY <1>1, <1>3, <1>4, <1>5

\* The numbers in the hashes of a layer.
NodeValues(layer) == UNION {Range(layer[i]) : i \in 1 .. Len(layer)}

\* The layer above has the same numbers, and zero.
LEMMA NextLayerValues ==
    ASSUME NEW layer \in Seq(Hashes), layer # <<>>
    PROVE  NodeValues(Anc!NextLayer(layer)) = {0} \cup NodeValues(layer)
<1> DEFINE even == Anc!Padded(layer)
           above == Anc!NextLayer(layer)
           m == Pairs(layer)
           n == Len(layer)
<1>1. /\ even \in Seq(Hashes) /\ m \in Nat /\ m > 0 /\ n \in Nat /\ n > 0
      /\ 2 * m \in {n, n + 1} /\ Len(even) = 2 * m
      /\ \A k \in 1 .. 2 * m : even[k] = IF k <= n THEN layer[k] ELSE layer[n]
  BY PaddedIs
<1>2. /\ Len(above) = m
      /\ \A i \in 1 .. m : /\ 2 * i - 1 \in 1 .. 2 * m /\ 2 * i \in 1 .. 2 * m
                           /\ above[i] = Anc!HashPair(even[2 * i - 1], even[2 * i])
  BY NextLayerIs
<1> HIDE DEF even, above, m, n
<1>3. \A i \in 1 .. m : Range(above[i]) = {0} \cup Range(even[2 * i - 1]) \cup Range(even[2 * i])
  <2>1. \A k \in 1 .. 2 * m : even[k] \in Hashes
    BY <1>1, ElementOfSeq
  <2>2. ASSUME NEW i \in 1 .. m
        PROVE  Range(above[i]) = {0} \cup Range(even[2 * i - 1]) \cup Range(even[2 * i])
    <3>1. even[2 * i - 1] \in Hashes /\ even[2 * i] \in Hashes
      BY <1>2, <2>1
    <3>2. above[i] = Anc!HashPair(even[2 * i - 1], even[2 * i])
      BY <1>2
    <3> QED BY <3>1, <3>2, PairValues
  <2> QED BY <2>2
<1>4. ASSUME NEW x \in NodeValues(above) PROVE x \in {0} \cup NodeValues(layer)
  <2>1. PICK i \in 1 .. m : x \in Range(above[i])
    BY <1>2 DEF NodeValues
  <2>2. SUFFICES ASSUME x # 0 PROVE x \in NodeValues(layer)
    OBVIOUS
  <2>3. PICK k \in 1 .. 2 * m : x \in Range(even[k])
    BY <1>2, <1>3, <2>1, <2>2
  <2>4. PICK j \in 1 .. n : even[k] = layer[j]
    BY <1>1
  <2>5. x \in Range(layer[j])
    BY <2>3, <2>4
  <2> QED BY <2>5 DEF NodeValues, n
<1>5. 0 \in NodeValues(above)
  <2>1. 1 \in 1 .. m
    BY <1>1
  <2>2. 0 \in Range(above[1])
    BY <1>3, <2>1
  <2> QED BY <1>2, <2>1, <2>2 DEF NodeValues
<1>6. ASSUME NEW x \in NodeValues(layer) PROVE x \in NodeValues(above)
  <2>1. PICK k \in 1 .. n : x \in Range(layer[k])
    BY DEF NodeValues, n
  <2>2. k \in 1 .. 2 * m /\ even[k] = layer[k]
    BY <1>1
  <2>3. PICK i \in 1 .. m : k = 2 * i - 1 \/ k = 2 * i
    <3>1. (k + 1) \div 2 \in 1 .. m /\ (k = 2 * ((k + 1) \div 2) - 1 \/ k = 2 * ((k + 1) \div 2))
      BY <1>1, <2>2, Z3
    <3> QED BY <3>1
  <2>4. x \in Range(above[i])
    BY <1>3, <2>1, <2>2, <2>3
  <2> QED BY <1>2, <2>4 DEF NodeValues
<1> QED BY <1>4, <1>5, <1>6 DEF above

----------------------------------------------------------------------------
(* Anchoring: the tree. *)

Layer == Seq(Hashes) \ {<<>>}

\* The layers are what NextLayer makes of the leaves, one after another.
LEMMA LayersAre ==
    ASSUME NEW entries \in Seq(Nat), entries # <<>>
    PROVE  /\ Len(entries) \in Nat /\ Len(entries) > 0
           /\ Anc!Layers(entries) \in [0 .. Len(entries) -> Layer]
           /\ Anc!Layers(entries)[0] = [i \in DOMAIN entries |-> <<entries[i]>>]
           /\ \A h \in 1 .. Len(entries) :
                 Anc!Layers(entries)[h] = Anc!NextLayer(Anc!Layers(entries)[h - 1])
<1> DEFINE leaves == [i \in DOMAIN entries |-> <<entries[i]>>]
           n == Len(entries)
           is(g) == g = [h \in 0 .. n |-> IF h = 0 THEN leaves ELSE Anc!NextLayer(g[h - 1])]
           f == [i \in 1 .. n |-> [l \in Layer |-> Anc!NextLayer(l)]]
<1>1. n \in Nat /\ n > 0 /\ DOMAIN entries = 1 .. n
  BY LenProperties, EmptySeq
<1>2. leaves \in Layer
  <2>1. \A i \in 1 .. n : <<entries[i]>> \in Hashes
    BY <1>1, ElementOfSeq DEF Hashes
  <2>2. PICK g : g = leaves
    OBVIOUS
  <2>3. g \in [1 .. n -> Hashes]
    BY <1>1, <2>1, <2>2
  <2>4. g \in Seq(Hashes) /\ Len(g) = n
    BY <1>1, <2>3
  <2>5. g # <<>>
    BY <1>1, <2>4, EmptySeq
  <2> QED BY <2>2, <2>4, <2>5, Zenon DEF Layer
<1>3. ASSUME NEW l \in Layer PROVE Anc!NextLayer(l) \in Layer
  BY NextLayerIs, NextLayerShrinks DEF Layer
<1>4. f \in [1 .. n -> [Layer -> Layer]]
  BY <1>3
<1>5. PICK g \in [0 .. n -> Layer] : Iterates(f, leaves, n, g)
  <2> HIDE DEF leaves, f, n
  <2> QED BY <1>1, <1>2, <1>4, LoopRuns
<1> HIDE DEF leaves, n
<1>6. ASSUME NEW h \in 0 .. n, h # 0 PROVE h \in 1 .. n /\ h - 1 \in 0 .. n
  BY <1>1, <1>6
<1>7. is(g)
  <2>1. ASSUME NEW h \in 0 .. n
        PROVE  (IF h = 0 THEN leaves ELSE f[h][g[h - 1]])
                  = IF h = 0 THEN leaves ELSE Anc!NextLayer(g[h - 1])
    <3>1. CASE h = 0
      BY <3>1
    <3>2. CASE h # 0
      <4>1. h \in 1 .. n /\ g[h - 1] \in Layer
        BY <1>6, <3>2
      <4> QED BY <3>2, <4>1
    <3> QED BY <3>1, <3>2
  <2>2. g = [h \in 0 .. n |-> IF h = 0 THEN leaves ELSE f[h][g[h - 1]]]
    BY <1>5 DEF Iterates
  <2> HIDE DEF f
  <2> QED BY <2>1, <2>2
<1>8. PICK L : L = Anc!Layers(entries) /\ is(L)
  <2>1. Anc!Layers(entries) = CHOOSE L : is(L)
    BY DEF Anc!Layers, Anc!Sha256, leaves, n
  <2> QED BY <1>7, <2>1
<1>9. DOMAIN L = 0 .. n /\ \A h \in 0 .. n : L[h] = IF h = 0 THEN leaves ELSE Anc!NextLayer(L[h - 1])
  BY <1>8
<1>10. 0 \in 0 .. n /\ L[0] = leaves /\ \A h \in 1 .. n : L[h] = Anc!NextLayer(L[h - 1])
  BY <1>1, <1>9
<1>11. \A h \in 0 .. n : L[h] \in Layer
  <2> DEFINE T == {h \in 0 .. n : L[h] \notin Layer}
  <2> SUFFICES ASSUME T # {} PROVE FALSE
    OBVIOUS
  <2>1. PICK h \in T : \A j \in T : h <= j
    <3>1. T \subseteq Nat
      BY <1>1
    <3> HIDE DEF T
    <3> QED BY <3>1, LeastOf
  <2>2. h \in 0 .. n /\ h # 0
    BY <1>2, <1>10, <2>1
  <2>3. h \in 1 .. n /\ h - 1 \in 0 .. n /\ ~ (h <= h - 1)
    BY <1>1, <2>2
  <2>4. L[h - 1] \in Layer
    BY <2>1, <2>3
  <2> QED BY <1>3, <1>10, <2>1, <2>3, <2>4
<1>12. L \in [0 .. n -> Layer]
  <2>1. L = [h \in 0 .. n |-> L[h]]
    BY <1>8
  <2> QED BY <1>11, <2>1
<1> QED BY <1>1, <1>8, <1>10, <1>12 DEF leaves, n

\* The height is that of the lowest layer of one node.
LEMMA HeightIs ==
    ASSUME NEW entries \in Seq(Nat), entries # <<>>
    PROVE  /\ Anc!Height(entries) \in 0 .. Len(entries)
           /\ Len(Anc!Layers(entries)[Anc!Height(entries)]) = 1
<1> DEFINE n == Len(entries)
           L == Anc!Layers(entries)
<1>1. /\ n \in Nat /\ n > 0
      /\ L \in [0 .. n -> Layer]
      /\ L[0] = [i \in DOMAIN entries |-> <<entries[i]>>]
      /\ \A h \in 1 .. n : L[h] = Anc!NextLayer(L[h - 1])
  BY LayersAre
<1>2. Len(L[0]) = n
  <2>1. DOMAIN entries = 1 .. n
    BY LenProperties
  <2> HIDE DEF L
  <2> QED BY <1>1, <2>1
<1> HIDE DEF n, L
<1>3. ASSUME NEW h \in 0 .. n PROVE Len(L[h]) \in Nat /\ Len(L[h]) > 0
  <2>1. L[h] \in Seq(Hashes) /\ L[h] # <<>>
    BY <1>1 DEF Layer
  <2> QED BY <2>1, EmptySeq
<1>4. ASSUME NEW h \in 1 .. n
      PROVE  /\ Len(L[h - 1]) # 1 => Len(L[h]) < Len(L[h - 1])
             /\ Len(L[h - 1]) = 1 => Len(L[h]) = 1
  <2>1. h - 1 \in 0 .. n
    BY <1>1
  <2>2. L[h - 1] \in Seq(Hashes) /\ L[h - 1] # <<>> /\ L[h] = Anc!NextLayer(L[h - 1])
    BY <1>1, <2>1 DEF Layer
  <2> QED BY <2>2, NextLayerShrinks
<1>5. \A h \in 0 .. n : Len(L[h]) = 1 \/ Len(L[h]) + h <= n
  <2> DEFINE T == {h \in 0 .. n : ~ (Len(L[h]) = 1 \/ Len(L[h]) + h <= n)}
  <2> SUFFICES ASSUME T # {} PROVE FALSE
    OBVIOUS
  <2>1. PICK h \in T : \A j \in T : h <= j
    <3>1. T \subseteq Nat
      BY <1>1
    <3> HIDE DEF T
    <3> QED BY <3>1, LeastOf
  <2>2. h \in 0 .. n /\ h # 0
    BY <1>1, <1>2, <2>1
  <2>3. h \in 1 .. n /\ h - 1 \in 0 .. n /\ ~ (h <= h - 1) /\ h \in Nat
    BY <1>1, <2>2
  <2>4. Len(L[h - 1]) = 1 \/ Len(L[h - 1]) + (h - 1) <= n
    BY <2>1, <2>3
  <2>5. PICK a \in Nat, b \in Nat : a = Len(L[h - 1]) /\ b = Len(L[h])
    BY <1>3, <2>2, <2>3
  <2>6. /\ a # 1 => b < a
        /\ a = 1 => b = 1
        /\ a = 1 \/ a + (h - 1) <= n
        /\ ~ (b = 1 \/ b + h <= n)
    BY <1>4, <2>1, <2>3, <2>4, <2>5
  <2> HIDE DEF T
  <2> QED BY <1>1, <2>3, <2>6
<1>6. Len(L[n]) = 1
  <2>1. n \in 0 .. n
    BY <1>1
  <2>2. PICK a \in Nat : a = Len(L[n]) /\ a > 0
    BY <1>3, <2>1
  <2>3. a = 1 \/ a + n <= n
    BY <1>5, <2>1, <2>2
  <2> QED BY <1>1, <2>2, <2>3
<1>7. PICK h \in 0 .. n : Len(L[h]) = 1 /\ \A g \in 0 .. n : Len(L[g]) = 1 => h <= g
  <2> DEFINE T == {h \in 0 .. n : Len(L[h]) = 1}
  <2>1. T \subseteq Nat /\ n \in T
    BY <1>1, <1>6
  <2>2. PICK h \in T : \A j \in T : h <= j
    <3> HIDE DEF T
    <3> QED BY <2>1, LeastOf
  <2> QED BY <2>2
<1>8. \A g \in 0 .. h - 1 : Len(L[g]) # 1
  BY <1>1, <1>7
<1>9. Anc!Height(entries) = CHOOSE h_1 \in 0 .. n : Len(L[h_1]) = 1 /\ \A g \in 0 .. h_1 - 1 : Len(L[g]) # 1
  BY DEF Anc!Height, L, n
<1>10. Anc!Height(entries) \in 0 .. n /\ Len(L[Anc!Height(entries)]) = 1
  BY <1>7, <1>8, <1>9
<1> QED BY <1>10 DEF n, L

\* All hashes of a layer have one length.
Even(layer) == \A i, j \in 1 .. Len(layer) : Len(layer[i]) = Len(layer[j])

\* Above hashes of one length are hashes of one length.
LEMMA NextLayerEven ==
    ASSUME NEW layer \in Layer, Even(layer)
    PROVE  Even(Anc!NextLayer(layer))
<1> DEFINE P == Anc!Padded(layer)
           m == Pairs(layer)
           n == Len(layer)
<1>0. layer \in Seq(Hashes) /\ layer # <<>>
  BY DEF Layer
<1>1. /\ P \in Seq(Hashes) /\ m \in Nat /\ n \in Nat /\ n > 0 /\ Len(P) = 2 * m
      /\ \A k \in 1 .. 2 * m : P[k] = IF k <= n THEN layer[k] ELSE layer[n]
  BY <1>0, PaddedIs
<1>2. /\ Len(Anc!NextLayer(layer)) = m
      /\ \A i \in 1 .. m : /\ 2 * i - 1 \in 1 .. 2 * m /\ 2 * i \in 1 .. 2 * m
                           /\ Anc!NextLayer(layer)[i] = Anc!HashPair(P[2 * i - 1], P[2 * i])
  BY <1>0, NextLayerIs
<1> HIDE DEF P, m
<1>3. \A k \in 1 .. 2 * m : P[k] \in Hashes /\ Len(P[k]) = Len(layer[1])
  <2>1. \A k \in 1 .. 2 * m : P[k] \in Hashes
    BY <1>1, ElementOfSeq
  <2>2. ASSUME NEW k \in 1 .. 2 * m PROVE Len(P[k]) = Len(layer[1])
    <3>1. PICK i \in 1 .. n : P[k] = layer[i]
      BY <1>1
    <3>2. 1 \in 1 .. n
      BY <1>1
    <3> QED BY <3>1, <3>2 DEF Even
  <2> QED BY <2>1, <2>2
<1>4. ASSUME NEW i \in 1 .. m
      PROVE  Len(Anc!NextLayer(layer)[i]) = Len(layer[1]) + Len(layer[1]) + 1
  <2>1. P[2 * i - 1] \in Hashes /\ P[2 * i] \in Hashes
        /\ Len(P[2 * i - 1]) = Len(layer[1]) /\ Len(P[2 * i]) = Len(layer[1])
    BY <1>2, <1>3
  <2>2. Len(Anc!HashPair(P[2 * i - 1], P[2 * i])) = Len(P[2 * i - 1]) + Len(P[2 * i]) + 1
    BY <2>1, PairIs
  <2> QED BY <1>2, <2>1, <2>2
<1> QED BY <1>2, <1>4 DEF Even

\* All layers above leaves of one length are of hashes of one length.
LEMMA LayersEven ==
    ASSUME NEW entries \in Seq(Nat), entries # <<>>
    PROVE  \A h \in 0 .. Len(entries) : Even(Anc!Layers(entries)[h])
<1> DEFINE n == Len(entries)
           L == Anc!Layers(entries)
           T == {h \in 0 .. n : ~ Even(L[h])}
<1>1. /\ n \in Nat /\ n > 0
      /\ L \in [0 .. n -> Layer]
      /\ L[0] = [i \in DOMAIN entries |-> <<entries[i]>>]
      /\ \A h \in 1 .. n : L[h] = Anc!NextLayer(L[h - 1])
  BY LayersAre
<1>2. Even(L[0])
  <2>1. DOMAIN entries = 1 .. n
    BY LenProperties
  <2>2. PICK l : l = L[0]
    OBVIOUS
  <2>3. Len(l) = n /\ \A i \in 1 .. n : l[i] = <<entries[i]>>
    BY <1>1, <2>1, <2>2
  <2>4. \A i \in 1 .. n : Len(l[i]) = 1
    <3>1. \A x : Len(<<x>>) = 1
      OBVIOUS
    <3> QED BY <2>3, <3>1, Zenon
  <2> QED BY <2>2, <2>3, <2>4 DEF Even
<1> HIDE DEF n, L
<1> SUFFICES ASSUME T # {} PROVE FALSE
  BY DEF n, L
<1>3. PICK h \in T : \A j \in T : h <= j
  <2>1. T \subseteq Nat
    BY <1>1
  <2> HIDE DEF T
  <2> QED BY <2>1, LeastOf
<1>4. h \in 0 .. n /\ h # 0
  BY <1>1, <1>2, <1>3
<1>5. h \in 1 .. n /\ h - 1 \in 0 .. n /\ ~ (h <= h - 1)
  BY <1>1, <1>4
<1>6. Even(L[h - 1]) /\ L[h - 1] \in Layer
  BY <1>1, <1>3, <1>5
<1>7. Even(L[h])
  BY <1>1, <1>5, <1>6, NextLayerEven
<1> QED BY <1>3, <1>7

\* A layer has the entries of the leaves in it, and nothing else but zeros.
LEMMA LayerValues ==
    ASSUME NEW entries \in Seq(Nat \ {0}), entries # <<>>, NEW h \in 0 .. Len(entries)
    PROVE  NodeValues(Anc!Layers(entries)[h]) \ {0} = Range(entries)
<1> DEFINE n == Len(entries)
           L == Anc!Layers(entries)
           T == {g \in 0 .. n : NodeValues(L[g]) \ {0} # Range(entries)}
<1>0. entries \in Seq(Nat)
  BY SeqMonotonic
<1>1. /\ n \in Nat /\ n > 0
      /\ L \in [0 .. n -> Layer]
      /\ L[0] = [i \in DOMAIN entries |-> <<entries[i]>>]
      /\ \A g \in 1 .. n : L[g] = Anc!NextLayer(L[g - 1])
  BY <1>0, LayersAre
<1>2. NodeValues(L[0]) \ {0} = Range(entries)
  <2>1. DOMAIN entries = 1 .. n /\ \A i \in 1 .. n : entries[i] # 0
    BY LenProperties, ElementOfSeq
  <2>2. PICK l : l = L[0]
    OBVIOUS
  <2>3. Len(l) = n /\ \A i \in 1 .. n : l[i] = <<entries[i]>>
    BY <1>1, <2>1, <2>2
  <2>4. \A i \in 1 .. n : Range(l[i]) = {entries[i]}
    <3>1. \A x : Range(<<x>>) = {x}
      BY DEF Range
    <3> QED BY <2>3, <3>1
  <2>5. NodeValues(l) = {entries[i] : i \in 1 .. n}
    <3> HIDE DEF n
    <3>1. NodeValues(l) = UNION {Range(l[i]) : i \in 1 .. n}
      BY <2>3 DEF NodeValues
    <3>2. ASSUME NEW x PROVE x \in NodeValues(l) <=> \E i \in 1 .. n : x = entries[i]
      BY <2>4, <3>1
    <3> QED BY <3>2
  <2> HIDE DEF L
  <2> QED BY <2>1, <2>2, <2>5 DEF Range
<1> HIDE DEF n, L
<1> SUFFICES ASSUME T # {} PROVE FALSE
  BY DEF n, L
<1>3. PICK g \in T : \A j \in T : g <= j
  <2>1. T \subseteq Nat
    BY <1>1
  <2> HIDE DEF T
  <2> QED BY <2>1, LeastOf
<1>4. g \in 0 .. n /\ g # 0
  BY <1>1, <1>2, <1>3
<1>5. g \in 1 .. n /\ g - 1 \in 0 .. n /\ ~ (g <= g - 1)
  BY <1>1, <1>4
<1>6. NodeValues(L[g - 1]) \ {0} = Range(entries) /\ L[g - 1] \in Layer
  BY <1>1, <1>3, <1>5
<1>7. NodeValues(L[g]) = {0} \cup NodeValues(L[g - 1])
  BY <1>1, <1>5, <1>6, NextLayerValues DEF Layer
<1> QED BY <1>3, <1>6, <1>7

\* The root tells which entries were hashed: two lists with other members have other
\* roots (MerkleService.compute_root).
THEOREM RootTellsEntries ==
    ASSUME NEW entries \in Seq(Nat \ {0}), entries # <<>>
    PROVE  /\ Anc!ComputeRoot(entries) \in Hashes
           /\ Range(Anc!ComputeRoot(entries)) \ {0} = Range(entries)
<1> DEFINE L == Anc!Layers(entries)
           H == Anc!Height(entries)
<1>0. entries \in Seq(Nat)
  BY SeqMonotonic
<1>1. H \in 0 .. Len(entries) /\ Len(L[H]) = 1 /\ L \in [0 .. Len(entries) -> Layer]
  BY <1>0, HeightIs, LayersAre
<1> HIDE DEF H, L
<1>2. L[H] \in Seq(Hashes)
  BY <1>1 DEF Layer
<1>3. L[H][1] \in Hashes
  <2>1. 1 \in 1 .. Len(L[H])
    BY <1>1
  <2> QED BY <1>2, <2>1, ElementOfSeq
<1>4. NodeValues(L[H]) = Range(L[H][1])
  BY <1>1 DEF NodeValues
<1>5. NodeValues(L[H]) \ {0} = Range(entries)
  BY <1>1, LayerValues DEF L
<1>6. Anc!ComputeRoot(entries) = L[H][1]
  BY DEF Anc!ComputeRoot, H, L
<1> QED BY <1>3, <1>4, <1>5, <1>6

\* One step of a proof: the node at pos (which counts from 0) and its sibling make the
\* node above.
LEMMA StepIs ==
    ASSUME NEW layer \in Layer, Even(layer), NEW pos \in Nat, pos < Len(layer)
    PROVE  LET up == pos \div 2
               s == Anc!Padded(layer)[Anc!Sibling(pos) + 1]
               node == layer[pos + 1]
           IN  /\ up \in Nat /\ up < Len(Anc!NextLayer(layer))
               /\ s \in Hashes /\ node \in Hashes /\ Len(s) = Len(node)
               /\ Anc!NextLayer(layer)[up + 1] =
                     IF Anc!Sibling(pos) > pos THEN Anc!HashPair(node, s) ELSE Anc!HashPair(s, node)
<1> DEFINE P == Anc!Padded(layer)
           m == Pairs(layer)
           n == Len(layer)
           up == pos \div 2
<1>0. layer \in Seq(Hashes) /\ layer # <<>>
  BY DEF Layer
<1>1. /\ P \in Seq(Hashes) /\ m \in Nat /\ n \in Nat /\ n > 0 /\ Len(P) = 2 * m
      /\ 2 * m \in {n, n + 1}
      /\ \A k \in 1 .. 2 * m : P[k] = IF k <= n THEN layer[k] ELSE layer[n]
  BY <1>0, PaddedIs
<1>2. /\ Len(Anc!NextLayer(layer)) = m
      /\ \A i \in 1 .. m : /\ 2 * i - 1 \in 1 .. 2 * m /\ 2 * i \in 1 .. 2 * m
                           /\ Anc!NextLayer(layer)[i] = Anc!HashPair(P[2 * i - 1], P[2 * i])
  BY <1>0, NextLayerIs
<1> HIDE DEF P, m
<1>3. \A k \in 1 .. 2 * m : P[k] \in Hashes /\ Len(P[k]) = Len(layer[pos + 1])
  <2>1. \A k \in 1 .. 2 * m : P[k] \in Hashes
    BY <1>1, ElementOfSeq
  <2>2. ASSUME NEW k \in 1 .. 2 * m PROVE Len(P[k]) = Len(layer[pos + 1])
    <3>1. PICK i \in 1 .. n : P[k] = layer[i]
      BY <1>1
    <3>2. pos + 1 \in 1 .. n
      BY <1>1
    <3> QED BY <3>1, <3>2 DEF Even
  <2> QED BY <2>1, <2>2
<1>4. layer[pos + 1] \in Hashes /\ P[pos + 1] = layer[pos + 1]
  <2>1. pos + 1 \in 1 .. n /\ pos + 1 \in 1 .. 2 * m
    BY <1>1
  <2> QED BY <1>0, <1>1, <2>1, ElementOfSeq
<1>5. up \in Nat /\ pos % 2 \in {0, 1} /\ pos = 2 * up + (pos % 2)
  <2>1. pos \div 2 \in Nat /\ pos % 2 \in {0, 1}
        /\ 2 * (pos \div 2) = IF pos % 2 = 1 THEN pos - 1 ELSE pos
    BY Z3
  <2>2. PICK u \in Nat, r \in {0, 1} : u = pos \div 2 /\ r = pos % 2
    BY <2>1
  <2>3. pos = 2 * u + r
    BY <2>1, <2>2
  <2> QED BY <2>2, <2>3, Zenon
<1>6. up + 1 \in 1 .. m
  BY <1>1, <1>5
<1>7. Anc!NextLayer(layer)[up + 1] = Anc!HashPair(P[2 * (up + 1) - 1], P[2 * (up + 1)])
      /\ 2 * (up + 1) - 1 \in 1 .. 2 * m /\ 2 * (up + 1) \in 1 .. 2 * m
  BY <1>2, <1>6
<1>8. CASE pos % 2 = 0
  <2>1. Anc!Sibling(pos) = pos + 1
    BY <1>8 DEF Anc!Sibling
  <2>2. 2 * (up + 1) - 1 = pos + 1 /\ 2 * (up + 1) = Anc!Sibling(pos) + 1 /\ Anc!Sibling(pos) > pos
    BY <1>5, <1>8, <2>1
  <2>3. Anc!NextLayer(layer)[up + 1] = Anc!HashPair(layer[pos + 1], P[Anc!Sibling(pos) + 1])
    BY <1>4, <1>7, <2>2
  <2>4. P[Anc!Sibling(pos) + 1] \in Hashes /\ Len(P[Anc!Sibling(pos) + 1]) = Len(layer[pos + 1])
    BY <1>3, <1>7, <2>2
  <2> QED BY <1>2, <1>4, <1>5, <1>6, <2>2, <2>3, <2>4 DEF P
<1>9. CASE pos % 2 = 1
  <2>1. Anc!Sibling(pos) = pos - 1
    BY <1>9 DEF Anc!Sibling
  <2>2. 2 * (up + 1) = pos + 1 /\ 2 * (up + 1) - 1 = Anc!Sibling(pos) + 1 /\ ~ (Anc!Sibling(pos) > pos)
    BY <1>5, <1>9, <2>1
  <2>3. Anc!NextLayer(layer)[up + 1] = Anc!HashPair(P[Anc!Sibling(pos) + 1], layer[pos + 1])
    BY <1>4, <1>7, <2>2
  <2>4. P[Anc!Sibling(pos) + 1] \in Hashes /\ Len(P[Anc!Sibling(pos) + 1]) = Len(layer[pos + 1])
    BY <1>3, <1>7, <2>2
  <2> QED BY <1>2, <1>4, <1>5, <1>6, <2>2, <2>3, <2>4 DEF P
<1> QED BY <1>5, <1>8, <1>9

\* Where the ways from a leaf up to the root go, halving its position.
LEMMA WayIs ==
    ASSUME NEW H \in Nat, NEW index \in Nat
    PROVE  LET way == CHOOSE w : w = [h \in 0 .. H |-> IF h = 0 THEN index ELSE w[h - 1] \div 2]
           IN  /\ way \in [0 .. H -> Nat] /\ way[0] = index
               /\ \A h \in 1 .. H : way[h] = way[h - 1] \div 2
<1> DEFINE is(w) == w = [h \in 0 .. H |-> IF h = 0 THEN index ELSE w[h - 1] \div 2]
           f == [i \in 1 .. H |-> [x \in Nat |-> x \div 2]]
<1>1. f \in [1 .. H -> [Nat -> Nat]]
  <2>1. \A x \in Nat : x \div 2 \in Nat
    BY Z3
  <2> QED BY <2>1
<1>2. PICK g \in [0 .. H -> Nat] : Iterates(f, index, H, g)
  <2> HIDE DEF f
  <2> QED BY <1>1, LoopRuns
<1>3. is(g)
  <2>1. ASSUME NEW h \in 0 .. H
        PROVE  (IF h = 0 THEN index ELSE f[h][g[h - 1]]) = IF h = 0 THEN index ELSE g[h - 1] \div 2
    <3>1. CASE h = 0
      BY <3>1
    <3>2. CASE h # 0
      <4>1. h \in 1 .. H /\ g[h - 1] \in Nat
        BY <3>2
      <4> QED BY <3>2, <4>1
    <3> QED BY <3>1, <3>2
  <2>2. g = [h \in 0 .. H |-> IF h = 0 THEN index ELSE f[h][g[h - 1]]]
    BY <1>2 DEF Iterates
  <2> HIDE DEF f
  <2> QED BY <2>1, <2>2
<1>4. PICK w : w = (CHOOSE v : is(v)) /\ is(w)
  BY <1>3
<1>5. DOMAIN w = 0 .. H /\ \A h \in 0 .. H : w[h] = IF h = 0 THEN index ELSE w[h - 1] \div 2
  BY <1>4
<1>6. w[0] = index /\ \A h \in 1 .. H : w[h] = w[h - 1] \div 2
  BY <1>5
<1>7. \A h \in 0 .. H : w[h] \in Nat
  <2> DEFINE T == {h \in 0 .. H : w[h] \notin Nat}
  <2> SUFFICES ASSUME T # {} PROVE FALSE
    OBVIOUS
  <2>1. PICK h \in T : \A j \in T : h <= j
    <3>1. T \subseteq Nat
      OBVIOUS
    <3> HIDE DEF T
    <3> QED BY <3>1, LeastOf
  <2>2. h \in 0 .. H /\ h # 0
    BY <1>6, <2>1
  <2>6. h \in 1 .. H /\ h - 1 \in 0 .. H /\ ~ (h <= h - 1)
    BY <2>2
  <2>3. w[h - 1] \in Nat
    BY <2>1, <2>6
  <2>4. \A x \in Nat : x \div 2 \in Nat
    BY Z3
  <2>5. w[h] \in Nat
    BY <1>6, <2>6, <2>3, <2>4
  <2> QED BY <2>1, <2>5
<1>8. w \in [0 .. H -> Nat]
  <2>1. w = [h \in 0 .. H |-> w[h]]
    BY <1>4
  <2> QED BY <1>7, <2>1
<1> HIDE DEF is
<1>9. (CHOOSE v : is(v)) = w
  BY <1>4
<1> QED BY <1>6, <1>8, <1>9 DEF is

\* What a verification hashes, step by step.
LEMMA ClimbIs ==
    ASSUME NEW e \in Nat, NEW H \in Nat, NEW proof, Len(proof) = H,
           \A h \in 1 .. H : proof[h].hash \in Hashes
    PROVE  /\ Anc!Climbed(e, proof) \in [0 .. H -> Hashes]
           /\ Anc!Climbed(e, proof)[0] = <<e>>
           /\ \A h \in 1 .. H :
                 Anc!Climbed(e, proof)[h] =
                    IF proof[h].side = "R"
                    THEN Anc!HashPair(Anc!Climbed(e, proof)[h - 1], proof[h].hash)
                    ELSE Anc!HashPair(proof[h].hash, Anc!Climbed(e, proof)[h - 1])
<1> DEFINE step(h, c) == IF proof[h].side = "R" THEN Anc!HashPair(c, proof[h].hash)
                         ELSE Anc!HashPair(proof[h].hash, c)
           is(w) == w = [h \in 0 .. H |-> IF h = 0 THEN <<e>> ELSE step(h, w[h - 1])]
           f == [i \in 1 .. H |-> [c \in Hashes |-> step(i, c)]]
<1>0. <<e>> \in Hashes
  BY DEF Hashes
<1>1. ASSUME NEW h \in 1 .. H, NEW c \in Hashes PROVE step(h, c) \in Hashes
  BY PairIs
<1> HIDE DEF step
<1>2. f \in [1 .. H -> [Hashes -> Hashes]]
  BY <1>1
<1>3. PICK g \in [0 .. H -> Hashes] : Iterates(f, <<e>>, H, g)
  <2> HIDE DEF f
  <2> QED BY <1>0, <1>2, LoopRuns
<1>4. is(g)
  <2>1. ASSUME NEW h \in 0 .. H
        PROVE  (IF h = 0 THEN <<e>> ELSE f[h][g[h - 1]]) = IF h = 0 THEN <<e>> ELSE step(h, g[h - 1])
    <3>1. CASE h = 0
      BY <3>1
    <3>2. CASE h # 0
      <4>1. h \in 1 .. H /\ g[h - 1] \in Hashes
        BY <3>2
      <4> QED BY <3>2, <4>1
    <3> QED BY <3>1, <3>2
  <2>2. g = [h \in 0 .. H |-> IF h = 0 THEN <<e>> ELSE f[h][g[h - 1]]]
    BY <1>3 DEF Iterates
  <2> HIDE DEF f
  <2> QED BY <2>1, <2>2
<1>5. PICK w : w = Anc!Climbed(e, proof) /\ is(w)
  <2>1. Anc!Climbed(e, proof) = CHOOSE w : is(w)
    BY DEF Anc!Climbed, Anc!Sha256, step
  <2> QED BY <1>4, <2>1
<1>6. DOMAIN w = 0 .. H /\ \A h \in 0 .. H : w[h] = IF h = 0 THEN <<e>> ELSE step(h, w[h - 1])
  BY <1>5
<1>7. w[0] = <<e>> /\ \A h \in 1 .. H : w[h] = step(h, w[h - 1])
  BY <1>6
<1>8. \A h \in 0 .. H : w[h] \in Hashes
  <2> DEFINE T == {h \in 0 .. H : w[h] \notin Hashes}
  <2> SUFFICES ASSUME T # {} PROVE FALSE
    OBVIOUS
  <2>1. PICK h \in T : \A j \in T : h <= j
    <3>1. T \subseteq Nat
      OBVIOUS
    <3> HIDE DEF T
    <3> QED BY <3>1, LeastOf
  <2>2. h \in 0 .. H /\ h # 0
    BY <1>0, <1>7, <2>1
  <2>6. h \in 1 .. H /\ h - 1 \in 0 .. H /\ ~ (h <= h - 1)
    BY <2>2
  <2>3. w[h - 1] \in Hashes
    BY <2>1, <2>6
  <2>5. w[h] \in Hashes
    BY <1>1, <1>7, <2>6, <2>3
  <2> QED BY <2>1, <2>5
<1>9. w \in [0 .. H -> Hashes]
  <2>1. w = [h \in 0 .. H |-> w[h]]
    BY <1>5
  <2> QED BY <1>8, <2>1
<1> QED BY <1>5, <1>7, <1>9 DEF step

\* A proof (MerkleService.generate_proof) leads the entry at its position to the root,
\* and no other entry (verify_proof), wherever the last node of a layer is doubled.
THEOREM ProofLeadsToRoot ==
    ASSUME NEW entries \in Seq(Nat \ {0}), entries # <<>>, NEW i \in 1 .. Len(entries),
           NEW e \in Nat \ {0}
    PROVE  Anc!VerifyProof(Anc!ComputeRoot(entries), e, Anc!GenerateProof(entries, i - 1))
              <=> e = entries[i]
<1> DEFINE n == Len(entries)
           L == Anc!Layers(entries)
           H == Anc!Height(entries)
           is(w) == w = [h \in 0 .. H |-> IF h = 0 THEN i - 1 ELSE w[h - 1] \div 2]
           way == CHOOSE w : is(w)
           proof == Anc!GenerateProof(entries, i - 1)
           C == Anc!Climbed(e, proof)
<1>0. entries \in Seq(Nat) /\ i - 1 \in Nat /\ entries[i] \in Nat \ {0}
  <2>1. entries \in Seq(Nat)
    BY SeqMonotonic
  <2> QED BY <2>1, ElementOfSeq, LenProperties
<1>1. /\ n \in Nat /\ n > 0
      /\ L \in [0 .. n -> Layer]
      /\ L[0] = [k \in DOMAIN entries |-> <<entries[k]>>]
      /\ \A h \in 1 .. n : L[h] = Anc!NextLayer(L[h - 1])
  BY <1>0, LayersAre
<1>2. H \in 0 .. n /\ H \in Nat /\ Len(L[H]) = 1
  BY <1>0, <1>1, HeightIs
<1>3. \A h \in 0 .. n : Even(L[h])
  BY <1>0, LayersEven
<1>4. way \in [0 .. H -> Nat] /\ way[0] = i - 1 /\ \A h \in 1 .. H : way[h] = way[h - 1] \div 2
  BY <1>0, <1>2, WayIs
<1>5. proof = [h \in 1 .. H |->
                  [side |-> IF Anc!Sibling(way[h - 1]) > way[h - 1] THEN "R" ELSE "L",
                   hash |-> Anc!Padded(L[h - 1])[Anc!Sibling(way[h - 1]) + 1]]]
  BY DEF Anc!GenerateProof
<1>6. Len(L[0]) = n /\ L[0][i] = <<entries[i]>>
  <2>1. DOMAIN entries = 1 .. n
    BY LenProperties
  <2> HIDE DEF L
  <2> QED BY <1>1, <2>1
<1> HIDE DEF n, L, H, way, proof, C
<1> DEFINE under(h) == way[h] < Len(L[h])
           node(h) == L[h][way[h] + 1]
<1>7. ASSUME NEW h \in 1 .. H, under(h - 1)
      PROVE  /\ under(h)
             /\ proof[h].hash \in Hashes /\ node(h - 1) \in Hashes
             /\ Len(proof[h].hash) = Len(node(h - 1))
             /\ node(h) = IF proof[h].side = "R" THEN Anc!HashPair(node(h - 1), proof[h].hash)
                          ELSE Anc!HashPair(proof[h].hash, node(h - 1))
  <2>1. h \in 1 .. n /\ h - 1 \in 0 .. n /\ h - 1 \in 0 .. H
    BY <1>1, <1>2
  <2>2. PICK l \in Layer, p \in Nat : l = L[h - 1] /\ p = way[h - 1] /\ Even(l) /\ p < Len(l)
    BY <1>1, <1>3, <1>4, <1>7, <2>1
  <2>3. L[h] = Anc!NextLayer(l) /\ way[h] = p \div 2
    BY <1>1, <1>4, <2>1, <2>2
  <2>4. /\ proof[h].side = (IF Anc!Sibling(p) > p THEN "R" ELSE "L")
        /\ proof[h].hash = Anc!Padded(l)[Anc!Sibling(p) + 1]
    BY <1>5, <2>2
  <2>5. LET up == p \div 2
            s == Anc!Padded(l)[Anc!Sibling(p) + 1]
            nd == l[p + 1]
        IN  /\ up \in Nat /\ up < Len(Anc!NextLayer(l))
            /\ s \in Hashes /\ nd \in Hashes /\ Len(s) = Len(nd)
            /\ Anc!NextLayer(l)[up + 1] =
                  IF Anc!Sibling(p) > p THEN Anc!HashPair(nd, s) ELSE Anc!HashPair(s, nd)
    BY <2>2, StepIs
  <2>6. proof[h].side = "R" <=> Anc!Sibling(p) > p
    BY <2>4
  <2> QED BY <2>2, <2>3, <2>4, <2>5, <2>6, Zenon
<1>8. \A h \in 0 .. H : under(h)
  <2> DEFINE T == {h \in 0 .. H : ~ under(h)}
  <2> SUFFICES ASSUME T # {} PROVE FALSE
    OBVIOUS
  <2>1. PICK h \in T : \A j \in T : h <= j
    <3>1. T \subseteq Nat
      OBVIOUS
    <3> HIDE DEF T
    <3> QED BY <3>1, LeastOf
  <2>2. under(0)
    BY <1>4, <1>6 DEF n
  <2>3. h \in 0 .. H /\ h # 0
    BY <2>1, <2>2
  <2>4. h \in 1 .. H /\ h - 1 \in 0 .. H /\ ~ (h <= h - 1)
    BY <1>2, <2>3
  <2>5. under(h - 1)
    BY <2>1, <2>4
  <2>6. under(h)
    BY <1>7, <2>4, <2>5
  <2> QED BY <2>1, <2>6
<1>9. ASSUME NEW h \in 1 .. H
      PROVE  /\ h - 1 \in 0 .. H
             /\ proof[h].hash \in Hashes /\ node(h - 1) \in Hashes
             /\ Len(proof[h].hash) = Len(node(h - 1))
             /\ node(h) = IF proof[h].side = "R" THEN Anc!HashPair(node(h - 1), proof[h].hash)
                          ELSE Anc!HashPair(proof[h].hash, node(h - 1))
  <2>1. h - 1 \in 0 .. H
    BY <1>2
  <2>2. under(h - 1)
    BY <1>8, <2>1
  <2> QED BY <1>7, <2>1, <2>2
<1>10. Len(proof) = H
  BY <1>2, <1>5
<1>11. /\ C \in [0 .. H -> Hashes] /\ C[0] = <<e>>
       /\ \A h \in 1 .. H :
             C[h] = IF proof[h].side = "R" THEN Anc!HashPair(C[h - 1], proof[h].hash)
                    ELSE Anc!HashPair(proof[h].hash, C[h - 1])
  <2>1. H \in Nat /\ e \in Nat /\ \A h \in 1 .. H : proof[h].hash \in Hashes
    BY <1>2, <1>9
  <2>2. PICK K, p : K \in Nat /\ K = H /\ p = proof /\ Len(p) = K
    BY <1>10, <2>1
  <2>3. \A h \in 1 .. K : p[h].hash \in Hashes
    BY <2>1, <2>2
  <2>4. PICK D : D = Anc!Climbed(e, p)
    OBVIOUS
  <2>5. /\ D \in [0 .. K -> Hashes] /\ D[0] = <<e>>
        /\ \A h \in 1 .. K :
              D[h] = IF p[h].side = "R" THEN Anc!HashPair(D[h - 1], p[h].hash)
                     ELSE Anc!HashPair(p[h].hash, D[h - 1])
    <3>1. e \in Nat
      BY <2>1
    <3>2. Anc!Climbed(e, p) \in [0 .. K -> Hashes]
      BY <2>2, <2>3, <3>1, ClimbIs
    <3>3. Anc!Climbed(e, p)[0] = <<e>>
      BY <2>2, <2>3, <3>1, ClimbIs
    <3>4. \A h \in 1 .. K :
              D[h] = IF p[h].side = "R" THEN Anc!HashPair(D[h - 1], p[h].hash)
                     ELSE Anc!HashPair(p[h].hash, D[h - 1])
      BY <2>2, <2>3, <2>4, <3>1, ClimbIs
    <3> QED BY <2>4, <3>2, <3>3, <3>4
  <2>6. D = C
    BY <2>2, <2>4 DEF C
  <2> QED BY <2>2, <2>5, <2>6
<1> DEFINE meets(h) == Len(C[h]) = Len(node(h)) /\ (C[h] = node(h) <=> e = entries[i])
<1>12. meets(0)
  <2>1. node(0) = <<entries[i]>>
    BY <1>4, <1>6
  <2>2. \A x : Len(<<x>>) = 1
    OBVIOUS
  <2>3. <<e>> = <<entries[i]>> <=> e = entries[i]
    OBVIOUS
  <2> HIDE DEF node
  <2> QED BY <1>11, <2>1, <2>2, <2>3, Zenon
<1>13. ASSUME NEW h \in 1 .. H, meets(h - 1) PROVE meets(h)
  <2>1. PICK c \in Hashes, d \in Hashes, s \in Hashes :
            c = C[h - 1] /\ d = node(h - 1) /\ s = proof[h].hash
    BY <1>9, <1>11
  <2>2. Len(c) = Len(d) /\ Len(s) = Len(d) /\ (c = d <=> e = entries[i])
    BY <1>9, <1>13, <2>1
  <2>3. /\ Len(Anc!HashPair(c, s)) = Len(c) + Len(s) + 1
        /\ Len(Anc!HashPair(d, s)) = Len(d) + Len(s) + 1
        /\ Len(Anc!HashPair(s, c)) = Len(s) + Len(c) + 1
        /\ Len(Anc!HashPair(s, d)) = Len(s) + Len(d) + 1
    BY PairIs
  <2>4. /\ Anc!HashPair(c, s) = Anc!HashPair(d, s) <=> c = d
        /\ Anc!HashPair(s, c) = Anc!HashPair(s, d) <=> c = d
    BY <2>2, PairsDiffer
  <2> HIDE DEF node
  <2>5. CASE proof[h].side = "R"
    <3>1. C[h] = Anc!HashPair(c, s) /\ node(h) = Anc!HashPair(d, s)
      BY <1>9, <1>11, <2>1, <2>5
    <3> QED BY <2>2, <2>3, <2>4, <3>1
  <2>6. CASE proof[h].side # "R"
    <3>1. C[h] = Anc!HashPair(s, c) /\ node(h) = Anc!HashPair(s, d)
      BY <1>9, <1>11, <2>1, <2>6
    <3> QED BY <2>2, <2>3, <2>4, <3>1
  <2> QED BY <2>5, <2>6
<1>14. meets(H)
  <2> DEFINE T == {h \in 0 .. H : ~ meets(h)}
  <2> SUFFICES ASSUME T # {} PROVE FALSE
    BY <1>2
  <2>1. PICK h \in T : \A j \in T : h <= j
    <3>1. T \subseteq Nat
      OBVIOUS
    <3> HIDE DEF T
    <3> QED BY <3>1, LeastOf
  <2> HIDE DEF meets
  <2>2. h \in 0 .. H /\ h # 0
    BY <1>12, <2>1
  <2>3. h \in 1 .. H /\ h - 1 \in 0 .. H /\ ~ (h <= h - 1)
    BY <1>2, <2>2
  <2>4. meets(h - 1)
    BY <2>1, <2>3
  <2>5. meets(h)
    BY <1>13, <2>3, <2>4
  <2> QED BY <2>1, <2>5
<1>15. way[H] = 0
  <2>1. H \in 0 .. H
    BY <1>2
  <2>2. way[H] \in Nat /\ way[H] < 1
    BY <1>2, <1>4, <1>8, <2>1
  <2> QED BY <2>2
<1>16. Anc!ComputeRoot(entries) = node(H)
  <2>1. Anc!ComputeRoot(entries) = L[H][1]
    BY DEF Anc!ComputeRoot, L, H
  <2> QED BY <1>15, <2>1
<1>17. Anc!VerifyProof(Anc!ComputeRoot(entries), e, proof) <=> C[H] = node(H)
  BY <1>10, <1>16 DEF Anc!VerifyProof, C
<1> QED BY <1>14, <1>17 DEF proof

----------------------------------------------------------------------------
(* Anchoring: the inductive invariant. *)

\* What a release can have read: a beginning of the trail, or a stub.
Known(b) == (\E n \in 1 .. Len(trail) : b = SubSeq(trail, 1, n)) \/ b \in Anc!Stubs

Distinct(s) == \A i, j \in 1 .. Len(s) : s[i] = s[j] => i = j

AnchoringInv ==
    /\ trail \in Seq(Entries) /\ Distinct(trail)
    /\ attempt = <<>> \/ Known(attempt)
    /\ anchored # Anc!NotAnchored =>
          Known(anchored.entries) /\ anchored.root = Anc!ComputeRoot(anchored.entries)

\* The beginning of a sequence, member by member.
LEMMA BeginningIs ==
    ASSUME NEW S, NEW t \in Seq(S), NEW k \in 1 .. Len(t)
    PROVE  /\ SubSeq(t, 1, k) \in Seq(S) /\ Len(SubSeq(t, 1, k)) = k
           /\ SubSeq(t, 1, k) # <<>>
           /\ \A i \in 1 .. k : SubSeq(t, 1, k)[i] = t[i]
           /\ Range(SubSeq(t, 1, k)) = {t[i] : i \in 1 .. k}
<1>1. \A i \in 1 .. k : t[i] \in S
  BY LenProperties, ElementOfSeq
<1>2. /\ SubSeq(t, 1, k) \in Seq(S) /\ Len(SubSeq(t, 1, k)) = k
      /\ \A i \in 1 .. k : SubSeq(t, 1, k)[i] = t[i]
  <2>1. /\ SubSeq(t, 1, k) \in Seq(S) /\ Len(SubSeq(t, 1, k)) = IF 1 <= k THEN k - 1 + 1 ELSE 0
        /\ \A i \in 1 .. k - 1 + 1 : SubSeq(t, 1, k)[i] = t[1 + i - 1]
    BY <1>1, SubSeqProperties
  <2>2. k \in Int /\ 1 <= k /\ k - 1 + 1 = k /\ \A i \in 1 .. k : 1 + i - 1 = i
    BY LenProperties
  <2> QED BY <2>1, <2>2
<1>3. DOMAIN SubSeq(t, 1, k) = 1 .. k
  BY <1>2, LenProperties
<1>4. Range(SubSeq(t, 1, k)) = {t[i] : i \in 1 .. k}
  BY <1>2, <1>3 DEF Range
<1>5. SubSeq(t, 1, k) # <<>>
  <2>1. k > 0
    BY LenProperties
  <2> QED BY <1>2, <2>1, EmptySeq
<1> QED BY <1>2, <1>4, <1>5

\* Only equal beginnings of a sequence without repetitions have the same members.
LEMMA BeginningsDiffer ==
    ASSUME NEW S, NEW t \in Seq(S), Distinct(t), NEW m \in 1 .. Len(t), NEW n \in 1 .. Len(t)
    PROVE  Range(SubSeq(t, 1, m)) = Range(SubSeq(t, 1, n)) => m = n
<1>1. /\ Range(SubSeq(t, 1, m)) = {t[i] : i \in 1 .. m}
      /\ Range(SubSeq(t, 1, n)) = {t[i] : i \in 1 .. n}
  BY BeginningIs
<1>2. ASSUME NEW j \in 1 .. Len(t), NEW k \in 1 .. Len(t), j < k,
             {t[i] : i \in 1 .. j} = {t[i] : i \in 1 .. k}
      PROVE  FALSE
  <2>1. t[k] \in {t[i] : i \in 1 .. k}
    OBVIOUS
  <2>2. PICK i \in 1 .. j : t[k] = t[i]
    BY <1>2, <2>1
  <2>3. i \in 1 .. Len(t) /\ i # k
    BY <1>2
  <2> QED BY <2>2, <2>3 DEF Distinct
<1>3. ~ (m < n) /\ ~ (n < m) => m = n
  BY LenProperties
<1> QED BY <1>1, <1>2, <1>3

\* Entries that are known are different, and their set says which they are.
LEMMA KnownIs ==
    ASSUME AnchoringInv, NEW b, Known(b), NEW c, Known(c)
    PROVE  /\ b \in Seq(Nat \ {0}) /\ b # <<>>
           /\ Range(b) = Range(c) => b = c
<1>1. /\ Entries \subseteq Nat \ {0} /\ Stub \in Seq(Nat \ {0}) /\ Distinct(Stub)
      /\ \A i \in 1 .. Len(Stub) : Stub[i] \notin Entries
  <2>1. DOMAIN Stub = 1 .. Len(Stub)
    BY ServicesAssumption, LenProperties DEF Anc!AnchoringAssumption
  <2> QED BY <2>1, ServicesAssumption DEF Anc!AnchoringAssumption, Anc!IsInjective, Anc!ToSet, Distinct
<1>2. trail \in Seq(Nat \ {0}) /\ trail \in Seq(Entries) /\ Distinct(trail)
      /\ \A i \in 1 .. Len(trail) : trail[i] \in Entries
  <2>1. trail \in Seq(Nat \ {0})
    BY <1>1, SeqMonotonic DEF AnchoringInv
  <2> QED BY <2>1, ElementOfSeq DEF AnchoringInv
<1> DEFINE Of(d, t) == \E n \in 1 .. Len(t) : d = SubSeq(t, 1, n)
<1>3. ASSUME NEW d, Known(d) PROVE Of(d, trail) \/ Of(d, Stub)
  BY <1>3 DEF Known, Anc!Stubs
<1>4. ASSUME NEW d, Of(d, trail) PROVE d \in Seq(Nat \ {0}) /\ d # <<>> /\ Range(d) \subseteq Entries
  <2>1. PICK n \in 1 .. Len(trail) : d = SubSeq(trail, 1, n)
    BY <1>4
  <2>2. d \in Seq(Nat \ {0}) /\ d # <<>> /\ Range(d) = {trail[i] : i \in 1 .. n}
    <3>1. trail \in Seq(Nat \ {0})
      BY <1>2
    <3> QED BY <2>1, <3>1, BeginningIs, Zenon
  <2>3. \A i \in 1 .. n : i \in 1 .. Len(trail)
    BY <1>2, LenProperties
  <2> QED BY <1>2, <2>2, <2>3
<1>5. ASSUME NEW d, Of(d, Stub)
      PROVE  d \in Seq(Nat \ {0}) /\ d # <<>> /\ \E x \in Range(d) : x \notin Entries
  <2>1. PICK n \in 1 .. Len(Stub) : d = SubSeq(Stub, 1, n)
    BY <1>5
  <2>2. d \in Seq(Nat \ {0}) /\ d # <<>> /\ Range(d) = {Stub[i] : i \in 1 .. n}
    <3>1. Stub \in Seq(Nat \ {0})
      BY <1>1
    <3> QED BY <2>1, <3>1, BeginningIs, Zenon
  <2>3. 1 \in 1 .. n
    BY <1>1, LenProperties
  <2>4. Stub[1] \in Range(d)
    BY <2>2, <2>3
  <2>5. Stub[1] \notin Entries
    <3>1. 1 \in 1 .. Len(Stub)
      BY <1>1, <2>1, LenProperties
    <3> QED BY <1>1, <3>1
  <2> QED BY <2>2, <2>4, <2>5
<1>6. b \in Seq(Nat \ {0}) /\ b # <<>>
  BY <1>3, <1>4, <1>5
<1>7. ASSUME NEW S, NEW t \in Seq(S), Distinct(t), Of(b, t), Of(c, t), Range(b) = Range(c)
      PROVE  b = c
  BY <1>7, BeginningsDiffer
<1>8. Range(b) = Range(c) => (Of(b, trail) /\ Of(c, trail)) \/ (Of(b, Stub) /\ Of(c, Stub))
  BY <1>3, <1>4, <1>5
<1> QED BY <1>1, <1>2, <1>6, <1>7, <1>8

\* Nothing is anchored at first.
LEMMA AnchoringInit == Anc!Init => AnchoringInv
<1> SUFFICES ASSUME Anc!Init PROVE AnchoringInv
  OBVIOUS
<1>1. trail = <<>> /\ attempt = <<>> /\ anchored = Anc!NotAnchored
  BY DEF Anc!Init
<1>2. <<>> \in Seq(Entries) /\ Len(<<>>) = 0
  BY EmptySeq
<1> QED BY <1>1, <1>2 DEF AnchoringInv, Distinct

\* Beginnings of a trail remain beginnings of it.
LEMMA AppendKeeps ==
    ASSUME AnchoringInv, Anc!AppendEntry
    PROVE  /\ trail' \in Seq(Entries) /\ Distinct(trail')
           /\ \A b : Known(b) => Known(b)'
<1>1. PICK e \in Entries : e \notin Anc!ToSet(trail) /\ trail' = Append(trail, e)
  BY DEF Anc!AppendEntry
<1>2. trail \in Seq(Entries) /\ Len(trail) \in Nat /\ DOMAIN trail = 1 .. Len(trail)
  BY LenProperties DEF AnchoringInv
<1>3. /\ trail' \in Seq(Entries) /\ Len(trail') = Len(trail) + 1
      /\ \A i \in 1 .. Len(trail) : trail'[i] = trail[i]
      /\ trail'[Len(trail) + 1] = e
  BY <1>1, <1>2, AppendProperties
<1>4. \A i \in 1 .. Len(trail) : trail[i] # e
  BY <1>1, <1>2 DEF Anc!ToSet
<1>5. Distinct(trail')
  <2> SUFFICES ASSUME NEW i \in 1 .. Len(trail) + 1, NEW j \in 1 .. Len(trail) + 1,
                      trail'[i] = trail'[j]
               PROVE  i = j
    BY <1>3 DEF Distinct
  <2>1. CASE i \in 1 .. Len(trail) /\ j \in 1 .. Len(trail)
    BY <1>3, <2>1 DEF AnchoringInv, Distinct
  <2>2. CASE i = Len(trail) + 1 /\ j \in 1 .. Len(trail)
    BY <1>3, <1>4, <2>2
  <2>3. CASE j = Len(trail) + 1 /\ i \in 1 .. Len(trail)
    BY <1>3, <1>4, <2>3
  <2> QED BY <1>2, <2>1, <2>2, <2>3
<1>6. ASSUME NEW n \in 1 .. Len(trail)
      PROVE  n \in 1 .. Len(trail') /\ SubSeq(trail', 1, n) = SubSeq(trail, 1, n)
  <2>1. n \in 1 .. Len(trail')
    BY <1>2, <1>3
  <2>2. /\ SubSeq(trail, 1, n) \in Seq(Entries) /\ Len(SubSeq(trail, 1, n)) = n
        /\ \A i \in 1 .. n : SubSeq(trail, 1, n)[i] = trail[i]
    BY <1>2, BeginningsDiffer DEF AnchoringInv
  <2>3. /\ SubSeq(trail', 1, n) \in Seq(Entries) /\ Len(SubSeq(trail', 1, n)) = n
        /\ \A i \in 1 .. n : SubSeq(trail', 1, n)[i] = trail'[i]
    BY <1>3, <1>5, <2>1, BeginningsDiffer
  <2>4. \A i \in 1 .. n : SubSeq(trail', 1, n)[i] = SubSeq(trail, 1, n)[i]
    <3>1. \A i \in 1 .. n : i \in 1 .. Len(trail)
      BY <1>2
    <3> QED BY <1>3, <2>2, <2>3, <3>1
  <2> QED BY <2>1, <2>2, <2>3, <2>4, SeqEqual
<1>7. ASSUME NEW b, Known(b) PROVE Known(b)'
  <2>1. Anc!Stubs' = Anc!Stubs
    BY DEF Anc!Stubs
  <2> QED BY <1>6, <1>7, <2>1 DEF Known
<1> QED BY <1>3, <1>5, <1>7

\* Every step of Anchoring preserves the invariant.
LEMMA AnchoringNext ==
    ASSUME AnchoringInv, Anc!Next \/ UNCHANGED anchoringVars
    PROVE  AnchoringInv'
<1>1. CASE Anc!AppendEntry
  <2>1. attempt' = attempt /\ anchored' = anchored
    BY <1>1 DEF Anc!AppendEntry
  <2> QED BY <1>1, <2>1, AppendKeeps DEF AnchoringInv
<1>2. ASSUME UNCHANGED trail, NEW b PROVE Known(b)' <=> Known(b)
  BY <1>2 DEF Known, Anc!Stubs
<1>3. CASE Anc!ReadTrail
  <2>1. UNCHANGED trail /\ anchored' = anchored /\ attempt' \in Anc!Stubs \cup ({trail} \ {<<>>})
    BY <1>3 DEF Anc!ReadTrail
  <2>2. trail # <<>> => Known(trail)
    <3>1. SUFFICES ASSUME trail # <<>> PROVE Known(trail)
      OBVIOUS
    <3>2. trail = SubSeq(trail, 1, Len(trail)) /\ Len(trail) \in Nat \ {0}
      BY <3>1, SubSeqFull, EmptySeq DEF AnchoringInv
    <3>3. Len(trail) \in 1 .. Len(trail)
      BY <3>2
    <3> QED BY <3>2, <3>3, Zenon DEF Known
  <2>3. Known(attempt')
    BY <2>1, <2>2 DEF Known
  <2> QED BY <1>2, <2>1, <2>3 DEF AnchoringInv
<1>4. CASE Anc!Release
  <2>1. /\ UNCHANGED trail /\ attempt' = <<>> /\ Known(attempt)
        /\ anchored'.entries = attempt /\ anchored'.root = Anc!ComputeRoot(attempt)
    BY <1>4 DEF Anc!Release, AnchoringInv
  <2> QED BY <1>2, <2>1 DEF AnchoringInv
<1>5. CASE Anc!ReleaseFails
  <2>1. UNCHANGED trail /\ attempt' = <<>> /\ anchored' = anchored
    BY <1>5 DEF Anc!ReleaseFails
  <2> QED BY <1>2, <2>1 DEF AnchoringInv
<1>6. CASE UNCHANGED anchoringVars
  <2>1. UNCHANGED trail /\ attempt' = attempt /\ anchored' = anchored
    BY <1>6 DEF anchoringVars
  <2> QED BY <1>2, <2>1 DEF AnchoringInv
<1> QED BY <1>1, <1>3, <1>4, <1>5, <1>6 DEF Anc!Next

\* Under the invariant, an entry has a proof just if it was anchored.
LEMMA ProofsHold ==
    ASSUME AnchoringInv
    PROVE  ProofsVerify
<1> SUFFICES ASSUME anchored # Anc!NotAnchored PROVE Anc!ProofsVerify
  BY DEF ProofsVerify, Anc!ProofsVerify
<1> DEFINE entries == anchored.entries
<1>1. Known(entries) /\ anchored.root = Anc!ComputeRoot(entries)
  BY DEF AnchoringInv
<1>2. entries \in Seq(Nat \ {0}) /\ entries # <<>>
  BY <1>1, KnownIs
<1> HIDE DEF entries
<1>3. ASSUME NEW b, Known(b)
      PROVE  Anc!ComputeRoot(b) = anchored.root <=> b = entries
  <2>1. b \in Seq(Nat \ {0}) /\ b # <<>> /\ (Range(b) = Range(entries) => b = entries)
    BY <1>1, <1>3, KnownIs
  <2>2. Range(Anc!ComputeRoot(b)) \ {0} = Range(b)
        /\ Range(Anc!ComputeRoot(entries)) \ {0} = Range(entries)
    BY <1>2, <2>1, RootTellsEntries
  <2> QED BY <1>1, <2>1, <2>2
<1>4. \A b \in {SubSeq(trail, 1, n) : n \in 1 .. Len(trail)} \cup Anc!Stubs :
         Anc!ComputeRoot(b) = anchored.root <=> b = entries
  BY <1>3 DEF Known
<1>5. Anc!IsPrefix(entries, trail) \/ entries \in Anc!Stubs
  <2>1. SUFFICES ASSUME NEW n \in 1 .. Len(trail), entries = SubSeq(trail, 1, n)
                 PROVE  Anc!IsPrefix(entries, trail)
    BY <1>1 DEF Known
  <2>2. Len(entries) = n
    BY <2>1, BeginningsDiffer DEF AnchoringInv
  <2>3. SubSeq(entries, 1, Len(entries)) = entries
    BY <1>2, SubSeqFull
  <2>4. n <= Len(trail)
    BY LenProperties DEF AnchoringInv
  <2> QED BY <2>1, <2>2, <2>3, <2>4 DEF Anc!IsPrefix
<1>6. ASSUME NEW i \in DOMAIN entries, NEW e \in Anc!ToSet(trail) \cup Anc!ToSet(entries)
      PROVE  Anc!VerifyProof(anchored.root, e, Anc!GenerateProof(entries, i - 1)) <=> e = entries[i]
  <2>1. i \in 1 .. Len(entries) /\ \A k \in DOMAIN entries : entries[k] \in Nat \ {0}
    BY <1>2, LenProperties, ElementOfSeq
  <2>2. \A k \in DOMAIN trail : trail[k] \in Nat \ {0}
    <3>1. DOMAIN trail = 1 .. Len(trail) /\ trail \in Seq(Entries)
      BY LenProperties DEF AnchoringInv
    <3>2. Entries \subseteq Nat \ {0}
      BY ServicesAssumption DEF Anc!AnchoringAssumption
    <3> QED BY <3>1, <3>2, ElementOfSeq
  <2>3. e \in Nat \ {0}
    BY <2>1, <2>2 DEF Anc!ToSet
  <2> QED BY <1>1, <1>2, <2>1, <2>3, ProofLeadsToRoot
<1> QED BY <1>4, <1>5, <1>6 DEF Anc!ProofsVerify, entries

\* What is on the chain is a beginning of the trail or a stub, the trail repeats no
\* entry, and the root is that of what was read.
THEOREM AnchoringInvariant == MCSpec => []AnchoringInv
<1>1. MCInit => AnchoringInv
  BY OwnInit, AnchoringInit
<1>2. ASSUME AnchoringInv,
             [MCNext]_<<focus, vars, accountVars, treasuryVars, priceVars, memoryVars,
                        streamVars, sessionVars, anchoringVars, breakerVars, profileVars>>
      PROVE  AnchoringInv'
  BY <1>2, OwnNext, AnchoringNext
<1> QED BY <1>1, <1>2, PTL DEF MCSpec

\* An anchored root tells what was hashed, and a proof leads the entry at its
\* position to it and no other (MerkleService, release_escrow), for trails of any
\* length.
THEOREM ProofsDoVerify == MCSpec => []ProofsVerify
<1>1. AnchoringInv => ProofsVerify
  BY ProofsHold
<1> QED BY <1>1, AnchoringInvariant, PTL

----------------------------------------------------------------------------
(* AgentMemory: sequences of sequences. *)

\* Concatenation is associative.
Associative(T) == \A a, b, c \in T : (a \o b) \o c = a \o (b \o c)

LEMMA Associate ==
    ASSUME NEW S
    PROVE  Associative(Seq(S))
BY DEF Associative

\* FlattenSeq satisfies the equation that defines it.
LEMMA FlattenIs ==
    ASSUME NEW S, NEW ss \in Seq(Seq(S)), ss # <<>>
    PROVE  \E f \in [1 .. Len(ss) -> Seq(S)] :
              /\ f[1] = ss[1]
              /\ \A i \in 2 .. Len(ss) : f[i] = f[i - 1] \o ss[i]
              /\ Mem!FlattenSeq(ss) = f[Len(ss)]
<1> DEFINE n == Len(ss)
           is(w) == w = [i \in 1 .. n |-> IF i = 1 THEN ss[i] ELSE w[i - 1] \o ss[i]]
           F == [i \in 1 .. n |-> [x \in Seq(S) |-> IF i = 1 THEN ss[1] ELSE x \o ss[i]]]
<1>1. n \in Nat /\ n > 0 /\ \A i \in 1 .. n : ss[i] \in Seq(S)
  BY EmptySeq, ElementOfSeq
<1> HIDE DEF n
<1>2. 1 \in 1 .. n /\ n \in 1 .. n /\ <<>> \in Seq(S)
  BY <1>1
<1>3. F \in [1 .. n -> [Seq(S) -> Seq(S)]]
  BY <1>1
<1>4. PICK g \in [0 .. n -> Seq(S)] : Iterates(F, <<>>, n, g)
  <2> HIDE DEF F
  <2> QED BY <1>1, <1>2, <1>3, LoopRuns
<1> DEFINE f == [i \in 1 .. n |-> g[i]]
<1>5. ASSUME NEW i \in 1 .. n
      PROVE  f[i] \in Seq(S) /\ f[i] = IF i = 1 THEN ss[i] ELSE f[i - 1] \o ss[i]
  <2>1. i \in 0 .. n /\ i # 0 /\ i - 1 \in 0 .. n
    BY <1>1
  <2>2. g[i] = F[i][g[i - 1]] /\ g[i] \in Seq(S) /\ g[i - 1] \in Seq(S)
    <3> HIDE DEF F
    <3> QED BY <1>4, <2>1 DEF Iterates
  <2>3. g[i] = IF i = 1 THEN ss[1] ELSE g[i - 1] \o ss[i]
    BY <2>2
  <2>4. i # 1 => f[i - 1] = g[i - 1]
    BY <1>1
  <2> QED BY <2>2, <2>3, <2>4
<1>6. is(f)
  <2>1. f = [i \in 1 .. n |-> f[i]]
    OBVIOUS
  <2> HIDE DEF f
  <2> QED BY <1>5, <2>1
<1> HIDE DEF f
<1>7. PICK w : w = (CHOOSE v : is(v)) /\ is(w)
  <2> HIDE DEF is
  <2> QED BY <1>6, Zenon
<1>8. DOMAIN w = 1 .. n /\ \A i \in 1 .. n : w[i] = IF i = 1 THEN ss[i] ELSE w[i - 1] \o ss[i]
  BY <1>7
<1>9. \A i \in 1 .. n : w[i] \in Seq(S)
  <2> DEFINE T == {i \in Nat : i + 1 \in 1 .. n => w[i + 1] \in Seq(S)}
  <2>1. 0 \in T
    <3>1. w[1] = ss[1] /\ ss[1] \in Seq(S)
      BY <1>1, <1>2, <1>8
    <3> QED BY <3>1
  <2>2. ASSUME NEW i \in 1 .. n, i - 1 \in T PROVE i \in T
    <3>1. SUFFICES ASSUME i + 1 \in 1 .. n PROVE w[i + 1] \in Seq(S)
      BY <1>1
    <3>2. i - 1 + 1 = i /\ i + 1 - 1 = i /\ i + 1 # 1
      BY <1>1
    <3>3. w[i] \in Seq(S)
      BY <2>2, <3>2
    <3>4. PICK k \in 1 .. n : k = i + 1 /\ k # 1 /\ k - 1 = i
      BY <3>1, <3>2
    <3>5. w[k] = w[k - 1] \o ss[k]
      BY <1>8, <3>4, Zenon
    <3>6. ss[i + 1] \in Seq(S)
      BY <1>1, <3>1
    <3>7. w[i] \o ss[i + 1] \in Seq(S)
      BY <3>3, <3>6, ConcatProperties
    <3> QED BY <3>4, <3>5, <3>7
  <2> HIDE DEF T
  <2>3. \A i \in 0 .. n : i \in T
    BY <1>1, <2>1, <2>2, UpTo
  <2>4. ASSUME NEW i \in 1 .. n PROVE w[i] \in Seq(S)
    <3>1. i - 1 \in 0 .. n /\ i - 1 + 1 = i
      BY <1>1
    <3>2. i - 1 \in T
      BY <2>3, <3>1
    <3> QED BY <3>1, <3>2 DEF T
  <2> QED BY <2>4
<1>10. w \in [1 .. n -> Seq(S)]
  <2>1. w = [i \in 1 .. n |-> w[i]]
    BY <1>7
  <2> QED BY <1>9, <2>1
<1>11. Mem!FlattenSeq(ss) = w[n]
  BY <1>1, <1>7 DEF Mem!FlattenSeq, n
<1>12. w[1] = ss[1] /\ \A i \in 2 .. n : w[i] = w[i - 1] \o ss[i]
  <2>1. w[1] = ss[1]
    BY <1>2, <1>8, Zenon
  <2>2. ASSUME NEW i \in 2 .. n PROVE w[i] = w[i - 1] \o ss[i]
    <3>1. i \in 1 .. n /\ i # 1
      BY <1>1
    <3> QED BY <1>8, <3>1, Zenon
  <2> QED BY <2>1, <2>2
<1> QED BY <1>10, <1>11, <1>12 DEF n

\* Flattening distributes over concatenation.
LEMMA FlattenConcat ==
    ASSUME NEW S, NEW ss \in Seq(Seq(S)), NEW tt \in Seq(Seq(S))
    PROVE  /\ Mem!FlattenSeq(<<>>) = <<>>
           /\ Mem!FlattenSeq(ss) \in Seq(S)
           /\ Mem!FlattenSeq(ss \o tt) = Mem!FlattenSeq(ss) \o Mem!FlattenSeq(tt)
<1>1. Mem!FlattenSeq(<<>>) = <<>> /\ <<>> \in Seq(S)
  BY EmptySeq DEF Mem!FlattenSeq
<1>a. Associative(Seq(S))
  BY Associate
<1>2. ASSUME NEW rr \in Seq(Seq(S)) PROVE Mem!FlattenSeq(rr) \in Seq(S)
  <2>1. CASE rr = <<>>
    BY <1>1, <2>1
  <2>2. CASE rr # <<>>
    <3>1. PICK f \in [1 .. Len(rr) -> Seq(S)] : Mem!FlattenSeq(rr) = f[Len(rr)]
      BY <2>2, FlattenIs, Zenon
    <3>2. Len(rr) \in 1 .. Len(rr)
      BY <2>2, EmptySeq
    <3> QED BY <3>1, <3>2
  <2> QED BY <2>1, <2>2
<1>3. CASE ss = <<>>
  <2>1. ss \o tt = tt
    BY <1>3, ConcatEmptySeq
  <2>2. <<>> \o Mem!FlattenSeq(tt) = Mem!FlattenSeq(tt)
    BY <1>2, ConcatEmptySeq
  <2> QED BY <1>1, <1>2, <1>3, <2>1, <2>2
<1>4. CASE tt = <<>>
  <2>1. ss \o tt = ss
    BY <1>4, ConcatEmptySeq
  <2>2. Mem!FlattenSeq(ss) \o <<>> = Mem!FlattenSeq(ss)
    BY <1>2, ConcatEmptySeq
  <2> QED BY <1>1, <1>2, <1>4, <2>1, <2>2
<1>5. CASE ss # <<>> /\ tt # <<>>
  <2>0. PICK n, m, l, u : n = Len(ss) /\ m = Len(tt) /\ u = ss \o tt /\ l = Len(u)
    OBVIOUS
  <2>1. /\ n \in Nat /\ m \in Nat /\ l \in Nat /\ u \in Seq(Seq(S))
        /\ n = Len(ss) /\ m = Len(tt) /\ u = ss \o tt
        /\ n > 0 /\ m > 0 /\ u # <<>> /\ Len(u) = l /\ l = n + m
        /\ \A i \in 1 .. n : u[i] = ss[i]
        /\ \A i \in 1 .. m : u[n + i] = tt[i]
    <3>1. ss \o tt \in Seq(Seq(S)) /\ Len(ss \o tt) = Len(ss) + Len(tt)
      BY ConcatProperties
    <3>2. Len(ss) \in Nat /\ Len(tt) \in Nat /\ Len(ss) > 0 /\ Len(tt) > 0
      BY <1>5, EmptySeq
    <3>3. ss \o tt # <<>>
      BY <3>1, <3>2, EmptySeq
    <3>4. \A i \in 1 .. Len(ss) : (ss \o tt)[i] = ss[i]
      BY ConcatProperties
    <3>5. \A i \in 1 .. Len(tt) : (ss \o tt)[Len(ss) + i] = tt[i]
      OBVIOUS
    <3>6. n + m \in Nat
      BY <2>0, <3>2
    <3> QED BY <2>0, <3>1, <3>2, <3>3, <3>4, <3>5, <3>6, Zenon
  <2>2. PICK f \in [1 .. n -> Seq(S)] :
            /\ f[1] = ss[1]
            /\ \A i \in 2 .. n : f[i] = f[i - 1] \o ss[i]
            /\ Mem!FlattenSeq(ss) = f[n]
    BY <1>5, <2>1, FlattenIs, Zenon
  <2>3. PICK h \in [1 .. m -> Seq(S)] :
            /\ h[1] = tt[1]
            /\ \A i \in 2 .. m : h[i] = h[i - 1] \o tt[i]
            /\ Mem!FlattenSeq(tt) = h[m]
    BY <1>5, <2>1, FlattenIs, Zenon
  <2>4. PICK g \in [1 .. l -> Seq(S)] :
            /\ g[1] = u[1]
            /\ \A i \in 2 .. l : g[i] = g[i - 1] \o u[i]
            /\ Mem!FlattenSeq(u) = g[l]
    <3>1. u \in Seq(Seq(S)) /\ u # <<>> /\ Len(u) = l
      BY <2>1
    <3> QED BY <3>1, FlattenIs, Zenon
  <2>5. g[n] = f[n]
    <3> DEFINE T == {i \in Nat : i + 1 \in 1 .. n => g[i + 1] = f[i + 1]}
    <3>1. 0 \in T
      <4>1. g[1] = f[1]
        BY <2>1, <2>2, <2>4
      <4> QED BY <4>1
    <3>2. ASSUME NEW i \in 1 .. n, i - 1 \in T PROVE i \in T
      <4>1. SUFFICES ASSUME i + 1 \in 1 .. n PROVE g[i + 1] = f[i + 1]
        OBVIOUS
      <4>2. i - 1 + 1 = i /\ i \in 1 .. n
        OBVIOUS
      <4>3. g[i] = f[i]
        BY <3>2, <4>2
      <4>4. PICK k : k = i + 1
        OBVIOUS
      <4>5. k - 1 = i /\ k \in 2 .. n /\ k \in 2 .. l
        BY <2>1, <4>1, <4>4
      <4>6. g[k] = g[k - 1] \o u[k] /\ f[k] = f[k - 1] \o ss[k]
        BY <2>2, <2>4, <4>5, Zenon
      <4>7. u[k] = ss[k]
        BY <2>1, <4>1, <4>4
      <4> QED BY <4>3, <4>4, <4>5, <4>6, <4>7, Zenon
    <3> HIDE DEF T
    <3>3. \A i \in 0 .. n : i \in T
      <4>1. n \in Nat
        BY <2>1
      <4> QED BY <3>1, <3>2, <4>1, UpTo
    <3>4. n - 1 \in 0 .. n /\ n - 1 + 1 = n /\ n \in 1 .. n
      BY <2>1
    <3>5. n - 1 \in T
      BY <3>3, <3>4
    <3> QED BY <3>4, <3>5 DEF T
  <2>6. f[n] \in Seq(S)
    <3>1. n \in 1 .. n
      BY <2>1
    <3> QED BY <3>1
  <2>7. g[l] = f[n] \o h[m]
    <3> DEFINE eq(i) == g[n + (i + 1)] = f[n] \o h[i + 1]
               T == {i \in Nat : i + 1 \in 1 .. m => eq(i)}
    <3>1. 0 \in T
      <4>1. PICK k : k = n + 1
        OBVIOUS
      <4>2. k - 1 = n /\ k \in 2 .. l
        BY <2>1, <4>1
      <4>3. g[k] = g[k - 1] \o u[k]
        BY <2>4, <4>2, Zenon
      <4>4. u[k] = h[1]
        BY <2>1, <2>3, <4>1
      <4>5. g[k] = f[n] \o h[1]
        BY <2>5, <4>2, <4>3, <4>4, Zenon
      <4>6. 0 + 1 = 1
        OBVIOUS
      <4>7. eq(0)
        BY <4>1, <4>5, <4>6, Zenon
      <4> HIDE DEF eq
      <4> QED BY <4>7
    <3>2. ASSUME NEW i \in 1 .. m, i - 1 \in T PROVE i \in T
      <4> SUFFICES ASSUME i + 1 \in 1 .. m PROVE eq(i)
        <5> HIDE DEF eq
        <5> QED OBVIOUS
      <4>1. i + 1 \in 1 .. m
        OBVIOUS
      <4>2. i - 1 + 1 = i /\ i \in 1 .. m
        OBVIOUS
      <4>3. g[n + i] = f[n] \o h[i]
        <5>1. eq(i - 1)
          <6> HIDE DEF eq
          <6> QED BY <3>2, <4>2
        <5> QED BY <4>2, <5>1, Zenon
      <4>4. PICK k, q : k = n + (i + 1) /\ q = i + 1
        OBVIOUS
      <4>5. k - 1 = n + i /\ k \in 2 .. l /\ q - 1 = i /\ q \in 2 .. m
        BY <2>1, <4>1, <4>4
      <4>6. g[k] = g[k - 1] \o u[k] /\ h[q] = h[q - 1] \o tt[q]
        BY <2>3, <2>4, <4>5, Zenon
      <4>7. u[k] = tt[q] /\ tt[q] \in Seq(S)
        <5>1. u[k] = tt[q]
          BY <2>1, <4>1, <4>4
        <5>2. q \in 1 .. Len(tt)
          BY <2>1, <4>1, <4>4
        <5> QED BY <5>1, <5>2, ElementOfSeq
      <4>8. h[i] \in Seq(S)
        BY <4>2
      <4>10. (f[n] \o h[i]) \o tt[q] = f[n] \o (h[i] \o tt[q])
        BY <2>6, <4>7, <4>8, <1>a, Zenon DEF Associative
      <4>11. g[k] = f[n] \o h[q]
        BY <4>3, <4>5, <4>6, <4>7, <4>10, Zenon
      <4> QED BY <4>4, <4>11, Zenon
    <3> HIDE DEF T
    <3>3. \A i \in 0 .. m : i \in T
      <4>1. m \in Nat
        BY <2>1
      <4> QED BY <3>1, <3>2, <4>1, UpTo
    <3>4. m - 1 \in 0 .. m /\ m - 1 + 1 = m /\ m \in 1 .. m /\ n + m = l
      BY <2>1
    <3>5. m - 1 \in T
      BY <3>3, <3>4
    <3>6. eq(m - 1)
      <4> HIDE DEF eq
      <4> QED BY <3>4, <3>5 DEF T
    <3> QED BY <3>4, <3>6, Zenon
  <2> QED BY <1>1, <1>2, <2>1, <2>2, <2>3, <2>4, <2>7
<1> QED BY <1>3, <1>4, <1>5

\* Flattening a sequence more.
LEMMA FlattenAppend ==
    ASSUME NEW S, NEW ss \in Seq(Seq(S)), NEW s \in Seq(S)
    PROVE  Mem!FlattenSeq(Append(ss, s)) = Mem!FlattenSeq(ss) \o s
<1>1. <<s>> \in Seq(Seq(S)) /\ <<s>> # <<>> /\ Len(<<s>>) = 1 /\ <<s>>[1] = s
  OBVIOUS
<1>2. Mem!FlattenSeq(<<s>>) = s
  <2>1. PICK z \in Seq(Seq(S)) : z = <<s>>
    BY <1>1
  <2>2. z # <<>> /\ Len(z) = 1 /\ z[1] = s
    BY <1>1, <2>1
  <2>3. PICK f \in [1 .. Len(z) -> Seq(S)] : f[1] = z[1] /\ Mem!FlattenSeq(z) = f[Len(z)]
    BY <2>2, FlattenIs, Zenon
  <2> QED BY <2>1, <2>2, <2>3
<1>3. Append(ss, s) = ss \o <<s>>
  BY AppendIsConcat
<1>4. Mem!FlattenSeq(ss \o <<s>>) = Mem!FlattenSeq(ss) \o Mem!FlattenSeq(<<s>>)
  BY <1>1, FlattenConcat
<1> QED BY <1>2, <1>3, <1>4

----------------------------------------------------------------------------
(* AgentMemory: chunks. *)

Ids == Nat \X Nat

Chunk == [sentences : Seq(Ids), size : Nat]

\* Chunks that split makes: no longer than they may be, or of one sentence.
FitChunk == {c \in Chunk : c.size <= MaxChars \/ Len(c.sentences) = 1}

Progress == [chunks : Seq(FitChunk), current : FitChunk]

\* The sentences in chunks, and in what split has after a step.
Held(chunks) == Mem!FlattenSeq([i \in DOMAIN chunks |-> chunks[i].sentences])

AllHeld(state) == Held(state.chunks) \o state.current.sentences

\* The sentences of chunks, chunk by chunk.
LEMMA HeldIs ==
    ASSUME NEW a \in Seq(Chunk)
    PROVE  /\ Held(<<>>) = <<>>
           /\ [i \in DOMAIN a |-> a[i].sentences] \in Seq(Seq(Ids))
           /\ Held(a) \in Seq(Ids)
<1>1. PICK w : w = [i \in DOMAIN a |-> a[i].sentences]
  OBVIOUS
<1>2. w \in Seq(Seq(Ids))
  <2>1. DOMAIN a = 1 .. Len(a) /\ Len(a) \in Nat
    BY LenProperties
  <2>2. ASSUME NEW i \in 1 .. Len(a) PROVE a[i].sentences \in Seq(Ids)
    <3>1. a[i] \in Chunk
      BY ElementOfSeq
    <3> QED BY <3>1 DEF Chunk
  <2>3. w \in [1 .. Len(a) -> Seq(Ids)]
    BY <1>1, <2>1, <2>2
  <2> QED BY <2>1, <2>3
<1>3. Mem!FlattenSeq(w) \in Seq(Ids) /\ Mem!FlattenSeq(<<>>) = <<>>
  BY <1>2, FlattenConcat
<1>4. Held(<<>>) = <<>>
  <2>1. [i \in DOMAIN <<>> |-> <<>>[i].sentences] = <<>>
    OBVIOUS
  <2> QED BY <1>3, <2>1 DEF Held
<1> QED BY <1>1, <1>2, <1>3, <1>4, Zenon DEF Held

\* What chunks of two lists hold.
LEMMA HeldConcat ==
    ASSUME NEW a \in Seq(Chunk), NEW b \in Seq(Chunk)
    PROVE  Held(a \o b) = Held(a) \o Held(b)
<1>1. PICK v, w : /\ v = [i \in DOMAIN a |-> a[i].sentences]
                  /\ w = [i \in DOMAIN b |-> b[i].sentences]
  OBVIOUS
<1>2. v \in Seq(Seq(Ids)) /\ w \in Seq(Seq(Ids))
  BY <1>1, HeldIs, Zenon
<1>3. [i \in DOMAIN (a \o b) |-> (a \o b)[i].sentences] = v \o w
  <2>1. PICK c \in Seq(Chunk) : c = a \o b
    BY ConcatProperties
  <2>2. /\ Len(a) \in Nat /\ Len(b) \in Nat
        /\ DOMAIN a = 1 .. Len(a) /\ DOMAIN b = 1 .. Len(b)
        /\ DOMAIN c = 1 .. Len(a) + Len(b)
    BY <2>1, LenProperties
  <2>3. ASSUME NEW i \in 1 .. Len(a) + Len(b)
        PROVE  c[i] = IF i <= Len(a) THEN a[i] ELSE b[i - Len(a)]
    BY <2>1, <2>2
  <2>4. Len(v) = Len(a) /\ Len(w) = Len(b)
    BY <1>1, <1>2, <2>2
  <2>5. PICK x : x = v \o w
    OBVIOUS
  <2>6. x \in Seq(Seq(Ids)) /\ Len(x) = Len(a) + Len(b)
    <3>1. v \o w \in Seq(Seq(Ids)) /\ Len(v \o w) = Len(v) + Len(w)
      BY <1>2, ConcatProperties
    <3> QED BY <2>4, <2>5, <3>1, Zenon
  <2>7. ASSUME NEW i \in 1 .. Len(a) + Len(b)
        PROVE  x[i] = c[i].sentences
    <3>1. CASE i <= Len(a)
      <4>1. x[i] = v[i]
        BY <1>2, <2>2, <2>4, <2>5, <3>1
      <4> QED BY <1>1, <2>2, <2>3, <3>1, <4>1
    <3>2. CASE ~ (i <= Len(a))
      <4>1. i - Len(a) \in 1 .. Len(b)
        BY <2>2, <3>2
      <4>2. x[i] = w[i - Len(a)]
        BY <1>2, <2>2, <2>4, <2>5, <3>2
      <4> QED BY <1>1, <2>2, <2>3, <3>2, <4>1, <4>2
    <3> QED BY <3>1, <3>2
  <2>8. x = [i \in 1 .. Len(x) |-> x[i]]
    BY <2>6
  <2>9. x = [i \in DOMAIN c |-> c[i].sentences]
    BY <2>2, <2>6, <2>7, <2>8
  <2> QED BY <2>1, <2>5, <2>9, Zenon
<1>4. Mem!FlattenSeq(v \o w) = Mem!FlattenSeq(v) \o Mem!FlattenSeq(w)
  BY <1>2, FlattenConcat
<1> QED BY <1>1, <1>3, <1>4, Zenon DEF Held

\* What one chunk more holds.
LEMMA HeldAppend ==
    ASSUME NEW a \in Seq(Chunk), NEW c \in Chunk
    PROVE  Held(Append(a, c)) = Held(a) \o c.sentences
<1>1. <<c>> \in Seq(Chunk) /\ Append(a, c) = a \o <<c>>
  BY AppendIsConcat
<1>2. Held(<<c>>) = c.sentences
  <2>1. PICK s \in Seq(Ids) : s = c.sentences
    BY DEF Chunk
  <2>2. Append(<<>>, s) = <<s>> /\ <<>> \in Seq(Seq(Ids)) /\ <<>> \in Seq(Ids)
    BY EmptySeq
  <2>3. Mem!FlattenSeq(<<s>>) = Mem!FlattenSeq(<<>>) \o s /\ Mem!FlattenSeq(<<>>) = <<>>
    BY <2>2, FlattenAppend, FlattenConcat
  <2>4. <<>> \o s = s
    BY ConcatEmptySeq
  <2>5. [i \in DOMAIN <<c>> |-> <<c>>[i].sentences] = <<s>>
    BY <2>1
  <2> QED BY <2>1, <2>3, <2>4, <2>5, Zenon DEF Held
<1>3. Held(a \o <<c>>) = Held(a) \o Held(<<c>>)
  BY <1>1, HeldConcat
<1> QED BY <1>1, <1>2, <1>3, Zenon

\* The constants are numbers.
LEMMA Bounds ==
    /\ MaxChars \in Nat \ {0} /\ Overlap \in Nat
    /\ Texts \subseteq Seq(Seq(Nat \ {0}) \ {<<>>})
BY ServicesAssumption DEF ServicesAssumption, Mem!MemoryAssumption

\* Where a sentence still fits.
LEMMA Fitting ==
    /\ Seq(FitChunk) \subseteq Seq(Chunk)
    /\ FitChunk \subseteq Chunk
    /\ Mem!Empty \in FitChunk /\ Mem!Empty.sentences = <<>> /\ Mem!Empty.size = 0
    /\ Mem!Start \in Progress /\ AllHeld(Mem!Start) = <<>>
<1>1. FitChunk \subseteq Chunk /\ Seq(FitChunk) \subseteq Seq(Chunk)
  BY DEF FitChunk
<1>2. Mem!Empty \in FitChunk /\ Mem!Empty.sentences = <<>> /\ Mem!Empty.size = 0
  <2>1. <<>> \in Seq(Ids) /\ 0 \in Nat /\ 0 <= MaxChars
    BY Bounds, EmptySeq
  <2> QED BY <2>1 DEF Mem!Empty, FitChunk, Chunk
<1>3. Mem!Start \in Progress
  BY <1>2, EmptySeq DEF Mem!Start, Progress
<1>4. AllHeld(Mem!Start) = <<>>
  <2>1. Held(<<>>) = <<>>
    <3>1. <<>> \in Seq(Chunk)
      BY EmptySeq
    <3> QED BY <3>1, HeldIs
  <2>2. Mem!Start.chunks = <<>> /\ Mem!Start.current = Mem!Empty
    BY DEF Mem!Start
  <2>3. <<>> \o <<>> = <<>>
    BY ConcatEmptySeq, EmptySeq
  <2> QED BY <1>2, <2>1, <2>2, <2>3, Zenon DEF AllHeld
<1> QED BY <1>1, <1>2, <1>3, <1>4

\* The state of a split, part by part.
LEMMA ProgressIs ==
    ASSUME NEW state \in Progress
    PROVE  /\ state = [chunks |-> state.chunks, current |-> state.current]
           /\ state.chunks \in Seq(FitChunk) /\ state.chunks \in Seq(Chunk)
           /\ state.current \in FitChunk /\ state.current \in Chunk
           /\ state.current.sentences \in Seq(Ids) /\ state.current.size \in Nat
           /\ Held(state.chunks) \in Seq(Ids)
           /\ AllHeld(state) \in Seq(Ids)
<1>1. /\ state = [chunks |-> state.chunks, current |-> state.current]
      /\ state.chunks \in Seq(FitChunk)
      /\ state.current \in FitChunk
  BY DEF Progress
<1>2. state.chunks \in Seq(Chunk) /\ state.current \in Chunk
  BY <1>1, Fitting
<1>3. state.current.sentences \in Seq(Ids) /\ state.current.size \in Nat
  BY <1>2 DEF Chunk
<1>4. Held(state.chunks) \in Seq(Ids)
  BY <1>2, HeldIs
<1>5. Held(state.chunks) \o state.current.sentences \in Seq(Ids)
  BY <1>3, <1>4, ConcatProperties
<1> QED BY <1>1, <1>2, <1>3, <1>4, <1>5 DEF AllHeld

\* The chunks that are ready, and the one that is not.
LEMMA FlushedIs ==
    ASSUME NEW state \in Progress
    PROVE  /\ Mem!Flushed(state) \in Seq(FitChunk)
           /\ Mem!Flushed(state) \in Seq(Chunk)
           /\ Held(Mem!Flushed(state)) = AllHeld(state)
<1>1. /\ state.chunks \in Seq(FitChunk) /\ state.chunks \in Seq(Chunk)
      /\ state.current \in FitChunk /\ state.current \in Chunk
      /\ Held(state.chunks) \in Seq(Ids)
  BY ProgressIs
<1>2. CASE state.current = Mem!Empty
  <2>1. Mem!Flushed(state) = state.chunks
    BY <1>2 DEF Mem!Flushed
  <2>2. Held(state.chunks) \o <<>> = Held(state.chunks)
    BY <1>1, ConcatEmptySeq
  <2>3. state.current.sentences = <<>>
    BY <1>2, Fitting
  <2>4. AllHeld(state) = Held(state.chunks)
    BY <2>2, <2>3, Zenon DEF AllHeld
  <2> QED BY <1>1, <2>1, <2>4, Zenon
<1>3. CASE state.current # Mem!Empty
  <2>1. Mem!Flushed(state) = Append(state.chunks, state.current)
    BY <1>3 DEF Mem!Flushed
  <2>2. Append(state.chunks, state.current) \in Seq(FitChunk)
    BY <1>1, AppendProperties
  <2>3. Append(state.chunks, state.current) \in Seq(Chunk)
    BY <1>1, AppendProperties
  <2>4. Held(Append(state.chunks, state.current)) = AllHeld(state)
    BY <1>1, HeldAppend DEF AllHeld
  <2> QED BY <2>1, <2>2, <2>3, <2>4, Zenon
<1> QED BY <1>2, <1>3

\* A sentence or paragraph that fits is added to the current chunk.
LEMMA JoinedIs ==
    ASSUME NEW c \in Chunk, NEW p \in Chunk, NEW separator \in Nat
    PROVE  /\ Mem!Joined(c, p, separator) \in Chunk
           /\ Mem!Joined(c, p, separator).sentences = c.sentences \o p.sentences
           /\ Mem!Joined(c, p, separator).size <= c.size + (separator + p.size)
<1>1. /\ c.sentences \in Seq(Ids) /\ p.sentences \in Seq(Ids)
      /\ c.size \in Nat /\ p.size \in Nat
  BY DEF Chunk
<1>2. CASE c = Mem!Empty
  <2>1. Mem!Joined(c, p, separator) = p
    BY <1>2 DEF Mem!Joined
  <2>2. <<>> \o p.sentences = p.sentences
    BY <1>1, ConcatEmptySeq
  <2>3. c.sentences = <<>>
    BY <1>2, Fitting
  <2>4. c.sentences \o p.sentences = p.sentences
    BY <2>2, <2>3, Zenon
  <2>5. p.size <= c.size + (separator + p.size)
    BY <1>1
  <2> QED BY <2>1, <2>4, <2>5, Zenon
<1>3. CASE c # Mem!Empty
  <2>1. PICK s, z : s = c.sentences \o p.sentences /\ z = c.size + separator + p.size
    OBVIOUS
  <2>2. s \in Seq(Ids)
    BY <1>1, <2>1, ConcatProperties
  <2>3. z \in Nat /\ z <= c.size + (separator + p.size)
    <3>1. z = c.size + separator + p.size
      BY <2>1, Zenon
    <3> QED BY <1>1, <3>1
  <2>4. Mem!Joined(c, p, separator) = [sentences |-> s, size |-> z]
    BY <1>3, <2>1, Zenon DEF Mem!Joined
  <2>5. [sentences |-> s, size |-> z] \in Chunk
    BY <2>2, <2>3 DEF Chunk
  <2>6. /\ Mem!Joined(c, p, separator).sentences = s
        /\ Mem!Joined(c, p, separator).size = z
    BY <2>4
  <2> QED BY <2>1, <2>3, <2>4, <2>5, <2>6, Zenon
<1> QED BY <1>2, <1>3

\* A sentence more.
LEMMA TakeSentenceIs ==
    ASSUME NEW state \in Progress, NEW c \in FitChunk
    PROVE  /\ Mem!TakeSentence(state, c) \in Progress
           /\ AllHeld(Mem!TakeSentence(state, c)) = AllHeld(state) \o c.sentences
<1>1. /\ state = [chunks |-> state.chunks, current |-> state.current]
      /\ state.chunks \in Seq(FitChunk) /\ state.current \in Chunk
      /\ state.current.sentences \in Seq(Ids) /\ state.current.size \in Nat
      /\ Held(state.chunks) \in Seq(Ids)
  BY ProgressIs
<1>2. c \in Chunk /\ c.sentences \in Seq(Ids) /\ c.size \in Nat
  BY Fitting DEF Chunk
<1>3. CASE state.current.size + c.size + 1 <= MaxChars
  <2>1. PICK j : j = Mem!Joined(state.current, c, 1)
    OBVIOUS
  <2>2. /\ j \in Chunk /\ j.sentences = state.current.sentences \o c.sentences
        /\ j.size <= state.current.size + (1 + c.size)
    BY <1>1, <1>2, <2>1, JoinedIs
  <2>3. j \in FitChunk
    <3>1. j.size \in Nat
      BY <2>2 DEF Chunk
    <3>2. j.size <= MaxChars
      BY <1>1, <1>2, <1>3, <2>2, <3>1, Bounds
    <3> QED BY <2>2, <3>2 DEF FitChunk
  <2>4. Mem!TakeSentence(state, c) = [chunks |-> state.chunks, current |-> j]
    <3>1. Mem!TakeSentence(state, c) = [state EXCEPT !.current = Mem!Joined(@, c, 1)]
      BY <1>3 DEF Mem!TakeSentence
    <3> QED BY <1>1, <2>1, <3>1
  <2>5. PICK t : t = [chunks |-> state.chunks, current |-> j]
    OBVIOUS
  <2>6. t \in Progress /\ t.chunks = state.chunks /\ t.current = j
    BY <1>1, <2>3, <2>5 DEF Progress
  <2>7. Held(state.chunks) \o (state.current.sentences \o c.sentences)
            = (Held(state.chunks) \o state.current.sentences) \o c.sentences
    <3>1. Associative(Seq(Ids))
      BY Associate
    <3>2. /\ Held(state.chunks) \in Seq(Ids) /\ state.current.sentences \in Seq(Ids)
          /\ c.sentences \in Seq(Ids)
      BY <1>1, <1>2
    <3> QED BY <3>1, <3>2, Zenon DEF Associative
  <2> QED BY <2>2, <2>4, <2>5, <2>6, <2>7, Zenon DEF AllHeld
<1>4. CASE ~ (state.current.size + c.size + 1 <= MaxChars)
  <2>1. PICK f : f = Mem!Flushed(state)
    OBVIOUS
  <2>2. f \in Seq(FitChunk) /\ Held(f) = AllHeld(state)
    BY <2>1, FlushedIs
  <2>3. PICK t : t = [chunks |-> f, current |-> c]
    OBVIOUS
  <2>4. Mem!TakeSentence(state, c) = t
    BY <1>4, <2>1, <2>3, Zenon DEF Mem!TakeSentence
  <2>5. t \in Progress /\ t.chunks = f /\ t.current = c
    BY <2>2, <2>3 DEF Progress
  <2> QED BY <2>2, <2>4, <2>5, Zenon DEF AllHeld
<1> QED BY <1>3, <1>4

\* The places of the first n sentences of paragraph p.
Places(p, n) == [s \in 1 .. n |-> <<p, s>>]

\* One sentence more of a paragraph.
LEMMA PlacesAre ==
    ASSUME NEW p \in Nat
    PROVE  /\ Places(p, 0) = <<>>
           /\ \A n \in Nat : Places(p, n) \in Seq(Ids)
           /\ \A n \in Nat : n > 0 => Places(p, n) = Places(p, n - 1) \o <<<<p, n>>>>
<1>1. Places(p, 0) = <<>>
  BY DEF Places
<1>2. ASSUME NEW n \in Nat
      PROVE  /\ Places(p, n) \in Seq(Ids) /\ Len(Places(p, n)) = n
             /\ \A s \in 1 .. n : Places(p, n)[s] = <<p, s>>
  BY DEF Places, Ids
<1>3. ASSUME NEW n \in Nat, n > 0
      PROVE  Places(p, n) = Places(p, n - 1) \o <<<<p, n>>>>
  <2>1. PICK x, y, z, d : x = Places(p, n) /\ y = Places(p, n - 1) /\ d = <<p, n>> /\ z = <<d>>
    OBVIOUS
  <2>2. n - 1 \in Nat /\ d \in Ids
    BY <1>3, <2>1 DEF Ids
  <2>3. /\ x \in Seq(Ids) /\ Len(x) = n /\ \A s \in 1 .. n : x[s] = <<p, s>>
        /\ y \in Seq(Ids) /\ Len(y) = n - 1 /\ \A s \in 1 .. n - 1 : y[s] = <<p, s>>
    BY <1>2, <2>1, <2>2
  <2>4. x = y \o z
    <3>1. PICK w : w = Append(y, d)
      OBVIOUS
    <3>2. /\ w \in Seq(Ids) /\ Len(w) = Len(y) + 1
          /\ \A s \in 1 .. Len(y) : w[s] = y[s]
          /\ w[Len(y) + 1] = d
      BY <2>2, <2>3, <3>1, AppendProperties
    <3>6. Len(w) = n /\ Len(w) = Len(x) /\ w[n] = d
      <4>1. n - 1 + 1 = n
        OBVIOUS
      <4> QED BY <2>3, <3>2, <4>1, Zenon
    <3>3. ASSUME NEW s \in 1 .. n PROVE w[s] = x[s]
      <4>1. x[s] = <<p, s>>
        BY <2>3, Zenon
      <4>2. CASE s = n
        BY <2>1, <3>6, <4>1, <4>2, Zenon
      <4>3. CASE s # n
        <5>1. s \in 1 .. n - 1
          BY <4>3
        <5>2. w[s] = y[s] /\ y[s] = <<p, s>>
          BY <2>3, <3>2, <5>1, Zenon
        <5> QED BY <4>1, <5>2, Zenon
      <4> QED BY <4>2, <4>3
    <3>4. w = x
      <4>1. \A s \in 1 .. Len(w) : w[s] = x[s]
        BY <3>3, <3>6, Zenon
      <4> QED BY <2>3, <3>2, <3>6, <4>1, SeqEqual, Zenon
    <3>5. Append(y, d) = y \o z
      BY <2>1, <2>2, <2>3, AppendIsConcat
    <3> QED BY <3>1, <3>4, <3>5, Zenon
  <2> QED BY <2>1, <2>4, Zenon
<1> QED BY <1>1, <1>2, <1>3

\* A text, its paragraphs and their sentences.
LEMMA TextIs ==
    ASSUME NEW text \in Texts
    PROVE  /\ Len(text) \in Nat /\ DOMAIN text = 1 .. Len(text)
           /\ \A p \in 1 .. Len(text) :
                 /\ p \in Nat
                 /\ Len(text[p]) \in Nat /\ Len(text[p]) > 0
                 /\ DOMAIN text[p] = 1 .. Len(text[p])
                 /\ \A s \in 1 .. Len(text[p]) :
                       /\ Mem!SentenceOf(text, p, s) \in FitChunk
                       /\ Mem!SentenceOf(text, p, s).sentences = <<<<p, s>>>>
<1>1. text \in Seq(Seq(Nat \ {0}) \ {<<>>})
  BY Bounds
<1>2. Len(text) \in Nat /\ DOMAIN text = 1 .. Len(text)
  BY <1>1, LenProperties
<1>3. ASSUME NEW p \in 1 .. Len(text)
      PROVE  /\ p \in Nat
             /\ Len(text[p]) \in Nat /\ Len(text[p]) > 0
             /\ DOMAIN text[p] = 1 .. Len(text[p])
             /\ \A s \in 1 .. Len(text[p]) :
                   /\ Mem!SentenceOf(text, p, s) \in FitChunk
                   /\ Mem!SentenceOf(text, p, s).sentences = <<<<p, s>>>>
  <2>1. PICK q : q = text[p]
    OBVIOUS
  <2>2. q \in Seq(Nat \ {0}) /\ q # <<>> /\ p \in Nat
    <3>1. text[p] \in Seq(Nat \ {0}) \ {<<>>}
      BY <1>1, ElementOfSeq
    <3> QED BY <1>2, <2>1, <3>1
  <2>3. Len(q) \in Nat /\ Len(q) > 0 /\ DOMAIN q = 1 .. Len(q)
    BY <2>2, LenProperties, EmptySeq
  <2>4. ASSUME NEW s \in 1 .. Len(q)
        PROVE  /\ Mem!SentenceOf(text, p, s) \in FitChunk
               /\ Mem!SentenceOf(text, p, s).sentences = <<<<p, s>>>>
    <3>1. PICK d, z : d = <<<<p, s>>>> /\ z = q[s]
      OBVIOUS
    <3>2. d \in Seq(Ids) /\ Len(d) = 1
      BY <2>2, <2>3, <3>1 DEF Ids
    <3>3. z \in Nat
      <4>1. q[s] \in Nat \ {0}
        BY <2>2, ElementOfSeq
      <4> QED BY <3>1, <4>1
    <3>4. Mem!SentenceOf(text, p, s) = [sentences |-> d, size |-> z]
      BY <2>1, <3>1, Zenon DEF Mem!SentenceOf
    <3>5. [sentences |-> d, size |-> z] \in FitChunk
      BY <3>2, <3>3 DEF FitChunk, Chunk
    <3> QED BY <3>1, <3>4, <3>5
  <2> QED BY <2>1, <2>2, <2>3, <2>4, Zenon
<1> QED BY <1>2, <1>3

\* What the loop over the sentences of a paragraph computes.
LEMMA AfterSentencesAre ==
    ASSUME NEW text \in Texts, NEW p \in 1 .. Len(text)
    PROVE  /\ Mem!AfterSentences(text, p) \in [0 .. Len(text[p]) -> Progress]
           /\ Mem!AfterSentences(text, p)[0] = Mem!Start
           /\ \A s \in 1 .. Len(text[p]) :
                 Mem!AfterSentences(text, p)[s]
                    = Mem!TakeSentence(Mem!AfterSentences(text, p)[s - 1],
                                       Mem!SentenceOf(text, p, s))
<1> DEFINE n == Len(text[p])
           is(w) == w = [s \in 0 .. n |->
                           IF s = 0 THEN Mem!Start
                           ELSE Mem!TakeSentence(w[s - 1], Mem!SentenceOf(text, p, s))]
           f == [s \in 1 .. n |-> [x \in Progress |->
                                     Mem!TakeSentence(x, Mem!SentenceOf(text, p, s))]]
<1>1. Mem!AfterSentences(text, p) = CHOOSE w : is(w)
  BY Zenon DEF Mem!AfterSentences
<1>2. n \in Nat /\ \A s \in 1 .. n : Mem!SentenceOf(text, p, s) \in FitChunk
  BY TextIs
<1> HIDE DEF n
<1>3. ASSUME NEW s \in 1 .. n, NEW x \in Progress
      PROVE  Mem!TakeSentence(x, Mem!SentenceOf(text, p, s)) \in Progress
  BY <1>2, TakeSentenceIs
<1>4. f \in [1 .. n -> [Progress -> Progress]]
  BY <1>3
<1>5. Mem!Start \in Progress
  BY Fitting
<1>6. PICK g \in [0 .. n -> Progress] : Iterates(f, Mem!Start, n, g)
  <2> HIDE DEF f
  <2> QED BY <1>2, <1>4, <1>5, LoopRuns
<1>7. is(g)
  <2>1. ASSUME NEW s \in 0 .. n
        PROVE  (IF s = 0 THEN Mem!Start ELSE f[s][g[s - 1]])
                 = IF s = 0 THEN Mem!Start
                   ELSE Mem!TakeSentence(g[s - 1], Mem!SentenceOf(text, p, s))
    <3>1. CASE s = 0
      BY <3>1
    <3>2. CASE s # 0
      <4>1. s \in 1 .. n /\ g[s - 1] \in Progress
        BY <1>2, <3>2
      <4> QED BY <3>2, <4>1
    <3> QED BY <3>1, <3>2
  <2>2. g = [s \in 0 .. n |-> IF s = 0 THEN Mem!Start ELSE f[s][g[s - 1]]]
    BY <1>6 DEF Iterates
  <2> HIDE DEF f
  <2> QED BY <2>1, <2>2
<1>8. PICK w : w = (CHOOSE v : is(v)) /\ is(w)
  <2> HIDE DEF is
  <2> QED BY <1>7, Zenon
<1>9. /\ DOMAIN w = 0 .. n
      /\ \A s \in 0 .. n : w[s] = IF s = 0 THEN Mem!Start
                                  ELSE Mem!TakeSentence(w[s - 1], Mem!SentenceOf(text, p, s))
  BY <1>8
<1>10. /\ w[0] = Mem!Start
       /\ \A s \in 1 .. n : w[s] = Mem!TakeSentence(w[s - 1], Mem!SentenceOf(text, p, s))
  BY <1>2, <1>9
<1>11. \A s \in 0 .. n : w[s] \in Progress
  <2> DEFINE T == {s \in 0 .. n : w[s] \in Progress}
  <2>1. 0 \in T
    BY <1>2, <1>5, <1>10
  <2>2. ASSUME NEW s \in 1 .. n, s - 1 \in T PROVE s \in T
    <3>1. w[s - 1] \in Progress /\ s \in 0 .. n
      BY <1>2, <2>2
    <3>2. w[s] \in Progress
      BY <1>3, <1>10, <3>1
    <3> QED BY <3>1, <3>2
  <2> HIDE DEF T
  <2>3. \A s \in 0 .. n : s \in T
    BY <1>2, <2>1, <2>2, UpTo
  <2> QED BY <2>3 DEF T
<1>12. w \in [0 .. n -> Progress]
  <2>1. w = [s \in 0 .. n |-> w[s]]
    BY <1>8
  <2> QED BY <1>11, <2>1
<1> HIDE DEF is
<1> QED BY <1>1, <1>8, <1>10, <1>12, Zenon DEF n

\* A paragraph that is split keeps each of its sentences, in their order.
LEMMA SplitBySentencesIs ==
    ASSUME NEW text \in Texts, NEW p \in 1 .. Len(text)
    PROVE  /\ Mem!SplitBySentences(text, p) \in Seq(FitChunk)
           /\ Held(Mem!SplitBySentences(text, p)) = Places(p, Len(text[p]))
<1>1. PICK n, A : n = Len(text[p]) /\ A = Mem!AfterSentences(text, p)
  OBVIOUS
<1>2. /\ n \in Nat /\ p \in Nat
      /\ \A s \in 1 .. n : /\ Mem!SentenceOf(text, p, s) \in FitChunk
                           /\ Mem!SentenceOf(text, p, s).sentences = <<<<p, s>>>>
  BY <1>1, TextIs, Zenon
<1>3. /\ A \in [0 .. n -> Progress] /\ A[0] = Mem!Start
      /\ \A s \in 1 .. n : A[s] = Mem!TakeSentence(A[s - 1], Mem!SentenceOf(text, p, s))
  BY <1>1, AfterSentencesAre, Zenon
<1> DEFINE soFar(s) == AllHeld(A[s]) = Places(p, s)
           T == {s \in Nat : soFar(s)}
<1>4. 0 \in T
  <2>1. soFar(0)
    BY <1>2, <1>3, Fitting, PlacesAre, Zenon
  <2> HIDE DEF soFar
  <2> QED BY <2>1
<1>5. ASSUME NEW s \in 1 .. n, s - 1 \in T PROVE s \in T
  <2>1. soFar(s - 1) /\ s - 1 \in 0 .. n /\ s \in Nat /\ s > 0
    <3> HIDE DEF soFar
    <3> QED BY <1>2, <1>5
  <2>2. PICK c : c = Mem!SentenceOf(text, p, s)
    OBVIOUS
  <2>3. c \in FitChunk /\ c.sentences = <<<<p, s>>>> /\ A[s] = Mem!TakeSentence(A[s - 1], c)
    BY <1>2, <1>3, <2>2, Zenon
  <2>4. A[s - 1] \in Progress
    BY <1>3, <2>1
  <2>5. AllHeld(Mem!TakeSentence(A[s - 1], c)) = AllHeld(A[s - 1]) \o c.sentences
    BY <2>3, <2>4, TakeSentenceIs, Zenon
  <2>6. Places(p, s) = Places(p, s - 1) \o <<<<p, s>>>>
    BY <1>2, <2>1, PlacesAre, Zenon
  <2>7. soFar(s)
    BY <2>1, <2>3, <2>5, <2>6, Zenon
  <2> HIDE DEF soFar
  <2> QED BY <2>1, <2>7
<1> HIDE DEF T, soFar
<1>6. \A s \in 0 .. n : s \in T
  BY <1>2, <1>4, <1>5, UpTo
<1>7. n \in 0 .. n
  BY <1>2
<1>8. soFar(n)
  BY <1>6, <1>7 DEF T
<1>9. A[n] \in Progress
  BY <1>3, <1>7
<1>10. Mem!SplitBySentences(text, p) = Mem!Flushed(A[n])
  BY <1>1, Zenon DEF Mem!SplitBySentences
<1> QED BY <1>1, <1>8, <1>9, <1>10, FlushedIs, Zenon DEF soFar

\* The lengths of a paragraph's beginnings.
LEMMA BeginningsAre ==
    ASSUME NEW text \in Texts, NEW p \in 1 .. Len(text)
    PROVE  /\ Mem!Beginnings(text, p) \in [0 .. Len(text[p]) -> Chunk]
           /\ Mem!Beginnings(text, p)[0] = Mem!Empty
           /\ \A s \in 1 .. Len(text[p]) :
                 Mem!Beginnings(text, p)[s]
                    = Mem!Joined(Mem!Beginnings(text, p)[s - 1],
                                 Mem!SentenceOf(text, p, s), 1)
<1> DEFINE n == Len(text[p])
           is(w) == w = [s \in 0 .. n |->
                           IF s = 0 THEN Mem!Empty
                           ELSE Mem!Joined(w[s - 1], Mem!SentenceOf(text, p, s), 1)]
           f == [s \in 1 .. n |-> [x \in Chunk |->
                                     Mem!Joined(x, Mem!SentenceOf(text, p, s), 1)]]
<1>1. Mem!Beginnings(text, p) = CHOOSE w : is(w)
  BY Zenon DEF Mem!Beginnings
<1>2. n \in Nat /\ \A s \in 1 .. n : Mem!SentenceOf(text, p, s) \in FitChunk
  BY TextIs
<1> HIDE DEF n
<1>3. ASSUME NEW s \in 1 .. n, NEW x \in Chunk
      PROVE  Mem!Joined(x, Mem!SentenceOf(text, p, s), 1) \in Chunk
  <2>1. Mem!SentenceOf(text, p, s) \in Chunk
    BY <1>2, Fitting
  <2> QED BY <2>1, JoinedIs
<1>4. f \in [1 .. n -> [Chunk -> Chunk]]
  BY <1>3
<1>5. Mem!Empty \in Chunk
  BY Fitting
<1>6. PICK g \in [0 .. n -> Chunk] : Iterates(f, Mem!Empty, n, g)
  <2> HIDE DEF f
  <2> QED BY <1>2, <1>4, <1>5, LoopRuns
<1>7. is(g)
  <2>1. ASSUME NEW s \in 0 .. n
        PROVE  (IF s = 0 THEN Mem!Empty ELSE f[s][g[s - 1]])
                 = IF s = 0 THEN Mem!Empty
                   ELSE Mem!Joined(g[s - 1], Mem!SentenceOf(text, p, s), 1)
    <3>1. CASE s = 0
      BY <3>1
    <3>2. CASE s # 0
      <4>1. s \in 1 .. n /\ g[s - 1] \in Chunk
        BY <1>2, <3>2
      <4> QED BY <3>2, <4>1
    <3> QED BY <3>1, <3>2
  <2>2. g = [s \in 0 .. n |-> IF s = 0 THEN Mem!Empty ELSE f[s][g[s - 1]]]
    BY <1>6 DEF Iterates
  <2> HIDE DEF f
  <2> QED BY <2>1, <2>2
<1>8. PICK w : w = (CHOOSE v : is(v)) /\ is(w)
  <2> HIDE DEF is
  <2> QED BY <1>7, Zenon
<1>9. /\ DOMAIN w = 0 .. n
      /\ \A s \in 0 .. n : w[s] = IF s = 0 THEN Mem!Empty
                                  ELSE Mem!Joined(w[s - 1], Mem!SentenceOf(text, p, s), 1)
  BY <1>8
<1>10. /\ w[0] = Mem!Empty
       /\ \A s \in 1 .. n : w[s] = Mem!Joined(w[s - 1], Mem!SentenceOf(text, p, s), 1)
  BY <1>2, <1>9
<1>11. \A s \in 0 .. n : w[s] \in Chunk
  <2> DEFINE T == {s \in 0 .. n : w[s] \in Chunk}
  <2>1. 0 \in T
    BY <1>2, <1>5, <1>10
  <2>2. ASSUME NEW s \in 1 .. n, s - 1 \in T PROVE s \in T
    <3>1. w[s - 1] \in Chunk /\ s \in 0 .. n
      BY <1>2, <2>2
    <3>2. w[s] \in Chunk
      BY <1>3, <1>10, <3>1
    <3> QED BY <3>1, <3>2
  <2> HIDE DEF T
  <2>3. \A s \in 0 .. n : s \in T
    BY <1>2, <2>1, <2>2, UpTo
  <2> QED BY <2>3 DEF T
<1>12. w \in [0 .. n -> Chunk]
  <2>1. w = [s \in 0 .. n |-> w[s]]
    BY <1>8
  <2> QED BY <1>11, <2>1
<1> HIDE DEF is
<1> QED BY <1>1, <1>8, <1>10, <1>12, Zenon DEF n

\* A paragraph has each of its sentences, in their order.
LEMMA ParagraphOfIs ==
    ASSUME NEW text \in Texts, NEW p \in 1 .. Len(text)
    PROVE  /\ Mem!ParagraphOf(text, p) \in Chunk
           /\ Mem!ParagraphOf(text, p).sentences = Places(p, Len(text[p]))
<1>1. PICK n, A : n = Len(text[p]) /\ A = Mem!Beginnings(text, p)
  OBVIOUS
<1>2. /\ n \in Nat /\ p \in Nat
      /\ \A s \in 1 .. n : /\ Mem!SentenceOf(text, p, s) \in FitChunk
                           /\ Mem!SentenceOf(text, p, s).sentences = <<<<p, s>>>>
  BY <1>1, TextIs, Zenon
<1>3. /\ A \in [0 .. n -> Chunk] /\ A[0] = Mem!Empty
      /\ \A s \in 1 .. n : A[s] = Mem!Joined(A[s - 1], Mem!SentenceOf(text, p, s), 1)
  BY <1>1, BeginningsAre, Zenon
<1> DEFINE soFar(s) == A[s].sentences = Places(p, s)
           T == {s \in Nat : soFar(s)}
<1>4. 0 \in T
  <2>1. soFar(0)
    BY <1>2, <1>3, Fitting, PlacesAre, Zenon
  <2> HIDE DEF soFar
  <2> QED BY <2>1
<1>5. ASSUME NEW s \in 1 .. n, s - 1 \in T PROVE s \in T
  <2>1. soFar(s - 1) /\ s - 1 \in 0 .. n /\ s \in Nat /\ s > 0
    <3> HIDE DEF soFar
    <3> QED BY <1>2, <1>5
  <2>2. PICK c : c = Mem!SentenceOf(text, p, s)
    OBVIOUS
  <2>3. c \in Chunk /\ c.sentences = <<<<p, s>>>> /\ A[s] = Mem!Joined(A[s - 1], c, 1)
    <3>1. c \in FitChunk /\ c.sentences = <<<<p, s>>>> /\ A[s] = Mem!Joined(A[s - 1], c, 1)
      BY <1>2, <1>3, <2>2, Zenon
    <3> QED BY <3>1, Fitting
  <2>4. A[s - 1] \in Chunk
    BY <1>3, <2>1
  <2>5. Mem!Joined(A[s - 1], c, 1).sentences = A[s - 1].sentences \o c.sentences
    <3>1. 1 \in Nat
      OBVIOUS
    <3> QED BY <2>3, <2>4, <3>1, JoinedIs, Zenon
  <2>6. Places(p, s) = Places(p, s - 1) \o <<<<p, s>>>>
    BY <1>2, <2>1, PlacesAre, Zenon
  <2>7. soFar(s)
    BY <2>1, <2>3, <2>5, <2>6, Zenon
  <2> HIDE DEF soFar
  <2> QED BY <2>1, <2>7
<1> HIDE DEF T, soFar
<1>6. \A s \in 0 .. n : s \in T
  BY <1>2, <1>4, <1>5, UpTo
<1>7. n \in 0 .. n
  BY <1>2
<1>8. soFar(n)
  BY <1>6, <1>7 DEF T
<1>9. A[n] \in Chunk
  BY <1>3, <1>7
<1>10. Mem!ParagraphOf(text, p) = A[n]
  BY <1>1, Zenon DEF Mem!ParagraphOf
<1> QED BY <1>1, <1>8, <1>9, <1>10, Zenon DEF soFar

\* A paragraph more.
LEMMA TakeParagraphIs ==
    ASSUME NEW text \in Texts, NEW p \in 1 .. Len(text), NEW state \in Progress
    PROVE  /\ Mem!TakeParagraph(text, state, p) \in Progress
           /\ AllHeld(Mem!TakeParagraph(text, state, p))
                = AllHeld(state) \o Places(p, Len(text[p]))
<1>1. /\ state = [chunks |-> state.chunks, current |-> state.current]
      /\ state.chunks \in Seq(FitChunk) /\ state.current \in Chunk
      /\ state.current.sentences \in Seq(Ids) /\ state.current.size \in Nat
      /\ Held(state.chunks) \in Seq(Ids)
      /\ AllHeld(state) \in Seq(Ids)
  BY ProgressIs
<1>2. PICK c, q : c = Mem!ParagraphOf(text, p) /\ q = Places(p, Len(text[p]))
  OBVIOUS
<1>3. c \in Chunk /\ c.sentences = q /\ q \in Seq(Ids) /\ c.size \in Nat
  <2>1. c \in Chunk /\ c.sentences = q
    BY <1>2, ParagraphOfIs, Zenon
  <2> QED BY <2>1 DEF Chunk
<1>4. PICK f : f = Mem!Flushed(state)
  OBVIOUS
<1>5. f \in Seq(FitChunk) /\ f \in Seq(Chunk) /\ Held(f) = AllHeld(state)
  BY <1>4, FlushedIs
<1>6. CASE state.current.size + c.size + 2 <= MaxChars
  <2>1. PICK j : j = Mem!Joined(state.current, c, 2)
    OBVIOUS
  <2>2. /\ j \in Chunk /\ j.sentences = state.current.sentences \o c.sentences
        /\ j.size <= state.current.size + (2 + c.size)
    BY <1>1, <1>3, <2>1, JoinedIs
  <2>3. j \in FitChunk
    <3>1. j.size \in Nat
      BY <2>2 DEF Chunk
    <3>2. j.size <= MaxChars
      <4>1. PICK a, b, d : a = state.current.size /\ b = c.size /\ d = j.size
        OBVIOUS
      <4>2. /\ a \in Nat /\ b \in Nat /\ d \in Nat /\ MaxChars \in Nat
            /\ a + b + 2 <= MaxChars /\ d <= a + (2 + b)
        BY <1>1, <1>3, <1>6, <2>2, <3>1, <4>1, Bounds, Zenon
      <4>3. d <= MaxChars
        BY <4>2
      <4> QED BY <4>1, <4>3
    <3> QED BY <2>2, <3>2 DEF FitChunk
  <2>4. Mem!TakeParagraph(text, state, p) = [chunks |-> state.chunks, current |-> j]
    <3>1. Mem!TakeParagraph(text, state, p) = [state EXCEPT !.current = Mem!Joined(@, c, 2)]
      BY <1>2, <1>6 DEF Mem!TakeParagraph
    <3> QED BY <1>1, <2>1, <3>1
  <2>5. PICK t : t = [chunks |-> state.chunks, current |-> j]
    OBVIOUS
  <2>6. t \in Progress /\ t.chunks = state.chunks /\ t.current = j
    BY <1>1, <2>3, <2>5 DEF Progress
  <2>7. Held(state.chunks) \o (state.current.sentences \o q)
            = (Held(state.chunks) \o state.current.sentences) \o q
    <3>1. Associative(Seq(Ids))
      BY Associate
    <3>2. /\ Held(state.chunks) \in Seq(Ids) /\ state.current.sentences \in Seq(Ids)
          /\ q \in Seq(Ids)
      BY <1>1, <1>3
    <3> QED BY <3>1, <3>2, Zenon DEF Associative
  <2> QED BY <1>2, <1>3, <2>2, <2>4, <2>5, <2>6, <2>7, Zenon DEF AllHeld
<1>7. CASE ~ (state.current.size + c.size + 2 <= MaxChars) /\ c.size > MaxChars
  <2>1. PICK b : b = Mem!SplitBySentences(text, p)
    OBVIOUS
  <2>2. b \in Seq(FitChunk) /\ Held(b) = q
    BY <1>2, <2>1, SplitBySentencesIs, Zenon
  <2>3. b \in Seq(Chunk)
    BY <2>2, Fitting
  <2>4. PICK a : a = f \o b
    OBVIOUS
  <2>5. a \in Seq(FitChunk)
    BY <1>5, <2>2, <2>4, ConcatProperties
  <2>6. Held(a) = AllHeld(state) \o q
    BY <1>5, <2>2, <2>3, <2>4, HeldConcat, Zenon
  <2>7. PICK t : t = [chunks |-> a, current |-> Mem!Empty]
    OBVIOUS
  <2>8. Mem!TakeParagraph(text, state, p) = t
    BY <1>2, <1>4, <1>7, <2>1, <2>4, <2>7, Zenon DEF Mem!TakeParagraph
  <2>9. t \in Progress /\ t.chunks = a /\ t.current.sentences = <<>>
    BY <2>5, <2>7, Fitting DEF Progress
  <2>10. Held(a) \o <<>> = Held(a)
    <3>1. Held(a) \in Seq(Ids)
      <4>1. AllHeld(state) \o q \in Seq(Ids)
        BY <1>1, <1>3, ConcatProperties
      <4> QED BY <2>6, <4>1, Zenon
    <3> QED BY <3>1, ConcatEmptySeq
  <2> QED BY <1>2, <2>6, <2>8, <2>9, <2>10, Zenon DEF AllHeld
<1>8. CASE ~ (state.current.size + c.size + 2 <= MaxChars) /\ ~ (c.size > MaxChars)
  <2>1. PICK t : t = [chunks |-> f, current |-> c]
    OBVIOUS
  <2>2. Mem!TakeParagraph(text, state, p) = t
    BY <1>2, <1>4, <1>8, <2>1, Zenon DEF Mem!TakeParagraph
  <2>3. c \in FitChunk
    BY <1>3, <1>8, Bounds DEF FitChunk
  <2>4. t \in Progress /\ t.chunks = f /\ t.current = c
    BY <1>5, <2>1, <2>3 DEF Progress
  <2> QED BY <1>2, <1>3, <1>5, <2>2, <2>4, Zenon DEF AllHeld
<1> QED BY <1>6, <1>7, <1>8

----------------------------------------------------------------------------
(* AgentMemory: split. *)

\* What the loop over the paragraphs of a text computes.
LEMMA AfterParagraphsAre ==
    ASSUME NEW text \in Texts
    PROVE  /\ Mem!AfterParagraphs(text) \in [0 .. Len(text) -> Progress]
           /\ Mem!AfterParagraphs(text)[0] = Mem!Start
           /\ \A p \in 1 .. Len(text) :
                 Mem!AfterParagraphs(text)[p]
                    = Mem!TakeParagraph(text, Mem!AfterParagraphs(text)[p - 1], p)
<1> DEFINE n == Len(text)
           is(w) == w = [p \in 0 .. n |->
                           IF p = 0 THEN Mem!Start
                           ELSE Mem!TakeParagraph(text, w[p - 1], p)]
           f == [p \in 1 .. n |-> [x \in Progress |-> Mem!TakeParagraph(text, x, p)]]
<1>1. Mem!AfterParagraphs(text) = CHOOSE w : is(w)
  BY Zenon DEF Mem!AfterParagraphs
<1>2. n \in Nat
  BY TextIs
<1>3. ASSUME NEW p \in 1 .. n, NEW x \in Progress
      PROVE  Mem!TakeParagraph(text, x, p) \in Progress
  BY TakeParagraphIs
<1> HIDE DEF n
<1>4. f \in [1 .. n -> [Progress -> Progress]]
  BY <1>3
<1>5. Mem!Start \in Progress
  BY Fitting
<1>6. PICK g \in [0 .. n -> Progress] : Iterates(f, Mem!Start, n, g)
  <2> HIDE DEF f
  <2> QED BY <1>2, <1>4, <1>5, LoopRuns
<1>7. is(g)
  <2>1. ASSUME NEW p \in 0 .. n
        PROVE  (IF p = 0 THEN Mem!Start ELSE f[p][g[p - 1]])
                 = IF p = 0 THEN Mem!Start ELSE Mem!TakeParagraph(text, g[p - 1], p)
    <3>1. CASE p = 0
      BY <3>1
    <3>2. CASE p # 0
      <4>1. p \in 1 .. n /\ g[p - 1] \in Progress
        BY <1>2, <3>2
      <4> QED BY <3>2, <4>1
    <3> QED BY <3>1, <3>2
  <2>2. g = [p \in 0 .. n |-> IF p = 0 THEN Mem!Start ELSE f[p][g[p - 1]]]
    BY <1>6 DEF Iterates
  <2> HIDE DEF f
  <2> QED BY <2>1, <2>2
<1>8. PICK w : w = (CHOOSE v : is(v)) /\ is(w)
  <2> HIDE DEF is
  <2> QED BY <1>7, Zenon
<1>9. /\ DOMAIN w = 0 .. n
      /\ \A p \in 0 .. n : w[p] = IF p = 0 THEN Mem!Start
                                  ELSE Mem!TakeParagraph(text, w[p - 1], p)
  BY <1>8
<1>10. /\ w[0] = Mem!Start
       /\ \A p \in 1 .. n : w[p] = Mem!TakeParagraph(text, w[p - 1], p)
  BY <1>2, <1>9
<1>11. \A p \in 0 .. n : w[p] \in Progress
  <2> DEFINE T == {p \in 0 .. n : w[p] \in Progress}
  <2>1. 0 \in T
    BY <1>2, <1>5, <1>10
  <2>2. ASSUME NEW p \in 1 .. n, p - 1 \in T PROVE p \in T
    <3>1. w[p - 1] \in Progress /\ p \in 0 .. n
      BY <1>2, <2>2
    <3>2. w[p] \in Progress
      BY <1>3, <1>10, <3>1
    <3> QED BY <3>1, <3>2
  <2> HIDE DEF T
  <2>3. \A p \in 0 .. n : p \in T
    BY <1>2, <2>1, <2>2, UpTo
  <2> QED BY <2>3 DEF T
<1>12. w \in [0 .. n -> Progress]
  <2>1. w = [p \in 0 .. n |-> w[p]]
    BY <1>8
  <2> QED BY <1>11, <2>1
<1> HIDE DEF is
<1> QED BY <1>1, <1>8, <1>10, <1>12, Zenon DEF n

\* The overlap makes chunks longer, and nothing else.
LEMMA AddOverlapIs ==
    ASSUME NEW a \in Seq(FitChunk)
    PROVE  /\ Mem!AddOverlap(a) \in Seq(Chunk)
           /\ Held(Mem!AddOverlap(a)) = Held(a)
           /\ \A i \in 1 .. Len(Mem!AddOverlap(a)) :
                 \/ Mem!AddOverlap(a)[i].size <= MaxChars + Overlap + 1
                 \/ Len(Mem!AddOverlap(a)[i].sentences) = 1
<1>1. PICK o, n : o = Mem!AddOverlap(a) /\ n = Len(a)
  OBVIOUS
<1>2. n \in Nat /\ DOMAIN a = 1 .. n
  BY <1>1, LenProperties
<1>3. DOMAIN o = 1 .. n
  BY <1>1, <1>2 DEF Mem!AddOverlap
<1>4. ASSUME NEW i \in 1 .. n
      PROVE  /\ o[i] \in Chunk /\ o[i].sentences = a[i].sentences
             /\ \/ o[i].size <= MaxChars + Overlap + 1
                \/ Len(o[i].sentences) = 1
  <2>1. a[i] \in FitChunk
    BY <1>1, ElementOfSeq
  <2>2. /\ a[i] \in Chunk /\ a[i].size \in Nat /\ a[i].sentences \in Seq(Ids)
        /\ a[i] = [sentences |-> a[i].sentences, size |-> a[i].size]
        /\ a[i].size <= MaxChars \/ Len(a[i].sentences) = 1
    BY <2>1 DEF FitChunk, Chunk
  <2>3. CASE i = 1 \/ Overlap = 0
    <3>1. o[i] = a[i]
      BY <1>1, <1>2, <2>3 DEF Mem!AddOverlap
    <3>2. a[i].size <= MaxChars => a[i].size <= MaxChars + Overlap + 1
      BY <2>2, Bounds
    <3> QED BY <2>2, <3>1, <3>2
  <2>4. CASE ~ (i = 1 \/ Overlap = 0)
    <3>1. i - 1 \in 1 .. n
      BY <1>2, <2>4
    <3>2. a[i - 1] \in FitChunk
      BY <1>1, <3>1, ElementOfSeq
    <3>3. a[i - 1].size \in Nat
      BY <3>2 DEF FitChunk, Chunk
    <3>4. PICK t : t = IF a[i - 1].size < Overlap THEN a[i - 1].size ELSE Overlap
      OBVIOUS
    <3>5. t \in Nat /\ t <= Overlap
      BY <3>3, <3>4, Bounds
    <3>6. o[i] = [a[i] EXCEPT !.size = t + 1 + @]
      BY <1>1, <1>2, <2>4, <3>4 DEF Mem!AddOverlap
    <3>7. o[i] = [sentences |-> a[i].sentences, size |-> t + 1 + a[i].size]
      BY <2>2, <3>6
    <3>8. t + 1 + a[i].size \in Nat
      BY <2>2, <3>5
    <3>9. a[i].size <= MaxChars => t + 1 + a[i].size <= MaxChars + Overlap + 1
      BY <2>2, <3>5, Bounds
    <3>10. o[i] \in Chunk /\ o[i].sentences = a[i].sentences /\ o[i].size = t + 1 + a[i].size
      BY <2>2, <3>7, <3>8 DEF Chunk
    <3> QED BY <2>2, <3>9, <3>10
  <2> QED BY <2>3, <2>4
<1>5. o \in Seq(Chunk) /\ Len(o) = n
  <2>1. o = [i \in 1 .. n |-> o[i]]
    BY <1>1, <1>3 DEF Mem!AddOverlap
  <2>2. o \in [1 .. n -> Chunk]
    BY <1>4, <2>1
  <2> QED BY <1>2, <2>2
<1>6. [i \in DOMAIN o |-> o[i].sentences] = [i \in DOMAIN a |-> a[i].sentences]
  BY <1>2, <1>3, <1>4
<1>7. Held(o) = Held(a)
  BY <1>6, Zenon DEF Held
<1>8. \A i \in 1 .. Len(o) : \/ o[i].size <= MaxChars + Overlap + 1
                             \/ Len(o[i].sentences) = 1
  BY <1>4, <1>5
<1> QED BY <1>1, <1>5, <1>7, <1>8, Zenon

\* The chunks of a text (TextChunker.split) hold its sentences, each once and in order;
\* and are no longer than a chunk and an overlap, unless one sentence is.
THEOREM SplitKeepsTheText ==
    ASSUME NEW text \in Texts
    PROVE  /\ Mem!Split(text) \in Seq(Chunk)
           /\ Held(Mem!Split(text)) = Mem!Sentences(text)
           /\ \A i \in 1 .. Len(Mem!Split(text)) :
                 \/ Mem!Split(text)[i].size <= MaxChars + Overlap + 1
                 \/ Len(Mem!Split(text)[i].sentences) = 1
<1>1. PICK n, A : n = Len(text) /\ A = Mem!AfterParagraphs(text)
  OBVIOUS
<1>2. /\ n \in Nat /\ DOMAIN text = 1 .. n
      /\ \A p \in 1 .. n : /\ p \in Nat /\ Len(text[p]) \in Nat
                           /\ DOMAIN text[p] = 1 .. Len(text[p])
  BY <1>1, TextIs, Zenon
<1>3. /\ A \in [0 .. n -> Progress] /\ A[0] = Mem!Start
      /\ \A p \in 1 .. n : A[p] = Mem!TakeParagraph(text, A[p - 1], p)
  BY <1>1, AfterParagraphsAre, Zenon
<1> DEFINE upTo(m) == [q \in 1 .. m |-> Places(q, Len(text[q]))]
           soFar(m) == AllHeld(A[m]) = Mem!FlattenSeq(upTo(m))
           T == {m \in Nat : soFar(m)}
<1>4. ASSUME NEW m \in 0 .. n PROVE upTo(m) \in Seq(Seq(Ids)) /\ Len(upTo(m)) = m
  <2>1. ASSUME NEW q \in 1 .. m PROVE Places(q, Len(text[q])) \in Seq(Ids)
    <3>1. q \in 1 .. n /\ q \in Nat
      BY <1>2
    <3> QED BY <1>2, <3>1, PlacesAre
  <2>2. m \in Nat
    BY <1>2
  <2> QED BY <2>1, <2>2
<1>5. 0 \in T
  <2>1. upTo(0) = <<>>
    OBVIOUS
  <2>2. Mem!FlattenSeq(<<>>) = <<>>
    <3>1. <<>> \in Seq(Seq(Ids))
      BY EmptySeq
    <3> QED BY <3>1, FlattenConcat
  <2>3. soFar(0)
    BY <1>3, <2>1, <2>2, Fitting, Zenon
  <2> HIDE DEF soFar
  <2> QED BY <2>3
<1>6. ASSUME NEW p \in 1 .. n, p - 1 \in T PROVE p \in T
  <2>1. soFar(p - 1) /\ p - 1 \in 0 .. n /\ p \in 0 .. n /\ p \in Nat
    <3> HIDE DEF soFar
    <3> QED BY <1>2, <1>6
  <2>2. PICK s, u, v : s = Places(p, Len(text[p])) /\ u = upTo(p - 1) /\ v = upTo(p)
    OBVIOUS
  <2>3. s \in Seq(Ids)
    BY <1>2, <2>1, <2>2, PlacesAre, Zenon
  <2>4. u \in Seq(Seq(Ids)) /\ Len(u) = p - 1 /\ v \in Seq(Seq(Ids)) /\ Len(v) = p
    BY <1>4, <2>1, <2>2, Zenon
  <2>5. v = Append(u, s)
    <3>1. PICK w : w = Append(u, s)
      OBVIOUS
    <3>2. /\ w \in Seq(Seq(Ids)) /\ Len(w) = Len(u) + 1
          /\ \A i \in 1 .. Len(u) : w[i] = u[i]
          /\ w[Len(u) + 1] = s
      BY <2>3, <2>4, <3>1, AppendProperties
    <3>3. p - 1 + 1 = p
      OBVIOUS
    <3>4. Len(w) = p /\ w[p] = s
      BY <2>4, <3>2, <3>3, Zenon
    <3>5. ASSUME NEW i \in 1 .. p PROVE w[i] = v[i]
      <4>1. v[i] = Places(i, Len(text[i]))
        BY <2>2
      <4>2. CASE i = p
        BY <2>2, <3>4, <4>1, <4>2, Zenon
      <4>3. CASE i # p
        <5>1. i \in 1 .. p - 1
          BY <4>3
        <5>2. u[i] = Places(i, Len(text[i]))
          BY <2>2, <5>1
        <5>3. w[i] = u[i]
          BY <2>4, <3>2, <5>1, Zenon
        <5> QED BY <4>1, <5>2, <5>3, Zenon
      <4> QED BY <4>2, <4>3
    <3>6. Len(w) = Len(v) /\ \A i \in 1 .. Len(w) : w[i] = v[i]
      BY <2>4, <3>4, <3>5, Zenon
    <3>7. w = v
      BY <2>4, <3>2, <3>6, SeqEqual, Zenon
    <3> QED BY <3>1, <3>7
  <2>6. Mem!FlattenSeq(v) = Mem!FlattenSeq(u) \o s
    BY <2>3, <2>4, <2>5, FlattenAppend
  <2>7. A[p - 1] \in Progress
    BY <1>3, <2>1
  <2>8. AllHeld(Mem!TakeParagraph(text, A[p - 1], p)) = AllHeld(A[p - 1]) \o s
    BY <1>1, <2>2, <2>7, TakeParagraphIs, Zenon
  <2>9. soFar(p)
    BY <1>3, <2>1, <2>2, <2>6, <2>8, Zenon
  <2> HIDE DEF soFar
  <2> QED BY <2>1, <2>9
<1>7. Mem!Sentences(text) = Mem!FlattenSeq(upTo(n))
  <2>1. [p \in DOMAIN text |-> [s \in DOMAIN text[p] |-> <<p, s>>]] = upTo(n)
    BY <1>2 DEF Places
  <2> QED BY <2>1, Zenon DEF Mem!Sentences
<1> HIDE DEF T, soFar
<1>8. \A m \in 0 .. n : m \in T
  BY <1>2, <1>5, <1>6, UpTo
<1>9. n \in 0 .. n
  BY <1>2
<1>10. soFar(n)
  BY <1>8, <1>9 DEF T
<1>11. A[n] \in Progress
  BY <1>3, <1>9
<1>12. PICK f : f = Mem!Flushed(A[n])
  OBVIOUS
<1>13. f \in Seq(FitChunk) /\ Held(f) = Mem!Sentences(text)
  BY <1>7, <1>10, <1>11, <1>12, FlushedIs, Zenon DEF soFar
<1>14. Mem!Split(text) = Mem!AddOverlap(f)
  BY <1>1, <1>12, Zenon DEF Mem!Split
<1>15. PICK o : o = Mem!AddOverlap(f)
  OBVIOUS
<1>16. /\ o \in Seq(Chunk) /\ Held(o) = Held(f)
       /\ \A i \in 1 .. Len(o) : \/ o[i].size <= MaxChars + Overlap + 1
                                 \/ Len(o[i].sentences) = 1
  BY <1>13, <1>15, AddOverlapIs, Zenon
<1> QED BY <1>13, <1>14, <1>15, <1>16, Zenon

----------------------------------------------------------------------------
(* AgentMemory: what is kept while documents come in and go. *)
Documents == {d \in [by : Mem!Jobs, source : Mem!Files, text : Texts] : Mem!Split(d.text) # <<>>}

\* The rows of a document, all of them or those up to n; and those of documents.
FirstRows(d, n) == {Mem!RowOf(d.by, d.source, d.text, i) : i \in 1 .. n}

RowsOf(d) == FirstRows(d, Len(Mem!Split(d.text)))

Stored(D) == UNION {RowsOf(d) : d \in D}

MemoryRows ==
    [by : Mem!Jobs, source : Mem!Files, index : Nat, total : Nat, content : Chunk]

JobRows ==
    [pc : {"idle", "next", "store", "clear", "done"}, todo : Seq(Mem!Files),
     text : {<<>>} \cup Texts, next : Nat, written : SUBSET MemoryRows,
     processed : SUBSET Documents, failed : BOOLEAN, cleared : SUBSET MemoryRows]

\* The document that a job stores.
InHand(j, g) == [by |-> j, source |-> Head(g.todo), text |-> g.text]

\* A job stores each document of its list once, all of those it has processed, and of
\* the one in hand the chunks that came before the next.
IngestionFits(j, g) ==
    /\ \A a, b \in 1 .. Len(g.todo) : g.todo[a] = g.todo[b] => a = b
    /\ \A d \in g.processed :
          /\ d.by = j
          /\ \A a \in 1 .. Len(g.todo) : d.source # g.todo[a]
    /\ \A d, e \in g.processed : d.source = e.source => d = e
    /\ g.pc = "next" /\ ~ g.failed => g.written = Stored(g.processed)
    /\ g.pc = "store" =>
          /\ g.todo # <<>>
          /\ InHand(j, g) \in Documents
          /\ g.next \in 1 .. Len(Mem!Split(g.text))
          /\ ~ g.failed => g.written = Stored(g.processed)
                                          \cup FirstRows(InHand(j, g), g.next - 1)

MemoryInv ==
    /\ vault \in [Mem!Files -> {<<>>} \cup {<<t>> : t \in Texts}]
    /\ job \in [Mem!Jobs -> JobRows]
    /\ reported \subseteq Documents
    /\ memory = Stored(reported)
    /\ \A d \in reported : job[d.by].pc = "done"
    /\ \A d, e \in reported : d.by = e.by /\ d.source = e.source => d = e
    /\ \A j \in Mem!Jobs :
          /\ job[j].pc \in {"next", "store"} => IngestionFits(j, job[j])
          /\ job[j].pc = "clear" => \E C \in SUBSET reported : job[j].cleared = Stored(C)
    /\ \A i, j \in Mem!Jobs : job[i].pc = "clear" /\ job[j].pc = "clear" => i = j

\* The row of one chunk.
LEMMA RowIs ==
    ASSUME NEW j \in Mem!Jobs, NEW file \in Mem!Files, NEW text \in Texts,
           NEW i \in 1 .. Len(Mem!Split(text))
    PROVE  /\ Mem!RowOf(j, file, text, i) \in MemoryRows
           /\ Mem!RowOf(j, file, text, i).by = j
           /\ Mem!RowOf(j, file, text, i).source = file
           /\ Mem!RowOf(j, file, text, i).index = i
           /\ Mem!RowOf(j, file, text, i).total = Len(Mem!Split(text))
           /\ Mem!RowOf(j, file, text, i).content = Mem!Split(text)[i]
           /\ Len(Mem!Split(text)) \in Nat
<1>1. PICK n, c : n = Len(Mem!Split(text)) /\ c = Mem!Split(text)[i]
  OBVIOUS
<1>2. n \in Nat /\ c \in Chunk /\ i \in Nat
  <2>1. Mem!Split(text) \in Seq(Chunk)
    BY SplitKeepsTheText
  <2>2. n \in Nat
    BY <1>1, <2>1, LenProperties
  <2> QED BY <1>1, <2>1, <2>2, ElementOfSeq
<1>3. PICK r : r = [by |-> j, source |-> file, index |-> i, total |-> n, content |-> c]
  OBVIOUS
<1>4. Mem!RowOf(j, file, text, i) = r
  BY <1>1, <1>3, Zenon DEF Mem!RowOf
<1>5. /\ r \in MemoryRows
      /\ r.by = j /\ r.source = file /\ r.index = i /\ r.total = n /\ r.content = c
  BY <1>2, <1>3 DEF MemoryRows
<1> QED BY <1>1, <1>2, <1>4, <1>5, Zenon

\* The rows of a document are its own, one for each chunk.
LEMMA RowsAre ==
    ASSUME NEW d \in Documents
    PROVE  /\ Len(Mem!Split(d.text)) \in Nat \ {0}
           /\ \A n \in 0 .. Len(Mem!Split(d.text)) :
                 \A r \in FirstRows(d, n) :
                    /\ r \in MemoryRows /\ r.by = d.by /\ r.source = d.source
                    /\ r.index \in 1 .. n
                    /\ r.total = Len(Mem!Split(d.text))
                    /\ r.content = Mem!Split(d.text)[r.index]
                    /\ r = Mem!RowOf(d.by, d.source, d.text, r.index)
           /\ \A i \in 1 .. Len(Mem!Split(d.text)) :
                 /\ Mem!RowOf(d.by, d.source, d.text, i) \in RowsOf(d)
                 /\ Mem!RowOf(d.by, d.source, d.text, i).index = i
<1>1. d.by \in Mem!Jobs /\ d.source \in Mem!Files /\ d.text \in Texts /\ Mem!Split(d.text) # <<>>
  BY DEF Documents
<1>2. PICK n : n = Len(Mem!Split(d.text))
  OBVIOUS
<1>3. n \in Nat \ {0}
  <2>1. Mem!Split(d.text) \in Seq(Chunk)
    BY <1>1, SplitKeepsTheText
  <2> QED BY <1>1, <1>2, <2>1, EmptySeq
<1>4. ASSUME NEW i \in 1 .. n
      PROVE  /\ Mem!RowOf(d.by, d.source, d.text, i) \in MemoryRows
             /\ Mem!RowOf(d.by, d.source, d.text, i).by = d.by
             /\ Mem!RowOf(d.by, d.source, d.text, i).source = d.source
             /\ Mem!RowOf(d.by, d.source, d.text, i).index = i
             /\ Mem!RowOf(d.by, d.source, d.text, i).total = n
             /\ Mem!RowOf(d.by, d.source, d.text, i).content = Mem!Split(d.text)[i]
  <2>1. i \in 1 .. Len(Mem!Split(d.text))
    BY <1>2
  <2>2. PICK j \in Mem!Jobs, file \in Mem!Files, text \in Texts :
            j = d.by /\ file = d.source /\ text = d.text
    BY <1>1
  <2>3. i \in 1 .. Len(Mem!Split(text))
    BY <2>1, <2>2
  <2>4. /\ Mem!RowOf(j, file, text, i) \in MemoryRows
        /\ Mem!RowOf(j, file, text, i).by = j
        /\ Mem!RowOf(j, file, text, i).source = file
        /\ Mem!RowOf(j, file, text, i).index = i
        /\ Mem!RowOf(j, file, text, i).total = Len(Mem!Split(text))
        /\ Mem!RowOf(j, file, text, i).content = Mem!Split(text)[i]
    BY <2>3, RowIs
  <2> QED BY <1>2, <2>2, <2>4
<1>5. ASSUME NEW m \in 0 .. n, NEW r \in FirstRows(d, m)
      PROVE  /\ r \in MemoryRows /\ r.by = d.by /\ r.source = d.source
             /\ r.index \in 1 .. m /\ r.total = n
             /\ r.content = Mem!Split(d.text)[r.index]
             /\ r = Mem!RowOf(d.by, d.source, d.text, r.index)
  <2>1. PICK i \in 1 .. m : r = Mem!RowOf(d.by, d.source, d.text, i)
    BY Zenon DEF FirstRows
  <2>2. i \in 1 .. n
    BY <1>3
  <2> QED BY <1>4, <2>1, <2>2, Zenon
<1>6. ASSUME NEW i \in 1 .. n
      PROVE  Mem!RowOf(d.by, d.source, d.text, i) \in RowsOf(d)
  BY <1>2, Zenon DEF RowsOf, FirstRows
<1> QED BY <1>2, <1>3, <1>4, <1>5, <1>6, Zenon

\* All rows of a document.
LEMMA RowsOfAre ==
    ASSUME NEW d \in Documents, NEW r \in RowsOf(d)
    PROVE  /\ r \in MemoryRows /\ r.by = d.by /\ r.source = d.source
           /\ r.index \in 1 .. Len(Mem!Split(d.text))
           /\ r.total = Len(Mem!Split(d.text))
           /\ r.content = Mem!Split(d.text)[r.index]
           /\ r = Mem!RowOf(d.by, d.source, d.text, r.index)
<1>1. Len(Mem!Split(d.text)) \in Nat
  BY RowsAre
<1>2. Len(Mem!Split(d.text)) \in 0 .. Len(Mem!Split(d.text))
  BY <1>1
<1>3. r \in FirstRows(d, Len(Mem!Split(d.text)))
  BY DEF RowsOf
<1> QED BY <1>2, <1>3, RowsAre, Zenon

\* The rows of documents are told apart by who stored them and their source.
LEMMA StoredIs ==
    ASSUME NEW D \in SUBSET Documents
    PROVE  /\ Stored(D) \subseteq MemoryRows
           /\ \A r \in Stored(D) : \E d \in D : r \in RowsOf(d) /\ r.by = d.by /\ r.source = d.source
           /\ \A d \in D : RowsOf(d) \subseteq Stored(D)
<1>1. ASSUME NEW d \in D, NEW r \in RowsOf(d)
      PROVE  r \in MemoryRows /\ r.by = d.by /\ r.source = d.source
  <2>1. d \in Documents
    OBVIOUS
  <2> QED BY <2>1, RowsOfAre
<1>2. ASSUME NEW r \in Stored(D)
      PROVE  r \in MemoryRows /\ \E d \in D : r \in RowsOf(d) /\ r.by = d.by /\ r.source = d.source
  <2>1. PICK d \in D : r \in RowsOf(d)
    BY DEF Stored
  <2> QED BY <1>1, <2>1
<1>3. ASSUME NEW d \in D PROVE RowsOf(d) \subseteq Stored(D)
  BY DEF Stored
<1> QED BY <1>2, <1>3

\* The rows of two sets of documents.
LEMMA StoredUnion ==
    ASSUME NEW C, NEW D
    PROVE  Stored(C \cup D) = Stored(C) \cup Stored(D)
BY DEF Stored

\* The rows of one document, and of none.
LEMMA StoredOne ==
    ASSUME NEW d
    PROVE  Stored({d}) = RowsOf(d) /\ Stored({}) = {}
BY DEF Stored

\* One row more.
LEMMA RowMore ==
    ASSUME NEW d, NEW n \in Nat, n > 0
    PROVE  /\ FirstRows(d, 0) = {}
           /\ FirstRows(d, n) = FirstRows(d, n - 1)
                                   \cup {Mem!RowOf(d.by, d.source, d.text, n)}
<1>1. 1 .. 0 = {} /\ 1 .. n = (1 .. n - 1) \cup {n}
  OBVIOUS
<1> QED BY <1>1 DEF FirstRows

\* The instance counts as this module does.
LEMMA MemoryCount == \A S : Mem!Cardinality(S) = Cardinality(S)
BY DEF Mem!Cardinality, Cardinality

\* The memory holds the documents that it has, whole.
LEMMA DocumentsHeld ==
    ASSUME MemoryInv
    PROVE  Mem!MemoryHoldsDocuments
<1>1. /\ reported \in SUBSET Documents /\ memory = Stored(reported)
      /\ \A d, e \in reported : d.by = e.by /\ d.source = e.source => d = e
  BY DEF MemoryInv
<1>2. ASSUME NEW d \in reported
      PROVE  LET rows == {r \in memory : r.by = d.by /\ r.source = d.source}
                 chunk(i) == (CHOOSE r \in rows : r.index = i).content
             IN  /\ {r.index : r \in rows} = 1 .. Mem!Cardinality(rows)
                 /\ Mem!FlattenSeq([i \in 1 .. Mem!Cardinality(rows) |-> chunk(i).sentences])
                       = Mem!Sentences(d.text)
                 /\ \A r \in rows :
                       \/ r.content.size <= MaxChars + Overlap + 1
                       \/ Len(r.content.sentences) = 1
  <2> DEFINE rows == {r \in memory : r.by = d.by /\ r.source = d.source}
             chunk(i) == (CHOOSE r \in rows : r.index = i).content
             rowAt(i) == Mem!RowOf(d.by, d.source, d.text, i)
  <2>1. d \in Documents /\ d.text \in Texts
    BY <1>1 DEF Documents
  <2>2. PICK n, c : n = Len(Mem!Split(d.text)) /\ c = Mem!Split(d.text)
    OBVIOUS
  <2>3. n \in Nat \ {0} /\ n \in 0 .. n
    <3>1. n \in Nat \ {0}
      BY <2>1, <2>2, RowsAre
    <3> QED BY <3>1
  <2>4. rows = RowsOf(d)
    <3>1. ASSUME NEW r \in rows PROVE r \in RowsOf(d)
      <4>1. r \in Stored(reported) /\ r.by = d.by /\ r.source = d.source
        BY <1>1
      <4>2. PICK e \in reported : r \in RowsOf(e) /\ r.by = e.by /\ r.source = e.source
        BY <1>1, <4>1, StoredIs, Zenon
      <4>3. e = d
        BY <1>1, <4>1, <4>2
      <4> QED BY <4>2, <4>3
    <3>2. ASSUME NEW r \in RowsOf(d) PROVE r \in rows
      <4>1. r \in memory
        BY <1>1, StoredIs
      <4>2. r.by = d.by /\ r.source = d.source
        BY <2>1, RowsOfAre
      <4> QED BY <4>1, <4>2
    <3> QED BY <3>1, <3>2
  <2> HIDE DEF rows
  <2>5. ASSUME NEW r \in rows
        PROVE  /\ r.index \in 1 .. n /\ r = rowAt(r.index) /\ r.content = c[r.index]
    <3>1. r \in RowsOf(d)
      BY <2>4
    <3> QED BY <2>1, <2>2, <3>1, RowsOfAre, Zenon
  <2>6. ASSUME NEW i \in 1 .. n PROVE rowAt(i) \in rows /\ rowAt(i).index = i
    <3>1. i \in 1 .. Len(Mem!Split(d.text))
      BY <2>2
    <3> QED BY <2>1, <2>4, <3>1, RowsAre, Zenon
  <2> HIDE DEF rowAt
  <2>7. {r.index : r \in rows} = 1 .. n
    BY <2>5, <2>6
  <2>8. Mem!Cardinality(rows) = n
    <3> DEFINE f == [i \in 1 .. n |-> rowAt(i)]
    <3>1. f \in [1 .. n -> rows]
      BY <2>6
    <3>2. ASSUME NEW i \in 1 .. n, NEW j \in 1 .. n, f[i] = f[j] PROVE i = j
      BY <2>6, <3>2
    <3>3. \A r \in rows : \E i \in 1 .. n : f[i] = r
      BY <2>5
    <3> HIDE DEF f
    <3>4. f \in Bijection(1 .. n, rows)
      <4>1. f \in Injection(1 .. n, rows)
        BY <3>1, <3>2 DEF Injection, IsInjective
      <4>2. f \in Surjection(1 .. n, rows)
        BY <3>1, <3>3 DEF Surjection
      <4> QED BY <4>1, <4>2 DEF Bijection
    <3>5. ExistsBijection(1 .. n, rows)
      BY <3>4 DEF ExistsBijection
    <3> QED BY <2>3, <3>5, FS_CountingElements, MemoryCount
  <2>9. ASSUME NEW i \in 1 .. n PROVE chunk(i) = c[i]
    <3>1. PICK r : r = (CHOOSE q \in rows : q.index = i) /\ r \in rows /\ r.index = i
      BY <2>6
    <3> QED BY <2>5, <3>1
  <2> HIDE DEF chunk
  <2>10. Mem!FlattenSeq([i \in 1 .. n |-> chunk(i).sentences]) = Mem!Sentences(d.text)
    <3>1. DOMAIN c = 1 .. n
      <4>1. c \in Seq(Chunk)
        BY <2>1, <2>2, SplitKeepsTheText
      <4> QED BY <2>2, <4>1, LenProperties
    <3>2. [i \in 1 .. n |-> chunk(i).sentences] = [i \in DOMAIN c |-> c[i].sentences]
      BY <2>9, <3>1
    <3>3. Held(c) = Mem!Sentences(d.text)
      BY <2>1, <2>2, SplitKeepsTheText, Zenon
    <3> QED BY <3>2, <3>3, Zenon DEF Held
  <2>11. ASSUME NEW r \in rows
         PROVE  \/ r.content.size <= MaxChars + Overlap + 1
                \/ Len(r.content.sentences) = 1
    <3>1. r.index \in 1 .. Len(Mem!Split(d.text)) /\ r.content = Mem!Split(d.text)[r.index]
      BY <2>2, <2>5
    <3> QED BY <2>1, <3>1, SplitKeepsTheText, Zenon
  <2> QED BY <2>7, <2>8, <2>10, <2>11, Zenon DEF rows, chunk
<1>3. ASSUME NEW r \in memory, NEW i \in 1 .. r.total
      PROVE  \E q \in memory : q.by = r.by /\ q.source = r.source /\ q.index = i
  <2>1. PICK d \in reported : r \in RowsOf(d) /\ r.by = d.by /\ r.source = d.source
    BY <1>1, StoredIs, Zenon
  <2>2. PICK n : n = Len(Mem!Split(d.text))
    OBVIOUS
  <2>3. d \in Documents /\ n \in Nat \ {0}
    BY <1>1, <2>2, RowsAre
  <2>5. r.total = n
    BY <2>1, <2>2, <2>3, RowsOfAre
  <2>6. i \in 1 .. Len(Mem!Split(d.text))
    BY <2>2, <2>5
  <2>7. PICK q : q = Mem!RowOf(d.by, d.source, d.text, i)
    OBVIOUS
  <2>8. q \in RowsOf(d) /\ q.index = i
    BY <2>3, <2>6, <2>7, RowsAre, Zenon
  <2>9. q \in memory
    BY <1>1, <2>8, StoredIs
  <2>10. q.by = d.by /\ q.source = d.source
    BY <2>3, <2>8, RowsOfAre
  <2> QED BY <2>1, <2>8, <2>9, <2>10, Zenon
<1> QED BY <1>2, <1>3, Zenon DEF Mem!MemoryHoldsDocuments

\* A request, field by field.
LEMMA JobRowIs ==
    ASSUME NEW g \in JobRows
    PROVE  /\ g = [pc |-> g.pc, todo |-> g.todo, text |-> g.text, next |-> g.next,
                   written |-> g.written, processed |-> g.processed,
                   failed |-> g.failed, cleared |-> g.cleared]
           /\ g.todo \in Seq(Mem!Files) /\ g.text \in {<<>>} \cup Texts /\ g.next \in Nat
           /\ g.written \in SUBSET MemoryRows /\ g.processed \in SUBSET Documents
           /\ g.failed \in BOOLEAN /\ g.cleared \in SUBSET MemoryRows
BY DEF JobRows

\* A request that has not begun or is over.
LEMMA IdleIs ==
    /\ Mem!Idle \in JobRows /\ Mem!Idle.pc = "idle"
    /\ Mem!Idle.written = {} /\ Mem!Idle.processed = {} /\ ~ Mem!Idle.failed
    /\ Mem!Done \in JobRows /\ Mem!Done.pc = "done"
<1>1. <<>> \in Seq(Mem!Files)
  BY EmptySeq
<1> QED BY <1>1 DEF Mem!Idle, Mem!Done, JobRows

\* Nothing is kept at first.
LEMMA MemoryInit == Mem!Init => MemoryInv
<1> SUFFICES ASSUME Mem!Init PROVE MemoryInv
  OBVIOUS
<1>1. /\ vault = [f \in Mem!Files |-> <<>>] /\ memory = {} /\ reported = {}
      /\ job = [j \in Mem!Jobs |-> Mem!Idle]
  BY DEF Mem!Init
<1>2. memory = Stored(reported)
  BY <1>1, StoredOne
<1>3. vault \in [Mem!Files -> {<<>>} \cup {<<t>> : t \in Texts}]
  BY <1>1
<1>4. job \in [Mem!Jobs -> JobRows] /\ \A j \in Mem!Jobs : job[j].pc = "idle"
  BY <1>1, IdleIs
<1> QED BY <1>1, <1>2, <1>3, <1>4 DEF MemoryInv

\* A request changes what it is doing, and nothing else.
LEMMA OneJob ==
    ASSUME MemoryInv, NEW j \in Mem!Jobs, NEW g \in JobRows,
           job[j].pc # "done", job' = [job EXCEPT ![j] = g],
           UNCHANGED <<vault, memory, reported>>,
           g.pc \in {"next", "store"} => IngestionFits(j, g),
           g.pc = "clear" => g.cleared = memory /\ \A i \in Mem!Jobs : job[i].pc # "clear"
    PROVE  MemoryInv'
<1>1. /\ vault' = vault /\ memory' = memory /\ reported' = reported
  OBVIOUS
<1>2. job \in [Mem!Jobs -> JobRows]
  BY DEF MemoryInv
<1>3. /\ job' \in [Mem!Jobs -> JobRows] /\ job'[j] = g
      /\ \A i \in Mem!Jobs : i # j => job'[i] = job[i]
  BY <1>2
<1>4. vault' \in [Mem!Files -> {<<>>} \cup {<<t>> : t \in Texts}]
  BY <1>1 DEF MemoryInv
<1>5. /\ reported' \subseteq Documents /\ memory' = Stored(reported')
      /\ \A d, e \in reported' : d.by = e.by /\ d.source = e.source => d = e
  BY <1>1 DEF MemoryInv
<1>6. ASSUME NEW d \in reported' PROVE job'[d.by].pc = "done"
  <2>1. d \in reported /\ d.by \in Mem!Jobs /\ job[d.by].pc = "done"
    BY <1>1 DEF MemoryInv, Documents
  <2>2. d.by # j
    BY <2>1
  <2> QED BY <1>3, <2>1, <2>2
<1>7. ASSUME NEW i \in Mem!Jobs, job'[i].pc \in {"next", "store"}
      PROVE  IngestionFits(i, job'[i])
  <2>1. CASE i = j
    BY <1>3, <1>7, <2>1
  <2>2. CASE i # j
    BY <1>3, <1>7, <2>2 DEF MemoryInv
  <2> QED BY <2>1, <2>2
<1>8. ASSUME NEW i \in Mem!Jobs, job'[i].pc = "clear"
      PROVE  \E C \in SUBSET reported' : job'[i].cleared = Stored(C)
  <2>1. CASE i = j
    BY <1>1, <1>3, <1>8, <2>1 DEF MemoryInv
  <2>2. CASE i # j
    BY <1>1, <1>3, <1>8, <2>2 DEF MemoryInv
  <2> QED BY <2>1, <2>2
<1>9. ASSUME NEW i \in Mem!Jobs, NEW k \in Mem!Jobs, job'[i].pc = "clear", job'[k].pc = "clear"
      PROVE  i = k
  BY <1>3, <1>9 DEF MemoryInv
<1>10. \A i \in Mem!Jobs :
          /\ job'[i].pc \in {"next", "store"} => IngestionFits(i, job'[i])
          /\ job'[i].pc = "clear" => \E C \in SUBSET reported' : job'[i].cleared = Stored(C)
  BY <1>7, <1>8
<1>11. \A i, k \in Mem!Jobs : job'[i].pc = "clear" /\ job'[k].pc = "clear" => i = k
  BY <1>9
<1>12. \A d \in reported' : job'[d.by].pc = "done"
  BY <1>6
<1> QED BY <1>3, <1>4, <1>5, <1>10, <1>11, <1>12 DEF MemoryInv

\* What a job takes from the vault, it has not taken before.
LEMMA ListingIs ==
    ASSUME NEW listing \in Mem!Listings \cup {<<f>> : f \in Mem!Files}
    PROVE  /\ listing \in Seq(Mem!Files)
           /\ \A a, b \in 1 .. Len(listing) : listing[a] = listing[b] => a = b
<1>1. CASE listing = <<>>
  <2>1. <<>> \in Seq(Mem!Files) /\ Len(<<>>) = 0
    BY EmptySeq
  <2> QED BY <1>1, <2>1
<1>2. CASE \E f \in Mem!Files : listing = <<f>>
  BY <1>2
<1>3. CASE listing \in Mem!Listings /\ listing # <<>>
  <2> DEFINE there == {f \in Mem!Files : vault[f] # <<>>}
             size == IF Mem!Cardinality(there) > PageSize THEN PageSize
                      ELSE Mem!Cardinality(there)
  <2>1. listing \in [1 .. size -> there] /\ \A a, b \in 1 .. size : a < b => listing[a] < listing[b]
    BY <1>3 DEF Mem!Listings
  <2>2. size \in Nat
    <3>1. IsFiniteSet(Mem!Files) /\ there \subseteq Mem!Files
      BY FS_Interval, ServicesAssumption DEF Mem!Files, ServicesAssumption, Mem!MemoryAssumption
    <3>2. Cardinality(there) \in Nat
      BY <3>1, FS_Subset, FS_CardinalityType
    <3>3. Mem!Cardinality(there) \in Nat
      BY <3>2, MemoryCount
    <3>4. PageSize \in Nat
      BY ServicesAssumption DEF ServicesAssumption, Mem!MemoryAssumption
    <3> QED BY <3>3, <3>4
  <2> HIDE DEF size
  <2>3. listing \in Seq(Mem!Files) /\ Len(listing) = size
    BY <2>1, <2>2
  <2>4. \A a \in 1 .. size : listing[a] \in Nat
    BY <2>1 DEF Mem!Files
  <2>5. ASSUME NEW a \in 1 .. size, NEW b \in 1 .. size, listing[a] = listing[b]
        PROVE  a = b
    <3>1. ~ (a < b) /\ ~ (b < a)
      BY <2>1, <2>4, <2>5
    <3> QED BY <2>2, <3>1
  <2> QED BY <2>3, <2>5
<1> QED BY <1>1, <1>2, <1>3

\* The start of an ingestion lists what it will process.
LEMMA StartIngestKeeps ==
    ASSUME MemoryInv, NEW j \in Mem!Jobs, Mem!StartIngest(j)
    PROVE  MemoryInv'
<1>1. PICK listing \in Mem!Listings \cup {<<f>> : f \in Mem!Files} :
          job' = [job EXCEPT ![j] = IF listing = <<>> THEN Mem!Done
                                    ELSE [Mem!Idle EXCEPT !.pc = "next", !.todo = listing]]
  BY DEF Mem!StartIngest
<1>2. UNCHANGED <<vault, memory, reported>> /\ job[j].pc # "done"
  BY IdleIs DEF Mem!StartIngest, Mem!InTurn
<1>3. CASE listing = <<>>
  <2>1. job' = [job EXCEPT ![j] = Mem!Done]
    BY <1>1, <1>3
  <2> QED BY <1>2, <2>1, IdleIs, OneJob
<1>4. CASE listing # <<>>
  <2>1. PICK g : g = [Mem!Idle EXCEPT !.pc = "next", !.todo = listing]
    OBVIOUS
  <2>2. /\ g \in JobRows /\ g.pc = "next" /\ g.todo = listing
        /\ g.processed = {} /\ g.written = {}
    BY <2>1, IdleIs, ListingIs DEF JobRows
  <2>3. IngestionFits(j, g)
    <3>1. Stored({}) = {}
      BY StoredOne
    <3> QED BY <2>2, <3>1, ListingIs DEF IngestionFits
  <2>4. job' = [job EXCEPT ![j] = g]
    BY <1>1, <1>4, <2>1
  <2> QED BY <1>2, <2>2, <2>3, <2>4, OneJob
<1> QED BY <1>3, <1>4

\* The list without its first.
LEMMA TailKeeps ==
    ASSUME NEW todo \in Seq(Mem!Files), todo # <<>>,
           \A a, b \in 1 .. Len(todo) : todo[a] = todo[b] => a = b
    PROVE  /\ Tail(todo) \in Seq(Mem!Files) /\ Head(todo) \in Mem!Files
           /\ \A a, b \in 1 .. Len(Tail(todo)) : Tail(todo)[a] = Tail(todo)[b] => a = b
           /\ \A a \in 1 .. Len(Tail(todo)) :
                 /\ Tail(todo)[a] # Head(todo)
                 /\ \E b \in 1 .. Len(todo) : Tail(todo)[a] = todo[b]
           /\ \E b \in 1 .. Len(todo) : Head(todo) = todo[b]
<1>1. PICK t, n : t = Tail(todo) /\ n = Len(todo)
  OBVIOUS
<1>2. /\ t \in Seq(Mem!Files) /\ Head(todo) \in Mem!Files /\ Len(t) = n - 1
      /\ \A i \in 1 .. Len(t) : t[i] = todo[i + 1]
  BY <1>1, HeadTailProperties
<1>3. n \in Nat /\ n > 0 /\ Head(todo) = todo[1]
  BY <1>1, EmptySeq
<1>4. ASSUME NEW a \in 1 .. n - 1 PROVE t[a] = todo[a + 1] /\ a + 1 \in 1 .. n /\ a + 1 # 1
  BY <1>2, <1>3
<1>5. 1 \in 1 .. n
  BY <1>3
<1>6. ASSUME NEW a \in 1 .. n - 1, NEW b \in 1 .. n - 1, t[a] = t[b] PROVE a = b
  <2>1. a + 1 = b + 1
    BY <1>1, <1>4, <1>6
  <2> QED BY <2>1
<1>7. ASSUME NEW a \in 1 .. n - 1
      PROVE  t[a] # Head(todo) /\ \E b \in 1 .. n : t[a] = todo[b]
  BY <1>1, <1>3, <1>4, <1>5
<1> QED BY <1>1, <1>2, <1>3, <1>5, <1>6, <1>7

\* A document is skipped, or its first chunk is next.
LEMMA TakeDocumentKeeps ==
    ASSUME MemoryInv, NEW j \in Mem!Jobs, Mem!TakeDocument(j)
    PROVE  MemoryInv'
<1>1. PICK o : o = job[j] /\ o \in JobRows
  BY DEF MemoryInv
<1>2. /\ o.pc = "next" /\ o.todo # <<>> /\ UNCHANGED <<vault, memory, reported>>
      /\ job[j].pc # "done"
  BY <1>1 DEF Mem!TakeDocument
<1>3. /\ IngestionFits(j, o)
      /\ vault \in [Mem!Files -> {<<>>} \cup {<<t>> : t \in Texts}]
  BY <1>1, <1>2 DEF MemoryInv
<1>4. o.todo \in Seq(Mem!Files)
  BY <1>1, JobRowIs
<1>5. /\ Tail(o.todo) \in Seq(Mem!Files) /\ Head(o.todo) \in Mem!Files
      /\ \A a, b \in 1 .. Len(Tail(o.todo)) : Tail(o.todo)[a] = Tail(o.todo)[b] => a = b
      /\ \A a \in 1 .. Len(Tail(o.todo)) :
            \E b \in 1 .. Len(o.todo) : Tail(o.todo)[a] = o.todo[b]
  BY <1>2, <1>3, <1>4, TailKeeps DEF IngestionFits
<1>6. CASE job' = [job EXCEPT ![j].todo = Tail(@)]
  <2>1. PICK g : g = [o EXCEPT !.todo = Tail(@)]
    OBVIOUS
  <2>2. /\ g \in JobRows /\ g.pc = "next" /\ g.todo = Tail(o.todo)
        /\ g.processed = o.processed /\ g.written = o.written /\ g.failed = o.failed
    BY <1>1, <1>2, <1>5, <2>1 DEF JobRows
  <2>3. job' = [job EXCEPT ![j] = g]
    BY <1>1, <1>6, <2>1
  <2>4. IngestionFits(j, g)
    <3>1. PICK t : t = Tail(o.todo)
      OBVIOUS
    <3>2. \A d \in o.processed : \A a \in 1 .. Len(t) : d.source # t[a]
      BY <1>3, <1>5, <3>1 DEF IngestionFits
    <3> QED BY <1>2, <1>3, <1>5, <2>2, <3>1, <3>2 DEF IngestionFits
  <2> QED BY <1>2, <2>2, <2>3, <2>4, OneJob
<1>7. ASSUME NEW text \in Mem!Extracted(Head(job[j].todo)), Mem!Embedded(text),
             job' = [job EXCEPT ![j].pc = "store", ![j].next = 1, ![j].text = text]
      PROVE  MemoryInv'
  <2>1. text \in Texts
    <3>1. text \in Mem!ToSet(vault[Head(o.todo)])
      BY <1>1, <1>7 DEF Mem!Extracted, Mem!Fetched
    <3>2. vault[Head(o.todo)] = <<>> \/ \E t \in Texts : vault[Head(o.todo)] = <<t>>
      BY <1>3, <1>5
    <3> QED BY <3>1, <3>2 DEF Mem!ToSet
  <2>2. PICK g : g = [o EXCEPT !.pc = "store", !.next = 1, !.text = text]
    OBVIOUS
  <2>3. /\ g \in JobRows /\ g.pc = "store" /\ g.todo = o.todo /\ g.next = 1 /\ g.text = text
        /\ g.processed = o.processed /\ g.written = o.written /\ g.failed = o.failed
    BY <1>1, <1>2, <2>1, <2>2 DEF JobRows
  <2>4. job' = [job EXCEPT ![j] = g]
    BY <1>1, <1>7, <2>2
  <2>5. InHand(j, g) \in Documents
    <3>1. InHand(j, g) = [by |-> j, source |-> Head(o.todo), text |-> text]
      BY <2>3 DEF InHand
    <3>2. Mem!Split(text) # <<>>
      BY <1>7 DEF Mem!Embedded
    <3> QED BY <1>5, <2>1, <3>1, <3>2 DEF Documents
  <2>6. 1 \in 1 .. Len(Mem!Split(text))
    <3>1. PICK d \in Documents : d.text = text
      BY <2>3, <2>5 DEF InHand
    <3>2. Len(Mem!Split(text)) \in Nat \ {0}
      BY <3>1, RowsAre
    <3> QED BY <3>2
  <2>7. FirstRows(InHand(j, g), g.next - 1) = {}
    BY <2>3 DEF FirstRows
  <2>8. IngestionFits(j, g)
    BY <1>2, <1>3, <2>3, <2>5, <2>6, <2>7 DEF IngestionFits
  <2> QED BY <1>2, <2>3, <2>4, <2>8, OneJob
<1> QED BY <1>6, <1>7 DEF Mem!TakeDocument

\* A chunk is stored; after the last, the document is processed.
LEMMA StoreChunkKeeps ==
    ASSUME MemoryInv, NEW j \in Mem!Jobs, Mem!StoreChunk(j)
    PROVE  MemoryInv'
<1>1. PICK o : o = job[j] /\ o \in JobRows
  BY DEF MemoryInv
<1>2. /\ o.pc = "store" /\ UNCHANGED <<vault, memory, reported>> /\ job[j].pc # "done"
  BY <1>1 DEF Mem!StoreChunk
<1>3. IngestionFits(j, o)
  BY <1>1, <1>2 DEF MemoryInv
<1>4. PICK d, n : d = InHand(j, o) /\ n = Len(Mem!Split(o.text))
  OBVIOUS
<1>5. /\ d \in Documents /\ d.by = j /\ d.source = Head(o.todo) /\ d.text = o.text
      /\ d = [by |-> j, source |-> Head(o.todo), text |-> o.text]
      /\ o.next \in 1 .. n
      /\ ~ o.failed => o.written = Stored(o.processed) \cup FirstRows(d, o.next - 1)
  BY <1>2, <1>3, <1>4 DEF IngestionFits, InHand
<1>6. n \in Nat \ {0}
  BY <1>4, <1>5, RowsAre
<1>7. /\ Tail(o.todo) \in Seq(Mem!Files)
      /\ \A a, b \in 1 .. Len(Tail(o.todo)) : Tail(o.todo)[a] = Tail(o.todo)[b] => a = b
      /\ \A a \in 1 .. Len(Tail(o.todo)) :
            /\ Tail(o.todo)[a] # Head(o.todo)
            /\ \E b \in 1 .. Len(o.todo) : Tail(o.todo)[a] = o.todo[b]
      /\ \E b \in 1 .. Len(o.todo) : Head(o.todo) = o.todo[b]
  <2>1. o.todo \in Seq(Mem!Files)
    BY <1>1, JobRowIs
  <2>2. o.todo # <<>> /\ \A a, b \in 1 .. Len(o.todo) : o.todo[a] = o.todo[b] => a = b
    BY <1>2, <1>3 DEF IngestionFits
  <2> QED BY <2>1, <2>2, TailKeeps
<1>8. PICK t : t = Tail(o.todo)
  OBVIOUS
<1>8a. /\ t \in Seq(Mem!Files)
       /\ \A a, b \in 1 .. Len(t) : t[a] = t[b] => a = b
  BY <1>7, <1>8
<1>9. PICK next : next = [o EXCEPT !.pc = "next", !.todo = t]
  OBVIOUS
<1>10. /\ next \in JobRows /\ next.pc = "next" /\ next.todo = t
       /\ next.processed = o.processed /\ next.written = o.written
  BY <1>1, <1>7, <1>8, <1>9 DEF JobRows
<1>11. /\ \A e \in o.processed : e.by = j /\ \A a \in 1 .. Len(t) : e.source # t[a]
       /\ \A e \in o.processed : e.source # d.source
       /\ \A e, f \in o.processed : e.source = f.source => e = f
  BY <1>3, <1>5, <1>7, <1>8 DEF IngestionFits
<1>12. PICK stored : stored = Mem!RowOf(d.by, d.source, d.text, o.next)
  OBVIOUS
<1>13. stored = Mem!RowOf(j, Head(job[j].todo), job[j].text, job[j].next)
  BY <1>1, <1>5, <1>12, Zenon
<1>14. stored \in MemoryRows /\ stored.index = o.next /\ stored.total = n
  <2>1. d.by \in Mem!Jobs /\ d.source \in Mem!Files /\ d.text \in Texts
    BY <1>5 DEF Documents
  <2>2. PICK b \in Mem!Jobs, f \in Mem!Files, x \in Texts : b = d.by /\ f = d.source /\ x = d.text
    BY <2>1
  <2>3. o.next \in 1 .. Len(Mem!Split(x))
    BY <1>4, <1>5, <2>2
  <2>4. /\ Mem!RowOf(b, f, x, o.next) \in MemoryRows
        /\ Mem!RowOf(b, f, x, o.next).index = o.next
        /\ Mem!RowOf(b, f, x, o.next).total = Len(Mem!Split(x))
    BY <2>3, RowIs
  <2> QED BY <1>4, <1>5, <1>12, <2>2, <2>4
<1>15. FirstRows(d, o.next) = FirstRows(d, o.next - 1) \cup {stored}
  <2>1. o.next \in Nat /\ o.next > 0
    BY <1>5, <1>6
  <2> QED BY <1>12, <2>1, RowMore
<1>16. CASE job' = [job EXCEPT ![j] = [next EXCEPT !.failed = TRUE]]
  <2>1. PICK g : g = [next EXCEPT !.failed = TRUE]
    OBVIOUS
  <2>2. /\ g \in JobRows /\ g.pc = "next" /\ g.todo = t /\ g.failed
        /\ g.processed = o.processed
    BY <1>10, <2>1 DEF JobRows
  <2>3. IngestionFits(j, g)
    BY <1>11, <1>8a, <2>2 DEF IngestionFits
  <2>4. job' = [job EXCEPT ![j] = g]
    BY <1>16, <2>1
  <2> QED BY <1>2, <2>2, <2>3, <2>4, OneJob
<1>17. ASSUME ~ o.failed, o.next < n,
              job' = [job EXCEPT ![j] = [o EXCEPT !.next = @ + 1, !.written = @ \cup {stored}]]
       PROVE  MemoryInv'
  <2>1. PICK g : g = [o EXCEPT !.next = @ + 1, !.written = @ \cup {stored}]
    OBVIOUS
  <2>2. /\ g \in JobRows /\ g.pc = "store" /\ g.todo = o.todo /\ g.text = o.text
        /\ g.next = o.next + 1 /\ g.written = o.written \cup {stored}
        /\ g.processed = o.processed
    <3>1. PICK w : w = o.written \cup {stored}
      OBVIOUS
    <3>2. PICK m : m = o.next + 1
      OBVIOUS
    <3>3. w \in SUBSET MemoryRows /\ m \in Nat
      BY <1>1, <1>14, <3>1, <3>2, JobRowIs
    <3>4. g = [o EXCEPT !.next = m, !.written = w]
      BY <2>1, <3>1, <3>2
    <3> HIDE <2>1
    <3>5. /\ g \in JobRows /\ g.pc = o.pc /\ g.todo = o.todo /\ g.text = o.text
          /\ g.next = m /\ g.written = w /\ g.processed = o.processed
      BY <1>1, <3>3, <3>4 DEF JobRows
    <3> QED BY <1>2, <3>1, <3>2, <3>5
  <2>3. g.next \in 1 .. n /\ g.next - 1 = o.next
    BY <1>5, <1>6, <1>17, <2>2
  <2>4. InHand(j, g) = d
    BY <1>4, <2>2 DEF InHand
  <2>5. g.written = Stored(g.processed) \cup FirstRows(d, g.next - 1)
    BY <1>5, <1>15, <1>17, <2>2, <2>3
  <2>6. IngestionFits(j, g)
    BY <1>2, <1>3, <1>4, <1>5, <2>2, <2>3, <2>4, <2>5 DEF IngestionFits
  <2> QED BY <1>2, <1>17, <2>1, <2>2, <2>6, OneJob
<1>18. ASSUME ~ o.failed, ~ (o.next < n),
              job' = [job EXCEPT ![j] = [next EXCEPT !.written = @ \cup {stored},
                                                     !.processed = @ \cup {d}]]
       PROVE  MemoryInv'
  <2>1. PICK g : g = [next EXCEPT !.written = @ \cup {stored}, !.processed = @ \cup {d}]
    OBVIOUS
  <2>2. /\ g \in JobRows /\ g.pc = "next" /\ g.todo = t
        /\ g.written = o.written \cup {stored} /\ g.processed = o.processed \cup {d}
    <3>1. PICK w, p : w = o.written \cup {stored} /\ p = o.processed \cup {d}
      OBVIOUS
    <3>2. w \in SUBSET MemoryRows /\ p \in SUBSET Documents
      BY <1>1, <1>5, <1>14, <3>1, JobRowIs
    <3>3. g = [next EXCEPT !.written = w, !.processed = p]
      BY <1>10, <2>1, <3>1
    <3>4. /\ g \in JobRows /\ g.pc = next.pc /\ g.todo = next.todo
          /\ g.written = w /\ g.processed = p
      BY <1>10, <3>2, <3>3 DEF JobRows
    <3> QED BY <1>10, <3>1, <3>4
  <2>3. o.next = n
    BY <1>5, <1>6, <1>18
  <2>4. RowsOf(d) = FirstRows(d, o.next)
    BY <1>4, <1>5, <2>3 DEF RowsOf
  <2>5. g.written = Stored(g.processed)
    <3>1. Stored(o.processed \cup {d}) = Stored(o.processed) \cup RowsOf(d)
      <4>1. Stored({d}) = RowsOf(d)
        BY StoredOne
      <4>2. Stored(o.processed \cup {d}) = Stored(o.processed) \cup Stored({d})
        BY StoredUnion
      <4> QED BY <4>1, <4>2
    <3>2. o.written = Stored(o.processed) \cup FirstRows(d, o.next - 1)
      BY <1>5, <1>18
    <3> QED BY <1>15, <2>2, <2>4, <3>1, <3>2
  <2>6. \A e \in g.processed : e.by = j /\ \A a \in 1 .. Len(t) : e.source # t[a]
    BY <1>5, <1>7, <1>8, <1>11, <2>2
  <2>7. \A e, f \in g.processed : e.source = f.source => e = f
    BY <1>11, <2>2
  <2>8. IngestionFits(j, g)
    BY <1>8a, <2>2, <2>5, <2>6, <2>7 DEF IngestionFits
  <2> QED BY <1>2, <1>18, <2>1, <2>2, <2>8, OneJob
<1>20. \/ job' = [job EXCEPT ![j] = [next EXCEPT !.failed = TRUE]]
       \/ /\ ~ o.failed
          /\ job' = [job EXCEPT ![j] =
                IF stored.index < stored.total
                THEN [o EXCEPT !.next = @ + 1, !.written = @ \cup {stored}]
                ELSE [next EXCEPT !.written = @ \cup {stored}, !.processed = @ \cup {d}]]
  <2>1. next = [job[j] EXCEPT !.pc = "next", !.todo = Tail(@)]
    BY <1>1, <1>8, <1>9
  <2>2. d = [by |-> j, source |-> Head(job[j].todo), text |-> job[j].text]
    BY <1>1, <1>5
  <2>3. stored = Mem!RowOf(j, Head(job[j].todo), job[j].text, job[j].next)
    BY <1>13
  <2>4. ~ o.failed <=> ~ job[j].failed
    BY <1>1
  <2> QED BY <1>1, <2>1, <2>2, <2>3, <2>4, Zenon DEF Mem!StoreChunk
<1>21. CASE /\ ~ o.failed
            /\ job' = [job EXCEPT ![j] =
                  IF stored.index < stored.total
                  THEN [o EXCEPT !.next = @ + 1, !.written = @ \cup {stored}]
                  ELSE [next EXCEPT !.written = @ \cup {stored}, !.processed = @ \cup {d}]]
  BY <1>14, <1>17, <1>18, <1>21
<1> QED BY <1>16, <1>20, <1>21

\* The commit of an ingestion adds the documents that it has processed.
LEMMA CommitIngestKeeps ==
    ASSUME MemoryInv, NEW j \in Mem!Jobs, Mem!CommitIngest(j)
    PROVE  MemoryInv'
<1>1. PICK o : o = job[j] /\ o \in JobRows
  BY DEF MemoryInv
<1>2. /\ o.pc = "next" /\ job[j].pc # "done" /\ UNCHANGED vault
      /\ job' = [job EXCEPT ![j] = Mem!Done]
  BY <1>1 DEF Mem!CommitIngest
<1>3. IngestionFits(j, o)
  BY <1>1, <1>2 DEF MemoryInv
<1>4. CASE o.failed
  <2>1. UNCHANGED <<vault, memory, reported>>
    BY <1>1, <1>2, <1>4 DEF Mem!CommitIngest
  <2> QED BY <1>2, <2>1, IdleIs, OneJob
<1>5. CASE ~ o.failed
  <2>1. memory' = memory \cup o.written /\ reported' = reported \cup o.processed
    BY <1>1, <1>5 DEF Mem!CommitIngest
  <2>2. /\ o.written = Stored(o.processed) /\ o.processed \in SUBSET Documents
        /\ \A d \in o.processed : d.by = j
        /\ \A d, e \in o.processed : d.source = e.source => d = e
    BY <1>1, <1>2, <1>3, <1>5, JobRowIs DEF IngestionFits
  <2>3. memory' = Stored(reported') /\ reported' \subseteq Documents
    BY <2>1, <2>2, StoredUnion DEF MemoryInv
  <2>4. /\ job' \in [Mem!Jobs -> JobRows] /\ job'[j].pc = "done"
        /\ \A i \in Mem!Jobs : i # j => job'[i] = job[i]
    BY <1>2, IdleIs DEF MemoryInv
  <2>5. \A d \in reported : d.by # j /\ d.by \in Mem!Jobs /\ job[d.by].pc = "done"
    BY <1>1, <1>2 DEF MemoryInv, Documents
  <2>6. \A d \in reported' : job'[d.by].pc = "done"
    BY <2>1, <2>2, <2>4, <2>5
  <2>7. \A d, e \in reported' : d.by = e.by /\ d.source = e.source => d = e
    <3>1. \A d, e \in reported : d.by = e.by /\ d.source = e.source => d = e
      BY DEF MemoryInv
    <3> QED BY <2>1, <2>2, <2>5, <3>1
  <2>8. ASSUME NEW i \in Mem!Jobs
        PROVE  /\ job'[i].pc \in {"next", "store"} => IngestionFits(i, job'[i])
               /\ job'[i].pc = "clear" => \E C \in SUBSET reported' : job'[i].cleared = Stored(C)
    <3>1. CASE i = j
      BY <2>4, <3>1
    <3>2. CASE i # j
      <4>1. job'[i] = job[i] /\ reported \subseteq reported'
        BY <2>1, <2>4, <3>2
      <4> QED BY <4>1 DEF MemoryInv
    <3> QED BY <3>1, <3>2
  <2>9. \A i, k \in Mem!Jobs : job'[i].pc = "clear" /\ job'[k].pc = "clear" => i = k
    BY <2>4 DEF MemoryInv
  <2>10. vault' \in [Mem!Files -> {<<>>} \cup {<<t>> : t \in Texts}]
    BY <1>2 DEF MemoryInv
  <2> QED BY <2>3, <2>4, <2>6, <2>7, <2>8, <2>9, <2>10 DEF MemoryInv
<1> QED BY <1>4, <1>5

\* The start of a clearing sees what is in memory.
LEMMA StartClearKeeps ==
    ASSUME MemoryInv, NEW j \in Mem!Jobs, Mem!StartClear(j)
    PROVE  MemoryInv'
<1>1. PICK g : g = [Mem!Idle EXCEPT !.pc = "clear", !.cleared = memory]
  OBVIOUS
<1>2. memory \subseteq MemoryRows
  BY StoredIs DEF MemoryInv
<1>3. g \in JobRows /\ g.pc = "clear" /\ g.cleared = memory
  BY <1>1, <1>2, IdleIs DEF JobRows
<1>4. /\ job[j].pc # "done" /\ job' = [job EXCEPT ![j] = g]
      /\ UNCHANGED <<vault, memory, reported>>
      /\ \A i \in Mem!Jobs : job[i].pc # "clear"
  BY <1>1, IdleIs DEF Mem!StartClear, Mem!InTurn
<1> QED BY <1>3, <1>4, OneJob

\* The commit of a clearing deletes the documents that it saw, whole.
LEMMA CommitClearKeeps ==
    ASSUME MemoryInv, NEW j \in Mem!Jobs, Mem!CommitClear(j)
    PROVE  MemoryInv'
<1>1. PICK o : o = job[j] /\ o.pc = "clear"
  BY DEF Mem!CommitClear
<1>2. PICK C \in SUBSET reported : o.cleared = Stored(C)
  BY <1>1 DEF MemoryInv
<1>3. /\ memory' = memory \ o.cleared
      /\ reported' = {d \in reported : \A r \in o.cleared : r.by # d.by \/ r.source # d.source}
      /\ job' = [job EXCEPT ![j] = Mem!Done] /\ UNCHANGED vault
  BY <1>1 DEF Mem!CommitClear
<1>4. /\ reported \in SUBSET Documents /\ C \in SUBSET Documents /\ memory = Stored(reported)
      /\ \A d, e \in reported : d.by = e.by /\ d.source = e.source => d = e
  BY DEF MemoryInv
<1>5. ASSUME NEW d \in reported
      PROVE  d \in C <=> \E r \in o.cleared : r.by = d.by /\ r.source = d.source
  <2>1. ASSUME d \in C PROVE \E r \in o.cleared : r.by = d.by /\ r.source = d.source
    <3>1. d \in Documents
      BY <1>4
    <3>2. PICK n : n = Len(Mem!Split(d.text)) /\ n \in Nat \ {0}
      BY <3>1, RowsAre
    <3>3. 1 \in 1 .. n /\ 1 \in 1 .. Len(Mem!Split(d.text)) /\ n \in 0 .. n
      BY <3>2
    <3>4. PICK r : r = Mem!RowOf(d.by, d.source, d.text, 1) /\ r \in RowsOf(d)
      BY <3>1, <3>3, RowsAre, Zenon
    <3>6. r.by = d.by /\ r.source = d.source
      BY <3>1, <3>4, RowsOfAre
    <3>7. r \in Stored(C)
      BY <1>4, <2>1, <3>4, StoredIs
    <3> QED BY <1>2, <3>6, <3>7
  <2>2. ASSUME NEW r \in o.cleared, r.by = d.by, r.source = d.source PROVE d \in C
    <3>1. C \in SUBSET Documents /\ r \in Stored(C)
      BY <1>2, <1>4
    <3>2. PICK e \in C : r \in RowsOf(e) /\ r.by = e.by /\ r.source = e.source
      BY <3>1, StoredIs, Zenon
    <3> QED BY <1>4, <2>2, <3>2
  <2> QED BY <2>1, <2>2
<1>6. reported' = reported \ C
  BY <1>3, <1>5
<1>7. memory' = Stored(reported')
  <2>1. ASSUME NEW r, r \in Stored(reported), r \notin Stored(C) PROVE r \in Stored(reported \ C)
    <3>1. PICK d \in reported : r \in RowsOf(d)
      BY <2>1 DEF Stored
    <3>2. d \notin C
      BY <2>1, <3>1 DEF Stored
    <3> QED BY <3>1, <3>2 DEF Stored
  <2>2. ASSUME NEW r, r \in Stored(reported \ C)
        PROVE  r \in Stored(reported) /\ r \notin Stored(C)
    <3>1. reported \ C \in SUBSET Documents
      BY <1>4
    <3>2. PICK d \in reported \ C : r \in RowsOf(d) /\ r.by = d.by /\ r.source = d.source
      BY <2>2, <3>1, StoredIs, Zenon
    <3>3. r \in Stored(reported)
      BY <3>2 DEF Stored
    <3>4. ASSUME r \in Stored(C) PROVE FALSE
      <4>1. C \in SUBSET Documents
        BY <1>4
      <4>2. PICK e \in C : r \in RowsOf(e) /\ r.by = e.by /\ r.source = e.source
        BY <3>4, <4>1, StoredIs, Zenon
      <4> QED BY <1>4, <3>2, <4>2
    <3> QED BY <3>3, <3>4
  <2>3. Stored(reported) \ Stored(C) = Stored(reported \ C)
    BY <2>1, <2>2
  <2>4. memory' = Stored(reported) \ Stored(C)
    BY <1>2, <1>3, <1>4
  <2> QED BY <1>6, <2>3, <2>4
<1>8. /\ job' \in [Mem!Jobs -> JobRows] /\ job'[j].pc = "done"
      /\ \A i \in Mem!Jobs : i # j => job'[i] = job[i]
  BY <1>3, IdleIs DEF MemoryInv
<1>9. \A i \in Mem!Jobs : job'[i].pc # "clear"
  BY <1>1, <1>8 DEF MemoryInv
<1>10. \A d \in reported' : job'[d.by].pc = "done"
  <2>1. \A d \in reported : d.by \in Mem!Jobs /\ job[d.by].pc = "done"
    BY DEF MemoryInv, Documents
  <2> QED BY <1>6, <1>8, <2>1
<1>11. \A i \in Mem!Jobs : job'[i].pc \in {"next", "store"} => IngestionFits(i, job'[i])
  <2>1. \A i \in Mem!Jobs : job[i].pc \in {"next", "store"} => IngestionFits(i, job[i])
    BY DEF MemoryInv
  <2>2. ASSUME NEW i \in Mem!Jobs, job'[i].pc \in {"next", "store"} PROVE IngestionFits(i, job'[i])
    <3>1. i # j
      BY <1>8, <2>2
    <3> QED BY <1>8, <2>1, <2>2, <3>1
  <2> QED BY <2>2
<1>12. vault' \in [Mem!Files -> {<<>>} \cup {<<t>> : t \in Texts}]
  BY <1>3 DEF MemoryInv
<1>13. \A d, e \in reported' : d.by = e.by /\ d.source = e.source => d = e
  BY <1>4, <1>6
<1>14. reported' \subseteq Documents
  BY <1>4, <1>6
<1> QED BY <1>7, <1>8, <1>9, <1>10, <1>11, <1>12, <1>13, <1>14 DEF MemoryInv

\* Every step of AgentMemory preserves the invariant.
LEMMA MemoryNext ==
    ASSUME MemoryInv, Mem!Next \/ UNCHANGED memoryVars
    PROVE  MemoryInv'
<1>1. ASSUME NEW f \in Mem!Files, NEW text \in Texts, Mem!Upload(f, text) PROVE MemoryInv'
  <2>1. /\ vault' = [vault EXCEPT ![f] = <<text>>]
        /\ memory' = memory /\ job' = job /\ reported' = reported
    BY <1>1 DEF Mem!Upload, Mem!StoreDocument
  <2>2. vault' \in [Mem!Files -> {<<>>} \cup {<<t>> : t \in Texts}]
    BY <2>1 DEF MemoryInv
  <2> QED BY <2>1, <2>2 DEF MemoryInv
<1>2. ASSUME NEW j \in Mem!Jobs, Mem!Die(j) PROVE MemoryInv'
  BY <1>2, IdleIs, OneJob DEF Mem!Die
<1>3. CASE UNCHANGED memoryVars
  BY <1>3 DEF MemoryInv, memoryVars
<1> QED BY <1>1, <1>2, <1>3, StartIngestKeeps, TakeDocumentKeeps, StoreChunkKeeps,
           CommitIngestKeeps, StartClearKeeps, CommitClearKeeps DEF Mem!Next

\* What is in memory are the documents that ingestions reported, whole; and each
\* request fits what it is about to add or to delete.
THEOREM MemoryInvariant == MCSpec => []MemoryInv
<1>1. MCInit => MemoryInv
  BY OwnInit, MemoryInit
<1>2. ASSUME MemoryInv,
             [MCNext]_<<focus, vars, accountVars, treasuryVars, priceVars, memoryVars,
                        streamVars, sessionVars, anchoringVars, breakerVars, profileVars>>
      PROVE  MemoryInv'
  BY <1>2, OwnNext, MemoryNext
<1> QED BY <1>1, <1>2, PTL DEF MCSpec

\* A document that an ingestion reported, and that nothing has cleared, can be
\* retrieved in full and in order, and nothing is left of others (TextChunker,
\* PersonalizationService); for any texts and any number of requests.
THEOREM MemoryDoesHoldDocuments == MCSpec => []MemoryHoldsDocuments
<1>1. MemoryInv => MemoryHoldsDocuments
  BY DocumentsHeld DEF MemoryHoldsDocuments
<1> QED BY <1>1, MemoryInvariant, PTL

=============================================================================
