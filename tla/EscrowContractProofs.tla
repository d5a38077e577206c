------------------------ MODULE EscrowContractProofs ------------------------
(***************************************************************************)
(* Proofs about the escrow contract, for any set of applications, sessions *)
(* and amounts.                                                            *)
(***************************************************************************)
EXTENDS EscrowContract, TLAPS

\* The status of each application says exactly where its money is.
IInv == TypeOK /\ \A a \in Apps : Books(app[a])

\* What one application may become in one step of the contract.
Moved(c, d) ==
    /\ d \in AppState
    /\ Books(c) => Books(d)
    /\ \/ StageOf(c) = StageOf(d)
       \/ StageOf(c) = "open" /\ StageOf(d) = "held"
       \/ StageOf(c) = "held" /\ StageOf(d) \in {"paid", "returned"}
    /\ Books(c) /\ c.frozen => d = [c EXCEPT !.frozen = d.frozen]

\* A method of application a changes a, in a way Moved allows, and nothing else.
LEMMA MethodStep ==
    ASSUME TypeOK, NEW a \in Apps, Method(a)
    PROVE  /\ app' = [app EXCEPT ![a] = app'[a]]
           /\ Moved(app[a], app'[a])
<1> DEFINE c == app[a]
<1> SUFFICES \E d : app' = [app EXCEPT ![a] = d] /\ Moved(c, d)
  BY DEF TypeOK
<1>c. c \in AppState
  BY DEF TypeOK
<1> HIDE DEF c
<1> USE <1>c DEF Moved, AppState, Status, Books, StageOf
<1>1. ASSUME NEW s \in Sessions, NEW m \in Amounts, Initialize(a, s, m)
      PROVE  \E d : app' = [app EXCEPT ![a] = d] /\ Moved(c, d)
  <2> DEFINE d == [status |-> "DEPLOYED", frozen |-> FALSE, session |-> s,
                   amount |-> m, balance |-> 0, toSeller |-> 0, toBuyer |-> 0]
  <2>1. app' = [app EXCEPT ![a] = d] /\ c.status = "ABSENT"
    BY <1>1 DEF Initialize, c
  <2>2. m \in Nat
    BY AmountsAssumption
  <2>3. Moved(c, d)
    BY <2>1, <2>2
  <2>4. QED BY <2>1, <2>3
<1>2. ASSUME NEW m \in Amounts, Fund(a, m)
      PROVE  \E d : app' = [app EXCEPT ![a] = d] /\ Moved(c, d)
  <2> DEFINE d == [c EXCEPT !.status = "FUNDED", !.balance = @ + m]
  <2>1. app' = [app EXCEPT ![a] = d] /\ CanFund(c, m)
    BY <1>2 DEF Fund, c
  <2>2. d \in AppState
    <3> DEFINE e == [c EXCEPT !.status = "FUNDED"]
    <3>1. e \in AppState /\ c.balance + m \in Int
      BY AmountsAssumption
    <3> HIDE DEF e
    <3>2. [e EXCEPT !.balance = c.balance + m] \in AppState
      BY <3>1
    <3>3. QED BY <3>2 DEF e
  <2>3. /\ d.status = "FUNDED" /\ d.frozen = c.frozen /\ d.amount = c.amount
        /\ d.balance = c.balance + m
        /\ d.toSeller = c.toSeller /\ d.toBuyer = c.toBuyer
    OBVIOUS
  <2> HIDE DEF d
  <2>4. m = c.amount /\ c.status = "DEPLOYED" /\ ~c.frozen
    BY <2>1 DEF CanFund
  <2>5. Moved(c, d)
    BY <2>2, <2>3, <2>4
  <2>6. QED BY <2>1, <2>5
<1>3. ASSUME NEW sender \in Senders, Release(a, sender)
      PROVE  \E d : app' = [app EXCEPT ![a] = d] /\ Moved(c, d)
  <2> DEFINE d == [c EXCEPT !.status = "RELEASED", !.balance = @ - c.amount,
                            !.toSeller = @ + c.amount]
  <2>1. app' = [app EXCEPT ![a] = d] /\ CanRelease(c, sender)
    BY <1>3 DEF Release, c
  <2>2. d \in AppState
    <3> DEFINE e == [c EXCEPT !.status = "RELEASED"]
               f == [e EXCEPT !.balance = c.balance - c.amount]
    <3>1. e \in AppState
      OBVIOUS
    <3> HIDE DEF e
    <3>2. f \in AppState
      BY <3>1
    <3> HIDE DEF f
    <3>3. [f EXCEPT !.toSeller = c.toSeller + c.amount] \in AppState
      BY <3>2
    <3>4. QED BY <3>3 DEF e, f
  <2>3. /\ d.status = "RELEASED" /\ d.frozen = c.frozen /\ d.amount = c.amount
        /\ d.balance = c.balance - c.amount
        /\ d.toSeller = c.toSeller + c.amount /\ d.toBuyer = c.toBuyer
    OBVIOUS
  <2> HIDE DEF d
  <2>4. c.status = "FUNDED" /\ ~c.frozen
    BY <2>1 DEF CanRelease
  <2>5. Moved(c, d)
    BY <2>2, <2>3, <2>4
  <2>6. QED BY <2>1, <2>5
<1>4. ASSUME NEW sender \in Senders, Refund(a, sender)
      PROVE  \E d : app' = [app EXCEPT ![a] = d] /\ Moved(c, d)
  <2> DEFINE d == [c EXCEPT !.status = "REFUNDED", !.balance = @ - c.amount,
                            !.toBuyer = @ + c.amount]
  <2>1. app' = [app EXCEPT ![a] = d] /\ CanRefund(c, sender)
    BY <1>4 DEF Refund, c
  <2>2. d \in AppState
    <3> DEFINE e == [c EXCEPT !.status = "REFUNDED"]
               f == [e EXCEPT !.balance = c.balance - c.amount]
    <3>1. e \in AppState
      OBVIOUS
    <3> HIDE DEF e
    <3>2. f \in AppState
      BY <3>1
    <3> HIDE DEF f
    <3>3. [f EXCEPT !.toBuyer = c.toBuyer + c.amount] \in AppState
      BY <3>2
    <3>4. QED BY <3>3 DEF e, f
  <2>3. /\ d.status = "REFUNDED" /\ d.frozen = c.frozen /\ d.amount = c.amount
        /\ d.balance = c.balance - c.amount
        /\ d.toBuyer = c.toBuyer + c.amount /\ d.toSeller = c.toSeller
    OBVIOUS
  <2> HIDE DEF d
  <2>4. c.status = "FUNDED" /\ ~c.frozen
    BY <2>1 DEF CanRefund
  <2>5. Moved(c, d)
    BY <2>2, <2>3, <2>4
  <2>6. QED BY <2>1, <2>5
<1>5. ASSUME NEW sender \in Senders, Freeze(a, sender) \/ Unfreeze(a, sender)
      PROVE  \E d : app' = [app EXCEPT ![a] = d] /\ Moved(c, d)
  <2>1. PICK f \in BOOLEAN : app' = [app EXCEPT ![a].frozen = f]
    BY <1>5 DEF Freeze, Unfreeze
  <2> DEFINE d == [c EXCEPT !.frozen = f]
  <2>2. app' = [app EXCEPT ![a] = d] /\ c.status # "ABSENT"
    BY <1>5, <2>1 DEF c, Freeze, Unfreeze, CanFreeze, CanUnfreeze
  <2>3. Moved(c, d)
    BY <2>2
  <2>4. QED BY <2>2, <2>3
<1>6. QED BY <1>1, <1>2, <1>3, <1>4, <1>5 DEF Method

LEMMA InitInvariant == Init => IInv
  BY DEF Init, IInv, TypeOK, AppState, Status, Absent, Books

LEMMA StepInvariant == IInv /\ [Next]_app => IInv'
<1> SUFFICES ASSUME IInv, [Next]_app PROVE IInv'
  OBVIOUS
<1>1. CASE Next
  <2>1. PICK a \in Apps : Method(a)
    BY <1>1 DEF Next
  <2>2. app' = [app EXCEPT ![a] = app'[a]] /\ Moved(app[a], app'[a])
    BY <2>1, MethodStep DEF IInv
  <2>3. QED BY <2>2 DEF IInv, TypeOK, Moved
<1>2. CASE UNCHANGED app
  BY <1>2 DEF IInv, TypeOK
<1>3. QED BY <1>1, <1>2

\* The type invariant and the bookkeeping hold in every behaviour.
THEOREM Invariant == Spec => []IInv
  BY InitInvariant, StepInvariant, PTL DEF Spec

\* Every inner payment of the contract is covered, and the deposit is paid out
\* once and to one party, for any number of applications and any amounts.
THEOREM ContractIsSolvent == Spec => []Solvent
<1>1. IInv => Solvent
  <2> SUFFICES ASSUME IInv, NEW a \in Apps, NEW c, c = app[a]
               PROVE  LET deposit == IF c.status \in {"ABSENT", "DEPLOYED"}
                                     THEN 0 ELSE c.amount
                      IN  /\ c.balance >= 0
                          /\ c.balance + c.toSeller + c.toBuyer = deposit
                          /\ c.toSeller \in {0, c.amount}
                          /\ c.toBuyer \in {0, c.amount}
                          /\ c.toSeller = 0 \/ c.toBuyer = 0
    BY DEF Solvent
  <2>1. c.status \in Status /\ c.amount \in Nat /\ Books(c)
    BY DEF IInv, TypeOK, AppState
  <2>2. QED BY <2>1 DEF Status, Books
<1>2. QED BY <1>1, Invariant, PTL

\* Nothing but the flag itself changes while an application is frozen.
THEOREM FrozenIsInert == Spec => FrozenHoldsMoney
<1> DEFINE Inert == \A a \in Apps : app[a].frozen =>
                       app'[a] = [app[a] EXCEPT !.frozen = app'[a].frozen]
<1>1. IInv /\ [Next]_app => [Inert]_app
  <2> SUFFICES ASSUME IInv, Next PROVE Inert
    OBVIOUS
  <2>1. PICK a \in Apps : Method(a)
    BY DEF Next
  <2>2. app' = [app EXCEPT ![a] = app'[a]] /\ Moved(app[a], app'[a])
    BY <2>1, MethodStep DEF IInv
  <2>3. \A b \in Apps \ {a} : app'[b] = app[b]
    BY <2>2 DEF IInv, TypeOK
  <2>4. \A b \in Apps : app[b] = [app[b] EXCEPT !.frozen = app[b].frozen]
    BY DEF IInv, TypeOK, AppState
  <2>5. QED BY <2>2, <2>3, <2>4 DEF Moved, IInv
<1>2. QED BY <1>1, Invariant, PTL DEF Spec, FrozenHoldsMoney

----------------------------------------------------------------------------
(* The contract implements TradeCustody. *)

LEMMA InitImplements == Init => Custody!Init
  BY DEF Init, Absent, StageOf, Custody!Init

LEMMA StepImplements ==
    IInv /\ [Next]_app => [Custody!Next]_([a \in Apps |-> StageOf(app[a])])
<1> DEFINE st == [a \in Apps |-> StageOf(app[a])]
<1> SUFFICES ASSUME IInv, [Next]_app PROVE [Custody!Next]_st
  OBVIOUS
<1>1. CASE UNCHANGED app
  BY <1>1
<1>2. CASE Next
  <2>1. PICK a \in Apps : Method(a)
    BY <1>2 DEF Next
  <2>2. app' = [app EXCEPT ![a] = app'[a]] /\ Moved(app[a], app'[a])
    BY <2>1, MethodStep DEF IInv
  <2>3. st' = [st EXCEPT ![a] = StageOf(app'[a])]
    BY <2>2 DEF IInv, TypeOK
  <2>4. CASE StageOf(app[a]) = StageOf(app'[a])
    BY <2>3, <2>4
  <2>5. CASE StageOf(app[a]) = "open" /\ StageOf(app'[a]) = "held"
    BY <2>3, <2>5 DEF Custody!Next, Custody!Hold
  <2>6. CASE StageOf(app[a]) = "held" /\ StageOf(app'[a]) \in {"paid", "returned"}
    BY <2>3, <2>6 DEF Custody!Next, Custody!Pay, Custody!Return
  <2>7. QED BY <2>2, <2>4, <2>5, <2>6 DEF Moved
<1>3. QED BY <1>1, <1>2

\* Every application keeps the custody promise.
THEOREM ContractImplementsCustody == Spec => ImplementsCustody
  BY InitImplements, StepImplements, Invariant, PTL
     DEF Spec, ImplementsCustody, Custody!Spec

============================================================================
