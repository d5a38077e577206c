--------------------------- MODULE EscrowContract ---------------------------
(***************************************************************************)
(* The CadenciaEscrow smart contract (contracts/escrow_contract.py): one   *)
(* application per deployed escrow, called by any account.  A call whose   *)
(* assertions fail is rejected by the network and changes nothing, so each *)
(* assertion is a conjunct of the method's guard.                          *)
(*                                                                         *)
(* The inner payments are modelled as they are written: the contract does  *)
(* not look at its own balance before it pays.  That a payment is always   *)
(* covered is a property (Solvent), not a guard.                           *)
(***************************************************************************)
EXTENDS Integers

CONSTANTS
    Apps,        \* application ids
    Sessions,    \* negotiation sessions, recorded in the application
    NoSession,   \* the session of an application that does not exist yet
    Amounts      \* the microAlgo amounts in play

ASSUME AmountsAssumption == Amounts \subseteq Nat \ {0}
ASSUME NoSessionAssumption == NoSession \notin Sessions

VARIABLE app     \* the global state of every application, and its money

Status == {"ABSENT", "DEPLOYED", "FUNDED", "RELEASED", "REFUNDED"}

Senders == {"creator", "buyer", "seller", "stranger"}

AppState == [status   : Status,
             frozen   : BOOLEAN,
             session  : Sessions \cup {NoSession},
             amount   : Nat,
             balance  : Int,      \* held by the application account
             toSeller : Int,      \* paid out by release
             toBuyer  : Int]      \* paid out by refund

TypeOK == app \in [Apps -> AppState]

Absent == [status |-> "ABSENT", frozen |-> FALSE, session |-> NoSession,
           amount |-> 0, balance |-> 0, toSeller |-> 0, toBuyer |-> 0]

Init == app = [a \in Apps |-> Absent]

----------------------------------------------------------------------------
(* The assertions of each method, on the state of one application. *)

CanFund(c, payment) ==
    /\ c.status = "DEPLOYED"
    /\ ~c.frozen
    /\ payment = c.amount

CanRelease(c, sender) ==
    /\ sender = "creator"
    /\ c.status = "FUNDED"
    /\ ~c.frozen

\* Mutation check only: refund without its status assertion.
CanRefundAnyStatus(c, sender) ==
    /\ sender = "creator"
    /\ c.status # "ABSENT"
    /\ ~c.frozen

\* Mutation check only: refund without its freeze assertion.
CanRefundFrozen(c, sender) ==
    /\ sender = "creator"
    /\ c.status = "FUNDED"

CanRefund(c, sender) ==
    /\ sender = "creator"
    /\ c.status = "FUNDED"
    /\ ~c.frozen

CanFreeze(c, sender) ==
    /\ sender \in {"creator", "buyer", "seller"}
    /\ c.status # "ABSENT"

CanUnfreeze(c, sender) ==
    /\ sender = "creator"
    /\ c.status # "ABSENT"
    /\ c.frozen

----------------------------------------------------------------------------
(* The methods. *)

\* The application is created and initialised in one transaction.
Initialize(a, s, amount) ==
    /\ app[a].status = "ABSENT"
    /\ app' = [app EXCEPT ![a] = [status |-> "DEPLOYED", frozen |-> FALSE,
                                  session |-> s, amount |-> amount,
                                  balance |-> 0, toSeller |-> 0, toBuyer |-> 0]]

\* The payment and the call are one atomic group: both happen or neither.
Fund(a, payment) ==
    /\ CanFund(app[a], payment)
    /\ app' = [app EXCEPT ![a].status = "FUNDED",
                          ![a].balance = @ + payment]

\* Mutation check only: the status assignment after the inner payment is lost.
ReleaseKeepsStatus(a, sender) ==
    /\ CanRelease(app[a], sender)
    /\ app' = [app EXCEPT ![a].balance = @ - app[a].amount,
                          ![a].toSeller = @ + app[a].amount]

Release(a, sender) ==
    /\ CanRelease(app[a], sender)
    /\ app' = [app EXCEPT ![a].status = "RELEASED",
                          ![a].balance = @ - app[a].amount,
                          ![a].toSeller = @ + app[a].amount]

Refund(a, sender) ==
    /\ CanRefund(app[a], sender)
    /\ app' = [app EXCEPT ![a].status = "REFUNDED",
                          ![a].balance = @ - app[a].amount,
                          ![a].toBuyer = @ + app[a].amount]

Freeze(a, sender) ==
    /\ CanFreeze(app[a], sender)
    /\ app' = [app EXCEPT ![a].frozen = TRUE]

Unfreeze(a, sender) ==
    /\ CanUnfreeze(app[a], sender)
    /\ app' = [app EXCEPT ![a].frozen = FALSE]

\* Any call of any account on application a.
Method(a) ==
    \/ \E s \in Sessions, m \in Amounts : Initialize(a, s, m)
    \/ \E m \in Amounts : Fund(a, m)
    \/ \E sender \in Senders :
          \/ Release(a, sender)
          \/ Refund(a, sender)
          \/ Freeze(a, sender)
          \/ Unfreeze(a, sender)

Next == \E a \in Apps : Method(a)

Spec == Init /\ [][Next]_app

----------------------------------------------------------------------------
(* Properties. *)

\* Every inner payment is covered by the buyer's deposit, and the deposit is
\* paid out once: what an application holds and what it paid to the seller and
\* to the buyer always add up to the deposit, the balance never goes negative,
\* and money moved to at most one of the two parties, in full.
Solvent ==
    \A a \in Apps :
        LET c == app[a]
            deposit == IF c.status \in {"ABSENT", "DEPLOYED"} THEN 0 ELSE c.amount
        IN  /\ c.balance >= 0
            /\ c.balance + c.toSeller + c.toBuyer = deposit
            /\ c.toSeller \in {0, c.amount}
            /\ c.toBuyer \in {0, c.amount}
            /\ c.toSeller = 0 \/ c.toBuyer = 0

\* The bookkeeping that makes Solvent inductive: the status determines where
\* the whole amount is, and what does not exist is not frozen.
Books(c) ==
    /\ c.balance = IF c.status = "FUNDED" THEN c.amount ELSE 0
    /\ c.toSeller = IF c.status = "RELEASED" THEN c.amount ELSE 0
    /\ c.toBuyer = IF c.status = "REFUNDED" THEN c.amount ELSE 0
    /\ c.status = "ABSENT" => ~c.frozen

\* The freeze flag halts everything but itself (SRS-SC-003 and the "no state
\* transitions permitted" of docs/context.md): while an application is frozen
\* neither its status nor its money changes, whoever calls it.
FrozenHoldsMoney ==
    [][\A a \in Apps :
          app[a].frozen =>
             app'[a] = [app[a] EXCEPT !.frozen = app'[a].frozen]]_app

\* Each application keeps the custody promise: its deposit is taken once and
\* leaves once, to one party.
StageOf(c) ==
    IF c.status = "FUNDED" THEN "held"
    ELSE IF c.status = "RELEASED" THEN "paid"
    ELSE IF c.status = "REFUNDED" THEN "returned"
    ELSE "open"

Custody == INSTANCE TradeCustody
              WITH Deals <- Apps, stage <- [a \in Apps |-> StageOf(app[a])]

ImplementsCustody == Custody!Spec

=============================================================================
