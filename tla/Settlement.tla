----------------------------- MODULE Settlement -----------------------------
(***************************************************************************)
(* The settlement context: SettlementService, the Escrow aggregate, the    *)
(* Postgres repositories and the Algorand gateway, over the on-chain       *)
(* contracts of EscrowContract.                                            *)
(*                                                                         *)
(* Every HTTP request that reaches the service runs as one coroutine:      *)
(*                                                                         *)
(*   load the row -> call the contract -> check the aggregate's guard on   *)
(*   the loaded copy and merge it -> flush and commit -> publish the event *)
(*                                                                         *)
(* with an await between any two of them.  There is no row lock and no     *)
(* version column, so requests on one escrow interleave freely, each with  *)
(* its own copy (esc) of the row as it was when it started.  merge() reads *)
(* the row again (base: the ORM object of the first read is gone, and the  *)
(* isolation is READ COMMITTED) and the flush writes the columns in which  *)
(* the copy differs from that second reading.  A request can end between   *)
(* any two steps: the gateway raises (a rejection, or a timeout after the  *)
(* transaction was broadcast), the database refuses, or the process dies   *)
(* (Abandon).                                                              *)
(*                                                                         *)
(* A row is identified by its session: session_id is UNIQUE.               *)
(***************************************************************************)
EXTENDS Integers, FiniteSets

CONSTANTS
    Sessions,    \* negotiation sessions that may be settled
    NoSession,
    Apps,        \* application ids the network may assign
    NoApp,       \* algo_app_id is NULL
    Price,       \* the agreed price of each session, in microAlgo
    Requests,    \* concurrent requests
    Calls,       \* the service operations the environment calls
    Faults       \* may a request end between two of its steps?

\* deploy_escrow, fund_escrow, ... and the Pera wallet's submit_signed_fund.
AllCalls == {"deploy", "fund", "release", "refund", "freeze", "unfreeze",
             "signed_fund"}

ASSUME PriceAssumption == Price \in [Sessions -> Nat \ {0}]
ASSUME CallsAssumption == Calls \subseteq AllCalls
ASSUME FaultsAssumption == Faults \in BOOLEAN
ASSUME AbsentIdsAssumption == NoApp \notin Apps /\ NoSession \notin Sessions

VARIABLES
    app,         \* the contracts on chain (EscrowContract)
    rows,        \* table escrow_contracts, by session
    settled,     \* number of settlements rows of each escrow
    anchored,    \* sessions whose Merkle root has been anchored
    published,   \* domain events handed to the publisher, by session
    req          \* the requests in flight

vars == <<app, rows, settled, anchored, published, req>>

Contract == INSTANCE EscrowContract WITH Amounts <- {Price[s] : s \in Sessions}

----------------------------------------------------------------------------
(* The Escrow aggregate and its row. *)

RowStatus == {"DEPLOYED", "FUNDED", "RELEASED", "REFUNDED"}

Escrow == [app : Apps \cup {NoApp}, status : RowStatus \cup {"FROZEN"},
           frozen : BOOLEAN]

Row == [app : Apps \cup {NoApp}, status : RowStatus, frozen : BOOLEAN]

NoRow == [app |-> NoApp, status |-> "ABSENT", frozen |-> FALSE]

NewEscrow == [app |-> NoApp, status |-> "DEPLOYED", frozen |-> FALSE]

\* _model_to_escrow: FROZEN is not a row status, the flag stands for it.
Load(row) ==
    [row EXCEPT !.status = IF row.frozen THEN "FROZEN" ELSE row.status]

\* _escrow_to_model: a frozen escrow is stored as FUNDED with the flag set.
Store(esc) ==
    [esc EXCEPT !.status = IF esc.status = "FROZEN" THEN "FUNDED" ELSE esc.status,
                !.frozen = (esc.status = "FROZEN") \/ esc.frozen]

\* The guards of record_funding, record_release, record_refund, freeze and
\* unfreeze.
CanRecordFunding(esc) == ~esc.frozen /\ esc.status = "DEPLOYED"

CanRecordRelease(esc) == ~esc.frozen /\ esc.status = "FUNDED"

CanRecordRefund(esc) == esc.status \in {"FUNDED", "FROZEN"}

CanRecordFreeze(esc) == esc.status \notin {"RELEASED", "REFUNDED"} /\ ~esc.frozen

CanRecordUnfreeze(esc) == esc.frozen

CanRecord(op, esc) ==
    \/ op = "deploy" /\ esc.app = NoApp
    \/ op = "fund" /\ CanRecordFunding(esc)
    \/ op = "release" /\ CanRecordRelease(esc)
    \/ op = "refund" /\ CanRecordRefund(esc)
    \/ op = "freeze" /\ CanRecordFreeze(esc)
    \/ op = "unfreeze" /\ CanRecordUnfreeze(esc)

\* What each record_ method leaves in the aggregate.  record_deployment is the
\* one that sets the application id, and it keeps the status.
StatusAfter == [deploy   |-> "DEPLOYED", fund   |-> "FUNDED",
                release  |-> "RELEASED", refund |-> "REFUNDED",
                freeze   |-> "FROZEN",   unfreeze |-> "FUNDED"]

Record(op, esc, a) ==
    [esc EXCEPT !.app = a, !.status = StatusAfter[op], !.frozen = (op = "freeze")]

----------------------------------------------------------------------------
(* Requests. *)

Idle == [op |-> "none", session |-> NoSession, pc |-> "idle", esc |-> NewEscrow,
         base |-> NoRow]

RequestState ==
    [op      : AllCalls \cup {"none"},
     session : Sessions \cup {NoSession},
     pc      : {"idle", "insert", "gateway", "anchor", "persist", "write",
                "publish"},
     esc     : Escrow,
     base    : Row \cup {NoRow}]

TypeOK ==
    /\ Contract!TypeOK
    /\ rows \in [Sessions -> Row \cup {NoRow}]
    /\ settled \in [Sessions -> Nat]
    /\ anchored \subseteq Sessions
    /\ published \in [Sessions -> SUBSET AllCalls]
    /\ req \in [Requests -> RequestState]

Init ==
    /\ Contract!Init
    /\ rows = [s \in Sessions |-> NoRow]
    /\ settled = [s \in Sessions |-> 0]
    /\ anchored = {}
    /\ published = [s \in Sessions |-> {}]
    /\ req = [p \in Requests |-> Idle]

At(p, op, pc) == req[p].op = op /\ req[p].pc = pc

MoveTo(p, pc) == req' = [req EXCEPT ![p].pc = pc]

\* The request ends, with or without a result.
Done(p) == req' = [req EXCEPT ![p] = Idle]

Begin(p, op, s, pc, esc) ==
    /\ op \in Calls
    /\ req[p] = Idle
    /\ req' = [req EXCEPT ![p] = [op |-> op, session |-> s, pc |-> pc, esc |-> esc,
                                    base |-> NoRow]]
    /\ UNCHANGED <<app, rows, settled, anchored, published>>

\* deploy_escrow, step 1: a session that has a row is answered from it, with no
\* effect; otherwise a new aggregate is made.
StartDeploy(p, s) ==
    /\ rows[s] = NoRow
    /\ Begin(p, "deploy", s, "insert", NewEscrow)

\* get_by_id and the guards before the gateway call: the row exists and has an
\* application.
StartOnEscrow(p, op, s) ==
    /\ rows[s] # NoRow
    /\ rows[s].app # NoApp
    /\ op \in {"fund", "release", "refund", "freeze", "unfreeze"}
    /\ Begin(p, op, s, "gateway", Load(rows[s]))

\* submit-signed-fund: the route reads the row and insists on DEPLOYED before
\* it broadcasts the wallet's transaction group.
StartSignedFund(p, s) ==
    /\ rows[s] # NoRow
    /\ rows[s].app # NoApp
    /\ Load(rows[s]).status = "DEPLOYED"
    /\ Begin(p, "signed_fund", s, "gateway", Load(rows[s]))

----------------------------------------------------------------------------
(* deploy_escrow, steps 3 and 4. *)

\* Mutation check only: session_id is not UNIQUE (and the newer row is found).
InsertRowNotUnique(p) ==
    /\ At(p, "deploy", "insert")
    /\ rows' = [rows EXCEPT ![req[p].session] = Store(req[p].esc)]
    /\ MoveTo(p, "gateway")
    /\ UNCHANGED <<app, settled, anchored, published>>

\* Mutation check only: the request ends with the insertion, before the contract
\* is created.
InsertRowThenFails(p) ==
    /\ At(p, "deploy", "insert")
    /\ rows' = [rows EXCEPT ![req[p].session] = Store(req[p].esc)]
    /\ Done(p)
    /\ UNCHANGED <<app, settled, anchored, published>>

\* The row is committed before the blockchain call.  A second request that got
\* past step 1 fails on UNIQUE(session_id).
InsertRow(p) ==
    /\ At(p, "deploy", "insert")
    /\ IF rows[req[p].session] = NoRow
       THEN /\ rows' = [rows EXCEPT ![req[p].session] = Store(req[p].esc)]
            /\ MoveTo(p, "gateway")
       ELSE /\ Done(p)
            /\ UNCHANGED rows
    /\ UNCHANGED <<app, settled, anchored, published>>

\* The application is created with the session and its price, and recorded in
\* the aggregate (record_deployment).
DeployOnChain(p) ==
    /\ At(p, "deploy", "gateway")
    /\ \E a \in Apps :
          /\ Contract!Initialize(a, req[p].session, Price[req[p].session])
          /\ CanRecord("deploy", req[p].esc)
          /\ req' = [req EXCEPT ![p].pc = "persist",
                                ![p].esc = Record("deploy", @, a)]
    /\ UNCHANGED <<rows, settled, anchored, published>>

----------------------------------------------------------------------------
(* The gateway call of the other operations.  The platform account is the  *)
(* contract's creator.                                                     *)

AppOf(p) == req[p].esc.app

\* Mutation check only: the row is funded without the contract call.
FundRowOnly(p) ==
    /\ At(p, "fund", "gateway")
    /\ MoveTo(p, "persist")
    /\ UNCHANGED <<app, rows, settled, anchored, published>>

FundOnChain(p) ==
    /\ At(p, "fund", "gateway")
    /\ Contract!Fund(AppOf(p), Price[req[p].session])
    /\ MoveTo(p, "persist")
    /\ UNCHANGED <<rows, settled, anchored, published>>

\* Mutation check only: a rejection of the network is swallowed.
ReleaseRejectionIgnored(p) ==
    /\ At(p, "release", "gateway")
    /\ \/ Contract!Release(AppOf(p), "creator")
       \/ ~Contract!CanRelease(app[AppOf(p)], "creator") /\ UNCHANGED app
    /\ MoveTo(p, "anchor")
    /\ UNCHANGED <<rows, settled, anchored, published>>

ReleaseOnChain(p) ==
    /\ At(p, "release", "gateway")
    /\ Contract!Release(AppOf(p), "creator")
    /\ MoveTo(p, "anchor")
    /\ UNCHANGED <<rows, settled, anchored, published>>

RefundOnChain(p) ==
    /\ At(p, "refund", "gateway")
    /\ Contract!Refund(AppOf(p), "creator")
    /\ MoveTo(p, "persist")
    /\ UNCHANGED <<rows, settled, anchored, published>>

FreezeOnChain(p) ==
    /\ At(p, "freeze", "gateway")
    /\ Contract!Freeze(AppOf(p), "creator")
    /\ MoveTo(p, "persist")
    /\ UNCHANGED <<rows, settled, anchored, published>>

UnfreezeOnChain(p) ==
    /\ At(p, "unfreeze", "gateway")
    /\ Contract!Unfreeze(AppOf(p), "creator")
    /\ MoveTo(p, "persist")
    /\ UNCHANGED <<rows, settled, anchored, published>>

\* The wallet's group is broadcast, and the route returns: it neither records
\* the funding in the aggregate nor publishes anything.
SignedFundOnChain(p) ==
    /\ At(p, "signed_fund", "gateway")
    /\ Contract!Fund(AppOf(p), Price[req[p].session])
    /\ Done(p)
    /\ UNCHANGED <<rows, settled, anchored, published>>

\* The contract's assertions, for a call in the gateway.
ContractAccepts(op, c, price) ==
    \/ op \in {"fund", "signed_fund"} /\ Contract!CanFund(c, price)
    \/ op = "release" /\ Contract!CanRelease(c, "creator")
    \/ op = "refund" /\ Contract!CanRefund(c, "creator")
    \/ op = "freeze" /\ Contract!CanFreeze(c, "creator")
    \/ op = "unfreeze" /\ Contract!CanUnfreeze(c, "creator")

\* The network rejects the call, the gateway raises and the request fails.
ContractRejects(p) ==
    /\ req[p].pc = "gateway"
    /\ req[p].op # "deploy"
    /\ ~ContractAccepts(req[p].op, app[AppOf(p)], Price[req[p].session])
    /\ Done(p)
    /\ UNCHANGED <<app, rows, settled, anchored, published>>

----------------------------------------------------------------------------
(* After the gateway call. *)

\* Mutation check only: with ANCHOR_SERVICE_ENABLED other than "true" the anchor
\* call raises, after the payout.
AnchorRaises(p) ==
    /\ At(p, "release", "anchor")
    /\ Done(p)
    /\ UNCHANGED <<app, rows, settled, anchored, published>>

\* release_escrow, step 6: the Merkle root in the note of a second transaction.
AnchorRoot(p) ==
    /\ At(p, "release", "anchor")
    /\ anchored' = anchored \cup {req[p].session}
    /\ MoveTo(p, "persist")
    /\ UNCHANGED <<app, rows, settled, published>>

\* The aggregate's guard holds on the loaded copy, the copy is changed, and
\* merge() reads the row it will be laid over.
Persist(p) ==
    /\ req[p].pc = "persist"
    /\ LET op == req[p].op
       IN  /\ op # "deploy" => CanRecord(op, req[p].esc)
           /\ req' = [req EXCEPT
                 ![p].pc = "write",
                 ![p].esc = IF op = "deploy" THEN @ ELSE Record(op, @, AppOf(p)),
                 ![p].base = rows[req[p].session]]
    /\ UNCHANGED <<app, rows, settled, anchored, published>>

\* The columns in which the new row differs from what merge() read.
Overlay(row, base, new) ==
    [app    |-> IF new.app = base.app THEN row.app ELSE new.app,
     status |-> IF new.status = base.status THEN row.status ELSE new.status,
     frozen |-> IF new.frozen = base.frozen THEN row.frozen ELSE new.frozen]

\* Mutation check only: the settlement record is not saved.
WriteNoSettlement(p) ==
    /\ req[p].pc = "write"
    /\ rows' = [rows EXCEPT ![req[p].session] =
                   Overlay(@, req[p].base, Store(req[p].esc))]
    /\ MoveTo(p, "publish")
    /\ UNCHANGED <<app, settled, anchored, published>>

\* The flush and the commit: the row, and with a release the settlement record.
Write(p) ==
    /\ req[p].pc = "write"
    /\ LET s == req[p].session
       IN  /\ rows' = [rows EXCEPT ![s] = Overlay(@, req[p].base, Store(req[p].esc))]
           /\ settled' = IF req[p].op = "release"
                         THEN [settled EXCEPT ![s] = @ + 1] ELSE settled
    /\ MoveTo(p, "publish")
    /\ UNCHANGED <<app, anchored, published>>

\* The aggregate refuses: ConflictError or PolicyViolation, after the contract
\* call has been made.
RecordRejects(p) ==
    /\ req[p].pc = "persist"
    /\ req[p].op # "deploy"
    /\ ~CanRecord(req[p].op, req[p].esc)
    /\ Done(p)
    /\ UNCHANGED <<app, rows, settled, anchored, published>>

Publish(p) ==
    /\ req[p].pc = "publish"
    /\ published' = [published EXCEPT ![req[p].session] = @ \cup {req[p].op}]
    /\ Done(p)
    /\ UNCHANGED <<app, rows, settled, anchored>>

\* The request ends here: an exception, a cancelled connection or a crash.
Abandon(p) ==
    /\ Faults
    /\ req[p].pc # "idle"
    /\ Done(p)
    /\ UNCHANGED <<app, rows, settled, anchored, published>>

----------------------------------------------------------------------------

\* What a request does once it has started.
Progress(p) ==
    \/ InsertRow(p)
    \/ DeployOnChain(p)
    \/ FundOnChain(p)
    \/ ReleaseOnChain(p)
    \/ RefundOnChain(p)
    \/ FreezeOnChain(p)
    \/ UnfreezeOnChain(p)
    \/ SignedFundOnChain(p)
    \/ ContractRejects(p)
    \/ AnchorRoot(p)
    \/ Persist(p)
    \/ Write(p)
    \/ RecordRejects(p)
    \/ Publish(p)

Start(p) ==
    \E s \in Sessions :
        \/ StartDeploy(p, s)
        \/ \E op \in AllCalls : StartOnEscrow(p, op, s)
        \/ StartSignedFund(p, s)

Next == \E p \in Requests : Start(p) \/ Progress(p) \/ Abandon(p)

Spec == Init /\ [][Next]_vars

\* The event loop runs every coroutine it has started to its end; nothing
\* obliges anyone to send a request.
FairSpec == Spec /\ \A p \in Requests : WF_vars(Progress(p))

----------------------------------------------------------------------------
(* Properties. *)

\* A negotiation session never gets two escrow contracts, whatever requests
\* race to deploy it or retry a deployment that failed half-way ("idempotency
\* prevents double-deploy on retry", services.py).
OneAppPerSession ==
    \A a, b \in Apps :
        app[a].session = app[b].session /\ app[a].session # NoSession => a = b

\* A row that says RELEASED or REFUNDED tells the truth about the money: the
\* contract of that row ended the same way.  Rows are written from copies that
\* may be arbitrarily old, so this rests on the order of the contract call and
\* the commit, not on the guards of the aggregate.
OutcomeRowIsTrue ==
    \A s \in Sessions :
        rows[s].status \in {"RELEASED", "REFUNDED"} =>
            app[rows[s].app].status = rows[s].status

\* At most one settlement record is written for a trade, and only for money
\* that reached the seller and an audit root that was anchored.  The table has
\* no unique constraint: that two release requests cannot both get this far is
\* the contract's doing.
SettledOnce ==
    \A s \in Sessions :
        /\ settled[s] <= 1
        /\ settled[s] = 1 =>
             /\ s \in anchored
             /\ \E a \in Apps : app[a].session = s /\ app[a].status = "RELEASED"

\* A published EscrowReleased or EscrowRefunded event is about money that has
\* moved that way, and a trade never publishes both.
EventsAreTrue ==
    \A s \in Sessions :
        /\ "release" \in published[s] => settled[s] = 1
        /\ "refund" \in published[s] =>
             \E a \in Apps : app[a].session = s /\ app[a].status = "REFUNDED"

\* With the calls the API offers (no route unfreezes), a row that claims to be
\* funded and not in dispute has a contract that has received the money.
FundedRowHasMoney ==
    \A s \in Sessions :
        rows[s].status = "FUNDED" /\ ~rows[s].frozen =>
            app[rows[s].app].status # "DEPLOYED"

\* With the calls the API offers, a committed freeze is in force: the contract
\* is frozen too, so no request already past its checks can still pay out.
FrozenRowHoldsMoney ==
    \A s \in Sessions : rows[s].frozen => app[rows[s].app].frozen

\* What a row claims of its money is so on the chain: both of the above.
RowsMatchChain == FundedRowHasMoney /\ FrozenRowHoldsMoney

\* Every trade keeps the custody promise, whatever requests race or die: its
\* money is taken once and leaves once, to the seller or to the buyer.
StageOfSession(s) ==
    IF \E a \in Apps : app[a].session = s /\ app[a].status = "FUNDED" THEN "held"
    ELSE IF \E a \in Apps : app[a].session = s /\ app[a].status = "RELEASED"
         THEN "paid"
    ELSE IF \E a \in Apps : app[a].session = s /\ app[a].status = "REFUNDED"
         THEN "returned"
    ELSE "open"

Custody == INSTANCE TradeCustody
    WITH Deals <- Sessions, stage <- [s \in Sessions |-> StageOfSession(s)]

ImplementsCustody == Custody!Spec

----------------------------------------------------------------------------
(* Properties of requests that run one at a time and to their end. *)

Quiet == \A p \in Requests : req[p] = Idle

\* Between requests, the row and the contract agree on whether and how a trade
\* ended, even after freezes and unfreezes that the two sides judge differently.
OutcomeIsRecorded ==
    Quiet => \A s \in Sessions :
        rows[s].app # NoApp =>
            \A o \in {"RELEASED", "REFUNDED"} :
                rows[s].status = o <=> app[rows[s].app].status = o

\* A payout to the seller ends up in the row.
ReleaseIsRecorded ==
    \A s \in Sessions :
        (\E a \in Apps : app[a].session = s /\ app[a].status = "RELEASED")
            ~> (rows[s].status = "RELEASED")

\* A row inserted before its contract exists gets the contract.
RowGetsItsApp ==
    \A s \in Sessions : rows[s] # NoRow ~> rows[s].app # NoApp

----------------------------------------------------------------------------
(* What the repository says of this code and the code does not do. *)

\* submit-signed-fund, "4. Updates escrow status to FUNDED" (router.py): once
\* the wallet's group is confirmed and no request is left, the row is FUNDED.
SignedFundingIsRecorded ==
    Quiet => \A s \in Sessions :
        rows[s].app # NoApp /\ app[rows[s].app].status = "FUNDED" =>
            rows[s].status = "FUNDED"

\* "(Refund IS allowed while frozen - admin can force-refund frozen escrow.)"
\* (escrow.py): the contract accepts the refund of a frozen, funded escrow.
FrozenEscrowCanBeRefunded ==
    \A p \in Requests :
        At(p, "refund", "gateway") /\ req[p].esc.status = "FROZEN"
            /\ app[AppOf(p)].status = "FUNDED"
        => Contract!CanRefund(app[AppOf(p)], "creator")

\* RELEASED and REFUNDED are "terminal states" (escrow.py): a row that has
\* reached one stays there.
OutcomeRowIsFinal ==
    [][\A s \in Sessions :
          rows[s].status \in {"RELEASED", "REFUNDED"} =>
              rows'[s].status = rows[s].status]_vars

=============================================================================
