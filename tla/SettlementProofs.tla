-------------------------- MODULE SettlementProofs --------------------------
(***************************************************************************)
(* Proofs about the settlement context, for any set of sessions, prices,   *)
(* applications and concurrent requests, any subset of the service's       *)
(* calls, with and without faults.                                         *)
(***************************************************************************)
EXTENDS Settlement, TLAPS

----------------------------------------------------------------------------
(* What a call of the gateway does to the contracts. *)

Terminal == {"RELEASED", "REFUNDED"}

\* Only application a changes; it stays with its session.
Touches(a) ==
    /\ app' \in [Apps -> Contract!AppState]
    /\ \A b \in Apps \ {a} : app'[b] = app[b]
    /\ app'[a].session = app[a].session

LEMMA Records ==
    ASSUME NEW c \in Contract!AppState, NEW st \in Contract!Status,
           NEW bal \in Int, NEW ts \in Int, NEW tb \in Int
    PROVE  /\ [c EXCEPT !.status = st, !.balance = bal] \in Contract!AppState
           /\ [c EXCEPT !.status = st, !.balance = bal, !.toSeller = ts]
                 \in Contract!AppState
           /\ [c EXCEPT !.status = st, !.balance = bal, !.toBuyer = tb]
                 \in Contract!AppState
<1> USE DEF Contract!AppState
<1> DEFINE d == [c EXCEPT !.status = st]
           e == [d EXCEPT !.balance = bal]
<1>1. d \in Contract!AppState
  OBVIOUS
<1> HIDE DEF d
<1>2. e \in Contract!AppState
  BY <1>1
<1> HIDE DEF e
<1>3. /\ [e EXCEPT !.toSeller = ts] \in Contract!AppState
      /\ [e EXCEPT !.toBuyer = tb] \in Contract!AppState
  BY <1>2
<1>4. QED BY <1>2, <1>3 DEF d, e

LEMMA FundEffect ==
    ASSUME Contract!TypeOK, NEW a \in Apps, NEW m \in Nat, Contract!Fund(a, m)
    PROVE  /\ Touches(a)
           /\ app[a].status = "DEPLOYED" /\ app'[a].status = "FUNDED"
<1> USE DEF Contract!TypeOK
<1> DEFINE d == [app[a] EXCEPT !.status = "FUNDED", !.balance = @ + m]
<1>1. app' = [app EXCEPT ![a] = d] /\ app[a].status = "DEPLOYED"
  BY DEF Contract!Fund, Contract!CanFund
<1>2. app[a].balance + m \in Int /\ "FUNDED" \in Contract!Status
  BY DEF Contract!AppState, Contract!Status
<1>3. d \in Contract!AppState
  BY <1>2, Records
<1>4. d.session = app[a].session /\ d.status = "FUNDED"
  BY DEF Contract!AppState
<1> HIDE DEF d
<1>5. QED BY <1>1, <1>3, <1>4 DEF Touches

LEMMA ReleaseEffect ==
    ASSUME Contract!TypeOK, NEW a \in Apps, Contract!Release(a, "creator")
    PROVE  /\ Touches(a)
           /\ app[a].status = "FUNDED" /\ app'[a].status = "RELEASED"
<1> USE DEF Contract!TypeOK
<1> DEFINE d == [app[a] EXCEPT !.status = "RELEASED", !.balance = @ - app[a].amount,
                               !.toSeller = @ + app[a].amount]
<1>1. app' = [app EXCEPT ![a] = d] /\ app[a].status = "FUNDED"
  BY DEF Contract!Release, Contract!CanRelease
<1>2. /\ app[a].balance - app[a].amount \in Int
      /\ app[a].toSeller + app[a].amount \in Int /\ "RELEASED" \in Contract!Status
  BY DEF Contract!AppState, Contract!Status
<1>3. d \in Contract!AppState
  BY <1>2, Records
<1>4. d.session = app[a].session /\ d.status = "RELEASED"
  BY DEF Contract!AppState
<1> HIDE DEF d
<1>5. QED BY <1>1, <1>3, <1>4 DEF Touches

LEMMA RefundEffect ==
    ASSUME Contract!TypeOK, NEW a \in Apps, Contract!Refund(a, "creator")
    PROVE  /\ Touches(a)
           /\ app[a].status = "FUNDED" /\ app'[a].status = "REFUNDED"
<1> USE DEF Contract!TypeOK
<1> DEFINE d == [app[a] EXCEPT !.status = "REFUNDED", !.balance = @ - app[a].amount,
                               !.toBuyer = @ + app[a].amount]
<1>1. app' = [app EXCEPT ![a] = d] /\ app[a].status = "FUNDED"
  BY DEF Contract!Refund, Contract!CanRefund
<1>2. /\ app[a].balance - app[a].amount \in Int
      /\ app[a].toBuyer + app[a].amount \in Int /\ "REFUNDED" \in Contract!Status
  BY DEF Contract!AppState, Contract!Status
<1>3. d \in Contract!AppState
  BY <1>2, Records
<1>4. d.session = app[a].session /\ d.status = "REFUNDED"
  BY DEF Contract!AppState
<1> HIDE DEF d
<1>5. QED BY <1>1, <1>3, <1>4 DEF Touches

LEMMA FlagEffect ==
    ASSUME Contract!TypeOK, NEW a \in Apps,
           Contract!Freeze(a, "creator") \/ Contract!Unfreeze(a, "creator")
    PROVE  /\ Touches(a)
           /\ app[a].status # "ABSENT" /\ app'[a].status = app[a].status
<1> USE DEF Contract!TypeOK, Contract!AppState
<1>1. PICK f \in BOOLEAN : app' = [app EXCEPT ![a].frozen = f]
  BY DEF Contract!Freeze, Contract!Unfreeze
<1>2. app[a].status # "ABSENT"
  BY DEF Contract!Freeze, Contract!Unfreeze, Contract!CanFreeze, Contract!CanUnfreeze
<1>3. QED BY <1>1, <1>2 DEF Touches

LEMMA InitializeEffect ==
    ASSUME Contract!TypeOK, NEW a \in Apps, NEW s \in Sessions, NEW m \in Nat,
           Contract!Initialize(a, s, m)
    PROVE  /\ app' \in [Apps -> Contract!AppState]
           /\ \A b \in Apps \ {a} : app'[b] = app[b]
           /\ app[a].status = "ABSENT"
           /\ app'[a].session = s /\ app'[a].status = "DEPLOYED"
  BY DEF Contract!TypeOK, Contract!AppState, Contract!Status, Contract!Initialize

----------------------------------------------------------------------------
(* The inductive invariant. *)

Ended(s, o) == \E a \in Apps : app[a].session = s /\ app[a].status = o

GoodApps ==
    /\ \A a \in Apps : app[a].session = NoSession <=> app[a].status = "ABSENT"
    /\ OneAppPerSession

\* A row comes before its application, names the application of its session,
\* and has an outcome only when that application has it.
GoodRow(s) ==
    /\ rows[s] = NoRow => \A a \in Apps : app[a].session # s
    /\ rows[s].app # NoApp => app[rows[s].app].session = s
    /\ rows[s].status \in Terminal =>
          rows[s].app # NoApp /\ app[rows[s].app].status = rows[s].status
    /\ settled[s] \in {0, 1}
    /\ settled[s] = 1 => s \in anchored /\ Ended(s, "RELEASED")
    /\ "release" \in published[s] => settled[s] = 1
    /\ "refund" \in published[s] => Ended(s, "REFUNDED")

\* What a deployment knows of its session.
GoodDeploy(r) ==
    /\ r.pc \in {"insert", "gateway"} => r.esc = NewEscrow
    /\ r.pc = "gateway" =>
          /\ rows[r.session] # NoRow /\ rows[r.session].app = NoApp
          /\ \A a \in Apps : app[a].session # r.session
    /\ r.pc \in {"persist", "write"} =>
          /\ rows[r.session] # NoRow /\ rows[r.session].app = NoApp
          /\ r.esc.app \in Apps /\ app[r.esc.app].session = r.session
          /\ r.esc.status = "DEPLOYED"
    /\ r.pc = "write" => r.base.app = NoApp

\* What any other request knows: its application is the row's, and its
\* contract call is still in effect.
GoodCall(r) ==
    /\ r.pc # "insert"
    /\ r.esc.app \in Apps /\ r.esc.app = rows[r.session].app
    /\ r.op = "release" =>
          /\ r.pc \in {"anchor", "persist", "write", "publish"} =>
                app[r.esc.app].status = "RELEASED"
          /\ r.pc \in {"anchor", "persist", "write"} => settled[r.session] = 0
          /\ r.pc \in {"persist", "write", "publish"} => r.session \in anchored
          /\ r.pc = "publish" => settled[r.session] = 1
    /\ r.op = "refund" /\ r.pc \in {"persist", "write", "publish"} =>
          app[r.esc.app].status = "REFUNDED"
    /\ r.pc = "write" =>
          /\ r.esc.status = "RELEASED" => r.op = "release"
          /\ r.esc.status = "REFUNDED" => r.op = "refund"

GoodRequest(r) ==
    \/ r = Idle
    \/ /\ r.pc # "idle" /\ r.session \in Sessions /\ r.op \in AllCalls
       /\ r.pc = "anchor" => r.op = "release"
       /\ r.op = "deploy" => GoodDeploy(r)
       /\ r.op # "deploy" => GoodCall(r)

\* Two requests that cannot both be at work on one session.
Clash(q, r) ==
    /\ q.session = r.session
    /\ q.op = r.op
    /\ \/ /\ q.op = "deploy"
          /\ {q.pc, r.pc} \subseteq {"gateway", "persist", "write"}
       \/ /\ q.op = "release"
          /\ {q.pc, r.pc} \subseteq {"anchor", "persist", "write", "publish"}

NoClash == \A p, q \in Requests : p # q => ~Clash(req[p], req[q])

GoodRequests ==
    \A p \in Requests, r \in RequestState : r = req[p] => GoodRequest(r)

Inv ==
    /\ TypeOK
    /\ GoodApps
    /\ \A s \in Sessions : GoodRow(s)
    /\ GoodRequests
    /\ NoClash

LEMMA InitInv == Init => Inv
<1> SUFFICES ASSUME Init PROVE Inv
  OBVIOUS
<1> USE AbsentIdsAssumption
<1> USE DEF Init, Contract!Init, Contract!Absent
<1>1. TypeOK
  BY DEF TypeOK, Contract!TypeOK, Contract!AppState, Contract!Status, RequestState,
         Idle, NewEscrow, NoRow, Escrow, Row, RowStatus
<1>2. GoodApps
  BY DEF GoodApps, OneAppPerSession
<1>3. ASSUME NEW s \in Sessions PROVE GoodRow(s)
  BY DEF GoodRow, NoRow, Terminal
<1>4. GoodRequests
  BY DEF GoodRequests, GoodRequest
<1>5. NoClash
  BY DEF NoClash, Clash, Idle
<1>6. QED BY <1>1, <1>2, <1>3, <1>4, <1>5 DEF Inv

----------------------------------------------------------------------------
(* Steps that change only one request. *)

OnlyRequest(p, r) ==
    /\ req' = [req EXCEPT ![p] = r]
    /\ UNCHANGED <<app, rows, settled, anchored, published>>

LEMMA RequestStep ==
    ASSUME Inv, NEW p \in Requests, NEW r \in RequestState, OnlyRequest(p, r),
           GoodRequest(r),
           \A q \in Requests \ {p} : ~Clash(r, req[q])
    PROVE  Inv'
<1> USE DEF OnlyRequest
<1>1. TypeOK'
  BY DEF Inv, TypeOK, Contract!TypeOK
<1>2. GoodApps' /\ \A s \in Sessions : GoodRow(s)'
  BY DEF Inv, GoodApps, OneAppPerSession, GoodRow, Ended
<1>3. GoodRequests'
  <2>1. \A x \in RequestState : GoodRequest(x) => GoodRequest(x)'
    BY DEF GoodRequest, GoodDeploy, GoodCall
  <2>2. QED BY <2>1 DEF Inv, TypeOK, GoodRequests
<1>4. NoClash'
  BY DEF Inv, TypeOK, NoClash, Clash
<1>5. QED BY <1>1, <1>2, <1>3, <1>4 DEF Inv

LEMMA DoneStep ==
    ASSUME Inv, NEW p \in Requests, Done(p),
           UNCHANGED <<app, rows, settled, anchored, published>>
    PROVE  Inv'
<1>1. Idle \in RequestState
  BY DEF RequestState, Idle, NewEscrow, NoRow, Escrow, RowStatus
<1>2. \A q \in Requests \ {p} : ~Clash(Idle, req[q])
  BY DEF Clash, Idle
<1>3. QED BY <1>1, <1>2, RequestStep DEF Done, OnlyRequest, GoodRequest

\* The request record after an update of its step, its copy and its base.
LEMMA Updated ==
    ASSUME NEW r \in RequestState, NEW e \in Escrow, NEW b \in Row \cup {NoRow},
           NEW pc \in {"idle", "insert", "gateway", "anchor", "persist", "write",
                      "publish"}
    PROVE  /\ [r EXCEPT !.pc = pc] \in RequestState
           /\ [r EXCEPT !.pc = pc, !.esc = e] \in RequestState
           /\ [r EXCEPT !.pc = pc, !.esc = e, !.base = b] \in RequestState
<1> USE DEF RequestState
<1> DEFINE d == [r EXCEPT !.pc = pc]
           f == [d EXCEPT !.esc = e]
<1>1. d \in RequestState
  OBVIOUS
<1> HIDE DEF d
<1>2. f \in RequestState
  BY <1>1
<1> HIDE DEF f
<1>3. [f EXCEPT !.base = b] \in RequestState
  BY <1>2
<1>4. QED BY <1>1, <1>2, <1>3 DEF d, f

LEMMA StartStep ==
    ASSUME Inv, NEW p \in Requests, Start(p)
    PROVE  Inv'
<1> USE AbsentIdsAssumption
<1>1. PICK s \in Sessions : \/ StartDeploy(p, s)
                            \/ \E op \in AllCalls : StartOnEscrow(p, op, s)
                            \/ StartSignedFund(p, s)
  BY DEF Start
<1>2. rows[s] \in Row \cup {NoRow}
  BY DEF Inv, TypeOK
<1>3. CASE StartDeploy(p, s)
  <2> DEFINE r == [op |-> "deploy", session |-> s, pc |-> "insert",
                   esc |-> NewEscrow, base |-> NoRow]
  <2>1. OnlyRequest(p, r)
    BY <1>3 DEF StartDeploy, Begin, OnlyRequest
  <2>2. r \in RequestState /\ GoodRequest(r)
    BY DEF RequestState, AllCalls, NewEscrow, Escrow, RowStatus, GoodRequest, GoodDeploy
  <2>3. \A q \in Requests \ {p} : ~Clash(r, req[q])
    BY DEF Clash
  <2> HIDE DEF r
  <2>4. QED BY <2>1, <2>2, <2>3, RequestStep
<1>4. ASSUME NEW op \in AllCalls \ {"deploy"}, rows[s] # NoRow, rows[s].app # NoApp,
             Begin(p, op, s, "gateway", Load(rows[s]))
      PROVE  Inv'
  <2> DEFINE r == [op |-> op, session |-> s, pc |-> "gateway",
                   esc |-> Load(rows[s]), base |-> NoRow]
  <2>1. OnlyRequest(p, r)
    BY <1>4 DEF Begin, OnlyRequest
  <2>2. Load(rows[s]) \in Escrow /\ Load(rows[s]).app = rows[s].app
    BY <1>2, <1>4 DEF Load, Row, Escrow, RowStatus
  <2>3. rows[s].app \in Apps
    BY <1>2, <1>4 DEF Row
  <2>4. r \in RequestState /\ GoodRequest(r)
    BY <2>2, <2>3 DEF RequestState, GoodRequest, GoodCall
  <2>5. \A q \in Requests \ {p} : ~Clash(r, req[q])
    BY DEF Clash
  <2> HIDE DEF r
  <2>6. QED BY <2>1, <2>4, <2>5, RequestStep
<1>5. ASSUME NEW op \in AllCalls, StartOnEscrow(p, op, s) PROVE Inv'
  BY <1>4, <1>5 DEF StartOnEscrow, AllCalls
<1>6. CASE StartSignedFund(p, s)
  BY <1>4, <1>6 DEF StartSignedFund, AllCalls
<1>7. QED BY <1>1, <1>3, <1>5, <1>6

\* What the aggregate becomes when it records an operation.
LEMMA Recorded ==
    ASSUME NEW op \in DOMAIN StatusAfter, NEW e \in Escrow, NEW a \in Apps \cup {NoApp}
    PROVE  /\ Record(op, e, a) \in Escrow
           /\ Record(op, e, a).app = a
           /\ Record(op, e, a).status = StatusAfter[op]
<1> DEFINE d == [e EXCEPT !.app = a]
           f == [d EXCEPT !.status = StatusAfter[op]]
<1> USE DEF Escrow, RowStatus
<1>1. StatusAfter[op] \in RowStatus \cup {"FROZEN"}
  BY DEF StatusAfter
<1>2. d \in Escrow
  OBVIOUS
<1> HIDE DEF d
<1>3. f \in Escrow /\ f.app = d.app
  BY <1>1, <1>2
<1> HIDE DEF f
<1>4. [f EXCEPT !.frozen = (op = "freeze")] \in Escrow
  BY <1>3
<1>5. QED BY <1>2, <1>3, <1>4 DEF d, f, Record

LEMMA PersistStep ==
    ASSUME Inv, NEW p \in Requests, Persist(p)
    PROVE  Inv'
<1> DEFINE r == req[p]
           e == IF r.op = "deploy" THEN r.esc ELSE Record(r.op, r.esc, AppOf(p))
           n == [r EXCEPT !.pc = "write", !.esc = e, !.base = rows[r.session]]
<1>1. r \in RequestState /\ r.pc = "persist" /\ GoodRequest(r)
  BY DEF Inv, TypeOK, GoodRequests, Persist
<1>2. OnlyRequest(p, n)
  BY DEF Inv, TypeOK, Persist, OnlyRequest
<1>3. r.session \in Sessions /\ rows[r.session] \in Row \cup {NoRow}
  BY <1>1 DEF Inv, TypeOK, GoodRequest, Idle
<1>4. r.op # "deploy" =>
        /\ r.op \in DOMAIN StatusAfter
        /\ r.esc.app \in Apps
  BY <1>1 DEF Persist, CanRecord, StatusAfter, GoodRequest, GoodCall, Idle
<1>5. e \in Escrow
  BY <1>1, <1>4, Recorded DEF AppOf, RequestState
<1>6. n \in RequestState
  BY <1>1, <1>3, <1>5, Updated
<1>7. /\ n.op = r.op /\ n.session = r.session /\ n.pc = "write" /\ n.esc = e
      /\ n.base = rows[r.session]
  BY <1>1 DEF RequestState
<1> HIDE DEF n
<1>8. GoodRequest(n)
  <2>1. CASE r.op = "deploy"
    BY <1>1, <1>7, <2>1 DEF GoodRequest, GoodDeploy, Idle
  <2>2. CASE r.op # "deploy"
    <3>1. e.app = r.esc.app /\ e.status = StatusAfter[r.op]
      BY <1>1, <1>4, <2>2, Recorded DEF AppOf, RequestState
    <3>2. /\ e.status = "RELEASED" => r.op = "release"
          /\ e.status = "REFUNDED" => r.op = "refund"
      BY <1>4, <2>2, <3>1 DEF StatusAfter
    <3> HIDE DEF e
    <3>3. GoodCall(n)
      BY <1>1, <1>7, <2>2, <3>1, <3>2 DEF GoodRequest, GoodCall, Idle
    <3>4. QED BY <1>1, <1>7, <2>2, <3>3 DEF GoodRequest, Idle
  <2>3. QED BY <2>1, <2>2
<1>9. \A q \in Requests \ {p} : ~Clash(n, req[q])
  BY <1>1, <1>7 DEF Inv, NoClash, Clash
<1>10. QED BY <1>2, <1>6, <1>8, <1>9, RequestStep

----------------------------------------------------------------------------
(* Steps that change an application. *)

\* Application a moves on; what is over stays as it was.
Advances(a) ==
    /\ Touches(a)
    /\ app[a].status # "ABSENT" /\ app'[a].status # "ABSENT"
    /\ app[a].status \in Terminal => app'[a].status = app[a].status

LEMMA AdvancePreserves ==
    ASSUME Inv, NEW a \in Apps, Advances(a),
           UNCHANGED <<rows, settled, anchored, published>>
    PROVE  /\ Contract!TypeOK'
           /\ GoodApps'
           /\ \A s \in Sessions : GoodRow(s)'
           /\ \A r \in RequestState : GoodRequest(r) => GoodRequest(r)'
<1> USE DEF Advances, Touches
<1>1. /\ \A b \in Apps : app'[b].session = app[b].session
      /\ \A b \in Apps : app[b].status \in Terminal => app'[b].status = app[b].status
      /\ \A b \in Apps : app'[b].status = "ABSENT" <=> app[b].status = "ABSENT"
  OBVIOUS
<1>2. Contract!TypeOK'
  BY DEF Contract!TypeOK
<1>3. GoodApps'
  BY <1>1 DEF Inv, GoodApps, OneAppPerSession
<1>4. \A s \in Sessions, o \in Terminal : Ended(s, o) => Ended(s, o)'
  BY <1>1 DEF Ended
<1>5. ASSUME NEW s \in Sessions PROVE GoodRow(s)'
  <2>1. rows[s] \in Row \cup {NoRow}
    BY DEF Inv, TypeOK
  <2>2. rows[s].app \in Apps \cup {NoApp}
    BY <2>1 DEF Row, NoRow
  <2>3. QED BY <1>1, <1>4, <2>2 DEF Inv, GoodRow, Terminal
<1>6. ASSUME NEW r \in RequestState, GoodRequest(r) PROVE GoodRequest(r)'
  <2>1. r.esc.app \in Apps \cup {NoApp}
    BY DEF RequestState, Escrow
  <2>2. GoodDeploy(r) => GoodDeploy(r)'
    BY <1>1, <2>1 DEF GoodDeploy
  <2>3. GoodCall(r) => GoodCall(r)'
    BY <1>1, <2>1 DEF GoodCall, Terminal
  <2>4. QED BY <1>6, <2>2, <2>3 DEF GoodRequest
<1>7. QED BY <1>2, <1>3, <1>5, <1>6

\* A call of the gateway takes effect and its request goes on, or is done.
LEMMA CallStep ==
    ASSUME Inv, NEW p \in Requests, NEW a \in Apps, Advances(a),
           NEW r \in RequestState, req' = [req EXCEPT ![p] = r],
           UNCHANGED <<rows, settled, anchored, published>>,
           GoodRequest(r)',
           \A q \in Requests \ {p} : ~Clash(r, req[q])
    PROVE  Inv'
<1>1. /\ Contract!TypeOK'
      /\ GoodApps'
      /\ \A s \in Sessions : GoodRow(s)'
      /\ \A x \in RequestState : GoodRequest(x) => GoodRequest(x)'
  BY AdvancePreserves
<1>2. TypeOK'
  BY <1>1 DEF Inv, TypeOK
<1>3. GoodRequests'
  BY <1>1 DEF Inv, TypeOK, GoodRequests
<1>4. NoClash'
  BY DEF Inv, TypeOK, NoClash, Clash
<1>5. QED BY <1>1, <1>2, <1>3, <1>4 DEF Inv

LEMMA GatewayStep ==
    ASSUME Inv, NEW p \in Requests,
           \/ FundOnChain(p) \/ ReleaseOnChain(p) \/ RefundOnChain(p)
           \/ FreezeOnChain(p) \/ UnfreezeOnChain(p)
    PROVE  Inv'
<1>0. PICK r \in RequestState : r = req[p]
  BY DEF Inv, TypeOK
<1> DEFINE a == r.esc.app
           pc == IF r.op = "release" THEN "anchor" ELSE "persist"
           next == [r EXCEPT !.pc = pc]
<1>1. /\ r.pc = "gateway" /\ GoodRequest(r) /\ AppOf(p) = a
      /\ r.op \in {"fund", "release", "refund", "freeze", "unfreeze"}
  BY <1>0 DEF Inv, TypeOK, GoodRequests, FundOnChain, ReleaseOnChain, RefundOnChain, FreezeOnChain,
         UnfreezeOnChain, At, AppOf
<1>2. GoodCall(r) /\ r.session \in Sessions
  BY <1>1 DEF GoodRequest, Idle
<1>3. a \in Apps /\ a = rows[r.session].app
  BY <1>2 DEF GoodCall
<1>4. /\ req' = [req EXCEPT ![p] = next]
      /\ UNCHANGED <<rows, settled, anchored, published>>
  BY <1>0 DEF FundOnChain, ReleaseOnChain, RefundOnChain, FreezeOnChain,
         UnfreezeOnChain, At, MoveTo, Inv, TypeOK
<1>5. Price[r.session] \in Nat
  BY <1>2, PriceAssumption
<1>6. Contract!TypeOK
  BY DEF Inv, TypeOK
<1>7. /\ Advances(a)
      /\ r.op = "release" => app[a].status = "FUNDED" /\ app'[a].status = "RELEASED"
      /\ r.op = "refund" => app'[a].status = "REFUNDED"
  <2> USE <1>0, <1>1 DEF At, Advances, Terminal
  <2> HIDE DEF a, next, pc
  <2>1. CASE FundOnChain(p)
    BY <1>3, <1>5, <1>6, <2>1, FundEffect DEF FundOnChain
  <2>2. CASE ReleaseOnChain(p)
    BY <1>3, <1>6, <2>2, ReleaseEffect DEF ReleaseOnChain
  <2>3. CASE RefundOnChain(p)
    BY <1>3, <1>6, <2>3, RefundEffect DEF RefundOnChain
  <2>4. CASE FreezeOnChain(p)
    BY <1>3, <1>6, <2>4, FlagEffect DEF FreezeOnChain
  <2>5. CASE UnfreezeOnChain(p)
    BY <1>3, <1>6, <2>5, FlagEffect DEF UnfreezeOnChain
  <2>6. QED BY <2>1, <2>2, <2>3, <2>4, <2>5
<1>8. PICK n \in RequestState :
           /\ n = next
           /\ n.op = r.op /\ n.session = r.session /\ n.pc = pc /\ n.esc = r.esc
  <2>1. /\ next \in RequestState
        /\ next.op = r.op /\ next.session = r.session /\ next.pc = pc
        /\ next.esc = r.esc
    BY DEF RequestState
  <2> HIDE DEF next
  <2>2. QED BY <2>1
<1> HIDE DEF next
<1>9. r.op = "release" => settled[r.session] = 0
  <2>1. SUFFICES ASSUME r.op = "release", settled[r.session] = 1 PROVE FALSE
    BY <1>2 DEF Inv, GoodRow
  <2>2. GoodRow(r.session) /\ GoodApps
    BY <1>2 DEF Inv
  <2>3. PICK b \in Apps : app[b].session = r.session /\ app[b].status = "RELEASED"
    BY <2>1, <2>2 DEF GoodRow, Ended
  <2>4. app[a].session = r.session
    BY <1>3, <2>2, AbsentIdsAssumption DEF GoodRow
  <2>5. a = b
    BY <1>2, <1>3, <2>2, <2>3, <2>4, AbsentIdsAssumption DEF GoodApps, OneAppPerSession
  <2>6. QED BY <1>7, <2>1, <2>3, <2>5
<1>10. GoodRequest(n)'
  <2>1. n.esc.app \in Apps /\ n.esc.app = rows'[n.session].app
    BY <1>3, <1>4, <1>8
  <2>2. n.op = "release" =>
           app'[n.esc.app].status = "RELEASED" /\ settled'[n.session] = 0
    BY <1>4, <1>7, <1>8, <1>9
  <2>3. n.op = "refund" => app'[n.esc.app].status = "REFUNDED"
    BY <1>7, <1>8
  <2>4. n.pc \in {"anchor", "persist"} /\ (n.pc = "anchor" <=> n.op = "release")
    BY <1>8
  <2>5. GoodCall(n)'
    BY <2>1, <2>2, <2>3, <2>4 DEF GoodCall
  <2>6. QED BY <1>1, <1>2, <1>8, <2>4, <2>5 DEF GoodRequest, AllCalls
<1>11. \A q \in Requests \ {p} : ~Clash(n, req[q])
  <2> SUFFICES ASSUME NEW q \in Requests \ {p}, Clash(n, req[q]) PROVE FALSE
    OBVIOUS
  <2>1. r.op = "release" /\ req[q].op = "release" /\ req[q].session = r.session
        /\ req[q].pc \in {"anchor", "persist", "write", "publish"}
    BY <1>1, <1>8 DEF Clash
  <2>2. GoodCall(req[q])
    BY <2>1 DEF Inv, TypeOK, GoodRequests, GoodRequest, Idle
  <2>3. app[req[q].esc.app].status = "RELEASED" /\ req[q].esc.app = a
    BY <1>3, <2>1, <2>2 DEF GoodCall
  <2>4. QED BY <1>7, <2>1, <2>3
<1>12. Advances(a)
  BY <1>7
<1>13. QED BY <1>3, <1>4, <1>8, <1>10, <1>11, <1>12, CallStep

LEMMA SignedFundStep ==
    ASSUME Inv, NEW p \in Requests, SignedFundOnChain(p)
    PROVE  Inv'
<1>0. PICK r \in RequestState : r = req[p]
  BY DEF Inv, TypeOK
<1>1. r.pc = "gateway" /\ GoodCall(r) /\ r.session \in Sessions
  BY <1>0 DEF Inv, TypeOK, GoodRequests, GoodRequest, SignedFundOnChain, At, Idle
<1>2. r.esc.app \in Apps /\ Price[r.session] \in Nat
  BY <1>1, PriceAssumption DEF GoodCall
<1>3. Contract!Fund(r.esc.app, Price[r.session]) /\ Contract!TypeOK
  BY <1>0 DEF SignedFundOnChain, AppOf, Inv, TypeOK
<1>4. Advances(r.esc.app)
  BY <1>2, <1>3, FundEffect DEF Advances, Terminal
<1>5. PICK n \in RequestState : n = Idle
  BY DEF RequestState, Idle, NewEscrow, NoRow, Escrow, RowStatus
<1>6. GoodRequest(n)'
  BY <1>5 DEF GoodRequest
<1>7. \A q \in Requests \ {p} : ~Clash(n, req[q])
  BY <1>5 DEF Clash, Idle
<1>8. /\ req' = [req EXCEPT ![p] = n]
      /\ UNCHANGED <<rows, settled, anchored, published>>
  BY <1>5 DEF SignedFundOnChain, Done
<1>9. QED BY <1>2, <1>4, <1>6, <1>7, <1>8, CallStep

----------------------------------------------------------------------------
(* Deployment: the row, then its application. *)

LEMMA InsertStep ==
    ASSUME Inv, NEW p \in Requests, InsertRow(p)
    PROVE  Inv'
<1> USE AbsentIdsAssumption
<1>0. PICK r \in RequestState : r = req[p]
  BY DEF Inv, TypeOK
<1> DEFINE s == r.session
<1>1. /\ r.pc = "insert" /\ r.op = "deploy" /\ s \in Sessions /\ r.esc = NewEscrow
  BY <1>0 DEF Inv, TypeOK, GoodRequests, GoodRequest, GoodDeploy, InsertRow, At, Idle
<1>2. CASE rows[s] # NoRow
  BY <1>0, <1>2, DoneStep DEF InsertRow
<1>3. CASE rows[s] = NoRow
  <2> DEFINE row == [app |-> NoApp, status |-> "DEPLOYED", frozen |-> FALSE]
  <2>1. Store(NewEscrow) = row
    <3>1. ASSUME NEW e \in Escrow
          PROVE  [e EXCEPT !.status = e.status] = e /\ [e EXCEPT !.frozen = e.frozen] = e
      BY DEF Escrow
    <3>2. row \in Escrow /\ row.status = "DEPLOYED" /\ row.frozen = FALSE
      BY DEF Escrow, RowStatus
    <3>3. NewEscrow = row
      BY DEF NewEscrow
    <3> HIDE DEF row
    <3>4. QED BY <3>1, <3>2, <3>3 DEF Store
  <2>2. /\ rows' = [rows EXCEPT ![s] = row]
        /\ req' = [req EXCEPT ![p] = [r EXCEPT !.pc = "gateway"]]
        /\ UNCHANGED <<app, settled, anchored, published>>
    BY <1>0, <1>1, <1>3, <2>1 DEF InsertRow, MoveTo, Inv, TypeOK
  <2>3. row \in Row /\ row # NoRow
    BY DEF Row, RowStatus, NoRow
  <2>4. PICK n \in RequestState :
             n = [r EXCEPT !.pc = "gateway"]
             /\ n.op = "deploy" /\ n.session = s /\ n.pc = "gateway" /\ n.esc = NewEscrow
    <3> DEFINE next == [r EXCEPT !.pc = "gateway"]
    <3>1. /\ next \in RequestState
          /\ next.op = "deploy" /\ next.session = s /\ next.pc = "gateway"
          /\ next.esc = NewEscrow
      BY <1>1 DEF RequestState
    <3> HIDE DEF next
    <3>2. QED BY <3>1 DEF next
  <2>5. \A a \in Apps : app[a].session # s
    BY <1>1, <1>3 DEF Inv, GoodRow
  <2>6. TypeOK'
    BY <1>1, <2>2, <2>3, <2>4 DEF Inv, TypeOK, Contract!TypeOK
  <2>7. GoodApps'
    BY <2>2 DEF Inv, GoodApps, OneAppPerSession
  <2>8. ASSUME NEW x \in Sessions PROVE GoodRow(x)'
    <3>1. CASE x # s
      BY <1>1, <2>2, <3>1 DEF Inv, TypeOK, GoodRow, Ended
    <3>2. CASE x = s
      <4>1. rows'[x] = row /\ GoodRow(x)
        BY <1>1, <2>2, <3>2 DEF Inv, TypeOK
      <4>2. rows'[x] # NoRow /\ rows'[x].app = NoApp /\ rows'[x].status \notin Terminal
        BY <2>3, <4>1 DEF Terminal
      <4> HIDE DEF row
      <4>3. QED BY <2>2, <4>1, <4>2 DEF GoodRow, Ended
    <3>3. QED BY <3>1, <3>2
  <2>9. GoodRequests'
    <3>1. GoodRequest(n)'
      <4>1. rows'[s] = row
        BY <1>1, <2>2 DEF Inv, TypeOK
      <4>2. rows'[s] # NoRow /\ rows'[s].app = NoApp /\ \A a \in Apps : app'[a].session # s
        BY <2>2, <2>3, <2>5, <4>1
      <4>3. GoodDeploy(n)'
        BY <2>4, <4>2 DEF GoodDeploy
      <4>4. QED BY <1>1, <2>4, <4>3 DEF GoodRequest, AllCalls
    <3>2. ASSUME NEW x \in RequestState, GoodRequest(x) PROVE GoodRequest(x)'
      <4>1. CASE x.session # s
        <5>1. x.session \in Sessions => rows'[x.session] = rows[x.session]
          BY <2>2, <4>1 DEF Inv, TypeOK
        <5>2. QED BY <2>2, <3>2, <5>1 DEF GoodRequest, GoodDeploy, GoodCall
      <4>2. CASE x.session = s
        <5>1. x.esc.app \in Apps => x.esc.app # rows[s].app
          BY <1>3 DEF NoRow
        <5>2. (x.op = "deploy" /\ x.pc \notin {"gateway", "persist", "write"}) \/ x = Idle
          BY <1>1, <1>3, <3>2, <4>2, <5>1 DEF GoodRequest, GoodDeploy, GoodCall
        <5>3. QED BY <2>2, <3>2, <5>2 DEF GoodRequest, GoodDeploy
      <4>3. QED BY <4>1, <4>2
    <3>3. QED BY <2>2, <2>4, <3>1, <3>2 DEF Inv, TypeOK, GoodRequests
  <2>10. NoClash'
    <3>1. \A q \in Requests \ {p} : ~Clash(n, req[q])
      <4> SUFFICES ASSUME NEW q \in Requests \ {p}, Clash(n, req[q]) PROVE FALSE
        OBVIOUS
      <4>1. /\ req[q].op = "deploy" /\ req[q].session = s
            /\ req[q].pc \in {"gateway", "persist", "write"}
        BY <2>4 DEF Clash
      <4>2. rows[s] # NoRow
        BY <4>1 DEF Inv, TypeOK, GoodRequests, GoodRequest, GoodDeploy, Idle
      <4>3. QED BY <1>3, <4>2
    <3>2. QED BY <2>2, <2>4, <3>1 DEF Inv, TypeOK, NoClash, Clash
  <2>11. QED BY <2>6, <2>7, <2>8, <2>9, <2>10 DEF Inv
<1>4. QED BY <1>2, <1>3

LEMMA DeployStep ==
    ASSUME Inv, NEW p \in Requests, DeployOnChain(p)
    PROVE  Inv'
<1> USE AbsentIdsAssumption
<1>0. PICK r \in RequestState : r = req[p]
  BY DEF Inv, TypeOK
<1> DEFINE s == r.session
<1>1. /\ r.pc = "gateway" /\ r.op = "deploy" /\ s \in Sessions /\ r.esc = NewEscrow
      /\ rows[s] # NoRow /\ rows[s].app = NoApp
      /\ \A b \in Apps : app[b].session # s
  BY <1>0 DEF Inv, TypeOK, GoodRequests, GoodRequest, GoodDeploy, DeployOnChain, At, Idle
<1>2. PICK a \in Apps :
           /\ Contract!Initialize(a, s, Price[s])
           /\ req' = [req EXCEPT ![p].pc = "persist", ![p].esc = Record("deploy", @, a)]
  BY <1>0 DEF DeployOnChain
<1>3. /\ app' \in [Apps -> Contract!AppState]
      /\ \A b \in Apps \ {a} : app'[b] = app[b]
      /\ app[a].status = "ABSENT" /\ app[a].session = NoSession
      /\ app'[a].session = s /\ app'[a].status = "DEPLOYED"
  <2>1. Price[s] \in Nat
    BY <1>1, PriceAssumption
  <2>2. QED BY <1>1, <1>2, <2>1, InitializeEffect DEF Inv, TypeOK, GoodApps
<1>4. UNCHANGED <<rows, settled, anchored, published>>
  BY DEF DeployOnChain
<1>5. PICK n \in RequestState :
           /\ req' = [req EXCEPT ![p] = n]
           /\ n.op = "deploy" /\ n.session = s /\ n.pc = "persist"
           /\ n.esc.app = a /\ n.esc.status = "DEPLOYED"
  <2> DEFINE e == Record("deploy", r.esc, a)
             next == [r EXCEPT !.pc = "persist", !.esc = e]
  <2>1. e \in Escrow /\ e.app = a /\ e.status = "DEPLOYED"
    <3>1. StatusAfter["deploy"] = "DEPLOYED" /\ "deploy" \in DOMAIN StatusAfter
      BY DEF StatusAfter
    <3>2. r.esc \in Escrow
      BY DEF RequestState
    <3>3. QED BY <3>1, <3>2, Recorded
  <2>2. next \in RequestState
    BY <2>1, Updated DEF Row, NoRow, RowStatus
  <2>3. next.op = "deploy" /\ next.session = s /\ next.pc = "persist" /\ next.esc = e
    BY <1>1 DEF RequestState
  <2>4. req' = [req EXCEPT ![p] = next]
    BY <1>0, <1>2 DEF Inv, TypeOK
  <2> HIDE DEF next, e
  <2>5. QED BY <2>1, <2>2, <2>3, <2>4
<1>6. TypeOK'
  BY <1>3, <1>4, <1>5 DEF Inv, TypeOK, Contract!TypeOK
<1>7. GoodApps'
  BY <1>1, <1>3 DEF Inv, GoodApps, OneAppPerSession
<1>8. \A x \in Sessions, o \in Terminal : Ended(x, o) => Ended(x, o)'
  BY <1>3 DEF Ended, Terminal
<1>9. ASSUME NEW x \in Sessions PROVE GoodRow(x)'
  <2>1. rows[x].app \in Apps => rows[x].app # a
    BY <1>3 DEF Inv, GoodRow
  <2>2. rows[x].app \in Apps \cup {NoApp}
    BY DEF Inv, TypeOK, Row, NoRow
  <2>3. QED BY <1>1, <1>3, <1>4, <1>8, <2>1, <2>2 DEF Inv, GoodRow, Terminal
<1>10. GoodRequests'
  <2>1. GoodRequest(n)'
    <3>1. GoodDeploy(n)'
      BY <1>1, <1>3, <1>4, <1>5 DEF GoodDeploy
    <3>2. QED BY <1>1, <1>5, <3>1 DEF GoodRequest, AllCalls
  <2>2. ASSUME NEW q \in Requests \ {p}, NEW x \in RequestState, x = req[q]
        PROVE  GoodRequest(x)'
    <3>1. GoodRequest(x) /\ ~Clash(r, x)
      BY <1>0, <2>2 DEF Inv, GoodRequests, NoClash
    <3>2. x.op = "deploy" /\ x.pc = "gateway" => x.session # s
      BY <1>1, <3>1 DEF Clash
    <3>3. GoodDeploy(x) /\ x.op = "deploy" => GoodDeploy(x)'
      <4> SUFFICES ASSUME GoodDeploy(x), x.op = "deploy" PROVE GoodDeploy(x)'
        OBVIOUS
      <4>1. x.pc = "gateway" => \A b \in Apps : app'[b].session # x.session
        BY <1>3, <3>2 DEF GoodDeploy
      <4>2. x.pc \in {"persist", "write"} /\ x.session \in Sessions =>
               x.esc.app \in Apps \ {a}
        BY <1>3 DEF GoodDeploy
      <4>3. x.pc \in {"persist", "write"} => x.session \in Sessions
        BY <3>1 DEF GoodRequest, Idle
      <4>4. QED BY <1>3, <1>4, <4>1, <4>2, <4>3 DEF GoodDeploy
    <3>4. GoodCall(x) => GoodCall(x)'
      <4>1. GoodCall(x) => \A o \in Terminal : app[x.esc.app].status = o =>
                               app'[x.esc.app].status = o
        BY <1>3 DEF GoodCall, Terminal
      <4>2. QED BY <1>4, <4>1 DEF GoodCall, Terminal
    <3>5. QED BY <3>1, <3>3, <3>4 DEF GoodRequest
  <2>3. QED BY <1>5, <2>1, <2>2 DEF Inv, TypeOK, GoodRequests
<1>11. NoClash'
  <2>1. \A q \in Requests \ {p} : ~Clash(n, req[q])
    BY <1>0, <1>1, <1>5 DEF Inv, NoClash, Clash
  <2>2. QED BY <1>5, <2>1 DEF Inv, TypeOK, NoClash, Clash
<1>12. QED BY <1>6, <1>7, <1>9, <1>10, <1>11 DEF Inv

----------------------------------------------------------------------------
(* Steps that change a row or its records. *)

LEMMA AnchorStep ==
    ASSUME Inv, NEW p \in Requests, AnchorRoot(p)
    PROVE  Inv'
<1>0. PICK r \in RequestState : r = req[p]
  BY DEF Inv, TypeOK
<1>1. /\ r.op = "release" /\ r.pc = "anchor" /\ r.session \in Sessions
      /\ GoodCall(r)
  BY <1>0 DEF Inv, TypeOK, GoodRequests, GoodRequest, AnchorRoot, At, Idle
<1>2. PICK n \in RequestState :
           /\ req' = [req EXCEPT ![p] = n]
           /\ n.op = "release" /\ n.session = r.session /\ n.pc = "persist"
           /\ n.esc = r.esc
  <2> DEFINE next == [r EXCEPT !.pc = "persist"]
  <2>1. /\ next \in RequestState
        /\ next.op = "release" /\ next.session = r.session /\ next.pc = "persist"
        /\ next.esc = r.esc
    BY <1>1 DEF RequestState
  <2>2. req' = [req EXCEPT ![p] = next]
    BY <1>0 DEF Inv, TypeOK, AnchorRoot, MoveTo
  <2> HIDE DEF next
  <2>3. QED BY <2>1, <2>2
<1>3. /\ anchored' = anchored \cup {r.session}
      /\ UNCHANGED <<app, rows, settled, published>>
  BY <1>0 DEF AnchorRoot
<1>4. TypeOK'
  BY <1>1, <1>2, <1>3 DEF Inv, TypeOK, Contract!TypeOK
<1>5. GoodApps' /\ \A s \in Sessions : GoodRow(s)'
  BY <1>3 DEF Inv, GoodApps, OneAppPerSession, GoodRow, Ended
<1>6. GoodRequests'
  <2>1. GoodRequest(n)'
    <3>1. GoodCall(n)'
      BY <1>1, <1>2, <1>3 DEF GoodCall
    <3>2. QED BY <1>1, <1>2, <3>1 DEF GoodRequest, AllCalls
  <2>2. \A x \in RequestState : GoodRequest(x) => GoodRequest(x)'
    BY <1>3 DEF GoodRequest, GoodDeploy, GoodCall
  <2>3. QED BY <1>2, <2>1, <2>2 DEF Inv, TypeOK, GoodRequests
<1>7. NoClash'
  <2>1. \A q \in Requests \ {p} : ~Clash(n, req[q])
    BY <1>0, <1>1, <1>2 DEF Inv, NoClash, Clash
  <2>2. QED BY <1>2, <2>1 DEF Inv, TypeOK, NoClash, Clash
<1>8. QED BY <1>4, <1>5, <1>6, <1>7 DEF Inv

LEMMA PublishStep ==
    ASSUME Inv, NEW p \in Requests, Publish(p)
    PROVE  Inv'
<1>0. PICK r \in RequestState : r = req[p]
  BY DEF Inv, TypeOK
<1>1. r.pc = "publish" /\ r.session \in Sessions /\ GoodRequest(r) /\ r.op \in AllCalls
  BY <1>0 DEF Inv, TypeOK, GoodRequests, GoodRequest, Publish, Idle
<1>2. /\ published' = [published EXCEPT ![r.session] = @ \cup {r.op}]
      /\ req' = [req EXCEPT ![p] = Idle]
      /\ UNCHANGED <<app, rows, settled, anchored>>
  BY <1>0 DEF Publish, Done
<1>3. Idle \in RequestState
  BY DEF RequestState, Idle, NewEscrow, NoRow, Escrow, RowStatus
<1>4. TypeOK'
  BY <1>1, <1>2, <1>3 DEF Inv, TypeOK, Contract!TypeOK
<1>5. GoodApps'
  BY <1>2 DEF Inv, GoodApps, OneAppPerSession
<1>6. ASSUME NEW s \in Sessions PROVE GoodRow(s)'
  <2>1. r.op = "release" => settled[r.session] = 1
    BY <1>1 DEF GoodRequest, GoodCall, Idle
  <2>2. r.op = "refund" => Ended(r.session, "REFUNDED")
    <3> SUFFICES ASSUME r.op = "refund" PROVE Ended(r.session, "REFUNDED")
      OBVIOUS
    <3>1. /\ r.esc.app \in Apps /\ r.esc.app = rows[r.session].app
          /\ app[r.esc.app].status = "REFUNDED"
      BY <1>1 DEF GoodRequest, GoodCall, Idle
    <3>2. app[r.esc.app].session = r.session
      BY <1>1, <3>1, AbsentIdsAssumption DEF Inv, GoodRow
    <3>3. QED BY <3>1, <3>2 DEF Ended
  <2>3. published[s] \subseteq published'[s] /\ published'[s] \subseteq published[s] \cup {r.op}
    BY <1>1, <1>2 DEF Inv, TypeOK
  <2>4. s # r.session => published'[s] = published[s]
    BY <1>1, <1>2 DEF Inv, TypeOK
  <2>5. Ended(s, "RELEASED")' <=> Ended(s, "RELEASED")
    BY <1>2 DEF Ended
  <2>6. Ended(s, "REFUNDED")' <=> Ended(s, "REFUNDED")
    BY <1>2 DEF Ended
  <2>7. GoodRow(s)
    BY DEF Inv
  <2>8. QED BY <1>2, <2>1, <2>2, <2>3, <2>4, <2>5, <2>6, <2>7 DEF GoodRow
<1>7. GoodRequests'
  <2>1. \A x \in RequestState : GoodRequest(x) => GoodRequest(x)'
    BY <1>2 DEF GoodRequest, GoodDeploy, GoodCall
  <2>2. \A x : x = Idle => GoodRequest(x)'
    BY DEF GoodRequest
  <2>3. QED BY <1>2, <2>1, <2>2 DEF Inv, TypeOK, GoodRequests
<1>8. NoClash'
  BY <1>2 DEF Inv, TypeOK, NoClash, Clash, Idle
<1>9. QED BY <1>4, <1>5, <1>6, <1>7, <1>8 DEF Inv

LEMMA Stored ==
    ASSUME NEW e \in Escrow
    PROVE  /\ Store(e) \in Row
           /\ Store(e).app = e.app
           /\ Store(e).status \in Terminal => e.status = Store(e).status
<1> DEFINE st == IF e.status = "FROZEN" THEN "FUNDED" ELSE e.status
           d == [e EXCEPT !.status = st]
           f == [d EXCEPT !.frozen = (e.status = "FROZEN") \/ e.frozen]
<1>1. st \in RowStatus /\ (st \in Terminal => e.status = st)
  BY DEF Escrow, RowStatus, Terminal
<1> HIDE DEF st
<1>2. d \in Row /\ d.status = st /\ d.app = e.app
  BY <1>1 DEF Escrow, Row
<1> HIDE DEF d
<1>3. f \in Row /\ f.status = st /\ f.app = e.app
  BY <1>2 DEF Row
<1>4. Store(e) = f
  BY DEF Store, d, st
<1> HIDE DEF f
<1>5. QED BY <1>1, <1>3, <1>4

LEMMA WriteStep ==
    ASSUME Inv, NEW p \in Requests, Write(p)
    PROVE  Inv'
<1> USE AbsentIdsAssumption
<1>0. PICK r \in RequestState : r = req[p]
  BY DEF Inv, TypeOK
<1> DEFINE s == r.session
           new == Overlay(rows[s], r.base, Store(r.esc))
<1>1. /\ r.pc = "write" /\ s \in Sessions /\ r.op \in AllCalls
      /\ r.op = "deploy" => GoodDeploy(r)
      /\ r.op # "deploy" => GoodCall(r)
  BY <1>0 DEF Inv, TypeOK, GoodRequests, GoodRequest, Write, Idle
<1>2. /\ rows' = [rows EXCEPT ![s] = new]
      /\ settled' = IF r.op = "release" THEN [settled EXCEPT ![s] = @ + 1] ELSE settled
      /\ UNCHANGED <<app, anchored, published>>
  BY <1>0, <1>1 DEF Write, Inv, TypeOK
<1>3. r.esc \in Escrow /\ r.esc.app \in Apps /\ GoodRow(s)
  BY <1>1 DEF RequestState, GoodDeploy, GoodCall, Inv
<1>4. rows[s] \in Row /\ rows[s] # NoRow
  <2>1. rows[s] # NoRow
    BY <1>1, <1>3 DEF GoodDeploy, GoodCall, NoRow
  <2>2. QED BY <1>1, <2>1 DEF Inv, TypeOK
<1>5. /\ new \in Row
      /\ new.app = r.esc.app
      /\ new.status \in Terminal =>
           new.status = rows[s].status \/ new.status = r.esc.status
  <2>1. /\ Store(r.esc) \in Row /\ Store(r.esc).app = r.esc.app
        /\ Store(r.esc).status \in Terminal => r.esc.status = Store(r.esc).status
    BY <1>3, Stored
  <2>2. new \in Row
    BY <1>4, <2>1 DEF Overlay, Row
  <2>3. new.app = r.esc.app
    BY <1>1, <1>3, <2>1 DEF Overlay, GoodDeploy, GoodCall
  <2>4. new.status \in {rows[s].status, Store(r.esc).status}
    BY DEF Overlay
  <2> HIDE DEF new
  <2>5. QED BY <2>1, <2>2, <2>3, <2>4
<1> HIDE DEF new
<1>6. app[r.esc.app].session = s
  BY <1>1, <1>3 DEF GoodDeploy, GoodCall, GoodRow
<1>7. new.status \in Terminal => app[new.app].status = new.status
  <2>1. CASE r.op = "deploy"
    BY <1>1, <1>3, <1>5, <2>1 DEF GoodDeploy, GoodRow, Terminal
  <2>2. CASE r.op # "deploy"
    BY <1>1, <1>3, <1>5, <2>2 DEF GoodCall, GoodRow, Terminal
  <2>3. QED BY <2>1, <2>2
<1>8. r.op = "release" => settled[s] = 0 /\ s \in anchored /\ Ended(s, "RELEASED")
  BY <1>1, <1>3, <1>6 DEF GoodCall, Ended
<1>9. /\ settled' \in [Sessions -> Nat]
      /\ \A x \in Sessions : x # s => settled'[x] = settled[x]
      /\ r.op = "release" => settled'[s] = 1
      /\ r.op # "release" => settled' = settled
  BY <1>1, <1>2, <1>8 DEF Inv, TypeOK
<1>10. PICK n \in RequestState :
           /\ req' = [req EXCEPT ![p] = n]
           /\ n.op = r.op /\ n.session = s /\ n.pc = "publish" /\ n.esc = r.esc
  <2> DEFINE next == [r EXCEPT !.pc = "publish"]
  <2>1. /\ next \in RequestState
        /\ next.op = r.op /\ next.session = s /\ next.pc = "publish"
        /\ next.esc = r.esc
    BY <1>1 DEF RequestState
  <2>2. req' = [req EXCEPT ![p] = next]
    BY <1>0 DEF Inv, TypeOK, Write, MoveTo
  <2> HIDE DEF next
  <2>3. QED BY <2>1, <2>2
<1>11. rows' \in [Sessions -> Row \cup {NoRow}] /\ rows'[s] = new
       /\ \A x \in Sessions : x # s => rows'[x] = rows[x]
  BY <1>1, <1>2, <1>5 DEF Inv, TypeOK
<1>12. TypeOK'
  BY <1>2, <1>9, <1>10, <1>11 DEF Inv, TypeOK, Contract!TypeOK
<1>13. GoodApps'
  BY <1>2 DEF Inv, GoodApps, OneAppPerSession
<1>14. ASSUME NEW x \in Sessions PROVE GoodRow(x)'
  <2>0. \A o : Ended(x, o)' <=> Ended(x, o)
    BY <1>2 DEF Ended
  <2>1. GoodRow(x)
    BY DEF Inv
  <2>2. CASE x # s
    BY <1>2, <1>9, <1>11, <2>0, <2>1, <2>2 DEF GoodRow
  <2>3. CASE x = s
    <3>1. rows'[x] = new /\ new.app \in Apps /\ rows'[x] # NoRow
      BY <1>3, <1>5, <1>11, <2>3 DEF Row, RowStatus, NoRow
    <3>2. app'[rows'[x].app].session = x
      BY <1>2, <1>5, <1>6, <2>3, <3>1
    <3>3. rows'[x].status \in Terminal => app'[rows'[x].app].status = rows'[x].status
      BY <1>2, <1>7, <3>1
    <3>4. /\ settled'[x] \in {0, 1}
          /\ settled'[x] = 1 => x \in anchored' /\ Ended(x, "RELEASED")'
          /\ "release" \in published'[x] => settled'[x] = 1
          /\ "refund" \in published'[x] => Ended(x, "REFUNDED")'
      BY <1>2, <1>8, <1>9, <2>0, <2>1, <2>3 DEF GoodRow
    <3>5. QED BY <3>1, <3>2, <3>3, <3>4 DEF GoodRow
  <2>4. QED BY <2>2, <2>3
<1>15. GoodRequests'
  <2>1. GoodRequest(n)'
    <3>1. n.op # "deploy" => GoodCall(n)'
      <4> SUFFICES ASSUME n.op # "deploy" PROVE GoodCall(n)'
        OBVIOUS
      <4>1. n.esc.app \in Apps /\ n.esc.app = rows'[n.session].app
        BY <1>3, <1>5, <1>10, <1>11
      <4>2. GoodCall(r)
        BY <1>1, <1>10
      <4>3. QED BY <1>1, <1>2, <1>9, <1>10, <4>1, <4>2 DEF GoodCall
    <3>2. GoodDeploy(n)'
      BY <1>10 DEF GoodDeploy
    <3>3. QED BY <1>1, <1>10, <3>1, <3>2 DEF GoodRequest
  <2>2. ASSUME NEW q \in Requests \ {p}, NEW x \in RequestState, x = req[q]
        PROVE  GoodRequest(x)'
    <3>1. GoodRequest(x) /\ ~Clash(r, x)
      BY <1>0, <2>2 DEF Inv, GoodRequests, NoClash
    <3>2. CASE x = Idle
      BY <3>2 DEF GoodRequest
    <3>3. CASE x # Idle /\ x.session # s
      <4>1. x.session \in Sessions
        BY <3>1, <3>3 DEF GoodRequest
      <4>2. rows'[x.session] = rows[x.session] /\ settled'[x.session] = settled[x.session]
        BY <1>9, <1>11, <3>3, <4>1
      <4>3. QED BY <1>2, <3>1, <4>2 DEF GoodRequest, GoodDeploy, GoodCall
    <3>4. CASE x # Idle /\ x.session = s
      <4>1. x.op = "deploy" => x.pc \notin {"gateway", "persist", "write"}
        <5>1. r.op = "deploy" => ~(x.op = "deploy" /\ x.pc \in {"gateway", "persist", "write"})
          BY <1>1, <3>1, <3>4 DEF Clash
        <5>2. r.op # "deploy" => rows[s].app # NoApp
          BY <1>1 DEF GoodCall
        <5>3. QED BY <3>1, <3>4, <5>1, <5>2 DEF GoodRequest, GoodDeploy
      <4>2. CASE x.op = "deploy"
        BY <3>1, <4>1, <4>2 DEF GoodRequest, GoodDeploy
      <4>3. CASE x.op # "deploy"
        <5>1. GoodCall(x)
          BY <3>1, <3>4, <4>3 DEF GoodRequest
        <5>2. rows[s].app = x.esc.app /\ r.op # "deploy"
          BY <1>1, <3>4, <5>1 DEF GoodCall, GoodDeploy
        <5>3. rows'[s].app = x.esc.app
          BY <1>1, <1>5, <1>11, <5>2 DEF GoodCall
        <5>4. x.op = "release" /\ x.pc \in {"anchor", "persist", "write", "publish"}
                 => r.op # "release"
          BY <1>1, <3>1, <3>4 DEF Clash
        <5>5. GoodCall(x)'
          BY <1>2, <1>9, <3>4, <5>1, <5>3, <5>4 DEF GoodCall
        <5>6. QED BY <3>1, <3>4, <4>3, <5>5 DEF GoodRequest
      <4>4. QED BY <4>2, <4>3
    <3>5. QED BY <3>2, <3>3, <3>4
  <2>3. QED BY <1>10, <2>1, <2>2 DEF Inv, TypeOK, GoodRequests
<1>16. NoClash'
  <2>1. \A q \in Requests \ {p} : ~Clash(n, req[q])
    BY <1>0, <1>1, <1>10 DEF Inv, NoClash, Clash
  <2>2. QED BY <1>10, <2>1 DEF Inv, TypeOK, NoClash, Clash
<1>17. QED BY <1>12, <1>13, <1>14, <1>15, <1>16 DEF Inv

----------------------------------------------------------------------------
(* The invariant of the specification. *)

LEMMA StepInv == Inv /\ [Next]_vars => Inv'
<1> SUFFICES ASSUME Inv, [Next]_vars PROVE Inv'
  OBVIOUS
<1>1. CASE UNCHANGED vars
  <2>1. \A x \in RequestState : GoodRequest(x) => GoodRequest(x)'
    BY <1>1 DEF vars, GoodRequest, GoodDeploy, GoodCall
  <2>2. GoodRequests'
    BY <1>1, <2>1 DEF Inv, GoodRequests, vars
  <2>3. TypeOK' /\ GoodApps' /\ NoClash'
    BY <1>1 DEF Inv, vars, TypeOK, Contract!TypeOK, GoodApps, OneAppPerSession,
                NoClash, Clash
  <2>4. \A s \in Sessions : GoodRow(s)'
    BY <1>1 DEF Inv, vars, GoodRow, Ended
  <2>5. QED BY <2>2, <2>3, <2>4 DEF Inv
<1>2. ASSUME NEW p \in Requests, Start(p) PROVE Inv'
  BY <1>2, StartStep
<1>3. ASSUME NEW p \in Requests, Progress(p) PROVE Inv'
  <2>1. CASE InsertRow(p)
    BY <2>1, InsertStep
  <2>2. CASE DeployOnChain(p)
    BY <2>2, DeployStep
  <2>3. CASE \/ FundOnChain(p) \/ ReleaseOnChain(p) \/ RefundOnChain(p)
             \/ FreezeOnChain(p) \/ UnfreezeOnChain(p)
    BY <2>3, GatewayStep
  <2>4. CASE SignedFundOnChain(p)
    BY <2>4, SignedFundStep
  <2>5. CASE ContractRejects(p) \/ RecordRejects(p)
    BY <2>5, DoneStep DEF ContractRejects, RecordRejects
  <2>6. CASE AnchorRoot(p)
    BY <2>6, AnchorStep
  <2>7. CASE Persist(p)
    BY <2>7, PersistStep
  <2>8. CASE Write(p)
    BY <2>8, WriteStep
  <2>9. CASE Publish(p)
    BY <2>9, PublishStep
  <2>10. QED BY <1>3, <2>1, <2>2, <2>3, <2>4, <2>5, <2>6, <2>7, <2>8, <2>9 DEF Progress
<1>4. ASSUME NEW p \in Requests, Abandon(p) PROVE Inv'
  BY <1>4, DoneStep DEF Abandon
<1>5. QED BY <1>1, <1>2, <1>3, <1>4 DEF Next

\* The type invariant and what makes it inductive hold in every behaviour.
THEOREM SettlementInvariant == Spec => []Inv
  BY InitInv, StepInv, PTL DEF Spec

\* The state keeps its types: in particular a row never holds a status that the
\* table's CHECK constraint refuses, though the aggregate's statuses are more.
THEOREM TypeCorrect == Spec => []TypeOK
<1>1. Inv => TypeOK
  BY DEF Inv
<1>2. QED BY <1>1, SettlementInvariant, PTL

\* No session ever gets two applications, however many deployments of it race,
\* retry or die.
THEOREM NoDoubleDeploy == Spec => []OneAppPerSession
<1>1. Inv => OneAppPerSession
  BY DEF Inv, GoodApps
<1>2. QED BY <1>1, SettlementInvariant, PTL

\* A row that says RELEASED or REFUNDED is true of its application.
THEOREM OutcomesAreTrue == Spec => []OutcomeRowIsTrue
<1>1. Inv => OutcomeRowIsTrue
  BY DEF Inv, GoodRow, OutcomeRowIsTrue, Terminal
<1>2. QED BY <1>1, SettlementInvariant, PTL

\* A trade has at most one settlement record, and only one that is paid and
\* anchored has any.
THEOREM TradesSettleOnce == Spec => []SettledOnce
<1>1. Inv => SettledOnce
  BY DEF Inv, GoodRow, SettledOnce, Ended
<1>2. QED BY <1>1, SettlementInvariant, PTL

\* What is published of a payout has happened on chain.
THEOREM PublishedIsTrue == Spec => []EventsAreTrue
<1>1. Inv => EventsAreTrue
  BY DEF Inv, GoodRow, EventsAreTrue, Ended
<1>2. QED BY <1>1, SettlementInvariant, PTL

----------------------------------------------------------------------------
(* Settlement implements TradeCustody. *)

StatusMove == {<<"DEPLOYED", "FUNDED">>, <<"FUNDED", "RELEASED">>,
               <<"FUNDED", "REFUNDED">>}

LEMMA AppStep ==
    ASSUME Inv, [Next]_vars
    PROVE  \/ UNCHANGED app
           \/ \E a \in Apps :
                 /\ Touches(a)
                 /\ app[a].status # "ABSENT"
                 /\ \/ app'[a].status = app[a].status
                    \/ <<app[a].status, app'[a].status>> \in StatusMove
           \/ \E a \in Apps :
                 /\ \A b \in Apps \ {a} : app'[b] = app[b]
                 /\ app[a].status = "ABSENT"
                 /\ app'[a].session \in Sessions /\ app'[a].status = "DEPLOYED"
<1> SUFFICES ASSUME app' # app PROVE
           \/ \E a \in Apps :
                 /\ Touches(a)
                 /\ app[a].status # "ABSENT"
                 /\ \/ app'[a].status = app[a].status
                    \/ <<app[a].status, app'[a].status>> \in StatusMove
           \/ \E a \in Apps :
                 /\ \A b \in Apps \ {a} : app'[b] = app[b]
                 /\ app[a].status = "ABSENT"
                 /\ app'[a].session \in Sessions /\ app'[a].status = "DEPLOYED"
  OBVIOUS
<1>1. PICK p \in Requests :
           \/ DeployOnChain(p) \/ FundOnChain(p) \/ ReleaseOnChain(p)
           \/ RefundOnChain(p) \/ FreezeOnChain(p) \/ UnfreezeOnChain(p)
           \/ SignedFundOnChain(p)
  BY DEF Next, Start, Progress, StartDeploy, StartOnEscrow, StartSignedFund, Begin,
         InsertRow, ContractRejects, AnchorRoot, Persist, Write, RecordRejects,
         Publish, Abandon, vars
<1>2. req[p] \in RequestState /\ GoodRequest(req[p]) /\ Contract!TypeOK
  BY DEF Inv, TypeOK, GoodRequests
<1>3. req[p].session \in Sessions
  BY <1>1, <1>2 DEF GoodRequest, Idle, At, DeployOnChain, FundOnChain, ReleaseOnChain,
     RefundOnChain, FreezeOnChain, UnfreezeOnChain, SignedFundOnChain
<1>4. Price[req[p].session] \in Nat
  BY <1>3, PriceAssumption
<1>5. ~DeployOnChain(p) => AppOf(p) \in Apps
  BY <1>1, <1>2 DEF GoodRequest, GoodCall, Idle, At, AppOf, FundOnChain, ReleaseOnChain,
     RefundOnChain, FreezeOnChain, UnfreezeOnChain, SignedFundOnChain
<1>6. CASE DeployOnChain(p)
  BY <1>2, <1>3, <1>4, <1>6, InitializeEffect DEF DeployOnChain
<1>7. CASE ~DeployOnChain(p) /\ (FundOnChain(p) \/ SignedFundOnChain(p))
  BY <1>2, <1>4, <1>5, <1>7, FundEffect DEF FundOnChain, SignedFundOnChain, StatusMove
<1>8. CASE ~DeployOnChain(p) /\ ReleaseOnChain(p)
  BY <1>2, <1>5, <1>8, ReleaseEffect DEF ReleaseOnChain, StatusMove
<1>9. CASE ~DeployOnChain(p) /\ RefundOnChain(p)
  BY <1>2, <1>5, <1>9, RefundEffect DEF RefundOnChain, StatusMove
<1>10. CASE ~DeployOnChain(p) /\ (FreezeOnChain(p) \/ UnfreezeOnChain(p))
  BY <1>2, <1>5, <1>10, FlagEffect DEF FreezeOnChain, UnfreezeOnChain
<1>11. QED BY <1>1, <1>6, <1>7, <1>8, <1>9, <1>10

StageOfStatus(st) ==
    IF st = "FUNDED" THEN "held"
    ELSE IF st = "RELEASED" THEN "paid"
    ELSE IF st = "REFUNDED" THEN "returned"
    ELSE "open"

\* The stage of a session is that of its one application.
LEMMA StageOfTheApp ==
    ASSUME GoodApps, NEW a \in Apps, app[a].session \in Sessions
    PROVE  StageOfSession(app[a].session) = StageOfStatus(app[a].status)
<1>1. \A b \in Apps : app[b].session = app[a].session => b = a
  BY AbsentIdsAssumption DEF GoodApps, OneAppPerSession
<1>2. QED BY <1>1 DEF StageOfSession, StageOfStatus

LEMMA CustodyStep ==
    Inv /\ Inv' /\ [Next]_vars =>
        [Custody!Next]_([s \in Sessions |-> StageOfSession(s)])
<1> DEFINE st == [s \in Sessions |-> StageOfSession(s)]
<1> SUFFICES ASSUME Inv, Inv', [Next]_vars PROVE [Custody!Next]_st
  OBVIOUS
<1>1. CASE UNCHANGED app
  BY <1>1 DEF StageOfSession
<1>2. ASSUME NEW a \in Apps, Touches(a), app[a].status # "ABSENT",
             \/ app'[a].status = app[a].status
             \/ <<app[a].status, app'[a].status>> \in StatusMove
      PROVE  [Custody!Next]_st
  <2> DEFINE x == app[a].session
  <2>1. x \in Sessions /\ app'[a].session = x
    BY <1>2 DEF Inv, TypeOK, Contract!TypeOK, Contract!AppState, GoodApps, Touches
  <2>2. StageOfSession(x) = StageOfStatus(app[a].status)
    BY <2>1, StageOfTheApp DEF Inv
  <2>3. \A b \in Apps : app'[b].session = x => b = a
    BY <2>1, AbsentIdsAssumption DEF Inv, GoodApps, OneAppPerSession
  <2>4. PICK y : y = x
    OBVIOUS
  <2>5. StageOfSession(y)' = StageOfStatus(app'[a].status)
    BY <2>1, <2>3, <2>4 DEF StageOfSession, StageOfStatus
  <2>6. ASSUME NEW z \in Sessions, z # y PROVE StageOfSession(z)' = StageOfSession(z)
    <3>1. \A b \in Apps : \A o :
             (app'[b].session = z /\ app'[b].status = o)
               <=> (app[b].session = z /\ app[b].status = o)
      BY <1>2, <2>1, <2>4, <2>6 DEF Touches
    <3>2. QED BY <3>1 DEF StageOfSession
  <2>7. st' = [st EXCEPT ![y] = StageOfStatus(app'[a].status)]
    BY <2>1, <2>4, <2>5, <2>6
  <2>8. y \in Sessions /\ st[y] = StageOfStatus(app[a].status)
    BY <2>1, <2>2, <2>4
  <2>9. CASE app'[a].status = app[a].status
    BY <2>7, <2>8, <2>9
  <2>10. CASE <<app[a].status, app'[a].status>> = <<"DEPLOYED", "FUNDED">>
    <3>1. st[y] = "open" /\ st' = [st EXCEPT ![y] = "held"]
      BY <2>7, <2>8, <2>10 DEF StageOfStatus
    <3>2. Custody!Hold(y)
      BY <3>1 DEF Custody!Hold
    <3>3. QED BY <2>8, <3>2 DEF Custody!Next
  <2>11. CASE <<app[a].status, app'[a].status>> = <<"FUNDED", "RELEASED">>
    <3>1. st[y] = "held" /\ st' = [st EXCEPT ![y] = "paid"]
      BY <2>7, <2>8, <2>11 DEF StageOfStatus
    <3>2. Custody!Pay(y)
      BY <3>1 DEF Custody!Pay
    <3>3. QED BY <2>8, <3>2 DEF Custody!Next
  <2>12. CASE <<app[a].status, app'[a].status>> = <<"FUNDED", "REFUNDED">>
    <3>1. st[y] = "held" /\ st' = [st EXCEPT ![y] = "returned"]
      BY <2>7, <2>8, <2>12 DEF StageOfStatus
    <3>2. Custody!Return(y)
      BY <3>1 DEF Custody!Return
    <3>3. QED BY <2>8, <3>2 DEF Custody!Next
  <2>13. QED BY <1>2, <2>9, <2>10, <2>11, <2>12 DEF StatusMove
<1>3. ASSUME NEW a \in Apps, \A b \in Apps \ {a} : app'[b] = app[b],
             app[a].status = "ABSENT",
             app'[a].session \in Sessions, app'[a].status = "DEPLOYED"
      PROVE  [Custody!Next]_st
  <2>1. ASSUME NEW z \in Sessions PROVE StageOfSession(z)' = StageOfSession(z)
    <3>1. app[a].session # z
      BY <1>3, AbsentIdsAssumption DEF Inv, GoodApps
    <3>2. ASSUME NEW o \in {"FUNDED", "RELEASED", "REFUNDED"}
          PROVE  (\E b \in Apps : app'[b].session = z /\ app'[b].status = o)
                 <=> (\E b \in Apps : app[b].session = z /\ app[b].status = o)
      BY <1>3, <3>1
    <3>3. QED BY <3>2 DEF StageOfSession
  <2>2. QED BY <2>1
<1>4. QED BY <1>1, <1>2, <1>3, AppStep

LEMMA CustodyInit == Init => Custody!Init
  BY DEF Init, Contract!Init, Contract!Absent, StageOfSession, Custody!Init

\* Every trade keeps the custody promise, whatever requests race or die.
THEOREM SettlementImplementsCustody == Spec => ImplementsCustody
  BY CustodyInit, CustodyStep, SettlementInvariant, PTL
     DEF Spec, ImplementsCustody, Custody!Spec

----------------------------------------------------------------------------
(* Two facts the steps below have in common. *)

\* What a contract call does to the freeze flag.
LEMMA FlagEffects ==
    ASSUME Contract!TypeOK, NEW a \in Apps
    PROVE  /\ \A m : Contract!Fund(a, m) => ~app[a].frozen /\ ~app'[a].frozen
           /\ Contract!Release(a, "creator") => ~app[a].frozen /\ ~app'[a].frozen
           /\ Contract!Refund(a, "creator") => ~app[a].frozen /\ ~app'[a].frozen
           /\ Contract!Freeze(a, "creator") => app'[a].frozen
           /\ Contract!Unfreeze(a, "creator") => app[a].frozen /\ ~app'[a].frozen
           /\ \A s, m : Contract!Initialize(a, s, m) => ~app'[a].frozen
<1> USE DEF Contract!TypeOK, Contract!AppState
<1>1. ASSUME NEW m, Contract!Fund(a, m) PROVE ~app[a].frozen /\ ~app'[a].frozen
  <2>1. PICK d : d = [app[a] EXCEPT !.status = "FUNDED", !.balance = @ + m]
    OBVIOUS
  <2>2. d.frozen = app[a].frozen
    BY <2>1
  <2>3. app' = [app EXCEPT ![a] = d] /\ ~app[a].frozen
    BY <1>1, <2>1 DEF Contract!Fund, Contract!CanFund
  <2> QED BY <2>2, <2>3
<1>2. ASSUME Contract!Release(a, "creator") PROVE ~app[a].frozen /\ ~app'[a].frozen
  <2>1. PICK d : d = [app[a] EXCEPT !.status = "RELEASED",
                        !.balance = @ - app[a].amount, !.toSeller = @ + app[a].amount]
    OBVIOUS
  <2>2. d.frozen = app[a].frozen
    BY <2>1
  <2>3. app' = [app EXCEPT ![a] = d] /\ ~app[a].frozen
    BY <1>2, <2>1 DEF Contract!Release, Contract!CanRelease
  <2> QED BY <2>2, <2>3
<1>3. ASSUME Contract!Refund(a, "creator") PROVE ~app[a].frozen /\ ~app'[a].frozen
  <2>1. PICK d : d = [app[a] EXCEPT !.status = "REFUNDED",
                        !.balance = @ - app[a].amount, !.toBuyer = @ + app[a].amount]
    OBVIOUS
  <2>2. d.frozen = app[a].frozen
    BY <2>1
  <2>3. app' = [app EXCEPT ![a] = d] /\ ~app[a].frozen
    BY <1>3, <2>1 DEF Contract!Refund, Contract!CanRefund
  <2> QED BY <2>2, <2>3
<1>4. /\ Contract!Freeze(a, "creator") => app'[a].frozen
      /\ Contract!Unfreeze(a, "creator") => app[a].frozen /\ ~app'[a].frozen
      /\ \A s, m : Contract!Initialize(a, s, m) => ~app'[a].frozen
  BY DEF Contract!Freeze, Contract!Unfreeze, Contract!CanUnfreeze, Contract!Initialize
<1> QED BY <1>1, <1>2, <1>3, <1>4

\* A request that moves on keeps all but its step.
Moves(r, n, pc) ==
    n.pc = pc /\ n.op = r.op /\ n.session = r.session /\ n.esc = r.esc /\ n.base = r.base

LEMMA Moved ==
    ASSUME TypeOK, NEW p \in Requests, NEW pc, MoveTo(p, pc)
    PROVE  /\ Moves(req[p], req'[p], pc)
           /\ \A q \in Requests \ {p} : req'[q] = req[q]
<1>1. PICK r \in RequestState : r = req[p]
  BY DEF TypeOK
<1>2. PICK n : n = [r EXCEPT !.pc = pc]
  OBVIOUS
<1>3. n.pc = pc /\ n.op = r.op /\ n.session = r.session /\ n.esc = r.esc /\ n.base = r.base
  BY <1>2 DEF RequestState
<1>4. req' = [req EXCEPT ![p] = n]
  BY <1>1, <1>2 DEF MoveTo
<1> QED BY <1>1, <1>3, <1>4 DEF TypeOK, Moves

LEMMA Finished ==
    ASSUME TypeOK, NEW p \in Requests, Done(p)
    PROVE  req'[p] = Idle /\ \A q \in Requests \ {p} : req'[q] = req[q]
BY DEF TypeOK, Done

\* The freeze flag of what record_ leaves.
LEMMA FlagSet ==
    ASSUME NEW e \in Escrow, NEW a
    PROVE  Record("freeze", e, a).frozen = TRUE
<1>1. PICK d : d = [e EXCEPT !.app = a, !.status = StatusAfter["freeze"]]
  OBVIOUS
<1>2. DOMAIN d = {"app", "status", "frozen"}
  BY <1>1 DEF Escrow
<1>3. Record("freeze", e, a) = [d EXCEPT !.frozen = TRUE]
  BY <1>1 DEF Record, Escrow
<1> QED BY <1>2, <1>3

LEMMA FlagCleared ==
    ASSUME NEW e \in Escrow, NEW a, NEW op \in AllCalls \ {"freeze"}
    PROVE  Record(op, e, a).frozen = FALSE
<1>1. PICK d : d = [e EXCEPT !.app = a, !.status = StatusAfter[op]]
  OBVIOUS
<1>2. DOMAIN d = {"app", "status", "frozen"}
  BY <1>1 DEF Escrow
<1>3. Record(op, e, a) = [d EXCEPT !.frozen = FALSE]
  BY <1>1 DEF Record, Escrow
<1> QED BY <1>2, <1>3

LEMMA FlagOfRecord ==
    ASSUME NEW e \in Escrow, NEW a, NEW op \in AllCalls
    PROVE  Record(op, e, a).frozen = (op = "freeze")
<1>1. CASE op = "freeze"
  BY <1>1, FlagSet
<1>2. CASE op # "freeze"
  BY <1>2, FlagCleared
<1> QED BY <1>1, <1>2

\* The request that has read the row it will be merged into.
LEMMA Persisted ==
    ASSUME Inv, NEW p \in Requests, NEW r \in RequestState, r = req[p], Persist(p)
    PROVE  /\ req'[p].pc = "write" /\ req'[p].op = r.op /\ req'[p].session = r.session
           /\ req'[p].base = rows[r.session]
           /\ req'[p].esc = IF r.op = "deploy" THEN r.esc
                            ELSE Record(r.op, r.esc, r.esc.app)
           /\ \A q \in Requests \ {p} : req'[q] = req[q]
           /\ UNCHANGED <<rows, app>>
<1>0. PICK e : e = IF r.op = "deploy" THEN r.esc ELSE Record(r.op, r.esc, r.esc.app)
  OBVIOUS
<1>1. PICK n1 : n1 = [r EXCEPT !.pc = "write"]
  OBVIOUS
<1>2. PICK n2 : n2 = [n1 EXCEPT !.esc = e]
  OBVIOUS
<1>3. PICK n3 : n3 = [n2 EXCEPT !.base = rows[r.session]]
  OBVIOUS
<1>4. /\ n1.pc = "write" /\ n1.op = r.op /\ n1.session = r.session
      /\ DOMAIN n1 = {"op", "session", "pc", "esc", "base"}
  BY <1>1 DEF RequestState
<1>5. /\ n2.pc = "write" /\ n2.op = r.op /\ n2.session = r.session /\ n2.esc = e
      /\ DOMAIN n2 = {"op", "session", "pc", "esc", "base"}
  BY <1>2, <1>4
<1>6. /\ n3.pc = "write" /\ n3.op = r.op /\ n3.session = r.session /\ n3.esc = e
      /\ n3.base = rows[r.session]
  BY <1>3, <1>5
<1>7. req' = [req EXCEPT ![p] = n3] /\ UNCHANGED <<rows, app>>
  BY <1>0, <1>1, <1>2, <1>3 DEF Persist, RequestState, AppOf
<1> QED BY <1>0, <1>6, <1>7 DEF Inv, TypeOK

----------------------------------------------------------------------------
(* The freeze flag and the money of an unfrozen row, when no request        *)
(* unfreezes.                                                               *)

\* What the flag and the status of a row say of its application, when no request
\* unfreezes: once frozen stays frozen, on the chain and in the row.
GoodFlags(s) ==
    LET row == rows[s]  c == app[row.app]
    IN  /\ row.app = NoApp => row.status \in {"ABSENT", "DEPLOYED"} /\ ~row.frozen
        /\ row.frozen => row.status # "DEPLOYED" /\ c.frozen
        /\ row.status = "FUNDED" /\ ~row.frozen => c.status # "DEPLOYED"

\* What a request has done to its application, and what it is about to write: the
\* row it merges into is never less advanced than the row as it was read.
GoodFlow(r) ==
    LET c == app[r.esc.app]
    IN  /\ r.op # "unfreeze"
        /\ r.op \in {"fund", "release", "refund"}
               /\ r.pc \in {"anchor", "persist", "write", "publish"} =>
             c.status # "DEPLOYED"
        /\ r.op = "freeze" /\ r.pc \in {"persist", "write", "publish"} => c.frozen
        /\ r.op = "deploy" /\ r.pc \in {"persist", "write"} => ~r.esc.frozen
        /\ r.pc = "write" =>
              /\ r.op \in DOMAIN StatusAfter
              /\ r.esc.status = StatusAfter[r.op] /\ r.esc.frozen = (r.op = "freeze")
              /\ r.base.frozen => r.base.status # "DEPLOYED"
              /\ r.base.status # "DEPLOYED" => rows[r.session].status # "DEPLOYED"
              /\ r.base.status \in Terminal => c.status # "DEPLOYED"
              /\ r.op = "deploy" => r.base = Store(NewEscrow)

FlagsInv ==
    /\ \A s \in Sessions : GoodFlags(s)
    /\ \A p \in Requests, r \in RequestState : r = req[p] => GoodFlow(r)

\* Applications move forward and stay frozen.
Ratchet ==
    \A b \in Apps : app[b].status # "ABSENT" =>
        /\ app[b].status # "DEPLOYED" => app'[b].status # "DEPLOYED"
        /\ app[b].frozen => app'[b].frozen

\* Whoever is named by a row or a request that has called it exists.
LEMMA NamedExists ==
    ASSUME Inv
    PROVE  /\ \A s \in Sessions : rows[s].app # NoApp =>
                 rows[s].app \in Apps /\ app[rows[s].app].status # "ABSENT"
           /\ \A p \in Requests, r \in RequestState :
                 r = req[p] /\ r # Idle /\ r.op # "deploy" =>
                    /\ r.session \in Sessions
                    /\ r.esc.app \in Apps /\ app[r.esc.app].status # "ABSENT"
                    /\ r.esc.app = rows[r.session].app
<1> USE AbsentIdsAssumption
<1>1. ASSUME NEW s \in Sessions, rows[s].app # NoApp
      PROVE  rows[s].app \in Apps /\ app[rows[s].app].status # "ABSENT"
  <2>1. rows[s].app \in Apps
    BY <1>1 DEF Inv, TypeOK, Row, NoRow
  <2>2. app[rows[s].app].session = s
    BY <1>1 DEF Inv, GoodRow
  <2> QED BY <2>1, <2>2 DEF Inv, GoodApps
<1>2. ASSUME NEW p \in Requests, NEW r \in RequestState, r = req[p], r # Idle,
             r.op # "deploy"
      PROVE  /\ r.session \in Sessions
             /\ r.esc.app \in Apps /\ app[r.esc.app].status # "ABSENT"
             /\ r.esc.app = rows[r.session].app
  <2>1. r.session \in Sessions /\ GoodCall(r)
    BY <1>2 DEF Inv, GoodRequests, GoodRequest
  <2> QED BY <1>1, <2>1 DEF GoodCall
<1> QED BY <1>1, <1>2

\* A step that writes no row.
LEMMA FlowKept ==
    ASSUME Inv, FlagsInv, UNCHANGED rows, Ratchet, NEW p \in Requests,
           TypeOK', \A q \in Requests \ {p} : req'[q] = req[q],
           \A n \in RequestState : n = req'[p] => GoodFlow(n)'
    PROVE  FlagsInv'
<1>1. ASSUME NEW s \in Sessions PROVE GoodFlags(s)'
  <2>1. GoodFlags(s)
    BY DEF FlagsInv
  <2>2. rows[s].app # NoApp => rows[s].app \in Apps /\ app[rows[s].app].status # "ABSENT"
    BY NamedExists
  <2>3. rows[s].app = NoApp => rows[s].status # "FUNDED" /\ ~rows[s].frozen
    BY <2>1 DEF GoodFlags
  <2> QED BY <2>1, <2>2, <2>3 DEF GoodFlags, Ratchet
<1>2. ASSUME NEW q \in Requests, NEW r \in RequestState, r = req'[q]
      PROVE  GoodFlow(r)'
  <2>1. CASE q = p
    BY <1>2, <2>1
  <2>2. CASE q # p
    <3>1. r = req[q] /\ GoodFlow(r)
      BY <1>2, <2>2 DEF FlagsInv
    <3>2. CASE r = Idle
      BY <3>2 DEF GoodFlow, Idle
    <3>3. CASE r # Idle /\ r.op = "deploy"
      <4>1. r.base.status \notin Terminal \/ r.pc # "write"
        BY <3>1, <3>3 DEF GoodFlow, Store, NewEscrow, Terminal
      <4> QED BY <3>1, <3>3, <4>1 DEF GoodFlow
    <3>4. CASE r # Idle /\ r.op # "deploy"
      <4>1. r.esc.app \in Apps /\ app[r.esc.app].status # "ABSENT"
        BY <3>1, <3>4, NamedExists
      <4> QED BY <3>1, <3>4, <4>1 DEF GoodFlow, Ratchet
    <3> QED BY <3>2, <3>3, <3>4
  <2> QED BY <2>1, <2>2
<1> QED BY <1>1, <1>2 DEF FlagsInv

LEMMA InitFlags == Init => FlagsInv
BY DEF Init, FlagsInv, GoodFlags, GoodFlow, Idle, NoRow

\* A request that starts has done nothing; one that ends has nothing left to do.
LEMMA FlagsStart ==
    ASSUME Inv, Inv', FlagsInv, "unfreeze" \notin Calls, NEW p \in Requests, Start(p)
    PROVE  FlagsInv'
<1>1. \E op \in AllCalls, s \in Sessions, pc \in {"insert", "gateway"} : \E e :
         Begin(p, op, s, pc, e)
  BY DEF Start, StartDeploy, StartOnEscrow, StartSignedFund, AllCalls
<1>1a. PICK op \in AllCalls, s \in Sessions, pc \in {"insert", "gateway"} : \E e :
         Begin(p, op, s, pc, e)
  BY <1>1
<1>2. /\ op # "unfreeze" /\ req'[p].op = op /\ req'[p].pc \in {"insert", "gateway"}
      /\ \A q \in Requests \ {p} : req'[q] = req[q]
      /\ UNCHANGED <<rows, app>>
  BY <1>1a DEF Begin, Inv, TypeOK
<1>3. \A n \in RequestState : n = req'[p] => GoodFlow(n)'
  BY <1>2 DEF GoodFlow
<1> QED BY <1>2, <1>3, FlowKept DEF Ratchet, Inv

LEMMA FlagsDone ==
    ASSUME Inv, Inv', FlagsInv, NEW p \in Requests, Done(p), UNCHANGED rows, Ratchet
    PROVE  FlagsInv'
<1>1. req'[p] = Idle /\ \A q \in Requests \ {p} : req'[q] = req[q]
  BY Finished DEF Inv
<1>2. \A n \in RequestState : n = req'[p] => GoodFlow(n)'
  BY <1>1 DEF GoodFlow, Idle
<1> QED BY <1>1, <1>2, FlowKept DEF Inv

\* The contract calls.
LEMMA FlagsGateway ==
    ASSUME Inv, Inv', FlagsInv, NEW p \in Requests,
           \/ FundOnChain(p) \/ ReleaseOnChain(p) \/ RefundOnChain(p)
           \/ FreezeOnChain(p) \/ UnfreezeOnChain(p) \/ SignedFundOnChain(p)
           \/ DeployOnChain(p)
    PROVE  FlagsInv'
<1> USE AbsentIdsAssumption
<1>0. PICK r \in RequestState : r = req[p]
  BY DEF Inv, TypeOK
<1>1. Contract!TypeOK /\ r # Idle /\ GoodFlow(r) /\ UNCHANGED rows
  BY <1>0 DEF Inv, TypeOK, Idle, At, FundOnChain, ReleaseOnChain, RefundOnChain,
              FreezeOnChain, UnfreezeOnChain, SignedFundOnChain, DeployOnChain, FlagsInv
<1>2. /\ r.op # "deploy" => r.esc.app \in Apps /\ r.session \in Sessions
                               /\ app[r.esc.app].status # "ABSENT"
      /\ AppOf(p) = r.esc.app
  BY <1>0, <1>1, NamedExists DEF AppOf
<1>3. ASSUME NEW n \in RequestState, n = req'[p], Ratchet,
             \/ /\ n.op \in {"fund", "release", "refund"} /\ n.pc \in {"anchor", "persist"}
                /\ app'[n.esc.app].status # "DEPLOYED"
             \/ n.op = "freeze" /\ n.pc = "persist" /\ app'[n.esc.app].frozen
             \/ n.op = "deploy" /\ n.pc = "persist" /\ ~n.esc.frozen,
             \A q \in Requests \ {p} : req'[q] = req[q]
      PROVE  FlagsInv'
  <2>1. GoodFlow(n)'
    BY <1>3 DEF GoodFlow
  <2> QED BY <1>1, <1>3, <2>1, FlowKept DEF Inv
<1>4. PICK n \in RequestState : n = req'[p]
  BY DEF Inv, TypeOK
<1>5. CASE FundOnChain(p)
  <2>1. Moves(r, n, "persist") /\ \A q \in Requests \ {p} : req'[q] = req[q]
    BY <1>0, <1>4, <1>5, Moved DEF FundOnChain, Inv
  <2>2. r.op = "fund" /\ Contract!Fund(r.esc.app, Price[r.session])
    BY <1>0, <1>2, <1>5 DEF FundOnChain, At
  <2>3. Touches(r.esc.app) /\ app'[r.esc.app].status = "FUNDED" /\ ~app[r.esc.app].frozen
    BY <1>1, <1>2, <2>2, FundEffect, FlagEffects, PriceAssumption
  <2>4. Ratchet
    BY <1>2, <2>2, <2>3 DEF Ratchet, Touches
  <2> QED BY <1>3, <1>4, <2>1, <2>2, <2>3, <2>4 DEF Moves
<1>6. CASE ReleaseOnChain(p)
  <2>1. Moves(r, n, "anchor") /\ \A q \in Requests \ {p} : req'[q] = req[q]
    BY <1>0, <1>4, <1>6, Moved DEF ReleaseOnChain, Inv
  <2>2. r.op = "release" /\ Contract!Release(r.esc.app, "creator")
    BY <1>0, <1>2, <1>6 DEF ReleaseOnChain, At
  <2>3. Touches(r.esc.app) /\ app'[r.esc.app].status = "RELEASED" /\ ~app[r.esc.app].frozen
    BY <1>1, <1>2, <2>2, ReleaseEffect, FlagEffects
  <2>4. Ratchet
    BY <1>2, <2>2, <2>3 DEF Ratchet, Touches
  <2> QED BY <1>3, <1>4, <2>1, <2>2, <2>3, <2>4 DEF Moves
<1>7. CASE RefundOnChain(p)
  <2>1. Moves(r, n, "persist") /\ \A q \in Requests \ {p} : req'[q] = req[q]
    BY <1>0, <1>4, <1>7, Moved DEF RefundOnChain, Inv
  <2>2. r.op = "refund" /\ Contract!Refund(r.esc.app, "creator")
    BY <1>0, <1>2, <1>7 DEF RefundOnChain, At
  <2>3. Touches(r.esc.app) /\ app'[r.esc.app].status = "REFUNDED" /\ ~app[r.esc.app].frozen
    BY <1>1, <1>2, <2>2, RefundEffect, FlagEffects
  <2>4. Ratchet
    BY <1>2, <2>2, <2>3 DEF Ratchet, Touches
  <2> QED BY <1>3, <1>4, <2>1, <2>2, <2>3, <2>4 DEF Moves
<1>8. CASE FreezeOnChain(p)
  <2>1. Moves(r, n, "persist") /\ \A q \in Requests \ {p} : req'[q] = req[q]
    BY <1>0, <1>4, <1>8, Moved DEF FreezeOnChain, Inv
  <2>2. r.op = "freeze" /\ Contract!Freeze(r.esc.app, "creator")
    BY <1>0, <1>2, <1>8 DEF FreezeOnChain, At
  <2>3. /\ Touches(r.esc.app) /\ app'[r.esc.app].status = app[r.esc.app].status
        /\ app'[r.esc.app].frozen
    BY <1>1, <1>2, <2>2, FlagEffect, FlagEffects
  <2>4. Ratchet
    BY <1>2, <2>2, <2>3 DEF Ratchet, Touches
  <2> QED BY <1>3, <1>4, <2>1, <2>2, <2>3, <2>4 DEF Moves
<1>9. CASE UnfreezeOnChain(p)
  BY <1>0, <1>1, <1>9 DEF UnfreezeOnChain, At, GoodFlow
<1>10. CASE SignedFundOnChain(p)
  <2>1. r.op = "signed_fund" /\ Contract!Fund(r.esc.app, Price[r.session]) /\ Done(p)
    BY <1>0, <1>2, <1>10 DEF SignedFundOnChain, At
  <2>2. Touches(r.esc.app) /\ app'[r.esc.app].status = "FUNDED" /\ ~app[r.esc.app].frozen
    BY <1>1, <1>2, <2>1, FundEffect, FlagEffects, PriceAssumption
  <2>3. Ratchet
    BY <1>2, <2>1, <2>2 DEF Ratchet, Touches
  <2> QED BY <1>1, <2>1, <2>3, FlagsDone
<1>11. CASE DeployOnChain(p)
  <2>1. r.op = "deploy" /\ r.pc = "gateway" /\ r.session \in Sessions
    BY <1>0, <1>1, <1>11 DEF Inv, GoodRequests, GoodRequest, DeployOnChain, At
  <2>2. PICK a \in Apps :
           /\ Contract!Initialize(a, r.session, Price[r.session])
           /\ req' = [req EXCEPT ![p].pc = "persist", ![p].esc = Record("deploy", @, a)]
    BY <1>0, <1>11 DEF DeployOnChain
  <2>3. app[a].status = "ABSENT" /\ \A b \in Apps \ {a} : app'[b] = app[b]
    BY <1>1, <2>1, <2>2, PriceAssumption, InitializeEffect
  <2>4. n = [r EXCEPT !.pc = "persist", !.esc = Record("deploy", @, a)]
        /\ \A q \in Requests \ {p} : req'[q] = req[q]
    BY <1>0, <1>4, <2>2 DEF Inv, TypeOK
  <2>5. PICK e : e = Record("deploy", r.esc, a)
    OBVIOUS
  <2>6. e.frozen = FALSE
    <3>1. r.esc \in Escrow
      BY DEF RequestState
    <3> QED BY <2>5, <3>1, FlagCleared DEF AllCalls
  <2>7. n.pc = "persist" /\ n.op = "deploy" /\ n.esc = e
    <3>0. [r EXCEPT !.pc = "persist"] \in RequestState
      BY DEF RequestState
    <3>1. PICK d \in RequestState : d = [r EXCEPT !.pc = "persist"]
      BY <3>0
    <3>1a. d.pc = "persist" /\ d.op = r.op /\ d.esc = r.esc
      BY <3>1 DEF RequestState
    <3>2. n = [d EXCEPT !.esc = e]
      BY <2>4, <2>5, <3>1 DEF RequestState
    <3> QED BY <2>1, <3>1a, <3>2 DEF RequestState
  <2>8. Ratchet
    BY <2>3 DEF Ratchet
  <2> QED BY <1>3, <1>4, <2>4, <2>6, <2>7, <2>8
<1> QED BY <1>5, <1>6, <1>7, <1>8, <1>9, <1>10, <1>11

\* The steps that only move a request on, or change what no flag depends on.
LEMMA FlagsQuiet ==
    ASSUME Inv, Inv', FlagsInv, NEW p \in Requests, AnchorRoot(p) \/ Publish(p)
    PROVE  FlagsInv'
<1>0. PICK r \in RequestState : r = req[p]
  BY DEF Inv, TypeOK
<1>1. CASE Publish(p)
  <2>1. Done(p) /\ UNCHANGED <<rows, app>>
    BY <1>1 DEF Publish
  <2> QED BY <2>1, FlagsDone DEF Ratchet
<1>2. CASE AnchorRoot(p)
  <2>1. /\ Moves(r, req'[p], "persist") /\ \A q \in Requests \ {p} : req'[q] = req[q]
        /\ r.op = "release" /\ r.pc = "anchor" /\ UNCHANGED <<rows, app>>
    BY <1>0, <1>2, Moved DEF AnchorRoot, Inv, At
  <2>2. GoodFlow(r)
    BY <1>0 DEF FlagsInv
  <2>3. \A n \in RequestState : n = req'[p] => GoodFlow(n)'
    BY <2>1, <2>2 DEF GoodFlow, Moves
  <2> QED BY <2>1, <2>3, FlowKept DEF Inv, Ratchet
<1> QED BY <1>1, <1>2

\* What a request takes along when it reads the row it will be merged into.
LEMMA FlagsPersist ==
    ASSUME Inv, Inv', FlagsInv, NEW p \in Requests, Persist(p)
    PROVE  FlagsInv'
<1> USE AbsentIdsAssumption
<1>0. PICK r \in RequestState : r = req[p]
  BY DEF Inv, TypeOK
<1> DEFINE s == r.session
<1>1. /\ r.pc = "persist" /\ r.op \in AllCalls /\ s \in Sessions /\ GoodFlow(r)
      /\ r.op = "deploy" => GoodDeploy(r)
      /\ r.op # "deploy" => GoodCall(r)
  BY <1>0 DEF Inv, GoodRequests, GoodRequest, Persist, Idle, FlagsInv
<1>2. r.op \in DOMAIN StatusAfter /\ r.esc \in Escrow
  <2>1. r.op = "deploy" \/ CanRecord(r.op, r.esc)
    BY <1>0 DEF Persist
  <2> QED BY <2>1 DEF CanRecord, StatusAfter, RequestState
<1>3. PICK e : e = IF r.op = "deploy" THEN r.esc ELSE Record(r.op, r.esc, r.esc.app)
  OBVIOUS
<1>4. e.status = StatusAfter[r.op] /\ e.frozen = (r.op = "freeze") /\ e.app = r.esc.app
  <2>1. CASE r.op = "deploy"
    BY <1>1, <1>3, <2>1 DEF GoodDeploy, GoodFlow, StatusAfter, RequestState, Escrow
  <2>2. CASE r.op # "deploy"
    <3>1. e = Record(r.op, r.esc, r.esc.app) /\ r.esc.app \in Apps
      BY <1>1, <1>3, <2>2 DEF GoodCall
    <3> QED BY <1>1, <1>2, <3>1, Recorded, FlagOfRecord
  <2> QED BY <2>1, <2>2
<1>5. PICK n \in RequestState : n = req'[p]
  BY DEF Inv, TypeOK
<1>6. /\ n.pc = "write" /\ n.op = r.op /\ n.session = s /\ n.esc = e /\ n.base = rows[s]
      /\ \A q \in Requests \ {p} : req'[q] = req[q]
      /\ UNCHANGED <<rows, app>>
  BY <1>0, <1>3, <1>5, Persisted
<1>7. GoodFlags(s) /\ GoodRow(s)
  BY <1>1 DEF FlagsInv, Inv
<1>8. GoodFlow(n)'
  <2>1. CASE r.op = "deploy"
    <3>1. rows[s] \in Row /\ rows[s].app = NoApp
      BY <1>1, <2>1 DEF GoodDeploy, Inv, TypeOK
    <3>2. rows[s].status = "DEPLOYED" /\ rows[s].frozen = FALSE
      BY <1>7, <3>1 DEF GoodFlags, Row, RowStatus
    <3>3. rows[s] = Store(NewEscrow)
      BY <3>1, <3>2 DEF Row, Store, NewEscrow
    <3> QED BY <1>1, <1>2, <1>4, <1>6, <2>1, <3>2, <3>3 DEF GoodFlow, Terminal
  <2>2. CASE r.op # "deploy"
    <3>1. r.esc.app = rows[s].app /\ rows[s].app \in Apps
      BY <1>1, <2>2 DEF GoodCall
    <3>2. rows[s].frozen => rows[s].status # "DEPLOYED"
      BY <1>7 DEF GoodFlags
    <3>3. rows[s].status \in Terminal => app[rows[s].app].status # "DEPLOYED"
      BY <1>7 DEF GoodRow, Terminal
    <3> QED BY <1>1, <1>2, <1>4, <1>6, <2>2, <3>1, <3>2, <3>3 DEF GoodFlow
  <2> QED BY <2>1, <2>2
<1> QED BY <1>5, <1>6, <1>8, FlowKept DEF Inv, Ratchet

\* A step that writes the row of s: no status goes back to DEPLOYED.
LEMMA RowWritten ==
    ASSUME Inv, FlagsInv, NEW p \in Requests, NEW s \in Sessions, UNCHANGED app,
           \A x \in Sessions \ {s} : rows'[x] = rows[x],
           rows[s].status # "DEPLOYED" /\ rows[s] # NoRow =>
              rows'[s].status # "DEPLOYED",
           rows[s] = NoRow => rows'[s].app = NoApp,
           TypeOK', \A q \in Requests \ {p} : req'[q] = req[q],
           \A n \in RequestState : n = req'[p] => GoodFlow(n)',
           GoodFlags(s)'
    PROVE  FlagsInv'
<1>1. ASSUME NEW x \in Sessions PROVE GoodFlags(x)'
  BY DEF FlagsInv, GoodFlags
<1>2. ASSUME NEW q \in Requests \ {p}, NEW r \in RequestState, r = req'[q]
      PROVE  GoodFlow(r)'
  <2>1. r = req[q] /\ GoodFlow(r) /\ GoodRequest(r)
    BY <1>2 DEF FlagsInv, Inv, GoodRequests
  <2>2. CASE r.pc # "write"
    BY <2>1, <2>2 DEF GoodFlow
  <2>3. CASE r.pc = "write" /\ r.op = "deploy"
    <3>1. r.base.status = "DEPLOYED"
      BY <2>1, <2>3 DEF GoodFlow, Store, NewEscrow
    <3> QED BY <2>1, <2>3, <3>1 DEF GoodFlow
  <2>4. CASE r.pc = "write" /\ r.op # "deploy"
    <3>1. r.session \in Sessions /\ rows[r.session] # NoRow
      BY <2>1, <2>4, AbsentIdsAssumption DEF GoodRequest, GoodCall, Idle, NoRow
    <3>2. rows[r.session].status # "DEPLOYED" => rows'[r.session].status # "DEPLOYED"
      BY <3>1
    <3> QED BY <2>1, <3>2 DEF GoodFlow
  <2> QED BY <2>2, <2>3, <2>4
<1> QED BY <1>1, <1>2 DEF FlagsInv

LEMMA FlagsInsert ==
    ASSUME Inv, Inv', FlagsInv, NEW p \in Requests, InsertRow(p)
    PROVE  FlagsInv'
<1>0. PICK r \in RequestState : r = req[p]
  BY DEF Inv, TypeOK
<1>1. /\ r.op = "deploy" /\ r.pc = "insert" /\ r.session \in Sessions
      /\ r.esc = NewEscrow /\ GoodFlow(r) /\ UNCHANGED app
  BY <1>0 DEF Inv, GoodRequests, GoodRequest, GoodDeploy, InsertRow, At, Idle, FlagsInv
<1>2. CASE rows[r.session] = NoRow
  <2>1. rows' = [rows EXCEPT ![r.session] = Store(NewEscrow)] /\ MoveTo(p, "gateway")
    BY <1>0, <1>1, <1>2 DEF InsertRow
  <2>2. /\ Moves(r, req'[p], "gateway") /\ \A q \in Requests \ {p} : req'[q] = req[q]
    BY <1>0, <2>1, Moved DEF Inv
  <2>3. /\ \A x \in Sessions \ {r.session} : rows'[x] = rows[x]
        /\ rows'[r.session].app = NoApp /\ rows'[r.session].status = "DEPLOYED"
        /\ ~rows'[r.session].frozen
    BY <1>1, <2>1 DEF Inv, TypeOK, Store, NewEscrow
  <2>4. GoodFlags(r.session)'
    BY <2>3 DEF GoodFlags
  <2>5. \A n \in RequestState : n = req'[p] => GoodFlow(n)'
    BY <1>1, <2>2 DEF GoodFlow, Moves
  <2> QED BY <1>1, <1>2, <2>2, <2>3, <2>4, <2>5, RowWritten DEF Inv
<1>3. CASE rows[r.session] # NoRow
  <2>1. Done(p) /\ UNCHANGED rows
    BY <1>0, <1>3 DEF InsertRow
  <2> QED BY <1>1, <2>1, FlagsDone DEF Ratchet
<1> QED BY <1>2, <1>3

\* A column of the row is the copy's, or was the same when it was read.
LEMMA Overlaid ==
    ASSUME NEW row, NEW base, NEW new
    PROVE  LET o == Overlay(row, base, new)
           IN  /\ o.app = IF new.app = base.app THEN row.app ELSE new.app
               /\ o.status = IF new.status = base.status THEN row.status ELSE new.status
               /\ o.frozen = IF new.frozen = base.frozen THEN row.frozen ELSE new.frozen
BY DEF Overlay

LEMMA FlagsWrite ==
    ASSUME Inv, Inv', FlagsInv, NEW p \in Requests, Write(p)
    PROVE  FlagsInv'
<1> USE AbsentIdsAssumption
<1>0. PICK r \in RequestState : r = req[p]
  BY DEF Inv, TypeOK
<1> DEFINE s == r.session
<1>1. /\ r.pc = "write" /\ r.op \in AllCalls /\ s \in Sessions /\ GoodFlow(r)
      /\ r.op = "deploy" => GoodDeploy(r)
      /\ r.op # "deploy" => GoodCall(r)
  BY <1>0 DEF Inv, GoodRequests, GoodRequest, Write, Idle, FlagsInv
<1>2. GoodFlags(s) /\ GoodRow(s) /\ r.esc \in Escrow /\ r.base \in Row \cup {NoRow}
  BY <1>1 DEF FlagsInv, Inv, RequestState
<1>3. PICK st : st = Store(r.esc)
  OBVIOUS
<1>4. /\ st.app = r.esc.app
      /\ r.op = "freeze" => st.frozen = TRUE
      /\ r.op # "freeze" => st.frozen = FALSE
      /\ st.status = IF r.op = "freeze" THEN "FUNDED" ELSE StatusAfter[r.op]
      /\ r.op \in DOMAIN StatusAfter /\ r.op # "unfreeze"
  <2>1. r.op \in DOMAIN StatusAfter /\ r.esc.status = StatusAfter[r.op]
        /\ r.esc.frozen = (r.op = "freeze") /\ r.op # "unfreeze"
    BY <1>1 DEF GoodFlow
  <2>2. r.esc.status = "FROZEN" <=> r.op = "freeze"
    BY <2>1 DEF StatusAfter
  <2>3. PICK d : d = [r.esc EXCEPT !.status = IF r.esc.status = "FROZEN" THEN "FUNDED"
                                                ELSE r.esc.status]
    OBVIOUS
  <2>4. /\ d.app = r.esc.app /\ DOMAIN d = {"app", "status", "frozen"}
        /\ d.status = IF r.op = "freeze" THEN "FUNDED" ELSE StatusAfter[r.op]
    BY <1>2, <2>1, <2>2, <2>3 DEF Escrow
  <2>5. st = [d EXCEPT !.frozen = (r.esc.status = "FROZEN") \/ r.esc.frozen]
    BY <1>2, <1>3, <2>3 DEF Store, Escrow
  <2>6. /\ r.op = "freeze" => ((r.esc.status = "FROZEN") \/ r.esc.frozen) = TRUE
        /\ r.op # "freeze" => ((r.esc.status = "FROZEN") \/ r.esc.frozen) = FALSE
    BY <2>1, <2>2
  <2>7. /\ r.op = "freeze" => st = [d EXCEPT !.frozen = TRUE]
        /\ r.op # "freeze" => st = [d EXCEPT !.frozen = FALSE]
    BY <2>5, <2>6
  <2> QED BY <2>1, <2>4, <2>7
<1>5. PICK new : new = Overlay(rows[s], r.base, st)
  OBVIOUS
<1>6. /\ new.app = IF st.app = r.base.app THEN rows[s].app ELSE st.app
      /\ new.status = IF st.status = r.base.status THEN rows[s].status ELSE st.status
      /\ new.frozen = IF st.frozen = r.base.frozen THEN rows[s].frozen ELSE st.frozen
  BY <1>5, Overlaid
<1>7. rows' = [rows EXCEPT ![s] = new] /\ MoveTo(p, "publish") /\ UNCHANGED app
  BY <1>0, <1>1, <1>3, <1>5 DEF Write, Inv, TypeOK
<1>8. /\ rows'[s] = new /\ \A x \in Sessions \ {s} : rows'[x] = rows[x]
      /\ Moves(r, req'[p], "publish") /\ \A q \in Requests \ {p} : req'[q] = req[q]
  BY <1>0, <1>1, <1>7, Moved DEF Inv, TypeOK
<1>9. r.esc.app \in Apps /\ new.app = r.esc.app /\ rows[s] # NoRow
  BY <1>1, <1>2, <1>4, <1>6 DEF GoodDeploy, GoodCall, NoRow
<1> DEFINE c == app[r.esc.app]
<1>10. /\ rows[s].status # "DEPLOYED" => new.status # "DEPLOYED"
       /\ new.frozen => new.status # "DEPLOYED" /\ c.frozen
       /\ new.status = "FUNDED" /\ ~new.frozen => c.status # "DEPLOYED"
  <2>1. CASE r.op = "deploy"
    <3>1. r.base.status = "DEPLOYED" /\ ~r.base.frozen
      BY <1>1, <2>1 DEF GoodFlow, Store, NewEscrow
    <3>2. rows[s].status \in {"ABSENT", "DEPLOYED"} /\ ~rows[s].frozen
      BY <1>1, <1>2, <2>1 DEF GoodDeploy, GoodFlags
    <3>3. st.status = "DEPLOYED" /\ ~st.frozen
      <4>1. ~(r.op = "freeze")
        BY <2>1
      <4> QED BY <1>4, <2>1, <4>1 DEF StatusAfter
    <3> QED BY <1>6, <3>1, <3>2, <3>3
  <2>2. CASE r.op \in {"fund", "release", "refund"}
    <3>1. c.status # "DEPLOYED" /\ rows[s].app = r.esc.app
      BY <1>1, <2>2 DEF GoodFlow, GoodCall
    <3>2. ~st.frozen /\ st.status # "DEPLOYED"
      <4>1. ~(r.op = "freeze")
        BY <2>2
      <4> QED BY <1>4, <2>2, <4>1 DEF StatusAfter
    <3>3. rows[s].frozen => rows[s].status # "DEPLOYED" /\ c.frozen
      BY <1>2, <3>1 DEF GoodFlags
    <3> QED BY <1>6, <3>1, <3>2, <3>3
  <2>3. CASE r.op = "freeze"
    <3>1. c.frozen /\ rows[s].app = r.esc.app
      BY <1>1, <2>3 DEF GoodFlow, GoodCall
    <3>2. st.frozen /\ st.status = "FUNDED"
      BY <1>4, <2>3
    <3>3. /\ r.base.frozen => r.base.status # "DEPLOYED"
          /\ r.base.status # "DEPLOYED" => rows[s].status # "DEPLOYED"
          /\ r.base.status \in Terminal => c.status # "DEPLOYED"
      BY <1>1 DEF GoodFlow
    <3>4. new.status # "DEPLOYED"
      BY <1>6, <3>2, <3>3
    <3>5. ASSUME new.status = "FUNDED", ~new.frozen PROVE c.status # "DEPLOYED"
      <4>1. r.base.frozen = TRUE /\ ~rows[s].frozen
        BY <1>6, <3>2, <3>5
      <4>2. r.base.status \in {"FUNDED", "RELEASED", "REFUNDED"}
        BY <1>2, <3>3, <4>1 DEF Row, RowStatus, NoRow
      <4>3. CASE r.base.status = "FUNDED"
        BY <1>2, <1>6, <3>1, <3>2, <3>5, <4>1, <4>3 DEF GoodFlags
      <4>4. CASE r.base.status \in Terminal
        BY <3>3, <4>4
      <4> QED BY <4>2, <4>3, <4>4 DEF Terminal
    <3> QED BY <3>1, <3>4, <3>5
  <2> QED BY <1>4, <2>1, <2>2, <2>3 DEF StatusAfter
<1>11. GoodFlags(s)'
  BY <1>7, <1>8, <1>9, <1>10 DEF GoodFlags
<1>12. \A n \in RequestState : n = req'[p] => GoodFlow(n)'
  <2>1. /\ r.op \in {"fund", "release", "refund"} => c.status # "DEPLOYED"
        /\ r.op = "freeze" => c.frozen
    BY <1>1 DEF GoodFlow
  <2> QED BY <1>4, <1>7, <1>8, <2>1 DEF GoodFlow, Moves
<1> QED BY <1>1, <1>7, <1>8, <1>9, <1>10, <1>11, <1>12, RowWritten DEF Inv

LEMMA NextFlags ==
    ASSUME Inv, Inv', FlagsInv, "unfreeze" \notin Calls, [Next]_vars
    PROVE  FlagsInv'
<1>1. CASE UNCHANGED vars
  BY <1>1 DEF vars, FlagsInv, GoodFlags, GoodFlow
<1>2. ASSUME NEW p \in Requests, Start(p) PROVE FlagsInv'
  BY <1>2, FlagsStart
<1>3. ASSUME NEW p \in Requests, Progress(p) PROVE FlagsInv'
  <2>1. CASE InsertRow(p)
    BY <2>1, FlagsInsert
  <2>2. CASE \/ FundOnChain(p) \/ ReleaseOnChain(p) \/ RefundOnChain(p)
             \/ FreezeOnChain(p) \/ UnfreezeOnChain(p) \/ SignedFundOnChain(p)
             \/ DeployOnChain(p)
    BY <2>2, FlagsGateway
  <2>3. CASE AnchorRoot(p) \/ Publish(p)
    BY <2>3, FlagsQuiet
  <2>4. CASE Persist(p)
    BY <2>4, FlagsPersist
  <2>5. CASE Write(p)
    BY <2>5, FlagsWrite
  <2>6. CASE ContractRejects(p) \/ RecordRejects(p)
    BY <2>6, FlagsDone DEF ContractRejects, RecordRejects, Ratchet
  <2> QED BY <1>3, <2>1, <2>2, <2>3, <2>4, <2>5, <2>6 DEF Progress
<1>4. ASSUME NEW p \in Requests, Abandon(p) PROVE FlagsInv'
  BY <1>4, FlagsDone DEF Abandon, Ratchet
<1> QED BY <1>1, <1>2, <1>3, <1>4 DEF Next

\* With the calls the API offers, a row that claims money has it and a row that
\* claims a freeze is frozen on the chain, whatever requests race and die.
THEOREM RowsMatchTheChain ==
    ASSUME "unfreeze" \notin Calls
    PROVE  Spec => []RowsMatchChain
<1>1. Init => FlagsInv
  BY InitFlags
<1>2. Inv /\ Inv' /\ FlagsInv /\ [Next]_vars => FlagsInv'
  BY NextFlags
<1>3. FlagsInv => RowsMatchChain
  BY DEF FlagsInv, GoodFlags, RowsMatchChain, FundedRowHasMoney, FrozenRowHoldsMoney
<1> QED BY <1>1, <1>2, <1>3, SettlementInvariant, PTL DEF Spec

----------------------------------------------------------------------------
(* Requests that run one at a time and to their end, without the wallet's   *)
(* own funding.                                                             *)

\* A row and its application (its status and flag) between two requests.
Agree(row, status, frozen) ==
    /\ status \in Terminal => row.status = status /\ ~row.frozen
    /\ status \in {"DEPLOYED", "FUNDED"} =>
          row.status \notin Terminal /\ row.frozen = frozen
    /\ status = "FUNDED" => row.status = "FUNDED"

\* After the contract call of op and before the row is written.
Midway(op, row, c) ==
    \/ op = "fund" /\ c.status = "FUNDED" /\ ~c.frozen
          /\ row.status \notin Terminal /\ ~row.frozen
    \/ op = "release" /\ c.status = "RELEASED" /\ row.status = "FUNDED" /\ ~row.frozen
    \/ op = "refund" /\ c.status = "REFUNDED" /\ row.status = "FUNDED" /\ ~row.frozen
    \/ op = "freeze" /\ c.frozen = TRUE
          /\ \E f \in BOOLEAN : Agree(row, c.status, f)
    \/ op = "unfreeze" /\ c.frozen = FALSE /\ Agree(row, c.status, TRUE)

Written == {"anchor", "persist", "write"}

\* What the only request knows at each of its steps.
GoodTurn(r) ==
    LET row == rows[r.session]  c == app[r.esc.app]
    IN  /\ r.op # "signed_fund"
        /\ r.op # "deploy" /\ r.pc \in {"gateway", "anchor", "persist"} =>
              r.esc = Load(row)
        /\ r.op # "deploy" /\ r.pc \in {"anchor", "persist"} => Midway(r.op, row, c)
        /\ r.op = "deploy" /\ r.pc = "persist" =>
              c.status = "DEPLOYED" /\ c.frozen = FALSE /\ r.esc.frozen = FALSE
        /\ r.pc = "write" => r.base = row /\ Agree(Store(r.esc), c.status, c.frozen)

Unsettled(s) == \E p \in Requests : req[p].session = s /\ req[p].pc \in Written

TurnsInv ==
    /\ \A s \in Sessions :
          ~Unsettled(s) /\ rows[s].app # NoApp =>
              Agree(rows[s], app[rows[s].app].status, app[rows[s].app].frozen)
    /\ \A p \in Requests, r \in RequestState : r = req[p] => GoodTurn(r)

OneAtATime == \A p, q \in Requests : p = q

\* A step of the only request, which is about session s: the others' rows and
\* applications stay as they are.
LEMMA TurnStep ==
    ASSUME Inv, Inv', TurnsInv, OneAtATime, NEW p \in Requests,
           NEW s \in Sessions, req[p].session = s \/ req[p] = Idle,
           \A x \in Sessions \ {s} :
              /\ rows'[x] = rows[x]
              /\ rows[x].app # NoApp => app'[rows[x].app] = app[rows[x].app],
           \A n \in RequestState : n = req'[p] => GoodTurn(n)',
           \/ req'[p].session = s /\ req'[p].pc \in Written
           \/ rows'[s].app # NoApp =>
                 Agree(rows[s], app[rows[s].app].status, app[rows[s].app].frozen)'
    PROVE  TurnsInv'
<1> USE AbsentIdsAssumption
<1>1. \A x \in Sessions \ {s} : ~Unsettled(x)
  BY DEF OneAtATime, Unsettled, Idle, Written
<1>2. ASSUME NEW x \in Sessions, ~Unsettled(x)', rows'[x].app # NoApp
      PROVE  Agree(rows[x], app[rows[x].app].status, app[rows[x].app].frozen)'
  <2>1. CASE x = s
    BY <1>2, <2>1 DEF Unsettled
  <2>2. CASE x # s
    <3>1. rows'[x] = rows[x] /\ app'[rows[x].app] = app[rows[x].app]
      BY <1>2, <2>2
    <3>2. Agree(rows[x], app[rows[x].app].status, app[rows[x].app].frozen)
      BY <1>1, <1>2, <2>2, <3>1 DEF TurnsInv
    <3> QED BY <3>1, <3>2 DEF Agree
  <2> QED BY <2>1, <2>2
<1>3. ASSUME NEW q \in Requests, NEW n \in RequestState, n = req'[q] PROVE GoodTurn(n)'
  BY <1>3 DEF OneAtATime
<1> QED BY <1>2, <1>3 DEF TurnsInv

\* A request that does not touch what is stored.
LEMMA TurnKept ==
    ASSUME Inv, Inv', TurnsInv, OneAtATime, NEW p \in Requests,
           UNCHANGED <<rows, app>>,
           \A n \in RequestState : n = req'[p] => GoodTurn(n)',
           \/ req[p].pc \notin Written
           \/ req'[p].pc \in Written /\ req'[p].session = req[p].session
           \/ rows[req[p].session].app # NoApp =>
                 Agree(rows[req[p].session], app[rows[req[p].session].app].status,
                       app[rows[req[p].session].app].frozen)
    PROVE  TurnsInv'
<1> USE DEF OneAtATime
<1>1. ASSUME NEW x \in Sessions, ~Unsettled(x)', rows'[x].app # NoApp
      PROVE  Agree(rows[x], app[rows[x].app].status, app[rows[x].app].frozen)'
  <2>1. CASE ~Unsettled(x)
    BY <1>1, <2>1 DEF TurnsInv, Agree
  <2>2. CASE Unsettled(x)
    <3>1. req[p].session = x /\ req[p].pc \in Written
      BY <2>2 DEF Unsettled
    <3>2. Agree(rows[x], app[rows[x].app].status, app[rows[x].app].frozen)
      BY <1>1, <3>1 DEF Unsettled
    <3> QED BY <3>2 DEF Agree
  <2> QED BY <2>1, <2>2
<1>2. ASSUME NEW q \in Requests, NEW n \in RequestState, n = req'[q] PROVE GoodTurn(n)'
  BY <1>2
<1> QED BY <1>1, <1>2 DEF TurnsInv

LEMMA InitTurns == Init => TurnsInv
BY DEF Init, TurnsInv, GoodTurn, Idle, NoRow

LEMMA IdleTurn ==
    ASSUME TypeOK', NEW p \in Requests, req'[p] = Idle
    PROVE  \A n \in RequestState : n = req'[p] => GoodTurn(n)'
BY DEF GoodTurn, Idle

\* The copy and the row, told by status and flag.
LEMMA Loaded ==
    ASSUME NEW row \in Row
    PROVE  /\ Load(row).app = row.app /\ Load(row).frozen = row.frozen
           /\ Load(row).status = IF row.frozen THEN "FROZEN" ELSE row.status
           /\ Load(row) \in Escrow
BY DEF Load, Row, Escrow, RowStatus

LEMMA StoredFields ==
    ASSUME NEW e \in Escrow
    PROVE  /\ Store(e).app = e.app /\ Store(e) \in Row
           /\ Store(e).status = IF e.status = "FROZEN" THEN "FUNDED" ELSE e.status
           /\ e.status = "FROZEN" \/ e.frozen => Store(e).frozen = TRUE
           /\ e.status # "FROZEN" /\ ~e.frozen => Store(e).frozen = FALSE
<1>1. PICK d : d = [e EXCEPT !.status = IF e.status = "FROZEN" THEN "FUNDED"
                                          ELSE e.status]
  OBVIOUS
<1>2. /\ d.app = e.app /\ DOMAIN d = {"app", "status", "frozen"}
      /\ d.status = IF e.status = "FROZEN" THEN "FUNDED" ELSE e.status
  BY <1>1 DEF Escrow
<1>3. Store(e) = [d EXCEPT !.frozen = (e.status = "FROZEN") \/ e.frozen]
  BY <1>1 DEF Store, Escrow
<1>4. /\ e.status = "FROZEN" \/ e.frozen => Store(e) = [d EXCEPT !.frozen = TRUE]
      /\ e.status # "FROZEN" /\ ~e.frozen => Store(e) = [d EXCEPT !.frozen = FALSE]
  BY <1>3
<1>5. Store(e) \in Row /\ Store(e).app = e.app
  BY Stored
<1> QED BY <1>2, <1>4, <1>5

LEMMA TurnStart ==
    ASSUME Inv, Inv', TurnsInv, OneAtATime, "signed_fund" \notin Calls,
           NEW p \in Requests, Start(p)
    PROVE  TurnsInv'
<1>1. PICK s \in Sessions : \/ StartDeploy(p, s)
                            \/ \E op \in AllCalls : StartOnEscrow(p, op, s)
                            \/ StartSignedFund(p, s)
  BY DEF Start
<1>2. UNCHANGED <<rows, app>> /\ req[p].pc \notin Written
  BY <1>1 DEF StartDeploy, StartOnEscrow, StartSignedFund, Begin, Idle, Written
<1>3. ASSUME NEW n \in RequestState, n = req'[p] PROVE GoodTurn(n)'
  <2>1. CASE StartDeploy(p, s)
    <3>1. n.op = "deploy" /\ n.pc = "insert"
      BY <1>3, <2>1 DEF StartDeploy, Begin, Inv, TypeOK
    <3> QED BY <3>1 DEF GoodTurn
  <2>2. ASSUME NEW op \in AllCalls, StartOnEscrow(p, op, s) PROVE GoodTurn(n)'
    <3>1. /\ n.op = op /\ n.pc = "gateway" /\ n.session = s /\ n.esc = Load(rows[s])
          /\ op # "signed_fund"
      BY <1>3, <2>2 DEF StartOnEscrow, Begin, Inv, TypeOK
    <3> QED BY <1>2, <3>1 DEF GoodTurn, Load
  <2> QED BY <1>1, <2>1, <2>2 DEF StartSignedFund, Begin
<1> QED BY <1>2, <1>3, TurnKept

\* The request fails in the gateway, or has published and is done.
LEMMA TurnDone ==
    ASSUME Inv, Inv', TurnsInv, OneAtATime, NEW p \in Requests,
           ContractRejects(p) \/ Publish(p)
    PROVE  TurnsInv'
<1>1. UNCHANGED <<rows, app>> /\ req[p].pc \notin Written /\ Done(p)
  BY DEF ContractRejects, Publish, Written
<1>2. req'[p] = Idle
  BY <1>1, Finished DEF Inv
<1> QED BY <1>1, <1>2, TurnKept, IdleTurn DEF Inv

LEMMA TurnInsert ==
    ASSUME Inv, Inv', TurnsInv, OneAtATime, NEW p \in Requests, InsertRow(p)
    PROVE  TurnsInv'
<1>0. PICK r \in RequestState : r = req[p]
  BY DEF Inv, TypeOK
<1>1. /\ r.op = "deploy" /\ r.pc = "insert" /\ r.session \in Sessions
      /\ r.esc = NewEscrow /\ UNCHANGED app
  BY <1>0 DEF Inv, GoodRequests, GoodRequest, GoodDeploy, InsertRow, At, Idle
<1>2. CASE rows[r.session] = NoRow
  <2>1. rows' = [rows EXCEPT ![r.session] = Store(NewEscrow)] /\ MoveTo(p, "gateway")
    BY <1>0, <1>1, <1>2 DEF InsertRow
  <2>2. Moves(r, req'[p], "gateway")
    BY <1>0, <2>1, Moved DEF Inv
  <2>3. /\ \A x \in Sessions \ {r.session} : rows'[x] = rows[x]
        /\ rows'[r.session].app = NoApp
    BY <1>1, <2>1 DEF Inv, TypeOK, Store, NewEscrow
  <2>4. \A n \in RequestState : n = req'[p] => GoodTurn(n)'
    BY <1>1, <2>2 DEF GoodTurn, Moves
  <2> QED BY <1>0, <1>1, <2>3, <2>4, TurnStep
<1>3. CASE rows[r.session] # NoRow
  <2>1. Done(p) /\ UNCHANGED rows
    BY <1>0, <1>3 DEF InsertRow
  <2>2. req'[p] = Idle
    BY <2>1, Finished DEF Inv
  <2> QED BY <1>0, <1>1, <2>1, <2>2, TurnKept, IdleTurn DEF Inv, Written
<1> QED BY <1>2, <1>3

LEMMA TurnDeploy ==
    ASSUME Inv, Inv', TurnsInv, OneAtATime, NEW p \in Requests, DeployOnChain(p)
    PROVE  TurnsInv'
<1> USE AbsentIdsAssumption
<1>0. PICK r \in RequestState : r = req[p]
  BY DEF Inv, TypeOK
<1>1. /\ r.op = "deploy" /\ r.pc = "gateway" /\ r.session \in Sessions
      /\ r.esc \in Escrow /\ UNCHANGED rows /\ Contract!TypeOK
  BY <1>0 DEF Inv, TypeOK, GoodRequests, GoodRequest, DeployOnChain, At, Idle, RequestState
<1>2. PICK a \in Apps :
         /\ Contract!Initialize(a, r.session, Price[r.session])
         /\ req' = [req EXCEPT ![p].pc = "persist", ![p].esc = Record("deploy", @, a)]
  BY <1>0 DEF DeployOnChain
<1>3. /\ app[a].status = "ABSENT" /\ \A b \in Apps \ {a} : app'[b] = app[b]
      /\ app'[a].status = "DEPLOYED" /\ ~app'[a].frozen
  BY <1>1, <1>2, PriceAssumption, InitializeEffect, FlagEffects
<1>4. app'[a].frozen = FALSE
  BY <1>3 DEF Inv, TypeOK, Contract!TypeOK, Contract!AppState
<1>5. PICK e : e = Record("deploy", r.esc, a)
  OBVIOUS
<1>6. e.frozen = FALSE /\ e.app = a
  <2>1. "deploy" \in DOMAIN StatusAfter
    BY DEF StatusAfter
  <2>2. Record("deploy", r.esc, a).app = a
    BY <1>1, <2>1, Recorded
  <2>3. Record("deploy", r.esc, a).frozen = FALSE
    BY <1>1, FlagCleared DEF AllCalls
  <2> QED BY <1>5, <2>2, <2>3
<1>7. ASSUME NEW n \in RequestState, n = req'[p]
      PROVE  n.pc = "persist" /\ n.op = "deploy" /\ n.esc = e /\ n.session = r.session
  <2>1. PICK d : d = [r EXCEPT !.pc = "persist"]
    OBVIOUS
  <2>2. /\ d.pc = "persist" /\ d.op = r.op /\ d.session = r.session
        /\ DOMAIN d = {"op", "session", "pc", "esc", "base"}
    BY <2>1 DEF RequestState
  <2>3. n = [d EXCEPT !.esc = e]
    BY <1>0, <1>2, <1>5, <1>7, <2>1 DEF Inv, TypeOK, RequestState
  <2> QED BY <1>1, <2>2, <2>3
<1>8. \A n \in RequestState : n = req'[p] => GoodTurn(n)'
  BY <1>3, <1>4, <1>6, <1>7 DEF GoodTurn
<1>9. \A x \in Sessions : rows[x].app # NoApp => app'[rows[x].app] = app[rows[x].app]
  BY <1>3, NamedExists
<1>10. req'[p] \in RequestState
  BY DEF Inv, TypeOK
<1> QED BY <1>0, <1>1, <1>7, <1>8, <1>9, <1>10, TurnStep DEF Written

\* The contract calls: whether the copy may record what the call has done is
\* settled by the row and the application having agreed before.
LEMMA TurnGateway ==
    ASSUME Inv, Inv', TurnsInv, OneAtATime, NEW p \in Requests,
           \/ FundOnChain(p) \/ ReleaseOnChain(p) \/ RefundOnChain(p)
           \/ FreezeOnChain(p) \/ UnfreezeOnChain(p)
    PROVE  TurnsInv'
<1> USE AbsentIdsAssumption
<1>0. PICK r \in RequestState : r = req[p]
  BY DEF Inv, TypeOK
<1>1. PICK pc \in {"anchor", "persist"} : MoveTo(p, pc)
  BY DEF FundOnChain, ReleaseOnChain, RefundOnChain, FreezeOnChain, UnfreezeOnChain
<1>2. /\ r.pc = "gateway" /\ r.op \in {"fund", "release", "refund", "freeze", "unfreeze"}
      /\ UNCHANGED rows /\ Contract!TypeOK /\ Contract!TypeOK' /\ GoodTurn(r)
  BY <1>0 DEF Inv, TypeOK, At, FundOnChain, ReleaseOnChain, RefundOnChain, FreezeOnChain,
              UnfreezeOnChain, TurnsInv
<1> DEFINE s == r.session  a == r.esc.app
<1>3. /\ s \in Sessions /\ a \in Apps /\ a = rows[s].app /\ AppOf(p) = a
      /\ app[a].status # "ABSENT"
  BY <1>0, <1>2, NamedExists DEF AppOf, Idle
<1>4. r.esc = Load(rows[s])
  BY <1>2 DEF GoodTurn
<1>5. Agree(rows[s], app[a].status, app[a].frozen)
  <2>1. ~Unsettled(s)
    BY <1>0, <1>2 DEF Unsettled, OneAtATime, Written
  <2> QED BY <1>3, <2>1 DEF TurnsInv
<1>6. Touches(a) /\ app'[a].frozen \in BOOLEAN /\ app[a].frozen \in BOOLEAN
      /\ Midway(r.op, rows[s], app'[a])
  <2>0. /\ app[a].frozen \in BOOLEAN
        /\ app' \in [Apps -> Contract!AppState] => app'[a].frozen \in BOOLEAN
    BY <1>2, <1>3 DEF Contract!TypeOK, Contract!AppState
  <2>1. CASE FundOnChain(p)
    <3>1. r.op = "fund" /\ Contract!Fund(a, Price[s])
      BY <1>0, <1>3, <2>1 DEF FundOnChain, At
    <3>2. /\ Touches(a) /\ app[a].status = "DEPLOYED" /\ app'[a].status = "FUNDED"
          /\ ~app[a].frozen /\ ~app'[a].frozen
      BY <1>2, <1>3, <3>1, FundEffect, FlagEffects, PriceAssumption
    <3> QED BY <1>5, <2>0, <3>1, <3>2 DEF Midway, Agree, Touches
  <2>2. CASE ReleaseOnChain(p)
    <3>1. r.op = "release" /\ Contract!Release(a, "creator")
      BY <1>0, <1>3, <2>2 DEF ReleaseOnChain, At
    <3>2. /\ Touches(a) /\ app[a].status = "FUNDED" /\ app'[a].status = "RELEASED"
          /\ ~app[a].frozen
      BY <1>2, <1>3, <3>1, ReleaseEffect, FlagEffects
    <3> QED BY <1>5, <2>0, <3>1, <3>2 DEF Midway, Agree, Touches
  <2>3. CASE RefundOnChain(p)
    <3>1. r.op = "refund" /\ Contract!Refund(a, "creator")
      BY <1>0, <1>3, <2>3 DEF RefundOnChain, At
    <3>2. /\ Touches(a) /\ app[a].status = "FUNDED" /\ app'[a].status = "REFUNDED"
          /\ ~app[a].frozen
      BY <1>2, <1>3, <3>1, RefundEffect, FlagEffects
    <3> QED BY <1>5, <2>0, <3>1, <3>2 DEF Midway, Agree, Touches
  <2>4. CASE FreezeOnChain(p)
    <3>1. r.op = "freeze" /\ Contract!Freeze(a, "creator")
      BY <1>0, <1>3, <2>4 DEF FreezeOnChain, At
    <3>2. Touches(a) /\ app'[a].status = app[a].status /\ app'[a].frozen
      BY <1>2, <1>3, <3>1, FlagEffect, FlagEffects
    <3>3. app'[a].frozen = TRUE
      BY <2>0, <3>2 DEF Touches
    <3> QED BY <1>5, <2>0, <3>1, <3>2, <3>3 DEF Midway, Touches
  <2>5. CASE UnfreezeOnChain(p)
    <3>1. r.op = "unfreeze" /\ Contract!Unfreeze(a, "creator")
      BY <1>0, <1>3, <2>5 DEF UnfreezeOnChain, At
    <3>2. /\ Touches(a) /\ app'[a].status = app[a].status
          /\ app[a].frozen /\ ~app'[a].frozen
      BY <1>2, <1>3, <3>1, FlagEffect, FlagEffects
    <3>3. app[a].frozen = TRUE /\ app'[a].frozen = FALSE
      BY <2>0, <3>2 DEF Touches
    <3> QED BY <1>5, <2>0, <3>1, <3>2, <3>3 DEF Midway, Touches
  <2> QED BY <2>1, <2>2, <2>3, <2>4, <2>5
<1>7. Moves(r, req'[p], pc)
  BY <1>0, <1>1, Moved DEF Inv
<1>8. \A n \in RequestState : n = req'[p] => GoodTurn(n)'
  BY <1>2, <1>4, <1>6, <1>7 DEF GoodTurn, Moves
<1>9. \A x \in Sessions \ {s} : rows[x].app # NoApp => app'[rows[x].app] = app[rows[x].app]
  <2>1. \A x \in Sessions \ {s} : rows[x].app # NoApp => rows[x].app \in Apps \ {a}
    BY <1>3, NamedExists DEF Inv, GoodRow
  <2> QED BY <1>6, <2>1 DEF Touches
<1>10. req'[p].session = s /\ req'[p].pc \in Written
  BY <1>7 DEF Moves, Written
<1> QED BY <1>0, <1>2, <1>3, <1>8, <1>9, <1>10, TurnStep

LEMMA TurnAnchor ==
    ASSUME Inv, Inv', TurnsInv, OneAtATime, NEW p \in Requests, AnchorRoot(p)
    PROVE  TurnsInv'
<1>0. PICK r \in RequestState : r = req[p]
  BY DEF Inv, TypeOK
<1>1. /\ r.op = "release" /\ r.pc = "anchor" /\ GoodTurn(r) /\ UNCHANGED <<rows, app>>
      /\ Moves(r, req'[p], "persist")
  BY <1>0, Moved DEF AnchorRoot, At, TurnsInv, Inv
<1>2. \A n \in RequestState : n = req'[p] => GoodTurn(n)'
  BY <1>1 DEF GoodTurn, Moves
<1>3. req'[p].pc \in Written /\ req'[p].session = req[p].session
  BY <1>0, <1>1 DEF Moves, Written
<1> QED BY <1>1, <1>2, <1>3, TurnKept

\* What a recorded copy says of the application agrees with it.
LEMMA RecordAgrees ==
    ASSUME NEW op \in DOMAIN StatusAfter, NEW row \in Row, NEW c \in Contract!AppState,
           Midway(op, row, c), CanRecord(op, Load(row)), op # "deploy",
           NEW a \in Apps, NEW e \in Escrow, e = Record(op, Load(row), a)
    PROVE  Agree(Store(e), c.status, c.frozen)
<1>1. /\ Load(row).status = IF row.frozen THEN "FROZEN" ELSE row.status
      /\ Load(row).frozen = row.frozen /\ Load(row) \in Escrow /\ row.frozen \in BOOLEAN
  BY Loaded DEF Row
<1>2. /\ e.status = StatusAfter[op]
      /\ op = "freeze" => e.frozen = TRUE
      /\ op # "freeze" => e.frozen = FALSE
  <2>1. e.status = StatusAfter[op]
    BY <1>1, Recorded
  <2>2. op = "freeze" => e.frozen = TRUE
    BY <1>1, FlagSet
  <2>3. op \in AllCalls
    BY DEF StatusAfter, AllCalls
  <2>4. op # "freeze" => e.frozen = FALSE
    BY <1>1, <2>3, FlagCleared
  <2> QED BY <2>1, <2>2, <2>4
<1>3. /\ Store(e).status = IF e.status = "FROZEN" THEN "FUNDED" ELSE e.status
      /\ e.status = "FROZEN" \/ e.frozen => Store(e).frozen = TRUE
      /\ e.status # "FROZEN" /\ ~e.frozen => Store(e).frozen = FALSE
  BY StoredFields
<1>4. c.frozen \in BOOLEAN
  BY DEF Contract!AppState
<1>5. CASE op = "fund"
  BY <1>2, <1>3, <1>4, <1>5 DEF Midway, Agree, StatusAfter, Terminal
<1>6. CASE op = "release"
  BY <1>2, <1>3, <1>6 DEF Midway, Agree, StatusAfter, Terminal
<1>7. CASE op = "refund"
  BY <1>2, <1>3, <1>7 DEF Midway, Agree, StatusAfter, Terminal
<1>8. CASE op = "freeze"
  <2>1. row.status \notin Terminal /\ ~row.frozen
    BY <1>1, <1>8 DEF CanRecord, CanRecordFreeze, Terminal
  <2>2. c.status \notin Terminal /\ c.frozen = TRUE
    BY <1>8, <2>1 DEF Midway, Agree
  <2> QED BY <1>2, <1>3, <1>8, <2>2 DEF Agree, StatusAfter, Terminal
<1>9. CASE op = "unfreeze"
  <2>1. row.frozen
    BY <1>1, <1>9 DEF CanRecord, CanRecordUnfreeze
  <2>2. c.status \notin Terminal /\ c.frozen = FALSE
    BY <1>9, <2>1 DEF Midway, Agree
  <2> QED BY <1>2, <1>3, <1>9, <2>2 DEF Agree, StatusAfter, Terminal
<1> QED BY <1>5, <1>6, <1>7, <1>8, <1>9 DEF StatusAfter

\* When the aggregate refuses, the row was right already.
LEMMA RefusalAgrees ==
    ASSUME NEW op \in {"fund", "release", "refund", "freeze", "unfreeze"},
           NEW row \in Row, NEW c \in Contract!AppState,
           Midway(op, row, c), ~CanRecord(op, Load(row))
    PROVE  Agree(row, c.status, c.frozen)
<1>1. /\ Load(row).status = IF row.frozen THEN "FROZEN" ELSE row.status
      /\ Load(row).frozen = row.frozen /\ row.frozen \in BOOLEAN /\ row.status \in RowStatus
      /\ c.frozen \in BOOLEAN
  BY Loaded DEF Row, Contract!AppState
<1>2. CASE op = "fund"
  BY <1>1, <1>2 DEF Midway, Agree, CanRecord, CanRecordFunding, RowStatus, Terminal
<1>3. CASE op = "release"
  BY <1>1, <1>3 DEF Midway, CanRecord, CanRecordRelease
<1>4. CASE op = "refund"
  BY <1>1, <1>4 DEF Midway, CanRecord, CanRecordRefund
<1>5. CASE op = "freeze"
  BY <1>1, <1>5 DEF Midway, Agree, CanRecord, CanRecordFreeze, Terminal
<1>6. CASE op = "unfreeze"
  BY <1>1, <1>6 DEF Midway, Agree, CanRecord, CanRecordUnfreeze, Terminal
<1> QED BY <1>2, <1>3, <1>4, <1>5, <1>6

LEMMA TurnPersist ==
    ASSUME Inv, Inv', TurnsInv, OneAtATime, NEW p \in Requests, Persist(p)
    PROVE  TurnsInv'
<1> USE AbsentIdsAssumption
<1>0. PICK r \in RequestState : r = req[p]
  BY DEF Inv, TypeOK
<1> DEFINE s == r.session  c == app[r.esc.app]
<1>1. /\ r.pc = "persist" /\ r.op \in AllCalls /\ s \in Sessions /\ GoodTurn(r)
      /\ r.op = "deploy" => GoodDeploy(r)
      /\ r.op # "deploy" => GoodCall(r) /\ CanRecord(r.op, r.esc)
  BY <1>0 DEF Inv, GoodRequests, GoodRequest, Persist, Idle, TurnsInv
<1>2. PICK n \in RequestState : n = req'[p]
  BY DEF Inv, TypeOK
<1>3. /\ n.pc = "write" /\ n.op = r.op /\ n.session = s /\ n.base = rows[s]
      /\ n.esc = IF r.op = "deploy" THEN r.esc ELSE Record(r.op, r.esc, r.esc.app)
      /\ UNCHANGED <<rows, app>>
  BY <1>0, <1>2, Persisted
<1>4. Agree(Store(n.esc), c.status, c.frozen) /\ n.esc.app = r.esc.app
  <2>1. CASE r.op = "deploy"
    <3>1. /\ n.esc = r.esc /\ r.esc \in Escrow /\ r.esc.status = "DEPLOYED"
          /\ c.status = "DEPLOYED" /\ c.frozen = FALSE /\ r.esc.frozen = FALSE
      BY <1>1, <1>3, <2>1 DEF GoodDeploy, GoodTurn, RequestState
    <3>2. Store(r.esc).status = "DEPLOYED" /\ Store(r.esc).frozen = FALSE
      BY <3>1, StoredFields
    <3> QED BY <3>1, <3>2 DEF Agree, Terminal
  <2>2. CASE r.op # "deploy"
    <3>1. r.op \in DOMAIN StatusAfter
      BY <1>1, <2>2 DEF CanRecord, StatusAfter
    <3>2. r.esc = Load(rows[s]) /\ Midway(r.op, rows[s], c)
      BY <1>1, <2>2 DEF GoodTurn
    <3>3. r.esc.app \in Apps /\ rows[s].app = r.esc.app /\ r.esc \in Escrow
      BY <1>1, <2>2 DEF GoodCall, RequestState
    <3>4. rows[s] \in Row /\ c \in Contract!AppState
      BY <1>1, <3>3 DEF Inv, TypeOK, Contract!TypeOK, NoRow
    <3>5. PICK e \in Escrow : e = Record(r.op, r.esc, r.esc.app) /\ e.app = r.esc.app
      BY <3>1, <3>3, Recorded
    <3>6. Agree(Store(e), c.status, c.frozen)
      BY <1>1, <2>2, <3>1, <3>2, <3>3, <3>4, <3>5, RecordAgrees
    <3> QED BY <1>3, <2>2, <3>5, <3>6
  <2> QED BY <2>1, <2>2
<1>5. GoodTurn(n)'
  BY <1>1, <1>3, <1>4 DEF GoodTurn, Agree
<1>6. req'[p].pc \in Written /\ req'[p].session = req[p].session
  BY <1>0, <1>2, <1>3 DEF Written
<1> QED BY <1>2, <1>3, <1>5, <1>6, TurnKept

LEMMA TurnRefused ==
    ASSUME Inv, Inv', TurnsInv, OneAtATime, NEW p \in Requests, RecordRejects(p)
    PROVE  TurnsInv'
<1> USE AbsentIdsAssumption
<1>0. PICK r \in RequestState : r = req[p]
  BY DEF Inv, TypeOK
<1> DEFINE s == r.session  c == app[r.esc.app]
<1>1. /\ r.pc = "persist" /\ r.op \in AllCalls \ {"deploy"} /\ s \in Sessions
      /\ GoodTurn(r) /\ GoodCall(r) /\ ~CanRecord(r.op, r.esc)
      /\ UNCHANGED <<rows, app>> /\ Done(p)
  BY <1>0 DEF Inv, GoodRequests, GoodRequest, RecordRejects, Idle, TurnsInv
<1>2. /\ r.esc = Load(rows[s]) /\ Midway(r.op, rows[s], c)
      /\ r.op \in {"fund", "release", "refund", "freeze", "unfreeze"}
  BY <1>1 DEF GoodTurn, AllCalls
<1>3. r.esc.app \in Apps /\ rows[s].app = r.esc.app
  BY <1>1 DEF GoodCall
<1>4. rows[s] \in Row /\ c \in Contract!AppState
  BY <1>1, <1>3 DEF Inv, TypeOK, Contract!TypeOK, NoRow
<1>5. Agree(rows[s], c.status, c.frozen)
  BY <1>1, <1>2, <1>4, RefusalAgrees
<1>6. req'[p] = Idle
  BY <1>1, Finished DEF Inv
<1> QED BY <1>0, <1>1, <1>3, <1>5, <1>6, TurnKept, IdleTurn DEF Inv

LEMMA TurnWrite ==
    ASSUME Inv, Inv', TurnsInv, OneAtATime, NEW p \in Requests, Write(p)
    PROVE  TurnsInv'
<1> USE AbsentIdsAssumption
<1>0. PICK r \in RequestState : r = req[p]
  BY DEF Inv, TypeOK
<1> DEFINE s == r.session  c == app[r.esc.app]
<1>1. /\ r.pc = "write" /\ r.op \in AllCalls /\ s \in Sessions /\ GoodTurn(r)
      /\ r.esc.app \in Apps /\ r.esc \in Escrow
  BY <1>0 DEF Inv, GoodRequests, GoodRequest, GoodDeploy, GoodCall, Write, Idle,
              TurnsInv, RequestState
<1>2. /\ r.op # "signed_fund" /\ r.base = rows[s]
      /\ Agree(Store(r.esc), c.status, c.frozen)
  BY <1>1 DEF GoodTurn
<1>3. PICK st : st = Store(r.esc)
  OBVIOUS
<1>4. PICK new : new = Overlay(rows[s], r.base, st)
  OBVIOUS
<1>5. new.app = st.app /\ new.status = st.status /\ new.frozen = st.frozen
  BY <1>2, <1>4, Overlaid
<1>6. rows' = [rows EXCEPT ![s] = new] /\ MoveTo(p, "publish") /\ UNCHANGED app
  BY <1>0, <1>1, <1>3, <1>4 DEF Write, Inv, TypeOK
<1>7. /\ rows'[s] = new /\ \A x \in Sessions \ {s} : rows'[x] = rows[x]
      /\ Moves(r, req'[p], "publish")
  BY <1>0, <1>1, <1>6, Moved DEF Inv, TypeOK
<1>8. st.app = r.esc.app
  BY <1>1, <1>3, StoredFields
<1>9. Agree(rows[s], app[rows[s].app].status, app[rows[s].app].frozen)'
  <2>1. Agree(new, c.status, c.frozen)
    BY <1>2, <1>3, <1>5 DEF Agree
  <2>2. rows'[s] = new /\ app'[rows'[s].app] = c
    BY <1>5, <1>6, <1>7, <1>8
  <2> QED BY <2>1, <2>2 DEF Agree
<1>10. \A n \in RequestState : n = req'[p] => GoodTurn(n)'
  BY <1>2, <1>7 DEF GoodTurn, Moves
<1> QED BY <1>0, <1>1, <1>6, <1>7, <1>9, <1>10, TurnStep

LEMMA NextTurns ==
    ASSUME Inv, Inv', TurnsInv, OneAtATime, "signed_fund" \notin Calls,
           Faults = FALSE, [Next]_vars
    PROVE  TurnsInv'
<1>1. CASE UNCHANGED vars
  <2>1. \A s \in Sessions : Unsettled(s)' => Unsettled(s)
    BY <1>1 DEF vars, Unsettled
  <2>2. ASSUME NEW s \in Sessions, ~Unsettled(s)', rows'[s].app # NoApp
        PROVE  Agree(rows[s], app[rows[s].app].status, app[rows[s].app].frozen)'
    <3>1. ~Unsettled(s)
      BY <1>1, <2>2 DEF vars, Unsettled
    <3> QED BY <1>1, <2>2, <3>1 DEF vars, TurnsInv, Agree
  <2>3. ASSUME NEW p \in Requests, NEW r \in RequestState, r = req'[p] PROVE GoodTurn(r)'
    BY <1>1, <2>3 DEF vars, TurnsInv, GoodTurn, Agree
  <2> QED BY <2>2, <2>3 DEF TurnsInv
<1>2. ASSUME NEW p \in Requests, Start(p) PROVE TurnsInv'
  BY <1>2, TurnStart
<1>3. ASSUME NEW p \in Requests, Progress(p) PROVE TurnsInv'
  <2>1. CASE InsertRow(p)
    BY <2>1, TurnInsert
  <2>2. CASE DeployOnChain(p)
    BY <2>2, TurnDeploy
  <2>3. CASE \/ FundOnChain(p) \/ ReleaseOnChain(p) \/ RefundOnChain(p)
             \/ FreezeOnChain(p) \/ UnfreezeOnChain(p)
    BY <2>3, TurnGateway
  <2>4. CASE SignedFundOnChain(p)
    <3>1. \A r \in RequestState : r = req[p] => r.op # "signed_fund"
      BY DEF TurnsInv, GoodTurn
    <3> QED BY <2>4, <3>1 DEF SignedFundOnChain, At, Inv, TypeOK
  <2>5. CASE ContractRejects(p) \/ Publish(p)
    BY <2>5, TurnDone
  <2>6. CASE AnchorRoot(p)
    BY <2>6, TurnAnchor
  <2>7. CASE Persist(p)
    BY <2>7, TurnPersist
  <2>8. CASE Write(p)
    BY <2>8, TurnWrite
  <2>9. CASE RecordRejects(p)
    BY <2>9, TurnRefused
  <2> QED BY <1>3, <2>1, <2>2, <2>3, <2>4, <2>5, <2>6, <2>7, <2>8, <2>9 DEF Progress
<1>4. \A p \in Requests : ~Abandon(p)
  BY DEF Abandon
<1> QED BY <1>1, <1>2, <1>3, <1>4 DEF Next

\* Requests that run one at a time and to their end leave the row and the contract
\* agreeing on whether and how the trade ended, whatever freezes and unfreezes the
\* two sides judge differently.
THEOREM OutcomesAreRecorded ==
    ASSUME OneAtATime, "signed_fund" \notin Calls, Faults = FALSE
    PROVE  Spec => []OutcomeIsRecorded
<1>1. Init => TurnsInv
  BY InitTurns
<1>2. Inv /\ Inv' /\ TurnsInv /\ [Next]_vars => TurnsInv'
  BY NextTurns
<1>3. Inv /\ TurnsInv => OutcomeIsRecorded
  <2> SUFFICES ASSUME Inv, TurnsInv, Quiet, NEW s \in Sessions, rows[s].app # NoApp,
                      NEW o \in Terminal
               PROVE  rows[s].status = o <=> app[rows[s].app].status = o
    BY DEF OutcomeIsRecorded, Terminal
  <2>1. ~Unsettled(s)
    BY DEF Unsettled, Quiet, Idle, Written
  <2>2. Agree(rows[s], app[rows[s].app].status, app[rows[s].app].frozen)
    BY <2>1 DEF TurnsInv
  <2>3. /\ rows[s].app \in Apps /\ app[rows[s].app].status # "ABSENT"
    BY NamedExists
  <2>4. app[rows[s].app].status \in {"DEPLOYED", "FUNDED"} \cup Terminal
    BY <2>3 DEF Inv, TypeOK, Contract!TypeOK, Contract!AppState, Contract!Status, Terminal
  <2> QED BY <2>2, <2>4 DEF Agree
<1> QED BY <1>1, <1>2, <1>3, SettlementInvariant, PTL DEF Spec

=============================================================================
