--------------------------- MODULE AccountsProofs ---------------------------
(***************************************************************************)
(* Proofs about the identity context, for any enterprises, keys, workers   *)
(* and bound, and however the session of an administrator's request ends.  *)
(***************************************************************************)
EXTENDS Accounts, TLAPS

RowColumns == {"kyc", "docs", "wallet", "config"}

Editing == {"submit", "config", "link"}

\* A request whose copy is of a row that is there, with a wallet that is proven.
Fit(r) ==
    /\ r.op \notin {"none", "register"} => r.of \in Enterprises /\ row[r.of] # None
    /\ r.op = "register" => r.of \in Enterprises /\ row[r.of] = None /\ r.role \in Roles
    /\ r.op \in Editing => r.new \in EnterpriseRow /\ r.new.wallet \in proven[r.of] \cup {None}
    /\ r.op = "login" => r.new \in UserRow
    /\ r.op = "verify" =>
          /\ r.addr \in Addresses /\ r.valid \in BOOLEAN
          /\ r.valid = TRUE => r.addr \in proven[r.of]
    /\ r.op = "admin kyc" => r.kyc \in KycStatus
    /\ r.op = "admin user" => r.active \in BOOLEAN

\* Who registers an enterprise is the only request of it.
Alone ==
    \A p, q \in Workers :
        request[p].op = "register" /\ request[q].op # "none"
            /\ request[q].of = request[p].of => p = q

Holds(r, e) == r.op \in Editing \cup {"admin kyc"} /\ r.of = e

\* A copy that differs from its row in the operation's own columns alone, and
\* that will be compared with that very row.
Current(r, e) ==
    r.op \in Editing =>
        /\ \A c \in RowColumns \ Columns(r.op) : r.new[c] = row[e][c]
        /\ r.pc = "update" => r.base = row[e]

\* Until two requests overlap one at most holds a copy, and a current one.
Tidy(e) ==
    kept[e] # None =>
        /\ row[e] = kept[e]
        /\ \A p, q \in Workers : Holds(request[p], e) /\ Holds(request[q], e) => p = q
        /\ \A p \in Workers : Holds(request[p], e) => Current(request[p], e)

AccountsInv ==
    /\ row \in [Enterprises -> EnterpriseRow \cup {None}]
    /\ user \in [Enterprises -> UserRow \cup {None}]
    /\ DOMAIN kept = Enterprises /\ DOMAIN request = Workers
    /\ proven \in [Enterprises -> SUBSET Addresses]
    /\ RegistrationIsConsistent
    /\ WalletIsProven
    /\ \A p \in Workers : Fit(request[p])
    /\ Alone
    /\ \A e \in Enterprises : Tidy(e)

----------------------------------------------------------------------------
(* Lemmas about the operators. *)

LEMMA IdleOp == Idle.op = "none"
BY DEF Idle

LEMMA NewRowIsRow == NewRow \in EnterpriseRow /\ NewRow.wallet = None
BY DEF NewRow, EnterpriseRow, KycStatus

\* Two rows with equal columns are equal.
LEMMA SameColumns ==
    ASSUME NEW n \in EnterpriseRow, NEW m, m = [c \in RowColumns |-> m[c]],
           \A c \in RowColumns : m[c] = n[c]
    PROVE  m = n
<1>1. n = [c \in RowColumns |-> n[c]]
  BY DEF EnterpriseRow, RowColumns
<1> QED BY <1>1

LEMMA ColumnsOfRow ==
    ASSUME NEW n \in EnterpriseRow
    PROVE  DOMAIN n = RowColumns /\ n = [c \in RowColumns |-> n[c]]
BY DEF EnterpriseRow, RowColumns

\* A write leaves a row, with the wallet of the copy or of the row before it;
\* and where nothing was committed in between, it leaves the copy.
LEMMA OverlayIsRow ==
    ASSUME NEW now \in EnterpriseRow, NEW new \in EnterpriseRow, NEW base
    PROVE  /\ Overlay(now, base, new) \in EnterpriseRow
           /\ Overlay(now, base, new).wallet \in {now.wallet, new.wallet}
           /\ base = now => Overlay(now, base, new) = new
<1>1. DOMAIN now = RowColumns /\ DOMAIN new = RowColumns
      /\ new = [c \in RowColumns |-> new[c]]
  BY ColumnsOfRow
<1>2. PICK m : m = Overlay(now, base, new)
  OBVIOUS
<1>3. m = [c \in RowColumns |-> IF new[c] # base[c] THEN new[c] ELSE now[c]]
  BY <1>1, <1>2 DEF Overlay
<1>4. \A c \in RowColumns : m[c] = new[c] \/ m[c] = now[c]
  BY <1>3
<1>5. PICK k : k = [kyc |-> m["kyc"], docs |-> m["docs"], wallet |-> m["wallet"],
                    config |-> m["config"]]
  OBVIOUS
<1>6. k \in EnterpriseRow
  BY <1>4, <1>5 DEF EnterpriseRow, RowColumns
<1>7. \A c \in RowColumns : m[c] = k[c]
  BY <1>5 DEF RowColumns
<1>8. m = k
  BY <1>3, <1>6, <1>7, SameColumns
<1>9. m.wallet \in {now.wallet, new.wallet}
  BY <1>4 DEF RowColumns
<1>10. ASSUME base = now PROVE m = new
  <2>1. \A c \in RowColumns : m[c] = new[c]
    BY <1>3, <1>10
  <2> QED BY <1>3, <2>1, SameColumns
<1> QED BY <1>2, <1>6, <1>8, <1>9, <1>10

\* What is noted of a write is what the row becomes, when it was the row before.
LEMMA StampIsWritten ==
    ASSUME DOMAIN kept = Enterprises, NEW e \in Enterprises, NEW n \in EnterpriseRow,
           NEW columns, kept[e] # None => row[e] = kept[e] /\ row[e] \in EnterpriseRow,
           kept[e] # None => \A c \in RowColumns \ columns : n[c] = row[e][c]
    PROVE  LET k == Stamp(e, n, columns)
           IN  /\ DOMAIN k = Enterprises
               /\ \A d \in Enterprises \ {e} : k[d] = kept[d]
               /\ k[e] # None => kept[e] # None /\ k[e] = n
<1>1. CASE kept[e] = None
  BY <1>1 DEF Stamp
<1>2. CASE kept[e] # None
  <2>1. PICK m : m = [c \in DOMAIN kept[e] |-> IF c \in columns THEN n[c] ELSE kept[e][c]]
    OBVIOUS
  <2>2. DOMAIN kept[e] = RowColumns /\ kept[e] = row[e]
    BY <1>2, ColumnsOfRow
  <2>3. m = [c \in RowColumns |-> IF c \in columns THEN n[c] ELSE row[e][c]]
    BY <2>1, <2>2
  <2>4. \A c \in RowColumns : m[c] = n[c]
    BY <1>2, <2>3
  <2>5. m = n
    BY <2>3, <2>4, SameColumns
  <2>6. Stamp(e, n, columns) = [kept EXCEPT ![e] = m]
    BY <1>2, <2>1 DEF Stamp
  <2> QED BY <1>2, <2>5, <2>6
<1> QED BY <1>1, <1>2

\* A copy noted as the only one is the only one.
LEMMA NotedOverlap ==
    ASSUME DOMAIN kept = Enterprises, NEW e \in Enterprises, NoteOverlap(e)
    PROVE  /\ DOMAIN kept' = Enterprises
           /\ \A d \in Enterprises : kept'[d] # None => kept'[d] = kept[d]
           /\ kept'[e] # None => \A q \in Workers : ~ Holds(request[q], e)
<1>1. CASE Holding(e) = {}
  <2>1. kept' = kept
    BY <1>1 DEF NoteOverlap
  <2>2. ASSUME NEW q \in Workers, Holds(request[q], e) PROVE FALSE
    <3>1. request[q].op \in {"submit", "config", "link", "admin kyc"} /\ request[q].of = e
      BY <2>2 DEF Holds, Editing
    <3>2. q \in Holding(e)
      BY <3>1 DEF Holding, InFlight
    <3> QED BY <1>1, <3>2
  <2> QED BY <2>1, <2>2
<1>2. CASE Holding(e) # {}
  <2>1. kept' = [kept EXCEPT ![e] = None]
    BY <1>2 DEF NoteOverlap
  <2> QED BY <2>1
<1> QED BY <1>1, <1>2

----------------------------------------------------------------------------
(* One request takes a step. *)

\* It takes or drops a copy, and the table of enterprises stays.
LEMMA RequestStep ==
    ASSUME AccountsInv, NEW p \in Workers, NEW r,
           request' = [request EXCEPT ![p] = r],
           row' = row,
           user' \in [Enterprises -> UserRow \cup {None}],
           \A e \in Enterprises : user'[e] = None <=> user[e] = None,
           proven' \in [Enterprises -> SUBSET Addresses],
           \A e \in Enterprises : proven[e] \subseteq proven'[e],
           DOMAIN kept' = Enterprises,
           \A e \in Enterprises : kept'[e] # None => kept'[e] = kept[e],
           Fit(r)',
           r.op = "register" =>
              \A q \in Workers : request[q].op # "none" => request[q].of # r.of,
           \A e \in Enterprises :
              kept'[e] # None /\ Holds(r, e) =>
                 /\ \A q \in Workers \ {p} : ~ Holds(request[q], e)
                 /\ Current(r, e)
    PROVE  AccountsInv'
<1>1. /\ DOMAIN request' = Workers /\ request'[p] = r
      /\ \A q \in Workers \ {p} : request'[q] = request[q]
  BY DEF AccountsInv
<1>2. RegistrationIsConsistent'
  BY DEF AccountsInv, RegistrationIsConsistent
<1>3. WalletIsProven'
  BY DEF AccountsInv, WalletIsProven
<1>4. ASSUME NEW q \in Workers PROVE Fit(request[q])'
  <2>1. CASE q = p
    BY <1>1, <2>1 DEF Fit
  <2>2. CASE q # p
    <3>1. request'[q] = request[q] /\ Fit(request[q])
      BY <1>1, <2>2 DEF AccountsInv
    <3> QED BY <3>1 DEF Fit, Editing
  <2> QED BY <2>1, <2>2
<1>5. Alone'
  <2> SUFFICES ASSUME NEW q \in Workers, NEW s \in Workers, request'[q].op = "register",
                      request'[s].op # "none", request'[s].of = request'[q].of
               PROVE  q = s
    BY DEF Alone
  <2>1. CASE q = p
    BY <1>1, <2>1
  <2>2. CASE q # p
    <3>1. request'[q] = request[q] /\ row[request[q].of] = None
      BY <1>1, <2>2 DEF AccountsInv, Fit
    <3>2. CASE s = p
      <4>1. r.op = "register"
        BY <1>1, <3>1, <3>2 DEF Fit
      <4> QED BY <1>1, <3>1, <3>2, <4>1
    <3>3. CASE s # p
      BY <1>1, <3>1, <3>3 DEF AccountsInv, Alone
    <3> QED BY <3>2, <3>3
  <2> QED BY <2>1, <2>2
<1>6. ASSUME NEW e \in Enterprises, kept'[e] # None
      PROVE  /\ row'[e] = kept'[e]
             /\ \A q, s \in Workers : Holds(request'[q], e) /\ Holds(request'[s], e) => q = s
             /\ \A q \in Workers : Holds(request'[q], e) =>
                   Current(request'[q], e)
  <2>1. Tidy(e) /\ kept[e] = kept'[e]
    BY <1>6 DEF AccountsInv
  <2>2. \A q \in Workers \ {p} : Holds(request'[q], e) => Holds(request[q], e) /\ ~ Holds(r, e)
    BY <1>1, <1>6
  <2>3. ASSUME NEW q \in Workers, Holds(request'[q], e) PROVE Current(request'[q], e)
    <3>1. CASE q = p
      BY <1>1, <1>6, <2>3, <3>1
    <3>2. CASE q # p
      BY <1>1, <1>6, <2>1, <2>3, <3>2 DEF Tidy
    <3> QED BY <3>1, <3>2
  <2> QED BY <1>1, <1>6, <2>1, <2>2, <2>3 DEF Tidy
<1>7. ASSUME NEW e \in Enterprises PROVE Tidy(e)'
  <2>1. \A q \in Workers : Holds(request'[q], e) =>
           (Holds(request[q], e)' /\ (Current(request'[q], e) => Current(request[q], e)'))
    BY DEF Holds, Current
  <2>2. \A q \in Workers : Holds(request[q], e)' => Holds(request'[q], e)
    BY DEF Holds
  <2> QED BY <1>6, <2>1, <2>2 DEF Tidy
<1> QED BY <1>1, <1>2, <1>3, <1>4, <1>5, <1>7 DEF AccountsInv

\* It writes the row of an enterprise that is there, and is done.
LEMMA WriteStep ==
    ASSUME AccountsInv, AccountsAssumption, NEW p \in Workers, NEW e \in Enterprises,
           NEW n \in EnterpriseRow,
           request' = [request EXCEPT ![p] = Idle], row[e] # None,
           row' = [row EXCEPT ![e] = n], user' = user, proven' = proven,
           n.wallet \in proven[e] \cup {None},
           DOMAIN kept' = Enterprises, \A d \in Enterprises \ {e} : kept'[d] = kept[d],
           kept'[e] # None =>
              kept'[e] = n /\ \A q \in Workers \ {p} : ~ Holds(request[q], e)
    PROVE  AccountsInv'
<1>0. n # None
  BY DEF AccountsAssumption
<1>1. /\ DOMAIN request' = Workers /\ request'[p].op = "none"
      /\ \A q \in Workers \ {p} : request'[q] = request[q]
  BY IdleOp DEF AccountsInv
<1>2. /\ row' \in [Enterprises -> EnterpriseRow \cup {None}] /\ row'[e] = n
      /\ \A d \in Enterprises \ {e} : row'[d] = row[d]
      /\ \A d \in Enterprises : row'[d] = None <=> row[d] = None
  BY <1>0 DEF AccountsInv
<1>3. RegistrationIsConsistent'
  BY <1>2 DEF AccountsInv, RegistrationIsConsistent
<1>4. WalletIsProven'
  BY <1>2 DEF AccountsInv, WalletIsProven
<1>5. ASSUME NEW q \in Workers PROVE Fit(request[q])'
  <2>1. CASE q = p
    BY <1>1, <2>1 DEF Fit, Editing
  <2>2. CASE q # p
    <3>1. request'[q] = request[q] /\ Fit(request[q])
      BY <1>1, <2>2 DEF AccountsInv
    <3> QED BY <1>2, <3>1 DEF Fit
  <2> QED BY <2>1, <2>2
<1>6. Alone'
  BY <1>1 DEF AccountsInv, Alone
<1>7. ASSUME NEW d \in Enterprises, kept'[d] # None PROVE Tidy(d)'
  <2>1. ~ Holds(request[p], d)'
    BY <1>1 DEF Holds, Editing
  <2>2. CASE d = e
    <3>1. ASSUME NEW q \in Workers PROVE ~ Holds(request[q], e)'
      BY <1>1, <1>7, <2>1, <2>2 DEF Holds
    <3> QED BY <1>2, <1>7, <2>2, <3>1 DEF Tidy
  <2>3. CASE d # e
    <3>1. Tidy(d) /\ kept'[d] = kept[d] /\ row'[d] = row[d]
      BY <1>2, <1>7, <2>3 DEF AccountsInv
    <3>2. ASSUME NEW q \in Workers, Holds(request[q], d)'
          PROVE  Holds(request[q], d) /\ (Current(request[q], d) => Current(request[q], d)')
      <4>1. q # p /\ request'[q] = request[q]
        BY <1>1, <2>1, <3>2
      <4> QED BY <3>1, <3>2, <4>1 DEF Holds, Current
    <3> QED BY <1>7, <3>1, <3>2 DEF Tidy
  <2> QED BY <2>2, <2>3
<1>8. \A d \in Enterprises : Tidy(d)'
  BY <1>7 DEF Tidy
<1> QED BY <1>1, <1>2, <1>3, <1>4, <1>5, <1>6, <1>8 DEF AccountsInv

----------------------------------------------------------------------------
(* The actions. *)

\* A request that was there before and is given up, or done without a write.
LEMMA DropStep ==
    ASSUME AccountsInv, NEW p \in Workers, request' = [request EXCEPT ![p] = Idle],
           UNCHANGED <<row, user, kept, proven>>
    PROVE  AccountsInv'
<1>1. PICK r : r = Idle
  OBVIOUS
<1>2. r.op = "none" /\ Fit(r)' /\ \A e \in Enterprises : ~ Holds(r, e)
  BY <1>1, IdleOp DEF Fit, Holds, Editing
<1>3. \A e \in Enterprises : (user'[e] = None <=> user[e] = None) /\ proven[e] \subseteq proven'[e]
  OBVIOUS
<1>4. DOMAIN kept' = Enterprises /\ \A e \in Enterprises : kept'[e] # None => kept'[e] = kept[e]
  BY DEF AccountsInv
<1>5. /\ user' \in [Enterprises -> UserRow \cup {None}]
      /\ proven' \in [Enterprises -> SUBSET Addresses]
  BY DEF AccountsInv
<1> QED BY <1>1, <1>2, <1>3, <1>4, <1>5, RequestStep

LEMMA CheckUniqueStep ==
    ASSUME AccountsInv, NEW p \in Workers, NEW e \in Enterprises, CheckUnique(p, e)
    PROVE  AccountsInv'
<1>1. PICK role \in Roles :
         request' = [request EXCEPT ![p] = [op |-> "register", of |-> e, role |-> role]]
  BY DEF CheckUnique
<1>2. PICK r : r = [op |-> "register", of |-> e, role |-> role]
  OBVIOUS
<1>3. row[e] = None /\ InFlight(e) = {} /\ UNCHANGED <<row, user, kept, proven>>
  BY DEF CheckUnique
<1>4. r.op = "register" /\ r.of = e /\ r.role = role
  BY <1>2
<1>5. Fit(r)' /\ \A d \in Enterprises : ~ Holds(r, d)
  BY <1>3, <1>4 DEF Fit, Holds, Editing
<1>6. \A q \in Workers : request[q].op # "none" => request[q].of # r.of
  BY <1>3, <1>4 DEF InFlight
<1>7. /\ user' \in [Enterprises -> UserRow \cup {None}]
      /\ proven' \in [Enterprises -> SUBSET Addresses] /\ DOMAIN kept' = Enterprises
  BY <1>3 DEF AccountsInv
<1>8. request' = [request EXCEPT ![p] = r]
  BY <1>1, <1>2
<1> QED BY <1>3, <1>5, <1>6, <1>7, <1>8, RequestStep

LEMMA InsertBothStep ==
    ASSUME AccountsInv, AccountsAssumption, NEW p \in Workers, InsertBoth(p)
    PROVE  AccountsInv'
<1>1. PICK e : e = request[p].of
  OBVIOUS
<1>2. e \in Enterprises /\ request[p].op = "register" /\ row[e] = None /\ request[p].role \in Roles
  BY <1>1 DEF InsertBoth, AccountsInv, Fit
<1>3. request' = [request EXCEPT ![p] = Idle] /\ proven' = proven
  BY DEF InsertBoth
<1>4. CASE ~ (Unique(e, {"pan", "gstin"}) /\ Unique(e, {"email"}))
  <2>1. UNCHANGED <<row, user, kept>>
    BY <1>1, <1>4 DEF InsertBoth
  <2> QED BY <1>3, <2>1, DropStep
<1>5. CASE Unique(e, {"pan", "gstin"}) /\ Unique(e, {"email"})
  <2>1. PICK u : u = [active |-> TRUE, role |-> request[p].role]
    OBVIOUS
  <2>20. u \in UserRow
    BY <1>2, <2>1 DEF UserRow
  <2>2. u \in UserRow /\ u # None
    BY <2>20 DEF AccountsAssumption
  <2>3. NewRow # None
    BY NewRowIsRow DEF AccountsAssumption
  <2>4. /\ row' = [row EXCEPT ![e] = NewRow] /\ user' = [user EXCEPT ![e] = u]
        /\ kept' = [kept EXCEPT ![e] = row'[e]]
    BY <1>1, <1>5, <2>1 DEF InsertBoth
  <2>5. /\ row' \in [Enterprises -> EnterpriseRow \cup {None}]
        /\ user' \in [Enterprises -> UserRow \cup {None}]
        /\ DOMAIN kept' = Enterprises /\ row'[e] = NewRow /\ user'[e] = u /\ kept'[e] = NewRow
        /\ \A d \in Enterprises \ {e} : row'[d] = row[d] /\ user'[d] = user[d] /\ kept'[d] = kept[d]
    BY <1>2, <2>2, <2>4, NewRowIsRow DEF AccountsInv
  <2>6. /\ DOMAIN request' = Workers /\ request'[p].op = "none"
        /\ \A q \in Workers \ {p} : request'[q] = request[q]
    BY <1>3, IdleOp DEF AccountsInv
  <2>7. \A q \in Workers : request'[q].op # "none" =>
           q # p /\ request'[q] = request[q] /\ request[q].of # e
    BY <1>1, <1>2, <2>6 DEF AccountsInv, Alone
  <2>8. RegistrationIsConsistent'
    <3>1. \A d \in Enterprises \ {e} :
             row[d] # None => \A c \in {"pan", "gstin", "email"} : KeyOf[d][c] # KeyOf[e][c]
      BY <1>5 DEF Unique, AccountsInv, RegistrationIsConsistent
    <3>2. \A d \in Enterprises : row'[d] = None <=> user'[d] = None
      BY <2>2, <2>3, <2>5 DEF AccountsInv, RegistrationIsConsistent
    <3>3. ASSUME NEW a \in Enterprises, row'[a] # None, NEW d \in Enterprises \ {a},
                 NEW c \in {"pan", "gstin", "email"}, row'[d] # None
          PROVE  KeyOf[d][c] # KeyOf[a][c]
      <4>1. CASE a = e
        BY <2>5, <3>1, <3>3, <4>1
      <4>2. CASE d = e
        BY <2>5, <3>1, <3>3, <4>2
      <4>3. CASE a # e /\ d # e
        BY <2>5, <3>3, <4>3 DEF AccountsInv, RegistrationIsConsistent
      <4> QED BY <4>1, <4>2, <4>3
    <3> QED BY <3>2, <3>3 DEF RegistrationIsConsistent
  <2>9. WalletIsProven'
    BY <1>3, <2>5, NewRowIsRow DEF AccountsInv, WalletIsProven
  <2>10. ASSUME NEW q \in Workers PROVE Fit(request[q])'
    <3>1. CASE request'[q].op = "none"
      BY <3>1 DEF Fit, Editing
    <3>2. CASE request'[q].op # "none"
      <4>1. request'[q] = request[q] /\ request[q].of # e /\ Fit(request[q])
        BY <2>7, <3>2 DEF AccountsInv
      <4> QED BY <1>3, <2>5, <3>2, <4>1 DEF Fit, Editing
    <3> QED BY <3>1, <3>2
  <2>11. Alone'
    BY <2>7 DEF AccountsInv, Alone
  <2>12. ASSUME NEW d \in Enterprises PROVE Tidy(d)'
    <3>1. \A q \in Workers : Holds(request[q], d)' =>
             d # e /\ request'[q] = request[q] /\ Holds(request[q], d)
      BY <2>7 DEF Holds, Editing
    <3>2. CASE d = e
      BY <2>5, <3>1, <3>2 DEF Tidy
    <3>3. CASE d # e
      <4>1. Tidy(d) /\ row'[d] = row[d] /\ kept'[d] = kept[d]
        BY <2>5, <3>3 DEF AccountsInv
      <4>2. \A q \in Workers :
               Holds(request[q], d)' /\ Current(request[q], d) => Current(request[q], d)'
        BY <3>1, <4>1 DEF Current
      <4> QED BY <3>1, <4>1, <4>2 DEF Tidy
    <3> QED BY <3>2, <3>3
  <2> QED BY <1>3, <2>5, <2>6, <2>8, <2>9, <2>10, <2>11, <2>12 DEF AccountsInv
<1> QED BY <1>4, <1>5

\* What each operation makes of a copy.
LEMMA ResultsAreRows ==
    ASSUME AccountsAssumption, NEW copy \in EnterpriseRow, NEW op \in Editing,
           NEW a \in Addresses \cup {None}, NEW new \in Results(op, copy, a)
    PROVE  /\ new \in EnterpriseRow
           /\ new.wallet = copy.wallet \/ (op = "link" /\ new.wallet = a)
           /\ \A c \in RowColumns \ Columns(op) : new[c] = copy[c]
<1>1. CASE op = "submit"
  <2>1. new = [copy EXCEPT !.kyc = "KYC_SUBMITTED", !.docs = TRUE]
    BY <1>1 DEF Results, SubmitKyc
  <2>2. PICK half : half = [copy EXCEPT !.kyc = "KYC_SUBMITTED"]
    OBVIOUS
  <2>3. new = [half EXCEPT !.docs = TRUE]
    BY <2>1, <2>2
  <2>4. half \in EnterpriseRow /\ \A c \in RowColumns \ {"kyc"} : half[c] = copy[c]
    BY <2>2 DEF EnterpriseRow, KycStatus, RowColumns
  <2>5. new \in EnterpriseRow /\ \A c \in RowColumns \ {"docs"} : new[c] = half[c]
    BY <2>3, <2>4 DEF EnterpriseRow, RowColumns
  <2>6. new.wallet = copy.wallet
    BY <2>4, <2>5 DEF RowColumns
  <2>7. Columns(op) = {"kyc", "docs"}
    BY <1>1 DEF Columns
  <2>8. \A c \in RowColumns \ Columns(op) : new[c] = copy[c]
    BY <2>4, <2>5, <2>7
  <2> QED BY <2>5, <2>6, <2>8
<1>2. CASE op = "config"
  <2>1. PICK c \in Configs : new = [copy EXCEPT !.config = c]
    BY <1>2 DEF Results, UpdateAgentConfig
  <2>2. new \in EnterpriseRow /\ \A d \in RowColumns \ {"config"} : new[d] = copy[d]
    BY <2>1 DEF EnterpriseRow, RowColumns
  <2>3. new.wallet = copy.wallet
    BY <2>2 DEF RowColumns
  <2>4. Columns(op) = {"config"}
    BY <1>2 DEF Columns
  <2> QED BY <2>2, <2>3, <2>4
<1>3. CASE op = "link"
  <2>1. new = [copy EXCEPT !.wallet = a]
    BY <1>3 DEF Results, LinkWallet
  <2>2. new \in EnterpriseRow /\ \A d \in RowColumns \ {"wallet"} : new[d] = copy[d]
    BY <2>1 DEF EnterpriseRow, RowColumns
  <2>3. new.wallet = a
    BY <2>1 DEF EnterpriseRow
  <2> QED BY <1>3, <2>2, <2>3 DEF Columns
<1> QED BY <1>1, <1>2, <1>3 DEF Editing

\* A request that has just loaded its copy, alone or noted as overlapping.
LEMMA LoadedStep ==
    ASSUME AccountsInv, AccountsAssumption, NEW p \in Workers, NEW e \in Enterprises,
           row[e] # None, NEW op \in Editing, NEW a \in proven[e] \cup {None},
           NEW new \in Results(op, row[e], a), NoteOverlap(e),
           request' = [request EXCEPT ![p] = [op |-> op, of |-> e, pc |-> "select", new |-> new]],
           UNCHANGED <<row, user, proven>>
    PROVE  AccountsInv'
<1>1. PICK r : r = [op |-> op, of |-> e, pc |-> "select", new |-> new]
  OBVIOUS
<1>2. r.op = op /\ r.of = e /\ r.pc = "select" /\ r.new = new
  BY <1>1
<1>3. row[e] \in EnterpriseRow /\ row[e].wallet \in proven[e] \cup {None}
      /\ a \in Addresses \cup {None}
  BY DEF AccountsInv, WalletIsProven
<1>4. new \in EnterpriseRow /\ new.wallet \in proven[e] \cup {None}
      /\ \A c \in RowColumns \ Columns(op) : new[c] = row[e][c]
  BY <1>3, ResultsAreRows
<1>5. Fit(r)'
  BY <1>2, <1>4 DEF Fit, Editing
<1>6. /\ DOMAIN kept' = Enterprises
      /\ \A d \in Enterprises : kept'[d] # None => kept'[d] = kept[d]
      /\ kept'[e] # None => \A q \in Workers : ~ Holds(request[q], e)
  BY NotedOverlap DEF AccountsInv
<1>7. Current(r, e) /\ r.op # "register" /\ \A d \in Enterprises : Holds(r, d) => d = e
  BY <1>2, <1>4 DEF Current, Holds, Editing
<1>8. /\ user' \in [Enterprises -> UserRow \cup {None}]
      /\ proven' \in [Enterprises -> SUBSET Addresses]
  BY DEF AccountsInv
<1>9. request' = [request EXCEPT ![p] = r] /\ row' = row
  BY <1>1
<1>10. \A d \in Enterprises : (user'[d] = None <=> user[d] = None) /\ proven[d] \subseteq proven'[d]
  OBVIOUS
<1>11. \A d \in Enterprises :
          kept'[d] # None /\ Holds(r, d) =>
             (\A q \in Workers \ {p} : ~ Holds(request[q], d)) /\ Current(r, d)
  BY <1>6, <1>7
<1> QED BY <1>5, <1>6, <1>7, <1>8, <1>9, <1>10, <1>11, RequestStep

LEMMA LoadStep ==
    ASSUME AccountsInv, AccountsAssumption, NEW p \in Workers, NEW e \in Enterprises, Load(p, e)
    PROVE  AccountsInv'
<1>1. PICK op \in {"submit", "config"} : \E new \in Results(op, row[e], None) :
         request' = [request EXCEPT ![p] = [op |-> op, of |-> e, pc |-> "select", new |-> new]]
  BY DEF Load
<1>2. PICK new \in Results(op, row[e], None) :
         request' = [request EXCEPT ![p] = [op |-> op, of |-> e, pc |-> "select", new |-> new]]
  BY <1>1
<1>3. row[e] # None
  BY DEF Load, Admitted, AccountsInv, RegistrationIsConsistent
<1>4. NoteOverlap(e) /\ UNCHANGED <<row, user, proven>>
  BY DEF Load
<1>5. op \in Editing /\ None \in proven[e] \cup {None}
  BY DEF Editing
<1> QED BY <1>2, <1>3, <1>4, <1>5, LoadedStep

\* A request that holds no copy of an enterprise's row goes on, or ends.
LEMMA LightStep ==
    ASSUME AccountsInv, NEW p \in Workers, NEW r,
           request' = [request EXCEPT ![p] = r],
           r.op \notin Editing \cup {"admin kyc", "register"}, Fit(r)',
           UNCHANGED <<row, user, kept>>,
           proven' \in [Enterprises -> SUBSET Addresses],
           \A e \in Enterprises : proven[e] \subseteq proven'[e]
    PROVE  AccountsInv'
<1>1. \A e \in Enterprises : ~ Holds(r, e)
  BY DEF Holds
<1>2. \A e \in Enterprises : user'[e] = None <=> user[e] = None
  OBVIOUS
<1>3. /\ user' \in [Enterprises -> UserRow \cup {None}] /\ DOMAIN kept' = Enterprises
      /\ \A e \in Enterprises : kept'[e] # None => kept'[e] = kept[e]
  BY DEF AccountsInv
<1>4. r.op # "register" /\ row' = row
  OBVIOUS
<1> QED BY <1>1, <1>2, <1>3, <1>4, RequestStep

LEMMA ReselectStep ==
    ASSUME AccountsInv, NEW p \in Workers, Reselect(p)
    PROVE  AccountsInv'
<1>1. PICK old : old = request[p]
  OBVIOUS
<1>2. /\ old.op \in Editing /\ old.pc = "select" /\ Fit(old)
      /\ old.of \in Enterprises /\ row[old.of] # None
  BY <1>1 DEF Reselect, Editing, AccountsInv, Fit
<1>3. PICK r : r = [op |-> old.op, of |-> old.of, pc |-> "update", new |-> old.new,
                    base |-> row[old.of]]
  OBVIOUS
<1>4. /\ request' = [request EXCEPT ![p] = r]
      /\ UNCHANGED <<row, user, kept, proven>>
  BY <1>1, <1>3 DEF Reselect
<1>5. r.op = old.op /\ r.of = old.of /\ r.new = old.new /\ r.base = row[old.of]
  BY <1>3
<1>6. Fit(r)'
  BY <1>2, <1>4, <1>5 DEF Fit, Editing
<1>7. r.op # "register"
  BY <1>2, <1>5 DEF Editing
<1>8. ASSUME NEW e \in Enterprises, kept'[e] # None, Holds(r, e)
      PROVE  (\A q \in Workers \ {p} : ~ Holds(request[q], e)) /\ Current(r, e)
  <2>1. Holds(request[p], e) /\ e = old.of
    BY <1>1, <1>5, <1>8 DEF Holds
  <2>2. Tidy(e) /\ kept[e] # None
    BY <1>4, <1>8 DEF AccountsInv
  <2>3. (\A q \in Workers \ {p} : ~ Holds(request[q], e)) /\ Current(old, e)
    BY <1>1, <2>1, <2>2 DEF Tidy
  <2> QED BY <1>5, <2>1, <2>3 DEF Current
<1>9. /\ user' \in [Enterprises -> UserRow \cup {None}] /\ DOMAIN kept' = Enterprises
      /\ proven' \in [Enterprises -> SUBSET Addresses]
  BY <1>4 DEF AccountsInv
<1>10. /\ \A e \in Enterprises :
             (user'[e] = None <=> user[e] = None) /\ proven[e] \subseteq proven'[e]
       /\ \A e \in Enterprises : kept'[e] # None => kept'[e] = kept[e]
  BY <1>4
<1>11. row' = row
  BY <1>4
<1> QED BY <1>4, <1>6, <1>7, <1>8, <1>9, <1>10, <1>11, RequestStep

LEMMA CommitStep ==
    ASSUME AccountsInv, AccountsAssumption, NEW p \in Workers, Commit(p)
    PROVE  AccountsInv'
<1>1. PICK r : r = request[p]
  OBVIOUS
<1>2. PICK e : e = r.of
  OBVIOUS
<1>3. r.op \in Editing /\ r.pc = "update" /\ Fit(r) /\ e \in Enterprises /\ row[e] # None
  BY <1>1, <1>2 DEF Commit, Editing, AccountsInv, Fit
<1>4. PICK n : n = Overlay(row[e], r.base, r.new)
  OBVIOUS
<1>5. /\ row' = [row EXCEPT ![e] = n] /\ kept' = Stamp(e, r.new, Columns(r.op))
      /\ request' = [request EXCEPT ![p] = Idle] /\ UNCHANGED <<user, proven>>
  BY <1>1, <1>2, <1>4 DEF Commit, AccountsInv
<1>6. row[e] \in EnterpriseRow /\ row[e].wallet \in proven[e] \cup {None}
  BY <1>3 DEF AccountsInv, WalletIsProven
<1>7. r.new \in EnterpriseRow /\ r.new.wallet \in proven[e] \cup {None}
  BY <1>2, <1>3 DEF Fit
<1>8. n \in EnterpriseRow /\ n.wallet \in proven[e] \cup {None} /\ (r.base = row[e] => n = r.new)
  BY <1>4, <1>6, <1>7, OverlayIsRow
<1>9. Holds(request[p], e)
  BY <1>1, <1>2, <1>3 DEF Holds
<1>10. ASSUME kept[e] # None
       PROVE  /\ row[e] = kept[e] /\ r.base = row[e]
              /\ \A c \in RowColumns \ Columns(r.op) : r.new[c] = row[e][c]
              /\ \A q \in Workers \ {p} : ~ Holds(request[q], e)
  <2>1. Tidy(e)
    BY <1>3 DEF AccountsInv
  <2>2. Current(r, e)
    BY <1>1, <1>9, <1>10, <2>1 DEF Tidy
  <2> QED BY <1>3, <1>9, <1>10, <2>1, <2>2 DEF Tidy, Current
<1>11. PICK k : k = Stamp(e, r.new, Columns(r.op))
  OBVIOUS
<1>12. DOMAIN kept = Enterprises
  BY DEF AccountsInv
<1>13. /\ DOMAIN k = Enterprises /\ \A d \in Enterprises \ {e} : k[d] = kept[d]
       /\ k[e] # None => kept[e] # None /\ k[e] = r.new
  <2>1. kept[e] # None => row[e] = kept[e] /\ row[e] \in EnterpriseRow
    BY <1>6, <1>10
  <2>2. kept[e] # None => \A c \in RowColumns \ Columns(r.op) : r.new[c] = row[e][c]
    BY <1>10
  <2> QED BY <1>3, <1>7, <1>11, <1>12, <2>1, <2>2, StampIsWritten
<1>14. kept'[e] # None => kept'[e] = n /\ \A q \in Workers \ {p} : ~ Holds(request[q], e)
  BY <1>5, <1>8, <1>10, <1>11, <1>13
<1>15. DOMAIN kept' = Enterprises /\ \A d \in Enterprises \ {e} : kept'[d] = kept[d]
  BY <1>5, <1>11, <1>13
<1>16. user' = user /\ proven' = proven
  BY <1>5
<1> QED BY <1>3, <1>5, <1>8, <1>14, <1>15, <1>16, WriteStep

LEMMA LoginStep ==
    ASSUME AccountsInv, NEW p \in Workers, NEW e \in Enterprises, Login(p, e)
    PROVE  AccountsInv'
<1>1. PICK r : r = [op |-> "login", of |-> e, new |-> user[e]]
  OBVIOUS
<1>2. /\ request' = [request EXCEPT ![p] = r] /\ user[e] # None
      /\ UNCHANGED <<row, user, kept, proven>>
  BY <1>1 DEF Login
<1>3. user[e] \in UserRow /\ row[e] # None
  BY <1>2 DEF AccountsInv, RegistrationIsConsistent
<1>4. Fit(r)' /\ r.op \notin Editing \cup {"admin kyc", "register"}
  BY <1>1, <1>2, <1>3 DEF Fit, Editing
<1>5. /\ proven' \in [Enterprises -> SUBSET Addresses]
      /\ \A d \in Enterprises : proven[d] \subseteq proven'[d]
  BY <1>2 DEF AccountsInv
<1> QED BY <1>2, <1>4, <1>5, LightStep

\* The user's row is written, and stays that of a user.
LEMMA UserStep ==
    ASSUME AccountsInv, AccountsAssumption, NEW p \in Workers, NEW e \in Enterprises,
           NEW u \in UserRow, row[e] # None, user' = [user EXCEPT ![e] = u],
           request' = [request EXCEPT ![p] = Idle], row' = row, proven' = proven,
           DOMAIN kept' = Enterprises,
           \A d \in Enterprises : kept'[d] # None => kept'[d] = kept[d]
    PROVE  AccountsInv'
<1>1. u # None
  BY DEF AccountsAssumption
<1>2. user[e] # None
  BY DEF AccountsInv, RegistrationIsConsistent
<1>3. /\ user' \in [Enterprises -> UserRow \cup {None}]
      /\ \A d \in Enterprises : user'[d] = None <=> user[d] = None
  BY <1>1, <1>2 DEF AccountsInv
<1>4. PICK r : r = Idle
  OBVIOUS
<1>5. Fit(r)' /\ r.op # "register" /\ \A d \in Enterprises : ~ Holds(r, d)
  BY <1>4, IdleOp DEF Fit, Holds, Editing
<1>6. /\ proven' \in [Enterprises -> SUBSET Addresses]
      /\ \A d \in Enterprises : proven[d] \subseteq proven'[d]
  BY DEF AccountsInv
<1>7. request' = [request EXCEPT ![p] = r]
  BY <1>4
<1> QED BY <1>3, <1>5, <1>6, <1>7, RequestStep

LEMMA RecordLoginStep ==
    ASSUME AccountsInv, AccountsAssumption, NEW p \in Workers, RecordLogin(p)
    PROVE  AccountsInv'
<1>1. PICK e : e = request[p].of
  OBVIOUS
<1>2. PICK u : u = request[p].new
  OBVIOUS
<1>3. e \in Enterprises /\ row[e] # None /\ u \in UserRow
  BY <1>1, <1>2 DEF RecordLogin, AccountsInv, Fit
<1>4. /\ user' = [user EXCEPT ![e] = u] /\ request' = [request EXCEPT ![p] = Idle]
      /\ UNCHANGED <<row, kept, proven>>
  BY <1>1, <1>2 DEF RecordLogin
<1>5. DOMAIN kept' = Enterprises /\ \A d \in Enterprises : kept'[d] # None => kept'[d] = kept[d]
  BY <1>4 DEF AccountsInv
<1>6. row' = row /\ proven' = proven
  BY <1>4
<1> QED BY <1>3, <1>4, <1>5, <1>6, UserStep

\* Challenges are drawn and expire beside the rows.
LEMMA ChallengeStep ==
    ASSUME AccountsInv, UNCHANGED <<row, user, request, kept, proven>>
    PROVE  AccountsInv'
<1>1. \A p \in Workers : Fit(request[p])'
  BY DEF AccountsInv, Fit
<1>2. RegistrationIsConsistent' /\ WalletIsProven' /\ Alone'
  BY DEF AccountsInv, RegistrationIsConsistent, WalletIsProven, Alone
<1>3. ASSUME NEW e \in Enterprises PROVE Tidy(e)'
  <2>1. \A q \in Workers :
           (Holds(request[q], e)' <=> Holds(request[q], e))
              /\ (Current(request[q], e)' <=> Current(request[q], e))
    BY DEF Holds, Current
  <2> QED BY <2>1 DEF AccountsInv, Tidy
<1> QED BY <1>1, <1>2, <1>3 DEF AccountsInv

\* A signature that is found valid is one over a challenge that is live, with the
\* key of the address to be linked.
LEMMA VerifyStep ==
    ASSUME AccountsInv, AccountsAssumption, NEW p \in Workers, NEW e \in Enterprises,
           NEW a \in Addresses, NEW sig \in [key : Keys, over : Challenges], Verify(p, e, a, sig)
    PROVE  AccountsInv'
<1>1. PICK ch \in Named(e) \cup Scanned(e, a) :
         request' = [request EXCEPT ![p] =
                       [op |-> "verify", of |-> e, addr |-> a, ch |-> ch,
                        valid |-> Signed(a, ch, sig)]]
  BY DEF Verify
<1>2. challenge[ch] # None
  <2>1. None \notin Enterprises
    BY DEF AccountsAssumption
  <2> QED BY <1>1, <2>1 DEF Named, Scanned
<1>3. row[e] # None /\ UNCHANGED <<row, user, kept>>
  BY DEF Verify, AccountsInv, RegistrationIsConsistent
<1>4. proven' = IF challenge[sig.over] # None
                THEN [proven EXCEPT ![e] = proven[e] \cup ({sig.key} \cap Addresses)] ELSE proven
  BY DEF Verify
<1>5. /\ proven' \in [Enterprises -> SUBSET Addresses]
      /\ \A d \in Enterprises : proven[d] \subseteq proven'[d]
  BY <1>4 DEF AccountsInv
<1>6. Signed(a, ch, sig) => a \in proven'[e]
  <2>1. proven \in [Enterprises -> SUBSET Addresses]
    BY DEF AccountsInv
  <2> QED BY <1>2, <1>4, <2>1 DEF Signed
<1>7. PICK v \in BOOLEAN : v = Signed(a, ch, sig)
  BY DEF Signed
<1>8. PICK r : r = [op |-> "verify", of |-> e, addr |-> a, ch |-> ch, valid |-> v]
  OBVIOUS
<1>9. request' = [request EXCEPT ![p] = r]
  BY <1>1, <1>7, <1>8
<1>10. v = TRUE => a \in proven'[e]
  BY <1>6, <1>7
<1>11. r.op = "verify" /\ r.of = e /\ r.addr = a /\ r.valid = v
  BY <1>8
<1>12. Fit(r)' /\ r.op \notin Editing \cup {"admin kyc", "register"}
  BY <1>3, <1>7, <1>10, <1>11 DEF Fit, Editing
<1> QED BY <1>3, <1>5, <1>9, <1>12, LightStep

LEMMA UseUpStep ==
    ASSUME AccountsInv, AccountsAssumption, NEW p \in Workers, UseUp(p)
    PROVE  AccountsInv'
<1>1. PICK r : r = request[p]
  OBVIOUS
<1>2. PICK e : e = r.of
  OBVIOUS
<1>3. /\ r.op = "verify" /\ e \in Enterprises /\ row[e] # None
      /\ r.valid \in BOOLEAN /\ (r.valid = TRUE => r.addr \in proven[e])
  BY <1>1, <1>2 DEF UseUp, AccountsInv, Fit
<1>4. UNCHANGED <<row, user, proven>>
  BY DEF UseUp
<1>5. PICK copies : copies = IF r.valid /\ user[e].role = "ADMIN"
                             THEN Results("link", row[e], r.addr) ELSE {}
  OBVIOUS
<1>6. \/ /\ NoteOverlap(e)
         /\ \E new \in copies :
              request' = [request EXCEPT ![p] =
                            [op |-> "link", of |-> e, pc |-> "select", new |-> new]]
      \/ request' = [request EXCEPT ![p] = Idle] /\ kept' = kept
  BY <1>1, <1>2, <1>5 DEF UseUp
<1>7. CASE request' = [request EXCEPT ![p] = Idle] /\ kept' = kept
  BY <1>4, <1>7, DropStep
<1>8. CASE /\ NoteOverlap(e)
           /\ \E new \in copies :
                request' = [request EXCEPT ![p] =
                              [op |-> "link", of |-> e, pc |-> "select", new |-> new]]
  <2>1. PICK new \in copies :
           request' = [request EXCEPT ![p] =
                         [op |-> "link", of |-> e, pc |-> "select", new |-> new]]
    BY <1>8
  <2>2. r.valid = TRUE /\ new \in Results("link", row[e], r.addr)
    BY <1>3, <1>5, <2>1
  <2>3. "link" \in Editing /\ r.addr \in proven[e] \cup {None}
    BY <1>3, <2>2 DEF Editing
  <2> QED BY <1>3, <1>4, <1>8, <2>1, <2>2, <2>3, LoadedStep
<1> QED BY <1>6, <1>7, <1>8

LEMMA AdminKycStep ==
    ASSUME AccountsInv, NEW p \in Workers, NEW e \in Enterprises, AdminKyc(p, e)
    PROVE  AccountsInv'
<1>1. PICK act \in KycActions :
         request' = [request EXCEPT ![p] = [op |-> "admin kyc", of |-> e, kyc |-> act.to]]
  BY DEF AdminKyc
<1>2. PICK r : r = [op |-> "admin kyc", of |-> e, kyc |-> act.to]
  OBVIOUS
<1>3. act.to \in KycStatus
  BY DEF KycActions, KycStatus
<1>4. row[e] # None /\ NoteOverlap(e) /\ UNCHANGED <<row, user, proven>>
  BY DEF AdminKyc
<1>5. r.op = "admin kyc" /\ r.of = e /\ r.kyc \in KycStatus
  BY <1>2, <1>3
<1>6. Fit(r)' /\ r.op # "register"
  BY <1>4, <1>5 DEF Fit, Editing
<1>7. /\ DOMAIN kept' = Enterprises
      /\ \A d \in Enterprises : kept'[d] # None => kept'[d] = kept[d]
      /\ kept'[e] # None => \A q \in Workers : ~ Holds(request[q], e)
  BY <1>4, NotedOverlap DEF AccountsInv
<1>8. \A d \in Enterprises : Current(r, d) /\ (Holds(r, d) => d = e)
  BY <1>5 DEF Current, Holds, Editing
<1>9. \A d \in Enterprises :
         kept'[d] # None /\ Holds(r, d) =>
            (\A q \in Workers \ {p} : ~ Holds(request[q], d)) /\ Current(r, d)
  BY <1>7, <1>8
<1>10. /\ user' \in [Enterprises -> UserRow \cup {None}]
       /\ proven' \in [Enterprises -> SUBSET Addresses]
  BY <1>4 DEF AccountsInv
<1>11. \A d \in Enterprises : (user'[d] = None <=> user[d] = None) /\ proven[d] \subseteq proven'[d]
  BY <1>4
<1>12. request' = [request EXCEPT ![p] = r] /\ row' = row
  BY <1>1, <1>2, <1>4
<1> QED BY <1>6, <1>7, <1>9, <1>10, <1>11, <1>12, RequestStep

LEMMA AdminSuspendStep ==
    ASSUME AccountsInv, NEW p \in Workers, NEW e \in Enterprises, AdminSuspend(p, e)
    PROVE  AccountsInv'
<1>1. PICK active \in BOOLEAN :
         request' = [request EXCEPT ![p] = [op |-> "admin user", of |-> e, active |-> active]]
  BY DEF AdminSuspend
<1>2. PICK r : r = [op |-> "admin user", of |-> e, active |-> active]
  OBVIOUS
<1>3. row[e] # None /\ UNCHANGED <<row, user, kept, proven>>
  BY DEF AdminSuspend, AccountsInv, RegistrationIsConsistent
<1>4. r.op = "admin user" /\ r.of = e /\ r.active \in BOOLEAN
  BY <1>2
<1>5. Fit(r)' /\ r.op \notin Editing \cup {"admin kyc", "register"}
  BY <1>3, <1>4 DEF Fit, Editing
<1>6. /\ proven' \in [Enterprises -> SUBSET Addresses]
      /\ \A d \in Enterprises : proven[d] \subseteq proven'[d]
  BY <1>3 DEF AccountsInv
<1>7. request' = [request EXCEPT ![p] = r]
  BY <1>1, <1>2
<1> QED BY <1>3, <1>5, <1>6, <1>7, LightStep

LEMMA StampOfKyc ==
    ASSUME DOMAIN kept = Enterprises, NEW e \in Enterprises, NEW n \in EnterpriseRow,
           row[e] \in EnterpriseRow, kept[e] # None => row[e] = kept[e],
           \A c \in RowColumns \ {"kyc"} : n[c] = row[e][c]
    PROVE  /\ DOMAIN Stamp(e, n, {"kyc"}) = Enterprises
           /\ \A d \in Enterprises \ {e} : Stamp(e, n, {"kyc"})[d] = kept[d]
           /\ Stamp(e, n, {"kyc"})[e] # None => kept[e] # None /\ Stamp(e, n, {"kyc"})[e] = n
BY StampIsWritten

\* The decision of an administrator on KYC reaches the row at the commit.
LEMMA AdminKycEnds ==
    ASSUME AccountsInv, AccountsAssumption, NEW p \in Workers, NEW e \in Enterprises,
           Holds(request[p], e), row[e] # None, NEW n \in EnterpriseRow,
           \A c \in RowColumns \ {"kyc"} : n[c] = row[e][c],
           row' = [row EXCEPT ![e] = n], kept' = Stamp(e, n, {"kyc"}),
           request' = [request EXCEPT ![p] = Idle], user' = user, proven' = proven
    PROVE  AccountsInv'
<1>1. row[e] \in EnterpriseRow /\ row[e].wallet \in proven[e] \cup {None}
      /\ DOMAIN kept = Enterprises
  BY DEF AccountsInv, WalletIsProven
<1>2. n.wallet \in proven[e] \cup {None}
  BY <1>1 DEF RowColumns
<1>3. kept[e] # None => row[e] = kept[e] /\ \A q \in Workers \ {p} : ~ Holds(request[q], e)
  BY DEF AccountsInv, Tidy
<1>4. /\ DOMAIN kept' = Enterprises /\ \A d \in Enterprises \ {e} : kept'[d] = kept[d]
      /\ kept'[e] # None => kept[e] # None /\ kept'[e] = n
  BY <1>1, <1>3, StampOfKyc
<1>5. kept'[e] # None => kept'[e] = n /\ \A q \in Workers \ {p} : ~ Holds(request[q], e)
  BY <1>3, <1>4
<1> QED BY <1>2, <1>4, <1>5, WriteStep

LEMMA AdminUserEnds ==
    ASSUME AccountsInv, AccountsAssumption, NEW p \in Workers, NEW e \in Enterprises,
           row[e] # None, NEW u \in UserRow, user' = [user EXCEPT ![e] = u],
           row' = row, kept' = Stamp(e, row[e], {"kyc"}),
           request' = [request EXCEPT ![p] = Idle], proven' = proven
    PROVE  AccountsInv'
<1>1. row[e] \in EnterpriseRow /\ DOMAIN kept = Enterprises
  BY DEF AccountsInv
<1>2. kept[e] # None => row[e] = kept[e]
  BY DEF AccountsInv, Tidy
<1>3. \A c \in RowColumns \ {"kyc"} : row[e][c] = row[e][c]
  OBVIOUS
<1>4. /\ DOMAIN kept' = Enterprises /\ \A d \in Enterprises \ {e} : kept'[d] = kept[d]
      /\ kept'[e] # None => kept[e] # None /\ kept'[e] = row[e]
  BY <1>1, <1>2, <1>3, StampOfKyc
<1>5. \A d \in Enterprises : kept'[d] # None => kept'[d] = kept[d]
  BY <1>2, <1>4
<1> QED BY <1>4, <1>5, UserStep

LEMMA AdminEndStep ==
    ASSUME AccountsInv, AccountsAssumption, NEW p \in Workers, AdminEnd(p)
    PROVE  AccountsInv'
<1>1. PICK r : r = request[p]
  OBVIOUS
<1>2. PICK e : e = r.of
  OBVIOUS
<1>3. r.op \in {"admin kyc", "admin user"} /\ e \in Enterprises /\ row[e] # None /\ Fit(r)
  BY <1>1, <1>2 DEF AdminEnd, AccountsInv, Fit
<1>4. request' = [request EXCEPT ![p] = Idle] /\ proven' = proven
  BY DEF AdminEnd
<1>5. PICK end \in EndsOf :
         /\ row' = IF end = "commit" /\ r.op = "admin kyc"
                   THEN [row EXCEPT ![e].kyc = r.kyc] ELSE row
         /\ user' = IF end = "commit" /\ r.op = "admin user"
                    THEN [user EXCEPT ![e].active = r.active] ELSE user
         /\ kept' = IF end = "commit" THEN Stamp(e, row'[e], {"kyc"}) ELSE kept
  BY <1>1, <1>2 DEF AdminEnd
<1>6. CASE end # "commit"
  <2>1. UNCHANGED <<row, user, kept, proven>>
    BY <1>4, <1>5, <1>6
  <2> QED BY <1>4, <2>1, DropStep
<1>7. CASE end = "commit" /\ r.op = "admin kyc"
  <2>1. PICK n : n = [row[e] EXCEPT !.kyc = r.kyc]
    OBVIOUS
  <2>2. row' = [row EXCEPT ![e] = n] /\ row'[e] = n
    BY <1>3, <1>5, <1>7, <2>1 DEF AccountsInv
  <2>3. kept' = Stamp(e, n, {"kyc"}) /\ user' = user
    BY <1>5, <1>7, <2>2
  <2>4. row[e] \in EnterpriseRow /\ r.kyc \in KycStatus
    BY <1>3, <1>7 DEF AccountsInv, Fit
  <2>5. n \in EnterpriseRow /\ \A c \in RowColumns \ {"kyc"} : n[c] = row[e][c]
    BY <2>1, <2>4 DEF EnterpriseRow, RowColumns
  <2>6. Holds(request[p], e)
    BY <1>1, <1>2, <1>7 DEF Holds
  <2> QED BY <1>3, <1>4, <2>2, <2>3, <2>5, <2>6, AdminKycEnds
<1>8. CASE end = "commit" /\ r.op = "admin user"
  <2>1. PICK u : u = [user[e] EXCEPT !.active = r.active]
    OBVIOUS
  <2>2. user' = [user EXCEPT ![e] = u]
    BY <1>3, <1>5, <1>8, <2>1 DEF AccountsInv
  <2>3. row' = row /\ kept' = Stamp(e, row[e], {"kyc"})
    BY <1>5, <1>8
  <2>4. user[e] \in UserRow /\ r.active \in BOOLEAN
    BY <1>3, <1>8 DEF AccountsInv, Fit, RegistrationIsConsistent
  <2>5. u \in UserRow
    BY <2>1, <2>4 DEF UserRow
  <2> QED BY <1>3, <1>4, <2>2, <2>3, <2>5, AdminUserEnds
<1> QED BY <1>3, <1>6, <1>7, <1>8

----------------------------------------------------------------------------
(* The invariant. *)

LEMMA AccountsInit == Init => AccountsInv
<1> SUFFICES ASSUME Init PROVE AccountsInv
  OBVIOUS
<1>1. /\ row = [e \in Enterprises |-> None] /\ user = [e \in Enterprises |-> None]
      /\ request = [p \in Workers |-> Idle] /\ kept = [e \in Enterprises |-> None]
      /\ proven = [e \in Enterprises |-> {}]
  BY DEF Init
<1>2. \A p \in Workers : request[p].op = "none"
  BY <1>1, IdleOp
<1>3. \A p \in Workers : Fit(request[p])
  BY <1>2 DEF Fit, Editing
<1>4. Alone /\ RegistrationIsConsistent /\ WalletIsProven
  BY <1>1, <1>2 DEF Alone, RegistrationIsConsistent, WalletIsProven
<1>5. \A e \in Enterprises : Tidy(e)
  BY <1>1 DEF Tidy
<1> QED BY <1>1, <1>3, <1>4, <1>5 DEF AccountsInv

LEMMA AccountsNext ==
    ASSUME AccountsInv, AccountsAssumption, [Next]_vars
    PROVE  AccountsInv'
<1>1. ASSUME NEW p \in Workers, InsertBoth(p) PROVE AccountsInv'
  BY <1>1, InsertBothStep
<1>2. ASSUME NEW p \in Workers, Reselect(p) PROVE AccountsInv'
  BY <1>2, ReselectStep
<1>3. ASSUME NEW p \in Workers, Commit(p) PROVE AccountsInv'
  BY <1>3, CommitStep
<1>4. ASSUME NEW p \in Workers, RecordLogin(p) PROVE AccountsInv'
  BY <1>4, RecordLoginStep
<1>5. ASSUME NEW p \in Workers, UseUp(p) PROVE AccountsInv'
  BY <1>5, UseUpStep
<1>6. ASSUME NEW p \in Workers, AdminEnd(p) PROVE AccountsInv'
  BY <1>6, AdminEndStep
<1>7. ASSUME NEW p \in Workers, Die(p) PROVE AccountsInv'
  <2>1. request' = [request EXCEPT ![p] = Idle] /\ UNCHANGED <<row, user, kept, proven>>
    BY <1>7 DEF Die
  <2> QED BY <2>1, DropStep
<1>8. ASSUME NEW p \in Workers, NEW e \in Enterprises, CheckUnique(p, e) PROVE AccountsInv'
  BY <1>8, CheckUniqueStep
<1>9. ASSUME NEW p \in Workers, NEW e \in Enterprises, Load(p, e) PROVE AccountsInv'
  BY <1>9, LoadStep
<1>10. ASSUME NEW p \in Workers, NEW e \in Enterprises, Login(p, e) PROVE AccountsInv'
  BY <1>10, LoginStep
<1>11. ASSUME NEW p \in Workers, NEW e \in Enterprises, AdminKyc(p, e) PROVE AccountsInv'
  BY <1>11, AdminKycStep
<1>12. ASSUME NEW p \in Workers, NEW e \in Enterprises, AdminSuspend(p, e) PROVE AccountsInv'
  BY <1>12, AdminSuspendStep
<1>13. ASSUME NEW p \in Workers, NEW e \in Enterprises, NEW a \in Addresses,
              NEW sig \in [key : Keys, over : Challenges], Verify(p, e, a, sig)
       PROVE  AccountsInv'
  BY <1>13, VerifyStep
<1>14. ASSUME NEW e \in Enterprises, NEW ch \in Challenges,
              Challenge(e, ch) \/ ChallengeAnew(e, ch)
       PROVE  AccountsInv'
  <2>1. UNCHANGED <<row, user, request, kept, proven>>
    BY <1>14 DEF Challenge, ChallengeAnew
  <2> QED BY <2>1, ChallengeStep
<1>15. ASSUME NEW ch \in Challenges, Expire(ch) PROVE AccountsInv'
  <2>1. UNCHANGED <<row, user, request, kept, proven>>
    BY <1>15 DEF Expire
  <2> QED BY <2>1, ChallengeStep
<1>16. CASE UNCHANGED vars
  <2>1. UNCHANGED <<row, user, request, kept, proven>>
    BY <1>16 DEF vars
  <2> QED BY <2>1, ChallengeStep
<1> QED BY <1>1, <1>2, <1>3, <1>4, <1>5, <1>6, <1>7, <1>8, <1>9, <1>10, <1>11, <1>12, <1>13,
           <1>14, <1>15, <1>16 DEF Next

\* Rows and copies keep their types; a copy that is the only one of its row differs
\* from it in its own operation's columns alone; and who registers is alone, however
\* requests interleave, die or are rolled back.
THEOREM AccountsInvariant == ASSUME AccountsAssumption PROVE Spec => []AccountsInv
<1>1. Init => AccountsInv
  BY AccountsInit
<1>2. AccountsInv /\ [Next]_vars => AccountsInv'
  BY AccountsNext
<1> QED BY <1>1, <1>2, PTL DEF Spec

\* However two registrations interleave between the look-up of the keys and the
\* insert, no two enterprises have one PAN, GSTIN or e-mail, and none lacks its user.
THEOREM RegistrationsAreConsistent ==
    ASSUME AccountsAssumption PROVE Spec => []RegistrationIsConsistent
<1>1. AccountsInv => RegistrationIsConsistent
  BY DEF AccountsInv
<1> QED BY <1>1, AccountsInvariant, PTL

\* Until two requests hold copies of one row together, no update of all columns gives
\* back a column that another operation wrote.
THEOREM WritesDoStay == ASSUME AccountsAssumption PROVE Spec => []WritesAreKept
<1>1. AccountsInv => WritesAreKept
  BY DEF AccountsInv, Tidy, WritesAreKept
<1> QED BY <1>1, AccountsInvariant, PTL

\* A linked wallet is one whose key has signed a live challenge for that enterprise,
\* through stale copies, expiry and challenges of other enterprises.
THEOREM WalletsAreProven == ASSUME AccountsAssumption PROVE Spec => []WalletIsProven
<1>1. AccountsInv => WalletIsProven
  BY DEF AccountsInv
<1> QED BY <1>1, AccountsInvariant, PTL

=============================================================================
