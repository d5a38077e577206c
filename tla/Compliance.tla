----------------------------- MODULE Compliance -----------------------------
(***************************************************************************)
(* The compliance context: the hash-chained audit log, the FEMA and GST    *)
(* records, the bulk export, and the event handlers that feed them.        *)
(*                                                                         *)
(* A settlement request commits a change of an escrow and then publishes   *)
(* it: EventPublisher awaits the handlers of the event one after the       *)
(* other, inside that request, and logs what they raise.  Several requests *)
(* publish at once.  Each handler opens a database session of its own; an  *)
(* append holds the advisory lock of the escrow from the reading of the    *)
(* latest entry to its commit, and a rollback or a lost connection frees   *)
(* the lock.                                                               *)
(*                                                                         *)
(* Abstracted: SHA-256 is taken to be injective, so that a hash is the     *)
(* sequence of the events it covers; a payload is its event's kind;        *)
(* amounts are the rupees at the stub rate, in thousandths, PAN and GSTIN  *)
(* only the question whether buyer and seller are of one state.  The       *)
(* settlement side is reduced to the order in which an escrow's changes    *)
(* can be committed (Settlement models it).                                *)
(***************************************************************************)
EXTENDS Integers, Sequences, FiniteSets

CONSTANTS
    Escrows,     \* escrows, identified by their UUID
    Workers,     \* concurrent requests
    Jobs,        \* export jobs
    Amounts,     \* the amounts a release may have
    Snapshots,   \* what get_snapshot may find for the parties of an event
    ClockSteps,  \* by how much the clock may move between two appends
    PageLimit,   \* limit of a page of the audit log
    MaxEvents,   \* model bound: events of one escrow
    Faults,      \* may a request die or a database call raise?
    None

VARIABLES
    committed,  \* per escrow, the changes settlement has committed, in order
    entries,    \* table audit_entries
    lock,       \* per escrow, the holder of its advisory lock
    fema, gst,  \* tables fema_records, gst_records: what an escrow has there
    jobs,       \* table export_jobs
    page,       \* an auditor who pages through one log
    req         \* the requests in flight

vars == <<committed, entries, lock, fema, gst, jobs, page, req>>

----------------------------------------------------------------------------
(* Events. *)

Kinds == {"EscrowDeployed", "EscrowFunded", "EscrowFrozen", "EscrowUnfrozen",
          "EscrowReleased", "EscrowRefunded", "SessionAgreed"}

Outcomes == {"EscrowReleased", "EscrowRefunded"}

\* Kinds of an escrow with a compliance handler, all kinds with one (offers,
\* overrides and failures of a session are only logged), and kinds with a webhook
\* after it.
EscrowAudited == Kinds \ {"EscrowUnfrozen", "SessionAgreed"}
Audited == EscrowAudited \cup {"SessionAgreed"}
Notified == EscrowAudited \ {"EscrowDeployed"}

\* The rows of the tables.
EntryRow == [escrow : Escrows, kind : Audited, prev : Seq(Audited), hash : Seq(Audited),
             seq : Nat, at : Nat]
FemaRow == [amount : Nat, form : {"15CA", "15CB"}]
GstRow == [taxable : Nat, igst : Nat, cgst : Nat, sgst : Nat]

ASSUME ComplianceAssumption ==
    /\ Amounts \subseteq Nat /\ ClockSteps \subseteq Nat
    /\ Snapshots \subseteq {"none", "same state", "other state"}
    /\ PageLimit \in Nat \ {0} /\ MaxEvents \in Nat /\ Faults \in BOOLEAN
    /\ None \notin Workers \cup EntryRow \cup FemaRow \cup GstRow

\* The change that may be committed next.  A trail is an escrow's, or has the id of
\* a session and its agreement - twice, if two turns agreed at once.
MayFollow(seq) ==
    LET last == IF seq = <<>> THEN "none" ELSE seq[Len(seq)]
    IN  CASE last = "none" -> {"EscrowDeployed", "SessionAgreed"}
          [] last = "SessionAgreed" -> {"SessionAgreed"}
          [] last = "EscrowDeployed" -> {"EscrowFunded"}
          [] last \in {"EscrowFunded", "EscrowUnfrozen"} -> {"EscrowFrozen"} \cup Outcomes
          [] last = "EscrowFrozen" -> {"EscrowUnfrozen"}
          [] OTHER -> {}

----------------------------------------------------------------------------
(* The audit chain. *)

GenesisHash == <<>>

\* AuditHasher.compute.
Hash(prev, kind) == Append(prev, kind)

Of(e) == {x \in entries : x.escrow = e}

\* get_latest: None, or the entry with the highest sequence number.
Latest(e) ==
    IF Of(e) = {} THEN None
    ELSE CHOOSE x \in Of(e) : \A y \in Of(e) : y.seq <= x.seq

\* Mutation check only: links to the previous entry's own prev_hash.
EntryLinkedTooFar(e, latest, kind, step) ==
    LET prev == IF latest = None THEN GenesisHash ELSE latest.prev
    IN  [escrow |-> e, kind |-> kind, prev |-> prev, hash |-> Hash(prev, kind),
         seq |-> IF latest = None THEN 0 ELSE latest.seq + 1,
         at |-> IF latest = None THEN 1 ELSE latest.at + step]

\* AuditEntry.create after the latest entry; created_at is the clock's time.
Entry(e, latest, kind, step) ==
    LET prev == IF latest = None THEN GenesisHash ELSE latest.hash
    IN  [escrow |-> e, kind |-> kind, prev |-> prev, hash |-> Hash(prev, kind),
         seq |-> IF latest = None THEN 0 ELSE latest.seq + 1,
         at |-> IF latest = None THEN 1 ELSE latest.at + step]

\* The unique constraint of the table.
Insertable(entry) ==
    \A x \in entries : ~(x.escrow = entry.escrow /\ x.seq = entry.seq)

\* The entry of S before x in the order of sequence numbers gives its hash.
ExpectedPrev(S, x) ==
    LET Before == {y \in S : y.seq < x.seq}
    IN  IF Before = {} THEN GenesisHash
        ELSE (CHOOSE y \in Before : \A z \in Before : z.seq <= y.seq).hash

\* AuditChainVerifier.verify.
Verify(S) ==
    \A x \in S : x.hash = Hash(x.prev, x.kind) /\ x.prev = ExpectedPrev(S, x)

----------------------------------------------------------------------------
(* The records of a release.  Amounts are thousandths of a rupee, the      *)
(* amounts of a record paise.                                              *)

\* Decimal.quantize: to the nearest, a half to the even neighbour.
Quantize(n, d) ==
    LET q == n \div d  r == 2 * (n % d)
    IN  IF r < d \/ (r = d /\ q % 2 = 0) THEN q ELSE q + 1

FiveLakh == 500000

\* FEMARecord.generate: the form goes by the amount before it is rounded.
FemaOf(amount) ==
    [amount |-> Quantize(amount, 10),
     form   |-> IF amount >= FiveLakh * 1000 THEN "15CB" ELSE "15CA"]

Tax(rate, taxable) == Quantize(rate * taxable, 100)

\* GSTRecord.generate; the placeholders of unknown parties are of two states.
GstOf(amount, snapshot) ==
    LET taxable == Quantize(amount, 10)  intrastate == snapshot = "same state"
    IN  [taxable |-> taxable,
         igst |-> IF intrastate THEN 0 ELSE Tax(18, taxable),
         cgst |-> IF intrastate THEN Tax(9, taxable) ELSE 0,
         sgst |-> IF intrastate THEN Tax(9, taxable) ELSE 0]

----------------------------------------------------------------------------
(* Requests. *)

Idle == [pc |-> "idle", escrow |-> None, kind |-> "none", amount |-> 0,
         latest |-> None, job |-> None, todo |-> {}, fema |-> {}, gst |-> {}]

\* Steps of the compliance handler, between two awaits of the database.
InHandler == {"lock", "read", "insert", "records"}

Goto(p, pc) == req' = [req EXCEPT ![p].pc = pc]

\* The transaction of p ends: its advisory locks are free again.
Unlocked(p) == [e \in Escrows |-> IF lock[e] = p THEN None ELSE lock[e]]

\* After the compliance handler the publisher calls the webhook, if any.
Onward(kind) == IF kind \in Notified THEN "notify" ELSE "idle"

NoJob == [status |-> "none", fema |-> {}, gst |-> {}]

NotReading == [escrow |-> None, cursor |-> 0, seen |-> <<>>, more |-> FALSE]

Init ==
    /\ committed = [e \in Escrows |-> <<>>]
    /\ entries = {}
    /\ lock = [e \in Escrows |-> None]
    /\ fema = [e \in Escrows |-> None]
    /\ gst = [e \in Escrows |-> None]
    /\ jobs = [j \in Jobs |-> NoJob]
    /\ page = NotReading
    /\ req = [p \in Workers |-> Idle]

----------------------------------------------------------------------------
(* Publishing. *)

\* A request commits a change - a turn is about to commit its agreement - and
\* publishes its event.
Publish(p, e, kind, amount) ==
    /\ req[p].pc = "idle"
    /\ Len(committed[e]) < MaxEvents
    /\ kind \in MayFollow(committed[e])
    /\ committed' = [committed EXCEPT ![e] = Append(@, kind)]
    /\ req' = [req EXCEPT ![p] =
                 IF kind \in Audited
                 THEN [Idle EXCEPT !.pc = IF kind = "SessionAgreed" THEN "deploy" ELSE "lock",
                                   !.escrow = e, !.kind = kind, !.amount = amount]
                 ELSE Idle]
    /\ UNCHANGED <<entries, lock, fema, gst, jobs, page>>

\* The first handler of an agreement looks for the wallets of the parties, and
\* stops when one is missing; when none is, DeployEscrowCommand refuses the
\* arguments it is given.  Nothing is deployed, and the audit handler follows.
DeployAgreed(p) ==
    /\ req[p].pc = "deploy"
    /\ Goto(p, "lock")
    /\ UNCHANGED <<committed, entries, lock, fema, gst, jobs, page>>

\* The webhook of the event: delivered, skipped or given up after its retries.
Notify(p) ==
    /\ req[p].pc = "notify"
    /\ req' = [req EXCEPT ![p] = Idle]
    /\ UNCHANGED <<committed, entries, lock, fema, gst, jobs, page>>

----------------------------------------------------------------------------
(* append_audit_event. *)

\* Mutation check only: nobody waits for the lock.
AcquireLockAtOnce(p) ==
    LET e == req[p].escrow
    IN  /\ req[p].pc = "lock"
        /\ lock' = [lock EXCEPT ![e] = p]
        /\ Goto(p, "read")
        /\ UNCHANGED <<committed, entries, fema, gst, jobs, page>>

AcquireLock(p) ==
    LET e == req[p].escrow
    IN  /\ req[p].pc = "lock"
        /\ lock[e] = None
        /\ lock' = [lock EXCEPT ![e] = p]
        /\ Goto(p, "read")
        /\ UNCHANGED <<committed, entries, fema, gst, jobs, page>>

GetLatest(p) ==
    /\ req[p].pc = "read"
    /\ req' = [req EXCEPT ![p].pc = "insert", ![p].latest = Latest(req[p].escrow)]
    /\ UNCHANGED <<committed, entries, lock, fema, gst, jobs, page>>

\* Mutation check only: the row is inserted once more by a blind retry.
AppendTwice(p, step) ==
    LET r == req[p]
        entry == Entry(r.escrow, r.latest, r.kind, step)
        again == Entry(r.escrow, entry, r.kind, step)
    IN  /\ r.pc = "insert"
        /\ entries' = entries \cup {entry, again}
        /\ lock' = Unlocked(p)
        /\ Goto(p, IF r.kind = "EscrowReleased" THEN "records" ELSE Onward(r.kind))
        /\ UNCHANGED <<committed, fema, gst, jobs, page>>

\* The entry is inserted at the commit, or refused by the constraint.
AppendEntry(p, step) ==
    LET r == req[p]
        entry == Entry(r.escrow, r.latest, r.kind, step)
        accepted == Insertable(entry)
    IN  /\ r.pc = "insert"
        /\ entries' = IF accepted THEN entries \cup {entry} ELSE entries
        /\ lock' = Unlocked(p)
        /\ Goto(p, IF accepted /\ r.kind = "EscrowReleased"
                   THEN "records" ELSE Onward(r.kind))
        /\ UNCHANGED <<committed, fema, gst, jobs, page>>

----------------------------------------------------------------------------
(* generate_compliance_records: both records in one transaction.           *)

GenerateRecords(p, snapshot) ==
    LET r == req[p]
    IN  /\ r.pc = "records"
        /\ fema' = [fema EXCEPT ![r.escrow] = IF @ = None THEN FemaOf(r.amount) ELSE @]
        /\ gst' = [gst EXCEPT ![r.escrow] =
                     IF @ = None THEN GstOf(r.amount, snapshot) ELSE @]
        /\ Goto(p, Onward(r.kind))
        /\ UNCHANGED <<committed, entries, lock, jobs, page>>

----------------------------------------------------------------------------
(* request_bulk_export, one query per record, each in a snapshot of its    *)
(* own.                                                                    *)

\* Mutation check only: the GST record of an escrow is read first.
TablesSwapped == <<"gst", "fema">>

Tables == <<"fema", "gst">>

Has(table, e) == IF table = "fema" THEN fema[e] # None ELSE gst[e] # None

CreateJob(p, j) ==
    /\ req[p].pc = "idle" /\ jobs[j] = NoJob
    /\ jobs' = [jobs EXCEPT ![j].status = "PENDING"]
    /\ req' = [req EXCEPT ![p] = [Idle EXCEPT !.pc = "first", !.job = j, !.todo = Escrows]]
    /\ UNCHANGED <<committed, entries, lock, fema, gst, page>>

\* The escrow of p's next read and what it finds in a table.
Collected(r, table, e) ==
    IF ~Has(table, e) THEN r
    ELSE IF table = "fema" THEN [r EXCEPT !.fema = @ \cup {e}]
    ELSE [r EXCEPT !.gst = @ \cup {e}]

CollectFirst(p, e) ==
    /\ req[p].pc = "first" /\ e \in req[p].todo
    /\ req' = [req EXCEPT ![p] =
                 [Collected(req[p], Tables[1], e) EXCEPT !.pc = "second", !.escrow = e]]
    /\ UNCHANGED <<committed, entries, lock, fema, gst, jobs, page>>

CollectSecond(p) ==
    LET e == req[p].escrow  rest == req[p].todo \ {e}
    IN  /\ req[p].pc = "second"
        /\ req' = [req EXCEPT ![p] =
                     [Collected(req[p], Tables[2], e) EXCEPT
                        !.pc = IF rest = {} THEN "build" ELSE "first", !.todo = rest]]
        /\ UNCHANGED <<committed, entries, lock, fema, gst, jobs, page>>

\* The ZIP is built and the job marked DONE.
FinishJob(p) ==
    /\ req[p].pc = "build"
    /\ jobs' = [jobs EXCEPT ![req[p].job] =
                  [status |-> "DONE", fema |-> req[p].fema, gst |-> req[p].gst]]
    /\ req' = [req EXCEPT ![p] = Idle]
    /\ UNCHANGED <<committed, entries, lock, fema, gst, page>>

\* The building or the commit raises, and the job is marked FAILED.
FailJob(p) ==
    /\ Faults /\ req[p].pc = "build"
    /\ jobs' = [jobs EXCEPT ![req[p].job].status = "FAILED"]
    /\ req' = [req EXCEPT ![p] = Idle]
    /\ UNCHANGED <<committed, entries, lock, fema, gst, page>>

----------------------------------------------------------------------------
(* The paginated log.                                                      *)

\* The rows of e after the cursor in the order of their sequence numbers.
RowsAfter(e, cursor) ==
    LET S == {x \in Of(e) : x.at > cursor}
        Before(x) == {y \in S : y.seq < x.seq}
    IN  [i \in 1..Cardinality(S) |-> CHOOSE x \in S : Cardinality(Before(x)) = i - 1]

OpenLog(e) ==
    /\ ~page.more
    /\ page' = [escrow |-> e, cursor |-> 0, seen |-> <<>>, more |-> TRUE]
    /\ UNCHANGED <<committed, entries, lock, fema, gst, jobs, req>>

\* Mutation check only: the cursor is the extra row's time, not the last one's.
ReadPageFromExtraRow ==
    LET rows == RowsAfter(page.escrow, page.cursor)
        n == IF Len(rows) > PageLimit THEN PageLimit ELSE Len(rows)
        seqs == [i \in 1..n |-> rows[i].seq]
    IN  /\ page.more
        /\ page' = [page EXCEPT !.seen = @ \o seqs,
                                !.cursor = IF Len(rows) > PageLimit THEN rows[n + 1].at ELSE @,
                                !.more = Len(rows) > PageLimit]
        /\ UNCHANGED <<committed, entries, lock, fema, gst, jobs, req>>

\* get_audit_log: one row more than the limit tells whether a page follows.
ReadPage ==
    LET rows == RowsAfter(page.escrow, page.cursor)
        n == IF Len(rows) > PageLimit THEN PageLimit ELSE Len(rows)
        seqs == [i \in 1..n |-> rows[i].seq]
    IN  /\ page.more
        /\ page' = [page EXCEPT !.seen = @ \o seqs,
                                !.cursor = IF Len(rows) > PageLimit THEN rows[n].at ELSE @,
                                !.more = Len(rows) > PageLimit]
        /\ UNCHANGED <<committed, entries, lock, fema, gst, jobs, req>>

----------------------------------------------------------------------------
(* Failures. *)

\* Mutation check only: the release handler goes on after a failed append.
HandlerRaisesAndGoesOn(p) ==
    /\ Faults /\ req[p].pc \in InHandler
    /\ lock' = Unlocked(p)
    /\ Goto(p, IF req[p].kind = "EscrowReleased" /\ req[p].pc # "records"
               THEN "records" ELSE Onward(req[p].kind))
    /\ UNCHANGED <<committed, entries, fema, gst, jobs, page>>

\* A database call of the handler raises: rollback, log, next handler.
HandlerRaises(p) ==
    /\ Faults /\ req[p].pc \in InHandler
    /\ lock' = Unlocked(p)
    /\ Goto(p, Onward(req[p].kind))
    /\ UNCHANGED <<committed, entries, fema, gst, jobs, page>>

\* Mutation check only: the session of a dead request keeps its locks.
DieHoldingLocks(p) ==
    /\ Faults /\ req[p].pc # "idle"
    /\ req' = [req EXCEPT ![p] = Idle]
    /\ UNCHANGED <<committed, entries, lock, fema, gst, jobs, page>>

\* The request dies with its process, or is cancelled.
Die(p) ==
    /\ Faults /\ req[p].pc # "idle"
    /\ lock' = Unlocked(p)
    /\ req' = [req EXCEPT ![p] = Idle]
    /\ UNCHANGED <<committed, entries, fema, gst, jobs, page>>

----------------------------------------------------------------------------
Begin(p) ==
    \/ \E e \in Escrows, kind \in Kinds :
          IF kind = "EscrowReleased"
          THEN \E amount \in Amounts : Publish(p, e, kind, amount)
          ELSE Publish(p, e, kind, 0)
    \/ \E j \in Jobs : CreateJob(p, j)

Progress(p) ==
    \/ DeployAgreed(p)
    \/ AcquireLock(p)
    \/ GetLatest(p)
    \/ \E step \in ClockSteps : AppendEntry(p, step)
    \/ \E snapshot \in Snapshots : GenerateRecords(p, snapshot)
    \/ Notify(p)
    \/ \E e \in Escrows : CollectFirst(p, e)
    \/ CollectSecond(p)
    \/ FinishJob(p)

Auditor == ReadPage \/ \E e \in Escrows : OpenLog(e)

Next ==
    \/ Auditor
    \/ \E p \in Workers :
          Begin(p) \/ Progress(p) \/ FailJob(p) \/ HandlerRaises(p) \/ Die(p)

Spec == Init /\ [][Next]_vars

\* The event loop runs every request that has started, and Postgres grants
\* a lock in the order of the requests for it.
FairSpec ==
    /\ Spec
    /\ \A p \in Workers : WF_vars(Progress(p)) /\ SF_vars(AcquireLock(p))
----------------------------------------------------------------------------
(* Properties. *)

RequestState ==
    [pc : {"idle", "deploy", "notify", "first", "second", "build"} \cup InHandler,
     escrow : Escrows \cup {None}, kind : Kinds \cup {"none"}, amount : Nat,
     latest : EntryRow \cup {None}, job : Jobs \cup {None},
     todo : SUBSET Escrows, fema : SUBSET Escrows, gst : SUBSET Escrows]

TypeOK ==
    /\ committed \in [Escrows -> Seq(Kinds)]
    /\ entries \subseteq EntryRow
    /\ lock \in [Escrows -> Workers \cup {None}]
    /\ fema \in [Escrows -> FemaRow \cup {None}]
    /\ gst \in [Escrows -> GstRow \cup {None}]
    /\ jobs \in [Jobs -> [status : {"none", "PENDING", "DONE", "FAILED"},
                         fema : SUBSET Escrows, gst : SUBSET Escrows]]
    /\ page \in [escrow : Escrows \cup {None}, cursor : Nat, seen : Seq(Nat), more : BOOLEAN]
    /\ req \in [Workers -> RequestState]

\* However the handlers of one escrow interleave, the entry that a handler is
\* about to insert never collides with one inserted since it read the latest:
\* the constraint behind the advisory lock is never needed, and no event is
\* dropped by it.
AppendNeverCollides ==
    \A p \in Workers, step \in ClockSteps :
        req[p].pc = "insert" =>
            Insertable(Entry(req[p].escrow, req[p].latest, req[p].kind, step))

\* verify_audit_chain answers "valid" to exactly the beginnings of the chain:
\* a row that was removed, or a row that is missing below another one, shows;
\* a chain that was cut at its end does not.
VerifyAcceptsBeginnings ==
    \A e \in Escrows : \A S \in SUBSET Of(e) :
        Verify(S) <=> \A x \in S, y \in Of(e) : y.seq < x.seq => y \in S

\* The FEMA and the GST record of an escrow exist together, only after its
\* release was recorded in the audit chain, for the same amount; a payment
\* above five lakh rupees is on Form 15CB; and the tax is 18 % of the amount,
\* up to a paisa, whichever way it is split.
RecordsFollowRelease ==
    \A e \in Escrows :
        LET f == fema[e]  g == gst[e]
        IN  /\ (f = None) <=> (g = None)
            /\ f # None =>
                 /\ \E x \in Of(e) : x.kind = "EscrowReleased"
                 /\ f.amount = g.taxable
                 /\ f.amount > FiveLakh * 100 => f.form = "15CB"
                 /\ LET tax == g.igst + g.cgst + g.sgst
                    IN  100 * tax - 18 * g.taxable \in -100..100

\* A finished export, which reads the records of an escrow one after the other
\* and outside of any transaction, never holds a FEMA record whose GST record
\* it lacks.
ExportsAreUsable ==
    \A j \in Jobs : jobs[j].status = "DONE" => jobs[j].fema \subseteq jobs[j].gst

\* An auditor who follows the cursors while handlers append sees every entry
\* once, in the order of the chain, if the clock moves between two appends.
PagesMissNothing == \A i \in DOMAIN page.seen : page.seen[i] = i - 1

\* The chain of an escrow, read in the order of its sequence numbers.
Trail(e) == [i \in 1..Cardinality(Of(e)) |-> (CHOOSE x \in Of(e) : x.seq = i - 1).kind]

TrailOf == INSTANCE AuditTrail WITH
    happened <- committed, trail <- [e \in Escrows |-> Trail(e)]

\* With all its locks, copies and lost handlers the log is an audit trail:
\* every committed change is recorded at most once, at the end, for ever.
ImplementsTrail == TrailOf!Spec

\* Every request comes to its end: nobody waits for ever for the lock of a
\* handler that failed or died.
RequestsEnd == \A p \in Workers : req[p].pc # "idle" ~> req[p].pc = "idle"
=============================================================================
