------------------------- MODULE MarketplaceProofs -------------------------
(***************************************************************************)
(* Proofs about the marketplace, for any number of requests, any finite    *)
(* set of sellers and any texts: embeddings belong to the texts beside     *)
(* them, and an RFQ that is matched or confirmed has its matches.          *)
(***************************************************************************)
EXTENDS Marketplace, FiniteSetTheorems, TLAPS

----------------------------------------------------------------------------
(* The inductive invariant. *)

\* The rows a table can hold, and what a transaction has written: nothing, or a row.
Statuses == {"absent", "DRAFT", "PARSED", "MATCHED", "CONFIRMED"}

RfqRows == [status : Statuses, seller : Sellers \cup {NoOne}]

ProfileRows == [text : Nat, embedding : Nat]

TrueProfiles == {p \in ProfileRows : p.embedding \in {0, p.text}}

Wrote(written, rows) ==
    written # <<>> => written = <<written[1]>> /\ written[1] \in rows

\* Some sellers are ranked, from 1, without a gap or a tie.
Ranked(m) ==
    LET found == {s \in Sellers : m[s] # 0}
    IN  found # {} /\ {m[s] : s \in found} = 1..Cardinality(found)

WorkFields == {"op", "pc", "seller", "text", "copy", "profile", "held", "todo", "writes"}

Shape(w, r) ==
    /\ DOMAIN r = WorkFields /\ DOMAIN r.writes = {"rfq", "matches", "profile"}
    /\ r.text \in Nat /\ r.copy \in RfqRows /\ r.profile \in ProfileRows
    /\ Wrote(r.writes.rfq, RfqRows)
    /\ Wrote(r.writes.matches, [Sellers -> Nat])
    /\ Wrote(r.writes.profile, TrueProfiles)
    /\ r.op \in {"upload", "confirm", "profile"} => w[2] = "request"
    /\ r.op = "parse" => w[2] = "task"
    /\ r.op \in {"profile", "recompute"} /\ r.pc # "done" => r.seller \in Sellers
    /\ r.pc = "update" => r.op = "confirm"

\* What a transaction writes to the RFQ belongs to its operation, and matches are
\* written with the status they entail.
Writing(r) ==
    /\ r.writes.rfq = <<>> \/ r.pc \in {"load", "extract"} => r.writes.matches = <<>>
    /\ r.writes.rfq # <<>> =>
          \/ /\ r.op = "upload" /\ r.writes.matches = <<>>
             /\ r.writes.rfq[1].status = "DRAFT"
          \/ /\ r.op = "parse" /\ r.writes.matches = <<>>
             /\ r.writes.rfq[1].status = "PARSED"
          \/ /\ r.op = "parse" /\ r.writes.matches # <<>> /\ Ranked(r.writes.matches[1])
             /\ r.writes.rfq[1].status = "MATCHED"
          \/ /\ r.op = "confirm" /\ r.writes.matches = <<>>
             /\ r.writes.rfq[1] = r.copy

\* Who confirms has a copy of a matched RFQ, confirmed with one of its sellers.
Confirming(r) ==
    r.op = "confirm" /\ r.pc # "done" =>
        /\ rfq.status \in {"MATCHED", "CONFIRMED"}
        /\ r.copy.status = "CONFIRMED" /\ r.copy.seller \in Sellers
        /\ matches[r.copy.seller] # 0

\* An RFQ is parsed by the task of its upload, which writes when the upload is over.
Parsing(w) ==
    at[w].op = "parse" =>
        /\ at[ParentOf(w)].op = "upload"
        /\ at[w].pc = "match" \/ at[w].writes.rfq # <<>> => at[ParentOf(w)].pc = "done"

\* Once an RFQ is matched, its upload and its task are over.
Settled ==
    rfq.status \in {"MATCHED", "CONFIRMED"} =>
        /\ Ranked(matches)
        /\ rfq.status = "CONFIRMED" => rfq.seller \in Sellers /\ matches[rfq.seller] # 0
        /\ \E w \in Workers : at[w].op = "upload"
        /\ \A w \in Workers : at[w].op \in {"upload", "parse"} => at[w].pc = "done"

MarketInv ==
    /\ rfq \in RfqRows /\ matches \in [Sellers -> Nat]
    /\ profiles \in [Sellers -> TrueProfiles]
    /\ DOMAIN at = Workers
    /\ \A w \in Workers : Shape(w, at[w]) /\ Writing(at[w]) /\ Confirming(at[w]) /\ Parsing(w)
    /\ \A v, w \in Workers : at[v].op = "upload" /\ at[w].op = "upload" => v = w
    /\ Settled

----------------------------------------------------------------------------
(* Rankings. *)

\* A ranking without repetitions ranks each seller at its position.
LEMMA RanksAreRanked ==
    ASSUME MarketplaceAssumption, NEW ranking \in Rankings \ {<<>>}
    PROVE  Ranks(ranking) \in [Sellers -> Nat] /\ Ranked(Ranks(ranking))
<1> DEFINE found == {s \in Sellers : profiles[s].embedding # 0}
           count == IF Cardinality(found) < TopN THEN Cardinality(found) ELSE TopN
           m == Ranks(ranking)
           named == {s \in Sellers : m[s] # 0}
<1>1. ranking \in [1..count -> found] /\ \A i, j \in 1..count : i # j => ranking[i] # ranking[j]
  BY DEF Rankings
<1>2. DOMAIN ranking = 1..count
  BY <1>1
<1>3. count \in Nat /\ 1 \in 1..count
  <2>1. IsFiniteSet(found)
    BY FS_Subset DEF MarketplaceAssumption
  <2>2. Cardinality(found) \in Nat
    BY <2>1, FS_CardinalityType
  <2>3. count \in Nat
    BY <2>2 DEF MarketplaceAssumption
  <2>4. count # 0
    <3> SUFFICES ASSUME count = 0 PROVE ranking = <<>>
      OBVIOUS
    <3> QED BY <1>1
  <2> QED BY <2>3, <2>4
<1>4. ASSUME NEW i \in 1..count PROVE ranking[i] \in Sellers /\ m[ranking[i]] = i
  <2>1. ranking[i] \in Sellers
    BY <1>1
  <2>2. \A j \in DOMAIN ranking : ranking[j] = ranking[i] => j = i
    BY <1>1, <1>2
  <2>3. (CHOOSE j \in DOMAIN ranking : ranking[j] = ranking[i]) = i
    BY <1>2, <2>2
  <2> QED BY <1>2, <2>1, <2>3 DEF Ranks
<1>5. ASSUME NEW s \in Sellers, ~\E i \in 1..count : ranking[i] = s PROVE m[s] = 0
  BY <1>2, <1>5 DEF Ranks
<1>6. m \in [Sellers -> Nat]
  <2>1. ASSUME NEW s \in Sellers PROVE m[s] \in Nat
    <3>1. CASE \E i \in 1..count : ranking[i] = s
      BY <1>3, <1>4, <3>1
    <3>2. CASE ~\E i \in 1..count : ranking[i] = s
      BY <1>5, <3>2
    <3> QED BY <3>1, <3>2
  <2> QED BY <2>1 DEF Ranks
<1>7. \A i \in 1..count : ranking[i] \in named /\ m[ranking[i]] = i
  BY <1>3, <1>4
<1>8. \A s \in named : \E i \in 1..count : ranking[i] = s /\ m[s] = i
  BY <1>4, <1>5
<1>9. {m[s] : s \in named} = 1..count
  <2>1. \A i \in 1..count : \E s \in named : m[s] = i
    BY <1>7
  <2>2. \A s \in named : m[s] \in 1..count
    BY <1>8
  <2>3. \A i : i \in {m[s] : s \in named} <=> i \in 1..count
    BY <2>1, <2>2, Zenon
  <2> QED BY <2>3
<1>10. ranking \in Bijection(1..count, named)
  <2>1. ranking \in [1..count -> named]
    BY <1>1, <1>7
  <2>2. ranking \in Injection(1..count, named)
    BY <1>1, <2>1 DEF Injection, IsInjective
  <2>3. ranking \in Surjection(1..count, named)
    BY <1>8, <2>1 DEF Surjection
  <2> QED BY <2>2, <2>3 DEF Bijection
<1>11. Cardinality(named) = count
  <2>1. IsFiniteSet(1..count) /\ Cardinality(1..count) = count
    <3>1. IsFiniteSet(1..count) /\ Cardinality(1..count) = IF 1 > count THEN 0 ELSE count - 1 + 1
      BY <1>3, FS_Interval
    <3> QED BY <1>3, <3>1
  <2>2. ExistsBijection(1..count, named)
    BY <1>10 DEF ExistsBijection
  <2> QED BY <2>1, <2>2, FS_Bijection
<1>12. named # {}
  BY <1>3, <1>7
<1>13. Ranked(m)
  BY <1>9, <1>11, <1>12 DEF Ranked
<1> QED BY <1>6, <1>13

----------------------------------------------------------------------------
(* Steps of one request or task. *)

LEMMA Fields ==
    ASSUME NEW r, DOMAIN r = WorkFields, NEW f \in WorkFields, NEW x, NEW n,
           n = [r EXCEPT ![f] = x]
    PROVE  /\ DOMAIN n = WorkFields /\ n[f] = x
           /\ \A g \in WorkFields \ {f} : n[g] = r[g]
OBVIOUS

LEMMA IdleIs ==
    /\ DOMAIN Idle = WorkFields /\ DOMAIN Idle.writes = {"rfq", "matches", "profile"}
    /\ Idle.op = "none" /\ Idle.pc = "idle" /\ Idle.text = 0 /\ Idle.copy = NoRfq
    /\ Idle.profile = NoProfile
    /\ Idle.writes.rfq = <<>> /\ Idle.writes.matches = <<>> /\ Idle.writes.profile = <<>>
BY DEF Idle, WorkFields

LEMMA RowTypes ==
    NoRfq \in RfqRows /\ NoProfile \in TrueProfiles /\ NoProfile \in ProfileRows
BY DEF NoRfq, RfqRows, Statuses, NoProfile, TrueProfiles, ProfileRows

\* A step of w that neither begins an upload nor ends the session.
LEMMA WorkStep ==
    ASSUME MarketInv, NEW w \in Workers, NEW r,
           at' = [at EXCEPT ![w] = r], UNCHANGED <<rfq, matches, profiles>>,
           at[w].pc # "done",
           r.op = at[w].op \/ (at[w].op = "none" /\ r.op \notin {"upload", "parse"}),
           Shape(w, r), Writing(r), Confirming(r),
           r.op = "parse" /\ (r.pc = "match" \/ r.writes.rfq # <<>>)
              => at[ParentOf(w)].pc = "done"
    PROVE  MarketInv'
<1>1. at'[w] = r /\ (\A v \in Workers \ {w} : at'[v] = at[v]) /\ DOMAIN at' = Workers
  BY DEF MarketInv
<1>2. ASSUME NEW v \in Workers
      PROVE  ParentOf(v) \in Workers /\ (v[2] = "task" => ParentOf(v) # v)
  BY DEF ParentOf, Workers
<1>3. at[w].op \in {"upload", "parse"} <=> r.op \in {"upload", "parse"}
  OBVIOUS
<1>4. ASSUME NEW v \in Workers PROVE Shape(v, at'[v]) /\ Writing(at'[v])
  <2>1. CASE v = w
    BY <1>1, <2>1
  <2>2. CASE v # w
    BY <1>1, <2>2 DEF MarketInv
  <2> QED BY <2>1, <2>2
<1>5. ASSUME NEW v \in Workers PROVE Confirming(at[v])'
  <2>1. CASE v = w
    BY <1>1, <2>1 DEF Confirming
  <2>2. CASE v # w
    BY <1>1, <2>2 DEF MarketInv, Confirming
  <2> QED BY <2>1, <2>2
<1>6. ASSUME NEW v \in Workers PROVE Parsing(v)'
  <2>0. SUFFICES ASSUME at'[v].op = "parse"
        PROVE  /\ at'[ParentOf(v)].op = "upload"
               /\ at'[v].pc = "match" \/ at'[v].writes.rfq # <<>>
                    => at'[ParentOf(v)].pc = "done"
    BY DEF Parsing
  <2>1. at[v].op = "parse" /\ v[2] = "task"
    <3>1. CASE v = w
      BY <1>1, <2>0, <3>1 DEF Shape
    <3>2. CASE v # w
      BY <1>1, <2>0, <3>2 DEF MarketInv, Shape
    <3> QED BY <3>1, <3>2
  <2>2. /\ at[ParentOf(v)].op = "upload"
        /\ at[v].pc = "match" \/ at[v].writes.rfq # <<>> => at[ParentOf(v)].pc = "done"
    BY <2>1 DEF MarketInv, Parsing
  <2>3. at'[ParentOf(v)].op = "upload"
    BY <1>1, <1>2, <2>2
  <2>4. CASE v = w
    BY <1>1, <1>2, <2>0, <2>1, <2>3, <2>4
  <2>5. CASE v # w
    BY <1>1, <1>2, <2>2, <2>3, <2>5
  <2> QED BY <2>4, <2>5
<1>7. \A u, v \in Workers : at'[u].op = "upload" /\ at'[v].op = "upload" => u = v
  <2>1. \A v \in Workers : at'[v].op = "upload" => at[v].op = "upload"
    BY <1>1
  <2> QED BY <2>1 DEF MarketInv
<1>8. Settled'
  <2>1. ASSUME rfq.status \in {"MATCHED", "CONFIRMED"}, NEW v \in Workers,
               at[v].op = "upload"
        PROVE  at'[v].op = "upload"
    BY <1>1, <2>1
  <2>2. ASSUME rfq.status \in {"MATCHED", "CONFIRMED"}, NEW v \in Workers,
               at'[v].op \in {"upload", "parse"}
        PROVE  at'[v].pc = "done"
    BY <1>1, <1>3, <2>2 DEF MarketInv, Settled
  <2> QED BY <2>1, <2>2 DEF MarketInv, Settled, Ranked
<1> QED BY <1>1, <1>4, <1>5, <1>6, <1>7, <1>8 DEF MarketInv

\* A step that touches no more than how far w is and what it locks.
LEMMA SameStep ==
    ASSUME MarketInv, NEW w \in Workers, NEW r, DOMAIN r = WorkFields,
           \A g \in WorkFields \ {"pc", "held", "todo"} : r[g] = at[w][g],
           r.pc \in {"end", "failed", "insert"},
           at' = [at EXCEPT ![w] = r], UNCHANGED <<rfq, matches, profiles>>,
           at[w].pc # "done"
    PROVE  MarketInv'
<1>1. /\ r.op = at[w].op /\ r.seller = at[w].seller /\ r.text = at[w].text
      /\ r.copy = at[w].copy /\ r.profile = at[w].profile /\ r.writes = at[w].writes
  BY DEF WorkFields
<1>2. Shape(w, at[w]) /\ Writing(at[w]) /\ Confirming(at[w]) /\ Parsing(w)
  BY DEF MarketInv
<1>3. Shape(w, r) /\ Writing(r) /\ Confirming(r)
  BY <1>1, <1>2 DEF Shape, Writing, Confirming
<1>4. r.op = "parse" /\ (r.pc = "match" \/ r.writes.rfq # <<>>)
        => at[ParentOf(w)].pc = "done"
  BY <1>1, <1>2 DEF Parsing
<1> QED BY <1>1, <1>3, <1>4, WorkStep

LEMMA PcStep ==
    ASSUME MarketInv, NEW w \in Workers, NEW pc, pc \in {"end", "failed", "insert"},
           Become(w, [at[w] EXCEPT !.pc = pc]), UNCHANGED <<rfq, matches, profiles>>,
           at[w].pc # "done"
    PROVE  MarketInv'
<1>1. PICK r : r = [at[w] EXCEPT !.pc = pc]
  OBVIOUS
<1>2. DOMAIN at[w] = WorkFields
  BY DEF MarketInv, Shape
<1>3. /\ DOMAIN r = WorkFields /\ r.pc = pc
      /\ \A g \in WorkFields \ {"pc", "held", "todo"} : r[g] = at[w][g]
  BY <1>1, <1>2 DEF WorkFields
<1> QED BY <1>1, <1>3, SameStep DEF Become

\* A task's request is another one, and has no other task.
LEMMA Families ==
    ASSUME NEW w \in Workers, w[2] = "request"
    PROVE  /\ TaskOf(w) \in Workers /\ TaskOf(w) # w /\ TaskOf(w)[2] = "task"
           /\ ParentOf(TaskOf(w)) = w
           /\ \A v \in Workers : v[2] = "task" /\ ParentOf(v) = w => v = TaskOf(w)
BY DEF Workers, TaskOf, ParentOf

LEMMA UploadStep ==
    ASSUME MarketInv, NEW w \in Workers, Fresh(w), UploadRFQ(w)
    PROVE  MarketInv'
<1>1. PICK t \in Workers : t = TaskOf(w)
  BY Families DEF Fresh
<1>2. t # w /\ t[2] = "task" /\ w[2] = "request" /\ ParentOf(t) = w
  BY <1>1, Families DEF Fresh
<1>3. PICK u : u = [Idle EXCEPT !.op = "upload", !.pc = "end", !.held = {RfqRow},
                                !.writes.rfq = <<Saved>>]
  OBVIOUS
<1>4. PICK k : k = [Idle EXCEPT !.op = "parse", !.pc = "load"]
  OBVIOUS
<1>5. /\ at' = [at EXCEPT ![w] = u, ![t] = k] /\ UNCHANGED <<rfq, matches, profiles>>
      /\ \A v \in Workers : at[v].op # "upload"
  BY <1>1, <1>3, <1>4 DEF UploadRFQ, Unstored
<1>6. /\ at'[w] = u /\ at'[t] = k /\ DOMAIN at' = Workers
      /\ \A v \in Workers \ {w, t} : at'[v] = at[v]
  BY <1>2, <1>5 DEF MarketInv
<1>7. /\ DOMAIN u = WorkFields /\ DOMAIN u.writes = {"rfq", "matches", "profile"}
      /\ u.op = "upload" /\ u.pc = "end" /\ u.text = 0 /\ u.copy = NoRfq
      /\ u.profile = NoProfile
      /\ u.writes.rfq = <<Saved>> /\ u.writes.matches = <<>> /\ u.writes.profile = <<>>
  BY <1>3 DEF Idle, WorkFields
<1>8. /\ DOMAIN k = WorkFields /\ DOMAIN k.writes = {"rfq", "matches", "profile"}
      /\ k.op = "parse" /\ k.pc = "load" /\ k.text = 0 /\ k.copy = NoRfq
      /\ k.profile = NoProfile
      /\ k.writes.rfq = <<>> /\ k.writes.matches = <<>> /\ k.writes.profile = <<>>
  BY <1>4 DEF Idle, WorkFields
<1>9. Saved \in RfqRows /\ Saved.status = "DRAFT" /\ <<Saved>> # <<>> /\ <<Saved>>[1] = Saved
  BY DEF Saved, NoRfq, RfqRows, Statuses
<1>10. Shape(w, u) /\ Writing(u)
  BY <1>2, <1>7, <1>9, RowTypes DEF Shape, Writing, Wrote
<1>11. Shape(t, k) /\ Writing(k)
  BY <1>2, <1>8, RowTypes DEF Shape, Writing, Wrote
<1>12. ASSUME NEW v \in Workers
       PROVE  Shape(v, at'[v]) /\ Writing(at'[v])
  <2>1. CASE v \in {w, t}
    BY <1>6, <1>10, <1>11, <2>1
  <2>2. CASE v \notin {w, t}
    BY <1>6, <2>2 DEF MarketInv
  <2> QED BY <2>1, <2>2
<1>13. ASSUME NEW v \in Workers PROVE Confirming(at[v])'
  <2>1. CASE v \in {w, t}
    BY <1>6, <1>7, <1>8, <2>1 DEF Confirming
  <2>2. CASE v \notin {w, t}
    BY <1>5, <1>6, <2>2 DEF MarketInv, Confirming
  <2> QED BY <2>1, <2>2
<1>14. \A v \in Workers : ParentOf(v) \in Workers
  BY DEF Workers, ParentOf
<1>15. ASSUME NEW v \in Workers PROVE Parsing(v)'
  <2>1. at[v].op # "parse"
    BY <1>5, <1>14 DEF MarketInv, Parsing
  <2>2. CASE v = t
    BY <1>2, <1>6, <1>7, <1>8, <2>2 DEF Parsing
  <2>3. CASE v = w
    BY <1>6, <1>7, <2>3 DEF Parsing
  <2>4. CASE v \notin {w, t}
    BY <1>6, <2>1, <2>4 DEF Parsing
  <2> QED BY <2>2, <2>3, <2>4
<1>16. \A x, y \in Workers : at'[x].op = "upload" /\ at'[y].op = "upload" => x = y
  BY <1>5, <1>6, <1>8
<1>17. Settled'
  BY <1>5 DEF MarketInv, Settled
<1> QED BY <1>5, <1>6, <1>12, <1>13, <1>15, <1>16, <1>17 DEF MarketInv

LEMMA StoredStep ==
    ASSUME MarketInv, NEW w \in Workers, NEW record, Stored(w, record),
           UNCHANGED <<rfq, matches, profiles>>, at[w].op = "profile", at[w].pc # "done",
           DOMAIN record = WorkFields, DOMAIN record.writes = {"rfq", "matches", "profile"},
           record.op = at[w].op, record.text = at[w].text, record.copy = at[w].copy,
           record.profile = at[w].profile, record.seller = at[w].seller,
           record.writes.rfq = at[w].writes.rfq,
           record.writes.matches = at[w].writes.matches,
           Wrote(record.writes.profile, TrueProfiles)
    PROVE  MarketInv'
<1>0. Shape(w, at[w]) /\ Writing(at[w])
  BY DEF MarketInv
<1>1. w[2] = "request" /\ at[w].seller \in Sellers
  BY <1>0 DEF Shape
<1>2. PICK t \in Workers : t = TaskOf(w) /\ t # w /\ t[2] = "task" /\ ParentOf(t) = w
  BY <1>1, Families
<1>3. PICK u : u = [record EXCEPT !.pc = "end"]
  OBVIOUS
<1>4. PICK k : k = [Idle EXCEPT !.op = "recompute", !.pc = "load", !.seller = record.seller]
  OBVIOUS
<1>5. at' = [at EXCEPT ![w] = u, ![t] = k]
  BY <1>2, <1>3, <1>4 DEF Stored
<1>6. /\ at'[w] = u /\ at'[t] = k /\ DOMAIN at' = Workers
      /\ \A v \in Workers \ {w, t} : at'[v] = at[v]
  BY <1>2, <1>5 DEF MarketInv
<1>7. /\ DOMAIN u = WorkFields /\ u.op = "profile" /\ u.pc = "end"
      /\ u.text = record.text /\ u.copy = record.copy /\ u.profile = record.profile
      /\ u.seller = record.seller /\ u.writes = record.writes
  BY <1>3 DEF WorkFields
<1>8. /\ DOMAIN k = WorkFields /\ DOMAIN k.writes = {"rfq", "matches", "profile"}
      /\ k.op = "recompute" /\ k.pc = "load" /\ k.text = 0 /\ k.copy = NoRfq
      /\ k.profile = NoProfile /\ k.seller = record.seller
      /\ k.writes.rfq = <<>> /\ k.writes.matches = <<>> /\ k.writes.profile = <<>>
  BY <1>4 DEF Idle, WorkFields
<1>9. Shape(w, u)
  BY <1>0, <1>1, <1>7 DEF Shape
<1>10. Writing(u)
  BY <1>0, <1>7 DEF Writing
<1>11. Shape(t, k) /\ Writing(k)
  BY <1>1, <1>2, <1>8, RowTypes DEF Shape, Writing, Wrote
<1>12. ASSUME NEW v \in Workers
       PROVE  Shape(v, at'[v]) /\ Writing(at'[v])
  <2>1. CASE v \in {w, t}
    BY <1>6, <1>9, <1>10, <1>11, <2>1
  <2>2. CASE v \notin {w, t}
    BY <1>6, <2>2 DEF MarketInv
  <2> QED BY <2>1, <2>2
<1>13. ASSUME NEW v \in Workers PROVE Confirming(at[v])'
  <2>1. CASE v \in {w, t}
    BY <1>6, <1>7, <1>8, <2>1 DEF Confirming
  <2>2. CASE v \notin {w, t}
    BY <1>6, <2>2 DEF MarketInv, Confirming
  <2> QED BY <2>1, <2>2
<1>14. \A v \in Workers : at'[v].op = "upload" => at[v].op = "upload" /\ at'[v] = at[v]
  BY <1>6, <1>7, <1>8
<1>15. ASSUME NEW v \in Workers PROVE Parsing(v)'
  <2>0. SUFFICES ASSUME at'[v].op = "parse"
        PROVE  /\ at'[ParentOf(v)].op = "upload"
               /\ at'[v].pc = "match" \/ at'[v].writes.rfq # <<>>
                    => at'[ParentOf(v)].pc = "done"
    BY DEF Parsing
  <2>1. at'[v] = at[v] /\ at[v].op = "parse" /\ v[2] = "task"
    BY <1>6, <1>7, <1>8, <2>0 DEF MarketInv, Shape
  <2>2. /\ at[ParentOf(v)].op = "upload"
        /\ at[v].pc = "match" \/ at[v].writes.rfq # <<>> => at[ParentOf(v)].pc = "done"
    BY <2>1 DEF MarketInv, Parsing
  <2>3. ParentOf(v) \in Workers /\ ParentOf(v) # w /\ ParentOf(v) # t
    BY <1>2, <2>2 DEF Workers, ParentOf
  <2> QED BY <1>6, <2>1, <2>2, <2>3
<1>16. \A x, y \in Workers : at'[x].op = "upload" /\ at'[y].op = "upload" => x = y
  BY <1>14 DEF MarketInv
<1>17. Settled'
  <2>1. \A v \in Workers : at[v].op = "upload" => at'[v].op = "upload"
             \/ rfq.status \notin {"MATCHED", "CONFIRMED"}
    <3>1. ASSUME NEW v \in Workers, at[v].op = "upload" PROVE at'[v].op = "upload"
      <4>1. v # w /\ v[2] = "request"
        BY <3>1 DEF MarketInv, Shape
      <4> QED BY <1>2, <1>6, <3>1, <4>1
    <3> QED BY <3>1
  <2>2. \A v \in Workers : at'[v].op \in {"upload", "parse"} => at'[v] = at[v]
    BY <1>6, <1>7, <1>8
  <2> QED BY <2>1, <2>2 DEF MarketInv, Settled, Ranked
<1> QED BY <1>6, <1>12, <1>13, <1>15, <1>16, <1>17 DEF MarketInv

----------------------------------------------------------------------------
(* Each operation. *)

LEMMA Own ==
    ASSUME MarketInv, NEW w \in Workers
    PROVE  Shape(w, at[w]) /\ Writing(at[w]) /\ Confirming(at[w]) /\ Parsing(w)
BY DEF MarketInv

LEMMA ParentIs == ASSUME NEW w \in Workers PROVE ParentOf(w) \in Workers
BY DEF ParentOf, Workers

\* What a transaction sees is a row.
LEMMA Views ==
    ASSUME NEW rows, NEW written, NEW committed \in rows, Wrote(written, rows)
    PROVE  View(written, committed) \in rows
BY DEF View, Wrote

LEMMA LoadRfqStep ==
    ASSUME MarketInv, NEW w \in Workers, LoadRfq(w)
    PROVE  MarketInv'
<1>1. PICK row : row = ShownTo(w, at[ParentOf(w)].writes.rfq, rfq)
  OBVIOUS
<1>2. row \in RfqRows
  <2>1. Wrote(at[ParentOf(w)].writes.rfq, RfqRows)
    BY ParentIs DEF MarketInv, Shape
  <2> QED BY <1>1, <2>1, Views DEF ShownTo, MarketInv
<1>3. PICK pc \in {"end", "extract"} :
         Become(w, [at[w] EXCEPT !.copy = row, !.pc = pc])
  BY <1>1 DEF LoadRfq
<1>4. PICK n : n = [at[w] EXCEPT !.copy = row]
  OBVIOUS
<1>5. PICK r : r = [n EXCEPT !.pc = pc]
  OBVIOUS
<1>6. DOMAIN at[w] = WorkFields
  BY DEF MarketInv, Shape
<1>7. DOMAIN n = WorkFields /\ n.copy = row /\ \A g \in WorkFields \ {"copy"} : n[g] = at[w][g]
  BY <1>4, <1>6 DEF WorkFields
<1>8. DOMAIN r = WorkFields /\ r.pc = pc /\ \A g \in WorkFields \ {"pc"} : r[g] = n[g]
  BY <1>5, <1>7 DEF WorkFields
<1>9. /\ DOMAIN r = WorkFields /\ r.op = at[w].op /\ r.seller = at[w].seller
      /\ r.text = at[w].text /\ r.copy = row /\ r.profile = at[w].profile
      /\ r.writes = at[w].writes
  BY <1>7, <1>8 DEF WorkFields
<1>10. at' = [at EXCEPT ![w] = r] /\ UNCHANGED <<rfq, matches, profiles>>
  BY <1>3, <1>4, <1>5 DEF LoadRfq, Become, Unstored
<1>11. at[w].op = "parse" /\ at[w].pc = "load"
  BY DEF LoadRfq
<1>12. Shape(w, r)
  BY <1>2, <1>8, <1>9, <1>11, Own DEF Shape
<1>13. Writing(r) /\ Confirming(r)
  BY <1>8, <1>9, <1>11, Own DEF Writing, Confirming
<1>14. r.writes.rfq # <<>> => at[ParentOf(w)].pc = "done"
  BY <1>9, <1>11, Own DEF Parsing
<1> QED BY <1>8, <1>9, <1>10, <1>11, <1>12, <1>13, <1>14, WorkStep

\* update of the RFQ by its task.
LEMMA UpdateRfqStep ==
    ASSUME MarketInv, NEW w \in Workers, NEW record, UpdateRfq(w, record),
           UNCHANGED <<rfq, matches, profiles>>,
           at[w].op = "parse", at[w].pc # "done", at[ParentOf(w)].pc = "done",
           Shape(w, record), record.op = "parse", record.pc \in {"match", "end"},
           \/ /\ Writing(record) /\ record.writes.matches = <<>>
              /\ record.copy.status = "PARSED"
           \/ /\ record.writes.matches # <<>> /\ Ranked(record.writes.matches[1])
              /\ record.copy.status = "MATCHED" /\ View(record.writes.rfq, rfq) # NoRfq
    PROVE  MarketInv'
<1>1. CASE View(record.writes.rfq, rfq) = NoRfq
  <2>1. at' = [at EXCEPT ![w] = record]
    BY <1>1 DEF UpdateRfq, Become
  <2>2. Writing(record) /\ Confirming(record)
    BY <1>1 DEF Confirming
  <2> QED BY <2>1, <2>2, WorkStep
<1>2. CASE View(record.writes.rfq, rfq) # NoRfq
  <2>1. PICK x : x = [record.writes EXCEPT !.rfq = <<record.copy>>]
    OBVIOUS
  <2>2. PICK n : n = [record EXCEPT !.writes = x]
    OBVIOUS
  <2>3. PICK r : r = [n EXCEPT !.held = record.held \cup {RfqRow}]
    OBVIOUS
  <2>4. /\ DOMAIN x = {"rfq", "matches", "profile"} /\ x.rfq = <<record.copy>>
        /\ x.matches = record.writes.matches /\ x.profile = record.writes.profile
    BY <2>1 DEF Shape
  <2>5. /\ DOMAIN n = WorkFields /\ n.writes = x
        /\ \A g \in WorkFields \ {"writes"} : n[g] = record[g]
    BY <2>2 DEF Shape, WorkFields
  <2>6. DOMAIN r = WorkFields /\ \A g \in WorkFields \ {"held"} : r[g] = n[g]
    BY <2>3, <2>5 DEF WorkFields
  <2>7. /\ DOMAIN r = WorkFields /\ r.op = record.op /\ r.pc = record.pc
        /\ r.seller = record.seller /\ r.text = record.text /\ r.copy = record.copy
        /\ r.profile = record.profile /\ r.writes = x
    BY <2>5, <2>6 DEF WorkFields
  <2>8. at' = [at EXCEPT ![w] = r]
    <3>1. r = [record EXCEPT !.writes.rfq = <<record.copy>>, !.held = @ \cup {RfqRow}]
      BY <2>1, <2>2, <2>3, <2>5, <2>4 DEF Shape, WorkFields
    <3> QED BY <1>2, <3>1 DEF UpdateRfq, Become
  <2>9. <<record.copy>> # <<>> /\ <<record.copy>>[1] = record.copy
    OBVIOUS
  <2>10. Shape(w, r)
    BY <2>4, <2>7, <2>9 DEF Shape, Wrote
  <2>11. Writing(r)
    BY <2>4, <2>7, <2>9 DEF Writing
  <2>12. Confirming(r)
    BY <2>7 DEF Confirming
  <2> QED BY <2>7, <2>8, <2>10, <2>11, <2>12, WorkStep
<1> QED BY <1>1, <1>2

LEMMA ExtractStep ==
    ASSUME MarketInv, NEW w \in Workers, Extract(w)
    PROVE  MarketInv'
<1>0. /\ at[w].op = "parse" /\ at[w].pc = "extract" /\ at[ParentOf(w)].pc = "done"
      /\ UNCHANGED <<rfq, matches, profiles>>
  BY DEF Extract, Unstored
<1>1. CASE Become(w, [at[w] EXCEPT !.pc = "end"])
  BY <1>0, <1>1, PcStep
<1>2. ASSUME NEW parsed \in MarkParsed(at[w].copy),
             UpdateRfq(w, [at[w] EXCEPT !.copy = parsed, !.pc = "match"])
      PROVE  MarketInv'
  <2>0. DOMAIN at[w] = WorkFields /\ at[w].copy \in RfqRows
    BY Own DEF Shape
  <2>1. parsed \in RfqRows /\ parsed.status = "PARSED"
    BY <2>0 DEF MarkParsed, RfqRows, Statuses
  <2>2. PICK n : n = [at[w] EXCEPT !.copy = parsed]
    OBVIOUS
  <2>3. PICK r : r = [n EXCEPT !.pc = "match"]
    OBVIOUS
  <2>4. /\ DOMAIN n = WorkFields /\ n.copy = parsed
        /\ \A g \in WorkFields \ {"copy"} : n[g] = at[w][g]
    BY <2>0, <2>2 DEF WorkFields
  <2>5. DOMAIN r = WorkFields /\ r.pc = "match" /\ \A g \in WorkFields \ {"pc"} : r[g] = n[g]
    BY <2>3, <2>4 DEF WorkFields
  <2>6. /\ DOMAIN r = WorkFields /\ r.op = at[w].op /\ r.seller = at[w].seller
        /\ r.text = at[w].text /\ r.copy = parsed /\ r.profile = at[w].profile
        /\ r.writes = at[w].writes
    BY <2>4, <2>5 DEF WorkFields
  <2>7. UpdateRfq(w, r)
    BY <1>2, <2>2, <2>3
  <2>8. Shape(w, r)
    BY <1>0, <2>1, <2>5, <2>6, Own DEF Shape
  <2>9. Writing(r) /\ r.writes.matches = <<>>
    BY <1>0, <2>5, <2>6, Own DEF Writing
  <2> QED BY <1>0, <2>1, <2>5, <2>6, <2>7, <2>8, <2>9, UpdateRfqStep
<1> QED BY <1>1, <1>2 DEF Extract

LEMMA FindMatchesStep ==
    ASSUME MarketInv, MarketplaceAssumption, NEW w \in Workers, FindMatches(w)
    PROVE  MarketInv'
<1>0. /\ at[w].op = "parse" /\ at[w].pc = "match" /\ at[ParentOf(w)].pc = "done"
      /\ UNCHANGED <<rfq, matches, profiles>>
  BY Own DEF FindMatches, Unstored, Parsing
<1>1. CASE Become(w, [at[w] EXCEPT !.pc = "end"])
  BY <1>0, <1>1, PcStep
<1>2. CASE Become(w, [at[w] EXCEPT !.pc = "failed"])
  BY <1>0, <1>2, PcStep
<1>3. ASSUME NEW ranking \in Rankings \ {<<>>}, NEW matched \in MarkMatched(at[w].copy),
             View(at[w].writes.rfq, rfq) # NoRfq,
             UpdateRfq(w, [SaveBulk(at[w], Ranks(ranking)) EXCEPT
                              !.copy = matched, !.pc = "end"])
      PROVE  MarketInv'
  <2>0. DOMAIN at[w] = WorkFields /\ at[w].copy \in RfqRows
        /\ DOMAIN at[w].writes = {"rfq", "matches", "profile"}
    BY Own DEF Shape
  <2>1. matched \in RfqRows /\ matched.status = "MATCHED"
    BY <2>0 DEF MarkMatched, RfqRows, Statuses
  <2>2. PICK m \in [Sellers -> Nat] : m = Ranks(ranking) /\ Ranked(m)
    BY RanksAreRanked
  <2>3. PICK x : x = [at[w].writes EXCEPT !.matches = <<m>>]
    OBVIOUS
  <2>4. PICK n1 : n1 = [at[w] EXCEPT !.writes = x]
    OBVIOUS
  <2>5. PICK n2 : n2 = [n1 EXCEPT !.copy = matched]
    OBVIOUS
  <2>6. PICK r : r = [n2 EXCEPT !.pc = "end"]
    OBVIOUS
  <2>7. /\ DOMAIN x = {"rfq", "matches", "profile"} /\ x.matches = <<m>>
        /\ x.rfq = at[w].writes.rfq /\ x.profile = at[w].writes.profile
    BY <2>0, <2>3
  <2>8. /\ DOMAIN n1 = WorkFields /\ n1.writes = x
        /\ \A g \in WorkFields \ {"writes"} : n1[g] = at[w][g]
    BY <2>0, <2>4 DEF WorkFields
  <2>9. /\ DOMAIN n2 = WorkFields /\ n2.copy = matched
        /\ \A g \in WorkFields \ {"copy"} : n2[g] = n1[g]
    BY <2>5, <2>8 DEF WorkFields
  <2>10. DOMAIN r = WorkFields /\ r.pc = "end" /\ \A g \in WorkFields \ {"pc"} : r[g] = n2[g]
    BY <2>6, <2>9 DEF WorkFields
  <2>11. /\ DOMAIN r = WorkFields /\ r.op = at[w].op /\ r.seller = at[w].seller
         /\ r.text = at[w].text /\ r.copy = matched /\ r.profile = at[w].profile
         /\ r.writes = x
    BY <2>8, <2>9, <2>10 DEF WorkFields
  <2>12. n1 = SaveBulk(at[w], Ranks(ranking))
    BY <2>2, <2>3, <2>4 DEF SaveBulk
  <2>13. UpdateRfq(w, r)
    BY <1>3, <2>5, <2>6, <2>12
  <2>14. <<m>> # <<>> /\ <<m>>[1] = m
    OBVIOUS
  <2>15. Shape(w, r)
    BY <1>0, <2>1, <2>7, <2>10, <2>11, <2>14, Own DEF Shape, Wrote
  <2> QED BY <1>0, <1>3, <2>1, <2>2, <2>7, <2>10, <2>11, <2>13, <2>14, <2>15, UpdateRfqStep
<1> QED BY <1>1, <1>2, <1>3 DEF FindMatches

LEMMA StartConfirmStep ==
    ASSUME MarketInv, NEW w \in Workers, Fresh(w), StartConfirm(w)
    PROVE  MarketInv'
<1>0. PICK s \in Sellers : Confirmable(s) /\ \E copy \in Confirm(rfq, s) : \E todo :
         Become(w, [Idle EXCEPT !.op = "confirm", !.pc = "update", !.seller = s,
                                !.copy = copy, !.todo = todo])
  BY DEF StartConfirm
<1>1. PICK copy \in Confirm(rfq, s) : \E todo :
         Become(w, [Idle EXCEPT !.op = "confirm", !.pc = "update", !.seller = s,
                                !.copy = copy, !.todo = todo])
  BY <1>0
<1>1a. PICK todo :
         Become(w, [Idle EXCEPT !.op = "confirm", !.pc = "update", !.seller = s,
                                !.copy = copy, !.todo = todo])
  BY <1>1
<1>2. PICK r : r = [Idle EXCEPT !.op = "confirm", !.pc = "update", !.seller = s,
                                !.copy = copy, !.todo = todo]
  OBVIOUS
<1>3. /\ DOMAIN r = WorkFields /\ DOMAIN r.writes = {"rfq", "matches", "profile"}
      /\ r.op = "confirm" /\ r.pc = "update" /\ r.text = 0 /\ r.copy = copy
      /\ r.profile = NoProfile
      /\ r.writes.rfq = <<>> /\ r.writes.matches = <<>> /\ r.writes.profile = <<>>
  BY <1>2 DEF Idle, WorkFields
<1>4. copy \in RfqRows /\ copy.status = "CONFIRMED" /\ copy.seller = s
  BY <1>1 DEF MarketInv, Confirm, RfqRows, Statuses
<1>5. matches[s] # 0 /\ rfq.status = "MATCHED"
  BY <1>0 DEF Confirmable
<1>6. at[w] = Idle /\ w[2] = "request" /\ at[w].op = "none" /\ at[w].pc = "idle"
  BY IdleIs DEF Fresh
<1>7. Shape(w, r) /\ Writing(r)
  BY <1>3, <1>4, <1>6, RowTypes DEF Shape, Writing, Wrote
<1>8. Confirming(r)
  BY <1>3, <1>4, <1>5 DEF Confirming
<1>9. at' = [at EXCEPT ![w] = r] /\ UNCHANGED <<rfq, matches, profiles>>
  BY <1>1a, <1>2 DEF StartConfirm, Become, Unstored
<1> QED BY <1>3, <1>6, <1>7, <1>8, <1>9, WorkStep

LEMMA UpdateNextStep ==
    ASSUME MarketInv, NEW w \in Workers, UpdateNext(w)
    PROVE  MarketInv'
<1>0. /\ at[w].pc = "update" /\ at[w].op = "confirm" /\ DOMAIN at[w] = WorkFields
      /\ DOMAIN at[w].writes = {"rfq", "matches", "profile"}
      /\ at[w].writes.matches = <<>> /\ UNCHANGED <<rfq, matches, profiles>>
  BY Own DEF UpdateNext, Shape, Writing, Unstored
<1>1. PICK held, todo : 
         Become(w, [at[w] EXCEPT !.held = held, !.todo = todo,
            !.writes.rfq = IF Head(at[w].todo) = RfqRow THEN <<at[w].copy>> ELSE @])
  BY DEF UpdateNext
<1>2. PICK e : e = IF Head(at[w].todo) = RfqRow THEN <<at[w].copy>> ELSE at[w].writes.rfq
  OBVIOUS
<1>3. PICK x : x = [at[w].writes EXCEPT !.rfq = e]
  OBVIOUS
<1>4. PICK n1 : n1 = [at[w] EXCEPT !.held = held]
  OBVIOUS
<1>5. PICK n2 : n2 = [n1 EXCEPT !.todo = todo]
  OBVIOUS
<1>6. PICK r : r = [n2 EXCEPT !.writes = x]
  OBVIOUS
<1>7. /\ DOMAIN x = {"rfq", "matches", "profile"} /\ x.rfq = e
      /\ x.matches = at[w].writes.matches /\ x.profile = at[w].writes.profile
  BY <1>0, <1>3
<1>8. DOMAIN n1 = WorkFields /\ \A g \in WorkFields \ {"held"} : n1[g] = at[w][g]
  BY <1>0, <1>4 DEF WorkFields
<1>9. DOMAIN n2 = WorkFields /\ \A g \in WorkFields \ {"todo"} : n2[g] = n1[g]
  BY <1>5, <1>8 DEF WorkFields
<1>10. DOMAIN r = WorkFields /\ r.writes = x /\ \A g \in WorkFields \ {"writes"} : r[g] = n2[g]
  BY <1>6, <1>9 DEF WorkFields
<1>11. /\ DOMAIN r = WorkFields /\ r.op = at[w].op /\ r.pc = at[w].pc
       /\ r.seller = at[w].seller /\ r.text = at[w].text /\ r.copy = at[w].copy
       /\ r.profile = at[w].profile /\ r.writes = x
  BY <1>8, <1>9, <1>10 DEF WorkFields
<1>12. n2.writes = at[w].writes
  BY <1>8, <1>9 DEF WorkFields
<1>13. at' = [at EXCEPT ![w] = r]
  BY <1>1, <1>2, <1>3, <1>4, <1>5, <1>6, <1>12 DEF Become
<1>14. e = <<at[w].copy>> \/ e = at[w].writes.rfq
  BY <1>2
<1>15. <<at[w].copy>> # <<>> /\ <<at[w].copy>>[1] = at[w].copy
  OBVIOUS
<1>16. Wrote(e, RfqRows)
  BY <1>14, <1>15, Own DEF Shape, Wrote
<1>17. Shape(w, r)
  BY <1>0, <1>7, <1>11, <1>16, Own DEF Shape
<1>18. Writing(r)
  BY <1>0, <1>7, <1>11, <1>14, <1>15, Own DEF Writing
<1>19. Confirming(r)
  BY <1>0, <1>11, Own DEF Confirming
<1> QED BY <1>0, <1>11, <1>13, <1>17, <1>18, <1>19, WorkStep

LEMMA StartProfileStep ==
    ASSUME MarketInv, MarketplaceAssumption, NEW w \in Workers, Fresh(w),
           StartUpdate(w) \/ StartRecompute(w)
    PROVE  MarketInv'
<1>1. at[w] = Idle /\ w[2] = "request" /\ at[w].op = "none" /\ at[w].pc = "idle"
  BY IdleIs DEF Fresh
<1>2. ASSUME NEW s \in Sellers, NEW t \in Texts,
             Become(w, [Idle EXCEPT !.op = "profile", !.pc = "store", !.seller = s,
                                    !.text = t, !.profile = profiles[s]]),
             Unstored
      PROVE  MarketInv'
  <2>1. PICK r : r = [Idle EXCEPT !.op = "profile", !.pc = "store", !.seller = s,
                                  !.text = t, !.profile = profiles[s]]
    OBVIOUS
  <2>2. /\ DOMAIN r = WorkFields /\ DOMAIN r.writes = {"rfq", "matches", "profile"}
        /\ r.op = "profile" /\ r.pc = "store" /\ r.text = t /\ r.copy = NoRfq
        /\ r.profile = profiles[s] /\ r.seller = s
        /\ r.writes.rfq = <<>> /\ r.writes.matches = <<>> /\ r.writes.profile = <<>>
    BY <2>1 DEF Idle, WorkFields
  <2>3. t \in Nat /\ profiles[s] \in ProfileRows
    BY DEF MarketplaceAssumption, MarketInv, TrueProfiles
  <2>4. Shape(w, r) /\ Writing(r) /\ Confirming(r)
    BY <1>1, <2>2, <2>3, RowTypes DEF Shape, Writing, Confirming, Wrote
  <2>5. at' = [at EXCEPT ![w] = r] /\ UNCHANGED <<rfq, matches, profiles>>
    BY <1>2, <2>1 DEF Become, Unstored
  <2> QED BY <1>1, <2>2, <2>4, <2>5, WorkStep
<1>3. ASSUME NEW s \in Sellers,
             Become(w, [Idle EXCEPT !.op = "recompute", !.pc = "load", !.seller = s]),
             Unstored
      PROVE  MarketInv'
  <2>1. PICK r : r = [Idle EXCEPT !.op = "recompute", !.pc = "load", !.seller = s]
    OBVIOUS
  <2>2. /\ DOMAIN r = WorkFields /\ DOMAIN r.writes = {"rfq", "matches", "profile"}
        /\ r.op = "recompute" /\ r.pc = "load" /\ r.text = 0 /\ r.copy = NoRfq
        /\ r.profile = NoProfile /\ r.seller = s
        /\ r.writes.rfq = <<>> /\ r.writes.matches = <<>> /\ r.writes.profile = <<>>
    BY <2>1 DEF Idle, WorkFields
  <2>3. Shape(w, r) /\ Writing(r) /\ Confirming(r)
    BY <1>1, <2>2, RowTypes DEF Shape, Writing, Confirming, Wrote
  <2>4. at' = [at EXCEPT ![w] = r] /\ UNCHANGED <<rfq, matches, profiles>>
    BY <1>3, <2>1 DEF Become, Unstored
  <2> QED BY <1>1, <2>2, <2>3, <2>4, WorkStep
<1> QED BY <1>2, <1>3 DEF StartUpdate, StartRecompute

LEMMA StoreStep ==
    ASSUME MarketInv, NEW w \in Workers, StoreProfile(w) \/ InsertProfile(w)
    PROVE  MarketInv'
<1>0. /\ at[w].op = "profile" /\ at[w].pc \in {"store", "insert"}
      /\ UNCHANGED <<rfq, matches, profiles>>
  BY DEF StoreProfile, InsertProfile, Unstored
<1>1. /\ DOMAIN at[w] = WorkFields /\ DOMAIN at[w].writes = {"rfq", "matches", "profile"}
      /\ at[w].text \in Nat /\ Wrote(at[w].writes.profile, TrueProfiles)
  BY Own DEF Shape
<1>2. CASE Stored(w, at[w])
  BY <1>0, <1>1, <1>2, StoredStep
<1>3. CASE Stored(w, WithText(at[w]))
  <2>1. PICK p : p = [text |-> at[w].text, embedding |-> 0]
    OBVIOUS
  <2>2. PICK x : x = [at[w].writes EXCEPT !.profile = <<p>>]
    OBVIOUS
  <2>3. PICK n : n = [at[w] EXCEPT !.writes = x]
    OBVIOUS
  <2>4. PICK r : r = [n EXCEPT !.held = at[w].held \cup {ProfileRow(at[w].seller)}]
    OBVIOUS
  <2>5. /\ DOMAIN x = {"rfq", "matches", "profile"} /\ x.profile = <<p>>
        /\ x.matches = at[w].writes.matches /\ x.rfq = at[w].writes.rfq
    BY <1>1, <2>2
  <2>6. /\ DOMAIN n = WorkFields /\ n.writes = x
        /\ \A g \in WorkFields \ {"writes"} : n[g] = at[w][g]
    BY <1>1, <2>3 DEF WorkFields
  <2>7. DOMAIN r = WorkFields /\ \A g \in WorkFields \ {"held"} : r[g] = n[g]
    BY <2>4, <2>6 DEF WorkFields
  <2>8. /\ r.op = at[w].op /\ r.seller = at[w].seller
        /\ r.text = at[w].text /\ r.copy = at[w].copy
        /\ r.profile = at[w].profile /\ r.writes = x /\ n.held = at[w].held
    BY <2>6, <2>7 DEF WorkFields
  <2>9. r = WithText(at[w])
    BY <2>1, <2>2, <2>3, <2>4, <2>8 DEF WithText
  <2>10. p \in TrueProfiles /\ <<p>> # <<>> /\ <<p>>[1] = p
    BY <1>1, <2>1 DEF TrueProfiles, ProfileRows
  <2>11. Wrote(x.profile, TrueProfiles)
    BY <2>5, <2>10 DEF Wrote
  <2> QED BY <1>0, <1>3, <2>5, <2>7, <2>8, <2>9, <2>11, StoredStep
<1>4. CASE Become(w, [at[w] EXCEPT !.pc = "insert"])
  BY <1>0, <1>4, PcStep
<1>5. CASE Become(w, [at[w] EXCEPT !.pc = "failed"])
  BY <1>0, <1>5, PcStep
<1> QED BY <1>2, <1>3, <1>4, <1>5 DEF StoreProfile, InsertProfile

LEMMA LoadProfileStep ==
    ASSUME MarketInv, NEW w \in Workers, LoadProfile(w)
    PROVE  MarketInv'
<1>0. /\ at[w].op = "recompute" /\ at[w].pc = "load" /\ at[w].seller \in Sellers
      /\ DOMAIN at[w] = WorkFields
  BY Own DEF LoadProfile, Shape
<1>1. PICK row : row = IF w[2] = "task"
                  THEN ShownTo(w, at[ParentOf(w)].writes.profile, profiles[at[w].seller])
                  ELSE profiles[at[w].seller]
  OBVIOUS
<1>2. row \in ProfileRows
  <2>1. Wrote(at[ParentOf(w)].writes.profile, TrueProfiles)
    BY ParentIs DEF MarketInv, Shape
  <2>2. profiles[at[w].seller] \in TrueProfiles
    BY <1>0 DEF MarketInv
  <2>3. View(at[ParentOf(w)].writes.profile, profiles[at[w].seller]) \in TrueProfiles
    BY <2>1, <2>2, Views
  <2>4. row \in TrueProfiles
    BY <1>1, <2>2, <2>3 DEF ShownTo
  <2> QED BY <2>4 DEF TrueProfiles
<1>3. PICK pc \in {"end", "embed"} :
         Become(w, [at[w] EXCEPT !.profile = row, !.pc = pc])
  BY <1>1 DEF LoadProfile
<1>4. PICK n : n = [at[w] EXCEPT !.profile = row]
  OBVIOUS
<1>5. PICK r : r = [n EXCEPT !.pc = pc]
  OBVIOUS
<1>7. /\ DOMAIN n = WorkFields /\ n.profile = row
      /\ \A g \in WorkFields \ {"profile"} : n[g] = at[w][g]
  BY <1>0, <1>4 DEF WorkFields
<1>8. DOMAIN r = WorkFields /\ r.pc = pc /\ \A g \in WorkFields \ {"pc"} : r[g] = n[g]
  BY <1>5, <1>7 DEF WorkFields
<1>9. /\ DOMAIN r = WorkFields /\ r.op = at[w].op /\ r.seller = at[w].seller
      /\ r.text = at[w].text /\ r.copy = at[w].copy /\ r.profile = row
      /\ r.writes = at[w].writes
  BY <1>7, <1>8 DEF WorkFields
<1>10. at' = [at EXCEPT ![w] = r] /\ UNCHANGED <<rfq, matches, profiles>>
  BY <1>3, <1>4, <1>5 DEF LoadProfile, Become, Unstored
<1>11. Shape(w, r)
  BY <1>0, <1>2, <1>8, <1>9, Own DEF Shape
<1>12. Writing(r) /\ Confirming(r)
  BY <1>0, <1>8, <1>9, Own DEF Writing, Confirming
<1> QED BY <1>0, <1>8, <1>9, <1>10, <1>11, <1>12, WorkStep

LEMMA StoreEmbeddingStep ==
    ASSUME MarketInv, NEW w \in Workers, StoreEmbedding(w)
    PROVE  MarketInv'
<1>0. /\ at[w].op = "recompute" /\ at[w].pc = "embed" /\ at[w].profile \in ProfileRows
      /\ DOMAIN at[w] = WorkFields /\ DOMAIN at[w].writes = {"rfq", "matches", "profile"}
      /\ UNCHANGED <<rfq, matches, profiles>>
  BY Own DEF StoreEmbedding, Shape, Unstored
<1>1. CASE Become(w, [at[w] EXCEPT !.pc = "end"])
  BY <1>0, <1>1, PcStep
<1>2. CASE Become(w, [at[w] EXCEPT !.writes.profile = <<Recomputed(w)>>, !.pc = "end",
                                   !.held = @ \cup {ProfileRow(at[w].seller)}])
  <2>1. PICK p : p = Recomputed(w)
    OBVIOUS
  <2>2. p \in TrueProfiles /\ <<p>> # <<>> /\ <<p>>[1] = p
    BY <1>0, <2>1 DEF Recomputed, TrueProfiles, ProfileRows
  <2>3. PICK x : x = [at[w].writes EXCEPT !.profile = <<p>>]
    OBVIOUS
  <2>4. PICK n1 : n1 = [at[w] EXCEPT !.writes = x]
    OBVIOUS
  <2>5. PICK n2 : n2 = [n1 EXCEPT !.pc = "end"]
    OBVIOUS
  <2>6. PICK r : r = [n2 EXCEPT !.held = at[w].held \cup {ProfileRow(at[w].seller)}]
    OBVIOUS
  <2>7. /\ DOMAIN x = {"rfq", "matches", "profile"} /\ x.profile = <<p>>
        /\ x.matches = at[w].writes.matches /\ x.rfq = at[w].writes.rfq
    BY <1>0, <2>3
  <2>8. /\ DOMAIN n1 = WorkFields /\ n1.writes = x
        /\ \A g \in WorkFields \ {"writes"} : n1[g] = at[w][g]
    BY <1>0, <2>4 DEF WorkFields
  <2>9. /\ DOMAIN n2 = WorkFields /\ n2.pc = "end"
        /\ \A g \in WorkFields \ {"pc"} : n2[g] = n1[g]
    BY <2>5, <2>8 DEF WorkFields
  <2>10. DOMAIN r = WorkFields /\ \A g \in WorkFields \ {"held"} : r[g] = n2[g]
    BY <2>6, <2>9 DEF WorkFields
  <2>11. /\ r.op = at[w].op /\ r.seller = at[w].seller /\ r.pc = "end"
         /\ r.text = at[w].text /\ r.copy = at[w].copy
         /\ r.profile = at[w].profile /\ r.writes = x /\ n2.held = at[w].held
    BY <2>8, <2>9, <2>10 DEF WorkFields
  <2>12. at' = [at EXCEPT ![w] = r]
    BY <1>2, <2>1, <2>3, <2>4, <2>5, <2>6, <2>11 DEF Become
  <2>13. Shape(w, r)
    BY <1>0, <2>2, <2>7, <2>10, <2>11, Own DEF Shape, Wrote
  <2>14. Writing(r) /\ Confirming(r)
    BY <1>0, <2>7, <2>11, Own DEF Writing, Confirming
  <2> QED BY <1>0, <2>11, <2>12, <2>13, <2>14, WorkStep
<1> QED BY <1>1, <1>2 DEF StoreEmbedding

\* Whoever ends keeps its operation, and nothing else.
LEMMA EndShape ==
    ASSUME MarketInv, NEW w \in Workers,
           at' = [at EXCEPT ![w] = [Idle EXCEPT !.op = at[w].op, !.pc = "done"]]
    PROVE  /\ at'[w].op = at[w].op /\ at'[w].pc = "done"
           /\ (\A v \in Workers \ {w} : at'[v] = at[v]) /\ DOMAIN at' = Workers
           /\ \A v \in Workers : Shape(v, at'[v]) /\ Writing(at'[v])
           /\ \A v \in Workers : Parsing(v)'
           /\ \A u, v \in Workers : at'[u].op = "upload" /\ at'[v].op = "upload" => u = v
<1>1. PICK r : r = [Idle EXCEPT !.op = at[w].op, !.pc = "done"]
  OBVIOUS
<1>2. /\ DOMAIN r = WorkFields /\ DOMAIN r.writes = {"rfq", "matches", "profile"}
      /\ r.op = at[w].op /\ r.pc = "done" /\ r.text = 0 /\ r.copy = NoRfq
      /\ r.profile = NoProfile
      /\ r.writes.rfq = <<>> /\ r.writes.matches = <<>> /\ r.writes.profile = <<>>
  BY <1>1 DEF Idle, WorkFields
<1>3. /\ at'[w] = r /\ (\A v \in Workers \ {w} : at'[v] = at[v]) /\ DOMAIN at' = Workers
  BY <1>1 DEF MarketInv
<1>4. Shape(w, r) /\ Writing(r)
  BY <1>2, Own, RowTypes DEF Shape, Writing, Wrote
<1>5. ASSUME NEW v \in Workers PROVE Shape(v, at'[v]) /\ Writing(at'[v])
  <2>1. CASE v = w
    BY <1>3, <1>4, <2>1
  <2>2. CASE v # w
    BY <1>3, <2>2, Own
  <2> QED BY <2>1, <2>2
<1>6. ASSUME NEW v \in Workers PROVE at'[v].op = at[v].op
  BY <1>2, <1>3
<1>7. ASSUME NEW v \in Workers PROVE Parsing(v)'
  <2>0. SUFFICES ASSUME at[v].op = "parse"
        PROVE  /\ at'[ParentOf(v)].op = "upload"
               /\ at'[v].pc = "match" \/ at'[v].writes.rfq # <<>>
                    => at'[ParentOf(v)].pc = "done"
    BY <1>6 DEF Parsing
  <2>1. /\ at[ParentOf(v)].op = "upload"
        /\ at[v].pc = "match" \/ at[v].writes.rfq # <<>> => at[ParentOf(v)].pc = "done"
    BY <2>0, Own DEF Parsing
  <2>2. at'[ParentOf(v)].op = "upload"
    BY <1>6, <2>1, ParentIs
  <2>3. CASE v = w
    BY <1>2, <1>3, <2>2, <2>3
  <2>4. CASE v # w
    BY <1>2, <1>3, <2>1, <2>2, <2>4, ParentIs
  <2> QED BY <2>3, <2>4
<1> QED BY <1>2, <1>3, <1>5, <1>6, <1>7 DEF MarketInv

LEMMA EndStep ==
    ASSUME MarketInv, NEW w \in Workers, End(w)
    PROVE  MarketInv'
<1>1. PICK end \in {"commit", "rollback"} \cup Ends : EndAs(w, end)
  BY DEF End
<1>2. at[w].pc # "done"
  BY DEF End
<1>3. at' = [at EXCEPT ![w] = [Idle EXCEPT !.op = at[w].op, !.pc = "done"]]
  BY <1>1 DEF EndAs
<1>4. /\ at'[w].op = at[w].op /\ at'[w].pc = "done"
      /\ (\A v \in Workers \ {w} : at'[v] = at[v]) /\ DOMAIN at' = Workers
      /\ \A v \in Workers : Shape(v, at'[v]) /\ Writing(at'[v])
      /\ \A v \in Workers : Parsing(v)'
      /\ \A u, v \in Workers : at'[u].op = "upload" /\ at'[v].op = "upload" => u = v
  BY <1>3, EndShape
<1>5. profiles' \in [Sellers -> TrueProfiles]
  <2>1. at[w].writes.profile # <<>> => at[w].writes.profile[1] \in TrueProfiles
    BY Own DEF Shape, Wrote
  <2>2. \/ profiles' = profiles
        \/ /\ at[w].writes.profile # <<>>
           /\ profiles' = [profiles EXCEPT ![at[w].seller] = at[w].writes.profile[1]]
    BY <1>1 DEF EndAs
  <2> QED BY <2>1, <2>2 DEF MarketInv
<1>6. /\ rfq' \in RfqRows /\ matches' \in [Sellers -> Nat]
      /\ \A v \in Workers \ {w} : Confirming(at[v])'
      /\ Settled'
  <2>0. /\ Wrote(at[w].writes.rfq, RfqRows) /\ Wrote(at[w].writes.matches, [Sellers -> Nat])
        /\ Writing(at[w]) /\ Confirming(at[w]) /\ Parsing(w)
    BY Own DEF Shape
  <2>1. ASSUME rfq' = rfq, matches' = matches
        PROVE  /\ \A v \in Workers \ {w} : Confirming(at[v])'
               /\ Settled'
    <3>1. ASSUME NEW v \in Workers \ {w} PROVE Confirming(at[v])'
      BY <1>4, <2>1, Own DEF Confirming
    <3>2. Settled'
      <4>1. \A v \in Workers : at'[v].op = at[v].op /\ (at[v].pc = "done" => at'[v].pc = "done")
        BY <1>4
      <4> QED BY <2>1, <4>1 DEF MarketInv, Settled, Ranked
    <3> QED BY <3>1, <3>2
  <2>2. CASE rfq' = rfq /\ matches' = matches
    BY <2>1, <2>2 DEF MarketInv
  <2>3. ASSUME rfq' = at[w].writes.rfq[1], at[w].writes.rfq # <<>>,
               at[w].op \in {"upload", "parse"}
        PROVE  /\ \A v \in Workers \ {w} : Confirming(at[v])'
               /\ rfq.status \notin {"MATCHED", "CONFIRMED"}
    <3>1. rfq.status \notin {"MATCHED", "CONFIRMED"}
      BY <1>2, <2>3 DEF MarketInv, Settled
    <3>2. ASSUME NEW v \in Workers \ {w} PROVE Confirming(at[v])'
      <4>1. at[v].op # "confirm" \/ at[v].pc = "done"
        BY <3>1, Own DEF Confirming
      <4> QED BY <1>4, <4>1 DEF Confirming
    <3> QED BY <3>1, <3>2
  <2>4. CASE /\ at[w].writes.rfq # <<>> /\ rfq' = at[w].writes.rfq[1]
             /\ matches' = View(at[w].writes.matches, matches)
    <3>0. rfq' \in RfqRows
      BY <2>0, <2>4 DEF Wrote
    <3>1. CASE /\ at[w].op \in {"upload", "parse"} /\ at[w].writes.matches = <<>>
               /\ at[w].writes.rfq[1].status \in {"DRAFT", "PARSED"}
      <4>1. matches' = matches
        BY <2>4, <3>1 DEF View
      <4>2. Settled'
        BY <2>4, <3>1 DEF Settled
      <4> QED BY <2>3, <2>4, <3>0, <3>1, <4>1, <4>2 DEF MarketInv
    <3>2. CASE /\ at[w].op = "parse" /\ at[w].writes.matches # <<>>
               /\ Ranked(at[w].writes.matches[1])
               /\ at[w].writes.rfq[1].status = "MATCHED"
      <4>1. matches' = at[w].writes.matches[1] /\ matches' \in [Sellers -> Nat]
        BY <2>0, <2>4, <3>2 DEF View, Wrote
      <4>2. Ranked(matches')
        BY <3>2, <4>1
      <4>3. /\ at[ParentOf(w)].op = "upload" /\ at[ParentOf(w)].pc = "done"
            /\ ParentOf(w) \in Workers /\ ParentOf(w) # w /\ w[2] = "task"
        BY <1>2, <2>0, <2>4, <3>2, Own, ParentIs DEF Parsing, Shape
      <4>4. at'[ParentOf(w)] = at[ParentOf(w)]
        BY <1>4, <4>3
      <4>5. ASSUME NEW v \in Workers, at'[v].op = "upload" PROVE at'[v].pc = "done"
        <5>1. v = ParentOf(w)
          BY <1>4, <4>3, <4>4, <4>5
        <5> QED BY <4>3, <4>4, <5>1
      <4>6. ASSUME NEW v \in Workers, at'[v].op = "parse" PROVE at'[v].pc = "done"
        <5>1. at[v].op = "parse" /\ v[2] = "task"
          BY <1>4, <4>6 DEF Shape
        <5>2. at[ParentOf(v)].op = "upload" /\ ParentOf(v) \in Workers
          BY <5>1, Own, ParentIs DEF Parsing
        <5>3. ParentOf(v) = ParentOf(w)
          BY <4>3, <5>2 DEF MarketInv
        <5>4. v = w
          BY <4>3, <5>1, <5>3 DEF ParentOf, Workers
        <5> QED BY <1>4, <5>4
      <4>7. Settled'
        <5>1. rfq'.status = "MATCHED"
          BY <2>4, <3>2
        <5>2. \E v \in Workers : at'[v].op = "upload"
          BY <4>3, <4>4
        <5> QED BY <4>2, <4>5, <4>6, <5>1, <5>2 DEF Settled
      <4> QED BY <2>3, <2>4, <3>0, <3>2, <4>1, <4>7
    <3>3. CASE /\ at[w].op = "confirm" /\ at[w].writes.matches = <<>>
               /\ at[w].writes.rfq[1] = at[w].copy
      <4>1. matches' = matches
        BY <2>4, <3>3 DEF View
      <4>2. /\ rfq.status \in {"MATCHED", "CONFIRMED"} /\ rfq'.status = "CONFIRMED"
            /\ rfq'.seller \in Sellers /\ matches'[rfq'.seller] # 0
        BY <1>2, <2>0, <2>4, <3>3, <4>1 DEF Confirming
      <4>3. ASSUME NEW v \in Workers \ {w} PROVE Confirming(at[v])'
        BY <1>4, <4>1, <4>2, Own DEF Confirming
      <4>4. \A v \in Workers : at'[v].op = at[v].op /\ (at[v].pc = "done" => at'[v].pc = "done")
        BY <1>4
      <4>5. Settled'
        BY <4>1, <4>2, <4>4 DEF MarketInv, Settled, Ranked
      <4> QED BY <3>0, <4>1, <4>3, <4>5 DEF MarketInv
    <3> QED BY <2>0, <2>4, <3>1, <3>2, <3>3 DEF Writing
  <2>5. \/ rfq' = rfq /\ matches' = matches
        \/ /\ at[w].writes.rfq # <<>> /\ rfq' = at[w].writes.rfq[1]
           /\ matches' = View(at[w].writes.matches, matches)
    BY <1>1, <2>0 DEF EndAs, View, Writing
  <2> QED BY <2>2, <2>4, <2>5
<1>7. ASSUME NEW v \in Workers PROVE Confirming(at[v])'
  <2>1. CASE v = w
    BY <1>4, <2>1 DEF Confirming
  <2>2. CASE v # w
    BY <1>6, <2>2
  <2> QED BY <2>1, <2>2
<1> QED BY <1>4, <1>5, <1>6, <1>7 DEF MarketInv

----------------------------------------------------------------------------
(* The theorems. *)

LEMMA MarketInit == ASSUME Init, MarketplaceAssumption PROVE MarketInv
<1>1. \A w \in Workers : at[w] = Idle
  BY DEF Init
<1>2. ASSUME NEW w \in Workers
      PROVE  Shape(w, at[w]) /\ Writing(at[w]) /\ Confirming(at[w]) /\ Parsing(w)
  BY <1>1, IdleIs, RowTypes DEF Shape, Writing, Confirming, Parsing, Wrote
<1>3. rfq \in RfqRows /\ matches \in [Sellers -> Nat] /\ rfq.status = "absent"
  BY RowTypes DEF Init, NoMatches, NoRfq
<1>4. profiles \in [Sellers -> TrueProfiles]
  <2>1. PICK t \in Texts :
           profiles \in [Sellers -> {NoProfile, [text |-> t, embedding |-> t]}]
    BY DEF Init
  <2>2. [text |-> t, embedding |-> t] \in TrueProfiles
    BY DEF MarketplaceAssumption, TrueProfiles, ProfileRows
  <2> QED BY <2>1, <2>2, RowTypes
<1>5. \A v \in Workers : at[v].op # "upload"
  BY <1>1, IdleIs
<1> QED BY <1>2, <1>3, <1>4, <1>5 DEF Init, MarketInv, Settled

LEMMA MarketNext ==
    ASSUME MarketInv, MarketplaceAssumption, [Next]_vars
    PROVE  MarketInv'
<1>1. CASE UNCHANGED vars
  BY <1>1 DEF vars, MarketInv, Confirming, Parsing, Settled
<1>2. ASSUME NEW w \in Workers, StartRfq(w) \/ StartProfile(w) PROVE MarketInv'
  BY <1>2, UploadStep, StartConfirmStep, StartProfileStep DEF StartRfq, StartProfile
<1>3. ASSUME NEW w \in Workers, Progress(w) PROVE MarketInv'
  <2>1. CASE PublishConfirmed(w)
    BY <2>1, PcStep DEF PublishConfirmed
  <2>2. CASE BreakDeadlock(w)
    BY <2>2, PcStep DEF BreakDeadlock, Unstored
  <2> QED BY <1>3, <2>1, <2>2, LoadRfqStep, ExtractStep, FindMatchesStep, UpdateNextStep,
             StoreStep, LoadProfileStep, StoreEmbeddingStep, EndStep DEF Progress
<1> QED BY <1>1, <1>2, <1>3 DEF Next

\* The invariant of the marketplace.
THEOREM MarketInvariant == ASSUME MarketplaceAssumption PROVE Spec => []MarketInv
<1>1. Init => MarketInv
  BY MarketInit
<1>2. MarketInv /\ [Next]_vars => MarketInv'
  BY MarketNext
<1> QED BY <1>1, <1>2, PTL DEF Spec

\* Whichever updates and recomputations of profiles overlap, and whichever are
\* rolled back, an embedding was computed from the text it is stored beside.
THEOREM EmbeddingsAreOfTexts ==
    ASSUME MarketplaceAssumption PROVE Spec => []EmbeddingIsOfText
<1>1. MarketInv => EmbeddingIsOfText
  BY DEF MarketInv, EmbeddingIsOfText, TrueProfiles
<1> QED BY <1>1, MarketInvariant, PTL

\* An RFQ is matched or confirmed only with its matches, which are ranked without
\* a gap or a tie, and confirmed only with one of them, however often it is
\* confirmed at the same time.
THEOREM MatchesAreThere ==
    ASSUME MarketplaceAssumption PROVE Spec => []MatchedRfqHasMatches
<1>1. MarketInv => MatchedRfqHasMatches
  BY DEF MarketInv, Settled, Ranked, MatchedRfqHasMatches
<1> QED BY <1>1, MarketInvariant, PTL

=============================================================================
