----------------------------- MODULE Marketplace -----------------------------
(***************************************************************************)
(* MarketplaceService and its repositories, around one RFQ: uploading it,  *)
(* the background task that parses it and finds sellers, confirming one of *)
(* the matches, and the sellers' capability profiles with the background   *)
(* recomputation of their embeddings.                                      *)
(*                                                                         *)
(* A request and the task it spawns each write in a transaction (READ      *)
(* COMMITTED) that ends with the session: Ends says how.  An UPDATE locks  *)
(* its row until that end and overwrites every column from a copy loaded   *)
(* without a lock.  The language model is slow: a task's first write comes *)
(* after the end of the request that spawned it.                           *)
(*                                                                         *)
(* Abstracted: the parsed fields, the similarity (sellers are ranked in    *)
(* any order) and the columns of a profile, all told apart by its text.    *)
(* Match.status is left out: no repository stores it.                      *)
(***************************************************************************)
EXTENDS Integers, Sequences, FiniteSets, SequencesExt

CONSTANTS
    MaxRequests,  \* model bound: requests made
    Sellers,      \* enterprises that may keep a capability profile
    Texts,        \* contents of a profile: positive integers
    TopN,         \* top_n_matches
    Ends,         \* how a session may end: "commit", "rollback"
    Matchmakers,  \* "pgvector", "stub"
    NoOne         \* the seller confirmed when there is none

MarketplaceAssumption ==
    /\ MaxRequests \in Nat /\ Texts \subseteq Nat \ {0} /\ TopN \in Nat \ {0}
    /\ Ends \subseteq {"commit", "rollback"} /\ Ends # {}
    /\ Matchmakers \subseteq {"pgvector", "stub"}
    /\ IsFiniteSet(Sellers) /\ NoOne \notin Sellers

VARIABLES
    rfq,       \* the row of rfqs
    matches,   \* table matches: the rank of each matched seller (0: no row)
    profiles,  \* table capability_profiles: its text and the text its embedding
               \* was computed from (0: no row, no embedding)
    confirmed, \* the sellers RFQConfirmed was published for
    at         \* what each request and each task is doing

vars == <<rfq, matches, profiles, confirmed, at>>

----------------------------------------------------------------------------
(* The tables, and a transaction's view of them. *)

Workers == (1..MaxRequests) \X {"request", "task"}

TaskOf(w) == <<w[1], "task">>
ParentOf(w) == <<w[1], "request">>

NoRfq == [status |-> "absent", seller |-> NoOne]
NoProfile == [text |-> 0, embedding |-> 0]
NoMatches == [s \in Sellers |-> 0]

\* held: the rows locked; todo: the rows a confirmation has still to update;
\* rfq, matches, profile: the rows written (none yet: "unwritten").
Idle == [op |-> "none", pc |-> "idle", seller |-> NoOne, text |-> 0,
         copy |-> NoRfq, profile |-> NoProfile, held |-> {}, todo |-> <<>>,
         writes |-> [rfq |-> <<>>, matches |-> <<>>, profile |-> <<>>]]

RfqRow == <<"rfq", NoOne>>
MatchRow(s) == <<"match", s>>
ProfileRow(s) == <<"profile", s>>

Free(w, row) == \A v \in Workers \ {w} : row \notin at[v].held

\* The aggregate's transitions: what each makes of a copy, or nothing where it
\* raises ConflictError.
MarkParsed(r) == IF r.status = "DRAFT" THEN {[r EXCEPT !.status = "PARSED"]} ELSE {}

MarkMatched(r) == IF r.status = "PARSED" THEN {[r EXCEPT !.status = "MATCHED"]} ELSE {}

Confirm(r, s) ==
    IF r.status = "MATCHED" THEN {[r EXCEPT !.status = "CONFIRMED", !.seller = s]} ELSE {}

\* The row w's transaction reads: its own write, or the committed row.
View(written, committed) == IF written = <<>> THEN committed ELSE written[1]

\* What the task of an open request reads: they share the session.
ShownTo(w, written, committed) ==
    IF at[ParentOf(w)].pc = "end" THEN View(written, committed) ELSE committed

Init ==
    /\ rfq = NoRfq /\ matches = NoMatches /\ confirmed = {}
    /\ \E t \in Texts : profiles \in [Sellers -> {NoProfile, [text |-> t, embedding |-> t]}]
    /\ at = [w \in Workers |-> Idle]

\* get_db_session closes the session: w's writes are committed or lost.
EndAs(w, end) ==
    /\ LET o == at[w].writes
           kept == end = "commit"
       IN  /\ rfq' = IF kept THEN View(o.rfq, rfq) ELSE rfq
           /\ matches' = IF kept THEN View(o.matches, matches) ELSE matches
           /\ profiles' = IF kept /\ o.profile # <<>>
                          THEN [profiles EXCEPT ![at[w].seller] = o.profile[1]]
                          ELSE profiles
    /\ at' = [at EXCEPT ![w] = [Idle EXCEPT !.op = at[w].op, !.pc = "done"]]
    /\ UNCHANGED confirmed

\* Mutation check only: a confirmation leaves its session open.
EndUnlessConfirm(w) ==
    \/ at[w].pc = "end" /\ at[w].op # "confirm" /\ \E end \in Ends : EndAs(w, end)
    \/ at[w].pc = "failed" /\ EndAs(w, "rollback")

\* A transaction in which a statement failed can only be rolled back.
End(w) ==
    \/ at[w].pc = "end" /\ \E end \in Ends : EndAs(w, end)
    \/ at[w].pc = "failed" /\ EndAs(w, "rollback")

Unstored == UNCHANGED <<rfq, matches, profiles, confirmed>>

Become(w, record) == at' = [at EXCEPT ![w] = record]

----------------------------------------------------------------------------
(* upload_rfq, and the task it spawns. *)

\* The row PostgresRFQRepository.save inserts.
Saved == [NoRfq EXCEPT !.status = "DRAFT"]

\* Model bound: one RFQ is uploaded.
UploadRFQ(w) ==
    /\ \A v \in Workers : at[v].op # "upload"
    /\ at' = [at EXCEPT
          ![w] = [Idle EXCEPT !.op = "upload", !.pc = "end", !.held = {RfqRow},
                              !.writes.rfq = <<Saved>>],
          ![TaskOf(w)] = [Idle EXCEPT !.op = "parse", !.pc = "load"]]
    /\ Unstored

\* A task that finds no row stops.
LoadRfq(w) ==
    /\ at[w].op = "parse" /\ at[w].pc = "load"
    /\ LET row == ShownTo(w, at[ParentOf(w)].writes.rfq, rfq)
       IN  Become(w, [at[w] EXCEPT !.copy = row,
                                   !.pc = IF row = NoRfq THEN "end" ELSE "extract"])
    /\ Unstored

\* PostgresRFQRepository.update: no row, no effect.
UpdateRfq(w, record) ==
    LET row == View(record.writes.rfq, rfq)
    IN  /\ row # NoRfq => Free(w, RfqRow)
        /\ Become(w, IF row = NoRfq THEN record
                     ELSE [record EXCEPT !.writes.rfq = <<record.copy>>,
                                         !.held = @ \cup {RfqRow}])

\* extract_rfq_fields answers with a product, or with nothing, or raises: the
\* RFQ is PARSED, or stays DRAFT.
Extract(w) ==
    /\ at[w].op = "parse" /\ at[w].pc = "extract"
    /\ at[ParentOf(w)].pc = "done"
    /\ \/ Become(w, [at[w] EXCEPT !.pc = "end"])
       \/ \E parsed \in MarkParsed(at[w].copy) :
             UpdateRfq(w, [at[w] EXCEPT !.copy = parsed, !.pc = "match"])
    /\ Unstored

\* PgvectorMatchmaker.find_matches: the best TopN of the profiles that have an
\* embedding, the buyer's own left out.
Rankings ==
    LET found == {s \in Sellers : profiles[s].embedding # 0}
        count == IF Cardinality(found) < TopN THEN Cardinality(found) ELSE TopN
    IN  {r \in [1..count -> found] : \A i, j \in 1..count : i # j => r[i] # r[j]}

\* Mutation check only: the rank of the second seller repeats the first's.
RanksFromZero(ranking) ==
    [s \in Sellers |-> IF \E i \in DOMAIN ranking : ranking[i] = s
                       THEN (CHOOSE i \in DOMAIN ranking : ranking[i] = s) - 1 ELSE 0]

\* The Match entities: rank + 1 of the position in the list.
Ranks(ranking) ==
    [s \in Sellers |-> IF \E i \in DOMAIN ranking : ranking[i] = s
                       THEN CHOOSE i \in DOMAIN ranking : ranking[i] = s ELSE 0]

\* PostgresMatchRepository.save_bulk
SaveBulk(record, ranks) == [record EXCEPT !.writes.matches = <<ranks>>]

\* The embedding fails or finds nobody: the RFQ stays PARSED.  Else the matches
\* are saved - not when the RFQ has no row, and not the stub's, whose sellers
\* are no enterprises - and the RFQ is MATCHED.
FindMatches(w) ==
    /\ at[w].op = "parse" /\ at[w].pc = "match"
    /\ \/ Become(w, [at[w] EXCEPT !.pc = "end"])
       \/ /\ View(at[w].writes.rfq, rfq) = NoRfq \/ "stub" \in Matchmakers
          /\ Become(w, [at[w] EXCEPT !.pc = "failed"])
       \/ /\ "pgvector" \in Matchmakers
          /\ View(at[w].writes.rfq, rfq) # NoRfq
          /\ \E ranking \in Rankings \ {<<>>}, matched \in MarkMatched(at[w].copy) :
                UpdateRfq(w, [SaveBulk(at[w], Ranks(ranking)) EXCEPT
                                  !.copy = matched, !.pc = "end"])
    /\ Unstored

----------------------------------------------------------------------------
(* confirm_rfq. *)

\* list_by_rfq: the matched sellers in the order of their ranks.
ListByRfq == SetToSortSeq({m \in Sellers : matches[m] # 0},
                          LAMBDA a, b : matches[a] < matches[b])

\* The router asks for MATCHED; get_match_by_seller finds a row.
Confirmable(s) == rfq.status = "MATCHED" /\ matches[s] # 0

\* The matches are listed by rank, and every other one is updated before the RFQ
\* and the selected match are.
StartConfirm(w) ==
    \E s \in Sellers :
        /\ Confirmable(s)
        /\ LET others == SelectSeq(ListByRfq, LAMBDA m : m # s)
               rows == [i \in DOMAIN others |-> MatchRow(others[i])]
           IN  \E copy \in Confirm(rfq, s) :
                  Become(w, [Idle EXCEPT
                      !.op = "confirm", !.pc = "update", !.seller = s, !.copy = copy,
                      !.todo = rows \o <<RfqRow, MatchRow(s)>>])
        /\ Unstored

\* MatchRepository.update stores the rank alone, which does not change; the
\* RFQ's row is overwritten with the copy.
UpdateNext(w) ==
    /\ at[w].pc = "update" /\ at[w].todo # <<>>
    /\ Free(w, Head(at[w].todo))
    /\ Become(w, [at[w] EXCEPT
          !.held = @ \cup {Head(at[w].todo)}, !.todo = Tail(@),
          !.writes.rfq = IF Head(at[w].todo) = RfqRow THEN <<at[w].copy>> ELSE @])
    /\ Unstored

\* RFQConfirmed is published before the session ends.
PublishConfirmed(w) ==
    /\ at[w].pc = "update" /\ at[w].todo = <<>>
    /\ confirmed' = confirmed \cup {at[w].seller}
    /\ Become(w, [at[w] EXCEPT !.pc = "end"])
    /\ UNCHANGED <<rfq, matches, profiles>>

\* Postgres breaks a cycle of transactions that wait for one another: one of
\* them fails.
Waiting(w, v) ==
    at[w].pc = "update" /\ at[w].todo # <<>> /\ Head(at[w].todo) \in at[v].held

Deadlocked(S) == S # {} /\ \A w \in S : \E v \in S \ {w} : Waiting(w, v)

BreakDeadlock(w) ==
    /\ \E S \in SUBSET {v \in Workers : at[v].pc = "update"} :
          /\ w \in S /\ Deadlocked(S)
          /\ \A T \in SUBSET S : Deadlocked(T) => T = S
    /\ Become(w, [at[w] EXCEPT !.pc = "failed"])
    /\ Unstored

----------------------------------------------------------------------------
(* Capability profiles. *)

\* update_capability_profile loads the row, if there is one.
StartUpdate(w) ==
    \E s \in Sellers, t \in Texts :
        /\ Become(w, [Idle EXCEPT !.op = "profile", !.pc = "store", !.seller = s,
                                  !.text = t, !.profile = profiles[s]])
        /\ Unstored

\* The write of w, and the task it spawns.
Stored(w, record) ==
    at' = [at EXCEPT
        ![w] = [record EXCEPT !.pc = "end"],
        ![TaskOf(w)] = [Idle EXCEPT !.op = "recompute", !.pc = "load",
                                    !.seller = record.seller]]

\* update_profile: the embedding is dropped with the text it was made from.
WithText(record) ==
    [record EXCEPT !.writes.profile = <<[text |-> record.text, embedding |-> 0]>>,
                   !.held = @ \cup {ProfileRow(record.seller)}]

\* The service asks again whether there is a row.  There is: update, which finds
\* nothing when the row is not the one loaded.  There is none: insert.
StoreProfile(w) ==
    /\ at[w].op = "profile" /\ at[w].pc = "store"
    /\ \/ /\ profiles[at[w].seller].text # 0 /\ at[w].profile.text # 0
          /\ Free(w, ProfileRow(at[w].seller))
          /\ Stored(w, WithText(at[w]))
       \/ /\ profiles[at[w].seller].text # 0 /\ at[w].profile.text = 0
          /\ Stored(w, at[w])
       \/ /\ profiles[at[w].seller].text = 0
          /\ Become(w, [at[w] EXCEPT !.pc = "insert"])
    /\ Unstored

\* The insert waits for another one of the same enterprise, and fails if that one
\* is committed.
InsertProfile(w) ==
    /\ at[w].op = "profile" /\ at[w].pc = "insert"
    /\ Free(w, ProfileRow(at[w].seller))
    /\ IF profiles[at[w].seller].text # 0
       THEN Become(w, [at[w] EXCEPT !.pc = "failed"])
       ELSE Stored(w, WithText(at[w]))
    /\ Unstored

\* recompute_embeddings: the route refuses an enterprise without a profile, and
\* awaits the recomputation itself.
StartRecompute(w) ==
    \E s \in Sellers :
        /\ profiles[s].text # 0
        /\ Become(w, [Idle EXCEPT !.op = "recompute", !.pc = "load", !.seller = s])
        /\ Unstored

LoadProfile(w) ==
    /\ at[w].op = "recompute" /\ at[w].pc = "load"
    /\ LET row == IF w[2] = "task"
                  THEN ShownTo(w, at[ParentOf(w)].writes.profile, profiles[at[w].seller])
                  ELSE profiles[at[w].seller]
       IN  Become(w, [at[w] EXCEPT !.profile = row,
                                   !.pc = IF row.text = 0 THEN "end" ELSE "embed"])
    /\ Unstored

\* Mutation check only: the embedding is the only column written.
RecomputedColumn(w) == [profiles[at[w].seller] EXCEPT !.embedding = at[w].profile.text]

\* PostgresCapabilityProfileRepository.update: every column, from the copy.
Recomputed(w) == [at[w].profile EXCEPT !.embedding = at[w].profile.text]

\* set_embedding once the model has answered; it may raise instead.
StoreEmbedding(w) ==
    /\ at[w].op = "recompute" /\ at[w].pc = "embed"
    /\ w[2] = "task" => at[ParentOf(w)].pc = "done"
    /\ \/ Become(w, [at[w] EXCEPT !.pc = "end"])
       \/ /\ profiles[at[w].seller].text = 0
          /\ Become(w, [at[w] EXCEPT !.pc = "end"])
       \/ /\ profiles[at[w].seller].text # 0
          /\ Free(w, ProfileRow(at[w].seller))
          /\ Become(w, [at[w] EXCEPT
                !.writes.profile = <<Recomputed(w)>>, !.pc = "end",
                !.held = @ \cup {ProfileRow(at[w].seller)}])
    /\ Unstored

----------------------------------------------------------------------------

\* Requests are numbered in the order they begin.
Fresh(w) ==
    /\ w[2] = "request" /\ at[w] = Idle
    /\ \A r \in 1..w[1] - 1 : at[<<r, "request">>] # Idle

StartRfq(w) == Fresh(w) /\ (UploadRFQ(w) \/ StartConfirm(w))

StartProfile(w) == Fresh(w) /\ (StartUpdate(w) \/ StartRecompute(w))

Progress(w) ==
    \/ LoadRfq(w) \/ Extract(w) \/ FindMatches(w)
    \/ UpdateNext(w) \/ PublishConfirmed(w) \/ BreakDeadlock(w)
    \/ StoreProfile(w) \/ InsertProfile(w) \/ LoadProfile(w) \/ StoreEmbedding(w)
    \/ End(w)

Next == \E w \in Workers : StartRfq(w) \/ StartProfile(w) \/ Progress(w)

\* A request or a task that is running goes on.
Fairness == \A w \in Workers : WF_vars(Progress(w))

Spec == Init /\ [][Next]_vars /\ Fairness

----------------------------------------------------------------------------
(* Properties. *)

\* Sellers are matched by what their profiles say now: an embedding that is
\* stored was computed from the text stored beside it, whichever updates and
\* recomputations overlapped.
EmbeddingIsOfText ==
    \A s \in Sellers : profiles[s].embedding \in {0, profiles[s].text}

\* A MATCHED or CONFIRMED RFQ has matches, ranked from 1 without a gap or a tie,
\* and the seller it is confirmed with is one of them.
MatchedRfqHasMatches ==
    rfq.status \in {"MATCHED", "CONFIRMED"} =>
        LET found == {s \in Sellers : matches[s] # 0}
        IN  /\ found # {} /\ {matches[s] : s \in found} = 1..Cardinality(found)
            /\ rfq.status = "CONFIRMED" => rfq.seller \in found

\* Two confirmations that lock each other's matches do not hang: every request
\* and every task that has begun ends.
MarketEnds == \A w \in Workers : at[w].pc # "idle" ~> at[w].pc = "done"
=============================================================================
