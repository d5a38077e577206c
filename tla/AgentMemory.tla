----------------------------- MODULE AgentMemory -----------------------------
(***************************************************************************)
(* The documents one enterprise gives its negotiation agent:               *)
(* PersonalizationService over S3Vault, the TextChunker and                *)
(* PostgresAgentMemoryRepository.  A document is uploaded to the vault; an *)
(* ingestion reads every document there, cuts it into chunks and stores    *)
(* them with their embeddings in one transaction (READ COMMITTED); the     *)
(* memory can be cleared.  The unit of work is one that commits, as the    *)
(* tests of the service give it: the routes cannot build the service.      *)
(*                                                                         *)
(* A text is a sequence of paragraphs, a paragraph a sequence of           *)
(* sentences, a sentence the number of its characters.  Abstracted: the    *)
(* vectors, the extraction of text from a file, and the removal of a chunk *)
(* that repeats an earlier one of its document.                            *)
(***************************************************************************)
EXTENDS Integers, Sequences, FiniteSets, SequencesExt

CONSTANTS
    Texts,      \* the contents of documents
    MaxChars,   \* chunk_size * chars_per_token: 2048
    Overlap,    \* overlap * chars_per_token: 256
    PageSize,   \* keys one list_objects_v2 answers: 1000
    MaxFiles,   \* model bound: names of documents
    MaxJobs     \* model bound: ingestions and clearings

MemoryAssumption ==
    /\ Texts \subseteq Seq(Seq(Nat \ {0}) \ {<<>>})
    /\ MaxChars \in Nat \ {0} /\ Overlap \in Nat /\ PageSize \in Nat \ {0}
    /\ MaxFiles \in Nat /\ MaxJobs \in Nat

VARIABLES
    vault,    \* the text of each document (0: there is none)
    memory,   \* table agent_memory
    job,      \* what each request is doing
    reported  \* documents an ingestion has answered to have processed, until
              \* they are cleared

memoryVars == <<vault, memory, job, reported>>

----------------------------------------------------------------------------
(* TextChunker.  A chunk: the sentences in it, and its characters.         *)

Empty == [sentences |-> <<>>, size |-> 0]

\* f"{chunk}{separator}{piece}", or the piece alone.
Joined(chunk, piece, separator) ==
    IF chunk = Empty THEN piece
    ELSE [sentences |-> chunk.sentences \o piece.sentences,
          size |-> chunk.size + separator + piece.size]

Flushed(state) ==
    IF state.current = Empty THEN state.chunks ELSE Append(state.chunks, state.current)

\* One step of _split_by_sentences: a sentence that does not fit starts a chunk.
TakeSentence(state, piece) ==
    IF state.current.size + piece.size + 1 <= MaxChars
    THEN [state EXCEPT !.current = Joined(@, piece, 1)]
    ELSE [chunks |-> Flushed(state), current |-> piece]

Start == [chunks |-> <<>>, current |-> Empty]

SentenceOf(text, p, s) == [sentences |-> <<<<p, s>>>>, size |-> text[p][s]]

\* What _split_by_sentences has after each sentence of a paragraph.
AfterSentences(text, p) ==
    LET after[s \in 0..Len(text[p])] ==
            IF s = 0 THEN Start ELSE TakeSentence(after[s - 1], SentenceOf(text, p, s))
    IN  after

\* Mutation check only: what is left when the paragraph ends is forgotten.
SplitUnflushed(text, p) == AfterSentences(text, p)[Len(text[p])].chunks

SplitBySentences(text, p) == Flushed(AfterSentences(text, p)[Len(text[p])])

\* The beginnings of a paragraph, by their sentences; and all of it.
Beginnings(text, p) ==
    LET upTo[s \in 0..Len(text[p])] ==
            IF s = 0 THEN Empty ELSE Joined(upTo[s - 1], SentenceOf(text, p, s), 1)
    IN  upTo

ParagraphOf(text, p) == Beginnings(text, p)[Len(text[p])]

\* One step of split: a paragraph that does not fit starts a chunk, and one that
\* fits nowhere is split by sentences.
TakeParagraph(text, state, p) ==
    LET whole == ParagraphOf(text, p)
    IN  IF state.current.size + whole.size + 2 <= MaxChars
        THEN [state EXCEPT !.current = Joined(@, whole, 2)]
        ELSE IF whole.size > MaxChars
             THEN [chunks |-> Flushed(state) \o SplitBySentences(text, p),
                   current |-> Empty]
             ELSE [chunks |-> Flushed(state), current |-> whole]

\* _add_overlap: every chunk but the first begins with the tail of the one before.
AddOverlap(chunks) ==
    [i \in DOMAIN chunks |->
        IF i = 1 \/ Overlap = 0 THEN chunks[i]
        ELSE LET tail == IF chunks[i - 1].size < Overlap THEN chunks[i - 1].size ELSE Overlap
             IN  [chunks[i] EXCEPT !.size = tail + 1 + @]]

\* What split has after each paragraph.
AfterParagraphs(text) ==
    LET after[p \in 0..Len(text)] ==
            IF p = 0 THEN Start ELSE TakeParagraph(text, after[p - 1], p)
    IN  after

Split(text) == AddOverlap(Flushed(AfterParagraphs(text)[Len(text)]))

----------------------------------------------------------------------------
(* The vault. *)

Files == 1..MaxFiles

\* store_document: a document of the same name is replaced.
StoreDocument(f, text) == vault' = [vault EXCEPT ![f] = <<text>>]

\* upload_document.
Upload(f, text) ==
    /\ StoreDocument(f, text)
    /\ UNCHANGED <<memory, job, reported>>

\* list_documents: the first page of keys, in their order; an error is taken for
\* an empty vault.
Listings ==
    LET there == {f \in Files : vault[f] # <<>>}
        count == IF Cardinality(there) > PageSize THEN PageSize ELSE Cardinality(there)
    IN  {<<>>} \cup {keys \in [1..count -> there] :
                       /\ \A i, j \in 1..count : i < j => keys[i] < keys[j]
                       /\ \A f \in there \ ToSet(keys) : \A i \in 1..count : keys[i] < f}

----------------------------------------------------------------------------
(* The service.  A job is a request: it ingests or it clears. *)

Jobs == 1..MaxJobs

Idle == [pc |-> "idle", todo |-> <<>>, text |-> <<>>, next |-> 0,
         written |-> {}, processed |-> {}, failed |-> FALSE, cleared |-> {}]

Done == [Idle EXCEPT !.pc = "done"]

Init ==
    /\ vault = [f \in Files |-> <<>>]
    /\ memory = {} /\ reported = {}
    /\ job = [j \in Jobs |-> Idle]

InTurn(j) == job[j] = Idle /\ \A i \in 1..j - 1 : job[i] # Idle

\* ingest_enterprise_memory of the documents of the vault, or of one that is named,
\* be it there or not: without documents it ends.
StartIngest(j) ==
    /\ InTurn(j)
    /\ \E listing \in Listings \cup {<<f>> : f \in Files} :
          job' = [job EXCEPT ![j] = IF listing = <<>> THEN Done
                                    ELSE [Idle EXCEPT !.pc = "next", !.todo = listing]]
    /\ UNCHANGED <<vault, memory, reported>>

\* get_document: the document, if it is there.
Fetched(file) == ToSet(vault[file])

\* _extract_text: a document without text is passed over.
Extracted(file) == Fetched(file) \ {<<>>}

\* embed_documents has a vector for each chunk: a batch that failed has zeros.
Embedded(text) == Split(text) # <<>>

\* get_document, _extract_text, split and embed_documents of the next document:
\* one of them raises, or the document has no text, or its chunks are stored
\* next.
TakeDocument(j) ==
    /\ job[j].pc = "next" /\ job[j].todo # <<>>
    /\ \/ job' = [job EXCEPT ![j].todo = Tail(@)]
       \/ \E text \in Extracted(Head(job[j].todo)) :
             /\ Embedded(text)
             /\ job' = [job EXCEPT ![j].pc = "store", ![j].next = 1, ![j].text = text]
    /\ UNCHANGED <<vault, memory, reported>>

RowOf(j, file, text, i) ==
    [by |-> j, source |-> file, index |-> i, total |-> Len(Split(text)),
     content |-> Split(text)[i]]

\* store flushes one chunk.  After a flush that failed, all others of the session
\* do.
StoreChunk(j) ==
    /\ job[j].pc = "store"
    /\ LET file == Head(job[j].todo)
           row == RowOf(j, file, job[j].text, job[j].next)
           stored == [by |-> j, source |-> file, text |-> job[j].text]
           next == [job[j] EXCEPT !.pc = "next", !.todo = Tail(@)]
           more == [job[j] EXCEPT !.next = @ + 1, !.written = @ \cup {row}]
           last == [next EXCEPT !.written = @ \cup {row}, !.processed = @ \cup {stored}]
       IN  \/ job' = [job EXCEPT ![j] = [next EXCEPT !.failed = TRUE]]
           \/ /\ ~job[j].failed
              /\ job' = [job EXCEPT ![j] = IF row.index < row.total THEN more ELSE last]
    /\ UNCHANGED <<vault, memory, reported>>

\* The commit of what the documents left, and the answer.  It raises when a flush
\* has failed.
CommitIngest(j) ==
    /\ job[j].pc = "next" /\ job[j].todo = <<>>
    /\ job' = [job EXCEPT ![j] = Done]
    /\ \/ ~job[j].failed
          /\ memory' = memory \cup job[j].written
          /\ reported' = reported \cup job[j].processed
       \/ job[j].failed /\ UNCHANGED <<memory, reported>>
    /\ UNCHANGED vault

\* clear_memory: delete_by_tenant locks the rows it sees.
StartClear(j) ==
    /\ InTurn(j)
    /\ \A i \in Jobs : job[i].pc # "clear"
    /\ job' = [job EXCEPT ![j] = [Idle EXCEPT !.pc = "clear", !.cleared = memory]]
    /\ UNCHANGED <<vault, memory, reported>>

CommitClear(j) ==
    /\ job[j].pc = "clear"
    /\ memory' = memory \ job[j].cleared
    /\ reported' = {d \in reported : \A r \in job[j].cleared :
                                        r.by # d.by \/ r.source # d.source}
    /\ job' = [job EXCEPT ![j] = Done]
    /\ UNCHANGED vault

\* A request ends between two steps: its transaction is rolled back.
Die(j) ==
    /\ job[j].pc \in {"next", "store", "clear"}
    /\ job' = [job EXCEPT ![j] = Done]
    /\ UNCHANGED <<vault, memory, reported>>

Next ==
    \/ \E f \in Files, text \in Texts : Upload(f, text)
    \/ \E j \in Jobs :
          \/ StartIngest(j) \/ TakeDocument(j) \/ StoreChunk(j) \/ CommitIngest(j)
          \/ StartClear(j) \/ CommitClear(j) \/ Die(j)

Spec == Init /\ [][Next]_memoryVars

----------------------------------------------------------------------------
(* Properties. *)

\* The sentences of a text, in their order.
Sentences(text) ==
    FlattenSeq([p \in DOMAIN text |-> [s \in DOMAIN text[p] |-> <<p, s>>]])

\* A document that an ingestion reported as processed, and that nothing has
\* cleared, can be retrieved in full: its chunks are all stored, hold each of its
\* sentences once and in order, and are no longer than a chunk and an overlap
\* unless one sentence is.  And no failure, clearing or death of an ingestion
\* leaves part of a document behind.
MemoryHoldsDocuments ==
    /\ \A d \in reported :
          LET rows == {r \in memory : r.by = d.by /\ r.source = d.source}
              chunk(i) == (CHOOSE r \in rows : r.index = i).content
          IN  /\ {r.index : r \in rows} = 1..Cardinality(rows)
              /\ FlattenSeq([i \in 1..Cardinality(rows) |-> chunk(i).sentences])
                    = Sentences(d.text)
              /\ \A r \in rows :
                    \/ r.content.size <= MaxChars + Overlap + 1
                    \/ Len(r.content.sentences) = 1
    /\ \A r \in memory : \A i \in 1..r.total :
          \E q \in memory : q.by = r.by /\ q.source = r.source /\ q.index = i
=============================================================================
