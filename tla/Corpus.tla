------------------------------- MODULE Corpus -------------------------------
(***************************************************************************)
(* The writers of the legal corpus: the ingestion scripts that fill the    *)
(* source tables, the embedding job, the synchronisation with              *)
(* corpus_chunks, the statute script, and the governed path of             *)
(* PerpetualLawBrain.  They run as separate processes over one database.   *)
(*                                                                         *)
(* A document is known by its source_url and, at any moment, has one text  *)
(* upstream, or none.  Chunking splits text t into the pieces Chunks[t].   *)
(* In the source tables the pieces are told apart, for rows are replaced   *)
(* one by one; in corpus_chunks the pieces of one text share the fate of   *)
(* their text, so the hash of a chunk stands for <<writer, source, text>>. *)
(***************************************************************************)
EXTENDS Naturals, FiniteSets

CONSTANTS
    Sources,   \* source_urls
    Texts,     \* versions of a document
    Chunks,    \* Chunks[t]: the chunk indexes of text t; {} when nothing can be extracted
    Official,  \* the texts the ingestion critic accepts
    Linked,    \* graph nodes a document asks to be linked to
    Known,     \* those of them that exist
    Runs,      \* calls of ingest_document
    Calls,     \* calls of ingest_path that may be under way together
    None

VARIABLES
    table,     \* table[s]: the source table s belongs to; never changes
    upstream,  \* upstream[s]: the text published at s, None when it is gone
    rows,      \* rows[s][i]: the source table's chunk i of s, None or [text, emb]
    batch,     \* what the embedding job has read and not yet written back
    corpus,    \* corpus[k]: whether the chunk with hash k is in corpus_chunks, and current
    nodes,     \* legal_nodes of documents
    edges,     \* legal_edges of documents
    run,       \* run[r]: None or the call's progress
    page,      \* page[c]: None or the progress of a call of ingest_path
    mixed      \* pages two calls overlapped on since one last ingested them alone

pageVars == <<page, mixed>>
corpusVars == <<table, upstream, rows, batch, corpus, nodes, edges, run, pageVars>>

Tables == {"legislation", "acas_guidance", "official_guidance", "case_law"}
Indexes == UNION {Chunks[t] : t \in Texts}
Row == [text: Texts, emb: Texts \cup {None}]
Keys == [via: {"sync", "auto", "a7"}, src: Sources, text: Texts]
Progress == {"started", "accepted", "linked", "stored", "marked", "passed", "failed", "stuck"}
Over == {"passed", "failed", "stuck"}
Call == [src: Sources, text: Texts, at: Progress, clean: BOOLEAN]
PageCall == [src: Sources, text: Texts, at: {"fetched", "deleting", "deleted"},
             seen: SUBSET Indexes, alone: BOOLEAN]

ASSUME CorpusAssumption ==
    /\ Texts # {} /\ None \notin Texts \cup Row \cup Call \cup PageCall

CorpusTypeOK ==
    /\ table \in [Sources -> Tables]
    /\ upstream \in [Sources -> Texts \cup {None}]
    /\ rows \in [Sources -> [Indexes -> Row \cup {None}]]
    /\ batch \subseteq [src: Sources, idx: Indexes, text: Texts]
    /\ corpus \in [Keys -> {"absent", "current", "stale"}]
    /\ nodes \subseteq Sources /\ edges \subseteq Sources \X Linked
    /\ run \in [Runs -> {None} \cup Call]
    /\ page \in [Calls -> {None} \cup PageCall] /\ mixed \subseteq Sources

CorpusInit ==
    /\ table \in [Sources -> Tables]
    /\ upstream \in [Sources -> Texts \cup {None}]
    /\ rows = [s \in Sources |-> [i \in Indexes |-> None]]
    /\ batch = {}
    /\ corpus = [k \in Keys |-> "absent"]
    /\ nodes = {} /\ edges = {}
    /\ run = [r \in Runs |-> None]
    /\ page = [c \in Calls |-> None] /\ mixed = {}

-----------------------------------------------------------------------------
(* The publisher amends, withdraws or restores a document.                 *)
Amend(s) ==
    /\ \E t \in Texts \cup {None} : upstream' = [upstream EXCEPT ![s] = t]
    /\ UNCHANGED <<table, rows, batch, corpus, nodes, edges, run, pageVars>>

-----------------------------------------------------------------------------
(* Fetching and parsing one document: not there, nothing extracted, a text.*)
Fetched(s) == IF upstream[s] = None THEN "missing"
              ELSE IF Chunks[upstream[s]] = {} THEN "empty" ELSE "text"

(* ON CONFLICT (source_url, chunk_index) DO UPDATE: the text is replaced,  *)
(* the embedding of the row stays what it was.                             *)
Upsert(row, t) == [text |-> t, emb |-> IF row = None THEN None ELSE row.emb]

(* Storing every chunk of a text in one transaction.  Chunks a shorter     *)
(* text no longer has stay where they are.                                 *)
UpsertChunks(s, t) ==
    rows' = [rows EXCEPT ![s] = [i \in Indexes |-> IF i \in Chunks[t] THEN Upsert(@[i], t) ELSE @[i]]]

(* One section of legislation.  A missing one is skipped, one without text *)
(* is an error of the script; neither touches the table.                   *)
_ingest_section(s) ==
    /\ table[s] = "legislation"
    /\ IF Fetched(s) = "text" THEN UpsertChunks(s, upstream[s]) ELSE UNCHANGED rows
    /\ UNCHANGED <<table, upstream, batch, corpus, nodes, edges, run, pageVars>>

(* One ACAS page; failed and thin pages are skipped.                       *)
ingest_guidance_pages(s) ==
    /\ table[s] = "acas_guidance"
    /\ IF Fetched(s) = "text" THEN UpsertChunks(s, upstream[s]) ELSE UNCHANGED rows
    /\ UNCHANGED <<table, upstream, batch, corpus, nodes, edges, run, pageVars>>

(* One decision: the document row and its chunks in one transaction.       *)
_store_case(s) ==
    /\ table[s] = "case_law"
    /\ IF Fetched(s) = "text" THEN UpsertChunks(s, upstream[s]) ELSE UNCHANGED rows
    /\ UNCHANGED <<table, upstream, batch, corpus, nodes, edges, run, pageVars>>

(* A GOV.UK page is deleted and inserted anew in one transaction at READ   *)
(* COMMITTED, by a call that has fetched the text before.                  *)
Present(s) == {i \in Indexes : rows[s][i] # None}

fetch_page(c, s) ==
    /\ page[c] = None /\ table[s] = "official_guidance" /\ Fetched(s) = "text"
    /\ page' = [page EXCEPT ![c] = [src |-> s, text |-> upstream[s], at |-> "fetched",
                                    seen |-> {}, alone |-> TRUE]]
    /\ UNCHANGED <<table, upstream, rows, batch, corpus, nodes, edges, run, mixed>>

(* The calls that are between their DELETE and their commit on a page.     *)
Open(s) == {c \in Calls : page[c] # None /\ page[c].src = s /\ page[c].at # "fetched"}

(* A way to get a page wrong: trusting the upsert clause, without DELETE.  *)
delete_nothing(c) ==
    /\ page[c] # None /\ page[c].at = "fetched"
    /\ page' = [page EXCEPT ![c].at = "deleting", ![c].alone = (Open(page[c].src) = {})]
    /\ UNCHANGED <<table, upstream, rows, batch, corpus, nodes, edges, run, mixed>>

(* DELETE starts: it will remove the rows committed by now, and not those  *)
(* another call commits while it waits.  alone records that no call was    *)
(* open on the page with it.                                               *)
delete_page(c) ==
    /\ page[c] # None /\ page[c].at = "fetched"
    /\ LET s == page[c].src IN
       page' = [d \in Calls |->
                   IF d = c THEN [page[c] EXCEPT !.at = "deleting", !.seen = Present(s),
                                                 !.alone = (Open(s) = {})]
                   ELSE IF d \in Open(s) THEN [page[d] EXCEPT !.alone = FALSE] ELSE page[d]]
    /\ UNCHANGED <<table, upstream, rows, batch, corpus, nodes, edges, run, mixed>>

(* The rows among these that another call has deleted and not committed:   *)
(* who wants to delete or to insert them waits for it.                     *)
Locked(c, indexes) ==
    {i \in indexes : \E d \in Open(page[c].src) \ {c} : page[d].at = "deleted" /\ i \in page[d].seen}

deleted_page(c) ==
    /\ page[c] # None /\ page[c].at = "deleting" /\ Locked(c, page[c].seen) = {}
    /\ page' = [page EXCEPT ![c].at = "deleted"]
    /\ UNCHANGED <<table, upstream, rows, batch, corpus, nodes, edges, run, mixed>>

(* The INSERTs, chunk by chunk from chunk 0, and the commit, before which  *)
(* nobody sees them.  They are one step: a second call's INSERT of chunk 0 *)
(* waits for the commit.  A chunk another call has committed since the     *)
(* DELETE is updated in place, one beyond the new text stays.  A deleted   *)
(* row has another id than the one inserted for it, so neither the DELETE  *)
(* of another call nor the embedding job's UPDATEs find it any more.       *)
insert_page(c) ==
    /\ page[c] # None /\ page[c].at = "deleted"
    /\ LET s == page[c].src
           t == page[c].text
           gone == page[c].seen
           left(i) == IF i \in gone THEN None ELSE rows[s][i]
       IN /\ Locked(c, Chunks[t]) = {}
          /\ rows' = [rows EXCEPT ![s] = [i \in Indexes |->
                         IF i \in Chunks[t] THEN Upsert(left(i), t) ELSE left(i)]]
          /\ batch' = {b \in batch : b.src # s \/ b.idx \notin gone}
          /\ page' = [d \in Calls |-> IF d = c THEN None
                                      ELSE IF d \in Open(s) THEN [page[d] EXCEPT !.seen = @ \ gone]
                                      ELSE page[d]]
          /\ mixed' = IF page[c].alone THEN mixed \ {s} ELSE mixed \cup {s}
    /\ UNCHANGED <<table, upstream, corpus, nodes, edges, run>>

(* An error or a crash before the commit.                                  *)
rollback_page(c) ==
    /\ page[c] # None
    /\ page' = [page EXCEPT ![c] = None]
    /\ UNCHANGED <<table, upstream, rows, batch, corpus, nodes, edges, run, mixed>>

ingest_path(c) ==
    \/ \E s \in Sources : fetch_page(c, s)
    \/ delete_page(c) \/ deleted_page(c) \/ insert_page(c) \/ rollback_page(c)

(* One document through the ingestion script of its table, where a worker  *)
(* of worker_runner.py runs it.                                            *)
ingest(s) == _ingest_section(s) \/ ingest_guidance_pages(s) \/ _store_case(s)

-----------------------------------------------------------------------------
(* The embedding job reads the rows without an embedding, calls the model  *)
(* outside any transaction and writes by row id; a failing call ends it.   *)
Unembedded ==
    UNION {{[src |-> s, idx |-> i, text |-> rows[s][i].text] :
               i \in {n \in Indexes : rows[s][n] # None /\ rows[s][n].emb = None}} :
           s \in Sources}

embed_table ==
    /\ batch = {} /\ Unembedded # {}
    /\ batch' = Unembedded
    /\ UNCHANGED <<table, upstream, rows, corpus, nodes, edges, run, pageVars>>

_flush_batch ==
    /\ batch # {}
    /\ \/ rows' = [s \in Sources |-> [i \in Indexes |->
                     LET mine == {b \in batch : b.src = s /\ b.idx = i} IN
                     IF mine = {} THEN rows[s][i]
                     ELSE [rows[s][i] EXCEPT !.emb = (CHOOSE b \in mine : TRUE).text]]]
       \/ UNCHANGED rows
    /\ batch' = {}
    /\ UNCHANGED <<table, upstream, corpus, nodes, edges, run, pageVars>>

-----------------------------------------------------------------------------
(* Inserting chunks into corpus_chunks, ON CONFLICT (chunk_hash) DO        *)
(* NOTHING: a chunk that is there stays as it is, current or stale.        *)
Insert(new) == [k \in Keys |-> IF k \in new /\ corpus[k] = "absent" THEN "current" ELSE corpus[k]]

(* The three INSERT ... SELECT of one synchronisation; case law has none.  *)
sync_corpus_chunks ==
    /\ corpus' = Insert({k \in Keys : /\ k.via = "sync"
                                      /\ table[k.src] # "case_law"
                                      /\ \E i \in Indexes : /\ rows[k.src][i] # None
                                                             /\ rows[k.src][i].text = k.text})
    /\ UNCHANGED <<table, upstream, rows, batch, nodes, edges, run, pageVars>>

(* The statute script: the whole section goes into row 0, then each chunk  *)
(* that has no hash yet is embedded and inserted in a transaction of its   *)
(* own.  A chunk whose embedding fails is skipped: when all fail, the text *)
(* does not get into the corpus.                                           *)
A7Chunks(s) == {k \in Keys : k.via = "a7" /\ k.src = s /\ k.text = upstream[s]}

ingest_act(s) ==
    /\ table[s] = "legislation" /\ Fetched(s) = "text"
    /\ rows' = [rows EXCEPT ![s][0] = Upsert(@, upstream[s])]
    /\ \E got \in {A7Chunks(s), {}} : corpus' = Insert(got)
    /\ UNCHANGED <<table, upstream, batch, nodes, edges, run, pageVars>>

(* Its ACAS pages: rows and chunks in one transaction per page.            *)
ingest_acas_guidance(s) ==
    /\ table[s] = "acas_guidance" /\ Fetched(s) = "text"
    /\ UpsertChunks(s, upstream[s])
    /\ \E got \in {A7Chunks(s), {}} : corpus' = Insert(got)
    /\ UNCHANGED <<table, upstream, batch, nodes, edges, run, pageVars>>

-----------------------------------------------------------------------------
(* PerpetualLawBrain.  The crawler and the critic accept only whitelisted  *)
(* publishers, which GOV.UK is not, and texts with a legal structure.      *)
validate(s, t) == table[s] # "official_guidance" /\ t \in Official

OwnKeys(r) == {k \in Keys : /\ k.via = "auto" /\ k.src = run[r].src
                            /\ k.text = run[r].text /\ Chunks[k.text] # {}}

Active(s) == {r \in Runs : run[r] # None /\ run[r].src = s /\ run[r].at \notin Over}

(* _start_run, committed before the critic is asked.  clean records that   *)
(* the run is alone on its source and brings a text the corpus has not     *)
(* marked stale before.                                                    *)
_start_run(r, s) ==
    /\ run[r] = None /\ upstream[s] # None
    /\ LET revived == {k \in Keys : /\ k.via = "auto" /\ k.src = s
                                    /\ k.text = upstream[s] /\ corpus[k] = "stale"}
           mine == [src |-> s, text |-> upstream[s], at |-> "started",
                    clean |-> Active(s) = {} /\ revived = {}]
       IN run' = [q \in Runs |-> IF q = r THEN mine
                                 ELSE IF q \in Active(s) THEN [run[q] EXCEPT !.clean = FALSE]
                                 ELSE run[q]]
    /\ UNCHANGED <<table, upstream, rows, batch, corpus, nodes, edges, pageVars>>

(* The critic's verdict; a rejection is logged and ends the run.           *)
critic_gate(r) ==
    /\ run[r] # None /\ run[r].at = "started"
    /\ run' = [run EXCEPT ![r].at = IF validate(run[r].src, run[r].text) THEN "accepted" ELSE "failed"]
    /\ UNCHANGED <<table, upstream, rows, batch, corpus, nodes, edges, pageVars>>

(* The document's node and an edge to every target that exists.            *)
integrate(r) ==
    /\ run[r] # None /\ run[r].at = "accepted"
    /\ nodes' = nodes \cup {run[r].src}
    /\ edges' = edges \cup ({run[r].src} \X (Linked \cap Known))
    /\ run' = [run EXCEPT ![r].at = "linked"]
    /\ UNCHANGED <<table, upstream, rows, batch, corpus, pageVars>>

store(r) ==
    /\ run[r] # None /\ run[r].at = "linked"
    /\ corpus' = Insert(OwnKeys(r))
    /\ run' = [run EXCEPT ![r].at = "stored"]
    /\ UNCHANGED <<table, upstream, rows, batch, nodes, edges, pageVars>>

(* A way to get the stale-out wrong: only what other writers stored.       *)
mark_stale_others(r) ==
    /\ run[r] # None /\ run[r].at = "stored"
    /\ corpus' = [k \in Keys |-> IF k.src = run[r].src /\ corpus[k] = "current" /\ k.via # "auto"
                                 THEN "stale" ELSE corpus[k]]
    /\ run' = [run EXCEPT ![r].at = "marked"]
    /\ UNCHANGED <<table, upstream, rows, batch, nodes, edges, pageVars>>

(* Every other current chunk of the source, whoever wrote it, is stale.    *)
mark_stale(r) ==
    /\ run[r] # None /\ run[r].at = "stored"
    /\ corpus' = [k \in Keys |-> IF k.src = run[r].src /\ corpus[k] = "current" /\ k \notin OwnKeys(r)
                                 THEN "stale" ELSE corpus[k]]
    /\ run' = [run EXCEPT ![r].at = "marked"]
    /\ UNCHANGED <<table, upstream, rows, batch, nodes, edges, pageVars>>

_finish_run(r) ==
    /\ run[r] # None /\ run[r].at = "marked"
    /\ run' = [run EXCEPT ![r].at = "passed"]
    /\ UNCHANGED <<table, upstream, rows, batch, corpus, nodes, edges, pageVars>>

(* An exception or a crash anywhere in between: nothing is undone and the  *)
(* audit row says running for ever.                                        *)
Interrupt(r) ==
    /\ run[r] # None /\ run[r].at \notin Over
    /\ run' = [run EXCEPT ![r].at = "stuck"]
    /\ UNCHANGED <<table, upstream, rows, batch, corpus, nodes, edges, pageVars>>

ingest_document(r) ==
    \/ \E s \in Sources : _start_run(r, s)
    \/ critic_gate(r) \/ integrate(r) \/ store(r) \/ mark_stale(r) \/ _finish_run(r)
    \/ Interrupt(r)

CorpusNext ==
    \/ \E s \in Sources : Amend(s) \/ ingest(s) \/ ingest_act(s) \/ ingest_acas_guidance(s)
    \/ embed_table \/ _flush_batch \/ sync_corpus_chunks
    \/ \E c \in Calls : ingest_path(c)
    \/ \E r \in Runs : ingest_document(r)

-----------------------------------------------------------------------------
(* A GOV.UK page that has rows always has all the chunks of one text.  It  *)
(* has no others, and what is embedded is the text of the row, although    *)
(* the page is ingested again while the embedding job holds what it read   *)
(* before, unless two ingestions of the page overlapped since one of them  *)
(* last ran alone (govuk/ingest.py deletes, then upserts; embedder.py      *)
(* writes by row id).  Overlapping ones do leave chunks of two texts: the  *)
(* DELETE of the second does not see what the first inserts.               *)
GuidanceCoherent ==
    \A s \in Sources : table[s] = "official_guidance" /\ Present(s) # {} =>
        \E t \in Texts :
            /\ Chunks[t] # {} /\ Chunks[t] \subseteq Present(s)
            /\ \A i \in Chunks[t] : rows[s][i].text = t
            /\ s \notin mixed => /\ Present(s) = Chunks[t]
                                /\ \A i \in Present(s) : rows[s][i].emb \in {None, t}

(* When a run of PerpetualLawBrain passes that was alone on its source and *)
(* did not bring back an old text, the current chunks the governed path    *)
(* has for the source are exactly those of its text (embedder.py: "marks   *)
(* previous chunks of the same source stale when the content hash          *)
(* changes").  A returning text and overlapping runs are excluded because  *)
(* they can leave the source with no current chunk at all: the insert      *)
(* finds the hash present and does not make it current again.              *)
PassedRunIsCurrent ==
    [][\A r \in Runs : (run[r] # None /\ run[r].at = "marked" /\ run'[r].at = "passed" /\ run[r].clean) =>
          \A k \in Keys : (k.via = "auto" /\ k.src = run[r].src)
                              => (corpus'[k] = "current" <=> k \in OwnKeys(r))]_corpusVars
=============================================================================
