--------------------------- MODULE IngestionProofs ---------------------------
(***************************************************************************)
(* What holds of the corpus and of the ingestion jobs whatever the sources, *)
(* the texts and the number of jobs and of calls: the rows of a GOV.UK page *)
(* are coherent, a passed call of PerpetualLawBrain leaves the chunks of    *)
(* its text current, and a job is always in exactly one place.              *)
(***************************************************************************)
EXTENDS Ingestion, FiniteSetTheorems, TLAPS

(***************************************************************************)
(* The source tables                                                       *)
(***************************************************************************)

\* What the embedding job holds is still there, with its text on a coherent page.
BatchInv ==
    \A b \in batch : /\ rows[b.src][b.idx] # None
                     /\ table[b.src] = "official_guidance" /\ b.src \notin mixed =>
                           rows[b.src][b.idx].text = b.text

\* The rows of one source, if it has any, hold all the chunks of one text ...
Whole(chunks) ==
    (\E i \in Indexes : chunks[i] # None) =>
        \E t \in Texts : /\ Chunks[t] # {}
                         /\ \A i \in Chunks[t] : chunks[i] # None /\ chunks[i].text = t

\* ... and no others, embedded or not.
OneText(chunks) ==
    /\ \E t \in Texts : /\ {i \in Indexes : chunks[i] # None} \in {{}, Chunks[t]}
                        /\ \A i \in Indexes : chunks[i] # None => chunks[i].text = t
    /\ \A i \in Indexes : chunks[i] # None => chunks[i].emb \in {None, chunks[i].text}

GuidanceInv ==
    \A s \in Sources : table[s] = "official_guidance" =>
        Whole(rows[s]) /\ (s \notin mixed => OneText(rows[s]))

\* A call between its DELETE and its commit.
InDelete(p) == p # None /\ p.at # "fetched"

\* A call that is alone on its page will delete every row there is.
PageInv ==
    /\ \A c \in Calls : page[c] # None =>
          table[page[c].src] = "official_guidance" /\ Chunks[page[c].text] # {}
    /\ \A c \in Calls : InDelete(page[c]) /\ page[c].alone =>
          /\ page[c].seen = Present(page[c].src)
          /\ \A d \in Calls : d # c /\ InDelete(page[d]) => page[d].src # page[c].src

(***************************************************************************)
(* The governed path                                                       *)
(***************************************************************************)

\* The chunks of a call's text.
Own(p) == {k \in Keys : k.via = "auto" /\ k.src = p.src /\ k.text = p.text /\ Chunks[k.text] # {}}

\* What a call that is alone on its source can rely on, as far as it has come.
CallOK(p, chunks) ==
    p.clean /\ p.at \notin Over =>
        /\ \A k \in Own(p) : chunks[k] # "stale"
        /\ p.at \in {"stored", "marked"} => \A k \in Own(p) : chunks[k] = "current"
        /\ p.at = "marked" => \A k \in Keys :
              k.via = "auto" /\ k.src = p.src /\ k \notin Own(p) => chunks[k] # "current"

Underway(r) == run[r] # None /\ run[r].at \notin Over

RunsInv ==
    /\ \A r \in Runs : run[r] # None => CallOK(run[r], corpus)
    /\ \A r, q \in Runs : r # q /\ Underway(r) /\ Underway(q) /\ run[r].clean =>
                             run[q].src # run[r].src

CorpusInv == CorpusTypeOK /\ BatchInv /\ GuidanceInv /\ PageInv /\ RunsInv

\* Empty tables and no call.
LEMMA CorpusInitInv == CorpusInit => CorpusInv
<1> SUFFICES ASSUME CorpusInit PROVE CorpusInv
  OBVIOUS
<1>1. /\ table \in [Sources -> Tables] /\ upstream \in [Sources -> Texts \cup {None}]
      /\ rows = [s \in Sources |-> [i \in Indexes |-> None]] /\ batch = {} /\ nodes = {} /\ edges = {}
      /\ corpus = [k \in Keys |-> "absent"] /\ run = [r \in Runs |-> None]
      /\ page = [c \in Calls |-> None] /\ mixed = {}
  BY DEF CorpusInit
<1>2. CorpusTypeOK
  <2>1. rows \in [Sources -> [Indexes -> Row \cup {None}]]
    BY <1>1
  <2>2. corpus \in [Keys -> {"absent", "current", "stale"}] /\ run \in [Runs -> {None} \cup Call]
    BY <1>1
  <2> QED BY <1>1, <2>1, <2>2 DEF CorpusTypeOK
<1>3. GuidanceInv
  <2> SUFFICES ASSUME NEW s \in Sources PROVE Whole(rows[s]) /\ OneText(rows[s])
    BY DEF GuidanceInv
  <2>1. rows[s] = [i \in Indexes |-> None]
    BY <1>1
  <2> QED BY <2>1, CorpusAssumption DEF OneText, Whole
<1>4. PageInv
  BY <1>1 DEF PageInv, InDelete
<1> QED BY <1>1, <1>2, <1>3, <1>4 DEF CorpusInv, BatchInv, RunsInv, Underway

\* A row keeps its embedding when its text is replaced.
LEMMA UpsertRow ==
    ASSUME NEW row \in Row \cup {None}, NEW t \in Texts
    PROVE  Upsert(row, t) \in Row /\ Upsert(row, t) # None
<1>1. PICK e \in Texts \cup {None} : e = IF row = None THEN None ELSE row.emb
  BY DEF Row
<1>2. Upsert(row, t) = [text |-> t, emb |-> e]
  BY <1>1 DEF Upsert
<1>3. Upsert(row, t) \in Row
  BY <1>2 DEF Row
<1> QED BY <1>3, CorpusAssumption

\* The calls of ingest_path find the rows they expect, if no page gains or loses one.
LEMMA PagesKept ==
    ASSUME CorpusInv, UNCHANGED <<table, pageVars>>,
           \A s \in Sources : table[s] = "official_guidance" =>
              \A i \in Indexes : rows'[s][i] # None <=> rows[s][i] # None
    PROVE  PageInv' /\ page' \in [Calls -> {None} \cup PageCall] /\ mixed' \subseteq Sources
<1>1. /\ page \in [Calls -> {None} \cup PageCall] /\ mixed \subseteq Sources /\ PageInv
      /\ UNCHANGED <<table, page, mixed>>
  BY DEF CorpusInv, CorpusTypeOK, pageVars
<1>2. ASSUME NEW c \in Calls, InDelete(page[c]) PROVE Present(page[c].src)' = Present(page[c].src)
  <2>1. page[c].src \in Sources /\ table[page[c].src] = "official_guidance"
    BY <1>1, <1>2 DEF InDelete, PageInv, PageCall
  <2> QED BY <1>1, <2>1 DEF Present
<1> QED BY <1>1, <1>2 DEF PageInv, InDelete

\* A script writes rows of a source that is not a GOV.UK page, and removes none.
LEMMA RowsGrow ==
    ASSUME CorpusInv, NEW s \in Sources, table[s] # "official_guidance",
           UNCHANGED <<table, batch, pageVars>>,
           rows' \in [Sources -> [Indexes -> Row \cup {None}]],
           \A o \in Sources : o # s => rows'[o] = rows[o],
           \A i \in Indexes : rows[s][i] # None => rows'[s][i] # None
    PROVE  BatchInv' /\ GuidanceInv' /\ PageInv'
<1>1. BatchInv'
  <2> SUFFICES ASSUME NEW b \in batch
               PROVE  /\ rows'[b.src][b.idx] # None
                      /\ table[b.src] = "official_guidance" /\ b.src \notin mixed =>
                            rows'[b.src][b.idx].text = b.text
    BY DEF BatchInv, pageVars
  <2>1. b.src \in Sources /\ b.idx \in Indexes
    BY DEF CorpusInv, CorpusTypeOK
  <2>2. CASE b.src = s
    BY <2>1, <2>2 DEF CorpusInv, BatchInv
  <2>3. CASE b.src # s
    BY <2>1, <2>3 DEF CorpusInv, BatchInv
  <2> QED BY <2>2, <2>3
<1>2. GuidanceInv'
  <2>1. ASSUME NEW o \in Sources, table[o] = "official_guidance" PROVE rows'[o] = rows[o]
    BY <2>1
  <2> QED BY <2>1 DEF CorpusInv, GuidanceInv, pageVars
<1>3. PageInv'
  <2>1. ASSUME NEW o \in Sources, table[o] = "official_guidance" PROVE rows'[o] = rows[o]
    BY <2>1
  <2> QED BY <2>1, PagesKept
<1> QED BY <1>1, <1>2, <1>3

\* An upsert of chunks removes no row and touches no other source.
LEMMA UpsertsGrow ==
    ASSUME CorpusInv, NEW s \in Sources, Fetched(s) = "text", UpsertChunks(s, upstream[s])
    PROVE  /\ rows' \in [Sources -> [Indexes -> Row \cup {None}]]
           /\ \A o \in Sources : o # s => rows'[o] = rows[o]
           /\ \A i \in Indexes : rows[s][i] # None => rows'[s][i] # None
<1>1. PICK t \in Texts : t = upstream[s]
  BY DEF Fetched, CorpusInv, CorpusTypeOK
<1>2. PICK old \in [Indexes -> Row \cup {None}] : old = rows[s]
  BY DEF CorpusInv, CorpusTypeOK
<1>3. PICK new : new = [i \in Indexes |-> IF i \in Chunks[t] THEN Upsert(old[i], t) ELSE old[i]]
  OBVIOUS
<1>4. new \in [Indexes -> Row \cup {None}] /\ \A i \in Indexes : old[i] # None => new[i] # None
  BY <1>3, UpsertRow
<1>5. rows' = [rows EXCEPT ![s] = new]
  BY <1>1, <1>2, <1>3 DEF UpsertChunks
<1> QED BY <1>2, <1>4, <1>5 DEF CorpusInv, CorpusTypeOK

\* The source tables after a step, which leaves the tables of the sources alone.
TablesOK ==
    /\ table \in [Sources -> Tables] /\ upstream \in [Sources -> Texts \cup {None}]
    /\ rows \in [Sources -> [Indexes -> Row \cup {None}]]
    /\ batch \subseteq [src: Sources, idx: Indexes, text: Texts]
    /\ page \in [Calls -> {None} \cup PageCall] /\ mixed \subseteq Sources
    /\ BatchInv /\ GuidanceInv /\ PageInv

\* A step that touches none of them.
LEMMA RowsKept ==
    ASSUME CorpusInv, UNCHANGED <<table, rows, batch, pageVars>>,
           upstream' \in [Sources -> Texts \cup {None}]
    PROVE  TablesOK'
<1>1. BatchInv' /\ GuidanceInv'
  BY DEF CorpusInv, BatchInv, GuidanceInv, pageVars
<1>2. PageInv'
  BY PagesKept
<1> QED BY <1>1, <1>2 DEF TablesOK, CorpusInv, CorpusTypeOK, pageVars

\* Three scripts replace the text of rows in place, one row by one.
LEMMA UpsertingStep ==
    ASSUME CorpusInv, NEW s \in Sources,
           \/ _ingest_section(s) \/ ingest_guidance_pages(s) \/ _store_case(s)
           \/ ingest_acas_guidance(s)
    PROVE  TablesOK'
<1>1. table[s] # "official_guidance" /\ UNCHANGED <<table, upstream, batch, pageVars>>
  BY DEF _ingest_section, ingest_guidance_pages, _store_case, ingest_acas_guidance
<1>2. CASE Fetched(s) = "text" /\ UpsertChunks(s, upstream[s])
  <2>1. /\ rows' \in [Sources -> [Indexes -> Row \cup {None}]]
        /\ \A o \in Sources : o # s => rows'[o] = rows[o]
        /\ \A i \in Indexes : rows[s][i] # None => rows'[s][i] # None
    BY <1>2, UpsertsGrow
  <2>2. BatchInv' /\ GuidanceInv' /\ PageInv'
    BY <1>1, <2>1, RowsGrow
  <2> QED BY <1>1, <2>1, <2>2 DEF TablesOK, CorpusInv, CorpusTypeOK, pageVars
<1>3. CASE UNCHANGED rows
  <2>1. upstream' \in [Sources -> Texts \cup {None}]
    BY <1>1 DEF CorpusInv, CorpusTypeOK
  <2> QED BY <1>1, <1>3, <2>1, RowsKept
<1> QED BY <1>2, <1>3 DEF _ingest_section, ingest_guidance_pages, _store_case, ingest_acas_guidance

\* The statute script writes row 0.
LEMMA ActStep ==
    ASSUME CorpusInv, NEW s \in Sources, ingest_act(s)
    PROVE  TablesOK'
<1>1. table[s] # "official_guidance" /\ UNCHANGED <<table, upstream, batch, pageVars>>
  BY DEF ingest_act
<1>2. PICK t \in Texts : t = upstream[s]
  BY DEF ingest_act, Fetched, CorpusInv, CorpusTypeOK
<1>3. PICK old \in [Indexes -> Row \cup {None}] : old = rows[s]
  BY DEF CorpusInv, CorpusTypeOK
<1>4. PICK new : new = [old EXCEPT ![0] = Upsert(@, t)]
  OBVIOUS
<1>5. new \in [Indexes -> Row \cup {None}] /\ \A i \in Indexes : old[i] # None => new[i] # None
  <2>1. 0 \in Indexes => Upsert(old[0], t) \in Row /\ Upsert(old[0], t) # None
    BY UpsertRow
  <2> QED BY <1>4, <2>1
<1>6. rows' = [rows EXCEPT ![s] = new]
  BY <1>2, <1>3, <1>4 DEF ingest_act, CorpusInv, CorpusTypeOK
<1>7. /\ rows' \in [Sources -> [Indexes -> Row \cup {None}]]
      /\ \A o \in Sources : o # s => rows'[o] = rows[o]
      /\ \A i \in Indexes : rows[s][i] # None => rows'[s][i] # None
  BY <1>3, <1>5, <1>6 DEF CorpusInv, CorpusTypeOK
<1>8. BatchInv' /\ GuidanceInv' /\ PageInv'
  BY <1>1, <1>7, RowsGrow
<1> QED BY <1>1, <1>7, <1>8 DEF TablesOK, CorpusInv, CorpusTypeOK, pageVars

\* A call of ingest_path that only moves on.
LEMMA PageCallStep ==
    ASSUME CorpusInv, NEW c \in Calls,
           \/ \E s \in Sources : fetch_page(c, s)
           \/ delete_page(c) \/ deleted_page(c) \/ rollback_page(c)
    PROVE  TablesOK'
<1>1. UNCHANGED <<table, upstream, rows, batch, mixed>>
  BY DEF fetch_page, delete_page, deleted_page, rollback_page
<1>2. BatchInv' /\ GuidanceInv'
  BY <1>1 DEF CorpusInv, BatchInv, GuidanceInv
<1>3. ASSUME page' \in [Calls -> {None} \cup PageCall], PageInv' PROVE TablesOK'
  BY <1>1, <1>2, <1>3 DEF TablesOK, CorpusInv, CorpusTypeOK
<1>4. PageInv /\ page \in [Calls -> {None} \cup PageCall]
  BY DEF CorpusInv, CorpusTypeOK
<1>5. CASE \E s \in Sources : fetch_page(c, s)
  <2>1. PICK s \in Sources : fetch_page(c, s)
    BY <1>5
  <2>2. PICK t \in Texts : t = upstream[s] /\ Chunks[t] # {}
    BY <2>1 DEF fetch_page, Fetched, CorpusInv, CorpusTypeOK
  <2>3. PICK p : p = [src |-> s, text |-> t, at |-> "fetched", seen |-> {}, alone |-> TRUE]
    OBVIOUS
  <2>4. p \in PageCall /\ p.src = s /\ p.text = t /\ ~ InDelete(p)
    BY <2>3 DEF PageCall, InDelete
  <2>5. page' = [page EXCEPT ![c] = p] /\ table[s] = "official_guidance"
    BY <2>1, <2>2, <2>3 DEF fetch_page
  <2>6. page' \in [Calls -> {None} \cup PageCall] /\ page'[c] = p /\ \A d \in Calls : d # c => page'[d] = page[d]
    BY <1>4, <2>4, <2>5
  <2>7. \A d \in Calls : InDelete(page'[d]) => d # c /\ page'[d] = page[d]
    BY <2>4, <2>6
  <2>8. PageInv'
    <3>1. ASSUME NEW d \in Calls, page'[d] # None
          PROVE  table[page'[d].src] = "official_guidance" /\ Chunks[page'[d].text] # {}
      BY <1>4, <2>2, <2>4, <2>5, <2>6, <3>1 DEF PageInv
    <3>2. ASSUME NEW d \in Calls, InDelete(page'[d]), page'[d].alone
          PROVE  /\ page'[d].seen = Present(page'[d].src)
                 /\ \A e \in Calls : e # d /\ InDelete(page'[e]) => page'[e].src # page'[d].src
      BY <1>4, <2>7, <3>2 DEF PageInv
    <3> QED BY <1>1, <3>1, <3>2 DEF PageInv, InDelete, Present
  <2> QED BY <1>3, <2>6, <2>8
<1>6. CASE delete_page(c)
  <2>1. PICK p \in PageCall : p = page[c] /\ p.at = "fetched"
    BY <1>4, <1>6 DEF delete_page
  <2>2. PICK s \in Sources : s = p.src
    BY <2>1 DEF PageCall
  <2>3. PICK lone \in BOOLEAN : (lone <=> Open(s) = {})
    OBVIOUS
  <2>4. PICK q : q = [p EXCEPT !.at = "deleting", !.seen = Present(s), !.alone = lone]
    OBVIOUS
  <2>5. /\ q \in PageCall /\ q.src = s /\ q.text = p.text /\ q.seen = Present(s) /\ q.alone = lone
        /\ InDelete(q)
    <3>1. Present(s) \in SUBSET Indexes
      BY DEF Present
    <3>2. q \in PageCall /\ q.src = s /\ q.text = p.text /\ q.seen = Present(s) /\ q.alone = lone /\ q.at = "deleting"
      BY <2>1, <2>2, <2>3, <2>4, <3>1 DEF PageCall
    <3> QED BY <3>2, CorpusAssumption DEF InDelete
  <2>6. page' = [d \in Calls |-> IF d = c THEN q
                                 ELSE IF d \in Open(s) THEN [page[d] EXCEPT !.alone = FALSE] ELSE page[d]]
    <3>1. page' = [d \in Calls |->
                      IF d = c THEN [p EXCEPT !.at = "deleting", !.seen = Present(s),
                                              !.alone = (Open(s) = {})]
                      ELSE IF d \in Open(s) THEN [page[d] EXCEPT !.alone = FALSE] ELSE page[d]]
      BY <1>6, <2>1, <2>2 DEF delete_page
    <3> QED BY <2>3, <2>4, <3>1
  <2>7. ASSUME NEW d \in Calls, d # c
        PROVE  /\ page'[d] \in {None} \cup PageCall
               /\ page'[d] # None <=> page[d] # None
               /\ InDelete(page'[d]) <=> InDelete(page[d])
               /\ page[d] # None => /\ page'[d].src = page[d].src /\ page'[d].text = page[d].text
                                    /\ page'[d].seen = page[d].seen
               /\ InDelete(page[d]) /\ page[d].src = s => page'[d].alone = FALSE
               /\ page[d] # None /\ ~ (InDelete(page[d]) /\ page[d].src = s) => page'[d].alone = page[d].alone
    <3>1. d \in Open(s) <=> InDelete(page[d]) /\ page[d].src = s
      BY DEF Open, InDelete
    <3>2. CASE d \in Open(s)
      <4>1. PICK o \in PageCall : o = page[d] /\ o # None
        BY <1>4, <3>1, <3>2, CorpusAssumption DEF InDelete
      <4>2. PICK n : n = [o EXCEPT !.alone = FALSE]
        OBVIOUS
      <4>3. /\ n \in PageCall /\ n.src = o.src /\ n.text = o.text /\ n.seen = o.seen /\ n.at = o.at
            /\ n.alone = FALSE /\ n # None
        BY <4>2, CorpusAssumption DEF PageCall
      <4>4. page'[d] = n
        BY <2>6, <2>7, <3>2, <4>1, <4>2
      <4> QED BY <3>1, <3>2, <4>1, <4>3, <4>4 DEF InDelete
    <3>3. CASE d \notin Open(s)
      <4>1. page'[d] = page[d]
        BY <2>6, <2>7, <3>3
      <4> QED BY <1>4, <3>1, <3>3, <4>1
    <3> QED BY <3>2, <3>3
  <2>8. page'[c] = q /\ page' \in [Calls -> {None} \cup PageCall]
    BY <2>5, <2>6, <2>7
  <2>9. PageInv'
    <3>1. ASSUME NEW d \in Calls, page'[d] # None
          PROVE  table[page'[d].src] = "official_guidance" /\ Chunks[page'[d].text] # {}
      <4>1. p # None
        BY <2>1, CorpusAssumption
      <4>2. CASE d = c
        BY <1>4, <2>1, <2>2, <2>5, <2>8, <4>1, <4>2 DEF PageInv
      <4>3. CASE d # c
        BY <1>4, <2>7, <3>1, <4>3 DEF PageInv
      <4> QED BY <4>2, <4>3
    <3>2. ASSUME NEW d \in Calls, InDelete(page'[d]), page'[d].alone
          PROVE  /\ page'[d].seen = Present(page'[d].src)
                 /\ \A e \in Calls : e # d /\ InDelete(page'[e]) => page'[e].src # page'[d].src
      <4>1. CASE d = c
        <5>1. Open(s) = {}
          BY <2>3, <2>5, <2>8, <3>2, <4>1
        <5>2. \A e \in Calls : ~ (InDelete(page[e]) /\ page[e].src = s)
          BY <5>1 DEF Open, InDelete
        <5>3. \A e \in Calls : e # c /\ InDelete(page'[e]) => page'[e].src # s
          BY <2>7, <5>2 DEF InDelete
        <5> QED BY <2>5, <2>8, <4>1, <5>3
      <4>2. CASE d # c
        <5>1. InDelete(page[d]) /\ page[d] # None
          BY <2>7, <3>2, <4>2 DEF InDelete
        <5>2. page[d].src # s
          BY <2>7, <3>2, <4>2, <5>1
        <5>3. page[d].alone /\ page'[d].src = page[d].src /\ page'[d].seen = page[d].seen
          BY <2>7, <3>2, <4>2, <5>1, <5>2
        <5>4. ASSUME NEW e \in Calls, e # d, InDelete(page'[e]) PROVE page'[e].src # page[d].src
          <6>1. CASE e = c
            BY <2>5, <2>8, <5>2, <6>1
          <6>2. CASE e # c
            <7>1. InDelete(page[e]) /\ page'[e].src = page[e].src
              BY <2>7, <5>4, <6>2 DEF InDelete
            <7> QED BY <1>4, <5>1, <5>3, <5>4, <7>1 DEF PageInv
          <6> QED BY <6>1, <6>2
        <5> QED BY <1>4, <5>1, <5>3, <5>4 DEF PageInv
      <4> QED BY <4>1, <4>2
    <3> QED BY <1>1, <3>1, <3>2 DEF PageInv, InDelete, Present
  <2> QED BY <1>3, <2>8, <2>9
<1>7. CASE deleted_page(c) \/ rollback_page(c)
  <2>1. PICK p \in PageCall : p = page[c] /\ p # None
    BY <1>4, <1>7 DEF deleted_page, rollback_page
  <2>2. PICK q : q = [p EXCEPT !.at = "deleted"]
    OBVIOUS
  <2>3. /\ q \in PageCall /\ q # None /\ q.src = p.src /\ q.text = p.text /\ q.seen = p.seen
        /\ q.alone = p.alone
    BY <2>2, CorpusAssumption DEF PageCall
  <2>4. \/ page' = [page EXCEPT ![c] = q] /\ InDelete(p)
        \/ page' = [page EXCEPT ![c] = None]
    BY <1>7, <2>1, <2>2 DEF deleted_page, rollback_page, InDelete
  <2>5. page' \in [Calls -> {None} \cup PageCall]
    BY <1>4, <2>3, <2>4
  <2>6. ASSUME NEW d \in Calls, page'[d] # None
        PROVE  /\ page[d] # None /\ (InDelete(page'[d]) => InDelete(page[d]))
               /\ page'[d].src = page[d].src /\ page'[d].text = page[d].text
               /\ page'[d].seen = page[d].seen /\ page'[d].alone = page[d].alone
    <3>1. CASE d = c
      BY <1>4, <2>1, <2>3, <2>4, <2>6, <3>1
    <3>2. CASE d # c
      BY <1>4, <2>4, <2>6, <3>2
    <3> QED BY <3>1, <3>2
  <2>7. PageInv'
    <3>1. ASSUME NEW d \in Calls, page'[d] # None
          PROVE  table[page'[d].src] = "official_guidance" /\ Chunks[page'[d].text] # {}
      BY <1>4, <2>6, <3>1 DEF PageInv
    <3>2. ASSUME NEW d \in Calls, InDelete(page'[d]), page'[d].alone
          PROVE  /\ page'[d].seen = Present(page'[d].src)
                 /\ \A e \in Calls : e # d /\ InDelete(page'[e]) => page'[e].src # page'[d].src
      <4>1. page'[d] # None /\ \A e \in Calls : InDelete(page'[e]) => page'[e] # None
        BY <3>2 DEF InDelete
      <4>2. InDelete(page[d]) /\ page[d].alone
        BY <2>6, <3>2, <4>1
      <4> QED BY <1>4, <2>6, <3>2, <4>1, <4>2 DEF PageInv
    <3> QED BY <1>1, <3>1, <3>2 DEF PageInv, InDelete, Present
  <2> QED BY <1>3, <2>5, <2>7
<1> QED BY <1>5, <1>6, <1>7

\* A page is replaced; alone on it, a call deletes every row it had.
LEMMA InsertPageStep ==
    ASSUME CorpusInv, NEW c \in Calls, insert_page(c)
    PROVE  TablesOK'
<1>1. UNCHANGED <<table, upstream>>
  BY DEF insert_page
<1>2. PageInv /\ page \in [Calls -> {None} \cup PageCall] /\ mixed \subseteq Sources
  BY DEF CorpusInv, CorpusTypeOK
<1>3. PICK p \in PageCall : p = page[c] /\ p # None /\ p.at = "deleted"
  BY <1>2 DEF insert_page
<1>4. PICK s \in Sources, t \in Texts, gone \in SUBSET Indexes :
         s = p.src /\ t = p.text /\ gone = p.seen
  BY <1>3 DEF PageCall
<1>5. table[s] = "official_guidance" /\ Chunks[t] # {} /\ Chunks[t] \subseteq Indexes
  BY <1>2, <1>3, <1>4 DEF PageInv, Indexes
<1> DEFINE left(i) == IF i \in gone THEN None ELSE rows[s][i]
<1>6. PICK new : new = [i \in Indexes |-> IF i \in Chunks[t] THEN Upsert(left(i), t) ELSE left(i)]
  OBVIOUS
<1>7. /\ rows' = [rows EXCEPT ![s] = new]
      /\ batch' = {b \in batch : b.src # s \/ b.idx \notin gone}
      /\ page' = [d \in Calls |-> IF d = c THEN None
                                  ELSE IF d \in Open(s) THEN [page[d] EXCEPT !.seen = @ \ gone]
                                  ELSE page[d]]
      /\ mixed' = IF p.alone THEN mixed \ {s} ELSE mixed \cup {s}
  BY <1>3, <1>4, <1>6 DEF insert_page
<1>8. ASSUME NEW i \in Indexes
      PROVE  /\ left(i) \in Row \cup {None}
             /\ i \in Chunks[t] => /\ new[i] \in Row /\ new[i] # None /\ new[i].text = t
                                   /\ i \in gone => new[i].emb = None
             /\ i \notin Chunks[t] => new[i] = left(i)
  <2>1. left(i) \in Row \cup {None}
    BY DEF CorpusInv, CorpusTypeOK
  <2>2. PICK old \in Row \cup {None} : old = left(i)
    BY <2>1
  <2>3. PICK up : up = Upsert(old, t)
    OBVIOUS
  <2>4. up \in Row /\ up # None /\ up.text = t
    BY <2>3, UpsertRow DEF Upsert
  <2>5. old = None => up.emb = None
    BY <2>3 DEF Upsert
  <2> QED BY <1>6, <2>1, <2>2, <2>3, <2>4, <2>5
<1>9. /\ rows' \in [Sources -> [Indexes -> Row \cup {None}]] /\ rows'[s] = new
      /\ \A o \in Sources : o # s => rows'[o] = rows[o]
  <2>1. new \in [Indexes -> Row \cup {None}]
    BY <1>6, <1>8
  <2> QED BY <1>7, <2>1 DEF CorpusInv, CorpusTypeOK
<1>10. \A i \in Indexes : i \notin gone /\ rows[s][i] # None => new[i] # None
  BY <1>8
<1>11. p.alone => gone = Present(s)
  BY <1>2, <1>3, <1>4, CorpusAssumption DEF PageInv, InDelete
<1>12. mixed' \subseteq Sources /\ \A o \in Sources : o # s => (o \in mixed' <=> o \in mixed)
  BY <1>2, <1>7
<1>13. s \in mixed' <=> ~ p.alone
  BY <1>3, <1>7 DEF PageCall
<1>14. batch' \subseteq [src: Sources, idx: Indexes, text: Texts]
  BY <1>7 DEF CorpusInv, CorpusTypeOK
<1>15. BatchInv'
  <2> SUFFICES ASSUME NEW b \in batch, b.src # s \/ b.idx \notin gone
               PROVE  /\ rows'[b.src][b.idx] # None
                      /\ table[b.src] = "official_guidance" /\ b.src \notin mixed' =>
                            rows'[b.src][b.idx].text = b.text
    BY <1>1, <1>7 DEF BatchInv
  <2>1. /\ b.src \in Sources /\ b.idx \in Indexes /\ rows[b.src][b.idx] # None
        /\ table[b.src] = "official_guidance" /\ b.src \notin mixed => rows[b.src][b.idx].text = b.text
    BY DEF CorpusInv, CorpusTypeOK, BatchInv
  <2>2. CASE b.src # s
    BY <1>9, <1>12, <2>1, <2>2
  <2>3. CASE b.src = s
    <3>1. b.idx \in Present(s)
      BY <2>1, <2>3 DEF Present
    <3>2. ~ p.alone
      BY <1>11, <2>3, <3>1
    <3> QED BY <1>9, <1>10, <1>13, <2>1, <2>3, <3>2
  <2> QED BY <2>2, <2>3
<1>16. GuidanceInv'
  <2>1. Whole(new)
    BY <1>5, <1>8 DEF Whole
  <2>2. ASSUME p.alone PROVE OneText(new)
    <3>1. \A i \in Indexes : left(i) = None
      BY <1>11, <2>2 DEF Present
    <3>2. ASSUME NEW i \in Indexes, i \in Chunks[t] PROVE new[i].emb = None
      <4>1. PICK up : up = Upsert(None, t)
        OBVIOUS
      <4>2. up.emb = None
        BY <4>1 DEF Upsert
      <4> QED BY <1>6, <3>1, <3>2, <4>1, <4>2
    <3>3. {i \in Indexes : new[i] # None} = Chunks[t]
      BY <1>5, <1>8, <3>1
    <3> QED BY <1>8, <3>1, <3>2, <3>3 DEF OneText
  <2> SUFFICES ASSUME NEW o \in Sources, table[o] = "official_guidance"
               PROVE  Whole(rows'[o]) /\ (o \notin mixed' => OneText(rows'[o]))
    BY <1>1 DEF GuidanceInv
  <2>3. CASE o = s
    BY <1>9, <1>13, <2>1, <2>2, <2>3
  <2>4. CASE o # s
    <3>1. rows'[o] = rows[o]
      BY <1>9, <2>4
    <3> QED BY <1>12, <2>4, <3>1 DEF CorpusInv, GuidanceInv
  <2> QED BY <2>3, <2>4
<1>17. ASSUME NEW d \in Calls, d # c
       PROVE  /\ page'[d] \in {None} \cup PageCall /\ (page'[d] # None <=> page[d] # None)
              /\ InDelete(page'[d]) <=> InDelete(page[d])
              /\ page[d] # None => /\ page'[d].src = page[d].src /\ page'[d].text = page[d].text
                                   /\ page'[d].alone = page[d].alone
              /\ ~ (InDelete(page[d]) /\ page[d].src = s) => page'[d] = page[d]
  <2>1. d \in Open(s) <=> InDelete(page[d]) /\ page[d].src = s
    BY DEF Open, InDelete
  <2>2. CASE d \in Open(s)
    <3>1. PICK o \in PageCall : o = page[d] /\ o # None
      BY <1>2, <2>1, <2>2, CorpusAssumption DEF InDelete
    <3>2. PICK n : n = [o EXCEPT !.seen = @ \ gone]
      OBVIOUS
    <3>3. /\ n \in PageCall /\ n.src = o.src /\ n.text = o.text /\ n.at = o.at
          /\ n.alone = o.alone /\ n # None
      BY <3>2, CorpusAssumption DEF PageCall
    <3>4. page'[d] = n
      BY <1>7, <1>17, <2>2, <3>1, <3>2
    <3> QED BY <2>1, <2>2, <3>1, <3>3, <3>4 DEF InDelete
  <2>3. CASE d \notin Open(s)
    <3>1. page'[d] = page[d]
      BY <1>7, <1>17, <2>3
    <3> QED BY <1>2, <2>1, <2>3, <3>1
  <2> QED BY <2>2, <2>3
<1>18. page'[c] = None /\ page' \in [Calls -> {None} \cup PageCall]
  BY <1>7, <1>17
<1>19. PageInv'
  <2>1. ASSUME NEW d \in Calls, page'[d] # None
        PROVE  table[page'[d].src] = "official_guidance" /\ Chunks[page'[d].text] # {}
    BY <1>2, <1>17, <1>18, <2>1 DEF PageInv
  <2>2. ASSUME NEW d \in Calls, InDelete(page'[d]), page'[d].alone
        PROVE  /\ page'[d] = page[d] /\ page'[d].src \in Sources \ {s}
               /\ page'[d].seen = Present(page'[d].src)
               /\ \A e \in Calls : e # d /\ InDelete(page'[e]) => page'[e].src # page'[d].src
    <3>1. d # c
      BY <1>18, <2>2 DEF InDelete
    <3>2. InDelete(page[d]) /\ page[d] # None /\ page[d].alone
      BY <1>17, <2>2, <3>1 DEF InDelete
    <3>3. InDelete(page[c]) /\ page[c].src = s
      BY <1>3, <1>4 DEF InDelete
    <3>4. page[d].src # s
      BY <1>2, <3>1, <3>2, <3>3 DEF PageInv
    <3>5. page'[d] = page[d] /\ page[d] \in PageCall
      BY <1>2, <1>17, <3>1, <3>2, <3>4
    <3>6. \A e \in Calls : e # d /\ InDelete(page'[e]) => InDelete(page[e]) /\ page'[e].src = page[e].src
      BY <1>17, <1>18 DEF InDelete
    <3> QED BY <1>2, <3>2, <3>4, <3>5, <3>6 DEF PageInv, PageCall
  <2>3. \A o \in Sources \ {s} : Present(o)' = Present(o)
    BY <1>9 DEF Present
  <2> QED BY <1>1, <2>1, <2>2, <2>3 DEF PageInv, InDelete
<1> QED BY <1>1, <1>9, <1>12, <1>14, <1>15, <1>16, <1>18, <1>19 DEF TablesOK, CorpusInv, CorpusTypeOK

\* The embedding job reads ...
LEMMA ReadBatchStep ==
    ASSUME CorpusInv, embed_table
    PROVE  TablesOK'
<1>1. batch' = Unembedded /\ UNCHANGED <<table, upstream, rows, pageVars>>
  BY DEF embed_table
<1>2. ASSUME NEW b \in Unembedded
      PROVE  /\ b \in [src: Sources, idx: Indexes, text: Texts]
             /\ rows[b.src][b.idx] # None /\ rows[b.src][b.idx].text = b.text
  <2>1. PICK s \in Sources, i \in Indexes :
           rows[s][i] # None /\ b = [src |-> s, idx |-> i, text |-> rows[s][i].text]
    BY DEF Unembedded
  <2>2. rows[s][i] \in Row
    BY <2>1 DEF CorpusInv, CorpusTypeOK
  <2>3. PICK t \in Texts : t = rows[s][i].text
    BY <2>2 DEF Row
  <2> QED BY <2>1, <2>3
<1>3. BatchInv'
  BY <1>1, <1>2 DEF BatchInv
<1>4. GuidanceInv' /\ PageInv'
  BY <1>1, PagesKept DEF CorpusInv, GuidanceInv, pageVars
<1>5. batch' \subseteq [src: Sources, idx: Indexes, text: Texts]
  BY <1>1, <1>2
<1> QED BY <1>1, <1>3, <1>4, <1>5 DEF TablesOK, CorpusInv, CorpusTypeOK, pageVars

\* ... and writes back what it read, unless the call failed.
LEMMA FlushStep ==
    ASSUME CorpusInv, _flush_batch
    PROVE  TablesOK'
<1>1. batch' = {} /\ UNCHANGED <<table, upstream, pageVars>>
  BY DEF _flush_batch
<1> DEFINE mine(s, i) == {b \in batch : b.src = s /\ b.idx = i}
           got(s, i) == CHOOSE b \in mine(s, i) : TRUE
           flushed(s, i) == IF mine(s, i) = {} THEN rows[s][i]
                            ELSE [rows[s][i] EXCEPT !.emb = got(s, i).text]
<1>2. CASE UNCHANGED rows
  <2>1. BatchInv' /\ GuidanceInv' /\ PageInv'
    BY <1>1, <1>2, PagesKept DEF CorpusInv, BatchInv, GuidanceInv, pageVars
  <2> QED BY <1>1, <1>2, <2>1 DEF TablesOK, CorpusInv, CorpusTypeOK, pageVars
<1>3. CASE rows' = [s \in Sources |-> [i \in Indexes |-> flushed(s, i)]]
  <2>1. ASSUME NEW s \in Sources, NEW i \in Indexes
        PROVE  /\ rows'[s][i] \in Row \cup {None} /\ (rows'[s][i] # None <=> rows[s][i] # None)
               /\ rows[s][i] # None => rows'[s][i].text = rows[s][i].text
               /\ rows[s][i] # None /\ table[s] = "official_guidance" /\ s \notin mixed =>
                     rows'[s][i].emb \in {rows[s][i].emb, rows[s][i].text}
    <3>1. rows[s][i] \in Row \cup {None} /\ rows'[s][i] = flushed(s, i)
      BY <1>3 DEF CorpusInv, CorpusTypeOK
    <3>2. CASE mine(s, i) = {}
      BY <3>1, <3>2
    <3>3. CASE mine(s, i) # {}
      <4>1. PICK b \in batch : b = got(s, i) /\ b.src = s /\ b.idx = i
        BY <3>3
      <4>2. /\ rows[s][i] # None /\ b.text \in Texts
            /\ table[s] = "official_guidance" /\ s \notin mixed => rows[s][i].text = b.text
        BY <4>1 DEF CorpusInv, CorpusTypeOK, BatchInv
      <4>3. PICK p \in Row : p = rows[s][i]
        BY <3>1, <4>2
      <4>4. PICK q : q = [p EXCEPT !.emb = b.text]
        OBVIOUS
      <4>5. q \in Row /\ q.text = p.text /\ q.emb = b.text /\ q # None
        BY <4>2, <4>4, CorpusAssumption DEF Row
      <4>6. rows'[s][i] = q
        BY <3>1, <3>3, <4>1, <4>3, <4>4
      <4> QED BY <4>2, <4>3, <4>5, <4>6
    <3> QED BY <3>2, <3>3
  <2>2. rows' \in [Sources -> [Indexes -> Row \cup {None}]]
    BY <1>3, <2>1
  <2>3. BatchInv'
    BY <1>1 DEF BatchInv
  <2>4. ASSUME NEW s \in Sources, table[s] = "official_guidance"
        PROVE  Whole(rows'[s]) /\ (s \notin mixed => OneText(rows'[s]))
    <3>1. PICK new, old : new = rows'[s] /\ old = rows[s]
      OBVIOUS
    <3>2. \A i \in Indexes : /\ new[i] # None <=> old[i] # None
                             /\ old[i] # None =>
                                   /\ new[i].text = old[i].text
                                   /\ s \notin mixed => new[i].emb \in {old[i].emb, old[i].text}
      BY <2>1, <2>4, <3>1
    <3>3. Whole(old) /\ (s \notin mixed => OneText(old))
      BY <2>4, <3>1 DEF CorpusInv, GuidanceInv
    <3>4. {i \in Indexes : new[i] # None} = {i \in Indexes : old[i] # None}
      BY <3>2
    <3>5. s \notin mixed => OneText(new)
      BY <3>2, <3>3, <3>4 DEF OneText
    <3>6. Whole(new)
      BY <3>2, <3>3 DEF Whole, Indexes
    <3> QED BY <3>1, <3>5, <3>6
  <2>5. GuidanceInv'
    BY <1>1, <2>4 DEF GuidanceInv, pageVars
  <2>6. PageInv'
    BY <1>1, <2>1, PagesKept
  <2> QED BY <1>1, <2>2, <2>3, <2>5, <2>6 DEF TablesOK, CorpusInv, CorpusTypeOK, pageVars
<1> QED BY <1>2, <1>3 DEF _flush_batch

(***************************************************************************)
(* The governed path                                                       *)
(***************************************************************************)

\* A call does not see what happens to the chunks of others.
LEMMA CallKept ==
    ASSUME NEW p, NEW old, NEW new, CallOK(p, old),
           \A k \in Keys : k.via = "auto" /\ k.src = p.src => new[k] = old[k]
    PROVE  CallOK(p, new)
BY DEF CallOK, Own

\* Inserting changes only what is absent.
LEMMA Inserted ==
    ASSUME CorpusInv, NEW new, corpus' = Insert(new)
    PROVE  /\ corpus' \in [Keys -> {"absent", "current", "stale"}]
           /\ \A k \in Keys : corpus'[k] = IF k \in new /\ corpus[k] = "absent"
                                           THEN "current" ELSE corpus[k]
BY DEF Insert, CorpusInv, CorpusTypeOK

\* The synchronisation and the statute script do not write the governed path's chunks.
LEMMA OtherWriters ==
    ASSUME CorpusInv, NEW new, \A k \in new : k.via # "auto", corpus' = Insert(new), UNCHANGED run
    PROVE  corpus' \in [Keys -> {"absent", "current", "stale"}] /\ RunsInv'
<1>1. /\ corpus' \in [Keys -> {"absent", "current", "stale"}]
      /\ \A k \in Keys : k.via = "auto" => corpus'[k] = corpus[k]
  BY Inserted
<1>2. \A r \in Runs : run[r] # None => CallOK(run[r], corpus')
  BY <1>1, CallKept DEF CorpusInv, RunsInv
<1> QED BY <1>1, <1>2 DEF CorpusInv, RunsInv, Underway

\* The calls after a step, and what they wrote.
GovernedOK ==
    /\ corpus \in [Keys -> {"absent", "current", "stale"}]
    /\ nodes \subseteq Sources /\ edges \subseteq Sources \X Linked
    /\ run \in [Runs -> {None} \cup Call]
    /\ RunsInv

\* A new call; those it joins on its source are no longer alone.
LEMMA StartStep ==
    ASSUME CorpusInv, NEW r \in Runs, NEW s \in Sources, _start_run(r, s)
    PROVE  GovernedOK'
<1>1. run[r] = None /\ UNCHANGED <<corpus, nodes, edges>>
  BY DEF _start_run
<1>2. PICK t \in Texts : t = upstream[s]
  BY DEF _start_run, CorpusInv, CorpusTypeOK
<1> DEFINE revived == {k \in Keys : /\ k.via = "auto" /\ k.src = s
                                    /\ k.text = t /\ corpus[k] = "stale"}
<1>3. PICK clean \in BOOLEAN : clean = (Active(s) = {} /\ revived = {})
  BY (Active(s) = {} /\ revived = {}) \in BOOLEAN, Zenon
<1>4. PICK mine : mine = [src |-> s, text |-> t, at |-> "started", clean |-> clean]
  OBVIOUS
<1>5. mine.src = s /\ mine.text = t /\ mine.at = "started"
  BY <1>4
<1>6. mine.clean = clean
  BY <1>4
<1>7. mine \in Call /\ mine # None
  <2>1. "started" \in Progress
    BY DEF Progress
  <2>2. mine \in Call
    BY <1>3, <1>4, <2>1, Zenon DEF Call
  <2> QED BY <2>2, CorpusAssumption
<1> DEFINE dimmed(q) == [run[q] EXCEPT !.clean = FALSE]
<1>8. run' = [q \in Runs |-> IF q = r THEN mine ELSE IF q \in Active(s) THEN dimmed(q) ELSE run[q]]
  BY <1>2, <1>3, <1>4 DEF _start_run
<1>9. ASSUME NEW q \in Runs, q # r
      PROVE  /\ run'[q] \in {None} \cup Call
             /\ run'[q] # None <=> run[q] # None
             /\ run[q] # None => run'[q].src = run[q].src /\ run'[q].at = run[q].at
                                /\ run'[q].text = run[q].text
             /\ Underway(q) /\ run[q].src = s => ~ run'[q].clean
             /\ ~ (Underway(q) /\ run[q].src = s) => run'[q] = run[q]
  <2>1. q \in Active(s) <=> Underway(q) /\ run[q].src = s
    BY DEF Active, Underway
  <2>2. CASE q \in Active(s)
    <3>1. PICK p \in Call : p = run[q]
      BY <2>1, <2>2 DEF Underway, CorpusInv, CorpusTypeOK
    <3>2. PICK d : d = [p EXCEPT !.clean = FALSE]
      OBVIOUS
    <3>3. d \in Call /\ d.src = p.src /\ d.at = p.at /\ d.text = p.text /\ d # None
      BY <3>2, CorpusAssumption DEF Call
    <3>4. ~ d.clean
      BY <3>2 DEF Call
    <3>5. run'[q] = d
      BY <1>8, <1>9, <2>2, <3>1, <3>2
    <3> QED BY <2>1, <2>2, <3>1, <3>3, <3>4, <3>5 DEF Underway
  <2>3. CASE q \notin Active(s)
    <3>1. run'[q] = run[q]
      BY <1>8, <1>9, <2>3
    <3> QED BY <2>1, <2>3, <3>1 DEF CorpusInv, CorpusTypeOK
  <2> QED BY <2>2, <2>3
<1>10. run'[r] = mine
  BY <1>8
<1>11. run' \in [Runs -> {None} \cup Call]
  <2>1. run' = [q \in Runs |-> run'[q]]
    BY <1>8
  <2>2. \A q \in Runs : run'[q] \in {None} \cup Call
    BY <1>7, <1>9, <1>10
  <2> QED BY <2>1, <2>2
<1>12. ASSUME NEW q \in Runs, run'[q] # None PROVE CallOK(run'[q], corpus)
  <2>1. CASE q = r
    <3>1. mine.clean => \A k \in Own(mine) : corpus[k] # "stale"
      BY <1>3, <1>5, <1>6 DEF Own
    <3> QED BY <1>5, <1>10, <2>1, <3>1 DEF CallOK
  <2>2. CASE q # r /\ Underway(q) /\ run[q].src = s
    <3>1. ~ run'[q].clean
      BY <1>9, <2>2
    <3> QED BY <3>1 DEF CallOK
  <2>3. CASE q # r /\ ~ (Underway(q) /\ run[q].src = s)
    <3>1. run'[q] = run[q] /\ run[q] # None
      BY <1>9, <1>12, <2>3
    <3> QED BY <3>1 DEF CorpusInv, RunsInv
  <2> QED BY <2>1, <2>2, <2>3
<1>13. ASSUME NEW p \in Runs, NEW q \in Runs, p # q, run'[p] # None, run'[p].at \notin Over,
              run'[q] # None, run'[q].at \notin Over, run'[p].clean
       PROVE  run'[q].src # run'[p].src
  <2>1. CASE p = r
    <3>1. Active(s) = {}
      BY <1>3, <1>6, <1>10, <1>13, <2>1
    <3>2. Underway(q)
      BY <1>9, <1>13, <2>1 DEF Underway
    <3> QED BY <1>5, <1>9, <1>10, <1>13, <2>1, <3>1, <3>2 DEF Active, Underway
  <2>2. CASE q = r
    <3>1. Underway(p)
      BY <1>9, <1>13, <2>2 DEF Underway
    <3>2. run[p].src # s
      BY <1>9, <1>13, <2>2, <3>1
    <3> QED BY <1>5, <1>9, <1>10, <1>13, <2>2, <3>1, <3>2 DEF Underway
  <2>3. CASE p # r /\ q # r
    <3>1. Underway(p) /\ Underway(q)
      BY <1>9, <1>13, <2>3 DEF Underway
    <3>2. run'[p] = run[p]
      BY <1>9, <1>13, <2>3, <3>1
    <3>3. run[p].clean /\ run'[q].src = run[q].src
      BY <1>9, <1>13, <2>3, <3>1, <3>2 DEF Underway
    <3> QED BY <1>13, <3>1, <3>2, <3>3 DEF CorpusInv, RunsInv
  <2> QED BY <2>1, <2>2, <2>3
<1>14. RunsInv'
  BY <1>1, <1>12, <1>13 DEF RunsInv, Underway
<1> QED BY <1>1, <1>11, <1>14 DEF GovernedOK, CorpusInv, CorpusTypeOK

\* A call goes on to another step, of which p becomes q.
LEMMA CallMoves ==
    ASSUME CorpusInv, NEW r \in Runs, NEW q \in Call, run[r] # None, run[r].at \notin Over,
           run' = [run EXCEPT ![r] = q], q.src = run[r].src, q.clean => run[r].clean,
           corpus' \in [Keys -> {"absent", "current", "stale"}],
           nodes' \subseteq Sources, edges' \subseteq Sources \X Linked,
           \A k \in Keys : k.via = "auto" /\ k.src # q.src => corpus'[k] = corpus[k],
           CallOK(q, corpus')
    PROVE  GovernedOK'
<1>1. /\ run' \in [Runs -> {None} \cup Call] /\ run'[r] = q /\ q # None
      /\ \A o \in Runs : o # r => run'[o] = run[o]
  BY CorpusAssumption DEF CorpusInv, CorpusTypeOK
<1>2. ASSUME NEW o \in Runs, run'[o] # None PROVE CallOK(run'[o], corpus')
  <2>1. CASE o = r
    BY <1>1, <2>1
  <2>2. CASE o # r /\ run[o].src # q.src
    <3>1. run'[o] = run[o] /\ CallOK(run[o], corpus)
      BY <1>1, <1>2, <2>2 DEF CorpusInv, RunsInv
    <3> QED BY <2>2, <3>1, CallKept
  <2>3. CASE o # r /\ run[o].src = q.src
    <3>1. run'[o] = run[o] /\ CallOK(run[o], corpus) /\ run[o] # None
      BY <1>1, <1>2, <2>3 DEF CorpusInv, RunsInv
    <3>2. ~ (run[o].clean /\ run[o].at \notin Over)
      BY <2>3, <3>1 DEF CorpusInv, RunsInv, Underway
    <3> QED BY <3>1, <3>2 DEF CallOK
  <2> QED BY <2>1, <2>2, <2>3
<1>3. ASSUME NEW p \in Runs, NEW o \in Runs, p # o, run'[p] # None, run'[p].at \notin Over,
             run'[o] # None, run'[o].at \notin Over, run'[p].clean
      PROVE  run'[o].src # run'[p].src
  BY <1>1, <1>3 DEF CorpusInv, RunsInv, Underway
<1>4. RunsInv'
  BY <1>2, <1>3 DEF RunsInv, Underway
<1> QED BY <1>1, <1>4 DEF GovernedOK

\* A call that only moves to its next step.
LEMMA CallAt ==
    ASSUME CorpusInv, NEW r \in Runs, run[r] # None, NEW step \in Progress,
           run' = [run EXCEPT ![r].at = step]
    PROVE  \E p \in Call, q \in Call :
              /\ p = run[r] /\ CallOK(p, corpus) /\ run' = [run EXCEPT ![r] = q]
              /\ q.src = p.src /\ q.text = p.text /\ q.at = step /\ (q.clean <=> p.clean)
              /\ Own(q) = Own(p) /\ OwnKeys(r) = Own(p)
<1>1. PICK p \in Call : p = run[r] /\ CallOK(p, corpus)
  BY DEF CorpusInv, CorpusTypeOK, RunsInv
<1>2. PICK q : q = [p EXCEPT !.at = step]
  OBVIOUS
<1>3. q \in Call /\ q.src = p.src /\ q.text = p.text /\ q.at = step
  BY <1>2 DEF Call
<1>4. q.clean <=> p.clean
  BY <1>2 DEF Call
<1>5. run' = [run EXCEPT ![r] = q]
  BY <1>1, <1>2 DEF CorpusInv, CorpusTypeOK
<1>6. Own(q) = Own(p) /\ OwnKeys(r) = Own(p)
  BY <1>1, <1>3 DEF Own, OwnKeys
<1>7. PICK d \in Call : d = q
  BY <1>3
<1> WITNESS p \in Call, d \in Call
<1> QED BY <1>1, <1>3, <1>4, <1>5, <1>6, <1>7, Zenon

\* The critic, the graph, the end of the call, and whatever cuts it short.
LEMMA PlainSteps ==
    ASSUME CorpusInv, NEW r \in Runs,
           critic_gate(r) \/ integrate(r) \/ _finish_run(r) \/ Interrupt(r)
    PROVE  GovernedOK'
<1>1. PICK step \in {"accepted", "failed", "linked", "passed", "stuck"} :
         /\ run[r] # None /\ run[r].at \notin Over /\ run' = [run EXCEPT ![r].at = step]
         /\ UNCHANGED corpus
  <2>1. CASE critic_gate(r)
    <3>1. PICK step \in {"accepted", "failed"} :
             step = IF validate(run[r].src, run[r].text) THEN "accepted" ELSE "failed"
      OBVIOUS
    <3> QED BY <2>1, <3>1 DEF critic_gate, Over
  <2>2. CASE integrate(r)
    BY <2>2 DEF integrate, Over
  <2>3. CASE _finish_run(r)
    BY <2>3 DEF _finish_run, Over
  <2>4. CASE Interrupt(r)
    BY <2>4 DEF Interrupt, Over
  <2> QED BY <2>1, <2>2, <2>3, <2>4
<1>2. PICK p \in Call, q \in Call :
              /\ p = run[r] /\ CallOK(p, corpus) /\ run' = [run EXCEPT ![r] = q]
              /\ q.src = p.src /\ q.text = p.text /\ q.at = step /\ (q.clean <=> p.clean)
              /\ Own(q) = Own(p) /\ OwnKeys(r) = Own(p)
  <2>1. step \in Progress
    BY DEF Progress
  <2> QED BY <1>1, <2>1, CallAt
<1>3. CallOK(q, corpus)
  BY <1>1, <1>2 DEF CallOK, Over
<1>4. nodes' \subseteq Sources /\ edges' \subseteq Sources \X Linked
  <2>1. run[r].src \in Sources
    BY <1>2 DEF Call
  <2>2. \/ UNCHANGED <<nodes, edges>>
        \/ nodes' = nodes \cup {run[r].src} /\ edges' = edges \cup ({run[r].src} \X (Linked \cap Known))
    BY DEF critic_gate, integrate, _finish_run, Interrupt
  <2> QED BY <2>1, <2>2 DEF CorpusInv, CorpusTypeOK
<1>5. corpus' \in [Keys -> {"absent", "current", "stale"}] /\ CallOK(q, corpus')
  BY <1>1, <1>3 DEF CorpusInv, CorpusTypeOK
<1> QED BY <1>1, <1>2, <1>4, <1>5, CallMoves

\* A call alone on its source stores its chunks, none of which is stale.
LEMMA StoreStep ==
    ASSUME CorpusInv, NEW r \in Runs, store(r)
    PROVE  GovernedOK'
<1>1. /\ run[r] # None /\ run[r].at = "linked" /\ run[r].at \notin Over
      /\ run' = [run EXCEPT ![r].at = "stored"] /\ corpus' = Insert(OwnKeys(r))
      /\ UNCHANGED <<nodes, edges>>
  BY DEF store, Over
<1>2. PICK p \in Call, q \in Call :
              /\ p = run[r] /\ CallOK(p, corpus) /\ run' = [run EXCEPT ![r] = q]
              /\ q.src = p.src /\ q.text = p.text /\ q.at = "stored" /\ (q.clean <=> p.clean)
              /\ Own(q) = Own(p) /\ OwnKeys(r) = Own(p)
  BY <1>1, CallAt DEF Progress
<1>3. /\ corpus' \in [Keys -> {"absent", "current", "stale"}]
      /\ \A k \in Keys : corpus'[k] = IF k \in Own(p) /\ corpus[k] = "absent"
                                      THEN "current" ELSE corpus[k]
  BY <1>1, <1>2, Inserted
<1>4. \A k \in Keys : corpus[k] \in {"absent", "current", "stale"}
  BY DEF CorpusInv, CorpusTypeOK
<1>5. q.clean => \A k \in Own(q) : corpus'[k] = "current"
  <2>1. q.clean => \A k \in Own(p) : corpus[k] # "stale"
    BY <1>1, <1>2 DEF CallOK
  <2> QED BY <1>2, <1>3, <1>4, <2>1 DEF Own
<1>6. CallOK(q, corpus')
  BY <1>2, <1>5 DEF CallOK
<1>7. \A k \in Keys : k.src # q.src => corpus'[k] = corpus[k]
  BY <1>2, <1>3 DEF Own
<1> QED BY <1>1, <1>2, <1>3, <1>6, <1>7, CallMoves DEF CorpusInv, CorpusTypeOK

\* ... and marks every other chunk of the source stale.
LEMMA MarkStep ==
    ASSUME CorpusInv, NEW r \in Runs, mark_stale(r)
    PROVE  GovernedOK'
<1>1. /\ run[r] # None /\ run[r].at = "stored" /\ run[r].at \notin Over
      /\ run' = [run EXCEPT ![r].at = "marked"]
      /\ UNCHANGED <<nodes, edges>>
  BY DEF mark_stale, Over
<1>2. PICK p \in Call, q \in Call :
              /\ p = run[r] /\ CallOK(p, corpus) /\ run' = [run EXCEPT ![r] = q]
              /\ q.src = p.src /\ q.text = p.text /\ q.at = "marked" /\ (q.clean <=> p.clean)
              /\ Own(q) = Own(p) /\ OwnKeys(r) = Own(p)
  BY <1>1, CallAt DEF Progress
<1>3. corpus' = [k \in Keys |-> IF k.src = p.src /\ corpus[k] = "current" /\ k \notin Own(p)
                                THEN "stale" ELSE corpus[k]]
  BY <1>2 DEF mark_stale
<1>4. corpus' \in [Keys -> {"absent", "current", "stale"}]
  BY <1>3 DEF CorpusInv, CorpusTypeOK
<1>5. \A k \in Own(p) : k \in Keys /\ corpus'[k] = corpus[k]
  BY <1>3 DEF Own
<1>6. q.clean => \A k \in Own(p) : corpus[k] = "current"
  BY <1>1, <1>2 DEF CallOK
<1>7. \A k \in Keys : k.src = q.src /\ k \notin Own(p) => corpus'[k] # "current"
  BY <1>2, <1>3
<1>8. CallOK(q, corpus')
  BY <1>2, <1>5, <1>6, <1>7 DEF CallOK
<1>9. \A k \in Keys : k.src # q.src => corpus'[k] = corpus[k]
  BY <1>2, <1>3
<1> QED BY <1>1, <1>2, <1>4, <1>8, <1>9, CallMoves DEF CorpusInv, CorpusTypeOK

\* Every step keeps the invariant.
LEMMA CorpusNextInv == CorpusInv /\ [CorpusNext]_corpusVars => CorpusInv'
<1> SUFFICES ASSUME CorpusInv, [CorpusNext]_corpusVars PROVE CorpusInv'
  OBVIOUS
<1>1. ASSUME TablesOK', GovernedOK' PROVE CorpusInv'
  BY <1>1 DEF TablesOK, GovernedOK, CorpusInv, CorpusTypeOK
<1>2. ASSUME UNCHANGED <<rows, batch, table, pageVars>>, upstream' \in [Sources -> Texts \cup {None}]
      PROVE  TablesOK'
  BY <1>2, RowsKept
<1>3. ASSUME UNCHANGED <<nodes, edges, run>>,
             \/ UNCHANGED corpus
             \/ \E new : (\A k \in new : k.via # "auto") /\ corpus' = Insert(new)
      PROVE  GovernedOK'
  <2>1. CASE UNCHANGED corpus
    BY <1>3, <2>1 DEF GovernedOK, CorpusInv, CorpusTypeOK, RunsInv, Underway
  <2>2. CASE \E new : (\A k \in new : k.via # "auto") /\ corpus' = Insert(new)
    BY <1>3, <2>2, OtherWriters DEF GovernedOK, CorpusInv, CorpusTypeOK
  <2> QED BY <1>3, <2>1, <2>2
<1>4. ASSUME NEW s \in Sources, Amend(s) PROVE CorpusInv'
  BY <1>1, <1>2, <1>3, <1>4 DEF Amend, CorpusInv, CorpusTypeOK
<1>5. ASSUME NEW s \in Sources, ingest(s) PROVE CorpusInv'
  <2>1. UNCHANGED <<corpus, nodes, edges, run>>
    BY <1>5 DEF ingest, _ingest_section, ingest_guidance_pages, _store_case
  <2> QED BY <1>1, <1>3, <1>5, <2>1, UpsertingStep DEF ingest
<1>6. ASSUME NEW s \in Sources, ingest_act(s) \/ ingest_acas_guidance(s) PROVE CorpusInv'
  <2>1. UNCHANGED <<nodes, edges, run>> /\ \E got \in {A7Chunks(s), {}} : corpus' = Insert(got)
    BY <1>6 DEF ingest_act, ingest_acas_guidance
  <2>2. \E new : (\A k \in new : k.via # "auto") /\ corpus' = Insert(new)
    BY <2>1 DEF A7Chunks
  <2> QED BY <1>1, <1>3, <1>6, <2>1, <2>2, UpsertingStep, ActStep
<1>7. CASE embed_table
  BY <1>1, <1>3, <1>7, ReadBatchStep DEF embed_table
<1>8. CASE _flush_batch
  <2>1. UNCHANGED <<corpus, nodes, edges, run>>
    BY <1>8 DEF _flush_batch
  <2> QED BY <1>1, <1>3, <1>8, <2>1, FlushStep
<1>9. CASE sync_corpus_chunks
  <2>1. TablesOK'
    BY <1>2, <1>9 DEF sync_corpus_chunks, CorpusInv, CorpusTypeOK
  <2>2. \E new : (\A k \in new : k.via # "auto") /\ corpus' = Insert(new)
    BY <1>9 DEF sync_corpus_chunks
  <2>3. UNCHANGED <<nodes, edges, run>>
    BY <1>9 DEF sync_corpus_chunks
  <2> QED BY <1>1, <1>3, <2>1, <2>2, <2>3
<1>10. ASSUME NEW r \in Runs, ingest_document(r) PROVE CorpusInv'
  <2>1. UNCHANGED <<table, upstream, rows, batch, pageVars>>
    BY <1>10 DEF ingest_document, _start_run, critic_gate, integrate, store, mark_stale,
       _finish_run, Interrupt
  <2>2. TablesOK'
    BY <1>2, <2>1 DEF CorpusInv, CorpusTypeOK
  <2>3. GovernedOK'
    BY <1>10, StartStep, PlainSteps, StoreStep, MarkStep DEF ingest_document
  <2> QED BY <1>1, <2>2, <2>3
<1>11. ASSUME NEW c \in Calls, ingest_path(c) PROVE CorpusInv'
  <2>1. UNCHANGED <<corpus, nodes, edges, run>>
    BY <1>11 DEF ingest_path, fetch_page, delete_page, deleted_page, insert_page, rollback_page
  <2> QED BY <1>1, <1>3, <1>11, <2>1, PageCallStep, InsertPageStep DEF ingest_path
<1>12. CASE UNCHANGED corpusVars
  BY <1>1, <1>2, <1>3, <1>12 DEF corpusVars, CorpusInv, CorpusTypeOK
<1> QED BY <1>4, <1>5, <1>6, <1>7, <1>8, <1>9, <1>10, <1>11, <1>12 DEF CorpusNext

\* A whole text, and on a page that is not mixed nothing else, is what coherence asks for.
LEMMA GuidanceIsCoherent == CorpusInv => GuidanceCoherent
<1> SUFFICES ASSUME CorpusInv, NEW s \in Sources, table[s] = "official_guidance", Present(s) # {}
             PROVE  \E t \in Texts :
                        /\ Chunks[t] # {} /\ Chunks[t] \subseteq Present(s)
                        /\ \A i \in Chunks[t] : rows[s][i].text = t
                        /\ s \notin mixed => /\ Present(s) = Chunks[t]
                                            /\ \A i \in Present(s) : rows[s][i].emb \in {None, t}
  BY DEF GuidanceCoherent
<1>1. Whole(rows[s]) /\ (s \notin mixed => OneText(rows[s]))
  BY DEF CorpusInv, GuidanceInv
<1>2. CASE s \in mixed
  BY <1>1, <1>2 DEF Whole, Present, Indexes
<1>3. CASE s \notin mixed
  <2>1. PICK t \in Texts : /\ Present(s) \in {{}, Chunks[t]}
                          /\ \A i \in Present(s) : rows[s][i].text = t
    BY <1>1, <1>3 DEF OneText, Present
  <2>2. \A i \in Present(s) : rows[s][i].emb \in {None, rows[s][i].text}
    BY <1>1, <1>3 DEF OneText, Present
  <2> QED BY <2>1, <2>2
<1> QED BY <1>2, <1>3

\* A call that passes leaves the chunks as its last step found them.
LEMMA PassingCall ==
    ASSUME CorpusInv, [CorpusNext]_corpusVars, NEW r \in Runs,
           run[r] # None, run[r].at = "marked", run'[r].at = "passed", run[r].clean
    PROVE  \A k \in Keys : (k.via = "auto" /\ k.src = run[r].src)
                              => (corpus'[k] = "current" <=> k \in OwnKeys(r))
<1>1. CallOK(run[r], corpus) /\ run[r] \in Call
  BY DEF CorpusInv, CorpusTypeOK, RunsInv
<1>2. /\ \A k \in Own(run[r]) : corpus[k] = "current"
      /\ \A k \in Keys : k.via = "auto" /\ k.src = run[r].src /\ k \notin Own(run[r])
                           => corpus[k] # "current"
  BY <1>1 DEF CallOK, Over
<1>3. Own(run[r]) = OwnKeys(r)
  BY DEF Own, OwnKeys
<1>4. UNCHANGED corpus
  <2>1. CASE \E q \in Runs : store(q) \/ mark_stale(q)
    <3>1. PICK q \in Runs : store(q) \/ mark_stale(q)
      BY <2>1
    <3>2. q # r
      BY <3>1 DEF store, mark_stale
    <3>3. run'[r] = run[r]
      BY <3>1, <3>2 DEF store, mark_stale, CorpusInv, CorpusTypeOK
    <3> QED BY <3>3
  <2>2. CASE \E q \in Runs : \/ \E s \in Sources : _start_run(q, s)
                             \/ critic_gate(q) \/ integrate(q) \/ _finish_run(q) \/ Interrupt(q)
    BY <2>2 DEF _start_run, critic_gate, integrate, _finish_run, Interrupt
  <2>3. ~ UNCHANGED run
    OBVIOUS
  <2>4. \E q \in Runs : ingest_document(q)
    BY <2>3 DEF CorpusNext, corpusVars, Amend, ingest, _ingest_section, ingest_guidance_pages,
       _store_case, ingest_path, ingest_act, ingest_acas_guidance, embed_table, _flush_batch,
       sync_corpus_chunks, fetch_page, delete_page, deleted_page, insert_page, rollback_page
  <2> QED BY <2>1, <2>2, <2>4 DEF ingest_document
<1> QED BY <1>2, <1>3, <1>4

(***************************************************************************)
(* The workers over the corpus                                             *)
(***************************************************************************)

\* Whatever a worker does to the corpus, the ingestion scripts could do.
LEMMA WorkersUseTheScripts == [IngestionNext]_ingestionVars => [CorpusNext]_corpusVars
<1> SUFFICES ASSUME [IngestionNext]_ingestionVars PROVE [CorpusNext]_corpusVars
  OBVIOUS
<1>1. CASE \E j \in Jobs, p \in Payloads : enqueue(j, p)
  BY <1>1 DEF enqueue
<1>2. CASE \E w \in Workers : run_once(w)
  <2>1. PICK w \in Workers : run_once(w)
    BY <1>2
  <2>2. CASE script(w)
    <3>1. UNCHANGED corpusVars \/ \E s \in Mine(w) : ingest(s)
      BY <2>2 DEF script
    <3> QED BY <3>1 DEF Mine, CorpusNext
  <2>3. CASE dequeue(w) \/ begin(w) \/ exit(w) \/ conclude(w) \/ compile(w) \/ raise(w)
    BY <2>3 DEF dequeue, begin, exit, conclude, compile, raise
  <2> QED BY <2>1, <2>2, <2>3 DEF run_once
<1>3. CASE Crash
  BY <1>3 DEF Crash
<1>4. CASE CorpusNext \/ UNCHANGED ingestionVars
  BY <1>4 DEF ingestionVars
<1> QED BY <1>1, <1>2, <1>3, <1>4 DEF IngestionNext

\* The corpus as part of the composition with the jobs.
LEMMA CorpusInvHolds == IngestionSpec => []CorpusInv
<1>1. IngestionInit => CorpusInv
  BY CorpusInitInv DEF IngestionInit
<1>2. CorpusInv /\ [IngestionNext]_ingestionVars => CorpusInv'
  BY WorkersUseTheScripts, CorpusNextInv
<1> QED BY <1>1, <1>2, PTL DEF IngestionSpec

\* A GOV.UK page with rows has all the chunks of one text, and, unless two
\* ingestions of it overlapped since one last ran alone, no others, each embedded
\* as it reads; for any number of sources, texts, calls and workers.
THEOREM GuidanceStaysCoherent == IngestionSpec => []GuidanceCoherent
<1> QED BY CorpusInvHolds, GuidanceIsCoherent, PTL

\* A call of PerpetualLawBrain that was alone on its source and brought no
\* stale text back leaves exactly the chunks of its text current when it passes.
THEOREM PassedRunsAreCurrent == IngestionSpec => PassedRunIsCurrent
<1>1. CorpusInv /\ [IngestionNext]_ingestionVars =>
         [\A r \in Runs : (run[r] # None /\ run[r].at = "marked" /\ run'[r].at = "passed" /\ run[r].clean) =>
             \A k \in Keys : (k.via = "auto" /\ k.src = run[r].src)
                                 => (corpus'[k] = "current" <=> k \in OwnKeys(r))]_corpusVars
  BY WorkersUseTheScripts, PassingCall
<1> QED BY <1>1, CorpusInvHolds, PTL DEF IngestionSpec, PassedRunIsCurrent

(***************************************************************************)
(* The jobs                                                                *)
(***************************************************************************)

In(j, q) == \E n \in 1..Len(q) : q[n] = j
Distinct(q) == \A m, n \in 1..Len(q) : q[m] = q[n] => m = n

Thread == [at: {"idle", "taken", "started", "ingested", "dead"},
           job: Jobs \cup {None}, status: Settled \cup {"none"}]

\* A thread has a job exactly while it works, and knows how the job ended.
ThreadOK(th) ==
    /\ th.job = None <=> th.at \in {"idle", "dead"}
    /\ th.at = "ingested" => th.status \in Settled

\* A job that waits or is held does so at its own worker, and nowhere else.
PlacesInv ==
    /\ \A w \in Workers : Distinct(queue[w])
    /\ \A j \in Jobs, w \in Workers :
          /\ In(j, queue[w]) \/ thread[w].job = j =>
                /\ payload[j] # None /\ payload[j].worker = w
                /\ jobRow[j] \notin Settled /\ j \notin lost
          /\ ~ (In(j, queue[w]) /\ thread[w].job = j)
    /\ \A j \in Jobs :
          /\ jobRow[j] \in Settled => payload[j] # None /\ j \notin lost
          /\ j \in lost => payload[j] # None
          /\ payload[j] # None => \/ \E w \in Workers : In(j, queue[w]) \/ thread[w].job = j
                                  \/ jobRow[j] \in Settled \/ j \in lost

JobsInv ==
    /\ payload \in [Jobs -> Payloads \cup {None}]
    /\ queue \in [Workers -> Seq(Jobs)]
    /\ thread \in [Workers -> Thread]
    /\ jobRow \in [Jobs -> Settled \cup {"none", "processing"}]
    /\ lost \subseteq Jobs
    /\ \A w \in Workers : ThreadOK(thread[w])
    /\ PlacesInv

\* Nothing is queued.
LEMMA JobsInitInv == IngestionInit => JobsInv
<1> SUFFICES ASSUME IngestionInit PROVE JobsInv
  OBVIOUS
<1>1. /\ payload = [j \in Jobs |-> None] /\ queue = [w \in Workers |-> <<>>]
      /\ thread = [w \in Workers |-> Idle] /\ jobRow = [j \in Jobs |-> "none"] /\ lost = {}
  BY DEF IngestionInit
<1>2. Idle \in Thread /\ Idle.job = None /\ Idle.at = "idle"
  BY DEF Idle, Thread
<1>3. thread \in [Workers -> Thread] /\ \A w \in Workers : ThreadOK(thread[w]) /\ thread[w].job = None
  BY <1>1, <1>2 DEF ThreadOK
<1>4. queue \in [Workers -> Seq(Jobs)] /\ \A w \in Workers : Len(queue[w]) = 0
  BY <1>1
<1>5. /\ payload \in [Jobs -> Payloads \cup {None}]
      /\ jobRow \in [Jobs -> Settled \cup {"none", "processing"}] /\ lost \subseteq Jobs
      /\ \A j \in Jobs : payload[j] = None /\ jobRow[j] \notin Settled
  BY <1>1 DEF Settled
<1>6. PlacesInv
  BY <1>1, <1>3, <1>4, <1>5, IngestionAssumption DEF PlacesInv, In, Distinct
<1> QED BY <1>3, <1>4, <1>5, <1>6 DEF JobsInv

\* A queue with a job appended, if it was not in it.
LEMMA Appended ==
    ASSUME NEW q \in Seq(Jobs), NEW j \in Jobs, Distinct(q), ~ In(j, q)
    PROVE  /\ Append(q, j) \in Seq(Jobs) /\ Distinct(Append(q, j))
           /\ \A i : In(i, Append(q, j)) <=> In(i, q) \/ i = j
<1>1. PICK r \in Seq(Jobs) : r = Append(q, j)
  <2>1. Append(q, j) \in Seq(Jobs)
    OBVIOUS
  <2> QED BY <2>1, Zenon
<1>2. /\ Len(q) \in Nat /\ Len(r) = Len(q) + 1 /\ r[Len(q) + 1] = j
      /\ \A n \in 1..Len(q) : r[n] = q[n]
  BY <1>1
<1>3. \A n \in 1..Len(r) : n \in 1..Len(q) \/ n = Len(q) + 1
  BY <1>2
<1>4. Distinct(r)
  BY <1>2, <1>3 DEF In, Distinct
<1>5. ASSUME NEW i PROVE In(i, r) <=> In(i, q) \/ i = j
  <2>1. Len(q) + 1 \in 1..Len(r) /\ \A n \in 1..Len(q) : n \in 1..Len(r)
    BY <1>2
  <2>2. ASSUME In(i, r) PROVE In(i, q) \/ i = j
    BY <1>2, <1>3, <2>2 DEF In
  <2>3. ASSUME In(i, q) \/ i = j PROVE In(i, r)
    BY <1>2, <2>1, <2>3 DEF In
  <2> QED BY <2>2, <2>3
<1> QED BY <1>1, <1>4, <1>5

\* A queue without its first job.
LEMMA Popped ==
    ASSUME NEW q \in Seq(Jobs), q # <<>>, Distinct(q)
    PROVE  /\ Head(q) \in Jobs /\ In(Head(q), q) /\ Tail(q) \in Seq(Jobs) /\ Distinct(Tail(q))
           /\ \A i : In(i, Tail(q)) <=> In(i, q) /\ i # Head(q)
<1>1. /\ Len(q) \in Nat /\ Len(q) > 0 /\ Head(q) = q[1] /\ Tail(q) \in Seq(Jobs)
      /\ Len(Tail(q)) = Len(q) - 1 /\ \A n \in 1..Len(Tail(q)) : Tail(q)[n] = q[n + 1]
  OBVIOUS
<1>2. Head(q) \in Jobs /\ In(Head(q), q)
  BY <1>1 DEF In
<1>3. Distinct(Tail(q))
  BY <1>1 DEF Distinct
<1>4. ASSUME NEW i PROVE In(i, Tail(q)) <=> In(i, q) /\ i # Head(q)
  <2>1. ASSUME In(i, Tail(q)) PROVE In(i, q) /\ i # Head(q)
    <3>1. PICK n \in 1..Len(Tail(q)) : Tail(q)[n] = i
      BY <2>1 DEF In
    <3>2. n + 1 \in 1..Len(q) /\ q[n + 1] = i /\ n + 1 # 1 /\ 1 \in 1..Len(q)
      BY <1>1, <3>1
    <3> QED BY <1>1, <3>2 DEF In, Distinct
  <2>2. ASSUME In(i, q), i # Head(q) PROVE In(i, Tail(q))
    <3>1. PICK n \in 1..Len(q) : q[n] = i
      BY <2>2 DEF In
    <3>2. n - 1 \in 1..Len(Tail(q)) /\ Tail(q)[n - 1] = i
      BY <1>1, <2>2, <3>1
    <3> QED BY <3>2 DEF In
  <2> QED BY <2>1, <2>2
<1> QED BY <1>1, <1>2, <1>3, <1>4

\* A job is enqueued once, for payloads are only ever given to fresh ids.
LEMMA EnqueueStep ==
    ASSUME JobsInv, NEW j \in Jobs, NEW p \in Payloads, enqueue(j, p)
    PROVE  JobsInv'
<1>1. /\ payload[j] = None /\ payload' = [payload EXCEPT ![j] = p]
      /\ UNCHANGED <<thread, jobRow, lost>>
  BY DEF enqueue
<1>2. PICK v \in Workers : v = p.worker
  BY IngestionAssumption
<1>3. queue' = [queue EXCEPT ![v] = Append(queue[v], j)]
  BY <1>2 DEF enqueue, JobsInv
<1>4. ~ In(j, queue[v]) /\ Distinct(queue[v]) /\ queue[v] \in Seq(Jobs)
  BY <1>1 DEF JobsInv, PlacesInv
<1>5. /\ Append(queue[v], j) \in Seq(Jobs) /\ Distinct(Append(queue[v], j))
      /\ \A i : In(i, Append(queue[v], j)) <=> In(i, queue[v]) \/ i = j
  BY <1>4, Appended
<1>6. /\ queue' \in [Workers -> Seq(Jobs)] /\ \A w \in Workers : Distinct(queue'[w])
      /\ \A i \in Jobs, w \in Workers :
            In(i, queue'[w]) <=> In(i, queue[w]) \/ (i = j /\ w = v)
  BY <1>3, <1>5 DEF JobsInv, PlacesInv
<1>7. p # None /\ payload' \in [Jobs -> Payloads \cup {None}] /\ payload'[j] = p
      /\ \A i \in Jobs : i # j => payload'[i] = payload[i]
  BY <1>1, IngestionAssumption DEF JobsInv
<1>8. PlacesInv'
  <2>1. \A i \in Jobs, w \in Workers :
          /\ In(i, queue'[w]) \/ thread[w].job = i =>
                /\ payload'[i] # None /\ payload'[i].worker = w
                /\ jobRow[i] \notin Settled /\ i \notin lost
          /\ ~ (In(i, queue'[w]) /\ thread[w].job = i)
    BY <1>1, <1>2, <1>6, <1>7 DEF JobsInv, PlacesInv
  <2>2. \A i \in Jobs :
          /\ jobRow[i] \in Settled => payload'[i] # None /\ i \notin lost
          /\ i \in lost => payload'[i] # None
          /\ payload'[i] # None => \/ \E w \in Workers : In(i, queue'[w]) \/ thread[w].job = i
                                   \/ jobRow[i] \in Settled \/ i \in lost
    BY <1>1, <1>2, <1>6, <1>7 DEF JobsInv, PlacesInv
  <2> QED BY <1>1, <1>6, <2>1, <2>2 DEF PlacesInv
<1> QED BY <1>1, <1>6, <1>7, <1>8 DEF JobsInv

\* A job goes from the head of its queue into the hands of the thread ...
LEMMA PopStep ==
    ASSUME JobsInv, NEW w \in Workers, thread[w].at = "idle", queue[w] # <<>>,
           thread' = [thread EXCEPT ![w] = [Idle EXCEPT !.at = "taken", !.job = Head(queue[w])]],
           queue' = [queue EXCEPT ![w] = Tail(@)], UNCHANGED <<payload, jobRow, lost>>
    PROVE  JobsInv'
<1>1. thread[w].at = "idle" /\ queue[w] # <<>> /\ UNCHANGED <<payload, jobRow, lost>>
  OBVIOUS
<1>2. queue[w] \in Seq(Jobs) /\ Distinct(queue[w])
  BY DEF JobsInv, PlacesInv
<1>3. PICK h \in Jobs : h = Head(queue[w])
  BY <1>1, <1>2, Popped
<1>4. /\ In(h, queue[w]) /\ Tail(queue[w]) \in Seq(Jobs) /\ Distinct(Tail(queue[w]))
      /\ \A i : In(i, Tail(queue[w])) <=> In(i, queue[w]) /\ i # h
  BY <1>1, <1>2, <1>3, Popped
<1>5. PICK th : th = [Idle EXCEPT !.at = "taken", !.job = h]
  OBVIOUS
<1>6. th \in Thread /\ ThreadOK(th) /\ th.job = h
  BY <1>5, IngestionAssumption DEF Idle, Thread, ThreadOK
<1>7. thread' = [thread EXCEPT ![w] = th]
  BY <1>3, <1>5
<1>8. /\ thread' \in [Workers -> Thread] /\ \A v \in Workers : ThreadOK(thread'[v])
      /\ thread'[w].job = h /\ \A v \in Workers : v # w => thread'[v] = thread[v]
  BY <1>6, <1>7 DEF JobsInv
<1>9. /\ queue' \in [Workers -> Seq(Jobs)] /\ \A v \in Workers : Distinct(queue'[v])
      /\ \A i \in Jobs, v \in Workers :
            In(i, queue'[v]) <=> In(i, queue[v]) /\ ~ (v = w /\ i = h)
  BY <1>4 DEF JobsInv, PlacesInv
<1>10. thread[w].job = None
  BY <1>1 DEF JobsInv, ThreadOK
<1>11. PlacesInv'
  <2>1. ASSUME NEW i \in Jobs, NEW v \in Workers
        PROVE  /\ In(i, queue'[v]) \/ thread'[v].job = i => In(i, queue[v]) \/ thread[v].job = i
               /\ ~ (In(i, queue'[v]) /\ thread'[v].job = i)
               /\ In(i, queue[v]) \/ thread[v].job = i => In(i, queue'[v]) \/ thread'[v].job = i
    <3>1. CASE v = w
      BY <1>4, <1>8, <1>9, <1>10, <3>1, IngestionAssumption
    <3>2. CASE v # w
      BY <1>8, <1>9, <3>2 DEF JobsInv, PlacesInv
    <3> QED BY <3>1, <3>2
  <2>2. \A i \in Jobs, v \in Workers :
          /\ In(i, queue'[v]) \/ thread'[v].job = i =>
                /\ payload[i] # None /\ payload[i].worker = v
                /\ jobRow[i] \notin Settled /\ i \notin lost
          /\ ~ (In(i, queue'[v]) /\ thread'[v].job = i)
    BY <2>1 DEF JobsInv, PlacesInv
  <2>3. \A i \in Jobs :
          /\ jobRow[i] \in Settled => payload[i] # None /\ i \notin lost
          /\ i \in lost => payload[i] # None
          /\ payload[i] # None => \/ \E v \in Workers : In(i, queue'[v]) \/ thread'[v].job = i
                                  \/ jobRow[i] \in Settled \/ i \in lost
    <3> SUFFICES ASSUME NEW i \in Jobs, payload[i] # None, jobRow[i] \notin Settled, i \notin lost
                 PROVE  \E v \in Workers : In(i, queue'[v]) \/ thread'[v].job = i
      BY DEF JobsInv, PlacesInv
    <3>1. PICK v \in Workers : In(i, queue[v]) \/ thread[v].job = i
      BY DEF JobsInv, PlacesInv
    <3> QED BY <2>1, <3>1
  <2> QED BY <1>1, <1>9, <2>2, <2>3 DEF PlacesInv
<1> QED BY <1>1, <1>8, <1>9, <1>11 DEF JobsInv

\* ... or, when the call fails, stays in the queue or is nowhere; the thread has ended.
LEMMA FailedPopStep ==
    ASSUME JobsInv, NEW w \in Workers, thread[w].at = "idle",
           thread' = [thread EXCEPT ![w] = Ended], UNCHANGED <<payload, jobRow>>,
           \/ UNCHANGED <<queue, lost>>
           \/ /\ queue[w] # <<>> /\ queue' = [queue EXCEPT ![w] = Tail(@)]
              /\ lost' = lost \cup {Head(queue[w])}
    PROVE  JobsInv'
<1>1. Ended \in Thread /\ ThreadOK(Ended) /\ Ended.job = None
  BY DEF Ended, Idle, Thread, ThreadOK
<1>2. /\ thread' \in [Workers -> Thread] /\ \A v \in Workers : ThreadOK(thread'[v])
      /\ \A v \in Workers : thread'[v].job = thread[v].job
  BY <1>1 DEF JobsInv, ThreadOK
<1>3. CASE UNCHANGED <<queue, lost>>
  BY <1>2, <1>3 DEF JobsInv, PlacesInv
<1>4. CASE /\ queue[w] # <<>> /\ queue' = [queue EXCEPT ![w] = Tail(@)]
           /\ lost' = lost \cup {Head(queue[w])}
  <2>1. queue[w] \in Seq(Jobs) /\ Distinct(queue[w])
    BY DEF JobsInv, PlacesInv
  <2>2. PICK h \in Jobs : h = Head(queue[w])
    BY <1>4, <2>1, Popped
  <2>3. /\ In(h, queue[w]) /\ Tail(queue[w]) \in Seq(Jobs) /\ Distinct(Tail(queue[w]))
        /\ \A i : In(i, Tail(queue[w])) <=> In(i, queue[w]) /\ i # h
    BY <1>4, <2>1, <2>2, Popped
  <2>4. /\ queue' \in [Workers -> Seq(Jobs)] /\ \A v \in Workers : Distinct(queue'[v])
        /\ \A i \in Jobs, v \in Workers : In(i, queue'[v]) <=> In(i, queue[v]) /\ ~ (v = w /\ i = h)
    BY <1>4, <2>3 DEF JobsInv, PlacesInv
  <2>5. /\ payload[h] # None /\ payload[h].worker = w /\ jobRow[h] \notin Settled
        /\ \A v \in Workers : In(h, queue[v]) \/ thread[v].job = h => v = w
        /\ thread[w].job # h
    BY <2>3 DEF JobsInv, PlacesInv
  <2>6. lost' = lost \cup {h} /\ lost' \subseteq Jobs
    BY <1>4, <2>2 DEF JobsInv
  <2>7. \A i \in Jobs, v \in Workers :
          /\ In(i, queue'[v]) \/ thread'[v].job = i =>
                /\ payload[i] # None /\ payload[i].worker = v
                /\ jobRow[i] \notin Settled /\ i \notin lost'
          /\ ~ (In(i, queue'[v]) /\ thread'[v].job = i)
    <3> SUFFICES ASSUME NEW i \in Jobs, NEW v \in Workers, In(i, queue'[v]) \/ thread'[v].job = i
                 PROVE  /\ payload[i] # None /\ payload[i].worker = v
                        /\ jobRow[i] \notin Settled /\ i \notin lost'
                        /\ ~ (In(i, queue'[v]) /\ thread'[v].job = i)
      OBVIOUS
    <3>1. In(i, queue[v]) \/ thread[v].job = i
      BY <1>2, <2>4
    <3>2. i # h
      BY <1>2, <2>4, <2>5
    <3> QED BY <1>2, <2>4, <2>6, <3>1, <3>2 DEF JobsInv, PlacesInv
  <2>8. \A i \in Jobs :
          /\ jobRow[i] \in Settled => payload[i] # None /\ i \notin lost'
          /\ i \in lost' => payload[i] # None
          /\ payload[i] # None => \/ \E v \in Workers : In(i, queue'[v]) \/ thread'[v].job = i
                                  \/ jobRow[i] \in Settled \/ i \in lost'
    BY <1>2, <2>4, <2>5, <2>6 DEF JobsInv, PlacesInv
  <2>9. PlacesInv'
    BY <2>4, <2>7, <2>8 DEF PlacesInv
  <2> QED BY <1>2, <2>4, <2>6, <2>9 DEF JobsInv
<1> QED BY <1>3, <1>4

\* BRPOP and what it can raise.
LEMMA DequeueStep ==
    ASSUME JobsInv, NEW w \in Workers, dequeue(w)
    PROVE  JobsInv'
BY PopStep, FailedPopStep DEF dequeue

\* A thread keeps its job, or gives it up: to its row in ingestion_jobs or to nothing.
LEMMA GivingUp ==
    ASSUME JobsInv, UNCHANGED <<payload, queue>>,
           thread' \in [Workers -> Thread], \A w \in Workers : ThreadOK(thread'[w]),
           jobRow' \in [Jobs -> Settled \cup {"none", "processing"}], lost' \subseteq Jobs,
           \A w \in Workers : thread'[w].job \in {thread[w].job, None},
           \A j \in Jobs : IF \E w \in Workers : thread[w].job = j /\ thread'[w].job = None
                           THEN jobRow'[j] \in Settled <=> j \notin lost'
                           ELSE /\ jobRow'[j] \in Settled <=> jobRow[j] \in Settled
                                /\ j \in lost' <=> j \in lost
    PROVE  JobsInv'
<1>1. \A j \in Jobs, w \in Workers :
          /\ In(j, queue[w]) \/ thread'[w].job = j =>
                /\ payload[j] # None /\ payload[j].worker = w
                /\ jobRow'[j] \notin Settled /\ j \notin lost'
          /\ ~ (In(j, queue[w]) /\ thread'[w].job = j)
  <2> SUFFICES ASSUME NEW j \in Jobs, NEW w \in Workers, In(j, queue[w]) \/ thread'[w].job = j
               PROVE  /\ payload[j] # None /\ payload[j].worker = w
                      /\ jobRow'[j] \notin Settled /\ j \notin lost'
                      /\ ~ (In(j, queue[w]) /\ thread'[w].job = j)
    OBVIOUS
  <2>1. j # None
    BY IngestionAssumption
  <2>2. In(j, queue[w]) \/ thread[w].job = j
    BY <2>1
  <2>3. /\ payload[j] # None /\ payload[j].worker = w /\ jobRow[j] \notin Settled /\ j \notin lost
        /\ ~ (In(j, queue[w]) /\ thread[w].job = j)
    BY <2>2 DEF JobsInv, PlacesInv
  <2>4. ~ \E v \in Workers : thread[v].job = j /\ thread'[v].job = None
    <3> SUFFICES ASSUME NEW v \in Workers, thread[v].job = j, thread'[v].job = None PROVE FALSE
      OBVIOUS
    <3>1. payload[j].worker = v
      BY DEF JobsInv, PlacesInv
    <3> QED BY <2>1, <2>3, <3>1
  <2> QED BY <2>1, <2>3, <2>4
<1>2. ASSUME NEW j \in Jobs
      PROVE  /\ jobRow'[j] \in Settled => payload[j] # None /\ j \notin lost'
             /\ j \in lost' => payload[j] # None
             /\ payload[j] # None => \/ \E w \in Workers : In(j, queue[w]) \/ thread'[w].job = j
                                     \/ jobRow'[j] \in Settled \/ j \in lost'
  <2>1. CASE \E w \in Workers : thread[w].job = j /\ thread'[w].job = None
    <3>1. payload[j] # None
      BY <2>1 DEF JobsInv, PlacesInv
    <3> QED BY <2>1, <3>1
  <2>2. CASE ~ \E w \in Workers : thread[w].job = j /\ thread'[w].job = None
    <3>1. \A w \in Workers : thread[w].job = j => thread'[w].job = j
      BY <2>2
    <3> QED BY <2>2, <3>1 DEF JobsInv, PlacesInv
  <2> QED BY <2>1, <2>2
<1>3. PlacesInv'
  BY <1>1, <1>2 DEF JobsInv, PlacesInv
<1> QED BY <1>3 DEF JobsInv

\* The steps of one thread that keep its job or give it up.
LEMMA ThreadStep ==
    ASSUME JobsInv, NEW w \in Workers, NEW th \in Thread, ThreadOK(th),
           thread[w].job # None, UNCHANGED <<payload, queue>>, thread' = [thread EXCEPT ![w] = th],
           NEW status \in Settled \cup {"processing"},
           \/ /\ th.job = thread[w].job /\ UNCHANGED lost
              /\ \/ UNCHANGED jobRow
                 \/ jobRow' = [jobRow EXCEPT ![thread[w].job] = "processing"]
           \/ /\ th.job = None /\ UNCHANGED lost /\ status \in Settled
              /\ jobRow' = [jobRow EXCEPT ![thread[w].job] = status]
           \/ th.job = None /\ lost' = lost \cup {thread[w].job} /\ UNCHANGED jobRow
    PROVE  JobsInv'
<1>1. PICK h \in Jobs : h = thread[w].job
  BY DEF JobsInv, Thread
<1>2. jobRow[h] \notin Settled /\ h \notin lost
  BY <1>1 DEF JobsInv, PlacesInv
<1>3. /\ thread' \in [Workers -> Thread] /\ thread'[w] = th
      /\ \A v \in Workers : v # w => thread'[v] = thread[v]
      /\ \A v \in Workers : ThreadOK(thread'[v])
  BY DEF JobsInv
<1>4. jobRow' \in [Jobs -> Settled \cup {"none", "processing"}] /\ lost' \subseteq Jobs
  BY <1>1 DEF JobsInv
<1>5. \A v \in Workers : thread'[v].job \in {thread[v].job, None}
  BY <1>3
<1>6. \A j \in Jobs : j # h => (jobRow'[j] \in Settled <=> jobRow[j] \in Settled)
                               /\ (j \in lost' <=> j \in lost)
  BY <1>1 DEF JobsInv
<1>7. th.job = None => (jobRow'[h] \in Settled <=> h \notin lost')
  BY <1>1, <1>2, IngestionAssumption DEF JobsInv
<1>8. th.job # None => jobRow'[h] \notin Settled /\ h \notin lost'
  BY <1>1, <1>2 DEF JobsInv, Settled
<1>9. \A j \in Jobs : IF \E v \in Workers : thread[v].job = j /\ thread'[v].job = None
                      THEN jobRow'[j] \in Settled <=> j \notin lost'
                      ELSE /\ jobRow'[j] \in Settled <=> jobRow[j] \in Settled
                           /\ j \in lost' <=> j \in lost
  <2> SUFFICES ASSUME NEW j \in Jobs
               PROVE  IF \E v \in Workers : thread[v].job = j /\ thread'[v].job = None
                      THEN jobRow'[j] \in Settled <=> j \notin lost'
                      ELSE /\ jobRow'[j] \in Settled <=> jobRow[j] \in Settled
                           /\ j \in lost' <=> j \in lost
    OBVIOUS
  <2>1. CASE j = h
    <3>1. th.job = None \/ ~ \E v \in Workers : thread[v].job = j /\ thread'[v].job = None
      BY <1>1, <1>3, <2>1, IngestionAssumption
    <3>2. th.job = None => \E v \in Workers : thread[v].job = j /\ thread'[v].job = None
      BY <1>1, <1>3, <2>1
    <3> QED BY <1>2, <1>7, <1>8, <2>1, <3>1, <3>2
  <2>2. CASE j # h
    <3>1. ~ \E v \in Workers : thread[v].job = j /\ thread'[v].job = None
      BY <1>1, <1>3, <2>2, IngestionAssumption
    <3> QED BY <1>6, <2>2, <3>1
  <2> QED BY <2>1, <2>2
<1> QED BY <1>3, <1>4, <1>5, <1>9, GivingUp

\* Beginning a job records that it is processed, or, without a licence, that it is not.
LEMMA BeginStep ==
    ASSUME JobsInv, NEW w \in Workers, begin(w)
    PROVE  JobsInv'
<1>1. thread[w].at = "taken" /\ UNCHANGED <<payload, queue, lost>>
  BY DEF begin
<1>2. PICK th \in Thread : th = thread[w]
  BY DEF JobsInv
<1>3. th.job # None
  BY <1>1, <1>2 DEF JobsInv, ThreadOK
<1>4. PICK started : started = [th EXCEPT !.at = "started"]
  OBVIOUS
<1>5. started \in Thread /\ started.at = "started" /\ started.job = th.job
  BY <1>4 DEF Thread
<1>6. Idle \in Thread /\ ThreadOK(Idle) /\ Idle.job = None
  BY DEF Idle, Thread, ThreadOK
<1>7. ThreadOK(started)
  BY <1>3, <1>5 DEF ThreadOK
<1>8. CASE /\ jobRow' = [jobRow EXCEPT ![thread[w].job] = "processing"]
           /\ thread' = [thread EXCEPT ![w] = started]
  BY <1>1, <1>2, <1>3, <1>5, <1>7, <1>8, ThreadStep
<1>9. CASE /\ jobRow' = [jobRow EXCEPT ![thread[w].job] = "skipped"]
           /\ thread' = [thread EXCEPT ![w] = Idle]
  <2>1. "skipped" \in Settled
    BY DEF Settled
  <2> QED BY <1>1, <1>2, <1>3, <1>6, <1>9, <2>1, ThreadStep
<1>10. CASE thread' = [thread EXCEPT ![w] = started] /\ UNCHANGED jobRow
  BY <1>1, <1>2, <1>3, <1>5, <1>7, <1>10, ThreadStep
<1> QED BY <1>2, <1>4, <1>8, <1>9, <1>10 DEF begin, Record

\* The script leaves the thread with the status it will record.
LEMMA ScriptStep ==
    ASSUME JobsInv, NEW w \in Workers, script(w)
    PROVE  JobsInv'
<1>1. thread[w].at = "started" /\ UNCHANGED <<payload, queue, lost, jobRow>>
  BY DEF script
<1>2. PICK th \in Thread : th = thread[w]
  BY DEF JobsInv
<1>3. th.job # None
  BY <1>1, <1>2 DEF JobsInv, ThreadOK
<1>4. PICK status \in Settled :
         thread' = [thread EXCEPT ![w].at = "ingested", ![w].status = status]
  <2>1. PICK a, b : /\ a = (IF w = "legislation" THEN "skipped" ELSE "done")
                    /\ b = (IF w = "legislation" /\ \E s \in Mine(w) : Fetched(s) = "empty"
                            THEN "failed" ELSE "done")
    OBVIOUS
  <2>2. a \in Settled /\ b \in Settled
    BY <2>1 DEF Settled
  <2>3. \/ thread' = [thread EXCEPT ![w].at = "ingested", ![w].status = a]
        \/ thread' = [thread EXCEPT ![w].at = "ingested", ![w].status = b]
    BY <2>1 DEF script
  <2> QED BY <2>2, <2>3
<1>5. PICK new : new = [th EXCEPT !.at = "ingested", !.status = status]
  OBVIOUS
<1>6. new \in Thread /\ new.at = "ingested" /\ new.job = th.job /\ new.status = status
  BY <1>5 DEF Thread
<1>7. ThreadOK(new)
  BY <1>3, <1>6 DEF ThreadOK
<1>8. thread' = [thread EXCEPT ![w] = new]
  BY <1>2, <1>4, <1>5 DEF JobsInv
<1> QED BY <1>1, <1>2, <1>3, <1>6, <1>7, <1>8, ThreadStep

\* Every other end of a job: its status is recorded, or nothing of it is left.
LEMMA EndStep ==
    ASSUME JobsInv, NEW w \in Workers, exit(w) \/ conclude(w) \/ compile(w) \/ raise(w)
    PROVE  JobsInv'
<1>1. thread[w].at \in {"taken", "started", "ingested"} /\ UNCHANGED <<payload, queue>>
  BY DEF exit, conclude, compile, raise
<1>2. thread[w].job # None
  BY <1>1 DEF JobsInv, ThreadOK
<1>3. PICK dead : dead = Ended
  OBVIOUS
<1>4. /\ Idle \in Thread /\ ThreadOK(Idle) /\ Idle.job = None
      /\ dead \in Thread /\ ThreadOK(dead) /\ dead.job = None
  BY <1>3 DEF Ended, Idle, Thread, ThreadOK
<1>5. ASSUME NEW status \in Settled, Record(w, status, Idle), UNCHANGED lost PROVE JobsInv'
  BY <1>1, <1>2, <1>4, <1>5, ThreadStep DEF Record
<1>6. ASSUME NEW th \in {Idle, dead}, thread' = [thread EXCEPT ![w] = th],
             lost' = lost \cup {thread[w].job}, UNCHANGED jobRow
      PROVE  JobsInv'
  BY <1>1, <1>2, <1>4, <1>6, ThreadStep
<1>7. CASE exit(w)
  BY <1>3, <1>6, <1>7 DEF exit
<1>8. CASE conclude(w)
  <2>1. thread[w].status \in Settled
    BY <1>8 DEF conclude, JobsInv, ThreadOK
  <2> QED BY <1>5, <1>8, <2>1 DEF conclude
<1>9. CASE compile(w)
  BY <1>5, <1>9 DEF compile, Settled
<1>10. CASE raise(w)
  <2>1. \/ Record(w, "failed", Idle) /\ UNCHANGED lost
        \/ /\ thread' = [thread EXCEPT ![w] = Idle]
           /\ lost' = lost \cup {thread[w].job} /\ UNCHANGED jobRow
    BY <1>10 DEF raise
  <2>2. "failed" \in Settled
    BY DEF Settled
  <2> QED BY <1>5, <1>6, <2>1, <2>2
<1> QED BY <1>7, <1>8, <1>9, <1>10

\* A crash takes the jobs in hand and no other.
LEMMA CrashStep == ASSUME JobsInv, Crash PROVE JobsInv'
<1>1. /\ thread' = [w \in Workers |-> Idle] /\ UNCHANGED <<payload, queue, jobRow>>
      /\ lost' = lost \cup {thread[w].job : w \in {v \in Workers : thread[v].job # None}}
  BY DEF Crash
<1>2. Idle \in Thread /\ ThreadOK(Idle) /\ Idle.job = None
  BY DEF Idle, Thread, ThreadOK
<1>3. /\ thread' \in [Workers -> Thread]
      /\ \A w \in Workers : ThreadOK(thread'[w]) /\ thread'[w].job = None
  BY <1>1, <1>2
<1>4. lost' \subseteq Jobs
  BY <1>1 DEF JobsInv, Thread
<1>5. \A j \in Jobs : j \in lost' <=> j \in lost \/ \E w \in Workers : thread[w].job = j
  BY <1>1, IngestionAssumption
<1>6. \A j \in Jobs, w \in Workers : thread[w].job = j => jobRow[j] \notin Settled
  BY DEF JobsInv, PlacesInv
<1>7. \A j \in Jobs : IF \E w \in Workers : thread[w].job = j /\ thread'[w].job = None
                      THEN jobRow'[j] \in Settled <=> j \notin lost'
                      ELSE /\ jobRow'[j] \in Settled <=> jobRow[j] \in Settled
                           /\ j \in lost' <=> j \in lost
  BY <1>1, <1>3, <1>5, <1>6
<1>8. jobRow' \in [Jobs -> Settled \cup {"none", "processing"}]
  BY <1>1 DEF JobsInv
<1> QED BY <1>1, <1>3, <1>4, <1>7, <1>8, GivingUp

\* Every step moves at most one job from one place to another.
LEMMA JobsNextInv == JobsInv /\ [IngestionNext]_ingestionVars => JobsInv'
<1> SUFFICES ASSUME JobsInv, [IngestionNext]_ingestionVars PROVE JobsInv'
  OBVIOUS
<1>1. CASE \E j \in Jobs, p \in Payloads : enqueue(j, p)
  BY <1>1, EnqueueStep
<1>2. CASE \E w \in Workers : run_once(w)
  BY <1>2, DequeueStep, BeginStep, ScriptStep, EndStep DEF run_once
<1>3. CASE Crash
  BY <1>3, CrashStep
<1>4. CASE UNCHANGED jobVars
  BY <1>4 DEF jobVars, JobsInv, PlacesInv
<1> QED BY <1>1, <1>2, <1>3, <1>4 DEF IngestionNext, ingestionVars

\* An enqueued job is in exactly one of the four places.
LEMMA OnePlace == JobsInv => JobAccounted
<1> SUFFICES ASSUME JobsInv PROVE JobAccounted
  OBVIOUS
<1> DEFINE waiting(j) == \E w \in Workers : \E n \in 1..Len(queue[w]) : queue[w][n] = j
           held(j) == \E w \in Workers : thread[w].job = j
           settled(j) == jobRow[j] \in Settled
           places(j) == {x \in {"waiting", "held", "settled", "lost"} :
                            \/ x = "waiting" /\ waiting(j)
                            \/ x = "held" /\ held(j)
                            \/ x = "settled" /\ settled(j)
                            \/ x = "lost" /\ j \in lost}
<1>1. ASSUME NEW j \in Jobs, payload[j] # None PROVE Cardinality(places(j)) = 1
  <2>1. waiting(j) <=> \E w \in Workers : In(j, queue[w])
    BY DEF In
  <2>2. waiting(j) => ~ held(j) /\ ~ settled(j) /\ j \notin lost
    BY <2>1 DEF JobsInv, PlacesInv
  <2>3. held(j) => ~ settled(j) /\ j \notin lost
    BY DEF JobsInv, PlacesInv
  <2>4. settled(j) => j \notin lost
    BY DEF JobsInv, PlacesInv
  <2>5. waiting(j) \/ held(j) \/ settled(j) \/ j \in lost
    BY <1>1, <2>1 DEF JobsInv, PlacesInv
  <2> HIDE DEF waiting, held, settled
  <2>6. \E x : places(j) = {x}
    <3>1. CASE waiting(j)
      <4>1. places(j) = {"waiting"}
        BY <2>2, <3>1
      <4> QED BY <4>1
    <3>2. CASE held(j)
      <4>1. places(j) = {"held"}
        BY <2>2, <2>3, <3>2
      <4> QED BY <4>1
    <3>3. CASE settled(j)
      <4>1. places(j) = {"settled"}
        BY <2>2, <2>3, <2>4, <3>3
      <4> QED BY <4>1
    <3>4. CASE j \in lost
      <4>1. places(j) = {"lost"}
        BY <2>2, <2>3, <2>4, <3>4
      <4> QED BY <4>1
    <3> QED BY <2>5, <3>1, <3>2, <3>3, <3>4
  <2> QED BY <2>6, FS_Singleton
<1> QED BY <1>1 DEF JobAccounted

\* A job that was put on a queue is always in exactly one place: waiting, held
\* by a thread, settled in ingestion_jobs, or taken by a fault; for any number
\* of jobs, faults and sources.
THEOREM JobsStayAccounted == IngestionSpec => []JobAccounted
<1> QED BY JobsInitInv, JobsNextInv, OnePlace, PTL DEF IngestionSpec
=============================================================================
