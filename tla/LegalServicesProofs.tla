------------------------ MODULE LegalServicesProofs -------------------------
(***************************************************************************)
(* What holds of the services that answer from the law, each on its own,   *)
(* whatever is asked, however often and however late: the Swedish corpus,  *)
(* the table of statutory figures, the deadlines, the rules cache and the  *)
(* citation guard, the search service, the authority chains, the walk of   *)
(* the legal graph and the circuit breaker in front of the model.          *)
(***************************************************************************)
EXTENDS SwedishPack, RuleTable, Verdicts, Caches, SearchService, LegalGraph,
        Breaker, FiniteSetTheorems, WellFoundedInduction, TLAPS

(***************************************************************************)
(* The Swedish corpus is labelled as what it is and a sign-off covers what *)
(* was signed, for any acts, texts, amendments and candidate rules.        *)
(*                                                                         *)
(* The heart of the argument: every legislation row has a chunk of its     *)
(* hash already, because the seed writes row and chunk in one transaction  *)
(* and both writers hash act, position and text.  So the synchronisation,  *)
(* which would label it as British law, never adds one.                    *)
(***************************************************************************)

RuleStatuses == {"absent", "DRAFT-UNVALIDATED", "unverified", "verified"}
Texts == Versions \cup {NoText}

(* What a seed reads is a text: the fetcher never stores a missing one.    *)
PackTypes ==
    /\ published \in [Acts -> Texts]
    /\ fixture \in [Acts -> Versions]
    /\ seeding \in [at : {"idle", "parse"}, map : [Acts -> Texts], parsed : [Acts -> Texts]]
    /\ seeding.at = "parse" => seeding.map \in [Acts -> Versions]
    /\ DOMAIN sections = Acts
    /\ seRules \in [Candidates -> [text : Texts, status : RuleStatuses]]
    /\ signedText \in [Candidates -> Texts]
    /\ seededText \in [Acts -> Texts]

(* A stored rule was found in the text it names.                           *)
RulesFound ==
    \A k \in Candidates : seRules[k].status # "absent" => seRules[k].text \in Literal[k]

(* Chunks come from the seed alone.                                        *)
FromSeed ==
    \A c \in chunks : \E a \in Acts, t \in Versions : \E i \in DOMAIN Sections[t] :
        c = SeedChunk(a, t, i)

(* Every row of legislation has its chunk, known by its hash.              *)
RowsHaveChunks ==
    \A a \in Acts : \A i \in DOMAIN sections[a] :
        \E d \in chunks : d.hash = <<a, i, sections[a][i].body>>

(* Every section of the text stored last has its chunk.                    *)
StoredHasChunks ==
    \A a \in Acts : seededText[a] # NoText =>
        \A i \in DOMAIN Sections[seededText[a]] :
            \E c \in chunks : /\ c.act = a /\ c.ref = Sections[seededText[a]][i].ref
                              /\ c.body = Sections[seededText[a]][i].body

PackInv == /\ PackTypes /\ RulesFound /\ SignOffHolds
           /\ FromSeed /\ RowsHaveChunks /\ StoredHasChunks

(* The hash of a chunk of the seed names its act and its text.             *)
LEMMA SeedChunkFields ==
    ASSUME NEW a, NEW t, NEW i
    PROVE  /\ SeedChunk(a, t, i).hash = <<a, i, Sections[t][i].body>>
           /\ SeedChunk(a, t, i).act = a
           /\ SeedChunk(a, t, i).ref = Sections[t][i].ref
           /\ SeedChunk(a, t, i).body = Sections[t][i].body
           /\ SeedChunk(a, t, i).domain = "employment_se"
    BY DEF SeedChunk, SeedHash, split_sections

(* Among chunks of the seed, equal hashes mean the same act, reference and *)
(* text: the text of a section begins with its number.                     *)
LEMMA HashNamesSection ==
    ASSUME FromSeed, NEW d \in chunks, NEW a \in Acts, NEW t \in Versions,
           NEW i \in DOMAIN Sections[t], d.hash = <<a, i, Sections[t][i].body>>
    PROVE  d.act = a /\ d.ref = Sections[t][i].ref /\ d.body = Sections[t][i].body
<1>1. PICK b \in Acts, u \in Versions : \E j \in DOMAIN Sections[u] : d = SeedChunk(b, u, j)
    BY DEF FromSeed
<1>2. PICK j \in DOMAIN Sections[u] : d = SeedChunk(b, u, j)
    BY <1>1
<1>3. <<b, j, Sections[u][j].body>> = <<a, i, Sections[t][i].body>>
    BY <1>2, SeedChunkFields
<1>4. b = a /\ Sections[u][j].body = Sections[t][i].body
    BY <1>3
<1>5. Sections[u][j].ref = Sections[t][i].ref
    BY <1>4, SwedishPackAssumption
<1> QED  BY <1>2, <1>4, <1>5, SeedChunkFields

(* A step that leaves the tables of the corpus alone keeps what they hold. *)
LEMMA TablesKept ==
    ASSUME FromSeed, RowsHaveChunks, StoredHasChunks,
           chunks' = chunks, sections' = sections, seededText' = seededText
    PROVE  FromSeed' /\ RowsHaveChunks' /\ StoredHasChunks'
    BY DEF FromSeed, RowsHaveChunks, StoredHasChunks, SeedChunk, SeedHash, split_sections

(* A step that leaves the rules alone keeps the sign-offs.                 *)
LEMMA RulesKept ==
    ASSUME RulesFound, SignOffHolds, seRules' = seRules, signedText' = signedText
    PROVE  RulesFound' /\ SignOffHolds'
    BY DEF RulesFound, SignOffHolds

(* The synchronisation finds every hash already there.                     *)
LEMMA SyncAddsNothing ==
    ASSUME RowsHaveChunks, sync_corpus_chunks
    PROVE  chunks' = chunks
<1> DEFINE new == UNION {{SyncChunk(a, i) : i \in DOMAIN sections[a]} : a \in Acts}
<1>1. ASSUME NEW c \in new
      PROVE  \E d \in chunks : d.hash = c.hash
    <2>1. PICK a \in Acts : c \in {SyncChunk(a, i) : i \in DOMAIN sections[a]}
        BY <1>1
    <2>2. PICK i \in DOMAIN sections[a] : c = SyncChunk(a, i)
        BY <2>1
    <2>3. c.hash = <<a, i, sections[a][i].body>>
        BY <2>2 DEF SyncChunk, SyncHash
    <2> QED  BY <2>3 DEF RowsHaveChunks
<1>2. {c \in new : \A d \in chunks : d.hash # c.hash} = {}
    BY <1>1
<1> QED  BY <1>2 DEF sync_corpus_chunks, InsertChunks

(* After a seed every section of a text it parsed has its chunk: its own,  *)
(* or one of an earlier seed with the same hash.                           *)
LEMMA SeedCovers ==
    ASSUME FromSeed, NEW a \in Acts, seeding.parsed[a] \in Versions,
           NEW i \in DOMAIN Sections[seeding.parsed[a]], chunks' = InsertChunks(SeedChunks)
    PROVE  \E c \in chunks' :
              /\ c.hash = <<a, i, Sections[seeding.parsed[a]][i].body>>
              /\ c.act = a /\ c.ref = Sections[seeding.parsed[a]][i].ref
              /\ c.body = Sections[seeding.parsed[a]][i].body
<1> DEFINE t == seeding.parsed[a]
<1> DEFINE own == SeedChunk(a, t, i)
<1>1. own \in SeedChunks
    BY DEF SeedChunks, split_sections
<1>2. CASE \A d \in chunks : d.hash # own.hash
    <2>1. own \in chunks'
        BY <1>1, <1>2 DEF InsertChunks
    <2> QED  BY <2>1, SeedChunkFields
<1>3. CASE \E d \in chunks : d.hash = own.hash
    <2>1. PICK d \in chunks : d.hash = own.hash
        BY <1>3
    <2>2. d.hash = <<a, i, Sections[t][i].body>>
        BY <2>1, SeedChunkFields
    <2>3. d.act = a /\ d.ref = Sections[t][i].ref /\ d.body = Sections[t][i].body
        BY <2>2, HashNamesSection
    <2>4. d \in chunks'
        BY DEF InsertChunks
    <2> QED  BY <2>2, <2>3, <2>4
<1> QED  BY <1>2, <1>3

(* The seed's transaction keeps the corpus labelled and complete.          *)
LEMMA SeedKeepsCorpus ==
    ASSUME PackTypes, FromSeed, RowsHaveChunks, \A a \in Acts : seeding.parsed[a] # NoText,
           sections' = [a \in Acts |-> upsert_legislation(sections[a], split_sections(seeding.parsed[a]))],
           chunks' = InsertChunks(SeedChunks), seededText' = seeding.parsed
    PROVE  FromSeed' /\ RowsHaveChunks' /\ StoredHasChunks'
<1>1. \A a \in Acts : seeding.parsed[a] \in Versions
    BY DEF PackTypes, Texts
<1>2. ASSUME NEW c \in chunks'
      PROVE  \E a \in Acts, t \in Versions : \E i \in DOMAIN Sections[t] : c = SeedChunk(a, t, i)
    <2>1. CASE c \in chunks
        BY <2>1 DEF FromSeed
    <2>2. CASE c \in SeedChunks
        <3>1. PICK a \in Acts : c \in {SeedChunk(a, seeding.parsed[a], i) :
                                       i \in DOMAIN split_sections(seeding.parsed[a])}
            BY <2>2 DEF SeedChunks
        <3>2. PICK i \in DOMAIN Sections[seeding.parsed[a]] : c = SeedChunk(a, seeding.parsed[a], i)
            BY <3>1 DEF split_sections
        <3> QED  BY <1>1, <3>2
    <2> QED  BY <1>2, <2>1, <2>2 DEF InsertChunks
<1>3. FromSeed'
    BY <1>2 DEF FromSeed, SeedChunk, SeedHash, split_sections
<1>4. ASSUME NEW a \in Acts, NEW i \in DOMAIN sections'[a]
      PROVE  \E d \in chunks' : d.hash = <<a, i, sections'[a][i].body>>
    <2> DEFINE text == Sections[seeding.parsed[a]]
    <2>1. /\ DOMAIN sections'[a] = DOMAIN sections[a] \cup DOMAIN text
          /\ sections'[a][i].body = IF i \in DOMAIN text THEN text[i].body ELSE sections[a][i].body
        BY <1>4 DEF upsert_legislation, split_sections
    <2>2. CASE i \in DOMAIN text
        <3>1. \E c \in chunks' : c.hash = <<a, i, Sections[seeding.parsed[a]][i].body>>
            BY <1>1, <2>2, SeedCovers
        <3> QED  BY <2>1, <2>2, <3>1
    <2>3. CASE i \notin DOMAIN text
        <3>1. i \in DOMAIN sections[a] /\ sections'[a][i].body = sections[a][i].body
            BY <1>4, <2>1, <2>3
        <3>2. PICK d \in chunks : d.hash = <<a, i, sections[a][i].body>>
            BY <3>1 DEF RowsHaveChunks
        <3> QED  BY <3>1, <3>2 DEF InsertChunks
    <2> QED  BY <2>2, <2>3
<1>5. RowsHaveChunks'
    BY <1>4 DEF RowsHaveChunks
<1>6. StoredHasChunks'
    BY <1>1, SeedCovers DEF StoredHasChunks
<1> QED  BY <1>3, <1>5, <1>6

(* The seed replaces a rule it found by a draft and leaves the others.     *)
LEMMA SeedKeepsSignOffs ==
    ASSUME PackTypes, RulesFound, SignOffHolds, seeding.at = "parse",
           seRules' = _seed_rules, signedText' = signedText
    PROVE  /\ seRules' \in [Candidates -> [text : Texts, status : RuleStatuses]]
           /\ RulesFound' /\ SignOffHolds'
<1>1. ASSUME NEW k \in Candidates
      PROVE  \/ seRules'[k] = seRules[k]
             \/ /\ seRules'[k] = [text |-> seeding.map[ActOf[k]], status |-> "DRAFT-UNVALIDATED"]
                /\ seeding.map[ActOf[k]] \in Literal[k] \cap Versions
    BY <1>1, SwedishPackAssumption DEF _seed_rules, SeededRule, _literal_in_fixture
<1>2. DOMAIN seRules' = Candidates /\ seRules' = [k \in Candidates |-> seRules'[k]]
    BY DEF _seed_rules
<1>3. ASSUME NEW k \in Candidates
      PROVE  /\ seRules'[k] \in [text : Texts, status : RuleStatuses]
             /\ seRules'[k].status # "absent" => seRules'[k].text \in Literal[k]
             /\ seRules'[k].status = "verified" =>
                    seRules'[k].text = signedText'[k] /\ signedText'[k] \in Literal[k]
    <2>1. CASE seRules'[k] = seRules[k]
        BY <1>3, <2>1 DEF PackTypes, RulesFound, SignOffHolds
    <2>2. CASE /\ seRules'[k] = [text |-> seeding.map[ActOf[k]], status |-> "DRAFT-UNVALIDATED"]
               /\ seeding.map[ActOf[k]] \in Literal[k] \cap Versions
        <3>1. /\ seRules'[k].text = seeding.map[ActOf[k]] /\ seRules'[k].status = "DRAFT-UNVALIDATED"
            BY <2>2
        <3>2. seRules'[k] \in [text : Texts, status : RuleStatuses]
            BY <2>2 DEF Texts, RuleStatuses
        <3> QED  BY <2>2, <3>1, <3>2
    <2> QED  BY <1>1, <1>3, <2>1, <2>2
<1>4. seRules' \in [Candidates -> [text : Texts, status : RuleStatuses]]
    BY <1>2, <1>3
<1>5. RulesFound'
    BY <1>3 DEF RulesFound
<1>6. SignOffHolds'
    BY <1>3 DEF SignOffHolds
<1> QED  BY <1>4, <1>5, <1>6

(* Every step of the Riksdag, the scripts and the lawyer preserves PackInv. *)
LEMMA PackStep ==
    ASSUME PackInv, [PackNext]_packVars
    PROVE  PackInv'
<1>0. /\ PackTypes /\ RulesFound /\ SignOffHolds
      /\ FromSeed /\ RowsHaveChunks /\ StoredHasChunks
    BY DEF PackInv
<1>1. ASSUME NEW a \in Acts, AmendAct(a)
      PROVE  PackInv'
    <2>1. published' \in [Acts -> Texts]
        BY <1>0, <1>1 DEF PackTypes, AmendAct, Texts
    <2> QED  BY <1>0, <1>1, <2>1, TablesKept, RulesKept DEF PackInv, PackTypes, AmendAct
<1>2. ASSUME NEW a \in Acts, _write_bundle(a)
      PROVE  PackInv'
    <2>1. fixture' \in [Acts -> Versions]
        BY <1>0, <1>2 DEF PackTypes, _write_bundle, _fetch, Texts
    <2> QED  BY <1>0, <1>2, <2>1, TablesKept, RulesKept DEF PackInv, PackTypes, _write_bundle
<1>3. ASSUME NEW a \in Acts, parse_fixture_bundle(a)
      PROVE  PackInv'
    <2>1. /\ seeding' \in [at : {"idle", "parse"}, map : [Acts -> Texts], parsed : [Acts -> Texts]]
          /\ seeding'.map = seeding.map /\ seeding.at = "parse"
        BY <1>0, <1>3 DEF PackTypes, parse_fixture_bundle, Texts
    <2> QED  BY <1>0, <1>3, <2>1, TablesKept, RulesKept DEF PackInv, PackTypes, parse_fixture_bundle
<1>4. NotSeeding \in [at : {"idle", "parse"}, map : [Acts -> Texts], parsed : [Acts -> Texts]]
      /\ NotSeeding.at = "idle"
    BY DEF NotSeeding, Texts
<1>5. ASSUME NEW a \in Acts, resolve_listing_item(a)
      PROVE  PackInv'
    BY <1>0, <1>4, <1>5, TablesKept, RulesKept DEF PackInv, PackTypes, resolve_listing_item
<1>6. CASE _fixture_text_map
    <2>1. /\ seeding' \in [at : {"idle", "parse"}, map : [Acts -> Texts], parsed : [Acts -> Texts]]
          /\ seeding'.map = fixture
        BY <1>0, <1>6 DEF PackTypes, _fixture_text_map, NotSeeding, Texts
    <2> QED  BY <1>0, <1>6, <2>1, TablesKept, RulesKept DEF PackInv, PackTypes, _fixture_text_map
<1>7. CASE seed_employment_se
    <2>1. /\ seeding.at = "parse" /\ \A a \in Acts : seeding.parsed[a] # NoText
          /\ seeding' = NotSeeding /\ UNCHANGED <<published, fixture, signedText>>
        BY <1>7 DEF seed_employment_se
    <2>2. CASE UNCHANGED <<sections, chunks, seRules, seededText>>
        BY <1>0, <1>4, <2>1, <2>2, TablesKept, RulesKept DEF PackInv, PackTypes
    <2>3. CASE /\ sections' = [a \in Acts |->
                      upsert_legislation(sections[a], split_sections(seeding.parsed[a]))]
               /\ chunks' = InsertChunks(SeedChunks)
               /\ seRules' = _seed_rules
               /\ seededText' = seeding.parsed
        <3>1. FromSeed' /\ RowsHaveChunks' /\ StoredHasChunks'
            BY <1>0, <2>1, <2>3, SeedKeepsCorpus
        <3>2. /\ seRules' \in [Candidates -> [text : Texts, status : RuleStatuses]]
              /\ RulesFound' /\ SignOffHolds'
            BY <1>0, <2>1, <2>3, SeedKeepsSignOffs
        <3>3. DOMAIN sections' = Acts /\ seededText' \in [Acts -> Texts]
            BY <1>0, <2>3 DEF PackTypes
        <3> QED  BY <1>0, <1>4, <2>1, <3>1, <3>2, <3>3 DEF PackInv, PackTypes
    <2> QED  BY <1>7, <2>2, <2>3 DEF seed_employment_se
<1>8. CASE sync_corpus_chunks
    <2>1. chunks' = chunks
        BY <1>0, <1>8, SyncAddsNothing
    <2>2. UNCHANGED <<published, fixture, seeding, sections, seRules, signedText, seededText>>
        BY <1>8 DEF sync_corpus_chunks
    <2> QED  BY <1>0, <2>1, <2>2, TablesKept, RulesKept DEF PackInv, PackTypes
<1>9. CASE normalise_statuses
    <2>1. UNCHANGED <<published, fixture, seeding, sections, chunks, signedText, seededText>>
        BY <1>9 DEF normalise_statuses
    <2>2. ASSUME NEW k \in Candidates
          PROVE  /\ seRules'[k] \in [text : Texts, status : RuleStatuses]
                 /\ seRules'[k].text = seRules[k].text
                 /\ \/ seRules'[k].status = seRules[k].status
                    \/ seRules'[k].status = "unverified" /\ seRules[k].status = "DRAFT-UNVALIDATED"
        <3>1. seRules[k] \in [text : Texts, status : RuleStatuses]
            BY <1>0 DEF PackTypes
        <3>2. CASE seRules[k].status = "DRAFT-UNVALIDATED"
            <4>1. seRules'[k] = [seRules[k] EXCEPT !.status = "unverified"]
                BY <1>9, <3>2 DEF normalise_statuses
            <4> QED  BY <3>1, <3>2, <4>1 DEF RuleStatuses
        <3>3. CASE seRules[k].status # "DRAFT-UNVALIDATED"
            <4>1. seRules'[k] = seRules[k]
                BY <1>9, <3>3 DEF normalise_statuses
            <4> QED  BY <3>1, <4>1
        <3> QED  BY <3>2, <3>3
    <2>3. seRules' \in [Candidates -> [text : Texts, status : RuleStatuses]]
        BY <1>9, <2>2 DEF normalise_statuses
    <2>4. RulesFound' /\ SignOffHolds'
        BY <1>0, <2>1, <2>2 DEF RulesFound, SignOffHolds
    <2> QED  BY <1>0, <2>1, <2>3, <2>4, TablesKept DEF PackInv, PackTypes
<1>10. ASSUME NEW k \in Candidates, SignOff(k)
       PROVE  PackInv'
    <2>1. UNCHANGED <<published, fixture, seeding, sections, chunks, seededText>>
        BY <1>10 DEF SignOff
    <2>2. /\ seRules' \in [Candidates -> [text : Texts, status : RuleStatuses]]
          /\ signedText' \in [Candidates -> Texts]
        BY <1>0, <1>10 DEF PackTypes, SignOff, RuleStatuses
    <2>3. /\ seRules'[k].text = seRules[k].text /\ signedText'[k] = seRules[k].text
          /\ seRules[k].status # "absent"
          /\ \A j \in Candidates \ {k} : seRules'[j] = seRules[j] /\ signedText'[j] = signedText[j]
        BY <1>0, <1>10 DEF PackTypes, SignOff
    <2>4. seRules[k].text \in Literal[k]
        BY <1>0, <2>3 DEF RulesFound
    <2>5. RulesFound' /\ SignOffHolds'
        BY <1>0, <2>3, <2>4 DEF RulesFound, SignOffHolds
    <2> QED  BY <1>0, <2>1, <2>2, <2>5, TablesKept DEF PackInv, PackTypes
<1>11. CASE UNCHANGED packVars
    BY <1>0, <1>11, TablesKept, RulesKept DEF PackInv, PackTypes, packVars
<1> QED  BY <1>1, <1>2, <1>3, <1>5, <1>6, <1>7, <1>8, <1>9, <1>10, <1>11 DEF PackNext

(* Nothing is stored before the first seed.                                *)
LEMMA PackStart == PackInit => PackInv
<1> SUFFICES ASSUME PackInit PROVE PackInv
    OBVIOUS
<1>1. PackTypes
    BY DEF PackInit, PackTypes, NotSeeding, NoRule, Texts, RuleStatuses
<1>2. RulesFound /\ SignOffHolds
    BY DEF PackInit, NoRule, RulesFound, SignOffHolds
<1>3. FromSeed /\ RowsHaveChunks /\ StoredHasChunks
    BY DEF PackInit, FromSeed, RowsHaveChunks, StoredHasChunks
<1> QED  BY <1>1, <1>2, <1>3 DEF PackInv

(* However acts are amended, fetched, seeded, synchronised and signed off, *)
(* no section enters the corpus as British law or under another section's  *)
(* reference, every section stored last is there, and a sign-off covers    *)
(* the text that was signed.                                               *)
THEOREM SwedenSound == PackSpec => []SwedishPackSound
<1>1. PackInv => SwedishPackSound
    <2> SUFFICES ASSUME PackInv PROVE ChunksLabelled
        BY DEF PackInv, SwedishPackSound
    <2>1. ASSUME NEW c \in chunks
          PROVE  /\ c.domain = "employment_se"
                 /\ \E t \in Versions : \E i \in DOMAIN Sections[t] :
                       c.ref = Sections[t][i].ref /\ c.body = Sections[t][i].body
        <3>1. PICK a \in Acts, t \in Versions : \E i \in DOMAIN Sections[t] : c = SeedChunk(a, t, i)
            BY DEF PackInv, FromSeed
        <3> QED  BY <3>1, SeedChunkFields
    <2> QED  BY <2>1 DEF PackInv, StoredHasChunks, ChunksLabelled
<1> QED  BY <1>1, PackStart, PackStep, PTL DEF PackSpec

-----------------------------------------------------------------------------

(***************************************************************************)
(* The rules cache and the citation guard never vouch for what was not so, *)
(* for any keys, any sizes and times to live and any number of requests.   *)
(***************************************************************************)

CacheEntry == [key : Keys, time : Nat, val : Nat]
RuleRequest == [at : {"idle", "waiting", "loaded", "answered", "failed"},
                key : Keys, time : Nat, val : Nat]

CachesTypes ==
    /\ now \in Nat
    /\ version \in [Keys -> Nat]
    /\ replaced \in [Keys -> Seq(Nat)]
    /\ store \in Seq(CacheEntry)
    /\ rq \in [Requests -> RuleRequest]

\* Every amendment has its time, none in the future.
HistoryComplete ==
    \A k \in Keys :
        /\ Len(replaced[k]) = version[k]
        /\ \A i \in 1..version[k] : replaced[k][i] <= now

\* Version v of rule k was still in force at time t.
InForceAt(k, v, t) == v = version[k] \/ (v < version[k] /\ t <= replaced[k][v + 1])

\* An entry, and what a loader holds, was in force when the request arrived that
\* loaded it, however long it waited for the lock; what was answered was in force
\* less than TTL before.
EntriesInForce ==
    \A i \in DOMAIN store :
        store[i].time <= now /\ InForceAt(store[i].key, store[i].val, store[i].time)

RequestsInForce ==
    \A r \in Requests :
        /\ rq[r].time <= now
        /\ rq[r].at = "loaded" => InForceAt(rq[r].key, rq[r].val, rq[r].time)
        /\ rq[r].at = "answered" =>
              \E t \in Nat : rq[r].time - t < TTL /\ t <= now /\ InForceAt(rq[r].key, rq[r].val, t)

RulesInv == CachesTypes /\ HistoryComplete /\ EntriesInForce /\ RequestsInForce

\* The cache is empty.
LEMMA RulesInit == CachesInit => RulesInv
<1> SUFFICES ASSUME CachesInit PROVE RulesInv
  OBVIOUS
<1>1. PICK f \in [Requests -> Keys] :
         rq = [r \in Requests |-> [at |-> "idle", key |-> f[r], time |-> 0, val |-> 0]]
  BY DEF CachesInit
<1>2. rq \in [Requests -> RuleRequest] /\ \A r \in Requests : rq[r].at = "idle" /\ rq[r].time = 0
  BY <1>1 DEF RuleRequest
<1>3. store = << >> /\ now = 0
  BY DEF CachesInit
<1>4. EntriesInForce
  BY <1>3 DEF EntriesInForce
<1>5. CachesTypes
  BY <1>2, <1>3 DEF CachesInit, CachesTypes
<1>6. HistoryComplete
  BY DEF CachesInit, HistoryComplete
<1> QED
  BY <1>2, <1>3, <1>4, <1>5, <1>6 DEF RulesInv, RequestsInForce

\* Time and amendments keep what was in force, as of an earlier time, so.
LEMMA AmendKeepsInForce ==
    ASSUME RulesInv, NEW k \in Keys, Amend(k)
    PROVE  /\ CachesTypes' /\ HistoryComplete'
           /\ \A j \in Keys, v \in Nat, t \in Nat :
                 t <= now /\ InForceAt(j, v, t) => InForceAt(j, v, t)'
<1> USE DEF RulesInv, CachesTypes, HistoryComplete
<1>1. /\ version' = [version EXCEPT ![k] = version[k] + 1]
      /\ replaced' = [replaced EXCEPT ![k] = Append(replaced[k], now)]
      /\ UNCHANGED <<now, store, rq>>
  BY DEF Amend
<1>2. CachesTypes'
  BY <1>1
<1>3. ASSUME NEW j \in Keys
      PROVE  /\ Len(replaced[j])' = version'[j]
             /\ \A i \in 1..version'[j] : replaced'[j][i] <= now
             /\ \A i \in 1..version[j] : replaced'[j][i] = replaced[j][i]
             /\ version'[j] >= version[j]
             /\ version'[j] # version[j] =>
                   version'[j] = version[j] + 1 /\ replaced'[j][version[j] + 1] = now
  <2>1. CASE j = k
    BY <2>1, <1>1
  <2>2. CASE j # k
    BY <2>2, <1>1
  <2> QED BY <2>1, <2>2
<1>4. HistoryComplete'
  BY <1>1, <1>3
<1>5. ASSUME NEW j \in Keys, NEW v \in Nat, NEW t \in Nat, t <= now, InForceAt(j, v, t)
      PROVE  InForceAt(j, v, t)'
  <2>1. CASE v = version[j]
    BY <2>1, <1>3, <1>5 DEF InForceAt
  <2>2. CASE v < version[j] /\ t <= replaced[j][v + 1]
    <3>1. v + 1 \in 1..version[j]
      BY <2>2
    <3> QED BY <3>1, <2>2, <1>3 DEF InForceAt
  <2> QED BY <2>1, <2>2, <1>5 DEF InForceAt
<1> QED BY <1>2, <1>4, <1>5

\* The entries after a store are those before it and the one that was loaded.
LEMMA StoredEntries ==
    ASSUME CachesTypes, NEW r \in Requests, Store(r)
    PROVE  /\ store' \in Seq(CacheEntry)
           /\ \A i \in DOMAIN store' :
                 \/ store'[i] = [key |-> rq[r].key, time |-> rq[r].time, val |-> rq[r].val]
                 \/ \E j \in DOMAIN store : store'[i] = store[j]
<1> DEFINE k == rq[r].key
           e == [key |-> k, time |-> rq[r].time, val |-> rq[r].val]
           room == IF Len(store) >= Maxsize /\ Entries(k) = {} THEN Tail(store) ELSE store
<1>1. e \in CacheEntry /\ store \in Seq(CacheEntry)
  BY DEF CachesTypes, RuleRequest, CacheEntry
<1>2. store' = IF Entries(k) = {} THEN Append(room, e)
               ELSE [i \in DOMAIN store |-> IF store[i].key = k THEN e ELSE store[i]]
  BY DEF Store, Stored
<1> HIDE DEF e, k
<1>3. room \in Seq(CacheEntry) /\ \A i \in DOMAIN room : \E j \in DOMAIN store : room[i] = store[j]
  <2>1. CASE Len(store) >= Maxsize /\ Entries(k) = {}
    <3>1. store # << >>
      BY <2>1, <1>1, CachesAssumption
    <3>2. room = Tail(store)
      BY <2>1
    <3>3. \A i \in DOMAIN Tail(store) : i + 1 \in DOMAIN store /\ Tail(store)[i] = store[i + 1]
      BY <3>1, <1>1
    <3> QED BY <3>1, <3>2, <3>3, <1>1
  <2>2. CASE ~ (Len(store) >= Maxsize /\ Entries(k) = {})
    BY <2>2, <1>1
  <2> QED BY <2>1, <2>2
<1> HIDE DEF room
<1>4. CASE Entries(k) = {}
  <2>1. store' = Append(room, e)
    BY <1>4, <1>2
  <2>2. /\ store' \in Seq(CacheEntry)
        /\ \A i \in DOMAIN store' : store'[i] = e \/ (i \in DOMAIN room /\ store'[i] = room[i])
    BY <2>1, <1>1, <1>3
  <2> QED BY <2>2, <1>3 DEF e, k
<1>5. CASE Entries(k) # {}
  <2>1. store' = [i \in DOMAIN store |-> IF store[i].key = k THEN e ELSE store[i]]
    BY <1>5, <1>2
  <2>2. store' = [i \in 1..Len(store) |-> IF store[i].key = k THEN e ELSE store[i]]
    BY <2>1, <1>1
  <2>3. \A i \in 1..Len(store) : store[i] \in CacheEntry
    BY <1>1
  <2>4. \A i \in 1..Len(store) : store'[i] = e \/ store'[i] = store[i]
    BY <2>2
  <2>5. store' \in Seq(CacheEntry)
    BY <2>2, <2>3, <1>1
  <2> QED BY <2>1, <2>4, <2>5, <1>1 DEF e, k
<1> QED BY <1>4, <1>5

\* The rules half of the guarantee, once for every kind of step.
LEMMA RulesStepInv ==
    ASSUME RulesInv, [CachesNext]_cacheVars
    PROVE  RulesInv'
<1> USE DEF RulesInv
<1>1. /\ now \in Nat /\ version \in [Keys -> Nat] /\ rq \in [Requests -> RuleRequest]
      /\ \A r \in Requests : rq[r] \in RuleRequest /\ rq[r].key \in Keys /\ rq[r].time \in Nat /\ rq[r].val \in Nat
      /\ \A i \in DOMAIN store : store[i].key \in Keys /\ store[i].time \in Nat /\ store[i].val \in Nat
  <2>1. \A r \in Requests : rq[r] \in RuleRequest
    BY DEF CachesTypes
  <2>2. \A i \in DOMAIN store : store[i] \in CacheEntry
    BY DEF CachesTypes
  <2>3. \A e \in CacheEntry : e.key \in Keys /\ e.time \in Nat /\ e.val \in Nat
    BY DEF CacheEntry
  <2>4. \A e \in RuleRequest : e.key \in Keys /\ e.time \in Nat /\ e.val \in Nat
    BY DEF RuleRequest
  <2> QED BY <2>1, <2>2, <2>3, <2>4 DEF CachesTypes
<1>2. CASE CacheTick
  <2>1. now' = now + 1 /\ UNCHANGED ruleVars
    BY <1>2 DEF CacheTick
  <2>2. CachesTypes' /\ HistoryComplete' /\ EntriesInForce'
    BY <2>1, <1>1 DEF CachesTypes, HistoryComplete, EntriesInForce, InForceAt, ruleVars
  <2>3. RequestsInForce'
    BY <2>1, <1>1 DEF RequestsInForce, InForceAt, ruleVars
  <2> QED BY <2>2, <2>3
<1>3. ASSUME NEW k \in Keys, Amend(k) PROVE RulesInv'
  <2>1. /\ CachesTypes' /\ HistoryComplete'
        /\ \A j \in Keys, v \in Nat, t \in Nat :
              t <= now /\ InForceAt(j, v, t) => InForceAt(j, v, t)'
    BY <1>3, AmendKeepsInForce
  <2>2. UNCHANGED <<now, store, rq>>
    BY <1>3 DEF Amend
  <2>3. EntriesInForce'
    BY <2>1, <2>2, <1>1 DEF EntriesInForce
  <2>4. RequestsInForce'
    BY <2>1, <2>2, <1>1 DEF RequestsInForce
  <2> QED BY <2>1, <2>3, <2>4
<1>4. ASSUME UNCHANGED <<now, version, replaced>> PROVE
         /\ HistoryComplete'
         /\ \A j, v, t : InForceAt(j, v, t) <=> InForceAt(j, v, t)'
  BY <1>4 DEF HistoryComplete, InForceAt
<1>5. ASSUME NEW r \in Requests, RequestArrives(r) PROVE RulesInv'
  <2>1. /\ rq' = [rq EXCEPT ![r].at = "waiting", ![r].time = now]
        /\ UNCHANGED <<now, version, replaced, store>>
    BY <1>5 DEF RequestArrives
  <2>2. /\ rq' \in [Requests -> RuleRequest]
        /\ rq'[r].at = "waiting" /\ rq'[r].time = now
        /\ \A s \in Requests : s # r => rq'[s] = rq[s]
    BY <2>1, <1>1 DEF RuleRequest
  <2>3. CachesTypes' /\ EntriesInForce'
    BY <2>1, <2>2, <1>4 DEF CachesTypes, EntriesInForce
  <2>4. RequestsInForce'
    BY <2>1, <2>2, <1>4, <1>1 DEF RequestsInForce
  <2> QED BY <2>1, <2>3, <2>4, <1>4
<1>6. ASSUME NEW r \in Requests, Hit(r) PROVE RulesInv'
  <2>1. PICK i \in Entries(rq[r].key) :
           /\ Fresh(store[i], rq[r].time)
           /\ rq' = [rq EXCEPT ![r].at = "answered", ![r].val = store[i].val]
    BY <1>6 DEF Hit
  <2>2. UNCHANGED <<now, version, replaced, store>>
    BY <1>6 DEF Hit
  <2>3. /\ i \in DOMAIN store /\ store[i].key = rq[r].key
        /\ store[i].time <= now /\ InForceAt(rq[r].key, store[i].val, store[i].time)
        /\ rq[r].time - store[i].time < TTL
    BY <2>1 DEF Entries, Fresh, EntriesInForce
  <2>4. /\ rq' \in [Requests -> RuleRequest]
        /\ rq'[r].at = "answered" /\ rq'[r].time = rq[r].time
        /\ rq'[r].key = rq[r].key /\ rq'[r].val = store[i].val
        /\ \A s \in Requests : s # r => rq'[s] = rq[s]
    BY <2>1, <2>3, <1>1 DEF RuleRequest
  <2>5. CachesTypes' /\ EntriesInForce'
    BY <2>2, <2>4, <1>4 DEF CachesTypes, EntriesInForce
  <2>6. RequestsInForce'
    <3> SUFFICES ASSUME NEW s \in Requests
                 PROVE  /\ rq'[s].time <= now
                        /\ rq'[s].at = "loaded" => InForceAt(rq'[s].key, rq'[s].val, rq'[s].time)
                        /\ rq'[s].at = "answered" => \E t \in Nat :
                              rq'[s].time - t < TTL /\ t <= now /\ InForceAt(rq'[s].key, rq'[s].val, t)
      BY <2>2, <1>4 DEF RequestsInForce
    <3>1. CASE s = r
      BY <3>1, <2>3, <2>4, <1>1 DEF RequestsInForce
    <3>2. CASE s # r
      BY <3>2, <2>4 DEF RequestsInForce
    <3> QED BY <3>1, <3>2
  <2> QED BY <2>2, <2>5, <2>6, <1>4
<1>7. ASSUME NEW r \in Requests, Load(r) \/ LoadFails(r) PROVE RulesInv'
  <2>1. /\ UNCHANGED <<now, version, replaced, store>>
        /\ \/ rq' = [rq EXCEPT ![r].at = "loaded", ![r].val = version[rq[r].key]]
           \/ rq' = [rq EXCEPT ![r].at = "failed"]
    BY <1>7 DEF Load, LoadFails
  <2>2. /\ rq' \in [Requests -> RuleRequest]
        /\ rq'[r].at \in {"loaded", "failed"} /\ rq'[r].time = rq[r].time /\ rq'[r].key = rq[r].key
        /\ rq'[r].at = "loaded" => rq'[r].val = version[rq[r].key]
        /\ \A s \in Requests : s # r => rq'[s] = rq[s]
    BY <2>1, <1>1 DEF RuleRequest
  <2>3. CachesTypes' /\ EntriesInForce'
    BY <2>1, <2>2, <1>4 DEF CachesTypes, EntriesInForce
  <2>4. RequestsInForce'
    <3> SUFFICES ASSUME NEW s \in Requests
                 PROVE  /\ rq'[s].time <= now
                        /\ rq'[s].at = "loaded" => InForceAt(rq'[s].key, rq'[s].val, rq'[s].time)
                        /\ rq'[s].at = "answered" => \E t \in Nat :
                              rq'[s].time - t < TTL /\ t <= now /\ InForceAt(rq'[s].key, rq'[s].val, t)
      BY <2>1, <1>4 DEF RequestsInForce
    <3>1. CASE s = r
      BY <3>1, <2>2, <1>1 DEF RequestsInForce, InForceAt
    <3>2. CASE s # r
      BY <3>2, <2>2 DEF RequestsInForce
    <3> QED BY <3>1, <3>2
  <2> QED BY <2>1, <2>3, <2>4, <1>4
<1>8. ASSUME NEW r \in Requests, Store(r) PROVE RulesInv'
  <2>1. /\ store' \in Seq(CacheEntry)
        /\ \A i \in DOMAIN store' :
              \/ store'[i] = [key |-> rq[r].key, time |-> rq[r].time, val |-> rq[r].val]
              \/ \E j \in DOMAIN store : store'[i] = store[j]
    BY <1>8, StoredEntries
  <2>2. rq[r].at = "loaded" /\ rq' = [rq EXCEPT ![r].at = "answered"] /\ UNCHANGED <<now, version, replaced>>
    BY <1>8 DEF Store
  <2>3. /\ rq' \in [Requests -> RuleRequest]
        /\ rq'[r].at = "answered" /\ rq'[r].time = rq[r].time
        /\ rq'[r].key = rq[r].key /\ rq'[r].val = rq[r].val
        /\ \A s \in Requests : s # r => rq'[s] = rq[s]
    BY <2>2, <1>1 DEF RuleRequest
  <2>4. rq[r].time <= now /\ InForceAt(rq[r].key, rq[r].val, rq[r].time)
    BY <2>2 DEF RequestsInForce
  <2>5. CachesTypes'
    BY <2>1, <2>2, <2>3 DEF CachesTypes
  <2>6. EntriesInForce'
    BY <2>1, <2>2, <2>4, <1>4 DEF EntriesInForce
  <2>7. RequestsInForce'
    <3> SUFFICES ASSUME NEW s \in Requests
                 PROVE  /\ rq'[s].time <= now
                        /\ rq'[s].at = "loaded" => InForceAt(rq'[s].key, rq'[s].val, rq'[s].time)
                        /\ rq'[s].at = "answered" => \E t \in Nat :
                              rq'[s].time - t < TTL /\ t <= now /\ InForceAt(rq'[s].key, rq'[s].val, t)
      BY <2>2, <1>4 DEF RequestsInForce
    <3>1. CASE s = r
      BY <3>1, <2>3, <2>4, <1>1, CachesAssumption
    <3>2. CASE s # r
      BY <3>2, <2>3 DEF RequestsInForce
    <3> QED BY <3>1, <3>2
  <2> QED BY <2>2, <2>5, <2>6, <2>7, <1>4
<1>9. CASE UNCHANGED <<now, ruleVars>>
  BY <1>9 DEF ruleVars, CachesTypes, HistoryComplete, EntriesInForce, RequestsInForce, InForceAt
<1>10. ASSUME GuardStep PROVE UNCHANGED <<now, ruleVars>>
  BY <1>10 DEF GuardStep, CorpusChanges, Lookup, Query, WriteBack
<1> QED
  BY <1>2, <1>3, <1>5, <1>6, <1>7, <1>8, <1>9, <1>10 DEF CachesNext, RulesStep, cacheVars, ruleVars

\* What the guard holds for true was a row once: in the table, in Redis, in hand.
GuardCheck == [at : {"idle", "missed", "queried", "answered"}, id : Ids, valid : BOOLEAN]

GuardTypes ==
    /\ redis \in [Ids -> {NoEntry} \cup [val : BOOLEAN, expires : Int]]
    /\ ck \in [Checks -> GuardCheck]

GuardInv ==
    /\ GuardTypes
    /\ corpus \subseteq written
    /\ \A i \in Ids : redis[i] # NoEntry /\ redis[i].val => i \in written
    /\ \A c \in Checks : ck[c].at \in {"queried", "answered"} /\ ck[c].valid => ck[c].id \in written

\* Nothing is written and nothing cached.
LEMMA GuardInit == CachesInit => GuardInv
<1> SUFFICES ASSUME CachesInit PROVE GuardInv
  OBVIOUS
<1>1. PICK f \in [Checks -> Ids] :
         ck = [c \in Checks |-> [at |-> "idle", id |-> f[c], valid |-> FALSE]]
  BY DEF CachesInit
<1>2. ck \in [Checks -> GuardCheck] /\ \A c \in Checks : ck[c].at = "idle"
  BY <1>1 DEF GuardCheck
<1>3. redis = [i \in Ids |-> NoEntry] /\ corpus = {}
  BY DEF CachesInit
<1> QED
  BY <1>2, <1>3 DEF GuardInv, GuardTypes

\* Every step keeps what the guard holds for true among what was a row.
LEMMA GuardStepInv ==
    ASSUME now \in Nat, GuardInv, [CachesNext]_cacheVars
    PROVE  GuardInv'
<1> USE DEF GuardInv, GuardTypes
<1>1. \A c \in Checks : ck[c] \in GuardCheck /\ ck[c].id \in Ids /\ ck[c].valid \in BOOLEAN
  BY DEF GuardCheck
<1>2. ASSUME NEW i \in Ids, CorpusChanges(i) PROVE GuardInv'
  BY <1>2 DEF CorpusChanges
<1>3. ASSUME NEW c \in Checks, NEW at \in {"missed", "queried", "answered"}, NEW valid \in BOOLEAN,
             ck' = [ck EXCEPT ![c].at = at, ![c].valid = valid],
             at # "missed" /\ valid => ck[c].id \in written,
             UNCHANGED <<corpus, written, redis>>
      PROVE  GuardInv'
  <2>1. /\ ck' \in [Checks -> GuardCheck]
        /\ ck'[c].at = at /\ ck'[c].valid = valid /\ ck'[c].id = ck[c].id
        /\ \A d \in Checks : d # c => ck'[d] = ck[d]
    BY <1>1, <1>3 DEF GuardCheck
  <2> QED BY <2>1, <1>3
<1>4. ASSUME NEW c \in Checks, Lookup(c) PROVE GuardInv'
  <2>1. UNCHANGED <<corpus, written, redis>>
    BY <1>4 DEF Lookup
  <2>2. CASE /\ Live(ck[c].id)
             /\ ck' = [ck EXCEPT ![c].at = "answered", ![c].valid = redis[ck[c].id].val]
    <3>1. redis[ck[c].id] # NoEntry /\ redis[ck[c].id].val \in BOOLEAN
      BY <2>2, <1>1 DEF Live
    <3> QED BY <3>1, <2>1, <2>2, <1>1, <1>3
  <2>3. CASE ck' = [ck EXCEPT ![c].at = "missed"]
    <3>1. /\ ck' \in [Checks -> GuardCheck] /\ ck'[c].at = "missed"
          /\ \A d \in Checks : d # c => ck'[d] = ck[d]
      BY <2>3, <1>1 DEF GuardCheck
    <3> QED BY <3>1, <2>1
  <2> QED BY <2>2, <2>3, <1>4 DEF Lookup
<1>5. ASSUME NEW c \in Checks, Query(c) PROVE GuardInv'
  <2>1. /\ ck' = [ck EXCEPT ![c].at = "queried", ![c].valid = (ck[c].id \in corpus)]
        /\ UNCHANGED <<corpus, written, redis>>
    BY <1>5 DEF Query
  <2>2. PICK valid \in BOOLEAN : valid = (ck[c].id \in corpus)
    BY (ck[c].id \in corpus) \in BOOLEAN, Zenon
  <2>3. ck' = [ck EXCEPT ![c].at = "queried", ![c].valid = valid] /\ (valid => ck[c].id \in written)
    BY <2>1, <2>2
  <2> QED BY <2>1, <2>3, <1>3
<1>6. ASSUME NEW c \in Checks, WriteBack(c) PROVE GuardInv'
  <2>1. ck[c].at = "queried" /\ ck' = [ck EXCEPT ![c].at = "answered"] /\ UNCHANGED <<corpus, written>>
    BY <1>6 DEF WriteBack
  <2>2. /\ ck' \in [Checks -> GuardCheck]
        /\ ck'[c].at = "answered" /\ ck'[c].valid = ck[c].valid /\ ck'[c].id = ck[c].id
        /\ \A d \in Checks : d # c => ck'[d] = ck[d]
    BY <2>1, <1>1 DEF GuardCheck
  <2>5. /\ ck' \in [Checks -> GuardCheck] /\ corpus' \subseteq written'
        /\ \A d \in Checks : ck'[d].at \in {"queried", "answered"} /\ ck'[d].valid => ck'[d].id \in written'
    BY <2>1, <2>2
  <2>3. CASE redis' = [redis EXCEPT ![ck[c].id] = Cached(ck[c].valid)]
    <3> DEFINE i == ck[c].id
               e == Cached(ck[c].valid)
    <3>1. e \in [val : BOOLEAN, expires : Int] /\ e.val = ck[c].valid
      BY <1>1, CachesAssumption DEF Cached
    <3>2. i \in Ids /\ (ck[c].valid => i \in written) /\ redis' = [redis EXCEPT ![i] = e]
      BY <1>1, <2>1, <2>3
    <3> HIDE DEF e, i
    <3>3. /\ redis' \in [Ids -> {NoEntry} \cup [val : BOOLEAN, expires : Int]]
          /\ redis'[i] = e /\ \A j \in Ids : j # i => redis'[j] = redis[j]
      BY <3>1, <3>2
    <3>4. \A j \in Ids : redis'[j] # NoEntry /\ redis'[j].val => j \in written
      BY <3>1, <3>2, <3>3
    <3>5. \A j \in Ids : redis'[j] # NoEntry /\ redis'[j].val => j \in written'
      BY <3>4, <2>1
    <3> QED BY <3>3, <3>5, <2>5
  <2>4. CASE UNCHANGED redis
    BY <2>1, <2>4, <2>5
  <2> QED BY <2>3, <2>4, <1>6 DEF WriteBack
<1>7. CASE UNCHANGED guardVars
  BY <1>7 DEF guardVars
<1>8. ASSUME CacheTick \/ RulesStep PROVE UNCHANGED guardVars
  BY <1>8 DEF CacheTick, RulesStep, Amend, RequestArrives, Hit, Load, LoadFails, Store
<1> QED
  BY <1>2, <1>4, <1>5, <1>6, <1>7, <1>8 DEF CachesNext, GuardStep, cacheVars, guardVars

\* The property follows from the two invariants.
LEMMA CachesHonestByInvariants == RulesInv /\ GuardInv => CachesHonest
<1> SUFFICES ASSUME RulesInv, GuardInv PROVE CachesHonest
  OBVIOUS
<1>1. RulesFresh
  <2> SUFFICES ASSUME NEW r \in Requests, rq[r].at = "answered", rq[r].val # version[rq[r].key]
               PROVE  rq[r].time - replaced[rq[r].key][rq[r].val + 1] < TTL
    BY DEF RulesFresh
  <2>1. rq[r].key \in Keys /\ rq[r].time \in Nat /\ rq[r].val \in Nat
    BY DEF RulesInv, CachesTypes, RuleRequest
  <2>2. PICK t \in Nat : rq[r].time - t < TTL /\ InForceAt(rq[r].key, rq[r].val, t)
    BY DEF RulesInv, RequestsInForce
  <2>3. rq[r].val < version[rq[r].key] /\ t <= replaced[rq[r].key][rq[r].val + 1]
    BY <2>2 DEF InForceAt
  <2>4. /\ version[rq[r].key] \in Nat /\ replaced[rq[r].key] \in Seq(Nat)
        /\ Len(replaced[rq[r].key]) = version[rq[r].key]
    BY <2>1 DEF RulesInv, CachesTypes, HistoryComplete
  <2>5. replaced[rq[r].key][rq[r].val + 1] \in Nat
    <3>1. PICK s \in Seq(Nat), n \in Nat : s = replaced[rq[r].key] /\ n = rq[r].val + 1
      BY <2>1, <2>4
    <3>2. n \in 1..Len(s)
      BY <2>1, <2>3, <2>4, <3>1
    <3>3. s[n] \in Nat
      BY <3>2
    <3> QED BY <3>1, <3>3
  <2> QED BY <2>1, <2>2, <2>3, <2>5, CachesAssumption
<1>2. GuardNeverInvents
  BY DEF GuardInv, GuardNeverInvents
<1> QED
  BY <1>1, <1>2 DEF CachesHonest

\* However requests and checks interleave with amendments, deletions, waits for the
\* lock and failures of the database and of Redis, the rules engine answers with
\* rules in force less than TTL before the request arrived, and the citation guard
\* accepts no id that was never a row (rules_engine/cache.py, corpus_citation_guard.py).
THEOREM CachesStayHonest == CachesSpec => []CachesHonest
<1>1. CachesInit => RulesInv /\ GuardInv
  BY RulesInit, GuardInit
<1>2. RulesInv /\ GuardInv /\ [CachesNext]_cacheVars => RulesInv' /\ GuardInv'
  BY RulesStepInv, GuardStepInv DEF RulesInv, CachesTypes
<1>3. RulesInv /\ GuardInv => CachesHonest
  BY CachesHonestByInvariants
<1> QED
  BY <1>1, <1>2, <1>3, PTL DEF CachesSpec

-----------------------------------------------------------------------------

(***************************************************************************)
(* An answer of the search service is built from what was current, for any *)
(* corpus, any requests and any number of changes while they run.          *)
(***************************************************************************)

SearchSteps == {"idle", "fts", "vector", "merge", "answered", "refused"}

SearchRequest == [step : SearchSteps, filter : Filters, hits : SUBSET Chunks,
                  due : SUBSET Chunks, sound : BOOLEAN, at : Nat]

SearchTypes ==
    /\ currentChunks \subseteq Chunks
    /\ link \in Links
    /\ searchClock \in Nat
    /\ seenAt \in [Chunks -> Nat]
    /\ answers \in [Filters -> [hits : SUBSET Chunks, until : Nat]]
    /\ search \in [Searches -> SearchRequest]

\* The history is up to date.
SeenNow == \A c \in currentChunks : seenAt[c] = searchClock

\* A cached answer holds chunks that were current when it was made.
AnswersRecent == \A f \in Filters : \A c \in answers[f].hits : answers[f].until - SearchTTL <= seenAt[c]

\* One request: what it holds is current until it is answered; its connection, as
\* long as it is sound, was there all the time, and an error on it is not undone.
RequestHonest(q) ==
    /\ q.step \in {"vector", "merge"} => \A c \in q.hits : seenAt[c] = searchClock
    /\ q.step = "answered" => \A c \in q.hits : q.at - seenAt[c] <= SearchTTL
    /\ q.sound => link \in {"open", "aborted"}
    /\ q.sound /\ q.step \in {"vector", "merge", "answered"} => link = "aborted" \/ q.due \subseteq q.hits

RequestsHonest == \A s \in Searches : RequestHonest(search[s])

SearchInv == SearchTypes /\ SeenNow /\ AnswersRecent /\ RequestsHonest

\* No search and no answer.
LEMMA SearchInitInv == SearchInit => SearchInv
<1> SUFFICES ASSUME SearchInit PROVE SearchInv
  OBVIOUS
<1>1. /\ IdleSearch \in SearchRequest
      /\ IdleSearch.step = "idle" /\ IdleSearch.sound = FALSE
  BY DEF IdleSearch, SearchRequest, SearchSteps, Filters
<1>2. search = [s \in Searches |-> IdleSearch]
  BY DEF SearchInit
<1>3. RequestsHonest
  BY <1>1, <1>2 DEF RequestsHonest, RequestHonest
<1>4. SearchTypes /\ SeenNow /\ AnswersRecent
  BY <1>1, <1>2 DEF SearchInit, SearchTypes, SeenNow, AnswersRecent, Links
<1> QED BY <1>3, <1>4 DEF SearchInv

\* A connection that may be sound stays so through every statement.
LEMMA LinkKept ==
    ASSUME link \in Links
    PROVE  /\ _ensure_db \in Links /\ AfterStatement(_ensure_db) \in Links
           /\ link \in {"open", "aborted"} => _ensure_db = link /\ AfterStatement(_ensure_db) = link
BY DEF Links, _ensure_db, AfterStatement

\* One request moves on, the tables and the clock stay: the invariant is kept if
\* the request's new state is honest and the connection no better than it was.
LEMMA OneRequestMoves ==
    ASSUME SearchInv, NEW s \in Searches, NEW q \in SearchRequest,
           search' = [search EXCEPT ![s] = q],
           link' \in Links,
           link \in {"open", "aborted"} => link' = link \/ link' = "aborted",
           UNCHANGED <<currentChunks, searchClock, answers, seenAt>>,
           RequestHonest(q)'
    PROVE  SearchInv'
<1> USE DEF SearchInv
<1>1. /\ search' \in [Searches -> SearchRequest] /\ search'[s] = q
      /\ \A t \in Searches : t # s => search'[t] = search[t]
  BY DEF SearchTypes
<1>2. SearchTypes' /\ SeenNow' /\ AnswersRecent'
  BY <1>1 DEF SearchTypes, SeenNow, AnswersRecent
<1>3. ASSUME NEW t \in Searches, t # s PROVE RequestHonest(search[t])'
  <2>1. search[t] \in SearchRequest /\ search'[t] = search[t] /\ RequestHonest(search[t])
    BY <1>1, <1>3 DEF SearchTypes, RequestsHonest
  <2> QED BY <2>1 DEF RequestHonest
<1> QED BY <1>1, <1>2, <1>3 DEF RequestsHonest

\* A search arrives and either finds an answer in the cache or starts.
LEMMA ArriveInv ==
    ASSUME SearchInv, NEW s \in Searches, NEW f \in Filters, Arrive(s, f)
    PROVE  SearchInv'
<1>1. PICK q : /\ q = IF link' = "none" THEN [IdleSearch EXCEPT !.step = "refused"]
                      ELSE IF searchClock < answers[f].until
                      THEN [IdleSearch EXCEPT !.step = "answered", !.filter = f,
                                              !.hits = answers[f].hits, !.at = searchClock]
                      ELSE [IdleSearch EXCEPT !.step = "fts", !.filter = f, !.sound = (link' = "open")]
               /\ search' = [search EXCEPT ![s] = q]
  BY DEF Arrive
<1>2. link' = _ensure_db /\ UNCHANGED <<currentChunks, searchClock, answers, seenAt>>
  BY DEF Arrive
<1>3. link' \in Links /\ (link \in {"open", "aborted"} => link' = link)
  BY <1>2, LinkKept DEF SearchInv, SearchTypes
<1>4. answers[f].hits \in SUBSET Chunks /\ answers[f].until \in Nat /\ searchClock \in Nat
  BY DEF SearchInv, SearchTypes
<1>5. q \in SearchRequest /\ RequestHonest(q)'
  <2>1. CASE link' = "none"
    <3>1. q = [step |-> "refused", filter |-> "none", hits |-> {}, due |-> {}, sound |-> FALSE, at |-> 0]
      BY <1>1, <2>1 DEF IdleSearch
    <3>2. q \in SearchRequest
      BY <3>1 DEF SearchRequest, SearchSteps, Filters
    <3>3. q.step = "refused" /\ q.sound = FALSE
      BY <3>1
    <3> QED BY <3>2, <3>3 DEF RequestHonest
  <2>2. CASE link' # "none" /\ searchClock < answers[f].until
    <3>1. q = [step |-> "answered", filter |-> f, hits |-> answers[f].hits, due |-> {},
               sound |-> FALSE, at |-> searchClock]
      BY <1>1, <2>2 DEF IdleSearch
    <3>2. \A c \in answers[f].hits : seenAt[c] \in Nat /\ searchClock - seenAt[c] <= SearchTTL
      BY <1>4, <2>2, SearchServiceAssumption DEF SearchInv, AnswersRecent, SearchTypes
    <3>3. q \in SearchRequest
      BY <3>1, <1>4 DEF SearchRequest, SearchSteps, Filters
    <3>4. q.step = "answered" /\ q.sound = FALSE /\ q.hits = answers[f].hits /\ q.at = searchClock
      BY <3>1
    <3> QED BY <1>2, <3>2, <3>3, <3>4 DEF RequestHonest
  <2>3. CASE link' # "none" /\ ~ (searchClock < answers[f].until)
    <3>1. PICK b \in BOOLEAN : b = (link' = "open")
      BY (link' = "open") \in BOOLEAN, Zenon
    <3>2. q = [step |-> "fts", filter |-> f, hits |-> {}, due |-> {}, sound |-> b, at |-> 0]
      BY <1>1, <2>3, <3>1 DEF IdleSearch
    <3>3. q \in SearchRequest
      BY <3>2 DEF SearchRequest, SearchSteps, Filters
    <3>4. q.step = "fts" /\ q.sound = b
      BY <3>2
    <3>5. q.sound => link' = "open"
      BY <3>1, <3>4
    <3> QED BY <3>3, <3>4, <3>5 DEF RequestHonest
  <2> QED BY <2>1, <2>2, <2>3
<1> QED BY <1>1, <1>2, <1>3, <1>5, OneRequestMoves

\* The full text leg.
LEMMA FtsInv ==
    ASSUME SearchInv, NEW s \in Searches, _fts_search(s)
    PROVE  SearchInv'
<1>1. PICK p \in SearchRequest : p = search[s] /\ p.step = "fts" /\ RequestHonest(p)
  BY DEF SearchInv, SearchTypes, RequestsHonest, _fts_search
<1>2. /\ link' \in Links /\ (link \in {"open", "aborted"} => link' = link)
      /\ UNCHANGED <<currentChunks, searchClock, answers, seenAt>>
  BY LinkKept DEF _fts_search, SearchInv, SearchTypes
<1>3. PICK hits \in SUBSET Chunks :
          hits = (IF link' = "open" THEN currentChunks ELSE {})
  BY DEF SearchInv, SearchTypes
<1>4. PICK q : q = [p EXCEPT !.step = "vector", !.hits = hits, !.due = currentChunks]
  OBVIOUS
<1>5. search' = [search EXCEPT ![s] = q]
  BY <1>1, <1>3, <1>4 DEF _fts_search, FtsRows
<1>6. q \in SearchRequest /\ q.step = "vector" /\ q.hits = hits /\ q.due = currentChunks
  BY <1>3, <1>4 DEF SearchRequest, SearchSteps, SearchInv, SearchTypes
<1>7. q.sound = p.sound
  BY <1>4 DEF SearchRequest
<1>8. RequestHonest(q)'
  <2>1. \A c \in hits : seenAt'[c] = searchClock'
    BY <1>2, <1>3 DEF SearchInv, SeenNow
  <2>2. p.sound => link' \in {"open", "aborted"} /\ (link' = "aborted" \/ currentChunks \subseteq hits)
    BY <1>1, <1>2, <1>3 DEF RequestHonest
  <2> QED BY <2>1, <2>2, <1>6, <1>7 DEF RequestHonest
<1> QED BY <1>2, <1>5, <1>6, <1>8, OneRequestMoves

\* The vector leg, which may abort the connection.
LEMMA VectorInv ==
    ASSUME SearchInv, NEW s \in Searches, _vector_search(s)
    PROVE  SearchInv'
<1>1. PICK p \in SearchRequest : p = search[s] /\ p.step = "vector" /\ RequestHonest(p)
  BY DEF SearchInv, SearchTypes, RequestsHonest, _vector_search
<1>2. /\ link' \in Links /\ (link \in {"open", "aborted"} => link' = link \/ link' = "aborted")
      /\ UNCHANGED <<currentChunks, searchClock, answers, seenAt>>
  <2>1. PICK l \in Links : l = AfterStatement(_ensure_db) /\ (link \in {"open", "aborted"} => l = link)
    BY LinkKept DEF SearchInv, SearchTypes
  <2>2. link' = l \/ (l = "open" /\ link' \in {"open", "aborted"})
    BY <2>1 DEF _vector_search
  <2> QED BY <2>1, <2>2 DEF _vector_search, Links
<1>4. PICK r : /\ search' = [search EXCEPT ![s] = r]
               /\ \/ r = [p EXCEPT !.step = "merge"]
                  \/ r = [p EXCEPT !.step = "merge",
                                   !.hits = IF link' = "open" THEN p.hits \cup (currentChunks \cap embedded)
                                            ELSE p.hits]
  BY <1>1 DEF _vector_search
<1>5. PICK more \in SUBSET currentChunks : r.hits = p.hits \cup more
  <2>1. CASE r = [p EXCEPT !.step = "merge"]
    <3>1. r.hits = p.hits \cup {}
      BY <2>1 DEF SearchRequest
    <3> QED BY <3>1
  <2>2. CASE r = [p EXCEPT !.step = "merge",
                           !.hits = IF link' = "open" THEN p.hits \cup (currentChunks \cap embedded)
                                    ELSE p.hits]
    <3>1. r.hits = p.hits \cup {} \/ r.hits = p.hits \cup (currentChunks \cap embedded)
      BY <2>2 DEF SearchRequest
    <3> QED BY <3>1
  <2> QED BY <1>4, <2>1, <2>2
<1>6. /\ r \in SearchRequest /\ r.step = "merge" /\ r.due = p.due
      /\ r.sound = p.sound
  <2>1. CASE r = [p EXCEPT !.step = "merge"]
    <3>1. r \in SearchRequest /\ r.step = "merge" /\ r.due = p.due
      BY <2>1 DEF SearchRequest, SearchSteps
    <3>2. r.sound = p.sound
      BY <2>1 DEF SearchRequest
    <3> QED BY <3>1, <3>2
  <2>2. CASE r # [p EXCEPT !.step = "merge"]
    <3>1. PICK h \in SUBSET Chunks : r = [p EXCEPT !.step = "merge", !.hits = h]
      <4>1. p.hits \in SUBSET Chunks /\ p.hits \cup (currentChunks \cap embedded) \in SUBSET Chunks
        BY DEF SearchRequest, SearchInv, SearchTypes
      <4> QED BY <4>1, <2>2, <1>4
    <3>2. r \in SearchRequest /\ r.step = "merge" /\ r.due = p.due
      BY <3>1 DEF SearchRequest, SearchSteps
    <3>3. r.sound = p.sound
      BY <3>1 DEF SearchRequest
    <3> QED BY <3>2, <3>3
  <2> QED BY <2>1, <2>2
<1>8. RequestHonest(r)'
  <2>1. \A c \in r.hits : seenAt'[c] = searchClock'
    BY <1>1, <1>2, <1>5 DEF SearchInv, SeenNow, RequestHonest
  <2>2. p.sound => link' \in {"open", "aborted"} /\ (link' = "aborted" \/ p.due \subseteq r.hits)
    BY <1>1, <1>2, <1>5 DEF RequestHonest
  <2> QED BY <2>1, <2>2, <1>6 DEF RequestHonest
<1> QED BY <1>2, <1>4, <1>6, <1>8, OneRequestMoves

\* The answer is cached and handed out.
LEMMA MergeInv ==
    ASSUME SearchInv, NEW s \in Searches, Merge(s)
    PROVE  SearchInv'
<1> USE DEF SearchInv
<1>1. PICK p \in SearchRequest : p = search[s] /\ p.step = "merge" /\ RequestHonest(p)
  BY DEF SearchTypes, RequestsHonest, Merge
<1>2. PICK q : q = [p EXCEPT !.step = "answered", !.at = searchClock]
  OBVIOUS
<1>3. PICK a : a = [hits |-> p.hits, until |-> searchClock + SearchTTL]
  OBVIOUS
<1>4. /\ search' = [search EXCEPT ![s] = q]
      /\ answers' = [answers EXCEPT ![p.filter] = a]
      /\ UNCHANGED <<currentChunks, link, searchClock, seenAt>>
  BY <1>1, <1>2, <1>3 DEF Merge
<1>5. searchClock \in Nat /\ p.filter \in Filters /\ p.hits \in SUBSET Chunks
  BY DEF SearchTypes, SearchRequest
<1>6. a \in [hits : SUBSET Chunks, until : Nat] /\ a.hits = p.hits /\ a.until - SearchTTL = searchClock
  BY <1>3, <1>5, SearchServiceAssumption
<1>7. /\ q \in SearchRequest /\ q.step = "answered" /\ q.at = searchClock
      /\ q.hits = p.hits /\ q.due = p.due
  BY <1>2, <1>5 DEF SearchRequest, SearchSteps
<1>8. q.sound = p.sound
  BY <1>2 DEF SearchRequest
<1>9. \A c \in p.hits : seenAt[c] = searchClock
  BY <1>1 DEF RequestHonest
<1>10. RequestHonest(q)'
  <2>1. \A c \in p.hits : searchClock - seenAt[c] <= SearchTTL
    BY <1>5, <1>9, SearchServiceAssumption
  <2> QED BY <1>1, <1>4, <1>7, <1>8, <2>1 DEF RequestHonest
<1>11. /\ answers' \in [Filters -> [hits : SUBSET Chunks, until : Nat]]
       /\ answers'[p.filter] = a /\ \A f \in Filters : f # p.filter => answers'[f] = answers[f]
  BY <1>4, <1>5, <1>6 DEF SearchTypes
<1>12. AnswersRecent'
  <2> SUFFICES ASSUME NEW f \in Filters
               PROVE  \A c \in answers'[f].hits : answers'[f].until - SearchTTL <= seenAt[c]
    BY <1>4 DEF AnswersRecent
  <2>1. CASE f = p.filter
    BY <2>1, <1>5, <1>6, <1>9, <1>11
  <2>2. CASE f # p.filter
    BY <2>2, <1>11 DEF AnswersRecent
  <2> QED BY <2>1, <2>2
<1>13. /\ search' \in [Searches -> SearchRequest] /\ search'[s] = q
       /\ \A t \in Searches : t # s => search'[t] = search[t]
  BY <1>4, <1>7 DEF SearchTypes
<1>14. SearchTypes' /\ SeenNow'
  BY <1>4, <1>11, <1>13 DEF SearchTypes, SeenNow
<1>15. ASSUME NEW t \in Searches PROVE RequestHonest(search[t])'
  <2>1. CASE t = s
    BY <2>1, <1>4, <1>10, <1>13 DEF RequestHonest
  <2>2. CASE t # s
    <3>1. search'[t] = search[t] /\ RequestHonest(search[t])
      BY <1>13, <2>2 DEF RequestsHonest
    <3> QED BY <3>1, <1>4 DEF RequestHonest
  <2> QED BY <2>1, <2>2
<1> QED BY <1>12, <1>14, <1>15 DEF RequestsHonest

\* The connection is dropped, and no search counts as sound any more.
LEMMA OutageInv ==
    ASSUME SearchInv, Outage
    PROVE  SearchInv'
<1> USE DEF SearchInv
<1>1. /\ search' = [s \in Searches |-> [search[s] EXCEPT !.sound = FALSE]]
      /\ UNCHANGED <<currentChunks, searchClock, answers, seenAt>>
      /\ link' \in Links
  BY DEF Outage, SearchTypes, Links
<1>2. ASSUME NEW s \in Searches
      PROVE  search'[s] \in SearchRequest /\ RequestHonest(search[s])'
  <2> DEFINE p == search[s]
  <2>1. p \in SearchRequest /\ RequestHonest(p)
    BY DEF SearchTypes, RequestsHonest
  <2>2. search'[s] = [step |-> p.step, filter |-> p.filter, hits |-> p.hits, due |-> p.due,
                      sound |-> FALSE, at |-> p.at]
    BY <1>1, <2>1 DEF SearchRequest
  <2>3. search'[s] \in SearchRequest
    BY <2>1, <2>2 DEF SearchRequest
  <2> QED BY <1>1, <2>1, <2>2, <2>3 DEF RequestHonest
<1>3. search' \in [Searches -> SearchRequest]
  BY <1>1, <1>2
<1>4. SearchTypes' /\ SeenNow' /\ AnswersRecent'
  BY <1>1, <1>3 DEF SearchTypes, SeenNow, AnswersRecent
<1> QED BY <1>2, <1>4 DEF RequestsHonest

\* Time passes, and answers expire.
LEMMA SearchTickInv ==
    ASSUME SearchInv, SearchTick
    PROVE  SearchInv'
<1> USE DEF SearchInv
<1>1. /\ searchClock' = searchClock + 1
      /\ seenAt' = [c \in Chunks |-> IF c \in currentChunks THEN searchClock' ELSE seenAt[c]]
      /\ UNCHANGED <<currentChunks, link, answers, search>>
  BY DEF SearchTick
<1>2. /\ seenAt' \in [Chunks -> Nat] /\ searchClock \in Nat /\ searchClock' \in Nat
      /\ \A c \in Chunks : seenAt[c] \in Nat /\ seenAt'[c] \in Nat /\ seenAt[c] <= seenAt'[c]
      /\ \A c \in currentChunks : seenAt'[c] = searchClock'
  BY <1>1 DEF SearchTypes, SeenNow
<1>3. SearchTypes' /\ SeenNow'
  BY <1>1, <1>2 DEF SearchTypes, SeenNow
<1>4. AnswersRecent'
  <2> SUFFICES ASSUME NEW f \in Filters, NEW c \in answers[f].hits
               PROVE  answers[f].until - SearchTTL <= seenAt'[c]
    BY <1>1 DEF AnswersRecent
  <2>1. answers[f].until \in Nat /\ c \in Chunks /\ answers[f].until - SearchTTL <= seenAt[c]
    BY DEF AnswersRecent, SearchTypes
  <2> QED BY <2>1, <1>2, SearchServiceAssumption
<1>5. ASSUME NEW s \in Searches PROVE RequestHonest(search[s])'
  <2> DEFINE p == search[s]
  <2>1. p \in SearchRequest /\ RequestHonest(p) /\ p.step \notin {"vector", "merge"}
    BY DEF SearchTypes, RequestsHonest, SearchTick
  <2>2. p.at \in Nat /\ p.hits \subseteq Chunks
    BY <2>1 DEF SearchRequest
  <2>3. p.step = "answered" => \A c \in p.hits : p.at - seenAt'[c] <= SearchTTL
    BY <2>1, <2>2, <1>2, SearchServiceAssumption DEF RequestHonest
  <2> QED BY <2>1, <2>3, <1>1 DEF RequestHonest
<1> QED BY <1>3, <1>4, <1>5 DEF RequestsHonest

\* Whatever happens to the shared connection, to the corpus and to the cache, and in
\* whatever order the requests use them, what a search hands out was current at most
\* SearchTTL before, and a search over a working connection that no filtered search
\* had broken found all that was due (lawapp-rag-service/main.py).
THEOREM SearchStaysHonest == SearchSpec => []SearchHonest
<1>1. SearchInit => SearchInv
  BY SearchInitInv
<1>2. SearchInv /\ [SearchNext]_searchVars => SearchInv'
  <2> SUFFICES ASSUME SearchInv, [SearchNext]_searchVars PROVE SearchInv'
    OBVIOUS
  <2>1. ASSUME NEW c \in Chunks, Supersede(c) PROVE SearchInv'
    BY <2>1 DEF Supersede, SearchInv, SearchTypes, SeenNow, AnswersRecent, RequestsHonest, RequestHonest
  <2>2. CASE UNCHANGED searchVars
    BY <2>2 DEF searchVars, SearchInv, SearchTypes, SeenNow, AnswersRecent, RequestsHonest, RequestHonest
  <2> QED
    BY <2>1, <2>2, ArriveInv, FtsInv, VectorInv, MergeInv, OutageInv, SearchTickInv DEF SearchNext
<1>3. SearchInv => SearchHonest
  BY DEF SearchInv, RequestsHonest, RequestHonest, SearchHonest, ResultsRecent, SearchFinds
<1> QED
  BY <1>1, <1>2, <1>3, PTL DEF SearchSpec

-----------------------------------------------------------------------------

(***************************************************************************)
(* A chain that is answered, fresh or from the cache, reports what it      *)
(* misses, for any graph and any number of edits.                          *)
(***************************************************************************)

Routes == {"traverse", "search"}

\* The nodes on a path from the root, as the recursive query finds them.
OnPath == {Last(p) : p \in Paths}

\* What may be said of an answer, fresh or cached: it reports what is missing, and
\* it is complete unless the graph was edited or had nothing to give since.
AnswerHonest(a) ==
    a.engine = "postgres" =>
        /\ a.missing = {} => Prerequisites \subseteq a.path
        /\ edits = 0 /\ lastBad = -1 => a.path = OnPath

GraphInv ==
    /\ graphNow \in Nat /\ edits \in Nat
    /\ \A route \in Routes : AnswerHonest(chain[route].answer)
    /\ DOMAIN chain = Routes
    /\ AnswerHonest(served.answer)
    /\ edits = 0 => listed \subseteq OnPath

\* The prerequisites on a path depend on the graph alone.
LEMMA OnPathKept == UNCHANGED <<active, edges>> => OnPath' = OnPath
BY DEF OnPath, Paths, PathsUpTo

\* Nothing has been answered.
LEMMA GraphInitInv == LegalGraphInit => GraphInv
<1> SUFFICES ASSUME LegalGraphInit PROVE GraphInv
  OBVIOUS
<1>1. served.answer.engine = "none"
  BY DEF LegalGraphInit
<1>2. DOMAIN chain = Routes /\ \A route \in Routes : chain[route].answer.engine = "neo4j"
  BY DEF LegalGraphInit, Routes, _neo4j_chain
<1> QED BY <1>1, <1>2 DEF LegalGraphInit, GraphInv, AnswerHonest

\* Only Neo4j's answers are replaced by an error.
LEMMA ModelsOrError ==
    ASSUME NEW a PROVE \E m : m = ToModels(a) /\ (m = a \/ m.engine = "error")
<1>1. CASE a.engine = "neo4j" /\ a.path \ {Root} # {}
  <2>1. ToModels(a) = [path |-> {}, engine |-> "error", missing |-> {}]
    BY <1>1 DEF ToModels
  <2>2. ToModels(a).engine = "error"
    BY <2>1
  <2> QED BY <2>2
<1>2. CASE ~ (a.engine = "neo4j" /\ a.path \ {Root} # {})
  <2>1. ToModels(a) = a
    BY <1>2 DEF ToModels
  <2> QED BY <2>1
<1> QED BY <1>1, <1>2

\* A step that leaves the graph alone and can only mark it bad keeps what was said.
LEMMA AnswerKept ==
    ASSUME GraphInv, UNCHANGED <<active, edges, edits>>, lastBad' = lastBad \/ lastBad' = graphNow, NEW a
    PROVE  AnswerHonest(a) => AnswerHonest(a)'
BY OnPathKept DEF AnswerHonest, GraphInv

\* A chain is built from the graph, or from nothing in an outage.
LEMMA BuildInv ==
    ASSUME GraphInv, NEW route \in Routes, build_graph_chain(route),
           UNCHANGED <<active, edges, edits>>
    PROVE  GraphInv'
<1> DEFINE built == IF neo # {} THEN _neo4j_chain ELSE _postgres_chain
<1>1. CASE /\ served' = [answer |-> ToModels(chain[route].answer), at |-> graphNow]
           /\ UNCHANGED <<graphNow, graphUp, neo, chain, listed, lastBad>>
  <2>1. PICK a : a = chain[route].answer /\ AnswerHonest(a)
    BY DEF GraphInv
  <2>2. PICK m : m = ToModels(a) /\ (m = a \/ m.engine = "error")
    BY ModelsOrError
  <2>3. served'.answer = m
    BY <1>1, <2>1, <2>2
  <2>4. AnswerHonest(m)
    BY <2>1, <2>2 DEF AnswerHonest
  <2> QED
    BY <1>1, <2>3, <2>4, AnswerKept, OnPathKept DEF GraphInv
<1>2. CASE /\ served' = [answer |-> ToModels(built), at |-> graphNow]
           /\ chain' = [chain EXCEPT ![route] = Remembered(built)] \/ chain' = chain
           /\ lastBad' = IF built.path = {} THEN graphNow ELSE lastBad
           /\ UNCHANGED <<graphNow, graphUp, neo, listed>>
  <2>1. PICK b : b = built
    OBVIOUS
  <2>2. AnswerHonest(b)'
    <3>1. CASE neo # {}
      BY <3>1, <2>1 DEF AnswerHonest, _neo4j_chain
    <3>2. CASE neo = {}
      <4>1. PICK path : path = build_legal_path
        OBVIOUS
      <4>2. b = [path |-> path, engine |-> "postgres",
                 missing |-> IF path = {} THEN {"unavailable"} ELSE Prerequisites \ path]
        BY <2>1, <3>2, <4>1 DEF _postgres_chain, _identify_missing_prerequisites
      <4>3. b.missing = {} => Prerequisites \subseteq b.path
        BY <4>2
      <4>4. path = {} => lastBad' = graphNow
        BY <1>2, <2>1, <4>2
      <4>5. path # {} => path = OnPath
        BY <4>1 DEF build_legal_path, OnPath
      <4>6. b.path = path
        BY <4>2
      <4> QED BY <4>3, <4>4, <4>5, <4>6, OnPathKept DEF AnswerHonest, GraphInv
    <3> QED BY <3>1, <3>2
  <2>3. PICK m : m = ToModels(b) /\ (m = b \/ m.engine = "error")
    BY ModelsOrError
  <2>4. served'.answer = m /\ AnswerHonest(m)'
    BY <1>2, <2>1, <2>2, <2>3 DEF AnswerHonest
  <2>5. PICK e : e = [answer |-> b, until |-> graphNow + GraphTTL]
    OBVIOUS
  <2>10. e = Remembered(built) /\ e.answer = b
    BY <2>1, <2>5 DEF Remembered
  <2>6. lastBad' = lastBad \/ lastBad' = graphNow
    BY <1>2
  <2>7. ASSUME NEW other \in Routes
        PROVE  \/ chain'[other].answer = chain[other].answer
               \/ chain'[other].answer = b
    BY <1>2, <2>10 DEF GraphInv
  <2>8. ASSUME NEW other \in Routes PROVE AnswerHonest(chain[other].answer)'
    <3>1. PICK a : a = chain[other].answer /\ AnswerHonest(a)
      BY DEF GraphInv
    <3>2. AnswerHonest(a)'
      BY <3>1, <2>6, AnswerKept
    <3> QED BY <2>2, <2>7, <3>1, <3>2
  <2>9. DOMAIN chain' = Routes
    BY <1>2 DEF GraphInv
  <2> QED
    BY <1>2, <2>4, <2>8, <2>9, OnPathKept DEF GraphInv
<1> HIDE DEF built
<1> QED BY <1>1, <1>2 DEF build_graph_chain, built

\* A list shows nodes of the path, or nothing while the database is away.
LEMMA ListingInv ==
    ASSUME GraphInv, get_requirements \/ get_remedies \/ get_deadlines,
           UNCHANGED <<active, edges, edits>>
    PROVE  GraphInv'
<1>1. \A kinds : OfKind(kinds) \subseteq OnPath
  BY DEF OfKind, build_legal_path, OnPath
<1>2. listed' \subseteq OnPath /\ UNCHANGED <<graphNow, graphUp, neo, chain, served, lastBad>>
  BY <1>1 DEF get_requirements, get_remedies, get_deadlines, Listing,
              traverse_requirements, find_remedies_for_claim, find_deadlines_for_claim
<1>3. \A a : AnswerHonest(a) => AnswerHonest(a)'
  BY <1>2, AnswerKept
<1> QED
  BY <1>2, <1>3, OnPathKept DEF GraphInv

\* Whatever is cached while the database or Neo4j goes away and the graph is edited,
\* a chain from Postgres that reports nothing missing has every prerequisite, and an
\* unedited graph that could always answer shows no list the chain lacks
\* (graph_engine.py, graphrag_traversal.py).
THEOREM ChainsStayHonest == LegalGraphSpec => []ChainsHonest
<1>1. LegalGraphInit => GraphInv
  BY GraphInitInv
<1>2. GraphInv /\ [LegalGraphNext]_legalGraphVars => GraphInv'
  <2> SUFFICES ASSUME GraphInv, [LegalGraphNext]_legalGraphVars PROVE GraphInv'
    OBVIOUS
  <2>1. CASE EditGraph /\ UNCHANGED chainVars
    <3>1. edits' \in Nat /\ edits' # 0
      BY <2>1 DEF EditGraph, GraphInv
    <3> QED BY <2>1, <3>1 DEF GraphInv, AnswerHonest, chainVars
  <2>2. ASSUME UNCHANGED <<active, edges, edits, graphNow, chain, served, listed, lastBad>>
        PROVE  GraphInv'
    <3>1. \A a : AnswerHonest(a) => AnswerHonest(a)'
      BY <2>2, AnswerKept
    <3> QED BY <2>2, <3>1, OnPathKept DEF GraphInv
  <2>3. CASE WalkStep /\ ~ EditGraph
    BY <2>2, <2>3 DEF WalkStep, StartWalk, FetchNode, FetchEdges, FinishWalk, chainVars
  <2>4. CASE ChainStep
    <3>1. UNCHANGED <<active, edges, edits>>
      BY <2>4 DEF ChainStep
    <3>2. CASE graphrag_traverse \/ graph_search
      BY <3>1, <3>2, BuildInv DEF graphrag_traverse, graph_search, Routes
    <3>3. CASE get_requirements \/ get_remedies \/ get_deadlines
      BY <3>1, <3>3, ListingInv
    <3>4. CASE GraphTick
      <4>1. graphNow' = graphNow + 1 /\ UNCHANGED <<chain, served, listed, lastBad>>
        BY <3>4 DEF GraphTick
      <4>2. \A a : AnswerHonest(a) => AnswerHonest(a)'
        BY <3>1, <4>1, AnswerKept
      <4> QED BY <3>1, <4>1, <4>2, OnPathKept DEF GraphInv
    <3>5. CASE GraphFails \/ Neo4jFails
      BY <2>2, <3>1, <3>5 DEF GraphFails, Neo4jFails
    <3> QED BY <2>4, <3>2, <3>3, <3>4, <3>5 DEF ChainStep
  <2>5. CASE UNCHANGED legalGraphVars
    BY <2>2, <2>5 DEF legalGraphVars, chainVars
  <2> QED BY <2>1, <2>3, <2>4, <2>5 DEF LegalGraphNext, WalkStep
<1>3. GraphInv => ChainsHonest
  BY DEF GraphInv, AnswerHonest, ChainsHonest
<1> QED
  BY <1>1, <1>2, <1>3, PTL DEF LegalGraphSpec

-----------------------------------------------------------------------------

(***************************************************************************)
(* The walk of the graph is exact, for any graph, any depth and any number *)
(* of edits between its statements.                                        *)
(*                                                                         *)
(* The rings of the root (what it reaches in at most d steps) are the      *)
(* measure.  Against the graph as it ever was: whatever waits in the queue *)
(* follows a node of a ring, so nothing is found that never could be.      *)
(* Against the graph as it always was: no node of a ring waits deeper than *)
(* the ring, which holds because the queue stays ordered by depth, and a   *)
(* node that is behind the walk has all its successors visited; so an      *)
(* empty queue means that nothing was missed.                              *)
(***************************************************************************)

\* Induction up to n, for a set of depths.
LEMMA UpToN ==
    ASSUME NEW n \in Nat, NEW D, 0 \in D, \A d \in 1..n : d - 1 \in D => d \in D
    PROVE  0..n \subseteq D
<1> DEFINE Bad == {d \in 0..n : d \notin D}
<1> SUFFICES ASSUME Bad # {} PROVE FALSE
  OBVIOUS
<1>1. Bad \in SUBSET Nat
  OBVIOUS
<1>2. PICK x \in Bad : \A y \in Bad : ~ (<<y, x>> \in OpToRel(<, Nat))
  BY <1>1, NatLessThanWellFounded, WFMin
<1>3. x \in 1..n
  OBVIOUS
<1>4. x - 1 \in Nat /\ x \in Nat /\ x - 1 < x
  BY <1>3
<1>5. PICK p : p = <<x - 1, x>>
  OBVIOUS
<1>6. p \in Nat \X Nat /\ p[1] < p[2]
  BY <1>4, <1>5
<1>7. p \in OpToRel(<, Nat)
  BY <1>6 DEF OpToRel
<1>8. x - 1 \notin Bad
  BY <1>2, <1>5, <1>7
<1>9. x - 1 \in 0..n
  BY <1>3
<1>10. x - 1 \in D
  BY <1>8, <1>9
<1>11. x \in D
  BY <1>3, <1>10
<1> QED BY <1>2, <1>11

\* r lists a, what F makes of it, and so on n times.
Iterates(X, a, F, n, r) ==
    r \in [0..n -> X] /\ r[0] = a /\ \A d \in 1..n : r[d] = F[r[d - 1]]

\* A function can be iterated n times.
LEMMA Iterated ==
    ASSUME NEW X, NEW a \in X, NEW F \in [X -> X], NEW n \in Nat
    PROVE  \E r : Iterates(X, a, F, n, r)
<1> DEFINE D == {k \in 0..n : \E r : Iterates(X, a, F, k, r)}
<1>1. 0 \in D
  <2>1. PICK r : r = [d \in 0..0 |-> a]
    OBVIOUS
  <2>2. r \in [0..0 -> X] /\ r[0] = a
    BY <2>1
  <2>3. Iterates(X, a, F, 0, r)
    BY <2>2 DEF Iterates
  <2> QED BY <2>3
<1>2. ASSUME NEW k \in 1..n, k - 1 \in D PROVE k \in D
  <2>1. PICK r : Iterates(X, a, F, k - 1, r)
    BY <1>2
  <2>2. PICK s : s = [d \in 0..k |-> IF d = k THEN F[r[k - 1]] ELSE r[d]]
    OBVIOUS
  <2>3. r \in [0..(k - 1) -> X] /\ r[0] = a /\ \A d \in 1..(k - 1) : r[d] = F[r[d - 1]]
    BY <2>1 DEF Iterates
  <2>4. k - 1 \in 0..(k - 1) /\ F[r[k - 1]] \in X
    BY <2>3
  <2>5. s \in [0..k -> X] /\ s[0] = a
    BY <2>2, <2>3, <2>4
  <2>6. \A d \in 1..k : s[d] = F[s[d - 1]]
    BY <2>2, <2>3
  <2>7. Iterates(X, a, F, k, s)
    BY <2>5, <2>6 DEF Iterates
  <2> QED BY <2>7
<1>3. n \in D
  <2> HIDE DEF D
  <2> QED BY <1>1, <1>2, UpToN
<1> QED BY <1>3

Spread(g, S, A) == A \cup {m \in g.active \cap S : \E n \in A : <<n, m>> \in g.edges}

\* The rings are what their recursion says.
LEMMA RingsAre ==
    ASSUME NEW g, NEW S, g.active \subseteq Nodes
    PROVE  /\ Rings(g, S) \in [0..MaxDepth -> SUBSET Nodes]
           /\ Rings(g, S)[0] = {Root} \cap g.active \cap S
           /\ \A d \in 1..MaxDepth : Rings(g, S)[d] = Spread(g, S, Rings(g, S)[d - 1])
<1>1. PICK F : F = [A \in SUBSET Nodes |-> Spread(g, S, A)]
  OBVIOUS
<1>2. F \in [SUBSET Nodes -> SUBSET Nodes]
  BY <1>1 DEF Spread
<1>3. {Root} \cap g.active \cap S \in SUBSET Nodes
  OBVIOUS
<1> MaxDepth \in Nat
  BY LegalGraphAssumption
<1>4. PICK r \in [0..MaxDepth -> SUBSET Nodes] :
         /\ r[0] = {Root} \cap g.active \cap S
         /\ \A d \in 1..MaxDepth : r[d] = F[r[d - 1]]
  <2>1. PICK X, a : X = SUBSET Nodes /\ a = {Root} \cap g.active \cap S
    OBVIOUS
  <2>2. a \in X /\ F \in [X -> X]
    BY <1>2, <1>3, <2>1, Zenon
  <2>3. PICK r : Iterates(X, a, F, MaxDepth, r)
    BY <2>2, Iterated
  <2> QED BY <2>1, <2>3 DEF Iterates
<1> DEFINE eq(f) == f = [d \in 0..MaxDepth |->
                           IF d = 0 THEN {Root} \cap g.active \cap S
                           ELSE f[d - 1] \cup {m \in g.active \cap S : \E n \in f[d - 1] : <<n, m>> \in g.edges}]
<1>5. eq(r)
  <2>1. \A d \in 1..MaxDepth : d - 1 \in 0..MaxDepth
    BY LegalGraphAssumption
  <2>2. \A d \in 0..MaxDepth : d # 0 => d \in 1..MaxDepth
    BY LegalGraphAssumption
  <2> QED BY <1>1, <1>4, <2>1, <2>2 DEF Spread
<1>6. eq(Rings(g, S))
  BY <1>5 DEF Rings
<1>7. PICK R : R = Rings(g, S)
  OBVIOUS
<1>8. R = [d \in 0..MaxDepth |-> IF d = 0 THEN {Root} \cap g.active \cap S ELSE Spread(g, S, R[d - 1])]
  BY <1>6, <1>7 DEF Spread
<1>9. R[0] = {Root} \cap g.active \cap S /\ \A d \in 1..MaxDepth : R[d] = Spread(g, S, R[d - 1])
  <2>1. \A d \in 1..MaxDepth : d \in 0..MaxDepth /\ d # 0
    OBVIOUS
  <2>2. 0 \in 0..MaxDepth
    OBVIOUS
  <2>3. PICK first : first = {Root} \cap g.active \cap S
    OBVIOUS
  <2> HIDE DEF eq
  <2>4. R[0] = first
    BY <1>8, <2>2, <2>3
  <2> QED BY <1>8, <2>1, <2>3, <2>4
<1>10. \A d \in 0..MaxDepth : R[d] \in SUBSET Nodes
  <2> DEFINE D == {d \in 0..MaxDepth : R[d] \in SUBSET Nodes}
  <2>1. 0 \in D
    BY <1>9, LegalGraphAssumption
  <2>2. \A d \in 1..MaxDepth : d - 1 \in D => d \in D
    BY <1>9 DEF Spread
  <2>3. 0..MaxDepth \subseteq D
    <3> HIDE DEF D
    <3> QED BY <2>1, <2>2, UpToN, LegalGraphAssumption
  <2> QED BY <2>3
<1> QED BY <1>7, <1>8, <1>9, <1>10

\* A ring holds active nodes of S, and those of the rings before it.
LEMMA RingsNest ==
    ASSUME NEW g, NEW S, g.active \subseteq Nodes
    PROVE  \A d \in 0..MaxDepth : /\ Rings(g, S)[d] \subseteq g.active \cap S
                                  /\ Rings(g, S)[d] \subseteq Within(g, S)
<1> MaxDepth \in Nat
  BY LegalGraphAssumption
<1>1. PICK R \in [0..MaxDepth -> SUBSET Nodes] : R = Rings(g, S)
  BY RingsAre
<1>2. R[0] = {Root} \cap g.active \cap S /\ \A d \in 1..MaxDepth : R[d] = Spread(g, S, R[d - 1])
  BY <1>1, RingsAre
<1>3. \A d \in 0..MaxDepth : R[d] \subseteq g.active \cap S
  <2> DEFINE D == {d \in 0..MaxDepth : R[d] \subseteq g.active \cap S}
  <2>1. 0 \in D
    BY <1>2
  <2>2. \A d \in 1..MaxDepth : d - 1 \in D => d \in D
    BY <1>2 DEF Spread
  <2>3. 0..MaxDepth \subseteq D
    <3> HIDE DEF D
    <3> QED BY <2>1, <2>2, UpToN
  <2> QED BY <2>3
<1>4. \A d \in 0..MaxDepth : R[d] \subseteq R[MaxDepth]
  <2> DEFINE D == {e \in 0..MaxDepth : R[MaxDepth - e] \subseteq R[MaxDepth]}
  <2>1. 0 \in D
    OBVIOUS
  <2>2. ASSUME NEW e \in 1..MaxDepth, e - 1 \in D PROVE e \in D
    <3>1. R[MaxDepth - (e - 1)] \subseteq R[MaxDepth]
      BY <2>2
    <3>2. MaxDepth - (e - 1) \in 1..MaxDepth /\ (MaxDepth - (e - 1)) - 1 = MaxDepth - e
      OBVIOUS
    <3>3. R[MaxDepth - e] \subseteq R[MaxDepth - (e - 1)]
      BY <1>2, <3>2 DEF Spread
    <3> QED BY <3>1, <3>3
  <2>3. 0..MaxDepth \subseteq D
    <3> HIDE DEF D
    <3> QED BY <2>1, <2>2, UpToN
  <2>4. ASSUME NEW d \in 0..MaxDepth PROVE R[d] \subseteq R[MaxDepth]
    <3>1. MaxDepth - d \in 0..MaxDepth /\ MaxDepth - (MaxDepth - d) = d
      OBVIOUS
    <3>2. MaxDepth - d \in D
      BY <2>3, <3>1
    <3> QED BY <3>1, <3>2
  <2> QED BY <2>4
<1> QED BY <1>1, <1>3, <1>4 DEF Within

\* A ring grows with the graph and with the nodes it may use.
LEMMA RingsGrow ==
    ASSUME NEW g, NEW h, NEW S, NEW T,
           g.active \subseteq h.active, g.edges \subseteq h.edges, h.active \subseteq Nodes, S \subseteq T
    PROVE  /\ \A d \in 0..MaxDepth : Rings(g, S)[d] \subseteq Rings(h, T)[d]
           /\ Within(g, S) \subseteq Within(h, T)
<1> MaxDepth \in Nat
  BY LegalGraphAssumption
<1>1. PICK R \in [0..MaxDepth -> SUBSET Nodes] :
         /\ R = Rings(g, S) /\ R[0] = {Root} \cap g.active \cap S
         /\ \A d \in 1..MaxDepth : R[d] = Spread(g, S, R[d - 1])
  BY RingsAre
<1>2. PICK Q \in [0..MaxDepth -> SUBSET Nodes] :
         /\ Q = Rings(h, T) /\ Q[0] = {Root} \cap h.active \cap T
         /\ \A d \in 1..MaxDepth : Q[d] = Spread(h, T, Q[d - 1])
  BY RingsAre
<1> DEFINE D == {d \in 0..MaxDepth : R[d] \subseteq Q[d]}
<1>3. 0 \in D
  BY <1>1, <1>2
<1>4. ASSUME NEW d \in 1..MaxDepth, d - 1 \in D PROVE d \in D
  <2>1. R[d - 1] \subseteq Q[d - 1]
    BY <1>4
  <2>2. Spread(g, S, R[d - 1]) \subseteq Spread(h, T, Q[d - 1])
    BY <2>1 DEF Spread
  <2> QED BY <1>1, <1>2, <2>2
<1>5. 0..MaxDepth \subseteq D
  <2> HIDE DEF D
  <2> QED BY <1>3, <1>4, UpToN
<1> QED BY <1>1, <1>2, <1>5 DEF Within

\* What follows a node of a ring is in the next one.
LEMMA NextRing ==
    ASSUME NEW g, NEW S, g.active \subseteq Nodes, NEW d \in 0..MaxDepth, d < MaxDepth,
           NEW n \in Rings(g, S)[d], NEW m \in g.active \cap S, <<n, m>> \in g.edges
    PROVE  m \in Rings(g, S)[d + 1]
<1> MaxDepth \in Nat
  BY LegalGraphAssumption
<1>1. d + 1 \in 1..MaxDepth /\ (d + 1) - 1 = d
  OBVIOUS
<1>2. Rings(g, S)[d + 1] = Spread(g, S, Rings(g, S)[d])
  BY <1>1, RingsAre
<1> QED BY <1>2 DEF Spread

\* An order of a finite set names each of its members.
LEMMA OrderNames ==
    ASSUME NEW T \in SUBSET Nodes, NEW order \in SetToSeqs(T)
    PROVE  /\ order \in Seq(T) /\ DOMAIN order = 1..Len(order)
           /\ \A m \in T : \E i \in 1..Len(order) : order[i] = m
<1>1. PICK c \in Nat : c = Cardinality(T)
  BY FS_Subset, FS_CardinalityType, LegalGraphAssumption
<1>2. order \in [1..c -> T] /\ \A i, j \in 1..c : i # j => order[i] # order[j]
  BY <1>1 DEF SetToSeqs
<1>3. order \in Injection(1..c, T)
  BY <1>2 DEF Injection, IsInjective
<1>4. IsFiniteSet(T) /\ Cardinality(1..c) = c
  BY FS_Subset, FS_Interval, LegalGraphAssumption
<1>5. order \in Surjection(1..c, T)
  BY <1>1, <1>3, <1>4, FS_Injection
<1>6. order \in Seq(T) /\ Len(order) = c
  BY <1>2
<1> QED BY <1>2, <1>5, <1>6 DEF Surjection

-----------------------------------------------------------------------------

WalkState == [step : {"idle", "node", "edges", "done"}, queue : Seq(Nodes \X (0..MaxDepth)),
              visited : SUBSET Nodes, found : SUBSET Nodes, at : Nodes \X (0..MaxDepth)]

SomeGraph == [active : SUBSET Nodes, edges : SUBSET (Nodes \X Nodes)]

\* The graph lies between what it always was and what it ever was.
WalkTypes ==
    /\ active \subseteq Nodes /\ edges \subseteq Nodes \X Nodes
    /\ walk \in WalkState /\ always \in SomeGraph /\ ever \in SomeGraph
    /\ always.active \subseteq active /\ active \subseteq ever.active
    /\ always.edges \subseteq edges /\ edges \subseteq ever.edges

Places(w) == 1..Len(w.queue)
Waits(w, n) == \E i \in Places(w) : w.queue[i][1] = n

\* Depths grow along the queue and span at most one step from where the walk is.
Sorted(w) ==
    \A i \in Places(w) :
        /\ w.at[2] <= w.queue[i][2] /\ w.queue[i][2] <= w.at[2] + 1
        /\ \A j \in Places(w) : i < j => w.queue[i][2] <= w.queue[j][2]

\* Whatever is in the queue follows a node of the ring before; so what is found
\* could be reached.
Reached(w, g) ==
    /\ \A i \in Places(w) :
          \/ w.queue[i][1] = Root /\ w.queue[i][2] = 0
          \/ /\ w.queue[i][2] # 0
             /\ \E n \in Rings(g, LocalNodes)[w.queue[i][2] - 1] : <<n, w.queue[i][1]>> \in g.edges
    /\ w.step = "edges" => w.at[1] \in Rings(g, LocalNodes)[w.at[2]] /\ w.at[2] < MaxDepth
    /\ w.found \subseteq Within(g, LocalNodes)

\* The walk meets no node deeper than its ring, has met all of the rings down to
\* where it is, and what follows a node that is behind it.
Complete(w, g) ==
    /\ \A n \in w.visited \cap g.active \cap LocalNodes : n \in w.found \/ Waits(w, n)
    /\ \A i \in Places(w), d \in 0..MaxDepth :
          w.queue[i][1] \in Rings(g, LocalNodes)[d] => w.queue[i][2] <= d
    /\ \A d \in 0..MaxDepth : d <= w.at[2] => Rings(g, LocalNodes)[d] \subseteq w.visited
    /\ \A d \in 0..MaxDepth, n \in w.visited, m \in Nodes :
          d < MaxDepth /\ n \in Rings(g, LocalNodes)[d] /\ <<n, m>> \in g.edges =>
              Waits(w, n) \/ (w.step = "edges" /\ w.at[1] = n) \/ m \in w.visited

WalkInv ==
    /\ WalkTypes
    /\ walk.step # "idle" => Sorted(walk) /\ Reached(walk, ever) /\ Complete(walk, always)
    /\ walk.step = "done" => walk.queue = <<>>

\* The walk has not started.
LEMMA WalkInitInv == LegalGraphInit => WalkInv
<1> SUFFICES ASSUME LegalGraphInit PROVE WalkInv
  OBVIOUS
<1>1. /\ active \in {Nodes, Nodes \ {Root}} /\ edges \in Shapes
      /\ always = Graph(active, edges) /\ ever = Graph(active, edges)
      /\ walk = [step |-> "idle", queue |-> <<>>, visited |-> {}, found |-> {}, at |-> <<Root, 0>>]
  BY DEF LegalGraphInit
<1>2. active \subseteq Nodes /\ edges \subseteq Nodes \X Nodes
  BY <1>1, LegalGraphAssumption
<1>3. <<Root, 0>> \in Nodes \X (0..MaxDepth)
  BY LegalGraphAssumption
<1>4. walk \in WalkState /\ walk.step = "idle"
  BY <1>1, <1>3 DEF WalkState
<1>5. always \in SomeGraph /\ ever \in SomeGraph
  BY <1>1, <1>2 DEF SomeGraph, Graph
<1> QED BY <1>1, <1>2, <1>4, <1>5 DEF WalkInv, WalkTypes, Graph

\* The walk starts at the root.
LEMMA StartInv == ASSUME WalkInv, StartWalk PROVE WalkInv'
<1> MaxDepth \in Nat /\ Root \in Nodes
  BY LegalGraphAssumption
<1>1. PICK q : q = <<<<Root, 0>>>>
  OBVIOUS
<1>2. PICK w : w = [step |-> "node", queue |-> q, visited |-> {Root}, found |-> {}, at |-> <<Root, 0>>]
  OBVIOUS
<1>3. PICK g : g = Graph(active, edges)
  OBVIOUS
<1>4. /\ walk' = w /\ always' = g /\ ever' = g /\ UNCHANGED <<active, edges>>
      /\ active \subseteq Nodes /\ edges \subseteq Nodes \X Nodes
  BY <1>1, <1>2, <1>3 DEF StartWalk, WalkInv, WalkTypes
<1>5. /\ q \in Seq(Nodes \X (0..MaxDepth)) /\ Len(q) = 1 /\ q[1] = <<Root, 0>>
      /\ <<Root, 0>> \in Nodes \X (0..MaxDepth)
  BY <1>1
<1>6. /\ w \in WalkState /\ w.step = "node" /\ w.queue = q /\ w.visited = {Root} /\ w.found = {}
      /\ w.at[1] = Root /\ w.at[2] = 0
  BY <1>2, <1>5 DEF WalkState
<1>7. g \in SomeGraph /\ g.active = active /\ g.edges = edges
  BY <1>3, <1>4 DEF SomeGraph, Graph
<1>8. Places(w) = {1} /\ w.queue[1][1] = Root /\ w.queue[1][2] = 0
  <2>1. Len(w.queue) = 1 /\ w.queue[1] = <<Root, 0>>
    BY <1>5, <1>6
  <2>2. 1..1 = {1}
    OBVIOUS
  <2> QED BY <2>1, <2>2 DEF Places
<1>9. Sorted(w)
  BY <1>6, <1>8 DEF Sorted
<1>10. Reached(w, g)
  BY <1>6, <1>8 DEF Reached
<1>11. Complete(w, g)
  <2>1. \A d \in 0..MaxDepth : d <= 0 => Rings(g, LocalNodes)[d] \subseteq {Root}
    BY <1>4, <1>7, RingsAre
  <2>2. Waits(w, Root)
    BY <1>8 DEF Waits
  <2> QED BY <1>6, <1>8, <2>1, <2>2 DEF Complete
<1> QED BY <1>4, <1>6, <1>7, <1>9, <1>10, <1>11 DEF WalkInv, WalkTypes

\* The walk looks at the next node; what the queue had before it is behind.
LEMMA FetchNodeInv == ASSUME WalkInv, FetchNode PROVE WalkInv'
<1> MaxDepth \in Nat /\ Root \in Nodes
  BY LegalGraphAssumption
<1>1. PICK w \in WalkState : w = walk
  BY DEF WalkInv, WalkTypes
<1>2. /\ w.step = "node" /\ w.queue # <<>> /\ Sorted(w) /\ Reached(w, ever) /\ Complete(w, always)
      /\ UNCHANGED <<active, edges, always, ever>>
  BY <1>1 DEF FetchNode, WalkInv
<1>3. /\ w.queue \in Seq(Nodes \X (0..MaxDepth)) /\ w.at \in Nodes \X (0..MaxDepth)
      /\ w.visited \subseteq Nodes /\ w.found \subseteq Nodes
  BY DEF WalkState
<1>4. PICK node \in Nodes, c \in 0..MaxDepth : Head(w.queue) = <<node, c>>
  <2>1. Head(w.queue) \in Nodes \X (0..MaxDepth)
    BY <1>2, <1>3
  <2> QED BY <2>1
<1>5. PICK q \in Seq(Nodes \X (0..MaxDepth)) : q = Tail(w.queue)
  <2>1. Tail(w.queue) \in Seq(Nodes \X (0..MaxDepth))
    BY <1>2, <1>3
  <2> QED BY <2>1, Zenon
<1>6. PICK found, step : /\ found = IF node \in active /\ node \in LocalNodes
                                    THEN w.found \cup {node} ELSE w.found
                         /\ step = IF node \in active /\ node \in LocalNodes /\ c < MaxDepth
                                   THEN "edges" ELSE "node"
  OBVIOUS
<1>7. PICK v : v = [w EXCEPT !.queue = q, !.found = found, !.at = <<node, c>>, !.step = step]
  OBVIOUS
<1>8. walk' = v
  <2>1. PICK h : h = Head(w.queue)
    OBVIOUS
  <2>2. h = <<node, c>> /\ h[1] = node /\ h[2] = c
    BY <1>4, <2>1
  <2>3. walk' = [w EXCEPT !.queue = Tail(w.queue),
                          !.found = IF h[1] \in active /\ h[1] \in LocalNodes THEN @ \cup {h[1]} ELSE @,
                          !.at = h,
                          !.step = IF (h[1] \in active /\ h[1] \in LocalNodes) /\ h[2] < MaxDepth
                                   THEN "edges" ELSE "node"]
    BY <1>1, <2>1, Zenon DEF FetchNode, Pop
  <2> QED BY <1>5, <1>6, <1>7, <2>2, <2>3
<1>9. v.queue = q /\ v.found = found /\ v.visited = w.visited /\ v.step = step
  BY <1>7 DEF WalkState
<1>10. v.at = <<node, c>> /\ v.at[1] = node /\ v.at[2] = c
  BY <1>7 DEF WalkState
<1>11. v \in WalkState
  <2>1. found \subseteq Nodes /\ step \in {"edges", "node"} /\ <<node, c>> \in Nodes \X (0..MaxDepth)
    BY <1>3, <1>6
  <2> QED BY <1>5, <1>7, <2>1 DEF WalkState
<1>12. /\ Len(w.queue) \in Nat /\ Len(w.queue) # 0 /\ w.queue[1] = <<node, c>>
       /\ Len(q) = Len(w.queue) - 1 /\ \A i \in 1..Len(q) : q[i] = w.queue[i + 1]
  BY <1>2, <1>3, <1>4, <1>5
<1>13. /\ 1 \in Places(w) /\ w.queue[1][1] = node /\ w.queue[1][2] = c
       /\ \A i \in Places(v) : i + 1 \in Places(w) /\ 1 < i + 1 /\ v.queue[i] = w.queue[i + 1]
       /\ \A i \in Places(w) : i # 1 => i - 1 \in Places(v) /\ v.queue[i - 1] = w.queue[i]
  BY <1>9, <1>12 DEF Places
<1>14. /\ \A i \in Places(w) : w.queue[i] \in Nodes \X (0..MaxDepth)
       /\ w.at[2] \in 0..MaxDepth
  BY <1>3 DEF Places
<1>15. \A n : Waits(w, n) <=> n = node \/ Waits(v, n)
  BY <1>13 DEF Waits
<1>16. /\ always \in SomeGraph /\ ever \in SomeGraph /\ always.active \subseteq active
       /\ active \subseteq ever.active /\ ever.active \subseteq Nodes /\ always.active \subseteq Nodes
  BY DEF WalkInv, WalkTypes, SomeGraph
<1>17. w.at[2] <= c /\ c <= w.at[2] + 1
  BY <1>2, <1>13 DEF Sorted
<1>18. Sorted(v)
  <2>1. ASSUME NEW i \in Places(v)
        PROVE  c <= v.queue[i][2] /\ v.queue[i][2] <= c + 1
    <3>1. c <= w.queue[i + 1][2] /\ w.queue[i + 1][2] <= w.at[2] + 1
      BY <1>2, <1>13 DEF Sorted
    <3>2. w.queue[i + 1][2] \in 0..MaxDepth
      BY <1>13, <1>14
    <3> QED BY <1>13, <1>14, <1>17, <3>1, <3>2
  <2>2. ASSUME NEW i \in Places(v), NEW j \in Places(v), i < j
        PROVE  v.queue[i][2] <= v.queue[j][2]
    <3>1. i + 1 < j + 1
      BY <2>2 DEF Places
    <3> QED BY <1>2, <1>13, <3>1 DEF Sorted
  <2> QED BY <1>10, <2>1, <2>2 DEF Sorted
<1>19. Reached(v, ever)
  <2>1. node \in active \cap LocalNodes =>
           /\ node \in Rings(ever, LocalNodes)[c] /\ node \in Within(ever, LocalNodes)
    <3> SUFFICES ASSUME node \in active \cap LocalNodes
                 PROVE  node \in Rings(ever, LocalNodes)[c]
      BY <1>16, RingsNest
    <3>1. CASE node = Root /\ c = 0
      BY <1>16, <3>1, RingsAre
    <3>2. CASE c # 0 /\ \E n \in Rings(ever, LocalNodes)[c - 1] : <<n, node>> \in ever.edges
      <4>1. c - 1 \in 0..MaxDepth /\ c - 1 < MaxDepth /\ (c - 1) + 1 = c
        BY <3>2
      <4> QED BY <1>16, <3>2, <4>1, NextRing
    <3> QED BY <1>2, <1>13, <3>1, <3>2 DEF Reached
  <2>2. v.step = "edges" => node \in Rings(ever, LocalNodes)[c] /\ c < MaxDepth
    BY <1>6, <1>9, <2>1
  <2>3. v.found \subseteq Within(ever, LocalNodes)
    BY <1>2, <1>6, <1>9, <2>1 DEF Reached
  <2>4. \A i \in Places(v) :
          \/ v.queue[i][1] = Root /\ v.queue[i][2] = 0
          \/ /\ v.queue[i][2] # 0
             /\ \E n \in Rings(ever, LocalNodes)[v.queue[i][2] - 1] : <<n, v.queue[i][1]>> \in ever.edges
    <3> TAKE i \in Places(v)
    <3>1. i + 1 \in Places(w) /\ v.queue[i] = w.queue[i + 1]
      BY <1>13
    <3> QED BY <1>2, <3>1 DEF Reached
  <2> QED BY <1>10, <2>2, <2>3, <2>4 DEF Reached
<1>20. Complete(v, always)
  <2> DEFINE R == Rings(always, LocalNodes)
  <2>1. \A n \in v.visited \cap always.active \cap LocalNodes : n \in v.found \/ Waits(v, n)
    BY <1>2, <1>6, <1>9, <1>15, <1>16 DEF Complete
  <2>2. \A i \in Places(v), d \in 0..MaxDepth : v.queue[i][1] \in R[d] => v.queue[i][2] <= d
    BY <1>2, <1>13 DEF Complete
  <2>3. \A d \in 0..MaxDepth : node \in R[d] => c <= d
    BY <1>2, <1>13 DEF Complete
  <2>4. \A d \in 0..MaxDepth : R[d] \subseteq always.active \cap LocalNodes
    BY <1>16, RingsNest
  <2>5. ASSUME NEW d \in 0..MaxDepth, NEW n \in v.visited, NEW m \in Nodes,
               d < MaxDepth, n \in R[d], <<n, m>> \in always.edges
        PROVE  Waits(v, n) \/ (v.step = "edges" /\ v.at[1] = n) \/ m \in v.visited
    <3>1. Waits(w, n) \/ m \in w.visited
      BY <1>2, <1>9, <2>5 DEF Complete
    <3>2. n = node => v.step = "edges"
      <4>1. n = node => c < MaxDepth
        BY <2>3, <2>5
      <4>2. n \in active /\ n \in LocalNodes
        BY <1>16, <2>4, <2>5
      <4> QED BY <1>6, <1>9, <4>1, <4>2
    <3> QED BY <1>9, <1>10, <1>15, <3>1, <3>2
  <2>6. ASSUME NEW d \in 0..MaxDepth, d <= c PROVE R[d] \subseteq v.visited
    <3>1. CASE d <= w.at[2]
      BY <1>2, <1>9, <3>1 DEF Complete
    <3>2. CASE d > w.at[2]
      <4>1. d = c /\ c = w.at[2] + 1 /\ d \in 1..MaxDepth /\ d - 1 \in 0..MaxDepth /\ d - 1 < MaxDepth
            /\ d - 1 <= w.at[2]
        BY <1>14, <1>17, <2>6, <3>2
      <4>2. R[d - 1] \subseteq w.visited
        BY <1>2, <4>1 DEF Complete
      <4>3. R[d] = Spread(always, LocalNodes, R[d - 1])
        BY <1>16, <4>1, RingsAre
      <4>4. ASSUME NEW n \in R[d - 1], NEW m \in Nodes, <<n, m>> \in always.edges
            PROVE  m \in w.visited
        <5>1. ASSUME Waits(w, n) PROVE FALSE
          <6>1. PICK i \in Places(w) : w.queue[i][1] = n
            BY <5>1 DEF Waits
          <6>2. w.queue[i][2] <= d - 1
            BY <1>2, <4>1, <6>1 DEF Complete
          <6>3. c <= w.queue[i][2]
            <7>1. i = 1 \/ 1 < i
              BY DEF Places
            <7> QED BY <1>2, <1>13, <7>1 DEF Sorted
          <6>4. w.queue[i][2] \in 0..MaxDepth
            BY <1>14
          <6> QED BY <4>1, <6>2, <6>3, <6>4
        <5>2. n \in w.visited
          BY <4>2
        <5> QED BY <1>2, <4>1, <4>4, <5>1, <5>2 DEF Complete
      <4> QED BY <1>9, <1>16, <4>2, <4>3, <4>4 DEF Spread
    <3> QED BY <1>14, <3>1, <3>2
  <2> QED BY <1>10, <2>1, <2>2, <2>5, <2>6 DEF Complete
<1>21. v.step # "idle" /\ v.step # "done"
  BY <1>6, <1>9
<1> QED BY <1>2, <1>8, <1>11, <1>18, <1>19, <1>20, <1>21 DEF WalkInv, WalkTypes

\* What the edges lead to joins the queue one deeper; all of it is then visited.
LEMMA FetchEdgesInv == ASSUME WalkInv, FetchEdges PROVE WalkInv'
<1> MaxDepth \in Nat /\ Root \in Nodes
  BY LegalGraphAssumption
<1>1. PICK w \in WalkState : w = walk
  BY DEF WalkInv, WalkTypes
<1>2. /\ w.step = "edges" /\ Sorted(w) /\ Reached(w, ever) /\ Complete(w, always)
      /\ UNCHANGED <<active, edges, always, ever>>
  BY <1>1 DEF FetchEdges, WalkInv
<1>3. /\ w.queue \in Seq(Nodes \X (0..MaxDepth)) /\ w.at \in Nodes \X (0..MaxDepth)
      /\ w.visited \subseteq Nodes /\ w.found \subseteq Nodes
  BY DEF WalkState
<1>4. PICK a \in Nodes, c \in 0..MaxDepth : w.at[1] = a /\ w.at[2] = c
  BY <1>3
<1>5. c < MaxDepth /\ c + 1 \in 0..MaxDepth /\ a \in Rings(ever, LocalNodes)[c]
  BY <1>2, <1>4 DEF Reached
<1>6. PICK targets \in SUBSET Nodes : targets = {m \in Nodes \ w.visited : <<a, m>> \in edges}
  OBVIOUS
<1>7. PICK order \in SetToSeqs(targets) :
         walk' = [w EXCEPT !.visited = @ \cup targets,
                           !.queue = @ \o [i \in DOMAIN order |-> <<order[i], c + 1>>],
                           !.step = "node"]
  <2>1. PICK T : T = {m \in Nodes \ walk.visited : <<walk.at[1], m>> \in edges}
    OBVIOUS
  <2>2. PICK order \in SetToSeqs(T) :
           walk' = [walk EXCEPT !.visited = @ \cup T,
                                !.queue = @ \o [i \in DOMAIN order |-> <<order[i], walk.at[2] + 1>>],
                                !.step = "node"]
    BY <2>1, Zenon DEF FetchEdges
  <2>3. T = targets
    BY <1>1, <1>4, <1>6, <2>1
  <2> QED BY <1>1, <1>4, <2>2, <2>3, Zenon
<1>8. order \in Seq(targets) /\ DOMAIN order = 1..Len(order)
  BY OrderNames
<1>9. \A m \in targets : \E i \in 1..Len(order) : order[i] = m
  BY OrderNames
<1>10. PICK more : more = [i \in 1..Len(order) |-> <<order[i], c + 1>>]
  OBVIOUS
<1>11. /\ Len(order) \in Nat /\ \A i \in 1..Len(order) : order[i] \in targets
       /\ more \in Seq(Nodes \X (0..MaxDepth)) /\ Len(more) = Len(order)
       /\ \A i \in 1..Len(order) : more[i][1] = order[i] /\ more[i][2] = c + 1
  <2>1. Len(order) \in Nat /\ \A i \in 1..Len(order) : order[i] \in targets
    BY <1>8
  <2>2. \A i \in 1..Len(order) : <<order[i], c + 1>> \in Nodes \X (0..MaxDepth)
    BY <1>5, <2>1
  <2>3. more \in [1..Len(order) -> Nodes \X (0..MaxDepth)]
    BY <1>10, <2>2
  <2>4. more \in Seq(Nodes \X (0..MaxDepth)) /\ Len(more) = Len(order)
    BY <2>1, <2>3
  <2> QED BY <1>10, <2>1, <2>4
<1>12. PICK q \in Seq(Nodes \X (0..MaxDepth)) : q = w.queue \o more
  <2>1. w.queue \o more \in Seq(Nodes \X (0..MaxDepth))
    BY <1>3, <1>11
  <2> QED BY <2>1, Zenon
<1>13. PICK v : v = [w EXCEPT !.visited = w.visited \cup targets, !.queue = q, !.step = "node"]
  OBVIOUS
<1>14. walk' = v
  <2>1. walk' = [w EXCEPT !.visited = @ \cup targets, !.queue = @ \o more, !.step = "node"]
    BY <1>7, <1>8, <1>10, Zenon
  <2> QED BY <1>12, <1>13, <2>1
<1>15. /\ v.queue = q /\ v.found = w.found /\ v.visited = w.visited \cup targets
       /\ v.step = "node" /\ v.at = w.at
  BY <1>13 DEF WalkState
<1>16. v \in WalkState
  <2>1. w.visited \cup targets \subseteq Nodes
    BY <1>3
  <2> QED BY <1>3, <1>12, <1>13, <2>1 DEF WalkState
<1>17. /\ Len(w.queue) \in Nat /\ Len(q) = Len(w.queue) + Len(order)
       /\ \A i \in 1..Len(w.queue) : q[i] = w.queue[i]
       /\ \A i \in 1..Len(order) : q[Len(w.queue) + i] = more[i]
  <2>1. PICK old, X : old = w.queue /\ X = Nodes \X (0..MaxDepth)
    OBVIOUS
  <2>2. old \in Seq(X) /\ more \in Seq(X) /\ q = old \o more
    BY <1>3, <1>11, <1>12, <2>1
  <2>3. /\ Len(old) \in Nat /\ Len(more) \in Nat /\ Len(q) = Len(old) + Len(more)
        /\ \A i \in 1..Len(old) : q[i] = old[i]
    BY <2>2
  <2>4. \A i \in 1..Len(more) : q[Len(old) + i] = more[i]
    BY <2>2
  <2> QED BY <1>11, <2>1, <2>3, <2>4
<1>18. \A i \in Places(w) : i \in Places(v) /\ v.queue[i] = w.queue[i]
  BY <1>11, <1>15, <1>17 DEF Places
<1>19. \A i \in Places(v) : i \in Places(w) \/ (v.queue[i][1] \in targets /\ v.queue[i][2] = c + 1)
  <2>1. ASSUME NEW i \in Places(v), i \notin Places(w)
        PROVE  v.queue[i][1] \in targets /\ v.queue[i][2] = c + 1
    <3>1. PICK k \in 1..Len(order) : i = Len(w.queue) + k
      <4>1. Places(w) = 1..Len(w.queue) /\ Places(v) = 1..(Len(w.queue) + Len(order))
        BY <1>15, <1>17 DEF Places
      <4>2. PICK l \in Nat, k \in Nat : l = Len(w.queue) /\ k = Len(order)
        BY <1>11, <1>17
      <4>3. i \in 1..(l + k) /\ i \notin 1..l
        BY <2>1, <4>1, <4>2
      <4>4. i - l \in 1..k /\ i = l + (i - l)
        BY <4>3
      <4> QED BY <4>2, <4>4
    <3>2. v.queue[i] = more[k]
      BY <1>15, <1>17, <3>1
    <3> QED BY <1>11, <3>2
  <2> QED BY <2>1
<1>20. \A m \in targets : Waits(v, m)
  <2> TAKE m \in targets
  <2>1. PICK k \in 1..Len(order) : order[k] = m
    BY <1>9
  <2>2. Len(w.queue) + k \in Places(v) /\ v.queue[Len(w.queue) + k] = more[k]
    BY <1>11, <1>15, <1>17 DEF Places
  <2>3. more[k][1] = m
    BY <1>11, <2>1
  <2> QED BY <2>2, <2>3 DEF Waits
<1>21. \A n : Waits(w, n) => Waits(v, n)
  BY <1>18 DEF Waits
<1>22. /\ always \in SomeGraph /\ ever \in SomeGraph /\ always.edges \subseteq edges
       /\ edges \subseteq ever.edges /\ ever.active \subseteq Nodes /\ always.active \subseteq Nodes
  BY DEF WalkInv, WalkTypes, SomeGraph
<1>23. \A i \in Places(w) : w.queue[i][2] \in 0..MaxDepth
  BY <1>3 DEF Places
<1>24. \A i \in Places(v) : i \in Nat
  BY <1>11, <1>15, <1>17 DEF Places
<1>25. Sorted(v)
  <2>1. ASSUME NEW i \in Places(v)
        PROVE  c <= v.queue[i][2] /\ v.queue[i][2] <= c + 1
    <3>1. CASE i \in Places(w)
      BY <1>2, <1>4, <1>18, <3>1 DEF Sorted
    <3>2. CASE i \notin Places(w)
      BY <1>19, <3>2
    <3> QED BY <3>1, <3>2
  <2>2. ASSUME NEW i \in Places(v), NEW j \in Places(v), i < j
        PROVE  v.queue[i][2] <= v.queue[j][2]
    <3>1. CASE j \in Places(w)
      <4>1. i \in Places(w)
        BY <1>24, <2>2, <3>1, <1>15, <1>17 DEF Places
      <4> QED BY <1>2, <1>18, <2>2, <3>1, <4>1 DEF Sorted
    <3>2. CASE j \notin Places(w)
      BY <1>19, <2>1, <3>2
    <3> QED BY <3>1, <3>2
  <2> QED BY <1>4, <1>15, <2>1, <2>2 DEF Sorted
<1>26. Reached(v, ever)
  <2>1. ASSUME NEW i \in Places(v)
        PROVE  \/ v.queue[i][1] = Root /\ v.queue[i][2] = 0
               \/ /\ v.queue[i][2] # 0
                  /\ \E n \in Rings(ever, LocalNodes)[v.queue[i][2] - 1] :
                        <<n, v.queue[i][1]>> \in ever.edges
    <3>1. CASE i \in Places(w)
      BY <1>2, <1>18, <3>1 DEF Reached
    <3>2. CASE i \notin Places(w)
      <4>1. v.queue[i][1] \in targets /\ v.queue[i][2] = c + 1
        BY <1>19, <3>2
      <4>2. <<a, v.queue[i][1]>> \in ever.edges
        BY <1>6, <1>22, <4>1
      <4>3. c + 1 # 0 /\ (c + 1) - 1 = c
        OBVIOUS
      <4> QED BY <1>5, <4>1, <4>2, <4>3
    <3> QED BY <3>1, <3>2
  <2> QED BY <1>2, <1>15, <2>1 DEF Reached
<1>27. Complete(v, always)
  <2> DEFINE R == Rings(always, LocalNodes)
  <2>1. \A n \in v.visited \cap always.active \cap LocalNodes : n \in v.found \/ Waits(v, n)
    BY <1>2, <1>15, <1>20, <1>21 DEF Complete
  <2>2. ASSUME NEW i \in Places(v), NEW d \in 0..MaxDepth, v.queue[i][1] \in R[d]
        PROVE  v.queue[i][2] <= d
    <3>1. CASE i \in Places(w)
      BY <1>2, <1>18, <2>2, <3>1 DEF Complete
    <3>2. CASE i \notin Places(w)
      <4>1. v.queue[i][1] \notin w.visited /\ v.queue[i][2] = c + 1
        BY <1>6, <1>19, <3>2
      <4>2. ~ (d <= c)
        BY <1>2, <1>4, <2>2, <4>1 DEF Complete
      <4> QED BY <4>1, <4>2
    <3> QED BY <3>1, <3>2
  <2>3. ASSUME NEW d \in 0..MaxDepth, d <= c PROVE R[d] \subseteq v.visited
    BY <1>2, <1>4, <1>15, <2>3 DEF Complete
  <2>4. ASSUME NEW d \in 0..MaxDepth, NEW n \in v.visited, NEW m \in Nodes,
               d < MaxDepth, n \in R[d], <<n, m>> \in always.edges
        PROVE  Waits(v, n) \/ m \in v.visited
    <3>1. CASE n \in targets
      BY <1>20, <3>1
    <3>2. CASE n \notin targets
      <4>1. n \in w.visited
        BY <1>15, <3>2
      <4>2. Waits(w, n) \/ a = n \/ m \in w.visited
        BY <1>2, <1>4, <2>4, <4>1 DEF Complete
      <4>3. a = n => m \in w.visited \/ m \in targets
        BY <1>6, <1>22, <2>4
      <4> QED BY <1>15, <1>21, <4>2, <4>3
    <3> QED BY <3>1, <3>2
  <2> QED BY <1>4, <1>15, <2>1, <2>2, <2>3, <2>4 DEF Complete
<1> QED BY <1>2, <1>14, <1>15, <1>16, <1>25, <1>26, <1>27 DEF WalkInv, WalkTypes


\* The walk is done once nothing waits.
LEMMA FinishInv == ASSUME WalkInv, FinishWalk PROVE WalkInv'
<1>1. PICK w \in WalkState : w = walk
  BY DEF WalkInv, WalkTypes
<1>2. /\ w.step = "node" /\ w.queue = <<>> /\ Sorted(w) /\ Reached(w, ever) /\ Complete(w, always)
      /\ UNCHANGED <<active, edges, always, ever>>
  BY <1>1 DEF FinishWalk, WalkInv
<1>3. PICK v : v = [w EXCEPT !.step = "done"]
  OBVIOUS
<1>4. walk' = v
  BY <1>1, <1>3 DEF FinishWalk
<1>5. /\ v \in WalkState /\ v.step = "done" /\ v.queue = w.queue /\ v.visited = w.visited
      /\ v.found = w.found /\ v.at = w.at
  BY <1>3 DEF WalkState
<1>6. Places(v) = Places(w)
  BY <1>5 DEF Places
<1>7. Sorted(v) /\ Reached(v, ever)
  BY <1>2, <1>5, <1>6 DEF Sorted, Reached
<1>8. Complete(v, always)
  BY <1>2, <1>5, <1>6 DEF Complete, Waits
<1> QED BY <1>2, <1>4, <1>5, <1>7, <1>8 DEF WalkInv, WalkTypes

\* An edit takes from what always was and adds to what ever was.
LEMMA EditInv == ASSUME WalkInv, EditGraph PROVE WalkInv'
<1>1. PICK w \in WalkState : w = walk
  BY DEF WalkInv, WalkTypes
<1>2. walk' = w
  BY <1>1 DEF EditGraph
<1>3. /\ active \subseteq Nodes /\ edges \subseteq Nodes \X Nodes
      /\ always \in SomeGraph /\ ever \in SomeGraph
      /\ always.active \subseteq active /\ active \subseteq ever.active
      /\ always.edges \subseteq edges /\ edges \subseteq ever.edges
  BY DEF WalkInv, WalkTypes
<1>4. PICK a, e : a = active' /\ e = edges'
  OBVIOUS
<1>5. a \subseteq Nodes /\ e \subseteq Nodes \X Nodes
  BY <1>3, <1>4 DEF EditGraph
<1>6. PICK g, h : g = Graph(always.active \cap a, always.edges \cap e)
                  /\ h = Graph(ever.active \cup a, ever.edges \cup e)
  OBVIOUS
<1>7. always' = g /\ ever' = h
  BY <1>4, <1>6 DEF EditGraph
<1>8. /\ g.active = always.active \cap a /\ g.edges = always.edges \cap e
      /\ h.active = ever.active \cup a /\ h.edges = ever.edges \cup e
  BY <1>6 DEF Graph
<1>9. g \in SomeGraph /\ h \in SomeGraph
  BY <1>3, <1>5, <1>6 DEF SomeGraph, Graph
<1>10. WalkTypes'
  BY <1>1, <1>2, <1>4, <1>5, <1>7, <1>8, <1>9 DEF WalkTypes
<1>11. /\ g.active \subseteq always.active /\ g.edges \subseteq always.edges
       /\ ever.active \subseteq h.active /\ ever.edges \subseteq h.edges
       /\ always.active \subseteq Nodes /\ h.active \subseteq Nodes
  BY <1>3, <1>5, <1>8 DEF SomeGraph
<1>12. \A d \in 0..MaxDepth : Rings(g, LocalNodes)[d] \subseteq Rings(always, LocalNodes)[d]
  BY <1>11, RingsGrow
<1>13. /\ \A d \in 0..MaxDepth : Rings(ever, LocalNodes)[d] \subseteq Rings(h, LocalNodes)[d]
       /\ Within(ever, LocalNodes) \subseteq Within(h, LocalNodes)
  BY <1>11, RingsGrow
<1>14. ASSUME Reached(w, ever) PROVE Reached(w, h)
  <2>1. ASSUME NEW i \in Places(w)
        PROVE  \/ w.queue[i][1] = Root /\ w.queue[i][2] = 0
               \/ /\ w.queue[i][2] # 0
                  /\ \E n \in Rings(h, LocalNodes)[w.queue[i][2] - 1] : <<n, w.queue[i][1]>> \in h.edges
    <3>1. SUFFICES ASSUME w.queue[i][2] # 0,
                          NEW n \in Rings(ever, LocalNodes)[w.queue[i][2] - 1],
                          <<n, w.queue[i][1]>> \in ever.edges
                   PROVE  n \in Rings(h, LocalNodes)[w.queue[i][2] - 1]
      BY <1>11, <1>14 DEF Reached
    <3>2. w.queue \in Seq(Nodes \X (0..MaxDepth))
      BY DEF WalkState
    <3>3. w.queue[i][2] \in 0..MaxDepth
      BY <3>2 DEF Places
    <3>4. w.queue[i][2] - 1 \in 0..MaxDepth
      BY <3>1, <3>3, LegalGraphAssumption
    <3> QED BY <1>13, <3>1, <3>4
  <2>2. w.step = "edges" => w.at[1] \in Rings(h, LocalNodes)[w.at[2]] /\ w.at[2] < MaxDepth
    <3>1. w.at[2] \in 0..MaxDepth
      BY DEF WalkState
    <3> QED BY <1>13, <1>14, <3>1 DEF Reached
  <2>3. w.found \subseteq Within(h, LocalNodes)
    BY <1>13, <1>14 DEF Reached
  <2> QED BY <2>1, <2>2, <2>3 DEF Reached
<1>15. ASSUME Complete(w, always) PROVE Complete(w, g)
  <2>1. \A n \in w.visited \cap g.active \cap LocalNodes : n \in w.found \/ Waits(w, n)
    BY <1>11, <1>15 DEF Complete
  <2>2. \A i \in Places(w), d \in 0..MaxDepth :
           w.queue[i][1] \in Rings(g, LocalNodes)[d] => w.queue[i][2] <= d
    BY <1>12, <1>15 DEF Complete
  <2>3. \A d \in 0..MaxDepth : d <= w.at[2] => Rings(g, LocalNodes)[d] \subseteq w.visited
    BY <1>12, <1>15 DEF Complete
  <2>4. \A d \in 0..MaxDepth, n \in w.visited, m \in Nodes :
           d < MaxDepth /\ n \in Rings(g, LocalNodes)[d] /\ <<n, m>> \in g.edges =>
               Waits(w, n) \/ (w.step = "edges" /\ w.at[1] = n) \/ m \in w.visited
    BY <1>11, <1>12, <1>15 DEF Complete
  <2> QED BY <2>1, <2>2, <2>3, <2>4 DEF Complete
<1> QED BY <1>1, <1>2, <1>7, <1>10, <1>14, <1>15 DEF WalkInv

\* No step of the walk, of its editors or of the readers breaks the invariant.
LEMMA WalkNextInv == WalkInv /\ [LegalGraphNext]_legalGraphVars => WalkInv'
<1> SUFFICES ASSUME WalkInv, [LegalGraphNext]_legalGraphVars PROVE WalkInv'
  OBVIOUS
<1>1. CASE StartWalk
  BY <1>1, StartInv
<1>2. CASE FetchNode
  BY <1>2, FetchNodeInv
<1>3. CASE FetchEdges
  BY <1>3, FetchEdgesInv
<1>4. CASE FinishWalk
  BY <1>4, FinishInv
<1>5. CASE EditGraph
  BY <1>5, EditInv
<1>6. CASE UNCHANGED <<active, edges, bfsVars>>
  BY <1>6 DEF WalkInv, WalkTypes, bfsVars
<1> QED BY <1>1, <1>2, <1>3, <1>4, <1>5, <1>6
        DEF LegalGraphNext, WalkStep, ChainStep, legalGraphVars

\* When the walk is done it has found every node that could be reached throughout.
LEMMA DoneFindsAll ==
    ASSUME WalkInv, walk.step = "done"
    PROVE  Within(always, LocalNodes) \subseteq walk.found
<1> MaxDepth \in Nat
  BY LegalGraphAssumption
<1>1. walk.queue = <<>> /\ Complete(walk, always)
  BY DEF WalkInv
<1>2. \A n : ~ Waits(walk, n)
  BY <1>1 DEF Waits, Places
<1>3. walk \in WalkState /\ always.active \subseteq Nodes
  BY DEF WalkInv, WalkTypes, SomeGraph
<1>4. walk.at[2] \in 0..MaxDepth
  BY <1>3 DEF WalkState
<1> DEFINE R == Rings(always, LocalNodes)
<1> DEFINE D == {d \in 0..MaxDepth : R[d] \subseteq walk.visited}
<1>5. 0 \in D
  BY <1>1, <1>4 DEF Complete
<1>6. ASSUME NEW d \in 1..MaxDepth, d - 1 \in D PROVE d \in D
  <2>1. R[d] = Spread(always, LocalNodes, R[d - 1])
    BY <1>3, RingsAre
  <2>2. d - 1 \in 0..MaxDepth /\ d - 1 < MaxDepth /\ R[d - 1] \subseteq walk.visited
    BY <1>6
  <2>3. ASSUME NEW n \in R[d - 1], NEW m \in Nodes, <<n, m>> \in always.edges
        PROVE  m \in walk.visited
    BY <1>1, <1>2, <2>2, <2>3 DEF Complete
  <2>4. Spread(always, LocalNodes, R[d - 1]) \subseteq walk.visited
    BY <1>3, <2>2, <2>3 DEF Spread
  <2>5. d \in 0..MaxDepth /\ R[d] \subseteq walk.visited
    BY <2>1, <2>4
  <2> QED BY <2>5
<1>7. 0..MaxDepth \subseteq D
  <2> HIDE DEF D
  <2> QED BY <1>5, <1>6, UpToN
<1>8. R[MaxDepth] \subseteq walk.visited
  BY <1>7
<1>9. R[MaxDepth] \subseteq always.active \cap LocalNodes
  BY <1>3, RingsNest
<1> QED BY <1>1, <1>2, <1>8, <1>9 DEF Complete, Within


-----------------------------------------------------------------------------
(* The recursive query: its simple paths end where the rings are.          *)

Further(P) ==
    P \cup UNION {{Append(p, m) : m \in {n \in active : <<Last(p), n>> \in edges /\ ~ Contains(p, n)}} :
                      p \in P}

Ends(P) == {Last(p) : p \in P}

\* Whatever a path passes is the end of one.
Passed(P) ==
    P \subseteq Seq(Nodes) /\ \A p \in P : p # <<>> /\ \A i \in 1..Len(p) : p[i] \in Ends(P)

\* One more node on each path is one more step of the rings: a node that a path
\* has already passed ends another one.
LEMMA FurtherSpreads ==
    ASSUME NEW P, Passed(P), active \subseteq Nodes
    PROVE  /\ Passed(Further(P))
           /\ Ends(Further(P)) = Spread(Graph(active, edges), Nodes, Ends(P))
<1> DEFINE Onward(p) == {n \in active : <<Last(p), n>> \in edges /\ ~ Contains(p, n)}
<1>1. ASSUME NEW p \in P
      PROVE  p \in Seq(Nodes) /\ Len(p) \in Nat /\ Len(p) > 0 /\ p # <<>>
  BY <1>1 DEF Passed
<1>2. ASSUME NEW p \in P, NEW m \in Onward(p)
      PROVE  /\ Append(p, m) \in Further(P) /\ Append(p, m) \in Seq(Nodes)
             /\ Append(p, m) # <<>> /\ Last(Append(p, m)) = m
             /\ Len(Append(p, m)) = Len(p) + 1
             /\ \A i \in 1..Len(p) : Append(p, m)[i] = p[i]
  <2>1. Append(p, m) \in Further(P)
    BY DEF Further
  <2>2. m \in Nodes /\ p \in Seq(Nodes) /\ Len(p) \in Nat
    BY <1>1
  <2>3. /\ Append(p, m) \in Seq(Nodes) /\ Len(Append(p, m)) = Len(p) + 1
        /\ Append(p, m)[Len(p) + 1] = m
        /\ \A i \in 1..Len(p) : Append(p, m)[i] = p[i]
    BY <2>2
  <2>4. Append(p, m) # <<>>
    <3>1. PICK q : q = Append(p, m)
      OBVIOUS
    <3>2. Len(q) = Len(p) + 1
      BY <2>3, <3>1
    <3>3. q # <<>>
      BY <2>2, <3>2
    <3> QED BY <3>1, <3>3
  <2> QED BY <2>1, <2>3, <2>4 DEF Last
<1>3. \A q \in Further(P) : q \in P \/ \E p \in P : \E m \in Onward(p) : q = Append(p, m)
  BY DEF Further
<1>4. P \subseteq Further(P)
  BY DEF Further
<1>5. Ends(P) \subseteq Ends(Further(P))
  BY <1>4 DEF Ends
<1>6. Passed(Further(P))
  <2>1. ASSUME NEW q \in Further(P)
        PROVE  q \in Seq(Nodes) /\ q # <<>> /\ \A i \in 1..Len(q) : q[i] \in Ends(Further(P))
    <3>1. CASE q \in P
      BY <1>5, <3>1 DEF Passed
    <3>2. CASE \E p \in P : \E m \in Onward(p) : q = Append(p, m)
      <4>0. PICK p \in P : \E m \in Onward(p) : q = Append(p, m)
        BY <3>2
      <4>1. PICK m \in Onward(p) : q = Append(p, m)
        BY <4>0
      <4>2. m \in Ends(Further(P))
        BY <1>2, <4>1 DEF Ends
      <4>3. \A i \in 1..Len(p) : p[i] \in Ends(Further(P))
        BY <1>5 DEF Passed
      <4>4. /\ q \in Seq(Nodes) /\ q # <<>> /\ Last(q) = m /\ Len(q) = Len(p) + 1
            /\ \A i \in 1..Len(p) : q[i] = p[i]
        BY <1>2, <4>1, Zenon
      <4>5. Len(p) \in Nat /\ q[Len(p) + 1] = m
        BY <1>1, <4>4 DEF Last
      <4>6. \A i \in 1..Len(q) : i \in 1..Len(p) \/ i = Len(p) + 1
        BY <4>4, <4>5
      <4> QED BY <4>2, <4>3, <4>4, <4>5, <4>6
    <3> QED BY <1>3, <3>1, <3>2
  <2> QED BY <2>1 DEF Passed
<1>7. Ends(Further(P)) = Spread(Graph(active, edges), Nodes, Ends(P))
  <2>1. PICK g : g = Graph(active, edges) /\ g.active = active /\ g.edges = edges
    <3>1. PICK g : g = Graph(active, edges)
      OBVIOUS
    <3>2. g.active = active /\ g.edges = edges
      BY <3>1 DEF Graph
    <3> QED BY <3>1, <3>2, Zenon
  <2>2. ASSUME NEW m \in Ends(Further(P)) PROVE m \in Spread(g, Nodes, Ends(P))
    <3>1. PICK q \in Further(P) : m = Last(q)
      BY DEF Ends
    <3>2. CASE q \in P
      BY <3>1, <3>2 DEF Ends, Spread
    <3>3. CASE \E p \in P : \E n \in Onward(p) : q = Append(p, n)
      <4>0. PICK p \in P : \E n \in Onward(p) : q = Append(p, n)
        BY <3>3
      <4>1. PICK n \in Onward(p) : q = Append(p, n)
        BY <4>0
      <4>2. Last(q) = n
        BY <1>2, <4>1, Zenon
      <4>3. Last(p) \in Ends(P)
        BY DEF Ends
      <4> QED BY <2>1, <3>1, <4>2, <4>3 DEF Spread
    <3> QED BY <1>3, <3>2, <3>3
  <2>3. ASSUME NEW m \in Spread(g, Nodes, Ends(P)) PROVE m \in Ends(Further(P))
    <3>1. CASE m \in Ends(P)
      BY <1>5, <3>1
    <3>2. CASE m \in active /\ \E n \in Ends(P) : <<n, m>> \in edges
      <4>1. PICK p \in P : <<Last(p), m>> \in edges
        BY <3>2 DEF Ends
      <4>2. CASE Contains(p, m)
        <5>1. PICK i \in 1..Len(p) : p[i] = m
          BY <4>2 DEF Contains
        <5> QED BY <1>5, <5>1 DEF Passed
      <4>3. CASE ~ Contains(p, m)
        <5>1. m \in Onward(p)
          BY <3>2, <4>1, <4>3
        <5>2. Append(p, m) \in Further(P) /\ Last(Append(p, m)) = m
          BY <1>2, <5>1
        <5> QED BY <5>2 DEF Ends
      <4> QED BY <4>2, <4>3
    <3> QED BY <2>1, <3>1, <3>2 DEF Spread
  <2> QED BY <2>1, <2>2, <2>3
<1> QED BY <1>6, <1>7


FirstPaths == {<<n>> : n \in {Root} \cap active \cap LocalNodes}

\* The paths are what their recursion says.
LEMMA PathsAre ==
    ASSUME active \subseteq Nodes
    PROVE  /\ PathsUpTo[0] = FirstPaths
           /\ \A d \in 1..MaxDepth : PathsUpTo[d] = Further(PathsUpTo[d - 1])
<1> DEFINE X == SUBSET Seq(Nodes)
<1>1. PICK F : F = [P \in X |-> Further(P)]
  OBVIOUS
<1>2. F \in [X -> X]
  <2>1. ASSUME NEW P \in X PROVE Further(P) \in X
    <3>1. ASSUME NEW p \in P, NEW m \in active PROVE Append(p, m) \in Seq(Nodes)
      <4>1. p \in Seq(Nodes) /\ m \in Nodes
        OBVIOUS
      <4> QED BY <4>1
    <3>2. PICK S : S = Seq(Nodes)
      OBVIOUS
    <3>3. \A q \in Further(P) : q \in P \/ \E p \in P : \E m \in active : q = Append(p, m)
      BY DEF Further
    <3>4. \A p \in P : p \in S /\ \A m \in active : Append(p, m) \in S
      BY <3>1, <3>2
    <3>5. Further(P) \subseteq S
      BY <3>3, <3>4
    <3> QED BY <3>2, <3>5
  <2> HIDE DEF X
  <2> QED BY <1>1, <2>1
<1>3. FirstPaths \in X
  <2>1. ASSUME NEW n \in {Root} \cap active \cap LocalNodes PROVE <<n>> \in Seq(Nodes)
    <3>1. n \in Nodes
      OBVIOUS
    <3> QED BY <3>1
  <2> QED BY <2>1 DEF FirstPaths
<1> MaxDepth \in Nat
  BY LegalGraphAssumption
<1>4. PICK r \in [0..MaxDepth -> X] : r[0] = FirstPaths /\ \A d \in 1..MaxDepth : r[d] = F[r[d - 1]]
  <2>1. PICK Y, a : Y = X /\ a = FirstPaths
    OBVIOUS
  <2>2. a \in Y /\ F \in [Y -> Y]
    BY <1>2, <1>3, <2>1, Zenon
  <2>3. PICK r : Iterates(Y, a, F, MaxDepth, r)
    BY <2>2, Iterated
  <2>4. Iterates(X, FirstPaths, F, MaxDepth, r)
    BY <2>1, <2>3, Zenon
  <2> HIDE DEF X
  <2> QED BY <2>4, Zenon DEF Iterates
<1> DEFINE eq(f) == f = [d \in 0..MaxDepth |->
                           IF d = 0 THEN {<<n>> : n \in {Root} \cap active \cap LocalNodes}
                           ELSE f[d - 1] \cup
                                UNION {{Append(p, m) : m \in {n \in active : <<Last(p), n>> \in edges
                                                                             /\ ~ Contains(p, n)}} :
                                          p \in f[d - 1]}]
<1>5. eq(r)
  <2>1. r = [d \in 0..MaxDepth |-> IF d = 0 THEN FirstPaths ELSE Further(r[d - 1])]
    <3>1. \A d \in 1..MaxDepth : d - 1 \in 0..MaxDepth
      OBVIOUS
    <3>2. \A d \in 0..MaxDepth : d # 0 => d \in 1..MaxDepth
      OBVIOUS
    <3>3. \A d \in 1..MaxDepth : r[d] = Further(r[d - 1])
      <4> HIDE DEF X
      <4> QED BY <1>1, <1>4, <3>1
    <3> HIDE DEF X
    <3> QED BY <1>4, <3>2, <3>3
  <2> QED BY <2>1, Zenon DEF Further, FirstPaths
<1>6. eq(PathsUpTo)
  BY <1>5 DEF PathsUpTo
<1>7. PICK P : P = PathsUpTo
  OBVIOUS
<1>8. P = [d \in 0..MaxDepth |-> IF d = 0 THEN FirstPaths ELSE Further(P[d - 1])]
  BY <1>6, <1>7, Zenon DEF Further, FirstPaths
<1>9. 0 \in 0..MaxDepth /\ \A d \in 1..MaxDepth : d \in 0..MaxDepth /\ d # 0
  OBVIOUS
<1> HIDE DEF eq, X
<1>10. P[0] = FirstPaths /\ \A d \in 1..MaxDepth : P[d] = Further(P[d - 1])
  BY <1>8, <1>9
<1> QED BY <1>7, <1>10, Zenon

\* The recursive query reaches what can be reached from a root of the
\* jurisdiction, wherever that lies.
LEMMA PathsReach ==
    ASSUME active \subseteq Nodes
    PROVE  {Last(p) : p \in Paths} = Within(Graph(active, edges), Nodes)
<1> MaxDepth \in Nat /\ Root \in LocalNodes /\ Root \in Nodes
  BY LegalGraphAssumption
<1>1. PICK P : /\ P = PathsUpTo /\ P[0] = FirstPaths
               /\ \A d \in 1..MaxDepth : P[d] = Further(P[d - 1])
  BY PathsAre, Zenon
<1>2. PICK g : g = Graph(active, edges)
  OBVIOUS
<1>3. g.active = active /\ g.edges = edges
  BY <1>2 DEF Graph
<1>4. PICK R : /\ R = Rings(g, Nodes) /\ R[0] = {Root} \cap active \cap Nodes
               /\ \A d \in 1..MaxDepth : R[d] = Spread(g, Nodes, R[d - 1])
  BY <1>3, RingsAre
<1> DEFINE D == {d \in 0..MaxDepth : Passed(P[d]) /\ Ends(P[d]) = R[d]}
<1>5. 0 \in D
  <2>1. \A p \in FirstPaths : p = <<Root>> /\ Root \in active
    BY DEF FirstPaths
  <2>2. Root \in active => <<Root>> \in FirstPaths
    BY DEF FirstPaths
  <2>3. PICK root : root = <<Root>>
    OBVIOUS
  <2>4. root \in Seq(Nodes) /\ Len(root) = 1 /\ root[1] = Root /\ root # <<>> /\ 1..1 = {1}
    BY <2>3
  <2>5. Last(root) = Root
    BY <2>4 DEF Last
  <2>6. Ends(FirstPaths) = {Root} \cap active \cap Nodes
    <3>1. \A p \in FirstPaths : Last(p) = Root /\ Root \in active
      BY <2>1, <2>3, <2>5
    <3>2. Root \in active => root \in FirstPaths /\ Last(root) = Root
      BY <2>2, <2>3, <2>5
    <3> QED BY <3>1, <3>2 DEF Ends
  <2>7. Passed(FirstPaths)
    <3>1. \A p \in FirstPaths : p = root /\ Root \in Ends(FirstPaths)
      BY <2>1, <2>3, <2>6
    <3> QED BY <2>4, <3>1 DEF Passed
  <2> QED BY <1>1, <1>4, <2>6, <2>7
<1>6. ASSUME NEW d \in 1..MaxDepth, d - 1 \in D PROVE d \in D
  <2>1. Passed(P[d - 1]) /\ Ends(P[d - 1]) = R[d - 1]
    BY <1>6
  <2>2. Passed(Further(P[d - 1])) /\ Ends(Further(P[d - 1])) = Spread(g, Nodes, R[d - 1])
    BY <1>2, <2>1, FurtherSpreads
  <2>3. d \in 0..MaxDepth /\ P[d] = Further(P[d - 1]) /\ R[d] = Spread(g, Nodes, R[d - 1])
    BY <1>1, <1>4
  <2> QED BY <2>2, <2>3
<1>7. 0..MaxDepth \subseteq D
  <2> HIDE DEF D
  <2> QED BY <1>5, <1>6, UpToN
<1>8. Ends(P[MaxDepth]) = R[MaxDepth]
  BY <1>7
<1> QED BY <1>1, <1>2, <1>4, <1>8, Zenon DEF Ends, Paths, Within

\* A walk that is done has met every ring and nothing outside the rings.
LEMMA WalkInvExact == WalkInv => TraversalExact
<1> SUFFICES ASSUME WalkInv, walk.step = "done"
             PROVE  /\ Within(always, LocalNodes) \subseteq walk.found
                    /\ walk.found \subseteq Within(ever, LocalNodes)
                    /\ always = ever /\ graphUp =>
                          /\ walk.found \subseteq build_legal_path
                          /\ build_legal_path = Within(ever, Nodes)
  BY DEF TraversalExact
<1>1. walk.found \subseteq Within(ever, LocalNodes)
  BY DEF WalkInv, Reached
<1>2. ASSUME always = ever, graphUp
      PROVE  walk.found \subseteq build_legal_path /\ build_legal_path = Within(ever, Nodes)
  <2>1. active \subseteq Nodes
    BY DEF WalkInv, WalkTypes
  <2>2. ever = Graph(active, edges)
    <3>1. ever \in SomeGraph /\ ever.active = active /\ ever.edges = edges
      BY <1>2 DEF WalkInv, WalkTypes
    <3> QED BY <3>1 DEF SomeGraph, Graph
  <2>3. build_legal_path = Within(ever, Nodes)
    BY <1>2, <2>1, <2>2, PathsReach DEF build_legal_path
  <2>4. ever.active \subseteq Nodes /\ LocalNodes \subseteq Nodes
    BY LegalGraphAssumption DEF WalkInv, WalkTypes, SomeGraph
  <2>5. Within(ever, LocalNodes) \subseteq Within(ever, Nodes)
    BY <2>4, RingsGrow
  <2> QED BY <1>1, <2>3, <2>5
<1> QED BY <1>1, <1>2, DoneFindsAll

\* The breadth-first walk, whatever edits fall between its statements, finds all
\* that could be reached throughout and nothing that never could; unedited, it and
\* the recursive query agree.
THEOREM TraversalStaysExact == LegalGraphSpec => []TraversalExact
<1>1. LegalGraphInit => WalkInv
  BY WalkInitInv
<1>2. WalkInv /\ [LegalGraphNext]_legalGraphVars => WalkInv'
  BY WalkNextInv
<1>3. WalkInv => TraversalExact
  BY WalkInvExact
<1> QED BY <1>1, <1>2, <1>3, PTL DEF LegalGraphSpec

\* Both: what the two engines answer about the graph can be relied on, whatever is
\* edited, cached or out of order meanwhile (legal_graph.py, graphrag_traversal.py,
\* graph_engine.py).
THEOREM GraphAnswersStayHonest == LegalGraphSpec => []GraphAnswersHonest
<1>1. TraversalExact /\ ChainsHonest => GraphAnswersHonest
  BY DEF GraphAnswersHonest
<1> QED BY <1>1, TraversalStaysExact, ChainsStayHonest, PTL

-----------------------------------------------------------------------------

(***************************************************************************)
(* The count and the state of the breaker agree, for any number of         *)
(* threads, any fail_max and any reset timeout: between its two critical   *)
(* sections a call holds nothing, so results are booked in every order.    *)
(***************************************************************************)

(* Count and types are inductive together: the booking of a failure needs  *)
(* the count's range, and the count's range needs nothing of the state.    *)
Inv == TypeOK /\ CountMatchesState

(* A thread that books a success leaves a closed breaker with no failures. *)
LEMMA SuccessCloses ==
    ASSUME Inv, _on_success
    PROVE  /\ state' \in States /\ fail_count' \in 0..FailMax /\ open_age' \in 0..ResetTimeout
           /\ CountMatchesState'
    BY BreakerAssumption DEF Inv, TypeOK, _on_success, CountMatchesState, States

(* A thread that books a failure leaves at least one counted, and a closed *)
(* breaker only below the limit.                                           *)
LEMMA FailureCounts ==
    ASSUME Inv, _on_failure
    PROVE  /\ state' \in States /\ fail_count' \in 0..FailMax /\ open_age' \in 0..ResetTimeout
           /\ CountMatchesState'
<1>1. fail_count \in 0..FailMax /\ state \in States /\ open_age \in 0..ResetTimeout
    BY DEF Inv, TypeOK
<1>2. fail_count' = Smaller(fail_count + 1, FailMax)
    BY DEF _on_failure
<1>3. fail_count' \in 1..FailMax
    BY <1>1, <1>2, BreakerAssumption DEF Smaller
<1>4. CASE state = "half_open" \/ fail_count' >= FailMax
    <2>1. state' = "open" /\ open_age' = 0
        BY <1>4 DEF _on_failure
    <2> QED  BY <2>1, <1>3, BreakerAssumption DEF CountMatchesState, States
<1>5. CASE ~(state = "half_open" \/ fail_count' >= FailMax)
    <2>1. state' = state /\ open_age' = open_age
        BY <1>5 DEF _on_failure
    <2> QED  BY <2>1, <1>1, <1>3, <1>5, BreakerAssumption DEF CountMatchesState
<1> QED  BY <1>4, <1>5

(* A due transition to HALF_OPEN keeps the count in agreement: an open     *)
(* breaker has counted a failure, and so has one on trial.                 *)
LEMMA ResolvedAgrees ==
    ASSUME Inv, state' = _state_locked, fail_count' = fail_count
    PROVE  state' \in States /\ CountMatchesState'
    BY DEF Inv, TypeOK, CountMatchesState, _state_locked, States

(* Every step of a thread, of the model and of the clock preserves Inv.    *)
LEMMA StepKeepsInv ==
    ASSUME Inv, [Next]_vars
    PROVE  Inv'
<1>0. TypeOK /\ CountMatchesState
    BY DEF Inv
<1>1. CASE ReadState
    BY <1>0, <1>1, ResolvedAgrees DEF Inv, TypeOK, ReadState
<1>2. ASSUME NEW c \in Callers, RejectPii(c)
      PROVE  Inv'
    BY <1>0, <1>2 DEF Inv, TypeOK, CountMatchesState, RejectPii, Replies
<1>3. ASSUME NEW c \in Callers, admit(c)
      PROVE  Inv'
    <2>1. state' = _state_locked /\ UNCHANGED <<fail_count, open_age, up>>
        BY <1>3 DEF admit
    <2>2. state' \in States /\ CountMatchesState'
        BY <2>1, ResolvedAgrees
    <2>3. met' \in [Callers -> SUBSET BOOLEAN]
        BY <1>0, <1>3 DEF TypeOK, admit
    <2>4. reply' \in [Callers -> Replies]
        BY <1>0, <1>3 DEF TypeOK, admit, Replies
    <2> QED  BY <1>0, <2>1, <2>2, <2>3, <2>4 DEF Inv, TypeOK
<1>4. ASSUME NEW c \in Callers, settle(c)
      PROVE  Inv'
    <2>1. up' = up /\ met' = [met EXCEPT ![c] = {}]
        BY <1>4 DEF settle
    <2>2. met' \in [Callers -> SUBSET BOOLEAN]
        BY <1>0, <2>1 DEF TypeOK
    <2>3. \E r \in Replies : reply' = [reply EXCEPT ![c] = r]
        BY <1>4 DEF settle, Replies
    <2>4. reply' \in [Callers -> Replies]
        BY <1>0, <2>3 DEF TypeOK
    <2>5. _on_success \/ _on_failure
        BY <1>4 DEF settle
    <2>6. /\ state' \in States /\ fail_count' \in 0..FailMax /\ open_age' \in 0..ResetTimeout
          /\ CountMatchesState'
        BY <2>5, SuccessCloses, FailureCounts
    <2> QED  BY <1>0, <2>1, <2>2, <2>4, <2>6 DEF Inv, TypeOK
<1>5. CASE ModelChanges
    <2>1. UNCHANGED <<state, fail_count, open_age, reply>> /\ up' \in BOOLEAN
        BY <1>0, <1>5 DEF ModelChanges, TypeOK
    <2>2. met' \in [Callers -> SUBSET BOOLEAN]
        BY <1>0, <1>5, <2>1 DEF ModelChanges, TypeOK
    <2> QED  BY <1>0, <2>1, <2>2 DEF Inv, TypeOK, CountMatchesState
<1>6. CASE Tick
    BY <1>0, <1>6, BreakerAssumption DEF Inv, TypeOK, CountMatchesState, Tick
<1>7. CASE UNCHANGED vars
    BY <1>0, <1>7 DEF Inv, TypeOK, CountMatchesState, vars
<1> QED  BY <1>1, <1>2, <1>3, <1>4, <1>5, <1>6, <1>7 DEF Next

(* A closed breaker has counted fewer than fail_max failures and any other *)
(* at least one, whatever the order in which threads book their results.   *)
THEOREM Counting == Spec => []CountMatchesState
<1>1. Init => Inv
    BY BreakerAssumption DEF Init, Inv, TypeOK, CountMatchesState, States, Replies
<1>2. Inv /\ [Next]_vars => Inv'
    BY StepKeepsInv
<1>3. Inv => CountMatchesState
    BY DEF Inv
<1> QED  BY <1>1, <1>2, <1>3, PTL DEF Spec

(* The state, the count, the age and every thread's record keep their      *)
(* types: the saturating counters never leave their ranges.                *)
THEOREM BreakerTypes == Spec => []TypeOK
<1>1. Init => Inv
    BY BreakerAssumption DEF Init, Inv, TypeOK, CountMatchesState, States, Replies
<1>2. Inv /\ [Next]_vars => Inv'
    BY StepKeepsInv
<1>3. Inv => TypeOK
    BY DEF Inv
<1> QED  BY <1>1, <1>2, <1>3, PTL DEF Spec

(***************************************************************************)
(* The rules table, for any set of dates: whichever of the five writers    *)
(* have run, in whatever order and however often, a row in force says what *)
(* the law of the day is, and no later writer takes a figure back.         *)
(*                                                                         *)
(* The invariant states the law once, as functions of the day, and asks    *)
(* that every row be correct with respect to it and that a key, once it    *)
(* has a figure, have one on every later day (Trusty); that only settled   *)
(* statuses stand on law in force; and that a deployed table keep the      *)
(* verified row of 1996 on which the jurisdiction rests (Anchored).        *)
(***************************************************************************)

(* What the law is.                                                        *)

OrderKeys == {"weeks_pay_cap_amount", "compensatory_cap_amount", "basic_award_min_automatic"}

\* The year of a limits order runs from 6 April to 5 April.
EndOf(key, from) ==
    IF key \in OrderKeys /\ from < 20260406 THEN from + 9999 ELSE Open

WeeksPay(d) ==
    IF d < 20220406 THEN "544" ELSE IF d < 20230406 THEN "571" ELSE IF d < 20240406 THEN "643"
    ELSE IF d < 20250406 THEN "700" ELSE IF d < 20260406 THEN "719" ELSE "751"
Award(d) ==
    IF d < 20220406 THEN "89493" ELSE IF d < 20230406 THEN "93878"
    ELSE IF d < 20240406 THEN "105707" ELSE IF d < 20250406 THEN "115115"
    ELSE IF d < 20260406 THEN "118223" ELSE "123543"
Minimum(d) ==
    IF d < 20220406 THEN "6634" ELSE IF d < 20230406 THEN "6959" ELSE IF d < 20240406 THEN "7836"
    ELSE IF d < 20260406 THEN "8533" ELSE "9157"

\* The figures that have not changed since they began.
Lasting(key) ==
    CASE key = "qualifying_period" -> "two_years"
      [] key = "time_limit_months" -> "3"
      [] key = "early_conciliation_required" -> "true"
      [] key = "compensatory_cap_weeks_pay" -> "52"
      [] key = "basic_award_formula" -> "s.119"
      [] key = "ec_max_duration_weeks" -> "12"
      [] key = "wages.time_limit_months" -> "3"
      [] key = "wages.qualifying_period_years" -> "none"
      [] key = "wages.worker_status" -> "worker"
      [] key = "wages.series_deductions_note" -> "last_deduction"
      [] key = "wages.remedy_basis" -> "gross"
      [] key = "acas_code_adjustment_percent" -> "25"
      [] key = "not_reasonably_practicable_extension" -> "reasonable_period"

\* The figure of a key on a day on which it has one.
Law(key, d) ==
    IF key = "weeks_pay_cap_amount" THEN WeeksPay(d)
    ELSE IF key = "compensatory_cap_amount" THEN Award(d)
    ELSE IF key = "basic_award_min_automatic" THEN Minimum(d)
    ELSE Lasting(key)

\* The dates from which each figure that is not yet law is to be.
Announced == {<<"qualifying_period", 20270101>>, <<"time_limit_months", 20261001>>,
              <<"compensatory_cap_amount", 20270101>>}

\* A row that says what the law is, and how long.
Correct(r) ==
    /\ r.from \in 19960822..Open /\ r.to = EndOf(r.key, r.from)
    /\ r.prospective \in BOOLEAN
    /\ r.prospective <=> <<r.key, r.from>> \in Announced
    /\ ~ r.prospective => \A d \in r.from .. r.to : r.value = Law(r.key, d)

\* Once a key has a figure it has one for good.
Covering(R) ==
    \A r \in R, d \in Nat :
        ~ r.prospective /\ r.from <= d /\ d <= Open => \E u \in R : u.key = r.key /\ InForce(u, d)

RowsOf(T) == {t.row : t \in T}
Trusty(R) == (\A r \in R : Correct(r)) /\ Covering(R)

(* Writing.                                                                *)

\* Two correct rows of one key and date are in force on the same days.
LEMMA SameDays ==
    ASSUME NEW r, NEW u, Correct(r), Correct(u), r.key = u.key, r.from = u.from
    PROVE  \A d \in Nat : InForce(r, d) <=> InForce(u, d)
  BY DEF Correct, InForce

\* Rows put over those of the same key and date keep the table correct and covering.
LEMMA UpsertTrusty ==
    ASSUME NEW T, NEW W, Trusty(RowsOf(T)), \A r \in RowsOf(W) : Correct(r),
           Covering(RowsOf(T) \cup RowsOf(W))
    PROVE  /\ Trusty(RowsOf(upsert_rule(T, W)))
           /\ \A r \in RowsOf(T), d \in Nat : InForce(r, d) =>
                 \E u \in RowsOf(upsert_rule(T, W)) : u.key = r.key /\ InForce(u, d)
<1> DEFINE U == upsert_rule(T, W)
<1>1. W \subseteq U /\ \A t \in T : t \in U \/ \E w \in W : Clash(t, w)
  BY DEF upsert_rule
<1>2. U \subseteq T \cup W
  BY DEF upsert_rule
<1> HIDE DEF U
<1>3. \A r \in RowsOf(U) : Correct(r)
  BY <1>2 DEF RowsOf, Trusty
<1>4. ASSUME NEW r \in RowsOf(T), NEW d \in Nat, InForce(r, d)
      PROVE  \E u \in RowsOf(U) : u.key = r.key /\ InForce(u, d)
  <2>1. PICK t \in T : r = t.row
    BY DEF RowsOf
  <2>2. CASE t \in U
    BY <1>4, <2>1, <2>2 DEF RowsOf
  <2>3. CASE \E w \in W : Clash(t, w)
    <3>1. PICK w \in W : Clash(t, w)
      BY <2>3
    <3>2. w.row \in RowsOf(W) /\ w.row \in RowsOf(U)
      BY <1>1, <3>1 DEF RowsOf
    <3>3. Correct(r) /\ Correct(w.row) /\ w.row.key = r.key /\ w.row.from = r.from
      BY <2>1, <3>1, <3>2 DEF Trusty, Clash
    <3>4. InForce(w.row, d)
      BY <1>4, <3>3, SameDays
    <3> QED BY <3>2, <3>3, <3>4
  <2> QED BY <1>1, <2>2, <2>3
<1>5. Covering(RowsOf(U))
  <2> SUFFICES ASSUME NEW r \in RowsOf(U), NEW d \in Nat, ~ r.prospective, r.from <= d, d <= Open
               PROVE  \E u \in RowsOf(U) : u.key = r.key /\ InForce(u, d)
    BY DEF Covering
  <2>1. r \in RowsOf(T) \cup RowsOf(W)
    BY <1>2 DEF RowsOf
  <2>2. PICK u \in RowsOf(T) \cup RowsOf(W) : u.key = r.key /\ InForce(u, d)
    BY <2>1 DEF Covering
  <2>3. CASE u \in RowsOf(W)
    BY <1>1, <2>2, <2>3 DEF RowsOf
  <2>4. CASE u \in RowsOf(T)
    BY <1>4, <2>2, <2>4
  <2> QED BY <2>2, <2>3, <2>4
<1> QED BY <1>3, <1>4, <1>5 DEF Trusty, U

\* So do rows put beside those that are there, which may stand in for them.
LEMMA InsertTrusty ==
    ASSUME NEW T, NEW W, Trusty(RowsOf(T)), Trusty(RowsOf(W))
    PROVE  /\ Trusty(RowsOf(InsertMissing(T, W)))
           /\ RowsOf(T) \subseteq RowsOf(InsertMissing(T, W))
           /\ \A r \in RowsOf(W), d \in Nat : InForce(r, d) =>
                 \E u \in RowsOf(InsertMissing(T, W)) : u.key = r.key /\ InForce(u, d)
<1> DEFINE U == InsertMissing(T, W)
<1>1. T \subseteq U /\ \A w \in W : w \in U \/ \E t \in T : Clash(t, w)
  BY DEF InsertMissing
<1>2. U \subseteq T \cup W
  BY DEF InsertMissing
<1> HIDE DEF U
<1>3. \A r \in RowsOf(U) : Correct(r)
  BY <1>2 DEF RowsOf, Trusty
<1>4. RowsOf(T) \subseteq RowsOf(U)
  BY <1>1 DEF RowsOf
<1>5. ASSUME NEW r \in RowsOf(W), NEW d \in Nat, InForce(r, d)
      PROVE  \E u \in RowsOf(U) : u.key = r.key /\ InForce(u, d)
  <2>1. PICK w \in W : r = w.row
    BY DEF RowsOf
  <2>2. CASE w \in U
    BY <1>5, <2>1, <2>2 DEF RowsOf
  <2>3. CASE \E t \in T : Clash(t, w)
    <3>1. PICK t \in T : Clash(t, w)
      BY <2>3
    <3>2. t.row \in RowsOf(T) /\ t.row \in RowsOf(U)
      BY <1>1, <3>1 DEF RowsOf
    <3>3. Correct(r) /\ Correct(t.row) /\ t.row.key = r.key /\ t.row.from = r.from
      BY <2>1, <3>1, <3>2 DEF Trusty, Clash
    <3>4. InForce(t.row, d)
      BY <1>5, <3>3, SameDays
    <3> QED BY <3>2, <3>3, <3>4
  <2> QED BY <1>1, <2>2, <2>3
<1>6. Covering(RowsOf(U))
  <2> SUFFICES ASSUME NEW r \in RowsOf(U), NEW d \in Nat, ~ r.prospective, r.from <= d, d <= Open
               PROVE  \E u \in RowsOf(U) : u.key = r.key /\ InForce(u, d)
    BY DEF Covering
  <2>1. CASE r \in RowsOf(W)
    <3>1. PICK u \in RowsOf(W) : u.key = r.key /\ InForce(u, d)
      BY <2>1 DEF Trusty, Covering
    <3> QED BY <1>5, <3>1
  <2>2. CASE r \in RowsOf(T)
    <3>1. PICK u \in RowsOf(T) : u.key = r.key /\ InForce(u, d)
      BY <2>2 DEF Trusty, Covering
    <3> QED BY <1>4, <3>1
  <2>3. r \in RowsOf(T) \/ r \in RowsOf(W)
    BY <1>2 DEF RowsOf
  <2> QED BY <2>1, <2>2, <2>3
<1> QED BY <1>3, <1>4, <1>5, <1>6 DEF Trusty, U

\* Two lists that cover their keys cover them together.
LEMMA CoveringJoins ==
    ASSUME NEW A, NEW B, Covering(A), Covering(B)
    PROVE  Covering(A \cup B)
  BY DEF Covering

\* And are as correct together as apart.
LEMMA TrustyJoins ==
    ASSUME NEW A, NEW B, Trusty(A), Trusty(B)
    PROVE  Trusty(A \cup B)
  BY CoveringJoins DEF Trusty

\* No row of the law begins before the Employment Rights Act does.
LEMMA DatesInRange ==
    ASSUME NEW r, Correct(r)
    PROVE  r.from \in Nat /\ 19960822 <= r.from /\ r.from <= Open /\ Open \in Nat
<1>1. r.from \in 19960822..Open
  BY DEF Correct
<1>2. Open \in Nat
  BY SMT DEF Open
<1> QED BY <1>1, <1>2, SMT

\* Of some numbers up to d one is the greatest.
LEMMA GreatestBelow ==
    ASSUME NEW d \in Nat, NEW S, S # {}, S \subseteq 0..d
    PROVE  \E m \in S : \A n \in S : n <= m
<1> DEFINE D == {x \in Nat : d - x \in S}
<1>1. PICK s \in S : TRUE
  OBVIOUS
<1>2. d - s \in Nat /\ d - (d - s) = s
  BY <1>1
<1>3. D \subseteq Nat /\ D # {}
  BY <1>1, <1>2
<1>4. PICK x \in D : \A y \in D : ~ <<y, x>> \in OpToRel(<, Nat)
  <2> HIDE DEF D
  <2> QED BY <1>3, NatLessThanWellFounded, WFMin
<1>5. ASSUME NEW n \in S, n > d - x PROVE FALSE
  <2>0. n \in 0..d
    OBVIOUS
  <2>1. x \in Nat /\ d - n \in Nat /\ d - n < x /\ d - (d - n) = n
    BY <1>5, <2>0
  <2>2. d - n \in D
    BY <2>1
  <2>3. PICK p : p = <<d - n, x>>
    OBVIOUS
  <2>4. p \in Nat \X Nat /\ p[1] < p[2]
    BY <2>1, <2>3
  <2>5. p \in OpToRel(<, Nat)
    BY <2>4 DEF OpToRel
  <2> QED BY <1>4, <2>2, <2>3, <2>5
<1>6. d - x \in S /\ x \in Nat
  OBVIOUS
<1> QED BY <1>5, <1>6

\* A row of one year that the row of the next year follows.
Followed(R) ==
    \A r \in R : EndOf(r.key, r.from) # Open =>
        \E u \in R : u.key = r.key /\ ~ u.prospective /\ u.from = r.from + 10000

\* Where every row that ends is followed by the next year's, nothing is left uncovered.
LEMMA FollowedCovers ==
    ASSUME NEW R, \A r \in R : Correct(r), Followed(R)
    PROVE  Trusty(R)
<1> SUFFICES ASSUME NEW r \in R, NEW d \in Nat, ~ r.prospective, r.from <= d, d <= Open
             PROVE  \E u \in R : u.key = r.key /\ InForce(u, d)
  BY DEF Trusty, Covering
<1> DEFINE C == {u \in R : u.key = r.key /\ ~ u.prospective /\ u.from <= d}
           S == {u.from : u \in C}
<1>1. r \in C
  OBVIOUS
<1>2. ASSUME NEW u \in C PROVE u.from \in 0..d
  <2>1. Correct(u) /\ u.from <= d
    OBVIOUS
  <2>2. u.from \in Nat
    BY <2>1, DatesInRange
  <2> QED BY <2>1, <2>2
<1>3. S # {} /\ S \subseteq 0..d
  BY <1>1, <1>2
<1>4. PICK m \in S : \A n \in S : n <= m
  <2> HIDE DEF S
  <2> QED BY <1>3, GreatestBelow
<1>5. PICK u \in C : u.from = m
  OBVIOUS
<1>7. u \in R /\ u.key = r.key /\ ~ u.prospective /\ u.from <= d
  OBVIOUS
<1>6. d <= u.to
  <2> SUFFICES ASSUME ~ d <= u.to PROVE FALSE
    OBVIOUS
  <2>1. Correct(u) /\ u.from \in 19960822..Open /\ u.to = EndOf(u.key, u.from)
    BY <1>5 DEF Correct
  <2>2. u.to # Open /\ u.to = u.from + 9999
    BY <2>1 DEF EndOf
  <2>6. EndOf(u.key, u.from) # Open
    BY <2>1, <2>2
  <2>3. PICK v \in R : v.key = u.key /\ ~ v.prospective /\ v.from = u.from + 10000
    BY <1>7, <2>6 DEF Followed
  <2>4. v.from <= d /\ v.from > m
    <3>1. u.from \in 0..d
      BY <1>2
    <3> QED BY <1>5, <2>2, <2>3, <3>1
  <2>5. v \in C
    BY <1>5, <2>3, <2>4
  <2>7. v.from \in S /\ v.from \in 0..d /\ m \in 0..d
    BY <1>2, <1>5, <2>5
  <2>8. v.from <= m
    BY <1>4, <2>7
  <2> QED BY <2>4, <2>7, <2>8
<1> QED BY <1>6, <1>7 DEF InForce

-----------------------------------------------------------------------------
(* The rows the writers know.                                              *)

\* No date of the rows is near the open end.
LEMMA OpenIsFar == Open \in Int /\ 20300000 <= Open
  BY SMT DEF Open

\* What a row is made of.
LEMMA RowFields ==
    ASSUME NEW key, NEW from, NEW to, NEW value
    PROVE  /\ Row(key, from, to, value).key = key /\ Row(key, from, to, value).from = from
           /\ Row(key, from, to, value).to = to /\ Row(key, from, to, value).value = value
           /\ ~ Row(key, from, to, value).prospective
           /\ Row(key, from, to, value).prospective \in BOOLEAN
  BY DEF Row

\* What an announced row is made of.
LEMMA ProspectiveFields ==
    ASSUME NEW key, NEW from, NEW value
    PROVE  /\ Prospective(key, from, value).key = key /\ Prospective(key, from, value).from = from
           /\ Prospective(key, from, value).to = Open
           /\ Prospective(key, from, value).prospective
           /\ Prospective(key, from, value).prospective \in BOOLEAN
  BY DEF Prospective, Row

\* A row without an end covers all that comes after it.
Endless(r) == Correct(r) /\ EndOf(r.key, r.from) = Open

\* Rows without an end need nobody to follow them.
LEMMA EndlessTrusty ==
    ASSUME NEW R, \A r \in R : Endless(r)
    PROVE  Trusty(R)
  BY FollowedCovers DEF Followed, Endless

\* A figure that has not changed is a row without an end.
LEMMA EndlessRow ==
    ASSUME NEW key, NEW from \in Int, 19960822 <= from, from <= 20300000,
           key \notin OrderKeys, <<key, from>> \notin Announced
    PROVE  Endless(Row(key, from, Open, Lasting(key)))
<1>1. EndOf(key, from) = Open
  BY DEF EndOf
<1>2. PICK r : r = Row(key, from, Open, Lasting(key))
  OBVIOUS
<1>3. r.key = key /\ r.from = from /\ r.to = Open /\ r.value = Lasting(key) /\ ~ r.prospective
      /\ r.prospective \in BOOLEAN
  BY <1>2, RowFields
<1>4. \A d : Law(key, d) = Lasting(key)
  BY DEF Law, OrderKeys
<1>5. from \in 19960822..Open
  BY OpenIsFar, SMT
<1> QED BY <1>1, <1>2, <1>3, <1>4, <1>5 DEF Correct, Endless

\* So is one that is only announced.
LEMMA AnnouncedRow ==
    ASSUME NEW key, NEW from \in Int, 20260406 <= from, from <= 20300000, NEW value,
           <<key, from>> \in Announced
    PROVE  Endless(Prospective(key, from, value))
<1>1. EndOf(key, from) = Open
  BY SMT DEF EndOf
<1>2. PICK r : r = Prospective(key, from, value)
  OBVIOUS
<1>3. r.key = key /\ r.from = from /\ r.to = Open /\ r.prospective /\ r.prospective \in BOOLEAN
  BY <1>2, ProspectiveFields
<1>4. from \in 19960822..Open
  BY OpenIsFar, SMT
<1> QED BY <1>1, <1>2, <1>3, <1>4 DEF Correct, Endless

\* The row of a limits order.
Year(key, y) ==
    Row(key, y * 10000 + 406, EndOf(key, y * 10000 + 406), Law(key, y * 10000 + 406))

\* The row of an order says what the law of its year is.
LEMMA YearRow ==
    ASSUME NEW key \in OrderKeys, NEW y \in 2021..2026
    PROVE  /\ Correct(Year(key, y)) /\ ~ Year(key, y).prospective
           /\ Year(key, y).key = key /\ Year(key, y).from = y * 10000 + 406
           /\ EndOf(key, y * 10000 + 406) = IF y = 2026 THEN Open ELSE y * 10000 + 10405
<1> DEFINE from == y * 10000 + 406
<1>years. y \in {2021, 2022, 2023, 2024, 2025, 2026}
  BY SMT
<1>1. from \in 19960822..Open /\ (y = 2026 \/ from < 20260406) /\ (y = 2026 => from = 20260406)
  <2>1. from \in Int /\ 19960822 <= from /\ from <= Open /\ Open \in Int
    BY <1>years, SMT DEF Open
  <2>2. (y = 2026 \/ from < 20260406) /\ (y = 2026 => from = 20260406)
    BY <1>years, SMT
  <2> HIDE DEF from
  <2> QED BY <2>1, <2>2, SMT
<1>2. EndOf(key, from) = IF y = 2026 THEN Open ELSE y * 10000 + 10405
  BY <1>1, SMT DEF EndOf
<1>3. <<key, from>> \notin Announced
  BY <1>1, SMT DEF Announced, OrderKeys
<1>4. \A d \in from .. EndOf(key, from) : Law(key, from) = Law(key, d)
  <2>2. \A d \in from .. EndOf(key, from) : WeeksPay(from) = WeeksPay(d)
    BY <1>2, <1>years, SMT DEF WeeksPay
  <2>3. \A d \in from .. EndOf(key, from) : Award(from) = Award(d)
    BY <1>2, <1>years, SMT DEF Award
  <2>4. \A d \in from .. EndOf(key, from) : Minimum(from) = Minimum(d)
    BY <1>2, <1>years, SMT DEF Minimum
  <2>5. CASE key = "weeks_pay_cap_amount"
    BY <2>2, <2>5, SMT DEF Law
  <2>6. CASE key = "compensatory_cap_amount"
    BY <2>3, <2>6, SMT DEF Law
  <2>7. CASE key = "basic_award_min_automatic"
    BY <2>4, <2>7, SMT DEF Law
  <2> QED BY <2>5, <2>6, <2>7 DEF OrderKeys
<1>5. PICK r : r = Year(key, y)
  OBVIOUS
<1>6. r.key = key /\ r.from = from /\ r.to = EndOf(key, from) /\ r.value = Law(key, from)
      /\ ~ r.prospective /\ r.prospective \in BOOLEAN
  BY <1>5, RowFields DEF Year
<1> HIDE DEF from
<1>7. Correct(r)
  BY <1>1, <1>3, <1>4, <1>6 DEF Correct
<1> QED BY <1>2, <1>5, <1>6, <1>7 DEF from

\* The orders of a key since a year.
Years(key, a) == {Year(key, y) : y \in a..2026}

\* The orders from any year on follow each other to the last.
LEMMA YearsTrusty ==
    ASSUME NEW key \in OrderKeys, NEW a \in 2021..2026
    PROVE  Trusty(Years(key, a))
<1>1. \A y \in a..2026 : y \in 2021..2026
  BY SMT
<1>2. \A r \in Years(key, a) : Correct(r)
  BY <1>1, YearRow DEF Years
<1>3. Followed(Years(key, a))
  <2> SUFFICES ASSUME NEW y \in a..2026, EndOf(Year(key, y).key, Year(key, y).from) # Open
               PROVE  \E u \in Years(key, a) : /\ u.key = Year(key, y).key /\ ~ u.prospective
                                               /\ u.from = Year(key, y).from + 10000
    BY DEF Followed, Years
  <2>1. y \in 2021..2026 /\ y # 2026
    BY <1>1, YearRow
  <2>2. y + 1 \in 2021..2026 /\ y + 1 \in a..2026 /\ (y + 1) * 10000 + 406 = y * 10000 + 406 + 10000
    BY <2>1, SMT
  <2>3. Year(key, y + 1) \in Years(key, a)
    BY <2>2 DEF Years
  <2>4. /\ Year(key, y + 1).key = key /\ ~ Year(key, y + 1).prospective
        /\ Year(key, y + 1).from = (y + 1) * 10000 + 406
        /\ Year(key, y).key = key /\ Year(key, y).from = y * 10000 + 406
    BY <2>1, <2>2, YearRow
  <2> QED BY <2>2, <2>3, <2>4
<1> QED BY <1>2, <1>3, FollowedCovers

\* The figures that have not changed since they began, and those only announced.
LastingRows ==
    {Row("qualifying_period", 20120406, Open, "two_years"),
     Row("time_limit_months", 19960822, Open, "3"),
     Row("early_conciliation_required", 20140506, Open, "true"),
     Row("early_conciliation_required", 20140406, Open, "true"),
     Row("compensatory_cap_weeks_pay", 20130729, Open, "52"),
     Row("basic_award_formula", 19960822, Open, "s.119"),
     Row("ec_max_duration_weeks", 20251201, Open, "12"),
     Row("wages.time_limit_months", 19960822, Open, "3"),
     Row("wages.qualifying_period_years", 19960822, Open, "none"),
     Row("wages.worker_status", 19960822, Open, "worker"),
     Row("wages.series_deductions_note", 20150130, Open, "last_deduction"),
     Row("wages.remedy_basis", 19960822, Open, "gross"),
     Row("acas_code_adjustment_percent", 20090406, Open, "25"),
     Row("not_reasonably_practicable_extension", 19960822, Open, "reasonable_period"),
     Prospective("qualifying_period", 20270101, "six_months"),
     Prospective("time_limit_months", 20261001, "6"),
     Prospective("compensatory_cap_amount", 20270101, "uncapped"),
     Prospective("compensatory_cap_amount", 20270101, "omitted")}

\* None of these rows ends.
LEMMA LastingRowsTrusty ==
    \A r \in LastingRows : Endless(r)
<1>1. Endless(Row("qualifying_period", 20120406, Open, "two_years"))
  BY EndlessRow, SMT DEF Lasting, OrderKeys, Announced
<1>2. Endless(Row("time_limit_months", 19960822, Open, "3"))
  BY EndlessRow, SMT DEF Lasting, OrderKeys, Announced
<1>3. Endless(Row("early_conciliation_required", 20140506, Open, "true"))
  BY EndlessRow, SMT DEF Lasting, OrderKeys, Announced
<1>4. Endless(Row("early_conciliation_required", 20140406, Open, "true"))
  BY EndlessRow, SMT DEF Lasting, OrderKeys, Announced
<1>5. Endless(Row("compensatory_cap_weeks_pay", 20130729, Open, "52"))
  BY EndlessRow, SMT DEF Lasting, OrderKeys, Announced
<1>6. Endless(Row("basic_award_formula", 19960822, Open, "s.119"))
  BY EndlessRow, SMT DEF Lasting, OrderKeys, Announced
<1>7. Endless(Row("ec_max_duration_weeks", 20251201, Open, "12"))
  BY EndlessRow, SMT DEF Lasting, OrderKeys, Announced
<1>8. Endless(Row("wages.time_limit_months", 19960822, Open, "3"))
  BY EndlessRow, SMT DEF Lasting, OrderKeys, Announced
<1>9. Endless(Row("wages.qualifying_period_years", 19960822, Open, "none"))
  BY EndlessRow, SMT DEF Lasting, OrderKeys, Announced
<1>10. Endless(Row("wages.worker_status", 19960822, Open, "worker"))
  BY EndlessRow, SMT DEF Lasting, OrderKeys, Announced
<1>11. Endless(Row("wages.series_deductions_note", 20150130, Open, "last_deduction"))
  BY EndlessRow, SMT DEF Lasting, OrderKeys, Announced
<1>12. Endless(Row("wages.remedy_basis", 19960822, Open, "gross"))
  BY EndlessRow, SMT DEF Lasting, OrderKeys, Announced
<1>13. Endless(Row("acas_code_adjustment_percent", 20090406, Open, "25"))
  BY EndlessRow, SMT DEF Lasting, OrderKeys, Announced
<1>14. Endless(Row("not_reasonably_practicable_extension", 19960822, Open, "reasonable_period"))
  BY EndlessRow, SMT DEF Lasting, OrderKeys, Announced
<1>15. Endless(Prospective("qualifying_period", 20270101, "six_months"))
  BY AnnouncedRow, SMT DEF Announced
<1>16. Endless(Prospective("time_limit_months", 20261001, "6"))
  BY AnnouncedRow, SMT DEF Announced
<1>17. Endless(Prospective("compensatory_cap_amount", 20270101, "uncapped"))
  BY AnnouncedRow, SMT DEF Announced
<1>18. Endless(Prospective("compensatory_cap_amount", 20270101, "omitted"))
  BY AnnouncedRow, SMT DEF Announced
<1> QED
  BY <1>1, <1>2, <1>3, <1>4, <1>5, <1>6, <1>7, <1>8, <1>9, <1>10, <1>11, <1>12, <1>13, <1>14, <1>15, <1>16, <1>17, <1>18, SMT DEF LastingRows

\* Every year a key has had an order for is the one row of the key and date.
LEMMA YearsAre ==
    /\ Years("weeks_pay_cap_amount", 2024) =
          {Row("weeks_pay_cap_amount", 20240406, 20250405, "700"),
           Row("weeks_pay_cap_amount", 20250406, 20260405, "719"),
           Row("weeks_pay_cap_amount", 20260406, Open, "751")}
    /\ Years("weeks_pay_cap_amount", 2025) =
          {Row("weeks_pay_cap_amount", 20250406, 20260405, "719"),
           Row("weeks_pay_cap_amount", 20260406, Open, "751")}
    /\ Years("compensatory_cap_amount", 2024) =
          {Row("compensatory_cap_amount", 20240406, 20250405, "115115"),
           Row("compensatory_cap_amount", 20250406, 20260405, "118223"),
           Row("compensatory_cap_amount", 20260406, Open, "123543")}
    /\ Years("compensatory_cap_amount", 2025) =
          {Row("compensatory_cap_amount", 20250406, 20260405, "118223"),
           Row("compensatory_cap_amount", 20260406, Open, "123543")}
    /\ Years("basic_award_min_automatic", 2026) =
          {Row("basic_award_min_automatic", 20260406, Open, "9157")}
<1>1. /\ Year("weeks_pay_cap_amount", 2024) = Row("weeks_pay_cap_amount", 20240406, 20250405, "700")
      /\ Year("weeks_pay_cap_amount", 2025) = Row("weeks_pay_cap_amount", 20250406, 20260405, "719")
      /\ Year("weeks_pay_cap_amount", 2026) = Row("weeks_pay_cap_amount", 20260406, Open, "751")
  BY SMT DEF Year, EndOf, OrderKeys, Law, WeeksPay
<1>2. /\ Year("compensatory_cap_amount", 2024) = Row("compensatory_cap_amount", 20240406, 20250405, "115115")
      /\ Year("compensatory_cap_amount", 2025) = Row("compensatory_cap_amount", 20250406, 20260405, "118223")
      /\ Year("compensatory_cap_amount", 2026) = Row("compensatory_cap_amount", 20260406, Open, "123543")
  BY SMT DEF Year, EndOf, OrderKeys, Law, Award
<1>3. Year("basic_award_min_automatic", 2026) = Row("basic_award_min_automatic", 20260406, Open, "9157")
  BY SMT DEF Year, EndOf, OrderKeys, Law, Minimum
<1>4. 2024..2026 = {2024, 2025, 2026} /\ 2025..2026 = {2025, 2026} /\ 2026..2026 = {2026}
  BY SMT
<1>5. \A key : /\ Years(key, 2024) = {Year(key, 2024), Year(key, 2025), Year(key, 2026)}
               /\ Years(key, 2025) = {Year(key, 2025), Year(key, 2026)}
               /\ Years(key, 2026) = {Year(key, 2026)}
  BY <1>4, SMT DEF Years
<1> QED BY <1>1, <1>2, <1>3, <1>5, SMT

\* The runs of orders that the scripts carry.
LEMMA YearsOfOrders ==
    /\ Trusty(Years("weeks_pay_cap_amount", 2024)) /\ Trusty(Years("weeks_pay_cap_amount", 2025))
    /\ Trusty(Years("compensatory_cap_amount", 2024))
    /\ Trusty(Years("compensatory_cap_amount", 2025))
    /\ Trusty(Years("basic_award_min_automatic", 2026))
<1>1. 2024 \in 2021..2026 /\ 2025 \in 2021..2026 /\ 2026 \in 2021..2026
  BY SMT
<1> QED BY <1>1, YearsTrusty, SMT DEF OrderKeys

\* Any choice of the lasting rows is correct and covering.
LEMMA LastingTrusty ==
    ASSUME NEW R \in SUBSET LastingRows
    PROVE  Trusty(R)
  BY LastingRowsTrusty, EndlessTrusty

\* What ingestion/rules/seed.py writes.
LEMMA SeedTrusty == Trusty(SeedLimits \cup SeedCaps \cup SeedAwards)
<1> DEFINE A == {Prospective("compensatory_cap_amount", 20270101, "uncapped"),
                 Row("compensatory_cap_weeks_pay", 20130729, Open, "52")}
           B == {Row("basic_award_formula", 19960822, Open, "s.119"),
                 Row("ec_max_duration_weeks", 20251201, Open, "12")}
<1>1. SeedLimits \in SUBSET LastingRows
  BY SMT DEF SeedLimits, LastingRows
<1>2. A \in SUBSET LastingRows
  BY SMT DEF LastingRows
<1>3. B \in SUBSET LastingRows
  BY SMT DEF LastingRows
<1>4. SeedCaps = A \cup Years("compensatory_cap_amount", 2025)
  BY YearsAre, SMT DEF SeedCaps
<1>5. SeedAwards = (B \cup Years("weeks_pay_cap_amount", 2025)) \cup Years("basic_award_min_automatic", 2026)
  BY YearsAre, SMT DEF SeedAwards
<1> HIDE DEF A, B
<1>6. Trusty(SeedLimits) /\ Trusty(A) /\ Trusty(B)
  BY <1>1, <1>2, <1>3, LastingTrusty
<1>7. Trusty(SeedCaps)
  BY <1>4, <1>6, YearsOfOrders, TrustyJoins
<1>8. Trusty(B \cup Years("weeks_pay_cap_amount", 2025))
  BY <1>6, YearsOfOrders, TrustyJoins
<1>9. Trusty(SeedAwards)
  BY <1>5, <1>8, YearsOfOrders, TrustyJoins
<1>10. Trusty(SeedLimits \cup SeedCaps)
  BY <1>6, <1>7, TrustyJoins
<1> QED BY <1>9, <1>10, TrustyJoins

\* What seed_unfair_dismissal.py writes.
LEMMA CanonicalTrusty ==
    /\ Trusty(CanonicalLimits) /\ Trusty(CanonicalCaps) /\ Trusty(CanonicalAwards)
    /\ Trusty(CanonicalLimits \cup CanonicalCaps \cup CanonicalAwards)
<1> DEFINE A == {Prospective("compensatory_cap_amount", 20270101, "omitted"),
                 Row("compensatory_cap_weeks_pay", 20130729, Open, "52"),
                 Row("basic_award_formula", 19960822, Open, "s.119"),
                 Row("ec_max_duration_weeks", 20251201, Open, "12")}
<1>1. CanonicalLimits \in SUBSET LastingRows
  BY SMT DEF CanonicalLimits, LastingRows
<1>2. A \in SUBSET LastingRows
  BY SMT DEF LastingRows
<1>3. CanonicalCaps = Years("weeks_pay_cap_amount", 2024) \cup Years("compensatory_cap_amount", 2024)
  BY YearsAre, SMT DEF CanonicalCaps
<1>4. CanonicalAwards = A \cup Years("basic_award_min_automatic", 2026)
  BY YearsAre, SMT DEF CanonicalAwards
<1> HIDE DEF A
<1>5. Trusty(CanonicalLimits) /\ Trusty(A)
  BY <1>1, <1>2, LastingTrusty
<1>6. Trusty(CanonicalCaps)
  BY <1>3, YearsOfOrders, TrustyJoins
<1>7. Trusty(CanonicalAwards)
  BY <1>4, <1>5, YearsOfOrders, TrustyJoins
<1>8. Trusty(CanonicalLimits \cup CanonicalCaps)
  BY <1>5, <1>6, TrustyJoins
<1> QED BY <1>5, <1>6, <1>7, <1>8, TrustyJoins

\* What seed_unpaid_wages.py writes.
LEMMA WagesTrusty == Trusty(WagesRows)
<1>1. WagesRows \in SUBSET LastingRows
  BY SMT DEF WagesRows, LastingRows
<1> QED BY <1>1, LastingTrusty

\* What seed_limits_orders.py writes.
LEMMA OrdersTrusty == Trusty(OrderRows)
<1> DEFINE A == Years("weeks_pay_cap_amount", 2021)
           B == Years("compensatory_cap_amount", 2021)
           C == Years("basic_award_min_automatic", 2021)
<1>1. 2021 \in 2021..2026
  BY SMT
<1>2. Trusty(A) /\ Trusty(B) /\ Trusty(C)
  BY <1>1, YearsTrusty, SMT DEF OrderKeys
<1>3. DOMAIN LIMITS_ORDERS = 1..6 /\ 1..6 = {1, 2, 3, 4, 5, 6}
  BY SMT DEF LIMITS_ORDERS
<1>4. ASSUME NEW i \in 1..6
      PROVE  LET from == LIMITS_ORDERS[i].year * 10000 + 406 IN
             /\ LIMITS_ORDERS[i].year = 2020 + i
             /\ Row("weeks_pay_cap_amount", from, OrderEnds(i), LIMITS_ORDERS[i].pay)
                   = Year("weeks_pay_cap_amount", 2020 + i)
             /\ Row("compensatory_cap_amount", from, OrderEnds(i), LIMITS_ORDERS[i].award)
                   = Year("compensatory_cap_amount", 2020 + i)
             /\ Row("basic_award_min_automatic", from, OrderEnds(i), LIMITS_ORDERS[i].min)
                   = Year("basic_award_min_automatic", 2020 + i)
  <2>1. i \in {1, 2, 3, 4, 5, 6}
    BY <1>3, <1>4
  <2>2. /\ LIMITS_ORDERS[i].year = 2020 + i
        /\ OrderEnds(i) = EndOf("weeks_pay_cap_amount", (2020 + i) * 10000 + 406)
        /\ OrderEnds(i) = EndOf("compensatory_cap_amount", (2020 + i) * 10000 + 406)
        /\ OrderEnds(i) = EndOf("basic_award_min_automatic", (2020 + i) * 10000 + 406)
    BY <2>1, SMT DEF LIMITS_ORDERS, OrderEnds, EndOf, OrderKeys
  <2>3. /\ LIMITS_ORDERS[i].pay = WeeksPay((2020 + i) * 10000 + 406)
        /\ LIMITS_ORDERS[i].award = Award((2020 + i) * 10000 + 406)
        /\ LIMITS_ORDERS[i].min = Minimum((2020 + i) * 10000 + 406)
    BY <2>1, SMT DEF LIMITS_ORDERS, WeeksPay, Award, Minimum
  <2> QED BY <2>2, <2>3, SMT DEF Year, Law
<1>5. \A i \in 1..6 : 2020 + i \in 2021..2026
  BY SMT
<1>6. \A y \in 2021..2026 : \E i \in 1..6 : y = 2020 + i
  <2> SUFFICES ASSUME NEW y \in 2021..2026 PROVE \E i \in 1..6 : y = 2020 + i
    OBVIOUS
  <2>1. y - 2020 \in 1..6 /\ y = 2020 + (y - 2020)
    BY SMT
  <2> QED BY <2>1
<1>7. OrderRows = (A \cup B) \cup C
  BY <1>3, <1>4, <1>5, <1>6, SMT DEF OrderRows, Years
<1> HIDE DEF A, B, C
<1> QED BY <1>2, <1>7, TrustyJoins

-----------------------------------------------------------------------------
(* Reading.                                                                *)

\* retrieve_rules, of any table.
RulesIn(T, day) ==
    {t.row : t \in {u \in T : /\ InForce(u.row, day)
                              /\ \A w \in T : InForce(w.row, day) /\ w.row.key = u.row.key
                                    => w.row.from <= u.row.from}}
FiguresIn(T, day) == {<<r.key, r.value>> : r \in RulesIn(T, day)}
KeysIn(T, day) == {r.key : r \in RulesIn(T, day)}

\* A row in force says what the law of the day is.
LEMMA InForceIsLaw ==
    ASSUME NEW r, Correct(r), NEW d \in Nat, InForce(r, d)
    PROVE  r.value = Law(r.key, d)
<1>1. ~ r.prospective /\ r.from <= d /\ d <= r.to
  BY DEF InForce
<1>2. r.from \in Nat
  BY DatesInRange
<1>3. r.to \in Int
  BY <1>2, OpenIsFar DEF Correct, EndOf
<1>4. d \in r.from .. r.to
  BY <1>1, <1>2, <1>3
<1> QED BY <1>1, <1>4 DEF Correct

\* Of the rows of a key that are in force one is the newest.
LEMMA NewestRow ==
    ASSUME NEW T, Trusty(RowsOf(T)), NEW d \in Nat, NEW r \in RowsOf(T), InForce(r, d)
    PROVE  \E u \in RulesIn(T, d) : u.key = r.key
<1> DEFINE C == {t \in T : InForce(t.row, d) /\ t.row.key = r.key}
           S == {t.row.from : t \in C}
<1>1. \E t \in C : t.row = r
  BY DEF RowsOf
<1>2. ASSUME NEW t \in C PROVE t.row.from \in 0..d
  <2>1. Correct(t.row) /\ t.row.from <= d
    BY DEF RowsOf, Trusty, InForce
  <2>2. t.row.from \in Nat
    BY <2>1, DatesInRange
  <2> QED BY <2>1, <2>2
<1>3. S # {} /\ S \subseteq 0..d
  BY <1>1, <1>2
<1>4. PICK m \in S : \A n \in S : n <= m
  <2> HIDE DEF S
  <2> QED BY <1>3, GreatestBelow
<1>5. PICK t \in C : t.row.from = m
  OBVIOUS
<1>6. t.row \in RulesIn(T, d)
  <2>1. t \in T /\ InForce(t.row, d)
    OBVIOUS
  <2>2. ASSUME NEW w \in T, InForce(w.row, d), w.row.key = t.row.key PROVE w.row.from <= t.row.from
    <3>1. w \in C
      BY <2>2
    <3> QED BY <1>4, <1>5, <3>1
  <2> QED BY <2>1, <2>2 DEF RulesIn
<1> QED BY <1>5, <1>6

\* What retrieve_rules answers is the law of the day, for the keys with a row in force.
LEMMA FiguresAreLaw ==
    ASSUME NEW T, Trusty(RowsOf(T)), NEW d \in Nat
    PROVE  /\ \A x : x \in FiguresIn(T, d) <=>
                       \E r \in RowsOf(T) : InForce(r, d) /\ x = <<r.key, Law(r.key, d)>>
           /\ \A k : k \in KeysIn(T, d) <=> \E r \in RowsOf(T) : InForce(r, d) /\ k = r.key
<1>1. ASSUME NEW u \in RulesIn(T, d)
      PROVE  u \in RowsOf(T) /\ InForce(u, d) /\ u.value = Law(u.key, d)
  <2>1. u \in RowsOf(T) /\ InForce(u, d)
    BY DEF RulesIn, RowsOf
  <2> QED BY <2>1, InForceIsLaw DEF Trusty
<1>2. \A r \in RowsOf(T) : InForce(r, d) => \E u \in RulesIn(T, d) : u.key = r.key
  BY NewestRow
<1>3. ASSUME NEW x PROVE x \in FiguresIn(T, d) <=>
                       \E r \in RowsOf(T) : InForce(r, d) /\ x = <<r.key, Law(r.key, d)>>
  <2>1. ASSUME x \in FiguresIn(T, d)
        PROVE  \E r \in RowsOf(T) : InForce(r, d) /\ x = <<r.key, Law(r.key, d)>>
    <3>1. PICK u \in RulesIn(T, d) : x = <<u.key, u.value>>
      BY <2>1 DEF FiguresIn
    <3> QED BY <1>1, <3>1
  <2>2. ASSUME NEW r \in RowsOf(T), InForce(r, d), x = <<r.key, Law(r.key, d)>>
        PROVE  x \in FiguresIn(T, d)
    <3>1. PICK u \in RulesIn(T, d) : u.key = r.key
      BY <1>2, <2>2
    <3>2. x = <<u.key, u.value>>
      BY <1>1, <2>2, <3>1
    <3> QED BY <3>2 DEF FiguresIn
  <2> QED BY <2>1, <2>2
<1>4. ASSUME NEW k PROVE k \in KeysIn(T, d) <=> \E r \in RowsOf(T) : InForce(r, d) /\ k = r.key
  BY <1>1, <1>2 DEF KeysIn
<1> QED BY <1>3, <1>4

\* Whatever had a figure on a day has one in the new table.
Grows(T, U) ==
    \A r \in RowsOf(T), d \in Nat : InForce(r, d) =>
        \E u \in RowsOf(U) : u.key = r.key /\ InForce(u, d)

\* A table that grows answers with the same figures, and perhaps with more.
LEMMA GrownFigures ==
    ASSUME NEW T, NEW U, Trusty(RowsOf(T)), Trusty(RowsOf(U)), Grows(T, U), NEW d \in Nat
    PROVE  FiguresIn(T, d) \subseteq FiguresIn(U, d)
<1> SUFFICES ASSUME NEW x \in FiguresIn(T, d) PROVE x \in FiguresIn(U, d)
  OBVIOUS
<1>1. PICK r \in RowsOf(T) : InForce(r, d) /\ x = <<r.key, Law(r.key, d)>>
  BY FiguresAreLaw
<1>2. PICK u \in RowsOf(U) : u.key = r.key /\ InForce(u, d)
  BY <1>1 DEF Grows
<1>3. x = <<u.key, Law(u.key, d)>>
  BY <1>1, <1>2
<1> QED BY <1>2, <1>3, FiguresAreLaw

\* A key with figures on two days has one between them.
LEMMA NoGap ==
    ASSUME NEW T, Trusty(RowsOf(T)), NEW d \in 0..Open, NEW e \in 0..Open, NEW f \in 0..Open,
           d < e, e < f
    PROVE  KeysIn(T, d) \cap KeysIn(T, f) \subseteq KeysIn(T, e)
<1> SUFFICES ASSUME NEW k \in KeysIn(T, d) PROVE k \in KeysIn(T, e)
  OBVIOUS
<1>1. d \in Nat /\ e \in Nat /\ e <= Open
  BY OpenIsFar
<1>2. PICK r \in RowsOf(T) : InForce(r, d) /\ k = r.key
  BY <1>1, FiguresAreLaw
<1>3. r.from \in Nat /\ r.from <= d /\ ~ r.prospective
  BY <1>2, DatesInRange DEF Trusty, InForce
<1>4. r.from <= e
  BY <1>1, <1>3
<1>5. PICK u \in RowsOf(T) : u.key = r.key /\ InForce(u, e)
  BY <1>1, <1>3, <1>4 DEF Trusty, Covering
<1> QED BY <1>1, <1>2, <1>5, FiguresAreLaw

-----------------------------------------------------------------------------
(* The table as the writers leave it.                                      *)

Settled == {"none", "verified_against_official_source", "verified", "case_law_verified",
            "prospective"}
Anchor == Row("not_reasonably_practicable_extension", 19960822, Open, "reasonable_period")
Anchored(T) == \E t \in T : t.row = Anchor /\ t.status = "verified"

\* The keys that only the migrations write.
Backfilled == {"acas_code_adjustment_percent", "not_reasonably_practicable_extension"}
IsDeployed(T) == \E t \in T : t.row.key = "acas_code_adjustment_percent"

\* An entry is a row with its verification status.
Entry(t) == t = [row |-> t.row, status |-> t.status]

TableSound(T) ==
    /\ \A t \in T : Entry(t)
    /\ Trusty(RowsOf(T))
    /\ \A t \in T : t.row.prospective \/ t.status \in Settled
    /\ IsDeployed(T) => Anchored(T)

RuleTableInv == TableSound(ruleRows) /\ ruleDay \in Days

\* No script writes the row that the jurisdiction rests on.
LEMMA AnchorKey == Anchor.key \in Backfilled
  BY RowFields DEF Anchor, Backfilled

\* A script that writes its own rows over those of the same key and date.
LEMMA ScriptSound ==
    ASSUME NEW T, TableSound(T), NEW W, Trusty(RowsOf(W)),
           \A w \in W : Entry(w),
           \A w \in W : w.row.key \notin Backfilled /\ (w.row.prospective \/ w.status \in Settled)
    PROVE  /\ TableSound(upsert_rule(T, W)) /\ Grows(T, upsert_rule(T, W))
           /\ Anchored(T) => Anchored(upsert_rule(T, W))
<1> DEFINE U == upsert_rule(T, W)
<1>1. U = {t \in T : ~ \E u \in W : Clash(t, u)} \cup W
  BY DEF upsert_rule
<1>2. Covering(RowsOf(T) \cup RowsOf(W))
  BY CoveringJoins DEF TableSound, Trusty
<1>3. Trusty(RowsOf(U)) /\ Grows(T, U)
  BY <1>2, UpsertTrusty DEF TableSound, Trusty, Grows
<1> HIDE DEF U
<1>4. \A t \in U : t.row.prospective \/ t.status \in Settled
  BY <1>1 DEF TableSound
<1>5. ASSUME Anchored(T) PROVE Anchored(U)
  <2>1. PICK t \in T : t.row = Anchor /\ t.status = "verified"
    BY <1>5 DEF Anchored
  <2>2. ~ \E u \in W : Clash(t, u)
    BY <2>1, AnchorKey DEF Clash
  <2> QED BY <1>1, <2>1, <2>2 DEF Anchored
<1>7. IsDeployed(U) => IsDeployed(T)
  BY <1>1 DEF IsDeployed, Backfilled
<1>6. \A t \in U : Entry(t)
  BY <1>1 DEF TableSound
<1> QED BY <1>3, <1>4, <1>5, <1>6, <1>7 DEF TableSound, U

-----------------------------------------------------------------------------
(* The five writers.                                                       *)

\* Rows of the keys that the scripts write too.
Common(X) == Trusty(X) /\ \A r \in X : r.key \notin Backfilled

\* The rows of a list of entries.
LEMMA RowsAre ==
    ASSUME NEW X, NEW W, \A w \in W : w.row \in X, \A r \in X : \E w \in W : w.row = r
    PROVE  RowsOf(W) = X
  BY DEF RowsOf

\* A writer puts a status to each of its rows, and leaves the rows as they are.
LEMMA RowsWith ==
    ASSUME NEW X
    PROVE  /\ RowsOf(With(X, Unverified)) = X /\ RowsOf(With(X, Official)) = X
           /\ RowsOf(With(X, Listed)) = X /\ RowsOf(With(X, NeedsCheck)) = X
<1>1. RowsOf(With(X, Unverified)) = X
  <2>1. \A w \in With(X, Unverified) : w.row \in X
    BY DEF With, Unverified
  <2>2. ASSUME NEW r \in X PROVE \E w \in With(X, Unverified) : w.row = r
    <3> DEFINE w == [row |-> r, status |-> Unverified(r)]
    <3>1. w.row = r
      OBVIOUS
    <3>2. w \in With(X, Unverified)
      BY DEF With
    <3> HIDE DEF w
    <3> QED BY <3>1, <3>2
  <2>3. PICK W : W = With(X, Unverified)
    OBVIOUS
  <2> QED BY <2>1, <2>2, <2>3, RowsAre
<1>2. RowsOf(With(X, Official)) = X
  <2>1. \A w \in With(X, Official) : w.row \in X
    BY DEF With, Official
  <2>2. ASSUME NEW r \in X PROVE \E w \in With(X, Official) : w.row = r
    <3> DEFINE w == [row |-> r, status |-> Official(r)]
    <3>1. w.row = r
      OBVIOUS
    <3>2. w \in With(X, Official)
      BY DEF With
    <3> HIDE DEF w
    <3> QED BY <3>1, <3>2
  <2>3. PICK W : W = With(X, Official)
    OBVIOUS
  <2> QED BY <2>1, <2>2, <2>3, RowsAre
<1>3. RowsOf(With(X, Listed)) = X
  <2>1. \A w \in With(X, Listed) : w.row \in X
    BY DEF With, Listed
  <2>2. ASSUME NEW r \in X PROVE \E w \in With(X, Listed) : w.row = r
    <3> DEFINE w == [row |-> r, status |-> Listed(r)]
    <3>1. w.row = r
      OBVIOUS
    <3>2. w \in With(X, Listed)
      BY DEF With
    <3> HIDE DEF w
    <3> QED BY <3>1, <3>2
  <2>3. PICK W : W = With(X, Listed)
    OBVIOUS
  <2> QED BY <2>1, <2>2, <2>3, RowsAre
<1>4. RowsOf(With(X, NeedsCheck)) = X
  <2>1. \A w \in With(X, NeedsCheck) : w.row \in X
    BY DEF With, NeedsCheck
  <2>2. ASSUME NEW r \in X PROVE \E w \in With(X, NeedsCheck) : w.row = r
    <3> DEFINE w == [row |-> r, status |-> NeedsCheck(r)]
    <3>1. w.row = r
      OBVIOUS
    <3>2. w \in With(X, NeedsCheck)
      BY DEF With
    <3> HIDE DEF w
    <3> QED BY <3>1, <3>2
  <2>3. PICK W : W = With(X, NeedsCheck)
    OBVIOUS
  <2> QED BY <2>1, <2>2, <2>3, RowsAre
<1> QED BY <1>1, <1>2, <1>3, <1>4

\* A writer's rows are settled, or not law yet.
LEMMA StatusWith ==
    ASSUME NEW X, NEW W \in {With(X, Unverified), With(X, Official), With(X, Listed)}, NEW w \in W
    PROVE  Entry(w) /\ w.row \in X /\ (w.row.prospective \/ w.status \in Settled)
<1>1. CASE W = With(X, Unverified)
  BY <1>1 DEF With, Unverified, Settled, Entry
<1>2. CASE W = With(X, Official)
  BY <1>2 DEF With, Official, Settled, Entry
<1>3. CASE W = With(X, Listed)
  BY <1>3 DEF With, Listed, Settled, Entry
<1> QED BY <1>1, <1>2, <1>3

\* Every script keeps the table sound, the figures it had and the anchor.
LEMMA CommonSound ==
    ASSUME NEW T, TableSound(T), NEW X, Common(X),
           NEW W \in {With(X, Unverified), With(X, Official), With(X, Listed)}
    PROVE  /\ TableSound(upsert_rule(T, W)) /\ Grows(T, upsert_rule(T, W))
           /\ Anchored(T) => Anchored(upsert_rule(T, W))
<1>1. RowsOf(W) = X
  BY RowsWith
<1>2. \A w \in W : Entry(w) /\ w.row \in X /\ (w.row.prospective \/ w.status \in Settled)
  BY StatusWith
<1> QED BY <1>1, <1>2, ScriptSound DEF Common

\* The rows of ingestion/rules/seed.py.
LEMMA SeedCommon == Common(SeedLimits \cup SeedCaps \cup SeedAwards)
<1>1. \A r \in SeedLimits : r.key \notin Backfilled
  BY RowFields, ProspectiveFields, SMT DEF SeedLimits, Backfilled
<1>2. \A r \in SeedCaps : r.key \notin Backfilled
  BY RowFields, ProspectiveFields, SMT DEF SeedCaps, Backfilled
<1>3. \A r \in SeedAwards : r.key \notin Backfilled
  BY RowFields, ProspectiveFields, SMT DEF SeedAwards, Backfilled
<1> QED BY <1>1, <1>2, <1>3, SeedTrusty DEF Common

\* The rows of seed_unfair_dismissal.py.
LEMMA CanonicalCommon == Common(CanonicalLimits \cup CanonicalCaps \cup CanonicalAwards)
<1>1. \A r \in CanonicalLimits : r.key \notin Backfilled
  BY RowFields, ProspectiveFields, SMT DEF CanonicalLimits, Backfilled
<1>2. \A r \in CanonicalCaps : r.key \notin Backfilled
  BY RowFields, ProspectiveFields, SMT DEF CanonicalCaps, Backfilled
<1>3. \A r \in CanonicalAwards : r.key \notin Backfilled
  BY RowFields, ProspectiveFields, SMT DEF CanonicalAwards, Backfilled
<1> QED BY <1>1, <1>2, <1>3, CanonicalTrusty DEF Common

\* The rows of seed_unpaid_wages.py.
LEMMA WagesCommon == Common(WagesRows)
<1>1. \A r \in WagesRows : r.key \notin Backfilled
  BY RowFields, ProspectiveFields, SMT DEF WagesRows, Backfilled
<1> QED BY <1>1, WagesTrusty DEF Common

\* The rows of seed_limits_orders.py.
LEMMA OrdersCommon == Common(OrderRows)
<1>1. \A r \in OrderRows : r.key \in OrderKeys
  BY RowFields, SMT DEF OrderRows, OrderKeys
<1>2. \A k \in OrderKeys : k \notin Backfilled
  BY SMT DEF OrderKeys, Backfilled
<1> QED BY <1>1, <1>2, OrdersTrusty DEF Common

\* A deployment inserts rows that the newer limits orders cover too.
LEMMA MigrationTrusty == Trusty(MigrationRows)
<1> DEFINE A == Years("weeks_pay_cap_amount", 2025)
           B == Years("compensatory_cap_amount", 2025)
<1>1. {r \in CanonicalCaps : r.from >= 20250406} = A \cup B
  BY RowFields, YearsAre, SMT DEF CanonicalCaps
<1>2. MigrationRows = ((CanonicalLimits \cup CanonicalAwards) \cup WagesRows) \cup (A \cup B)
  BY <1>1 DEF MigrationRows
<1>3. Trusty(A) /\ Trusty(B)
  BY YearsOfOrders
<1> HIDE DEF A, B
<1> QED BY <1>2, <1>3, CanonicalTrusty, WagesTrusty, TrustyJoins

\* The backfill writes the 2024 figures and two rows without an end.
LEMMA BackfillCorrect ==
    /\ \A r \in BackfillRows : Correct(r)
    /\ \A r \in BackfillRows :
          \/ r \in CanonicalCaps /\ r.from = 20240406
          \/ Endless(r) /\ r.key \in Backfilled
    /\ Anchor \in BackfillRows
<1>1. Endless(Row("acas_code_adjustment_percent", 20090406, Open, "25"))
  BY LastingRowsTrusty, SMT DEF LastingRows
<1>2. Endless(Anchor)
  BY LastingRowsTrusty, SMT DEF LastingRows, Anchor
<1>3. Row("acas_code_adjustment_percent", 20090406, Open, "25").key \in Backfilled
  BY RowFields DEF Backfilled
<1>4. \A r \in BackfillRows : 
          \/ r \in CanonicalCaps /\ r.from = 20240406
          \/ r \in {Row("acas_code_adjustment_percent", 20090406, Open, "25"), Anchor}
  BY SMT DEF BackfillRows, Anchor
<1>5. Anchor \in BackfillRows
  BY SMT DEF BackfillRows, Anchor
<1>6. \A r \in BackfillRows :
          \/ r \in CanonicalCaps /\ r.from = 20240406
          \/ Endless(r) /\ r.key \in Backfilled
  <2> DEFINE S == {Row("acas_code_adjustment_percent", 20090406, Open, "25"), Anchor}
  <2>1. \A r \in S : Endless(r) /\ r.key \in Backfilled
    BY <1>1, <1>2, <1>3, AnchorKey
  <2>2. \A r \in BackfillRows :
          \/ r \in CanonicalCaps /\ r.from = 20240406
          \/ r \in S
    BY <1>4, SMT
  <2> HIDE DEF S
  <2> QED BY <2>1, <2>2, SMT
<1>7. \A r \in CanonicalCaps : Correct(r)
  BY CanonicalTrusty DEF Trusty
<1>8. \A r : Endless(r) => Correct(r)
  BY DEF Endless
<1> QED BY <1>5, <1>6, <1>7, <1>8, SMT

\* The 2024 figures follow on to those that the migration inserted.
LEMMA BackfillCovers ==
    ASSUME NEW T, Trusty(RowsOf(T)),
           \A r \in MigrationRows, d \in Nat : InForce(r, d) =>
                 \E u \in RowsOf(T) : u.key = r.key /\ InForce(u, d)
    PROVE  Covering(RowsOf(T) \cup BackfillRows)
<1> SUFFICES ASSUME NEW r \in RowsOf(T) \cup BackfillRows, NEW d \in Nat,
                    ~ r.prospective, r.from <= d, d <= Open
             PROVE  \E u \in RowsOf(T) \cup BackfillRows : u.key = r.key /\ InForce(u, d)
  BY DEF Covering
<1>1. CASE r \in RowsOf(T)
  BY <1>1 DEF Trusty, Covering
<1>2. CASE Endless(r)
  BY <1>2 DEF Endless, Correct, InForce
<1>3. CASE r \in CanonicalCaps
  <2>1. PICK u \in CanonicalCaps : u.key = r.key /\ InForce(u, d)
    BY <1>3, CanonicalTrusty DEF Trusty, Covering
  <2>2. u.from = 20240406 \/ u.from >= 20250406
    BY <2>1, RowFields, SMT DEF CanonicalCaps
  <2>3. u \in BackfillRows \/ u \in MigrationRows
    BY <2>2, SMT DEF BackfillRows, MigrationRows
  <2> QED BY <2>1, <2>3
<1> QED BY <1>1, <1>2, <1>3, BackfillCorrect

\* What check_verification asks of every row.
Passes(t) == t.row.prospective \/ t.status \in {"verified", "case_law_verified", "prospective"}

\* A deployment keeps the table sound and every figure, and passes the gate.
LEMMA MigrateSound ==
    ASSUME TableSound(ruleRows), migrate
    PROVE  /\ TableSound(ruleRows') /\ Grows(ruleRows, ruleRows') /\ Anchored(ruleRows')
           /\ \A t \in ruleRows' : Passes(t)
<1> DEFINE Mark(t) == IF t.row.prospective /\ t.status = "verification_required"
                      THEN [t EXCEPT !.status = "prospective"] ELSE t
           Norm(t) == [t EXCEPT !.status = Canonical(t.status)]
           M == {Mark(t) : t \in ruleRows}
           W == With(MigrationRows, NeedsCheck)
           I == InsertMissing(M, W)
           N == {Norm(t) : t \in I}
           B == With(BackfillRows, Listed)
           U == upsert_rule(N, B)
<1>1. ruleRows' = U
  BY DEF migrate
<1>2. ASSUME NEW t \in ruleRows PROVE Mark(t).row = t.row /\ Entry(Mark(t))
                                     /\ (Mark(t).row.prospective \/ Mark(t).status \in Settled)
  <2>1. Entry(t) /\ (t.row.prospective \/ t.status \in Settled)
    BY DEF TableSound
  <2>2. PICK s : t = [row |-> t.row, status |-> s]
    BY <2>1 DEF Entry
  <2> QED BY <2>1, <2>2 DEF Entry, Settled
<1>3. RowsOf(M) = RowsOf(ruleRows)
  BY <1>2 DEF RowsOf
<1>4. RowsOf(W) = MigrationRows
  BY RowsWith
<1>5. \A w \in W : Entry(w) /\ (w.row.prospective \/ w.status \in Settled)
  BY DEF With, NeedsCheck, Settled, Entry
<1>6. \A t \in M : Entry(t) /\ (t.row.prospective \/ t.status \in Settled)
  BY <1>2
<1> HIDE DEF M, W, Mark
<1>7. /\ Trusty(RowsOf(I)) /\ RowsOf(ruleRows) \subseteq RowsOf(I)
      /\ \A r \in MigrationRows, d \in Nat : InForce(r, d) =>
             \E u \in RowsOf(I) : u.key = r.key /\ InForce(u, d)
  <2>1. Trusty(RowsOf(M)) /\ Trusty(RowsOf(W))
    BY <1>3, <1>4, MigrationTrusty DEF TableSound
  <2> QED BY <2>1, <1>3, <1>4, InsertTrusty
<1>8. \A t \in I : Entry(t) /\ (t.row.prospective \/ t.status \in Settled)
  BY <1>5, <1>6 DEF InsertMissing
<1> HIDE DEF I
<1>9. ASSUME NEW t \in I PROVE Norm(t).row = t.row /\ Entry(Norm(t)) /\ Passes(Norm(t))
  <2>1. Entry(t) /\ (t.row.prospective \/ t.status \in Settled)
    BY <1>8
  <2>2. t = [row |-> t.row, status |-> t.status]
    BY <2>1 DEF Entry
  <2>3. Norm(t) = [row |-> t.row, status |-> Canonical(t.status)]
    BY <2>2
  <2> QED BY <2>1, <2>3 DEF Entry, Settled, Canonical, Passes
<1>10. RowsOf(N) = RowsOf(I) /\ \A t \in N : Entry(t) /\ Passes(t)
  BY <1>9 DEF RowsOf
<1> HIDE DEF N, Norm
<1>11. RowsOf(B) = BackfillRows
  BY RowsWith
<1>12. \A t \in B : Entry(t) /\ Passes(t)
  BY DEF With, Listed, Passes, Entry
<1>13. \E t \in B : t.row = Anchor /\ t.status = "verified"
  <2>1. Listed(Anchor) = "verified"
    BY RowFields DEF Listed, Anchor, CaseLaw
  <2>2. [row |-> Anchor, status |-> Listed(Anchor)] \in B
    BY BackfillCorrect DEF With
  <2> QED BY <2>1, <2>2
<1> HIDE DEF B
<1>14. Covering(RowsOf(N) \cup RowsOf(B))
  BY <1>7, <1>10, <1>11, BackfillCovers
<1>15. /\ Trusty(RowsOf(U))
       /\ \A r \in RowsOf(N), d \in Nat : InForce(r, d) =>
              \E u \in RowsOf(U) : u.key = r.key /\ InForce(u, d)
  BY <1>7, <1>10, <1>11, <1>14, BackfillCorrect, UpsertTrusty
<1>16. Grows(ruleRows, U)
  BY <1>7, <1>10, <1>15 DEF Grows
<1>17. \A t \in U : Entry(t) /\ Passes(t)
  BY <1>10, <1>12 DEF upsert_rule
<1>18. Anchored(U)
  BY <1>13 DEF upsert_rule, Anchored
<1> HIDE DEF U
<1>19. TableSound(U)
  BY <1>15, <1>17, <1>18 DEF TableSound, Passes, Settled
<1> QED BY <1>1, <1>16, <1>17, <1>18, <1>19

\* The open end is a date.
LEMMA OpenNat == Open \in Nat
  BY SMT DEF Open

\* Of some dates one is the earliest.
LEMMA FirstDay ==
    ASSUME RuleTableAssumption
    PROVE  (CHOOSE d \in Days : \A e \in Days : d <= e) \in Days
<1>0. Open \in Nat
  BY OpenNat
<1>d. \A d \in Days : d \in Int /\ d \in 0..Open /\ Open - d \in 0..Open /\ Open - (Open - d) = d
  BY <1>0 DEF RuleTableAssumption
<1> DEFINE S == {Open - d : d \in Days}
<1>1. S # {} /\ S \subseteq 0..Open
  BY <1>d DEF RuleTableAssumption
<1>2. PICK m \in S : \A n \in S : n <= m
  <2> HIDE DEF S
  <2> QED BY <1>0, <1>1, GreatestBelow
<1>3. PICK d \in Days : m = Open - d
  OBVIOUS
<1>4. \A e \in Days : e \in Int /\ Open - e \in S
  BY <1>d
<1>5. ASSUME NEW e \in Days PROVE d <= e
  <2>1. Open - e <= Open - d
    BY <1>2, <1>3, <1>4
  <2> QED BY <1>0, <1>4, <2>1
<1> QED BY <1>5

\* An empty table is sound.
LEMMA RuleTableStarts ==
    ASSUME RuleTableAssumption, RuleTableInit
    PROVE  RuleTableInv
<1>1. RowsOf(ruleRows) = {} /\ ruleRows = {}
  BY DEF RuleTableInit, RowsOf
<1> QED BY <1>1, FirstDay DEF RuleTableInit, RuleTableInv, TableSound, Trusty, Covering, IsDeployed

\* What every step does to the table and to the clock.
Advances ==
    /\ RuleTableInv' /\ Grows(ruleRows, ruleRows') /\ (Anchored(ruleRows) => Anchored(ruleRows'))
    /\ ruleDay <= ruleDay'
    /\ migrate => \A t \in ruleRows' : Passes(t)

\* Every writer, and the clock, advances a sound table.
LEMMA RuleTableSteps ==
    ASSUME RuleTableAssumption, RuleTableInv, [RuleTableNext]_ruleTableVars
    PROVE  Advances
<1>0. \A d \in Days : d \in Int
  BY DEF RuleTableAssumption
<1>t. TableSound(ruleRows) /\ ruleDay \in Days
  BY DEF RuleTableInv
<1>g. Grows(ruleRows, ruleRows)
  BY DEF Grows
<1>m. migrate => \A t \in ruleRows' : Passes(t)
  BY <1>t, MigrateSound
<1> SUFFICES /\ TableSound(ruleRows') /\ Grows(ruleRows, ruleRows')
             /\ Anchored(ruleRows) => Anchored(ruleRows')
             /\ ruleDay' \in Days /\ ruleDay <= ruleDay'
  BY <1>m DEF Advances, RuleTableInv
<1>1. CASE NextDay
  BY <1>1, <1>0, <1>t, <1>g DEF NextDay
<1>2. CASE seed
  BY <1>2, <1>0, <1>t, SeedCommon, CommonSound DEF seed
<1>3. CASE seed_unfair_dismissal
  BY <1>3, <1>0, <1>t, CanonicalCommon, CommonSound DEF seed_unfair_dismissal
<1>4. CASE seed_unpaid_wages
  BY <1>4, <1>0, <1>t, WagesCommon, CommonSound DEF seed_unpaid_wages
<1>5. CASE ingest_limits_orders
  BY <1>5, <1>0, <1>t, OrdersCommon, CommonSound DEF ingest_limits_orders
<1>6. CASE migrate
  <2>1. ruleDay' = ruleDay
    BY <1>6 DEF migrate
  <2> QED BY <1>6, <2>1, <1>0, <1>t, MigrateSound
<1>7. CASE UNCHANGED ruleTableVars
  BY <1>7, <1>0, <1>t, <1>g DEF ruleTableVars
<1> QED BY <1>1, <1>2, <1>3, <1>4, <1>5, <1>6, <1>7 DEF RuleTableNext

\* A sound table says one thing on every day.
LEMMA Unambiguous ==
    ASSUME RuleTableAssumption, RuleTableInv
    PROVE  RulesUnambiguous
<1>1. Trusty(RowsOf(ruleRows)) /\ Days \subseteq 0..Open /\ 0..Open \subseteq Nat
  BY DEF RuleTableInv, TableSound, RuleTableAssumption
<1>2. ASSUME NEW t \in ruleRows, NEW u \in ruleRows, t.row.key = u.row.key, NEW d \in Days,
             InForce(t.row, d), InForce(u.row, d)
      PROVE  t.row.value = u.row.value
  <2>1. d \in Nat /\ Correct(t.row) /\ Correct(u.row)
    BY <1>1 DEF Trusty, RowsOf
  <2> QED BY <1>2, <2>1, InForceIsLaw
<1>3. ASSUME NEW d \in Days, NEW e \in Days, NEW f \in Days, d < e, e < f
      PROVE  KeysOf(d) \cap KeysOf(f) \subseteq KeysOf(e)
  <2>1. KeysOf(d) = KeysIn(ruleRows, d) /\ KeysOf(e) = KeysIn(ruleRows, e)
        /\ KeysOf(f) = KeysIn(ruleRows, f)
    BY DEF KeysOf, KeysIn, retrieve_rules, RulesIn
  <2> QED BY <1>1, <1>3, <2>1, NoGap
<1> QED BY <1>2, <1>3 DEF RulesUnambiguous

\* What advances takes no answer back.
LEMMA Stable ==
    ASSUME RuleTableAssumption, RuleTableInv, Advances
    PROVE  RulesStable
<1>1. /\ Trusty(RowsOf(ruleRows)) /\ Trusty(RowsOf(ruleRows')) /\ Days \subseteq 0..Open
      /\ Days \subseteq Nat /\ Open \in Int /\ Grows(ruleRows, ruleRows')
  <2>1. Open \in Nat
    BY OpenNat
  <2> QED BY <2>1 DEF RuleTableInv, TableSound, RuleTableAssumption, Advances
<1>2. ASSUME NEW d \in Days PROVE Figures(d) \subseteq Figures(d)'
  <2>1. Figures(d) = FiguresIn(ruleRows, d)
    BY DEF Figures, FiguresIn, retrieve_rules, RulesIn
  <2>2. Figures(d)' = FiguresIn(ruleRows', d)
    BY DEF Figures, FiguresIn, retrieve_rules, RulesIn
  <2> QED BY <1>1, <2>1, <2>2, GrownFigures
<1>3. ASSUME Deployed, jurisdiction_supported PROVE jurisdiction_supported'
  <2>1. Anchored(ruleRows)
    BY <1>3 DEF Deployed, RuleKeys, IsDeployed, RuleTableInv, TableSound
  <2>2. PICK a \in ruleRows' : a.row = Anchor /\ a.status = "verified"
    BY <2>1 DEF Advances, Anchored
  <2>3. PICK t \in ruleRows : InForce(t.row, ruleDay)
    BY <1>3 DEF jurisdiction_supported
  <2>4. t.row.from \in Nat /\ 19960822 <= t.row.from /\ t.row.from <= ruleDay
    BY <2>3, <1>1, DatesInRange DEF Trusty, RowsOf, InForce
  <2>5. ruleDay \in Nat /\ ruleDay' \in Nat /\ ruleDay' <= Open /\ ruleDay <= ruleDay'
    BY <1>1 DEF Advances, RuleTableInv
  <2>6. 19960822 <= ruleDay'
    BY <2>4, <2>5, SMT
  <2>7. ~ Anchor.prospective /\ Anchor.from = 19960822 /\ Anchor.to = Open
    BY RowFields DEF Anchor
  <2>8. InForce(a.row, ruleDay')
    BY <2>2, <2>5, <2>6, <2>7 DEF InForce
  <2> QED BY <2>2, <2>8 DEF jurisdiction_supported
<1>4. ASSUME migrate PROVE check_verification'
  BY <1>4 DEF Advances, Passes, check_verification
<1> QED BY <1>2, <1>3, <1>4 DEF RulesStable

\* Whatever mixture of the five writers has run, the figures of a day are
\* unambiguous, and no later writer changes a figure that a date already had
\* (ingestion/rules/, db/migrations).
THEOREM RulesStaySettled == RuleTableSpec => RuleTableSound
<1>a. RuleTableAssumption
  BY RuleTableAssumption
<1>1. RuleTableInit => RuleTableInv
  BY <1>a, RuleTableStarts
<1>2. RuleTableInv /\ [RuleTableNext]_ruleTableVars => RuleTableInv'
  BY <1>a, RuleTableSteps DEF Advances
<1>3. RuleTableInv => RulesUnambiguous
  BY <1>a, Unambiguous
<1>4. RuleTableInv /\ [RuleTableNext]_ruleTableVars => RulesStable
  BY <1>a, RuleTableSteps, Stable
<1> QED BY <1>1, <1>2, <1>3, <1>4, PTL DEF RuleTableSpec, RuleTableSound

(***************************************************************************)
(* Deadlines, for every date of the calendar and every limit in months.    *)
(*                                                                         *)
(* First the calendar: ordinals are in the order of the dates              *)
(* (DatesAscend), every ordinal is that of one date (Civil, ReadBack), and *)
(* _add_months lands on the same day of the month n months on or on its    *)
(* last (MonthsLater).  Hence where a period of n months ends              *)
(* (PeriodEnds).  The invariant says that what an assessment answered or a *)
(* case stored is not after what today's facts give (Possible), which      *)
(* holds because conciliation, once added, only moves the limit later.     *)
(***************************************************************************)

CalendarYears == Nat \ {0}
IsDate(y, m, d) == y \in CalendarYears /\ m \in 1..12 /\ d \in 1..monthrange(y, m)

\* No month is shorter than February.
LEMMA MonthLengths ==
    ASSUME NEW y \in CalendarYears, NEW m \in 1..12
    PROVE  monthrange(y, m) \in 28..31
  BY SMT DEF monthrange, CalendarYears

\* A year has 365 days, or 366.
LEMMA YearLength ==
    ASSUME NEW y \in CalendarYears
    PROVE  DaysBeforeYear(y + 1) = DaysBeforeYear(y) + 365 + (IF Leap(y) THEN 1 ELSE 0)
  BY SMT DEF DaysBeforeYear, Leap, CalendarYears

\* A later year begins after the earlier one has ended.
LEMMA YearsAscend ==
    ASSUME NEW y \in CalendarYears, NEW z \in CalendarYears, y < z
    PROVE  DaysBeforeYear(y) + 365 + (IF Leap(y) THEN 1 ELSE 0) <= DaysBeforeYear(z)
  BY SMT DEF DaysBeforeYear, Leap, CalendarYears

\* How many days the years before take at least and at most.
LEMMA YearBounds ==
    ASSUME NEW y \in CalendarYears
    PROVE  /\ DaysBeforeYear(y) \in Nat /\ 365 * (y - 1) <= DaysBeforeYear(y)
           /\ DaysBeforeYear(y + 1) <= 366 * y
  BY SMT DEF DaysBeforeYear, CalendarYears

\* A month begins when the one before it ends.
LEMMA MonthsFollow ==
    ASSUME NEW y \in CalendarYears, NEW m \in 1..12
    PROVE  /\ DaysBeforeMonth(y, m) \in 0..335
           /\ m < 12 => DaysBeforeMonth(y, m + 1) = DaysBeforeMonth(y, m) + monthrange(y, m)
           /\ DaysBeforeMonth(y, 1) = 0
           /\ DaysBeforeMonth(y, 12) + 31 = 365 + (IF Leap(y) THEN 1 ELSE 0)
  BY SMT DEF DaysBeforeMonth, monthrange, CalendarYears

\* A later month begins after the earlier one has ended.
LEMMA MonthsAscend ==
    ASSUME NEW y \in CalendarYears, NEW m \in 1..12, NEW k \in 1..12, m < k
    PROVE  DaysBeforeMonth(y, m) + monthrange(y, m) <= DaysBeforeMonth(y, k)
  BY SMT DEF DaysBeforeMonth, monthrange, CalendarYears

\* No month ends after the year.
LEMMA YearEnds ==
    ASSUME NEW y \in CalendarYears, NEW m \in 1..12
    PROVE  DaysBeforeMonth(y, m) + monthrange(y, m) <= 365 + (IF Leap(y) THEN 1 ELSE 0)
  BY SMT DEF DaysBeforeMonth, monthrange, CalendarYears

\* The ordinals of dates are in the order of the dates.
LEMMA DatesAscend ==
    ASSUME NEW y, NEW m, NEW d, IsDate(y, m, d), NEW z, NEW k, NEW e, IsDate(z, k, e)
    PROVE  /\ toordinal(y, m, d) \in Nat \ {0}
           /\ 12 * y + m < 12 * z + k => toordinal(y, m, d) < toordinal(z, k, e)
           /\ 12 * y + m = 12 * z + k => /\ y = z /\ m = k
                                        /\ toordinal(y, m, d) - d = toordinal(z, k, e) - e
<1>1. /\ y \in Nat /\ y > 0 /\ m \in 1..12 /\ z \in Nat /\ z > 0 /\ k \in 1..12
      /\ d \in Nat /\ 1 <= d /\ d <= monthrange(y, m) /\ e \in Nat /\ 1 <= e /\ e <= monthrange(z, k)
  BY MonthLengths DEF IsDate, CalendarYears
<1>2. DaysBeforeYear(y) \in Nat /\ DaysBeforeYear(z) \in Nat
  BY YearBounds DEF IsDate
<1>3. DaysBeforeMonth(y, m) \in Nat /\ DaysBeforeMonth(z, k) \in Nat
  <2>1. DaysBeforeMonth(y, m) \in 0..335 /\ DaysBeforeMonth(z, k) \in 0..335
    BY MonthsFollow DEF IsDate
  <2> QED BY <2>1
<1>4. toordinal(y, m, d) \in Nat \ {0}
  BY <1>1, <1>2, <1>3 DEF toordinal
<1>5. ASSUME 12 * y + m < 12 * z + k PROVE toordinal(y, m, d) < toordinal(z, k, e)
  <2>1. y < z \/ (y = z /\ m < k)
    BY <1>1, <1>5
  <2>2. CASE y < z
    <3>1. DaysBeforeYear(y) + 365 + (IF Leap(y) THEN 1 ELSE 0) <= DaysBeforeYear(z)
      BY <2>2, YearsAscend DEF IsDate
    <3>2. DaysBeforeMonth(y, m) + monthrange(y, m) <= 365 + (IF Leap(y) THEN 1 ELSE 0)
      BY YearEnds DEF IsDate
    <3>3. PICK n \in Nat : n = 365 + (IF Leap(y) THEN 1 ELSE 0)
      OBVIOUS
    <3>4. DaysBeforeYear(y) + n <= DaysBeforeYear(z)
      BY <1>2, <3>1, <3>3
    <3>5. monthrange(y, m) \in Nat
      BY MonthLengths DEF IsDate
    <3>6. DaysBeforeMonth(y, m) + d <= n
      BY <1>1, <1>3, <3>2, <3>3, <3>5
    <3> QED BY <1>1, <1>2, <1>3, <3>4, <3>6 DEF toordinal
  <2>3. CASE y = z /\ m < k
    <3>1. DaysBeforeMonth(y, m) + monthrange(y, m) <= DaysBeforeMonth(y, k)
      BY <2>3, MonthsAscend DEF IsDate
    <3>2. monthrange(y, m) \in Nat
      BY MonthLengths DEF IsDate
    <3> QED BY <1>1, <1>2, <1>3, <2>3, <3>1, <3>2 DEF toordinal
  <2> QED BY <2>1, <2>2, <2>3
<1>6. ASSUME 12 * y + m = 12 * z + k
      PROVE  y = z /\ m = k /\ toordinal(y, m, d) - d = toordinal(z, k, e) - e
  <2>1. y = z /\ m = k
    BY <1>1, <1>6
  <2> QED BY <1>1, <1>2, <1>3, <2>1 DEF toordinal
<1> QED BY <1>4, <1>5, <1>6

\* Every day is in a year, among those that fromordinal looks at.
LEMMA YearOf ==
    ASSUME NEW o \in Nat \ {0}
    PROVE  \E y \in CalendarYears : /\ y \in o \div 366 .. o \div 365 + 1
                            /\ DaysBeforeYear(y) < o /\ o <= DaysBeforeYear(y + 1)
<1> DEFINE T == o \div 365 + 1
           S == {y \in 1..T : DaysBeforeYear(y) < o}
<1>1. T \in Nat \ {0} /\ o < 365 * T /\ o >= 365 * (T - 1)
  BY SMT
<1>2. 1 \in S
  BY <1>1, SMT DEF DaysBeforeYear
<1>3. S \subseteq 0..T
  BY <1>1
<1>4. PICK y \in S : \A z \in S : z <= y
  <2> HIDE DEF S, T
  <2> QED BY <1>1, <1>2, <1>3, GreatestBelow
<1>5. y \in 1..T /\ y \in CalendarYears /\ y + 1 \in CalendarYears /\ DaysBeforeYear(y) < o
  BY <1>1 DEF CalendarYears
<1>6. o <= DaysBeforeYear(y + 1)
  <2>1. DaysBeforeYear(y + 1) \in Nat
    BY <1>5, YearBounds
  <2>2. CASE y = T
    <3>1. 365 * y <= DaysBeforeYear(y + 1)
      BY <1>5, YearBounds DEF CalendarYears
    <3> QED BY <1>1, <2>1, <2>2, <3>1
  <2>3. CASE y # T
    <3>1. y + 1 \notin S
      BY <1>4, <1>5
    <3>2. y + 1 \in 1..T
      BY <1>1, <1>5, <2>3
    <3> QED BY <2>1, <3>1, <3>2
  <2> QED BY <2>2, <2>3
<1>7. o <= 366 * y
  BY <1>5, <1>6, YearBounds DEF CalendarYears
<1>8. o \div 366 <= y
  BY <1>5, <1>7, SMT
<1>9. y \in o \div 366 .. T
  BY <1>5, <1>8, SMT
<1> QED BY <1>5, <1>6, <1>9

\* And in a month of it.
LEMMA MonthOf ==
    ASSUME NEW y \in CalendarYears, NEW n \in Nat \ {0}, n <= 365 + (IF Leap(y) THEN 1 ELSE 0)
    PROVE  \E m \in 1..12 : /\ DaysBeforeMonth(y, m) < n
                            /\ n <= DaysBeforeMonth(y, m) + monthrange(y, m)
<1> DEFINE S == {m \in 1..12 : DaysBeforeMonth(y, m) < n}
<1>1. 1 \in S
  BY MonthsFollow
<1>2. S \subseteq 0..12
  OBVIOUS
<1>3. PICK m \in S : \A k \in S : k <= m
  <2> HIDE DEF S
  <2> QED BY <1>1, <1>2, GreatestBelow
<1>4. m \in 1..12 /\ DaysBeforeMonth(y, m) < n
  OBVIOUS
<1>5. CASE m = 12
  <2>1. DaysBeforeMonth(y, 12) + 31 = 365 + (IF Leap(y) THEN 1 ELSE 0)
    BY MonthsFollow
  <2>2. monthrange(y, 12) = 31
    BY SMT DEF monthrange
  <2> QED BY <1>4, <1>5, <2>1, <2>2
<1>6. CASE m < 12
  <2>1. m + 1 \in 1..12 /\ m + 1 \notin S
    BY <1>3, <1>4, <1>6
  <2>2. DaysBeforeMonth(y, m + 1) = DaysBeforeMonth(y, m) + monthrange(y, m)
    BY <1>4, <1>6, MonthsFollow
  <2>3. DaysBeforeMonth(y, m + 1) \in 0..335
    BY <2>1, MonthsFollow
  <2> QED BY <1>4, <2>1, <2>2, <2>3
<1> QED BY <1>4, <1>5, <1>6

\* Every ordinal is that of the date fromordinal finds, and of no other.
LEMMA Civil ==
    ASSUME NEW o \in Nat \ {0}
    PROVE  LET f == fromordinal(o) IN
           IsDate(f.year, f.month, f.day) /\ toordinal(f.year, f.month, f.day) = o
<1> DEFINE Y(z) == DaysBeforeYear(z) < o /\ o <= DaysBeforeYear(z + 1)
           y == CHOOSE z \in o \div 366 .. o \div 365 + 1 : Y(z)
           n == o - DaysBeforeYear(y)
           M(k) == DaysBeforeMonth(y, k) < n /\ n <= DaysBeforeMonth(y, k) + monthrange(y, k)
           m == CHOOSE k \in 1 .. 12 : M(k)
           d == n - DaysBeforeMonth(y, m)
<1>1. y \in o \div 366 .. o \div 365 + 1 /\ Y(y)
  BY YearOf
<1>2. y \in CalendarYears
  <2>1. y \in Int /\ 0 <= y
    BY <1>1, SMT
  <2>2. ASSUME y = 0 PROVE FALSE
    <3>1. o <= DaysBeforeYear(0 + 1)
      BY <1>1, <2>2
    <3>2. DaysBeforeYear(0 + 1) = 0
      BY SMT DEF DaysBeforeYear
    <3> QED BY <3>1, <3>2
  <2> QED BY <2>1, <2>2 DEF CalendarYears
<1>3. DaysBeforeYear(y) \in Nat /\ n \in Nat \ {0}
  <2>1. DaysBeforeYear(y) \in Nat
    BY <1>2, YearBounds
  <2> QED BY <1>1, <2>1
<1>4. n <= 365 + (IF Leap(y) THEN 1 ELSE 0)
  BY <1>1, <1>2, <1>3, YearLength
<1>5. m \in 1..12 /\ M(m)
  <2>1. \E k \in 1..12 : M(k)
    <3> HIDE DEF n, y
    <3> QED BY <1>2, <1>3, <1>4, MonthOf
  <2> QED BY <2>1
<1>6. fromordinal(o) = [year |-> y, month |-> m, day |-> d]
  BY DEF fromordinal
<1> HIDE DEF y, m
<1>7. DaysBeforeMonth(y, m) \in Nat /\ monthrange(y, m) \in Nat
  <2>1. DaysBeforeMonth(y, m) \in 0..335 /\ monthrange(y, m) \in 28..31
    BY <1>2, <1>5, MonthsFollow, MonthLengths
  <2> QED BY <2>1
<1>8. d \in 1..monthrange(y, m)
  BY <1>3, <1>5, <1>7
<1>9. toordinal(y, m, d) = o
  BY <1>3, <1>7 DEF toordinal
<1> HIDE DEF d
<1>10. fromordinal(o).year = y /\ fromordinal(o).month = m /\ fromordinal(o).day = d
  BY <1>6
<1> QED BY <1>2, <1>5, <1>8, <1>9, <1>10 DEF IsDate

\* A date reads back as it was written.
LEMMA ReadBack ==
    ASSUME NEW y, NEW m, NEW d, IsDate(y, m, d)
    PROVE  /\ toordinal(y, m, d) \in Nat \ {0}
           /\ fromordinal(toordinal(y, m, d)).year = y
           /\ fromordinal(toordinal(y, m, d)).month = m
           /\ fromordinal(toordinal(y, m, d)).day = d
<1>1. PICK o : o = toordinal(y, m, d)
  OBVIOUS
<1>2. o \in Nat \ {0}
  BY <1>1, DatesAscend
<1>3. PICK z, k, e : /\ z = fromordinal(o).year /\ k = fromordinal(o).month
                     /\ e = fromordinal(o).day
  OBVIOUS
<1>4. IsDate(z, k, e) /\ toordinal(z, k, e) = o
  BY <1>2, <1>3, Civil
<1>5. /\ 12 * y + m \in Nat /\ 12 * z + k \in Nat /\ d \in Nat /\ e \in Nat
  BY <1>4, MonthLengths DEF IsDate, CalendarYears
<1>6. 12 * y + m = 12 * z + k
  <2>1. ~ (12 * y + m < 12 * z + k)
    BY <1>1, <1>2, <1>4, DatesAscend
  <2>2. ~ (12 * z + k < 12 * y + m)
    BY <1>1, <1>2, <1>4, DatesAscend
  <2> QED BY <1>5, <2>1, <2>2
<1>7. y = z /\ m = k /\ o - d = o - e
  BY <1>1, <1>4, <1>6, DatesAscend
<1> QED BY <1>1, <1>2, <1>3, <1>5, <1>7

\* Later days come in later months, or later in the month.
LEMMA InOrder ==
    ASSUME NEW o \in Nat \ {0}, NEW x \in Nat, o <= x
    PROVE  LET p == fromordinal(o)
               q == fromordinal(x)
           IN  /\ 12 * p.year + p.month <= 12 * q.year + q.month
               /\ 12 * p.year + p.month = 12 * q.year + q.month
                     => /\ p.year = q.year /\ p.month = q.month
                        /\ q.day - p.day = x - o
<1>1. PICK y, m, d : /\ y = fromordinal(o).year /\ m = fromordinal(o).month
                     /\ d = fromordinal(o).day
  OBVIOUS
<1>2. PICK z, k, e : /\ z = fromordinal(x).year /\ k = fromordinal(x).month
                     /\ e = fromordinal(x).day
  OBVIOUS
<1>3. IsDate(y, m, d) /\ toordinal(y, m, d) = o
  BY <1>1, Civil
<1>4. IsDate(z, k, e) /\ toordinal(z, k, e) = x
  <2>1. x \in Nat \ {0}
    OBVIOUS
  <2> QED BY <1>2, <2>1, Civil
<1>5. /\ 12 * y + m \in Nat /\ 12 * z + k \in Nat /\ d \in Nat /\ e \in Nat
  BY <1>3, <1>4, MonthLengths DEF IsDate, CalendarYears
<1>6. ~ (12 * z + k < 12 * y + m)
  BY <1>3, <1>4, DatesAscend
<1>7. 12 * y + m = 12 * z + k => y = z /\ m = k /\ o - d = x - e
  BY <1>3, <1>4, DatesAscend
<1>8. 12 * y + m <= 12 * z + k
  BY <1>5, <1>6
<1>9. 12 * y + m = 12 * z + k => e - d = x - o
  BY <1>5, <1>7
<1> QED BY <1>1, <1>2, <1>7, <1>8, <1>9

\* n months on: the same day of the month n further, or its last.
LEMMA MonthsLater ==
    ASSUME NEW e \in Nat \ {0}, NEW n \in Nat
    PROVE  LET p == fromordinal(e)
               q == fromordinal(_add_months(e, n))
           IN  /\ _add_months(e, n) \in Nat \ {0}
               /\ IsDate(q.year, q.month, q.day)
               /\ 12 * q.year + q.month = 12 * p.year + p.month + n
               /\ q.day = Earlier(p.day, monthrange(q.year, q.month))
<1>1. PICK y, m, d : /\ y = fromordinal(e).year /\ m = fromordinal(e).month
                     /\ d = fromordinal(e).day
  OBVIOUS
<1>2. IsDate(y, m, d)
  BY <1>1, Civil
<1>3. y \in Nat /\ y > 0 /\ m \in 1..12 /\ d \in Nat /\ d > 0
  BY <1>2, MonthLengths DEF IsDate, CalendarYears
<1>4. PICK z, k : z = y + ((m + n) - 1) \div 12 /\ k = (((m + n) - 1) % 12) + 1
  OBVIOUS
<1>5. z \in CalendarYears /\ k \in 1..12 /\ 12 * z + k = 12 * y + m + n
  BY <1>3, <1>4, SMT DEF CalendarYears
<1>6. PICK c : c = Earlier(d, monthrange(z, k))
  OBVIOUS
<1>7. IsDate(z, k, c)
  BY <1>3, <1>5, <1>6, MonthLengths DEF IsDate, Earlier
<1>8. _add_months(e, n) = toordinal(z, k, c)
  BY <1>1, <1>4, <1>6 DEF _add_months
<1> QED BY <1>1, <1>5, <1>6, <1>7, <1>8, ReadBack

Ordinal == Nat \ {0}

\* What compute_limitation_date returns.
LEMMA LimitIs ==
    ASSUME NEW e \in Ordinal, NEW n \in Ordinal, NEW a \in Ordinal \cup {Undated},
           NEW b \in Ordinal \cup {Undated}, b # Undated => a # Undated /\ a <= b,
           Undated \notin Int
    PROVE  LET c == compute_limitation_date(e, n, a, b)
           IN  /\ c.base_limit = _add_months(e, n) - 1 /\ c.base_limit \in Int
               /\ c.limitation_date \in Int /\ c.base_limit <= c.limitation_date
               /\ c.ec_applied <=> b # Undated
               /\ b = Undated => c.limitation_date = c.base_limit
               /\ b # Undated => /\ c.base_limit + (b - a) <= c.limitation_date
                                /\ _add_months(b, 1) <= c.limitation_date
                                /\ \/ c.limitation_date = c.base_limit + (b - a)
                                   \/ c.limitation_date = _add_months(b, 1)
<1>1. PICK base : base = _add_months(e, n) - 1
  OBVIOUS
<1>2. base \in Int
  BY <1>1, MonthsLater DEF Ordinal
<1>3. PICK l : l = IF a # Undated /\ b # Undated THEN Later(base + (b - a), _add_months(b, 1))
                   ELSE base
  OBVIOUS
<1>4. PICK w \in BOOLEAN : w <=> a # Undated /\ b # Undated
  OBVIOUS
<1>5. /\ compute_limitation_date(e, n, a, b).base_limit = base
      /\ compute_limitation_date(e, n, a, b).limitation_date = l
      /\ compute_limitation_date(e, n, a, b).ec_applied <=> w
  BY <1>1, <1>3, <1>4 DEF compute_limitation_date
<1>6. CASE b = Undated
  BY <1>1, <1>2, <1>3, <1>4, <1>5, <1>6
<1>7. CASE b # Undated
  <2>1. a \in Int /\ b \in Int /\ a <= b /\ b \in Nat \ {0} /\ a # Undated
    BY <1>7 DEF Ordinal
  <2>2. _add_months(b, 1) \in Int
    BY <2>1, MonthsLater
  <2>3. l = Later(base + (b - a), _add_months(b, 1))
    BY <1>3, <1>7, <2>1
  <2>4. /\ l \in Int /\ base + (b - a) <= l /\ _add_months(b, 1) <= l /\ base <= l
        /\ l = base + (b - a) \/ l = _add_months(b, 1)
    BY <1>2, <2>1, <2>2, <2>3 DEF Later
  <2> QED BY <1>1, <1>2, <1>4, <1>5, <1>7, <2>1, <2>4
<1> QED BY <1>6, <1>7

\* The last day of n months is in them, and nothing later but for a shorter month.
LEMMA PeriodEnds ==
    ASSUME NEW e \in Ordinal, NEW n \in Ordinal
    PROVE  LET A == _add_months(e, n)
           IN  /\ A \in Ordinal /\ A - 1 \in Ordinal /\ e <= A - 1
               /\ InPeriod(A - 1, e, n)
               /\ InPeriod(A, e, n) <=> fromordinal(A).day # fromordinal(e).day
               /\ \A x \in Nat : A < x => ~ InPeriod(x, e, n)
<1>1. PICK A : A = _add_months(e, n)
  OBVIOUS
<1>2. PICK q, t : q = fromordinal(e) /\ t = fromordinal(A)
  OBVIOUS
<1>3. /\ A \in Nat \ {0} /\ IsDate(t.year, t.month, t.day)
      /\ 12 * t.year + t.month = 12 * q.year + q.month + n
      /\ t.day = Earlier(q.day, monthrange(t.year, t.month))
  BY <1>1, <1>2, MonthsLater DEF Ordinal
<1>4. IsDate(q.year, q.month, q.day) /\ e \in Nat \ {0} /\ n \in Nat /\ n > 0
  BY <1>2, Civil DEF Ordinal
<1>5. /\ q.year \in Nat /\ q.month \in Nat /\ q.day \in Nat
      /\ t.year \in Nat /\ t.month \in Nat /\ t.day \in Nat /\ monthrange(t.year, t.month) \in Nat
  BY <1>3, <1>4, MonthLengths DEF IsDate, CalendarYears
<1>6. e < A
  <2>1. ~ (A <= e)
    BY <1>2, <1>3, <1>4, <1>5, InOrder
  <2> QED BY <1>3, <1>4, <2>1
<1>7. A - 1 \in Nat \ {0} /\ e <= A - 1
  BY <1>3, <1>4, <1>6
<1>8. InPeriod(A - 1, e, n)
  <2>1. PICK p : p = fromordinal(A - 1)
    OBVIOUS
  <2>2. IsDate(p.year, p.month, p.day)
    BY <1>7, <2>1, Civil
  <2>3. p.year \in Nat /\ p.month \in Nat /\ p.day \in Nat
    BY <2>2, MonthLengths DEF IsDate, CalendarYears
  <2>4. /\ 12 * p.year + p.month <= 12 * t.year + t.month
        /\ 12 * p.year + p.month = 12 * t.year + t.month => t.day - p.day = A - (A - 1)
    BY <1>2, <1>3, <1>7, <2>1, InOrder
  <2>5. t.day <= q.day
    BY <1>3, <1>5 DEF Earlier
  <2>6. PICK k : k = 12 * (p.year - q.year) + p.month - q.month
    OBVIOUS
  <2>7. k < n \/ (k = n /\ p.day < q.day)
    BY <1>3, <1>4, <1>5, <2>3, <2>4, <2>5, <2>6
  <2> QED BY <1>2, <1>7, <2>1, <2>6, <2>7 DEF InPeriod
<1>9. InPeriod(A, e, n) <=> t.day # q.day
  <2>1. t.day <= q.day
    BY <1>3, <1>5 DEF Earlier
  <2>2. PICK k : k = 12 * (t.year - q.year) + t.month - q.month
    OBVIOUS
  <2>3. k = n /\ e <= A
    BY <1>3, <1>4, <1>5, <1>6, <2>2
  <2> QED BY <1>2, <1>4, <1>5, <2>1, <2>2, <2>3 DEF InPeriod
<1>10. ASSUME NEW x \in Nat, A < x PROVE ~ InPeriod(x, e, n)
  <2>1. PICK p : p = fromordinal(x)
    OBVIOUS
  <2>2. x \in Nat \ {0} /\ A <= x /\ x - A > 0 /\ x - A \in Nat
    BY <1>3, <1>10
  <2>3. IsDate(p.year, p.month, p.day)
    BY <2>1, <2>2, Civil
  <2>4. /\ p.year \in Nat /\ p.month \in Nat /\ p.day \in Nat
        /\ p.day <= monthrange(p.year, p.month) /\ monthrange(p.year, p.month) \in Nat
    BY <2>3, MonthLengths DEF IsDate, CalendarYears
  <2>5. /\ 12 * t.year + t.month <= 12 * p.year + p.month
        /\ 12 * t.year + t.month = 12 * p.year + p.month =>
              t.year = p.year /\ t.month = p.month /\ p.day - t.day = x - A
    BY <1>2, <1>3, <2>1, <2>2, InOrder
  <2>6. PICK k : k = 12 * (p.year - q.year) + p.month - q.month
    OBVIOUS
  <2>7. k >= n /\ (k = n => 12 * t.year + t.month = 12 * p.year + p.month)
    BY <1>3, <1>4, <1>5, <2>4, <2>5, <2>6
  <2>8. k = n => p.day >= q.day
    <3>1. ASSUME k = n PROVE p.day > t.day /\ p.day <= monthrange(t.year, t.month)
      BY <1>5, <2>2, <2>4, <2>5, <2>7, <3>1
    <3> QED BY <1>3, <1>5, <2>4, <3>1 DEF Earlier
  <2>9. ~ (k < n \/ (k = n /\ p.day < q.day))
    BY <1>4, <1>5, <2>4, <2>6, <2>7, <2>8
  <2> QED BY <1>2, <2>1, <2>6, <2>9 DEF InPeriod
<1> QED BY <1>1, <1>2, <1>3, <1>7, <1>8, <1>9, <1>10 DEF Ordinal

\* A date some assessment gave is not after the one today's facts give.
Possible(l) ==
    /\ l \in Int
    /\ l <= compute_limitation_date(edt, months, ec_day_a, ec_day_b).limitation_date

DeadlinesInv ==
    /\ edt \in Ordinal /\ months \in Limits /\ today \in Ordinal /\ edt <= today
    /\ ec_day_a \in Ordinal \cup {Undated} /\ ec_day_b \in Ordinal \cup {Undated}
    /\ ec_day_a # Undated => ec_day_a <= today
    /\ ec_day_b # Undated => ec_day_a # Undated /\ ec_day_a <= ec_day_b /\ ec_day_b <= today
    /\ deadline_info # Undated => Possible(deadline_info.limitation_date)
    /\ deadline_date # Undated => Possible(deadline_date)
    /\ handoff \in BOOLEAN

\* What it returns for the facts of today.
LEMMA NowIs ==
    ASSUME DeadlinesAssumption, DeadlinesInv
    PROVE  LET c == compute_limitation_date(edt, months, ec_day_a, ec_day_b)
           IN  /\ c.base_limit = _add_months(edt, months) - 1 /\ c.base_limit \in Int
               /\ c.limitation_date \in Int /\ c.base_limit <= c.limitation_date
               /\ c.ec_applied <=> ec_day_b # Undated
               /\ ec_day_b = Undated => c.limitation_date = c.base_limit
               /\ ec_day_b # Undated =>
                     /\ c.base_limit + (ec_day_b - ec_day_a) <= c.limitation_date
                     /\ _add_months(ec_day_b, 1) <= c.limitation_date
                     /\ \/ c.limitation_date = c.base_limit + (ec_day_b - ec_day_a)
                        \/ c.limitation_date = _add_months(ec_day_b, 1)
<1>1. /\ edt \in Ordinal /\ months \in Ordinal /\ Undated \notin Int
      /\ ec_day_a \in Ordinal \cup {Undated} /\ ec_day_b \in Ordinal \cup {Undated}
      /\ ec_day_b # Undated => ec_day_a # Undated /\ ec_day_a <= ec_day_b
  BY DEF DeadlinesInv, DeadlinesAssumption, Ordinal
<1> QED BY <1>1, LimitIs

\* Conciliation that ends before o takes away its days after e.
LEMMA DaysCounted ==
    ASSUME NEW o \in Int, NEW e \in Int, NEW a \in Int, NEW b \in Int, a <= b, b <= o
    PROVE  counted(o, e, a, b) = o - e - (b - a) + (Earlier(b, e) - Earlier(a, e))
<1>1. Earlier(b, o) = b
  BY DEF Earlier
<1>2. Later(0, b - Later(a, e)) = (b - a) - (Earlier(b, e) - Earlier(a, e))
  BY DEF Earlier, Later
<1> QED BY <1>1, <1>2 DEF counted, Earlier, Later

\* The invariant and the calendar give the dates what is asked of them.
LEMMA Exact ==
    ASSUME DeadlinesAssumption, DeadlinesInv
    PROVE  DeadlineExact
<1> DEFINE found == compute_limitation_date(edt, months, ec_day_a, ec_day_b)
<1> DEFINE early == Earlier(ec_day_b, edt) - Earlier(ec_day_a, edt)
<1>1. PICK A : A = _add_months(edt, months)
  OBVIOUS
<1>2. PICK base, L : base = found.base_limit /\ L = found.limitation_date
  OBVIOUS
<1>3. PICK w \in BOOLEAN : w <=> found.ec_applied
  OBVIOUS
<1>4. /\ edt \in Ordinal /\ months \in Ordinal /\ Undated \notin Int
      /\ ec_day_a \in Ordinal \cup {Undated} /\ ec_day_b \in Ordinal \cup {Undated}
      /\ ec_day_b # Undated => ec_day_a # Undated /\ ec_day_a <= ec_day_b
  BY DEF DeadlinesInv, DeadlinesAssumption, Ordinal
<1>5. /\ base = A - 1 /\ base \in Int /\ L \in Int /\ base <= L /\ (w <=> ec_day_b # Undated)
      /\ ec_day_b = Undated => L = base
      /\ ec_day_b # Undated => /\ base + (ec_day_b - ec_day_a) <= L
                               /\ _add_months(ec_day_b, 1) <= L
                               /\ L = base + (ec_day_b - ec_day_a) \/ L = _add_months(ec_day_b, 1)
  BY <1>1, <1>2, <1>3, NowIs
<1>6. /\ A \in Nat /\ A - 1 \in Nat /\ edt <= A - 1
      /\ InPeriod(A - 1, edt, months)
      /\ InPeriod(A, edt, months) <=> fromordinal(A).day # fromordinal(edt).day
      /\ \A x \in Nat : A < x => ~ InPeriod(x, edt, months)
  BY <1>1, <1>4, PeriodEnds DEF Ordinal
<1>7. base + 1 = A /\ base + 2 \in Nat /\ A < base + 2
  BY <1>5, <1>6
<1>8. /\ InPeriod(base, edt, months)
      /\ InPeriod(base + 1, edt, months) <=> fromordinal(base + 1).day # fromordinal(edt).day
      /\ ~ InPeriod(base + 2, edt, months)
      /\ relativedelta_deadline(edt, months) = base
  BY <1>1, <1>5, <1>6, <1>7 DEF relativedelta_deadline
<1>9. ASSUME w
      PROVE  /\ ~ InPeriod(L + 1, ec_day_b, 1)
             /\ counted(L, edt, ec_day_a, ec_day_b) - (base - edt) >= early
             /\ counted(L, edt, ec_day_a, ec_day_b) - (base - edt) > early
                  => InPeriod(L - 1, ec_day_b, 1)
  <2>1. /\ ec_day_a \in Int /\ ec_day_b \in Ordinal /\ ec_day_b \in Int /\ ec_day_a <= ec_day_b
        /\ edt \in Int
    BY <1>4, <1>5, <1>9 DEF Ordinal
  <2>2. PICK B : B = _add_months(ec_day_b, 1)
    OBVIOUS
  <2>3. /\ B \in Nat /\ ec_day_b <= B - 1 /\ InPeriod(B - 1, ec_day_b, 1)
        /\ \A x \in Nat : B < x => ~ InPeriod(x, ec_day_b, 1)
    <3>1. 1 \in Ordinal
      BY DEF Ordinal
    <3> QED BY <2>1, <2>2, <3>1, PeriodEnds DEF Ordinal
  <2>4. /\ B <= L /\ base + (ec_day_b - ec_day_a) <= L
        /\ L = base + (ec_day_b - ec_day_a) \/ L = B
    BY <1>5, <1>9, <2>2
  <2>5. L + 1 \in Nat /\ B < L + 1 /\ ec_day_b <= L
    BY <1>5, <2>1, <2>3, <2>4
  <2>6. ~ InPeriod(L + 1, ec_day_b, 1)
    BY <2>3, <2>5
  <2>7. PICK k : k = early
    OBVIOUS
  <2>8. k \in Int
    BY <2>1, <2>7 DEF Earlier
  <2>9. counted(L, edt, ec_day_a, ec_day_b) = L - edt - (ec_day_b - ec_day_a) + k
    BY <1>5, <2>1, <2>5, <2>7, DaysCounted
  <2>10. CASE L = base + (ec_day_b - ec_day_a)
    BY <1>5, <2>1, <2>6, <2>7, <2>8, <2>9, <2>10
  <2>11. CASE L = B
    BY <1>5, <2>1, <2>3, <2>4, <2>6, <2>7, <2>8, <2>9, <2>11
  <2> QED BY <2>4, <2>10, <2>11
<1>10. deadline_date # Undated => deadline_date <= L
  BY <1>2 DEF DeadlinesInv, Possible
<1>11. ~ w => L = base
  BY <1>5
<1> QED BY <1>2, <1>3, <1>5, <1>8, <1>9, <1>10, <1>11 DEF DeadlineExact

\* At the start nothing is stored.
LEMMA DeadlinesStart ==
    ASSUME DeadlinesAssumption, DeadlinesInit
    PROVE  DeadlinesInv
<1>1. PICK d \in Edts : edt = toordinal(d[1], d[2], d[3])
  BY DEF DeadlinesInit
<1>2. IsDate(d[1], d[2], d[3])
  BY DEF DeadlinesAssumption, IsDate, CalendarYears
<1>3. edt \in Nat \ {0} /\ months \in Nat \ {0} /\ Before \in Nat
  BY <1>1, <1>2, ReadBack DEF DeadlinesInit, DeadlinesAssumption
<1>4. Base \in Int
  BY <1>3, MonthsLater DEF Base
<1>5. today \in Nat \ {0} /\ edt <= today
  BY <1>3, <1>4 DEF DeadlinesInit, Later
<1>6. \A o \in {ec_day_a, ec_day_b} : o # Undated => o \in Nat \ {0} /\ o <= today
  BY <1>5 DEF DeadlinesInit
<1> QED BY <1>3, <1>5, <1>6 DEF DeadlinesInit, DeadlinesInv, Ordinal

\* What a step does to the dates: time passes, facts are added and never changed.
DatesMove ==
    /\ edt' = edt /\ months' = months /\ assessment' = assessment
    /\ today \in Int /\ today' \in Int /\ today <= today'
    /\ deadline_date # Undated => deadline_date' = deadline_date
    /\ handoff => handoff'
    /\ handoff \in BOOLEAN /\ handoff' \in BOOLEAN
    /\ deadline_date # Undated => deadline_date \in Int

\* Every step keeps the invariant and only adds to the facts.
LEMMA DeadlinesStep ==
    ASSUME DeadlinesAssumption, DeadlinesInv, [DeadlinesNext]_deadlineVars
    PROVE  DeadlinesInv' /\ DatesMove
<1> DEFINE Limit(a, b) == compute_limitation_date(edt, months, a, b).limitation_date
<1>0. /\ edt \in Ordinal /\ today \in Ordinal /\ today \in Int /\ edt <= today /\ today + 1 \in Ordinal
      /\ Undated \notin Int /\ months \in Ordinal
  BY DEF DeadlinesInv, DeadlinesAssumption, Ordinal
<1>b. PICK base : base = _add_months(edt, months) - 1
  OBVIOUS
<1>1. CASE Midnight
  BY <1>0, <1>1 DEF Midnight, DeadlinesInv, DatesMove, Possible, Ordinal
<1>2. CASE contact_acas
  <2>1. ec_day_a = Undated /\ ec_day_b = Undated /\ today # Undated
    BY <1>0, <1>2 DEF contact_acas, DeadlinesInv
  <2>2. Limit(ec_day_a, ec_day_b) = base
    BY <1>b, <2>1, NowIs
  <2>3. Limit(today, Undated) = base
    <3>1. PICK u : u = Undated
      OBVIOUS
    <3>2. /\ today \in Ordinal \cup {Undated} /\ u \in Ordinal \cup {Undated}
          /\ u # Undated => today # Undated /\ today <= u
      BY <1>0, <3>1
    <3>3. LET c == compute_limitation_date(edt, months, today, u)
          IN  c.base_limit = _add_months(edt, months) - 1 /\ (u = Undated => c.limitation_date = c.base_limit)
      BY <1>0, <3>2, LimitIs
    <3> QED BY <1>b, <3>1, <3>3
  <2>4. \A l : Possible(l) => Possible(l)'
    BY <1>2, <2>1, <2>2, <2>3 DEF Possible, contact_acas
  <2> QED BY <1>0, <1>2, <2>1, <2>4 DEF contact_acas, DeadlinesInv, DatesMove, Possible
<1>3. CASE receive_certificate
  <2>1. ec_day_a # Undated /\ ec_day_b = Undated /\ today # Undated /\ ec_day_a <= today
        /\ ec_day_a \in Ordinal
    BY <1>0, <1>3 DEF receive_certificate, DeadlinesInv
  <2>2. Limit(ec_day_a, ec_day_b) = base
    BY <1>b, <2>1, NowIs
  <2>3. base <= Limit(ec_day_a, today) /\ base \in Int /\ Limit(ec_day_a, today) \in Int
    BY <1>0, <1>b, <2>1, LimitIs
  <2>4. \A l : Possible(l) => Possible(l)'
    BY <1>3, <2>2, <2>3 DEF Possible, receive_certificate
  <2> QED BY <1>0, <1>3, <2>1, <2>4 DEF receive_certificate, DeadlinesInv, DatesMove, Possible
<1>4. CASE assess
  <2>0. PICK c : c = compute_limitation_date(edt, months, ec_day_a, ec_day_b)
    OBVIOUS
  <2>1. c.limitation_date \in Int
    BY <2>0, NowIs
  <2>2. deadline_info' = c /\ c = compute_limitation_date(edt', months', ec_day_a', ec_day_b')
    BY <1>4, <2>0 DEF assess
  <2>3. Possible(deadline_info.limitation_date)'
    BY <2>1, <2>2 DEF Possible
  <2> QED BY <1>0, <1>4, <2>3 DEF assess, DeadlinesInv, DatesMove, Possible
<1>5. CASE save_case
  BY <1>0, <1>5 DEF save_case, DeadlinesInv, DatesMove, Possible
<1>6. CASE capture_handoff_lead
  BY <1>0, <1>6 DEF capture_handoff_lead, DeadlinesInv, DatesMove, Possible
<1>7. CASE UNCHANGED deadlineVars
  BY <1>0, <1>7 DEF deadlineVars, DeadlinesInv, DatesMove, Possible
<1> QED BY <1>1, <1>2, <1>3, <1>4, <1>5, <1>6, <1>7 DEF DeadlinesNext

-----------------------------------------------------------------------------
(* Urgency.                                                                *)

\* The urgencies in their order.
LEMMA UrgencyRanks ==
    /\ UrgencyRank("safe") = 1 /\ UrgencyRank("due_within_30") = 2
    /\ UrgencyRank("due_within_14") = 3 /\ UrgencyRank("due_within_7") = 4
    /\ UrgencyRank("expired") = 5
<1>1. DOMAIN Urgencies = 1..5
  BY DEF Urgencies
<1>2. /\ Urgencies[1] = "safe" /\ Urgencies[2] = "due_within_30"
      /\ Urgencies[3] = "due_within_14" /\ Urgencies[4] = "due_within_7"
      /\ Urgencies[5] = "expired"
  BY DEF Urgencies
<1>3. \A i, j \in 1..5 : Urgencies[i] = Urgencies[j] => i = j
  BY <1>2, SMT
<1>4. ASSUME NEW i \in 1..5 PROVE UrgencyRank(Urgencies[i]) = i
  BY <1>1, <1>3 DEF UrgencyRank
<1> QED BY <1>2, <1>4

\* The escalation states in theirs.
LEMMA EscalationRanks ==
    /\ EscalationRank("solicitor_recommended") = 1 /\ EscalationRank("handoff_started") = 2
    /\ EscalationRank("urgent_deadline") = 3 /\ EscalationRank("needs_review") = 4
    /\ EscalationRank("watch") = 5 /\ EscalationRank("none") = 6
<1>1. DOMAIN ESCALATION_STATES = 1..6
  BY DEF ESCALATION_STATES
<1>2. /\ ESCALATION_STATES[1] = "solicitor_recommended" /\ ESCALATION_STATES[2] = "handoff_started"
      /\ ESCALATION_STATES[3] = "urgent_deadline" /\ ESCALATION_STATES[4] = "needs_review"
      /\ ESCALATION_STATES[5] = "watch" /\ ESCALATION_STATES[6] = "none"
  BY DEF ESCALATION_STATES
<1>3. \A i, j \in 1..6 : ESCALATION_STATES[i] = ESCALATION_STATES[j] => i = j
  BY <1>2, SMT
<1>4. ASSUME NEW i \in 1..6 PROVE EscalationRank(ESCALATION_STATES[i]) = i
  BY <1>1, <1>3 DEF EscalationRank
<1> QED BY <1>2, <1>4

\* The two scales, by the number of days left.
LEMMA Scales ==
    ASSUME NEW l \in Int, NEW t \in Int
    PROVE  LET u == compute_urgency(l, t)
               v == urgency_level(l, t)
               n == l - t
           IN  /\ n < 0 => u = "expired" /\ v = "expired"
               /\ 0 <= n /\ n <= 7 => u = "due_within_7" /\ v = "critical"
               /\ 8 <= n /\ n <= 14 => u = "due_within_14" /\ v = "critical"
               /\ 15 <= n /\ n <= 30 => u = "due_within_30" /\ v = "urgent"
               /\ 31 <= n => u = "safe" /\ v \in {"urgent", "normal"}
<1>1. PICK n \in Int : n = l - t
  OBVIOUS
<1>2. CASE n < 0
  BY <1>1, <1>2, SMT DEF compute_urgency, urgency_level
<1>3. CASE 0 <= n /\ n <= 7
  BY <1>1, <1>3, SMT DEF compute_urgency, urgency_level
<1>4. CASE 8 <= n /\ n <= 14
  BY <1>1, <1>4, SMT DEF compute_urgency, urgency_level
<1>5. CASE 15 <= n /\ n <= 30
  BY <1>1, <1>5, SMT DEF compute_urgency, urgency_level
<1>6. CASE 31 <= n
  BY <1>1, <1>6, SMT DEF compute_urgency, urgency_level
<1> QED BY <1>1, <1>2, <1>3, <1>4, <1>5, <1>6

\* As days pass the urgency rises, and the scales agree about it.
LEMMA Rising ==
    ASSUME NEW l \in Int, NEW t \in Int, NEW x \in Int, t <= x
    PROVE  LET u == compute_urgency(l, t)
               w == compute_urgency(l, x)
               v == urgency_level(l, x)
           IN  /\ UrgencyRank(w) >= UrgencyRank(u)
               /\ w = "expired" <=> v = "expired"
               /\ w \in {"due_within_7", "due_within_14"} <=> v = "critical"
               /\ v = "normal" => w = "safe"
               /\ auto_reminder_types(w) = {"deadline_expired"} <=> l < x
               /\ u = "due_within_30" =>
                    w \in {"due_within_30", "due_within_14", "due_within_7", "expired"}
               /\ u \in {"expired", "due_within_7", "due_within_14"} =>
                    w \in {"expired", "due_within_7", "due_within_14"}
<1>1. PICK n, k : n = l - t /\ k = l - x
  OBVIOUS
<1>2. n \in Int /\ k \in Int /\ k <= n
  BY <1>1
<1>3. PICK u, w, v : /\ u = compute_urgency(l, t) /\ w = compute_urgency(l, x)
                     /\ v = urgency_level(l, x)
  OBVIOUS
<1>4. /\ n < 0 => u = "expired"
      /\ 0 <= n /\ n <= 7 => u = "due_within_7"
      /\ 8 <= n /\ n <= 14 => u = "due_within_14"
      /\ 15 <= n /\ n <= 30 => u = "due_within_30"
      /\ 31 <= n => u = "safe"
  BY <1>1, <1>3, Scales
<1>5. /\ k < 0 => w = "expired" /\ v = "expired"
      /\ 0 <= k /\ k <= 7 => w = "due_within_7" /\ v = "critical"
      /\ 8 <= k /\ k <= 14 => w = "due_within_14" /\ v = "critical"
      /\ 15 <= k /\ k <= 30 => w = "due_within_30" /\ v = "urgent"
      /\ 31 <= k => w = "safe" /\ v \in {"urgent", "normal"}
  BY <1>1, <1>3, Scales
<1>6. UrgencyRank(w) >= UrgencyRank(u)
  BY <1>2, <1>4, <1>5, UrgencyRanks, SMT
<1>7. /\ w = "expired" <=> v = "expired"
      /\ w \in {"due_within_7", "due_within_14"} <=> v = "critical"
      /\ v = "normal" => w = "safe"
  BY <1>2, <1>5, SMT
<1>8. w = "expired" <=> l < x
  BY <1>1, <1>2, <1>5, SMT
<1>9. auto_reminder_types(w) = {"deadline_expired"} <=> w = "expired"
  BY SMT DEF auto_reminder_types
<1>10. /\ u = "due_within_30" => w \in {"due_within_30", "due_within_14", "due_within_7", "expired"}
       /\ u \in {"expired", "due_within_7", "due_within_14"} =>
            w \in {"expired", "due_within_7", "due_within_14"}
  BY <1>2, <1>4, <1>5, SMT
<1> QED BY <1>3, <1>6, <1>7, <1>8, <1>9, <1>10

\* The states that compute_escalation chooses from.
Triggered(a, urgency, has_handoff) ==
    {"none"}
    \cup {s \in {"handoff_started"} : has_handoff}
    \cup {s \in {"solicitor_recommended"} :
            \/ a.next_step = "seek_solicitor"
            \/ a.insufficient /\ a.strength \notin {"medium", "high"}}
    \cup {s \in {"urgent_deadline"} :
            urgency \in {"expired", "due_within_7", "due_within_14"}}
    \cup {s \in {"watch"} : urgency = "due_within_30"}
    \cup {s \in {"needs_review"} : a.insufficient \/ a.strength = "low"}

EscalationNames == {"solicitor_recommended", "handoff_started", "urgent_deadline",
                    "needs_review", "watch", "none"}

\* Every state has a rank.
LEMMA RanksInRange ==
    \A s \in EscalationNames : EscalationRank(s) \in 1..6
  BY EscalationRanks DEF EscalationNames

\* The chosen state is triggered, and none of higher priority is.
LEMMA HighestPriority ==
    ASSUME NEW a, NEW u, NEW h
    PROVE  /\ compute_escalation(a, u, h) \in Triggered(a, u, h)
           /\ \A s \in Triggered(a, u, h) :
                 EscalationRank(compute_escalation(a, u, h)) <= EscalationRank(s)
<1> DEFINE T == Triggered(a, u, h)
           S == {6 - EscalationRank(s) : s \in T}
<1>1. T \subseteq EscalationNames /\ "none" \in T
  BY DEF Triggered, EscalationNames
<1>2. \A s \in T : EscalationRank(s) \in 1..6
  BY <1>1, RanksInRange
<1>3. compute_escalation(a, u, h) =
        CHOOSE s \in T : \A t \in T : EscalationRank(s) <= EscalationRank(t)
  BY DEF compute_escalation, Triggered
<1> HIDE DEF T
<1>4. S # {} /\ S \subseteq 0..6
  BY <1>1, <1>2
<1>5. PICK m \in S : \A n \in S : n <= m
  <2> HIDE DEF S
  <2> QED BY <1>4, GreatestBelow
<1>6. PICK s \in T : m = 6 - EscalationRank(s)
  OBVIOUS
<1>7. ASSUME NEW t \in T PROVE EscalationRank(s) <= EscalationRank(t)
  <2>1. 6 - EscalationRank(t) <= 6 - EscalationRank(s)
    BY <1>5, <1>6
  <2> QED BY <1>2, <2>1
<1> QED BY <1>3, <1>7 DEF T

\* What was triggered stays so, or gives way to a state of higher priority.
LEMMA EscalationKept ==
    ASSUME NEW a, NEW u, NEW w, NEW h, NEW k, h => k,
           u = "due_within_30" =>
             w \in {"due_within_30", "due_within_14", "due_within_7", "expired"},
           u \in {"expired", "due_within_7", "due_within_14"} =>
             w \in {"expired", "due_within_7", "due_within_14"}
    PROVE  EscalationRank(compute_escalation(a, w, k)) <= EscalationRank(compute_escalation(a, u, h))
<1>1. PICK s : s = compute_escalation(a, u, h)
  OBVIOUS
<1>2. s \in Triggered(a, u, h)
  BY <1>1, HighestPriority
<1>3. \/ s \in Triggered(a, w, k)
      \/ s = "watch" /\ "urgent_deadline" \in Triggered(a, w, k)
  BY <1>2 DEF Triggered
<1>4. PICK t : t = compute_escalation(a, w, k)
  OBVIOUS
<1>5. \A r \in Triggered(a, w, k) : EscalationRank(t) <= EscalationRank(r)
  BY <1>4, HighestPriority
<1>6. CASE s \in Triggered(a, w, k)
  BY <1>1, <1>4, <1>5, <1>6
<1>7. CASE s = "watch" /\ "urgent_deadline" \in Triggered(a, w, k)
  <2>1. t \in EscalationNames
    BY <1>4, HighestPriority DEF Triggered, EscalationNames
  <2>2. EscalationRank(t) \in 1..6 /\ EscalationRank(t) <= EscalationRank("urgent_deadline")
    BY <1>5, <1>7, <2>1, RanksInRange
  <2> QED BY <1>1, <1>4, <1>7, <2>2, EscalationRanks
<1> QED BY <1>3, <1>6, <1>7

\* As days pass a saved case only becomes more urgent.
LEMMA Tightens ==
    ASSUME DatesMove, Undated \notin Int
    PROVE  UrgencyTightens
<1> SUFFICES ASSUME deadline_date # Undated
             PROVE  LET level == urgency_level(deadline_date, today') IN
                    /\ UrgencyRank(get_case_deadline') >= UrgencyRank(get_case_deadline)
                    /\ EscalationRank(get_escalation') <= EscalationRank(get_escalation)
                    /\ get_case_deadline' = "expired" <=> level = "expired"
                    /\ get_case_deadline' \in {"due_within_7", "due_within_14"} <=> level = "critical"
                    /\ level = "normal" => get_case_deadline' = "safe"
                    /\ auto_reminder_types(get_case_deadline') = {"deadline_expired"}
                          <=> deadline_date < today'
  BY DEF UrgencyTightens
<1>1. PICK u, w, v : /\ u = compute_urgency(deadline_date, today)
                     /\ w = compute_urgency(deadline_date, today')
                     /\ v = urgency_level(deadline_date, today')
  OBVIOUS
<1>2. /\ deadline_date' = deadline_date /\ deadline_date \in Int
      /\ today \in Int /\ today' \in Int /\ today <= today'
  BY DEF DatesMove
<1>3. get_case_deadline = u /\ get_case_deadline' = w
  BY <1>1, <1>2 DEF get_case_deadline
<1>4. /\ UrgencyRank(w) >= UrgencyRank(u)
      /\ w = "expired" <=> v = "expired"
      /\ w \in {"due_within_7", "due_within_14"} <=> v = "critical"
      /\ v = "normal" => w = "safe"
      /\ auto_reminder_types(w) = {"deadline_expired"} <=> deadline_date < today'
      /\ u = "due_within_30" =>
           w \in {"due_within_30", "due_within_14", "due_within_7", "expired"}
      /\ u \in {"expired", "due_within_7", "due_within_14"} =>
           w \in {"expired", "due_within_7", "due_within_14"}
  BY <1>1, <1>2, Rising
<1>5. get_escalation = compute_escalation(assessment, u, handoff)
  BY <1>3 DEF get_escalation
<1>6. get_escalation' = compute_escalation(assessment, w, handoff')
  BY <1>3 DEF get_escalation, DatesMove
<1>7. EscalationRank(get_escalation') <= EscalationRank(get_escalation)
  BY <1>4, <1>5, <1>6, EscalationKept DEF DatesMove
<1> QED BY <1>1, <1>3, <1>4, <1>7

\* For every termination of the calendar and every limit, whenever conciliation falls,
\* the limit is the day that the countable days, those before the termination that the
\* code adds, and the month after the certificate give, no earlier and no later; a
\* stored one is never later than today's, and a saved case only becomes more urgent
\* (deadline.py, reminders.py, timeline.py).
THEOREM DeadlinesStaySound == DeadlinesSpec => DeadlinesSound
<1>a. DeadlinesAssumption
  BY DeadlinesAssumption
<1>1. DeadlinesInit => DeadlinesInv
  BY <1>a, DeadlinesStart
<1>2. DeadlinesInv /\ [DeadlinesNext]_deadlineVars => DeadlinesInv'
  BY <1>a, DeadlinesStep
<1>3. DeadlinesInv => DeadlineExact
  BY <1>a, Exact
<1>4. DeadlinesInv /\ [DeadlinesNext]_deadlineVars => UrgencyTightens
  BY <1>a, DeadlinesStep, Tightens DEF DeadlinesAssumption
<1> QED BY <1>1, <1>2, <1>3, <1>4, PTL DEF DeadlinesSpec, DeadlinesSound

(***************************************************************************)
(* Verdicts, for any figures of the rules table and any facts.             *)
(*                                                                         *)
(* A step that strengthens one fact Improves the facts.  Under that, each  *)
(* quantity a handler reads is at least (SpeaksFor) or at most             *)
(* (SpeaksAgainst) what it was and all else is as it was, so one lemma per *)
(* handler shows that its verdict is Grown: sums, products, caps and       *)
(* counts are monotone, and no threshold or band steps down.               *)
(***************************************************************************)

\* Every fact is unstated or of its kind.
FactsTyped(t, F) ==
    /\ F = [f \in Reads[t] |-> F[f]]
    /\ \A f \in Reads[t] \cap (For \cup Against) : F[f] # Unstated => F[f] \in IF f = "delay" THEN Int ELSE Nat
    /\ "request_date" \in Reads[t] => F.request_date = Unstated \/ F.request_date \in Nat \ {0}

VerdictsInv == claim_type \in ClaimTypes /\ FactsTyped(claim_type, facts) /\ rules \subseteq AllRules

\* Nothing is stated at first.
LEMMA VerdictsInitInv == VerdictsInit => VerdictsInv
<1> SUFFICES ASSUME VerdictsInit PROVE VerdictsInv
  OBVIOUS
<1>1. claim_type \in ClaimTypes /\ DOMAIN Domains[claim_type] = Reads[claim_type] /\ rules = AllRules
  BY VerdictsAssumption DEF VerdictsInit
<1>2. facts = [f \in Reads[claim_type] |-> Unstated]
  BY <1>1 DEF VerdictsInit
<1> QED BY <1>1, <1>2 DEF VerdictsInv, FactsTyped

\* A user states facts of the kind that is asked for.
LEMMA VerdictsNextInv == VerdictsInv /\ [VerdictsNext]_verdictVars => VerdictsInv'
<1> SUFFICES ASSUME VerdictsInv, [VerdictsNext]_verdictVars PROVE VerdictsInv'
  OBVIOUS
<1>1. /\ claim_type \in ClaimTypes /\ FactsTyped(claim_type, facts)
      /\ DOMAIN Domains[claim_type] = Reads[claim_type]
  BY VerdictsAssumption DEF VerdictsInv
<1>2. ASSUME NEW g \in DOMAIN facts, NEW v \in Domains[claim_type][g], state_fact(g, v)
      PROVE  VerdictsInv'
  <2>1. g \in Reads[claim_type] /\ facts' = [facts EXCEPT ![g] = v] /\ UNCHANGED <<claim_type, rules>>
    BY <1>1, <1>2 DEF state_fact, FactsTyped
  <2>2. facts' = [f \in Reads[claim_type] |-> facts'[f]]
    BY <1>1, <2>1 DEF FactsTyped
  <2>3. facts'[g] = v /\ \A f \in Reads[claim_type] : f # g => facts'[f] = facts[f]
    BY <1>1, <2>1 DEF FactsTyped
  <2>4. g \in For \cup Against => v \in IF g = "delay" THEN Int ELSE Nat
    BY <1>1, <1>2, <2>1, VerdictsAssumption
  <2>5. g = "request_date" => v \in Nat \ {0}
    BY <1>1, <1>2, <2>1, VerdictsAssumption
  <2>6. \A f \in Reads[claim_type] \cap (For \cup Against) :
            facts'[f] # Unstated => facts'[f] \in IF f = "delay" THEN Int ELSE Nat
    BY <1>1, <2>3, <2>4 DEF FactsTyped
  <2>7. "request_date" \in Reads[claim_type] =>
            facts'.request_date = Unstated \/ facts'.request_date \in Nat \ {0}
    BY <1>1, <2>3, <2>5 DEF FactsTyped
  <2> QED BY <2>1, <2>2, <2>6, <2>7 DEF VerdictsInv, FactsTyped
<1>3. ASSUME NEW k \in SUBSET Relevant, set_rules(k) PROVE VerdictsInv'
  BY <1>3 DEF set_rules, VerdictsInv, FactsTyped
<1>4. CASE UNCHANGED verdictVars
  BY <1>4 DEF verdictVars, VerdictsInv, FactsTyped
<1> QED BY <1>2, <1>3, <1>4 DEF VerdictsNext

\* Facts that are as they were, or speak more strongly for the claimant.
Stronger(f, x, y) ==
    /\ x # Unstated /\ y # Unstated
    /\ (f \in For /\ y > x) \/ (f \in Against /\ y < x)
Improves ==
    /\ VerdictsInv /\ VerdictsInv' /\ UNCHANGED <<claim_type, rules>>
    /\ \A f \in Reads[claim_type] : facts'[f] = facts[f] \/ Stronger(f, facts[f], facts'[f])

\* What is stated stays stated.
LEMMA NoMoreStated ==
    ASSUME Improves, NEW f \in Reads[claim_type]
    PROVE  Stated(f) <=> Stated(f)'
BY DEF Improves, Stronger, Stated

\* A fact that speaks for no one is as it was.
LEMMA RestIsSame ==
    ASSUME Improves, NEW f \in Reads[claim_type], f \notin For \cup Against
    PROVE  facts'[f] = facts[f]
BY DEF Improves, Stronger

\* A quantity that speaks for the claimant has not fallen, missing or not.
LEMMA SpeaksFor ==
    ASSUME Improves, NEW f \in Reads[claim_type], f \in For
    PROVE  \E x, y \in Nat : Get(f, 0) = x /\ Get(f, 0)' = y /\ x <= y
<1>1. f # "delay" /\ f \notin Against
  BY DEF For, Against
<1>2. /\ facts[f] # Unstated => facts[f] \in Nat
      /\ facts'[f] # Unstated => facts'[f] \in Nat
  BY <1>1 DEF Improves, VerdictsInv, FactsTyped
<1> QED BY <1>1, <1>2 DEF Improves, Stronger, Get

\* One that speaks against has not risen, whatever stands in for it.
LEMMA SpeaksAgainst ==
    ASSUME Improves, NEW f \in Reads[claim_type], f \in Against, f # "delay", NEW d \in Nat
    PROVE  \E x, y \in Nat : Get(f, d) = x /\ Get(f, d)' = y /\ y <= x
<1>1. f \notin For
  BY DEF For, Against
<1>2. /\ facts[f] # Unstated => facts[f] \in Nat
      /\ facts'[f] # Unstated => facts'[f] \in Nat
  BY DEF Improves, VerdictsInv, FactsTyped
<1> QED BY <1>1, <1>2 DEF Improves, Stronger, Get

\* The figures of the rules table are natural numbers.
LEMMA RuleFigures ==
    /\ Rule.qualifying_period \in Nat /\ Rule.weeks_pay_cap \in Nat
    /\ Rule.basic_award_min \in Nat /\ Rule.compensatory_cap \in Nat
    /\ Rule.notice_qualifying_period \in Nat /\ Rule.max_notice \in Nat /\ Rule.max_notice > 0
    /\ Rule.max_weekly_hours \in Nat /\ Rule.daily_rest \in Nat /\ Rule.weekly_rest \in Nat
    /\ Rule.rest_break \in Nat /\ Rule.break_trigger \in Nat /\ Rule.total_leave \in Nat
    /\ Rule.decision_period \in Nat /\ Rule.day_one_anchor \in Nat
    /\ Rule.successive_years \in Nat /\ Rule.qualifying_weeks \in Nat
BY VerdictsAssumption

\* Products of natural numbers grow with their factors.
LEMMA Products ==
    ASSUME NEW a \in Nat, NEW b \in Nat, NEW c \in Nat, NEW d \in Nat, a <= b, c <= d
    PROVE  a * c \in Nat /\ b * d \in Nat /\ a * c <= b * d /\ (a * c > 0 => b * d > 0)
<1>1. PICK e \in Nat : b = a + e
  <2>1. b - a \in Nat /\ b = a + (b - a)
    OBVIOUS
  <2> QED BY <2>1
<1>2. PICK g \in Nat : d = c + g
  <2>1. d - c \in Nat /\ d = c + (d - c)
    OBVIOUS
  <2> QED BY <2>1
<1>3. b * d = a * c + a * g + e * c + e * g
  BY <1>1, <1>2, SMT
<1>4. a * c \in Nat /\ a * g \in Nat /\ e * c \in Nat /\ e * g \in Nat
  BY SMT
<1> QED BY <1>3, <1>4, SMT

\* The second verdict is no worse than the first.
Grown(v, w) == v.grounded => Rank(w.viable) >= Rank(v.viable) /\ w.estimate >= v.estimate

\* So many days are so many completed years, and reach n years.
CompletedYears(days) == (10000 * days) \div 3652425
Reaches(days, n) == 10000 * days >= n * 3652425

\* Longer service is as many completed years or more, and reaching n years is
\* having completed n.
LEMMA LongerService ==
    ASSUME NEW x \in Nat, NEW y \in Nat, x <= y
    PROVE  /\ CompletedYears(x) \in Nat /\ CompletedYears(y) \in Nat /\ CompletedYears(x) <= CompletedYears(y)
           /\ \A n \in Nat : Reaches(x, n) <=> CompletedYears(x) >= n
           /\ \A n \in Nat : Reaches(y, n) <=> CompletedYears(y) >= n
BY SMT DEF CompletedYears, Reaches

\* A no may become a yes, and an estimate may rise.
LEMMA GrownAnswers ==
    ASSUME NEW e \in Nat, NEW f \in Nat
    PROVE  /\ \A w : Grown(Invalid, w)
           /\ Grown(Answer("no", 0), Answer("no", f)) /\ Grown(Answer("no", 0), Answer("yes", f))
           /\ e <= f => Grown(Answer("yes", e), Answer("yes", f)) /\ Grown(Answer("no", e), Answer("no", f))
                        /\ Grown(Answer("no", e), Answer("yes", f))
<1>1. \A v, i : Answer(v, i).viable = v /\ Answer(v, i).grounded = TRUE /\ Answer(v, i).estimate = i
  BY DEF Answer
<1>2. Rank("no") = 0 /\ Rank("yes") = 1
  BY DEF Rank
<1>3. \A w : Grown(Invalid, w)
  BY DEF Grown, Invalid
<1>4. \A v, w, i, j : Rank(w) >= Rank(v) /\ j >= i => Grown(Answer(v, i), Answer(w, j))
  BY <1>1, Zenon DEF Grown
<1> QED BY <1>2, <1>3, <1>4

\* Years of service that grow.
LEMMA ServiceGrows ==
    ASSUME Improves, "service_days" \in Reads[claim_type]
    PROVE  \E x, y \in Nat :
              /\ x <= y /\ Get("service_days", 0) = x /\ Get("service_days", 0)' = y
              /\ YearsServed = CompletedYears(x) /\ YearsServed' = CompletedYears(y)
              /\ \A n \in Nat : /\ _years_service(n) <=> Reaches(x, n)
                                /\ _years_service(n)' <=> Reaches(y, n)
<1>1. PICK x, y \in Nat : Get("service_days", 0) = x /\ Get("service_days", 0)' = y /\ x <= y
  BY SpeaksFor DEF For
<1>2. YearsServed = CompletedYears(x) /\ YearsServed' = CompletedYears(y)
  BY <1>1, SMT DEF YearsServed, CompletedYears
<1>3. \A n \in Nat : /\ _years_service(n) <=> Reaches(x, n)
                     /\ _years_service(n)' <=> Reaches(y, n)
  BY <1>1, SMT DEF _years_service, Reaches
<1> QED BY <1>1, <1>2, <1>3

\* Who qualified still does.
LEMMA QualifiesStill ==
    ASSUME Improves, "service_days" \in Reads[claim_type], NEW n \in Nat
    PROVE  _years_service(n) => _years_service(n)'
<1>1. PICK x, y \in Nat : x <= y /\ (_years_service(n) <=> Reaches(x, n))
                                 /\ (_years_service(n)' <=> Reaches(y, n))
  BY ServiceGrows
<1>2. /\ CompletedYears(x) \in Nat /\ CompletedYears(y) \in Nat /\ CompletedYears(x) <= CompletedYears(y)
      /\ Reaches(x, n) <=> CompletedYears(x) >= n
      /\ Reaches(y, n) <=> CompletedYears(y) >= n
  BY <1>1, LongerService
<1> QED BY <1>1, <1>2

\* Half weeks per year at an age.
Band(age) == IF age >= 41 THEN 3 ELSE IF age >= 22 THEN 2 ELSE 1

\* The basic award grows with service, age and pay, under the cap of each.
LEMMA BasicAwardGrows ==
    ASSUME Improves, {"service_days", "age", "weekly_pay"} \subseteq Reads[claim_type]
    PROVE  BasicAward \in Nat /\ BasicAward' \in Nat /\ BasicAward <= BasicAward'
<1>1. PICK a, b \in Nat : a <= b /\ Get("age", 0) = a /\ Get("age", 0)' = b
  BY SpeaksFor DEF For
<1>2. PICK p, q \in Nat : p <= q /\ Get("weekly_pay", 0) = p /\ Get("weekly_pay", 0)' = q
  BY SpeaksFor DEF For
<1>3. PICK y, z \in Nat : y <= z /\ YearsServed = y /\ YearsServed' = z
  BY ServiceGrows, LongerService
<1>4. PICK y1, z1 \in Nat : y1 = Earlier(y, 20) /\ z1 = Earlier(z, 20) /\ y1 <= z1
  BY <1>3 DEF Earlier
<1>5. PICK p1, q1 \in Nat :
         p1 = Earlier(p, Rule.weeks_pay_cap) /\ q1 = Earlier(q, Rule.weeks_pay_cap) /\ p1 <= q1
  BY <1>2, RuleFigures DEF Earlier
<1>6. PICK a1, b1 \in Nat : a1 = Band(a) /\ b1 = Band(b) /\ a1 <= b1
  BY <1>1 DEF Band
<1>7. PICK m \in Nat : m = 2 * Rule.basic_award_min
  BY RuleFigures
<1>8. /\ (y1 * a1) * p1 \in Nat /\ (z1 * b1) * q1 \in Nat /\ (y1 * a1) * p1 <= (z1 * b1) * q1
  BY <1>4, <1>5, <1>6, Products
<1>9. BasicAward = Later((y1 * a1) * p1, m) /\ BasicAward' = Later((z1 * b1) * q1, m)
  BY <1>1, <1>2, <1>3, <1>4, <1>5, <1>6, <1>7 DEF BasicAward, Band
<1> QED BY <1>8, <1>9 DEF Later

\* Unfair dismissal: longer service, a higher age and more pay never hurt.
LEMMA UnfairDismissalGrows ==
    ASSUME Improves, claim_type = "unfair_dismissal"
    PROVE  Grown(assess_unfair_dismissal, assess_unfair_dismissal')
<1>1. {"dated", "service_days", "age", "weekly_pay"} \subseteq Reads[claim_type]
  BY DEF Reads
<1>2. PICK a, b \in Nat : a <= b /\ BasicAward = a /\ BasicAward' = b
  BY <1>1, BasicAwardGrows
<1>3. PICK p, q \in Nat : p <= q /\ Get("weekly_pay", 0) = p /\ Get("weekly_pay", 0)' = q
  BY <1>1, SpeaksFor DEF For
<1>4. PICK c, d \in Nat : /\ c <= d /\ c = Earlier(52 * p, Rule.compensatory_cap)
                          /\ d = Earlier(52 * q, Rule.compensatory_cap)
  BY <1>3, RuleFigures DEF Earlier
<1>5. PICK r, s \in BOOLEAN : /\ r <=> _years_service(Rule.qualifying_period)
                              /\ s <=> _years_service(Rule.qualifying_period)'
                              /\ r => s
  <2>1. _years_service(Rule.qualifying_period) => _years_service(Rule.qualifying_period)'
    BY <1>1, RuleFigures, QualifiesStill
  <2> QED BY <2>1
<1>6. PICK g \in BOOLEAN : /\ g <=> True("dated") /\ Stated("service_days")
                           /\ g <=> True("dated")' /\ Stated("service_days")'
  <2>1. /\ True("dated") <=> True("dated")'
        /\ Stated("service_days") <=> Stated("service_days")'
    BY <1>1, RestIsSame, NoMoreStated DEF True, For, Against
  <2> QED BY <2>1
<1>7. /\ ~ g => assess_unfair_dismissal = Invalid
      /\ g /\ ~ r => assess_unfair_dismissal = Answer("no", 0)
      /\ g /\ r => assess_unfair_dismissal = Answer("yes", a + 2 * c)
  BY <1>2, <1>3, <1>4, <1>5, <1>6, Zenon DEF assess_unfair_dismissal
<1>8. /\ g /\ ~ s => assess_unfair_dismissal' = Answer("no", 0)
      /\ g /\ s => assess_unfair_dismissal' = Answer("yes", b + 2 * d)
  BY <1>2, <1>3, <1>4, <1>5, <1>6, Zenon DEF assess_unfair_dismissal, Answer, Earlier
<1>9. a + 2 * c \in Nat /\ b + 2 * d \in Nat /\ a + 2 * c <= b + 2 * d
  BY <1>2, <1>4
<1> QED BY <1>5, <1>6, <1>7, <1>8, <1>9, GrownAnswers

\* How many of the years counted had reached an age.
YearsAt(age, years, from) == Cardinality({k \in 0 .. years - 1 : age - k >= from})

\* Later birthdays and more years count no fewer of them.
LEMMA ReachedGrows ==
    ASSUME NEW a \in Nat, NEW b \in Nat, a <= b, NEW y \in Nat, NEW z \in Nat, y <= z, NEW from \in Nat
    PROVE  /\ YearsAt(a, y, from) \in 0 .. y /\ YearsAt(b, z, from) \in 0 .. z
           /\ YearsAt(a, y, from) <= YearsAt(b, z, from)
           /\ a < from => YearsAt(a, y, from) = 0
<1> DEFINE R(e, n) == {k \in 0 .. n - 1 : e - k >= from}
<1>1. ASSUME NEW e \in Nat, NEW n \in Nat
      PROVE  IsFiniteSet(R(e, n)) /\ Cardinality(R(e, n)) \in Nat /\ Cardinality(R(e, n)) <= n
  <2>1. IsFiniteSet(0 .. n - 1) /\ Cardinality(0 .. n - 1) = n
    BY FS_Interval
  <2>2. R(e, n) \subseteq 0 .. n - 1
    OBVIOUS
  <2> QED BY <2>1, <2>2, FS_Subset, FS_CardinalityType
<1>2. R(a, y) \subseteq R(b, z)
  OBVIOUS
<1>3. Cardinality(R(a, y)) <= Cardinality(R(b, z))
  BY <1>1, <1>2, FS_Subset
<1>4. a < from => Cardinality(R(a, y)) = 0
  <2>1. a < from => R(a, y) = {}
    OBVIOUS
  <2> QED BY <2>1, FS_EmptySet
<1>5. /\ YearsAt(a, y, from) = Cardinality(R(a, y)) /\ YearsAt(b, z, from) = Cardinality(R(b, z))
      /\ Cardinality(R(a, y)) \in 0 .. y /\ Cardinality(R(b, z)) \in 0 .. z
  <2>1. YearsAt(a, y, from) = Cardinality(R(a, y)) /\ YearsAt(b, z, from) = Cardinality(R(b, z))
    BY DEF YearsAt
  <2> HIDE DEF R
  <2> QED BY <2>1, <1>1
<1> HIDE DEF R
<1> QED BY <1>3, <1>4, <1>5

\* The weeks of a redundancy payment grow, and are never more than if every year
\* counted at the present age.
LEMMA WeeksGrow ==
    ASSUME NEW a \in Nat, NEW b \in Nat, a <= b, NEW y \in Nat, NEW z \in Nat, y <= z
    PROVE  /\ redundancy_weeks(a, y) \in Nat /\ redundancy_weeks(b, z) \in Nat
           /\ redundancy_weeks(a, y) <= redundancy_weeks(b, z)
           /\ redundancy_weeks(a, y) <= y * Band(a)
<1>1. /\ redundancy_weeks(a, y) = y + YearsAt(a, y, 22) + YearsAt(a, y, 41)
      /\ redundancy_weeks(b, z) = z + YearsAt(b, z, 22) + YearsAt(b, z, 41)
  BY DEF redundancy_weeks, YearsAt
<1>2. ASSUME NEW from \in {22, 41}
      PROVE  /\ YearsAt(a, y, from) \in 0 .. y /\ YearsAt(b, z, from) \in 0 .. z
             /\ YearsAt(a, y, from) <= YearsAt(b, z, from)
             /\ a < from => YearsAt(a, y, from) = 0
  <2>1. from \in Nat
    OBVIOUS
  <2> QED BY <2>1, ReachedGrows
<1>3. PICK r, s, u, v \in Nat :
         /\ r = YearsAt(a, y, 22) /\ s = YearsAt(b, z, 22) /\ r <= s /\ r <= y /\ (a < 22 => r = 0)
         /\ u = YearsAt(a, y, 41) /\ v = YearsAt(b, z, 41) /\ u <= v /\ u <= y /\ (a < 41 => u = 0)
  BY <1>2
<1>4. y * 3 = y + y + y /\ y * 2 = y + y /\ y * 1 = y
  OBVIOUS
<1>5. y + r + u <= y * Band(a)
  BY <1>3, <1>4 DEF Band
<1> QED BY <1>1, <1>3, <1>5

\* Redundancy: longer service, a higher age and more pay never hurt.
LEMMA RedundancyGrows ==
    ASSUME Improves, claim_type = "redundancy"
    PROVE  Grown(assess_redundancy, assess_redundancy')
<1>1. {"dated", "service_days", "age", "weekly_pay"} \subseteq Reads[claim_type]
  BY DEF Reads
<1>2. PICK a, b \in Nat : a <= b /\ Get("age", 0) = a /\ Get("age", 0)' = b
  BY <1>1, SpeaksFor DEF For
<1>3. PICK p, q \in Nat : p <= q /\ Get("weekly_pay", 0) = p /\ Get("weekly_pay", 0)' = q
  BY <1>1, SpeaksFor DEF For
<1>4. PICK y, z \in Nat : y <= z /\ YearsServed = y /\ YearsServed' = z
  BY <1>1, ServiceGrows, LongerService
<1>5. PICK y1, z1 \in Nat : y1 = Earlier(y, 20) /\ z1 = Earlier(z, 20) /\ y1 <= z1
  BY <1>4 DEF Earlier
<1>6. PICK p1, q1 \in Nat :
         p1 = Earlier(p, Rule.weeks_pay_cap) /\ q1 = Earlier(q, Rule.weeks_pay_cap) /\ p1 <= q1
  BY <1>3, RuleFigures DEF Earlier
<1>7. PICK v, w \in Nat : v = redundancy_weeks(a, y1) /\ w = redundancy_weeks(b, z1) /\ v <= w
  BY <1>2, <1>5, WeeksGrow
<1>8. PICK c, d \in Nat : c = v * p1 /\ d = w * q1 /\ c <= d
  BY <1>6, <1>7, Products
<1>9. PICK r, s \in BOOLEAN : /\ r <=> _years_service(Rule.qualifying_period)
                              /\ s <=> _years_service(Rule.qualifying_period)'
                              /\ r => s
  <2>1. _years_service(Rule.qualifying_period) => _years_service(Rule.qualifying_period)'
    BY <1>1, RuleFigures, QualifiesStill
  <2> QED BY <2>1
<1>10. PICK g \in BOOLEAN : /\ g <=> True("dated") /\ Stated("service_days")
                            /\ g <=> True("dated")' /\ Stated("service_days")'
  <2>1. /\ True("dated") <=> True("dated")'
        /\ Stated("service_days") <=> Stated("service_days")'
    BY <1>1, RestIsSame, NoMoreStated DEF True, For, Against
  <2> QED BY <2>1
<1>11. /\ ~ g => assess_redundancy = Invalid
       /\ g /\ ~ r => assess_redundancy = Answer("no", 0)
       /\ g /\ r => assess_redundancy = YesIf(c > 0, c)
  BY <1>2, <1>3, <1>4, <1>5, <1>6, <1>7, <1>8, <1>9, <1>10, Zenon DEF assess_redundancy
<1>12. /\ g /\ ~ s => assess_redundancy' = Answer("no", 0)
       /\ g /\ s => assess_redundancy' = YesIf(d > 0, d)
  BY <1>2, <1>3, <1>4, <1>5, <1>6, <1>7, <1>8, <1>9, <1>10, Zenon
     DEF assess_redundancy, Answer, Earlier, YesIf, redundancy_weeks
<1> QED BY <1>8, <1>9, <1>10, <1>11, <1>12, GrownAnswers DEF YesIf

\* Unpaid wages: a larger amount never hurts.
LEMMA UnpaidWagesGrow ==
    ASSUME Improves, claim_type = "unpaid_wages"
    PROVE  Grown(assess_unpaid_wages, assess_unpaid_wages')
<1>1. {"dated", "amount"} \subseteq Reads[claim_type]
  BY DEF Reads
<1>2. PICK a, b \in Nat : a <= b /\ Get("amount", 0) = a /\ Get("amount", 0)' = b
  BY <1>1, SpeaksFor DEF For
<1>3. PICK g \in BOOLEAN : (g <=> True("dated")) /\ (g <=> True("dated")')
  <2>1. True("dated") <=> True("dated")'
    BY <1>1, RestIsSame DEF True, For, Against
  <2> QED BY <2>1
<1>4. /\ ~ g => assess_unpaid_wages = Invalid
      /\ g => assess_unpaid_wages = YesIf(a > 0, a) /\ assess_unpaid_wages' = YesIf(b > 0, b)
  BY <1>2, <1>3, Zenon DEF assess_unpaid_wages, YesIf, Answer
<1> QED BY <1>2, <1>3, <1>4, GrownAnswers DEF YesIf

\* The statutory notice.
TooShort(days) == ~ (12 * 10000 * days >= Rule.notice_qualifying_period * 3652425)
Notice(days, years) ==
    IF TooShort(days) THEN 0 ELSE IF years < 2 THEN 1 ELSE Earlier(years, Rule.max_notice)

\* Longer service never shortens the statutory notice: the weeks of two years and
\* more are no fewer than the one week of less.
LEMMA NoticeGrows ==
    ASSUME NEW x \in Nat, NEW y \in Nat, x <= y, NEW v \in Nat, NEW w \in Nat, v <= w
    PROVE  Notice(x, v) \in Nat /\ Notice(y, w) \in Nat /\ Notice(x, v) <= Notice(y, w)
<1>1. TooShort(y) => TooShort(x)
  BY RuleFigures, SMT DEF TooShort
<1> QED BY <1>1, RuleFigures DEF Notice, Earlier

\* Wrongful dismissal: longer service, longer notice agreed and less notice given
\* never hurt.
LEMMA WrongfulDismissalGrows ==
    ASSUME Improves, claim_type = "wrongful_dismissal"
    PROVE  Grown(assess_wrongful_dismissal, assess_wrongful_dismissal')
<1>1. {"dated", "service_days", "weekly_pay", "contractual_notice", "notice_given"}
         \subseteq Reads[claim_type]
  BY DEF Reads
<1>2. PICK p, q \in Nat : p <= q /\ Get("weekly_pay", 0) = p /\ Get("weekly_pay", 0)' = q
  BY <1>1, SpeaksFor DEF For
<1>3. PICK c, d \in Nat :
         c <= d /\ Get("contractual_notice", 0) = c /\ Get("contractual_notice", 0)' = d
  BY <1>1, SpeaksFor DEF For
<1>4. PICK e, f \in Nat : f <= e /\ Get("notice_given", 0) = e /\ Get("notice_given", 0)' = f
  BY <1>1, SpeaksAgainst DEF Against
<1>5. PICK x, y, v, w \in Nat :
         /\ x <= y /\ Get("service_days", 0) = x /\ Get("service_days", 0)' = y
         /\ v <= w /\ YearsServed = v /\ YearsServed' = w
         /\ _years_service(2) <=> v >= 2
         /\ _years_service(2)' <=> w >= 2
  BY <1>1, ServiceGrows, LongerService
<1>6. PICK s, t \in Nat : s = Notice(x, v) /\ t = Notice(y, w) /\ s <= t
  <2>1. Notice(x, v) \in Nat /\ Notice(y, w) \in Nat /\ Notice(x, v) <= Notice(y, w)
    BY <1>5, NoticeGrows
  <2> QED BY <2>1
<1>7. PICK a, b \in Nat : a <= b /\ a = Later(0, Later(s, c) - e) /\ b = Later(0, Later(t, d) - f)
  <2>1. PICK h, k \in Nat : h = Later(s, c) /\ k = Later(t, d) /\ h <= k
    BY <1>3, <1>6 DEF Later
  <2>2. /\ Later(0, h - e) \in Nat /\ Later(0, k - f) \in Nat
        /\ Later(0, h - e) <= Later(0, k - f)
    BY <1>4, <2>1 DEF Later
  <2> QED BY <2>1, <2>2
<1>8. a * p \in Nat /\ b * q \in Nat /\ a * p <= b * q
  BY <1>2, <1>7, Products
<1>9. PICK g \in BOOLEAN : /\ g <=> True("dated") /\ Stated("service_days")
                           /\ g <=> True("dated")' /\ Stated("service_days")'
  <2>1. /\ True("dated") <=> True("dated")'
        /\ Stated("service_days") <=> Stated("service_days")'
    BY <1>1, RestIsSame, NoMoreStated DEF True, For, Against
  <2> QED BY <2>1
<1>10. /\ s = IF ~ service_months(Rule.notice_qualifying_period) THEN 0
              ELSE IF ~ _years_service(2) THEN 1 ELSE Earlier(YearsServed, Rule.max_notice)
       /\ t = IF ~ service_months(Rule.notice_qualifying_period)' THEN 0
              ELSE IF ~ _years_service(2)' THEN 1 ELSE Earlier(YearsServed', Rule.max_notice)
  <2>1. /\ TooShort(x) <=> ~ service_months(Rule.notice_qualifying_period)
        /\ TooShort(y) <=> ~ service_months(Rule.notice_qualifying_period)'
    BY <1>5, SMT DEF TooShort, service_months
  <2>2. (v < 2 <=> ~ _years_service(2)) /\ (w < 2 <=> ~ _years_service(2)')
    BY <1>5
  <2> QED BY <1>5, <1>6, <2>1, <2>2, Zenon DEF Notice
<1>11. /\ ~ g => assess_wrongful_dismissal = Invalid
       /\ g => assess_wrongful_dismissal = YesIf(a > 0, a * p)
  BY <1>2, <1>3, <1>4, <1>7, <1>9, <1>10, Zenon DEF assess_wrongful_dismissal
<1>12. g => assess_wrongful_dismissal' = YesIf(b > 0, b * q)
  BY <1>2, <1>3, <1>4, <1>7, <1>9, <1>10, Zenon
     DEF assess_wrongful_dismissal, YesIf, Answer, Later, Earlier
<1> QED BY <1>7, <1>8, <1>9, <1>11, <1>12, GrownAnswers DEF YesIf

\* The violations found, by which of four rules are broken.
Broken(w, d, r, b) ==
    {v \in {"weekly_hours"} : w} \cup {v \in {"daily_rest"} : d}
    \cup {v \in {"weekly_rest"} : r} \cup {v \in {"rest_break"} : b}

\* All that an employer may break.
Violations == {"weekly_hours", "daily_rest", "weekly_rest", "rest_break"}

\* More violations are no fewer.
LEMMA MoreViolations ==
    ASSUME NEW v, NEW u, v \subseteq u, u \subseteq Violations
    PROVE  /\ v # {} => u # {}
           /\ Cardinality(v) \in Nat /\ Cardinality(u) \in Nat /\ Cardinality(v) <= Cardinality(u)
<1>1. Violations = {"weekly_hours"} \cup {"daily_rest"} \cup {"weekly_rest"} \cup {"rest_break"}
  BY DEF Violations
<1>2. IsFiniteSet(Violations)
  BY <1>1, FS_Singleton, FS_Union
<1>3. IsFiniteSet(u) /\ IsFiniteSet(v)
  BY <1>2, FS_Subset
<1> QED BY <1>3, FS_Subset, FS_CardinalityType

\* Working time: longer hours and shorter rests break no fewer rules.
LEMMA WorkingTimeGrows ==
    ASSUME Improves, claim_type = "working_time"
    PROVE  Grown(assess_working_time, assess_working_time')
<1>1. {"weekly_hours", "opted_out", "daily_rest", "weekly_rest", "shift_hours", "break_minutes"}
         \subseteq Reads[claim_type]
  BY DEF Reads
<1>2. PICK hours, hours1 \in Nat :
         hours <= hours1 /\ Get("weekly_hours", 0) = hours /\ Get("weekly_hours", 0)' = hours1
  BY <1>1, SpeaksFor DEF For
<1>3. PICK shift, shift1 \in Nat :
         shift <= shift1 /\ Get("shift_hours", 0) = shift /\ Get("shift_hours", 0)' = shift1
  BY <1>1, SpeaksFor DEF For
<1>4. PICK day, day1 \in Nat :
         /\ Get("daily_rest", Rule.daily_rest) = day
         /\ Get("daily_rest", Rule.daily_rest)' = day1 /\ day1 <= day
  BY <1>1, RuleFigures, SpeaksAgainst DEF Against
<1>5. PICK week, week1 \in Nat :
         /\ Get("weekly_rest", Rule.weekly_rest) = week
         /\ Get("weekly_rest", Rule.weekly_rest)' = week1 /\ week1 <= week
  BY <1>1, RuleFigures, SpeaksAgainst DEF Against
<1>6. PICK brk, brk1 \in Nat :
         /\ Get("break_minutes", Rule.rest_break) = brk
         /\ Get("break_minutes", Rule.rest_break)' = brk1 /\ brk1 <= brk
  BY <1>1, RuleFigures, SpeaksAgainst DEF Against
<1>7. True("opted_out") <=> True("opted_out")'
  BY <1>1, RestIsSame DEF True, For, Against
<1>8. PICK w, w1 \in BOOLEAN : /\ w <=> (hours > Rule.max_weekly_hours /\ ~ True("opted_out"))
                               /\ w1 <=> (hours1 > Rule.max_weekly_hours /\ ~ True("opted_out")')
                               /\ w => w1
  <2>1. hours > Rule.max_weekly_hours => hours1 > Rule.max_weekly_hours
    BY <1>2, RuleFigures
  <2> QED BY <1>7, <2>1
<1>9. PICK d, d1 \in BOOLEAN : (d <=> day < Rule.daily_rest) /\ (d1 <=> day1 < Rule.daily_rest) /\ (d => d1)
  <2>1. day < Rule.daily_rest => day1 < Rule.daily_rest
    BY <1>4, RuleFigures
  <2> QED BY <2>1
<1>10. PICK r, r1 \in BOOLEAN : (r <=> week < Rule.weekly_rest) /\ (r1 <=> week1 < Rule.weekly_rest) /\ (r => r1)
  <2>1. week < Rule.weekly_rest => week1 < Rule.weekly_rest
    BY <1>5, RuleFigures
  <2> QED BY <2>1
<1>11. PICK b, b1 \in BOOLEAN : /\ b <=> (shift > Rule.break_trigger /\ brk < Rule.rest_break)
                                /\ b1 <=> (shift1 > Rule.break_trigger /\ brk1 < Rule.rest_break)
                                /\ b => b1
  <2>1. shift > Rule.break_trigger => shift1 > Rule.break_trigger
    BY <1>3, RuleFigures
  <2>2. brk < Rule.rest_break => brk1 < Rule.rest_break
    BY <1>6, RuleFigures
  <2> QED BY <2>1, <2>2
<1> DEFINE v == Broken(w, d, r, b)
           u == Broken(w1, d1, r1, b1)
<1>12. /\ v # {} => u # {}
       /\ Cardinality(v) \in Nat /\ Cardinality(u) \in Nat /\ Cardinality(v) <= Cardinality(u)
  <2>1. (w => w1) /\ (d => d1) /\ (r => r1) /\ (b => b1)
    BY <1>8, <1>9, <1>10, <1>11
  <2>2. v \subseteq u /\ u \subseteq Violations
    BY <2>1 DEF Broken, Violations
  <2> HIDE DEF v, u
  <2> QED BY <2>2, MoreViolations
<1>13. assess_working_time = YesIf(v # {}, Cardinality(v))
  BY <1>2, <1>3, <1>4, <1>5, <1>6, <1>8, <1>9, <1>10, <1>11 DEF assess_working_time, Broken
<1>14. assess_working_time' = YesIf(u # {}, Cardinality(u))
  BY <1>2, <1>3, <1>4, <1>5, <1>6, <1>8, <1>9, <1>10, <1>11 DEF assess_working_time, Broken, YesIf, Answer
<1> HIDE DEF v, u
<1> QED BY <1>12, <1>13, <1>14, GrownAnswers DEF YesIf

\* Holiday pay: less leave taken, more untaken and more pay never hurt.
LEMMA HolidayPayGrows ==
    ASSUME Improves, claim_type = "holiday_pay"
    PROVE  Grown(assess_holiday_pay, assess_holiday_pay')
<1>1. {"leave_taken", "weekly_pay", "untaken", "ended"} \subseteq Reads[claim_type]
  BY DEF Reads
<1>2. PICK p, q \in Nat : p <= q /\ Get("weekly_pay", 0) = p /\ Get("weekly_pay", 0)' = q
  BY <1>1, SpeaksFor DEF For
<1>3. PICK x, y \in Nat : y <= x /\ Get("leave_taken", 0) = x /\ Get("leave_taken", 0)' = y
  BY <1>1, SpeaksAgainst DEF Against
<1>4. PICK s, t \in Nat : /\ s <= t /\ s = Later(0, Rule.total_leave - x)
                          /\ t = Later(0, Rule.total_leave - y)
  BY <1>3, RuleFigures DEF Later
<1>5. PICK u, v \in Nat : u <= v /\ Get("untaken", s) = u /\ Get("untaken", t)' = v
  <2>1. Stated("untaken") <=> Stated("untaken")'
    BY <1>1, NoMoreStated
  <2>2. PICK i, j \in Nat : i <= j /\ Get("untaken", 0) = i /\ Get("untaken", 0)' = j
    BY <1>1, SpeaksFor DEF For
  <2> QED BY <1>4, <2>1, <2>2 DEF Get, Stated
<1>6. PICK e \in BOOLEAN : (e <=> True("ended")) /\ (e <=> True("ended")')
  <2>1. True("ended") <=> True("ended")'
    BY <1>1, RestIsSame DEF True, For, Against
  <2> QED BY <2>1
<1>7. u * p \in Nat /\ v * q \in Nat /\ u * p <= v * q
  BY <1>2, <1>5, Products
<1>8. assess_holiday_pay = YesIf(s > 0 \/ (e /\ u > 0), u * p)
  BY <1>2, <1>3, <1>4, <1>5, <1>6, Zenon DEF assess_holiday_pay
<1>9. assess_holiday_pay' = YesIf(t > 0 \/ (e /\ v > 0), v * q)
  BY <1>2, <1>3, <1>4, <1>5, <1>6, Zenon DEF assess_holiday_pay, YesIf, Answer, Later, Get
<1>10. s > 0 \/ (e /\ u > 0) => t > 0 \/ (e /\ v > 0)
  BY <1>4, <1>5
<1> QED BY <1>7, <1>8, <1>9, <1>10, GrownAnswers, Zenon DEF YesIf

\* The day on which a decision is due is a day.
LEMMA DeadlineIsDay ==
    ASSUME NEW e \in Nat \ {0}, NEW n \in Nat
    PROVE  relativedelta_deadline(e, n) \in Int
BY MonthsLater DEF relativedelta_deadline

\* A verdict without an estimate that stays yes.
LEMMA YesStays ==
    ASSUME NEW b, NEW c, b => c
    PROVE  Grown(YesIf(b, 0), YesIf(c, 0))
BY GrownAnswers DEF YesIf

\* Flexible working: a later decision never hurts.
LEMMA FlexibleWorkingGrows ==
    ASSUME Improves, claim_type = "flexible_working"
    PROVE  Grown(assess_flexible_working, assess_flexible_working')
<1>1. {"refused", "consulted", "request_date", "decision_date"} \subseteq Reads[claim_type]
  BY DEF Reads
<1>2. /\ facts'.refused = facts.refused /\ facts'.consulted = facts.consulted
      /\ facts'.request_date = facts.request_date
  BY <1>1, RestIsSame DEF For, Against
<1>3. Stated("decision_date") <=> Stated("decision_date")'
  BY <1>1, NoMoreStated
<1>4. ASSUME Stated("request_date"), Stated("decision_date")
      PROVE  facts.decision_date > relativedelta_deadline(facts.request_date, Rule.decision_period)
             => facts'.decision_date > relativedelta_deadline(facts.request_date, Rule.decision_period)
  <2>1. PICK d, e \in Nat : d <= e /\ facts.decision_date = d /\ facts'.decision_date = e
    <3>1. PICK d, e \in Nat : d <= e /\ Get("decision_date", 0) = d /\ Get("decision_date", 0)' = e
      BY <1>1, SpeaksFor DEF For
    <3> QED BY <1>3, <1>4, <3>1 DEF Get, Stated
  <2>2. relativedelta_deadline(facts.request_date, Rule.decision_period) \in Int
    BY <1>1, <1>4, RuleFigures, DeadlineIsDay DEF Improves, VerdictsInv, FactsTyped, Stated
  <2> QED BY <2>1, <2>2
<1> DEFINE late(F) == /\ F.request_date # Unstated /\ F.decision_date # Unstated
                      /\ F.decision_date > relativedelta_deadline(F.request_date, Rule.decision_period)
           refused(F) == F.refused = TRUE
                         /\ ~ (IF F.consulted = Unstated THEN TRUE ELSE F.consulted)
<1>5. late(facts) => late(facts')
  BY <1>2, <1>3, <1>4 DEF Stated
<1>6. refused(facts) <=> refused(facts')
  BY <1>2
<1>7. assess_flexible_working = YesIf(refused(facts) \/ late(facts), 0)
  BY DEF assess_flexible_working, Stated, Get, True
<1>8. assess_flexible_working' = YesIf(refused(facts') \/ late(facts'), 0)
  BY DEF assess_flexible_working, Stated, Get, True
<1> HIDE DEF late, refused
<1> QED BY <1>5, <1>6, <1>7, <1>8, YesStays

\* Particulars of employment: later ones never hurt.
LEMMA ContractsGrow ==
    ASSUME Improves, claim_type = "employment_contracts"
    PROVE  Grown(assess_employment_contracts, assess_employment_contracts')
<1>1. {"received", "days_after_start"} \subseteq Reads[claim_type]
  BY DEF Reads
<1>2. True("received") <=> True("received")'
  BY <1>1, RestIsSame DEF True, For, Against
<1>3. PICK a, b \in Nat : a <= b /\ Get("days_after_start", 0) = a /\ Get("days_after_start", 0)' = b
  BY <1>1, SpeaksFor DEF For
<1>4. a > Rule.day_one_anchor => b > Rule.day_one_anchor
  BY <1>3, RuleFigures
<1>5. /\ assess_employment_contracts = YesIf(~ True("received") \/ a > Rule.day_one_anchor, 0)
      /\ assess_employment_contracts' = YesIf(~ True("received")' \/ b > Rule.day_one_anchor, 0)
  BY <1>3, Zenon DEF assess_employment_contracts, YesIf, Answer
<1> QED BY <1>2, <1>4, <1>5, YesStays, Zenon

\* Fixed-term work: more successive years never hurt.
LEMMA FixedTermGrows ==
    ASSUME Improves, claim_type = "fixed_term_workers"
    PROVE  Grown(assess_fixed_term_workers, assess_fixed_term_workers')
<1>1. {"less_favourable", "justified", "successive_years"} \subseteq Reads[claim_type]
  BY DEF Reads
<1>2. True("less_favourable") /\ ~ True("justified") <=> True("less_favourable")' /\ ~ True("justified")'
  BY <1>1, RestIsSame DEF True, For, Against
<1>3. PICK a, b \in Nat : a <= b /\ Get("successive_years", 0) = a /\ Get("successive_years", 0)' = b
  BY <1>1, SpeaksFor DEF For
<1>4. a >= Rule.successive_years => b >= Rule.successive_years
  BY <1>3, RuleFigures
<1>5. /\ assess_fixed_term_workers
           = YesIf((True("less_favourable") /\ ~ True("justified")) \/ a >= Rule.successive_years, 0)
      /\ assess_fixed_term_workers'
           = YesIf((True("less_favourable")' /\ ~ True("justified")') \/ b >= Rule.successive_years, 0)
  BY <1>3, Zenon DEF assess_fixed_term_workers, YesIf, Answer
<1> QED BY <1>2, <1>4, <1>5, YesStays, Zenon

\* Part-time work: nothing asked of it is a quantity.
LEMMA PartTimeGrows ==
    ASSUME Improves, claim_type = "part_time_workers"
    PROVE  Grown(assess_part_time_workers, assess_part_time_workers')
<1>1. {"less_favourable", "justified", "comparator"} \subseteq Reads[claim_type]
  BY DEF Reads
<1>2. /\ facts'.less_favourable = facts.less_favourable /\ facts'.justified = facts.justified
      /\ facts'.comparator = facts.comparator
  BY <1>1, RestIsSame DEF For, Against
<1> DEFINE worse(F) == F.less_favourable = TRUE /\ F.comparator = TRUE /\ ~ (F.justified = TRUE)
<1>3. /\ assess_part_time_workers = YesIf(worse(facts), 0)
      /\ assess_part_time_workers' = YesIf(worse(facts'), 0)
  BY DEF assess_part_time_workers, True
<1>4. worse(facts) => worse(facts')
  BY <1>2
<1> QED BY <1>3, <1>4, YesStays, Zenon

\* Agency work: more weeks never hurt.
LEMMA AgencyGrows ==
    ASSUME Improves, claim_type = "agency_workers"
    PROVE  Grown(assess_agency_workers, assess_agency_workers')
<1>1. {"weeks", "less_favourable"} \subseteq Reads[claim_type]
  BY DEF Reads
<1>2. True("less_favourable") <=> True("less_favourable")'
  BY <1>1, RestIsSame DEF True, For, Against
<1>3. PICK a, b \in Nat : a <= b /\ Get("weeks", 0) = a /\ Get("weeks", 0)' = b
  BY <1>1, SpeaksFor DEF For
<1>4. a >= Rule.qualifying_weeks => b >= Rule.qualifying_weeks
  BY <1>3, RuleFigures
<1>5. /\ assess_agency_workers = YesIf(a >= Rule.qualifying_weeks /\ True("less_favourable"), 0)
      /\ assess_agency_workers' = YesIf(b >= Rule.qualifying_weeks /\ True("less_favourable")', 0)
  BY <1>3, Zenon DEF assess_agency_workers, YesIf, Answer
<1> QED BY <1>2, <1>4, <1>5, YesStays, Zenon

\* A triage that keeps the claim open.
StillOpen == {"high", "medium"}

\* Constructive dismissal: more acts, and a shorter delay that is still a delay,
\* keep a claim that was worth making.
LEMMA TriageHolds ==
    ASSUME Improves, claim_type = "constructive_dismissal",
           assess_constructive_dismissal.viability \in StillOpen,
           Stated("delay") => facts'.delay = facts.delay \/ facts'.delay >= 0
    PROVE  assess_constructive_dismissal.viability' \in StillOpen
<1>1. {"acts", "express", "delay", "grievance", "letter_cites"} \subseteq Reads[claim_type]
  BY DEF Reads
<1>2. PICK a, b \in Nat : a <= b /\ Get("acts", 0) = a /\ Get("acts", 0)' = b
  BY <1>1, SpeaksFor DEF For
<1>3. /\ True("express") <=> True("express")'
      /\ True("grievance") <=> True("grievance")'
      /\ True("letter_cites") <=> True("letter_cites")'
  BY <1>1, RestIsSame DEF True, For, Against
<1>4. Stated("delay") <=> Stated("delay")'
  BY <1>1, NoMoreStated
<1>5. rules' = rules
  BY DEF Improves
<1> DEFINE opened == /\ "section_95" \in rules /\ a # 0 /\ Stated("delay") /\ ~ (facts.delay < 0)
                     /\ AffirmationRisk # "high" /\ (a >= 2 \/ True("express"))
<1>6. opened
  BY <1>2, Zenon DEF assess_constructive_dismissal, StillOpen
<1>7. PICK d, e \in Int : e <= d /\ 0 <= e /\ facts.delay = d /\ facts'.delay = e
  <2>1. facts.delay \in Int /\ facts'.delay \in Int
    BY <1>1, <1>4, <1>6 DEF Improves, VerdictsInv, FactsTyped, Stated, For, Against
  <2>2. facts'.delay <= facts.delay
    BY <1>1, <2>1 DEF Improves, Stronger, For
  <2>3. 0 <= facts'.delay
    BY <1>6, <2>1
  <2> QED BY <2>1, <2>2, <2>3
<1>8. AffirmationRisk' # "high"
  <2>1. d <= 28 \/ True("grievance")
    BY <1>6, <1>7 DEF AffirmationRisk
  <2>2. e <= 28 \/ True("grievance")'
    BY <1>3, <1>7, <2>1
  <2> QED BY <1>7, <2>2 DEF AffirmationRisk
<1>9. b # 0 /\ Stated("delay")' /\ ~ (facts'.delay < 0) /\ "section_95" \in rules'
      /\ (b >= 2 \/ True("express")')
  BY <1>2, <1>3, <1>4, <1>5, <1>6, <1>7
<1> QED BY <1>2, <1>8, <1>9, Zenon DEF assess_constructive_dismissal, StillOpen

\* Hence every handler.
LEMMA HandlersGrow ==
    ASSUME Improves, claim_type # "constructive_dismissal"
    PROVE  Grown(Handler(claim_type), Handler(claim_type)')
<1>1. claim_type' = claim_type /\ claim_type \in DOMAIN Reads
  BY VerdictsAssumption DEF Improves, VerdictsInv
<1>2. claim_type \in {"unfair_dismissal", "unpaid_wages", "wrongful_dismissal", "redundancy",
                      "working_time", "holiday_pay", "flexible_working", "employment_contracts",
                      "fixed_term_workers", "part_time_workers", "agency_workers"}
  BY <1>1 DEF Reads
<1>a. CASE claim_type = "unfair_dismissal"
  BY <1>1, <1>a, UnfairDismissalGrows DEF Handler
<1>b. CASE claim_type = "unpaid_wages"
  BY <1>1, <1>b, UnpaidWagesGrow DEF Handler
<1>c. CASE claim_type = "wrongful_dismissal"
  BY <1>1, <1>c, WrongfulDismissalGrows DEF Handler
<1>d. CASE claim_type = "redundancy"
  BY <1>1, <1>d, RedundancyGrows DEF Handler
<1>e. CASE claim_type = "working_time"
  BY <1>1, <1>e, WorkingTimeGrows DEF Handler
<1>f. CASE claim_type = "holiday_pay"
  BY <1>1, <1>f, HolidayPayGrows DEF Handler
<1>g. CASE claim_type = "flexible_working"
  BY <1>1, <1>g, FlexibleWorkingGrows DEF Handler
<1>h. CASE claim_type = "employment_contracts"
  BY <1>1, <1>h, ContractsGrow DEF Handler
<1>i. CASE claim_type = "fixed_term_workers"
  BY <1>1, <1>i, FixedTermGrows DEF Handler
<1>j. CASE claim_type = "part_time_workers"
  BY <1>1, <1>j, PartTimeGrows DEF Handler
<1>k. CASE claim_type = "agency_workers"
  BY <1>1, <1>k, AgencyGrows DEF Handler
<1> QED BY <1>2, <1>a, <1>b, <1>c, <1>d, <1>e, <1>f, <1>g, <1>h, <1>i, <1>j, <1>k

\* And the assessment, which asks the same rules of the same facts.
LEMMA CasesGrow ==
    ASSUME Improves, claim_type # "constructive_dismissal"
    PROVE  Grown(assess_case(claim_type), assess_case(claim_type)')
<1>1. Grown(Handler(claim_type), Handler(claim_type)')
  BY HandlersGrow
<1>2. claim_type' = claim_type /\ rules' = rules /\ DOMAIN facts = Reads[claim_type]
      /\ DOMAIN facts' = Reads[claim_type]
  BY DEF Improves, VerdictsInv, FactsTyped
<1>3. (\A f \in DOMAIN facts : ~ Stated(f)) <=> (\A f \in DOMAIN facts' : ~ Stated(f)')
  BY <1>2, NoMoreStated
<1>4. _require_rules(claim_type) <=> _require_rules(claim_type)'
  BY <1>2 DEF _require_rules
<1>5. ASSUME NEW w PROVE Grown(_missing_rules, w)
  BY DEF Grown, _missing_rules
<1>6. CASE (\A f \in DOMAIN facts : ~ Stated(f)) \/ ~ _require_rules(claim_type)
  <2>1. assess_case(claim_type) = _missing_rules
    BY <1>6 DEF assess_case
  <2> QED BY <1>5, <2>1
<1>7. CASE ~ ((\A f \in DOMAIN facts : ~ Stated(f)) \/ ~ _require_rules(claim_type))
  <2>1. assess_case(claim_type) = Handler(claim_type)
    BY <1>7, Zenon DEF assess_case
  <2>2. assess_case(claim_type)' = Handler(claim_type)'
    BY <1>3, <1>4, <1>7, Zenon DEF assess_case
  <2> QED BY <1>1, <2>1, <2>2
<1> QED BY <1>6, <1>7

\* A step that strengthens one fact leaves the others alone.
LEMMA StrongerStep ==
    ASSUME VerdictsInv, VerdictsInv', [VerdictsNext]_verdictVars,
           NEW f \in DOMAIN facts, rules' = rules, f \in For \cup Against,
           Stronger(f, facts[f], facts'[f])
    PROVE  Improves /\ \A h \in Reads[claim_type] : h # f => facts'[h] = facts[h]
<1> DEFINE others == \A h \in Reads[claim_type] : h # f => facts'[h] = facts[h]
<1>1. DOMAIN facts = Reads[claim_type]
  BY DEF VerdictsInv, FactsTyped
<1>2. ASSUME NEW g \in DOMAIN facts, NEW v \in Domains[claim_type][g], state_fact(g, v)
      PROVE  Improves /\ others
  <2>1. \A h \in Reads[claim_type] : h # g => facts'[h] = facts[h]
    BY <1>1, <1>2 DEF state_fact
  <2>2. CASE g = f
    BY <1>1, <1>2, <2>1, <2>2 DEF Improves, state_fact
  <2>3. CASE g # f
    <3>1. facts'[f] = facts[f] /\ facts[f] # Unstated
      BY <1>1, <2>1, <2>3 DEF Stronger
    <3>2. facts[f] \in Int
      BY <1>1, <3>1 DEF VerdictsInv, FactsTyped
    <3> QED BY <3>1, <3>2 DEF Stronger
  <2> QED BY <2>2, <2>3
<1>3. ASSUME UNCHANGED <<claim_type, facts>> PROVE Improves /\ others
  <2>1. \A h \in Reads[claim_type] : facts'[h] = facts[h]
    BY <1>3
  <2> QED BY <1>3, <2>1 DEF Improves
<1> QED BY <1>2, <1>3 DEF VerdictsNext, verdictVars, set_rules

\* No step of the user that strengthens a fact hurts the verdict.
LEMMA NeverHurts ==
    ASSUME VerdictsInv, VerdictsInv', [VerdictsNext]_verdictVars
    PROVE  [\A f \in DOMAIN facts :
        LET stronger == /\ Stated(f) /\ facts'[f] # Unstated
                        /\ \/ f \in For /\ facts'[f] > facts[f]
                           \/ f \in Against /\ facts'[f] < facts[f]
        IN  rules' = rules /\ f \in For \cup Against /\ stronger =>
            IF claim_type = "constructive_dismissal"
            THEN assess_constructive_dismissal.viability \in {"high", "medium"}
                    /\ (f = "delay" => facts'[f] >= 0)
                    => assess_constructive_dismissal.viability' \in {"high", "medium"}
            ELSE LET v == assess_case(claim_type) IN
                 v.grounded => /\ Rank(v'.viable) >= Rank(v.viable)
                               /\ v'.estimate >= v.estimate]_verdictVars
<1> SUFFICES ASSUME NEW f \in DOMAIN facts, rules' = rules, f \in For \cup Against,
                    Stronger(f, facts[f], facts'[f])
             PROVE  IF claim_type = "constructive_dismissal"
                    THEN assess_constructive_dismissal.viability \in {"high", "medium"}
                            /\ (f = "delay" => facts'[f] >= 0)
                            => assess_constructive_dismissal.viability' \in {"high", "medium"}
                    ELSE LET v == assess_case(claim_type) IN
                         v.grounded => /\ Rank(v'.viable) >= Rank(v.viable)
                                       /\ v'.estimate >= v.estimate
  BY DEF Stronger, Stated
<1>1. Improves /\ \A h \in Reads[claim_type] : h # f => facts'[h] = facts[h]
  BY StrongerStep
<1>2. CASE claim_type = "constructive_dismissal"
  <2> SUFFICES ASSUME assess_constructive_dismissal.viability \in {"high", "medium"},
                      f = "delay" => facts'[f] >= 0
               PROVE  assess_constructive_dismissal.viability' \in {"high", "medium"}
    BY <1>2
  <2>1. f # "delay" => facts'.delay = facts.delay
    BY <1>1, <1>2 DEF Reads
  <2> QED BY <1>1, <1>2, <2>1, TriageHolds DEF StillOpen
<1>3. CASE claim_type # "constructive_dismissal"
  BY <1>1, <1>3, CasesGrow DEF Grown
<1> QED BY <1>2, <1>3

\* A number of days is two years in one unit just when it is in the others:
\* 731 days is the first that is.
LEMMA UnitsAgree ==
    ASSUME NEW d \in Nat
    PROVE  /\ 10000 * d >= 2 * 3652425 <=> 100 * d >= 2 * 36525
           /\ 10000 * d >= 2 * 3652425 <=> 100 * d >= 24 * 3044
  BY SMT

\* No handler says yes without grounds.
LEMMA YesIsGrounded ==
    ASSUME claim_type \in DOMAIN Reads, claim_type # "constructive_dismissal",
           Handler(claim_type).viable = "yes"
    PROVE  Handler(claim_type).grounded
<1> DEFINE Safe(v) == v.viable = "yes" => v.grounded
<1>1. Safe(Invalid) /\ (\A v, e : Safe(Answer(v, e))) /\ (\A c, e : Safe(YesIf(c, e)))
  BY DEF Invalid, Answer, YesIf
<1>2. claim_type \in {"unfair_dismissal", "unpaid_wages", "wrongful_dismissal", "redundancy",
                      "working_time", "holiday_pay", "flexible_working", "employment_contracts",
                      "fixed_term_workers", "part_time_workers", "agency_workers"}
  BY DEF Reads
<1> SUFFICES Safe(Handler(claim_type))
  OBVIOUS
<1> HIDE DEF Safe
<1>4. /\ Safe(assess_unfair_dismissal) /\ Safe(assess_unpaid_wages)
      /\ Safe(assess_wrongful_dismissal) /\ Safe(assess_redundancy)
  BY <1>1, Zenon DEF assess_unfair_dismissal, assess_unpaid_wages, assess_wrongful_dismissal,
                     assess_redundancy
<1>5. /\ Safe(assess_working_time) /\ Safe(assess_holiday_pay)
      /\ Safe(assess_flexible_working) /\ Safe(assess_employment_contracts)
  BY <1>1, Zenon DEF assess_working_time, assess_holiday_pay, assess_flexible_working,
                     assess_employment_contracts
<1>6. /\ Safe(assess_fixed_term_workers) /\ Safe(assess_part_time_workers)
      /\ Safe(assess_agency_workers)
  BY <1>1, Zenon DEF assess_fixed_term_workers, assess_part_time_workers, assess_agency_workers
<1>a. CASE claim_type = "unfair_dismissal"
  BY <1>4, <1>5, <1>6, <1>a DEF Handler
<1>b. CASE claim_type = "unpaid_wages"
  BY <1>4, <1>5, <1>6, <1>b DEF Handler
<1>c. CASE claim_type = "wrongful_dismissal"
  BY <1>4, <1>5, <1>6, <1>c DEF Handler
<1>d. CASE claim_type = "redundancy"
  BY <1>4, <1>5, <1>6, <1>d DEF Handler
<1>e. CASE claim_type = "working_time"
  BY <1>4, <1>5, <1>6, <1>e DEF Handler
<1>f. CASE claim_type = "holiday_pay"
  BY <1>4, <1>5, <1>6, <1>f DEF Handler
<1>g. CASE claim_type = "flexible_working"
  BY <1>4, <1>5, <1>6, <1>g DEF Handler
<1>h. CASE claim_type = "employment_contracts"
  BY <1>4, <1>5, <1>6, <1>h DEF Handler
<1>i. CASE claim_type = "fixed_term_workers"
  BY <1>4, <1>5, <1>6, <1>i DEF Handler
<1>j. CASE claim_type = "part_time_workers"
  BY <1>4, <1>5, <1>6, <1>j DEF Handler
<1>k. CASE claim_type = "agency_workers"
  BY <1>4, <1>5, <1>6, <1>k DEF Handler
<1> QED BY <1>2, <1>a, <1>b, <1>c, <1>d, <1>e, <1>f, <1>g, <1>h, <1>i, <1>j, <1>k

\* What the pipeline says of a dismissal agrees with the handlers.
LEMMA UnfairDismissalCarried ==
    ASSUME VerdictsInv, claim_type = "unfair_dismissal"
    PROVE  /\ Stated("service_days") =>
                 (_years_service(2) <=> check_qualifying_period(facts.service_days, 2, "years"))
                 /\ (_years_service(2) <=> check_qualifying_period(facts.service_days, 24, "months"))
           /\ detect_day_one_exception => pipeline_assess.viable # "no"
           /\ pipeline_assess.viable # "none" => compute_value_range.low <= compute_value_range.high
           /\ assess_redundancy.estimate <= BasicAward
<1>1. /\ {"service_days", "age", "weekly_pay"} \subseteq Reads[claim_type]
      /\ {"service_days", "age", "weekly_pay"} \subseteq For /\ "delay" \notin Reads[claim_type]
  BY DEF Reads, For
<1>2. \A f \in {"service_days", "age", "weekly_pay"} : Stated(f) => facts[f] \in Nat
  BY <1>1 DEF VerdictsInv, FactsTyped, Stated
<1>3. PICK x, a, p \in Nat :
         Get("service_days", 0) = x /\ Get("age", 0) = a /\ Get("weekly_pay", 0) = p
  BY <1>2 DEF Get, Stated
<1>4. ASSUME Stated("service_days")
      PROVE  /\ _years_service(2) <=> check_qualifying_period(facts.service_days, 2, "years")
             /\ _years_service(2) <=> check_qualifying_period(facts.service_days, 24, "months")
  <2>1. facts.service_days = x
    BY <1>3, <1>4 DEF Get, Stated
  <2>2. _years_service(2) <=> 10000 * x >= 2 * 3652425
    BY <1>3, SMT DEF _years_service
  <2>3. /\ check_qualifying_period(x, 2, "years") <=> 100 * x >= 2 * 36525
        /\ check_qualifying_period(x, 24, "months") <=> 100 * x >= 24 * 3044
    BY DEF check_qualifying_period
  <2>4. /\ 10000 * x >= 2 * 3652425 <=> 100 * x >= 2 * 36525
        /\ 10000 * x >= 2 * 3652425 <=> 100 * x >= 24 * 3044
    BY UnitsAgree
  <2> QED BY <2>1, <2>2, <2>3, <2>4, SMT
<1>5. detect_day_one_exception => pipeline_assess.viable # "no"
  BY DEF pipeline_assess, build_deterministic_context
<1>6. compute_value_range.low <= compute_value_range.high
  <2>1. PICK p1 \in Nat : p1 = Earlier(p, Rule.weeks_pay_cap)
    BY RuleFigures DEF Earlier
  <2>2. PICK y \in Nat : y = Earlier(100 * x, 20 * 36525)
    BY DEF Earlier
  <2>3. PICK c \in Nat : c = IF p > 0 THEN Earlier(Rule.compensatory_cap, 52 * p)
                             ELSE Rule.compensatory_cap
    BY RuleFigures DEF Earlier
  <2>4. y * p1 + 18262 \in Nat
    OBVIOUS
  <2>5. PICK l \in Int : l = (y * p1 + 18262) \div 36525
    BY <2>4
  <2>6. compute_value_range = [low |-> l, high |-> l + c]
    BY <1>3, <2>1, <2>2, <2>3, <2>5, SMT DEF compute_value_range
  <2> QED BY <2>6
<1>7. assess_redundancy.estimate <= BasicAward
  <2>1. PICK y \in Nat : y = YearsServed
    BY <1>3, LongerService DEF YearsServed, CompletedYears
  <2>2. PICK y1 \in Nat : y1 = Earlier(y, 20)
    BY DEF Earlier
  <2>3. PICK p1 \in Nat : p1 = Earlier(p, Rule.weeks_pay_cap)
    BY RuleFigures DEF Earlier
  <2>4. PICK w \in Nat : w = redundancy_weeks(a, y1) /\ w <= y1 * Band(a)
    BY WeeksGrow
  <2>5. PICK m \in Nat : m = 2 * Rule.basic_award_min
    BY RuleFigures
  <2>6. PICK k \in Nat : k = y1 * Band(a)
    BY DEF Band
  <2>7. w * p1 \in Nat /\ k * p1 \in Nat /\ w * p1 <= k * p1
    BY <2>4, <2>6, Products
  <2>8. BasicAward = Later(k * p1, m)
    BY <1>3, <2>1, <2>2, <2>3, <2>5, <2>6 DEF BasicAward, Band
  <2>9. assess_redundancy.estimate = 0 \/ assess_redundancy.estimate = w * p1
    <3>1. \/ assess_redundancy = Invalid \/ assess_redundancy = Answer("no", 0)
          \/ assess_redundancy = YesIf(w * p1 > 0, w * p1)
      BY <1>3, <2>1, <2>2, <2>3, <2>4, Zenon DEF assess_redundancy
    <3> QED BY <3>1 DEF Invalid, Answer, YesIf
  <2> QED BY <2>7, <2>8, <2>9 DEF Later
<1> QED BY <1>4, <1>5, <1>6, <1>7

\* Whatever facts are stated and whatever rules are missing, verdicts are carried.
LEMMA CarriedByInv == VerdictsInv => VerdictsCarried
<1> SUFFICES ASSUME VerdictsInv PROVE VerdictsCarried
  OBVIOUS
<1>1. claim_type \in DOMAIN Reads
  BY VerdictsAssumption DEF VerdictsInv
<1>2. CASE claim_type = "constructive_dismissal"
  <2>1. assess_constructive_dismissal.action = "draft_et1_particulars"
          => "section_95" \in rules /\ Stated("letter_cites") /\ AffirmationRisk # "high"
    BY DEF assess_constructive_dismissal
  <2> QED BY <1>2, <2>1 DEF VerdictsCarried
<1>3. CASE claim_type # "constructive_dismissal"
  <2> DEFINE v == assess_case(claim_type)
  <2>1. v = _missing_rules \/ (Required[claim_type] \subseteq rules /\ v = Handler(claim_type))
    BY DEF assess_case, _require_rules
  <2>2. v.grounded \/ v.estimate > 0 => Required[claim_type] \subseteq rules
    BY <2>1 DEF _missing_rules
  <2>3. v.viable = "yes" => v.grounded
    BY <1>1, <1>3, <2>1, YesIsGrounded DEF _missing_rules
  <2>4. workflow_diagnosis.payment_required => v.viable = "yes"
    BY Zenon DEF workflow_diagnosis
  <2> HIDE DEF v
  <2>5. /\ v.grounded \/ v.estimate > 0 => Required[claim_type] \subseteq rules
        /\ workflow_diagnosis.payment_required => v.grounded /\ v.viable = "yes"
    BY <2>2, <2>3, <2>4
  <2> QED BY <1>3, <2>5, UnfairDismissalCarried, Zenon DEF VerdictsCarried, v
<1> QED BY <1>2, <1>3

\* For every claim type, figures of the rules table and facts a user may state, the
\* engines give no verdict their rules do not carry, agree with one another, and a fact
\* that speaks more strongly for the claimant never turns a yes into a no nor lowers an
\* estimate (employment_assessment.py, assess_logic.py, constructive_dismissal.py).
THEOREM VerdictsStaySound == VerdictsSpec => VerdictsSound
<1>1. VerdictsInit => VerdictsInv
  BY VerdictsInitInv
<1>2. VerdictsInv /\ [VerdictsNext]_verdictVars => VerdictsInv'
  BY VerdictsNextInv
<1>3. VerdictsInv => VerdictsCarried
  BY CarriedByInv
<1>4. ASSUME VerdictsInv, VerdictsInv', [VerdictsNext]_verdictVars
      PROVE  [\A f \in DOMAIN facts :
        LET stronger == /\ Stated(f) /\ facts'[f] # Unstated
                        /\ \/ f \in For /\ facts'[f] > facts[f]
                           \/ f \in Against /\ facts'[f] < facts[f]
        IN  rules' = rules /\ f \in For \cup Against /\ stronger =>
            IF claim_type = "constructive_dismissal"
            THEN assess_constructive_dismissal.viability \in {"high", "medium"}
                    /\ (f = "delay" => facts'[f] >= 0)
                    => assess_constructive_dismissal.viability' \in {"high", "medium"}
            ELSE LET v == assess_case(claim_type) IN
                 v.grounded => /\ Rank(v'.viable) >= Rank(v.viable)
                               /\ v'.estimate >= v.estimate]_verdictVars
  BY <1>4, NeverHurts
<1> QED BY <1>1, <1>2, <1>3, <1>4, PTL DEF VerdictsSpec, VerdictsSound, StrongerFactsNeverHurt
=============================================================================
