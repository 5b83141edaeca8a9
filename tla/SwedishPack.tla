---------------------------- MODULE SwedishPack ----------------------------
(***************************************************************************)
(* The Swedish pack of ingestion/riksdagen: fixtures of consolidated acts  *)
(* fetched from the Riksdag's open data, and the seed that turns them into *)
(* legislation rows, corpus chunks and draft rules.  The fetcher, the seed *)
(* and the synchronisation of corpus_chunks are scripts that run as        *)
(* processes of their own.                                                 *)
(*                                                                         *)
(* The text of an act is the sequence of its sections; amendments insert,  *)
(* repeal and rewrite sections.  A candidate rule is known by its key.     *)
(***************************************************************************)
EXTENDS Naturals, Sequences

CONSTANTS
    Acts,         \* FIXTURE_SLUGS
    SourceActs,   \* the acts that sources.yaml lists
    Versions,     \* texts an act can have
    Sections,     \* Sections[t]: the sections of text t, a sequence of [ref, body]
    Candidates,   \* rule keys of rules_manifest.yaml
    ActOf,        \* ActOf[k]: the act whose SFS number candidate k names
    Literal,      \* Literal[k]: the texts in which k's quote or value is found
    NoText

ASSUME SwedishPackAssumption ==
    /\ \A k \in Candidates : Literal[k] \subseteq Versions
    /\ NoText \notin Versions
    \* The text of a section begins with its number.
    /\ \A t, u \in Versions : \A i \in DOMAIN Sections[t], j \in DOMAIN Sections[u] :
          Sections[t][i].body = Sections[u][j].body => Sections[t][i].ref = Sections[u][j].ref

VARIABLES
    published,    \* published[a]: the text at data.riksdagen.se, NoText when it is unavailable
    fixture,      \* fixture[a]: the text file of the bundle
    seeding,      \* the running seed: where it is, the texts it read first and those it parsed
    sections,     \* sections[a]: the act's legislation rows, by chunk_index
    chunks,       \* rows of corpus_chunks
    seRules,      \* seRules[k]: the rules row of candidate k
    signedText,   \* signedText[k]: the text k's row was taken from when it was signed off
    seededText    \* seededText[a]: the text the last completed seed stored

packVars ==
    <<published, fixture, seeding, sections, chunks, seRules,
      signedText, seededText>>

NotSeeding == [at |-> "idle", map |-> [a \in Acts |-> NoText], parsed |-> [a \in Acts |-> NoText]]
NoRule == [text |-> NoText, status |-> "absent"]

PackInit ==
    /\ published \in [Acts -> Versions]
    /\ fixture = published
    /\ seeding = NotSeeding
    /\ sections = [a \in Acts |-> <<>>]
    /\ chunks = {}
    /\ seRules = [k \in Candidates |-> NoRule]
    /\ signedText = [k \in Candidates |-> NoText]
    /\ seededText = [a \in Acts |-> NoText]

-----------------------------------------------------------------------------
(* The fixtures.                                                           *)

\* The Riksdag amends an act; its page comes and goes.
AmendAct(a) ==
    /\ published' \in {[published EXCEPT ![a] = t] : t \in Versions \cup {NoText}}
    /\ UNCHANGED <<fixture, seeding, sections, chunks, seRules,
                   signedText, seededText>>

\* A request that answers, and a listing with exactly one entry of the known title.
_fetch(a) == published[a] # NoText

\* Four files are written one after the other, of which only the text differs from
\* fetch to fetch.  A script that dies before the third file leaves the old one.
_write_bundle(a) ==
    /\ _fetch(a)
    /\ fixture' = [fixture EXCEPT ![a] = published[a]]
    /\ UNCHANGED <<published, seeding, sections, chunks, seRules,
                   signedText, seededText>>

-----------------------------------------------------------------------------
(* The seed.                                                               *)

\* The texts the rules are looked for in.
_fixture_text_map ==
    /\ seeding.at = "idle"
    /\ seeding' = [NotSeeding EXCEPT !.at = "parse", !.map = fixture]
    /\ UNCHANGED <<published, fixture, sections, chunks, seRules,
                   signedText, seededText>>

\* The bundle is read from disk a second time, act by act, and may be newer.
parse_fixture_bundle(a) ==
    /\ seeding.at = "parse" /\ seeding.parsed[a] = NoText
    /\ seeding' = [seeding EXCEPT !.parsed[a] = fixture[a]]
    /\ UNCHANGED <<published, fixture, sections, chunks, seRules,
                   signedText, seededText>>

\* A listing of the bundle without exactly one entry of the act ends the seed.
resolve_listing_item(a) ==
    /\ seeding.at = "parse" /\ seeding.parsed[a] = NoText
    /\ seeding' = NotSeeding
    /\ UNCHANGED <<published, fixture, sections, chunks, seRules, signedText, seededText>>

\* The text in sections, without the transitional provisions, in their order.
split_sections(t) == Sections[t]

\* ON CONFLICT (source_url, chunk_index): the text is replaced, section_ref is not
\* in the list; rows past the end of a shorter text stay.
upsert_legislation(old, text) ==
    [i \in DOMAIN old \cup DOMAIN text |->
        [ref |-> IF i \in DOMAIN old THEN old[i].ref ELSE text[i].ref,
         body |-> IF i \in DOMAIN text THEN text[i].body ELSE old[i].body]]

\* Mutant: the position is left out, so that an inserted section moves no other.
HashWithoutPosition(a, i, ref, body) == <<a, 0, body>>

\* sha256 of source_url, chunk_index and text; the reference is no part of it.
SeedHash(a, i, ref, body) == <<a, i, body>>
SyncHash(a, i, ref, body) == <<a, i, body>>

\* ON CONFLICT (chunk_hash) DO NOTHING.
InsertChunks(new) ==
    chunks \cup {c \in new : \A d \in chunks : d.hash # c.hash}

SeedChunk(a, t, i) ==
    LET section == split_sections(t)[i] IN
    [hash |-> SeedHash(a, i, section.ref, section.body), act |-> a,
     ref |-> section.ref, body |-> section.body, domain |-> "employment_se"]

SeedChunks ==
    UNION {{SeedChunk(a, seeding.parsed[a], i) : i \in DOMAIN split_sections(seeding.parsed[a])} :
           a \in Acts}

_literal_in_fixture(k) == ActOf[k] \in Acts /\ seeding.map[ActOf[k]] \in Literal[k]

\* The row of a rule whose literal was found: it replaces every column of the one row
\* of the key, since effective_from is the same for every text of an act.
SeededRule(k) == [text |-> seeding.map[ActOf[k]], status |-> "DRAFT-UNVALIDATED"]

\* Parked candidates, boundary notes among them, leave the table alone.
_seed_rules ==
    [k \in Candidates |-> IF _literal_in_fixture(k) THEN SeededRule(k) ELSE seRules[k]]

\* The rows of legal_sources the transaction writes before it looks them up.
legal_sources == SourceActs
_lookup_legal_source_id(a) == a \in legal_sources

\* The transaction: jurisdiction, sources, legislation with its chunks, rules.  An
\* act without a source raises, and nothing is stored.
seed_employment_se ==
    /\ seeding.at = "parse" /\ \A a \in Acts : seeding.parsed[a] # NoText
    /\ seeding' = NotSeeding
    /\ \/ /\ \A a \in Acts : _lookup_legal_source_id(a)
          /\ sections' = [a \in Acts |-> upsert_legislation(sections[a], split_sections(seeding.parsed[a]))]
          /\ chunks' = InsertChunks(SeedChunks)
          /\ seRules' = _seed_rules
          /\ seededText' = seeding.parsed
       \/ UNCHANGED <<sections, chunks, seRules, seededText>>
    /\ UNCHANGED <<published, fixture, signedText>>

-----------------------------------------------------------------------------
(* Other writers of the same tables.                                       *)

\* sync_corpus_chunks: every legislation row whose hash is new, as British law.
SyncChunk(a, i) ==
    LET row == sections[a][i] IN
    [hash |-> SyncHash(a, i, row.ref, row.body), act |-> a,
     ref |-> row.ref, body |-> row.body, domain |-> "employment_uk"]

sync_corpus_chunks ==
    /\ chunks' = InsertChunks(UNION {{SyncChunk(a, i) : i \in DOMAIN sections[a]} : a \in Acts})
    /\ UNCHANGED <<published, fixture, seeding, sections, seRules,
                   signedText, seededText>>

\* Migration 034: a status outside the vocabulary becomes unverified.
normalise_statuses ==
    /\ seRules' = [k \in Candidates |->
          IF seRules[k].status = "DRAFT-UNVALIDATED" THEN [seRules[k] EXCEPT !.status = "unverified"]
          ELSE seRules[k]]
    /\ UNCHANGED <<published, fixture, seeding, sections, chunks,
                   signedText, seededText>>

\* The lawyer's sign-off (lawyer_signoff_gate of the manifest), which no code makes.
SignOff(k) ==
    /\ seRules[k].status \in {"DRAFT-UNVALIDATED", "unverified"}
    /\ seRules' = [seRules EXCEPT ![k].status = "verified"]
    /\ signedText' = [signedText EXCEPT ![k] = seRules[k].text]
    /\ UNCHANGED <<published, fixture, seeding, sections, chunks,
                   seededText>>

PackNext ==
    \/ \E a \in Acts : AmendAct(a) \/ _write_bundle(a) \/ parse_fixture_bundle(a)
    \/ \E a \in Acts : resolve_listing_item(a)
    \/ _fixture_text_map \/ seed_employment_se
    \/ sync_corpus_chunks \/ normalise_statuses
    \/ \E k \in Candidates : SignOff(k)

PackSpec == PackInit /\ [][PackNext]_packVars

-----------------------------------------------------------------------------
(* Properties.                                                             *)

(***************************************************************************)
(* However the seed, the synchronisation and amendments interleave, no     *)
(* Swedish section enters the corpus as British law or under another       *)
(* section's reference, although the legislation row it stands in may      *)
(* carry one, and every section of the text stored last is there: the two  *)
(* writers agree on the hash (ingest.py:323-325, sync_corpus_chunks.py).   *)
(***************************************************************************)
ChunksLabelled ==
    /\ \A c \in chunks :
          /\ c.domain = "employment_se"
          /\ \E t \in Versions : \E i \in DOMAIN Sections[t] :
                c.ref = Sections[t][i].ref /\ c.body = Sections[t][i].body
    /\ \A a \in Acts : seededText[a] # NoText =>
          \A i \in DOMAIN Sections[seededText[a]] :
              \E c \in chunks : /\ c.act = a /\ c.ref = Sections[seededText[a]][i].ref
                                /\ c.body = Sections[seededText[a]][i].body

(***************************************************************************)
(* A lawyer's sign-off covers what was signed: a row that a later seed     *)
(* took from another text is a draft again, also when statuses were        *)
(* normalised in between, and what was signed stood in the text            *)
(* (ingest.py:416-466).  Retrieval answers about Sweden from verified rows *)
(* alone.                                                                  *)
(***************************************************************************)
SignOffHolds ==
    \A k \in Candidates : seRules[k].status = "verified" =>
        seRules[k].text = signedText[k] /\ signedText[k] \in Literal[k]

\* Both: the Swedish corpus is labelled as what it is and drafts stay drafts.
SwedishPackSound == ChunksLabelled /\ SignOffHolds
=============================================================================
