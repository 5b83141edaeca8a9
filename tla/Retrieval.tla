------------------------------ MODULE Retrieval ------------------------------
(***************************************************************************)
(* core/retrieve.py with retrieval/rrf.py, trust_scorer.py, rerank.py and  *)
(* context_compressor.py: one retrieval over a corpus that changes while   *)
(* it runs.  The rules, the lexical leg, the probes and the query of the   *)
(* semantic leg are separate connections; what each leg finds and in which *)
(* order (ts_rank, cosine distance) is arbitrary.                          *)
(*                                                                         *)
(* A passage is a legislation section, a judgment or a piece of ACAS       *)
(* guidance.  The lexical leg reads it in its source table, the semantic   *)
(* leg reads its copy in corpus_chunks: the two change separately.         *)
(***************************************************************************)
EXTENDS Integers, Sequences, FiniteSets, SequencesExt, FiniteSetsExt

CONSTANTS Passages,   \* the passages of the corpus
          RuleRefs,   \* the authorities of the rules in force whose section
                      \* begins with a number the query names, in rule order:
                      \* their text is the rule's, so they are no passage
          KindOf,     \* the source type of each of these
          Local,      \* the passages of the jurisdiction that is asked about
          Named,      \* those whose section or citation the query names
          K,          \* the LIMIT of each query
          MaxChanges  \* the changes of the corpus during one retrieval

Authorities == Passages \cup Range(RuleRefs)

ASSUME RetrievalAssumption ==
    /\ KindOf \in [Authorities -> {"legislation", "case_law", "acas", "unknown"}]
    /\ Local \subseteq Passages /\ Named \subseteq Authorities
    /\ IsFiniteSet(Passages) /\ RuleRefs \in Seq(Range(RuleRefs))
    /\ Range(RuleRefs) \cap Passages = {} /\ IsInjective(RuleRefs)
    /\ K \in Nat \ {0} /\ MaxChanges \in Nat

\* Two last places still weigh more than one first place: with k = 5, as long as
\* fewer than 926 rules begin with a number of the query.
ASSUME FusionAssumption ==
    1000000 \div (60 + Len(RuleRefs) + K) + 1000000 \div (60 + K) > 1000000 \div 61

VARIABLES sourceRow,   \* the row of each passage in its source table
          chunkRow,    \* its row in corpus_chunks
          plane,       \* what the probes of the semantic plane find
          stage,       \* where the retrieval stands
          ruleHits,    \* _exact_rule_authorities
          lexical, semantic,
          bundle,      \* the authorities, best first
          everUsable,  \* the passages in force at some time since it began
          changes      \* how often the corpus changed

retrievalVars ==
    <<sourceRow, chunkRow, plane, stage, ruleHits, lexical, semantic, bundle, everUsable,
      changes>>

SourceStates == {"absent", "prospective", "in_force", "ended"}
ChunkStates == SourceStates \cup {"superseded", "unembedded"}

\* "unusable": no embeddings, another dimension than configured, a failing embedder
\* or a query vector of another dimension.
Planes == {"ready", "unusable"}

-----------------------------------------------------------------------------
(* The legs.                                                               *)

\* Mutant: only the semantic leg asks whether a provision is in force.
LexicalUnfiltered(p) == sourceRow[p] # "absent" /\ p \in Local

\* Legislation is filtered by jurisdiction and date, guidance by jurisdiction,
\* judgments by nothing.
LexicalCandidate(p) ==
    /\ sourceRow[p] # "absent"
    /\ KindOf[p] # "case_law" => p \in Local
    /\ KindOf[p] = "legislation" => sourceRow[p] = "in_force"

SemanticCandidate(p) == chunkRow[p] = "in_force" /\ p \in Local

\* The rows of a query, best first.
Ranked(S) == {s \in SeqOf(S, Cardinality(S)) : IsInjective(s)}

\* Three queries of K rows, merged by rank, and the K best of the merge: the K
\* best of each kind are the only rows that can be among them.
retrieve_keyword ==
    {SubSeq(s, 1, Min({K, Len(s)})) : s \in Ranked({p \in Passages : LexicalCandidate(p)})}

\* Any trouble with the vectors falls back to the keywords.
retrieve_semantic ==
    IF plane = "ready"
    THEN {SubSeq(s, 1, Min({K, Len(s)})) : s \in Ranked({p \in Passages : SemanticCandidate(p)})}
    ELSE retrieve_keyword

-----------------------------------------------------------------------------
(* Fusion, trust and rerank.  Scores are integers: 10^-6 is one.           *)

PositionIn(p, leg) == CHOOSE i \in DOMAIN leg : leg[i] = p
Reciprocal(p, leg) ==
    IF p \in Range(leg) THEN 1000000 \div (60 + PositionIn(p, leg)) ELSE 0

EXACT_CITATION_BOOST == 1000000

rrf_score(p) ==
    Reciprocal(p, lexical) + Reciprocal(p, semantic)
    + (IF p \in Named THEN EXACT_CITATION_BOOST ELSE 0)

Hybrid(p) == p \in Range(lexical) /\ p \in Range(semantic)

SCORES == [legislation |-> 100, acas |-> 95, case_law |-> 90, unknown |-> 30]
trust_score(p) == SCORES[KindOf[p]]

_base_score(p) ==
    (rrf_score(p) * 55) \div 100 + trust_score(p) * 3500
    + (IF p \in Named THEN 100000 ELSE 0)

\* The position in which the dictionary of the fusion met a passage first.
MetAt(p) ==
    IF p \in Range(lexical) THEN PositionIn(p, lexical)
    ELSE Len(lexical) + PositionIn(p, semantic)

\* Descending by the key, equal keys in the order they had.
Before(keyP, keyQ, earlier) ==
    \/ keyP = keyQ /\ earlier
    \/ \E i \in DOMAIN keyP : keyP[i] > keyQ[i] /\ \A j \in 1..(i - 1) : keyP[j] = keyQ[j]

\* A stable sort of S: place i is whoever i - 1 others come before.
Descending(S, key, place) ==
    LET ahead(p) == {q \in S : Before(key[q], key[p], place[q] < place[p])}
    IN  [i \in 1..Cardinality(S) |-> CHOOSE p \in S : Cardinality(ahead(p)) = i - 1]

Places(list) == [p \in Range(list) |-> PositionIn(p, list)]

FusionKey(p) == <<rrf_score(p), IF Hybrid(p) THEN 1 ELSE 0>>
RerankKey(p) == <<_base_score(p), trust_score(p), rrf_score(p)>>

reciprocal_rank_fusion ==
    LET found == Range(lexical) \cup Range(semantic)
    IN  Descending(found, [p \in found |-> FusionKey(p)], [p \in found |-> MetAt(p)])

score_authorities(list) ==
    Descending(Range(list), [p \in Range(list) |-> <<trust_score(p)>>], Places(list))

rerank_authorities(list) ==
    Descending(Range(list), [p \in Range(list) |-> RerankKey(p)], Places(list))

-----------------------------------------------------------------------------
(* One retrieval.                                                          *)

Usable == {p \in Passages : sourceRow[p] = "in_force" \/ chunkRow[p] = "in_force"}

RetrievalInit ==
    /\ sourceRow \in [Passages -> {"in_force", "ended"}]
    /\ chunkRow \in [Passages -> {"in_force", "absent"}]
    /\ plane \in Planes
    /\ stage = "domain"
    /\ ruleHits = <<>> /\ lexical = <<>> /\ semantic = <<>> /\ bundle = <<>>
    /\ everUsable = {} /\ changes = 0

\* require_domain raises before anything is read.
RefuseDomain ==
    /\ stage = "domain" /\ stage' = "refused"
    /\ UNCHANGED <<sourceRow, chunkRow, plane, ruleHits, lexical, semantic, bundle, everUsable, changes>>

\* retrieve_rules and the authorities of its rows that the query asks for; a rule
\* without an authority URL gives none.
ReadRules ==
    /\ stage = "domain" /\ stage' = "lexical"
    /\ everUsable' = Usable
    /\ \E hits \in {<<>>, RuleRefs} : ruleHits' = hits
    /\ UNCHANGED <<sourceRow, chunkRow, plane, lexical, semantic, bundle, changes>>

LexicalLeg ==
    /\ stage = "lexical" /\ stage' = "semantic"
    /\ \E found \in retrieve_keyword :
          lexical' = ruleHits \o found
    /\ UNCHANGED <<sourceRow, chunkRow, plane, ruleHits, semantic, bundle, everUsable, changes>>

SemanticLeg ==
    /\ stage = "semantic" /\ stage' = "fuse"
    /\ semantic' \in retrieve_semantic
    /\ UNCHANGED <<sourceRow, chunkRow, plane, ruleHits, lexical, bundle, everUsable, changes>>

\* A failing audit write changes nothing; the graph leg that retrieve_hybrid adds
\* fails closed and leaves the authorities alone.
Fuse ==
    /\ stage = "fuse" /\ stage' = "done"
    /\ bundle' = rerank_authorities(score_authorities(reciprocal_rank_fusion))
    /\ UNCHANGED <<sourceRow, chunkRow, plane, ruleHits, lexical, semantic, everUsable, changes>>

\* The corpus in the meantime: sections are enacted, repealed and replaced, chunks
\* are synchronised, superseded and embedded, the embedding model comes and goes.
CorpusChange ==
    /\ stage \in {"lexical", "semantic"}
    /\ changes < MaxChanges /\ changes' = changes + 1
    /\ \/ /\ \E p \in Passages, s \in SourceStates : sourceRow' = [sourceRow EXCEPT ![p] = s]
          /\ UNCHANGED <<chunkRow, plane>>
       \/ /\ \E p \in Passages, s \in ChunkStates : chunkRow' = [chunkRow EXCEPT ![p] = s]
          /\ UNCHANGED <<sourceRow, plane>>
       \/ /\ plane' \in Planes
          /\ UNCHANGED <<sourceRow, chunkRow>>
    /\ everUsable' = everUsable \cup Usable'
    /\ UNCHANGED <<stage, ruleHits, lexical, semantic, bundle>>

RetrievalNext ==
    RefuseDomain \/ ReadRules \/ LexicalLeg \/ SemanticLeg \/ Fuse \/ CorpusChange

RetrievalSpec == RetrievalInit /\ [][RetrievalNext]_retrievalVars

-----------------------------------------------------------------------------
(* What the rest of the system reads off the bundle.                       *)

insufficient_grounding == ruleHits = <<>> /\ bundle = <<>>
grounding_score ==
    IF insufficient_grounding THEN 0
    ELSE Min({100, 40 + 20 * Len(bundle) + 10 * Len(ruleHits)})

-----------------------------------------------------------------------------
(* Properties.                                                             *)

Ahead(p, q) == PositionIn(p, bundle) < PositionIn(q, bundle)

(***************************************************************************)
(* After fusion, trust scoring and rerank, three sorts with different      *)
(* keys, the authority the query names is still ahead of every one it does *)
(* not, whatever its kind; among authorities of one kind, one that both    *)
(* legs found is ahead of one that a single leg found; and nothing that a  *)
(* leg returned is lost (rrf.py:23-29, retrieve.py:528-532).               *)
(***************************************************************************)
RankingSound ==
    stage = "done" =>
        /\ Range(bundle) = Range(lexical) \cup Range(semantic)
        /\ \A p, q \in Range(bundle) :
              /\ p \in Named /\ q \notin Named => Ahead(p, q)
              /\ /\ KindOf[p] = KindOf[q] /\ (p \in Named <=> q \in Named)
                 /\ Hybrid(p) /\ ~ Hybrid(q)
                 => Ahead(p, q)

(***************************************************************************)
(* Whatever the corpus does between the legs and whichever leg falls back  *)
(* to the other, a provision in the bundle was in force at some time while *)
(* the retrieval ran, and was of the jurisdiction asked about: a repealed, *)
(* a prospective or a foreign provision is not revived by the other leg's  *)
(* copy of it (retrieve.py:190-193, 352-356).                              *)
(***************************************************************************)
ProvisionsInForce ==
    stage = "done" =>
        \A p \in Range(bundle) :
            KindOf[p] = "legislation" =>
                p \in Range(ruleHits) \/ p \in everUsable \cap Local

\* Both: the bundle holds the right authorities in the right order.
BundleSound == RankingSound /\ ProvisionsInForce
=============================================================================
