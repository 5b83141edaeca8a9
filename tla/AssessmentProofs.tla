-------------------------- MODULE AssessmentProofs --------------------------
(***************************************************************************)
(* Lemmas about the decisions of Assessment: what the citation guard,      *)
(* governance, the Legal Truth Validator and the safety policy let through,*)
(* for any question, any replies of the model and any citations found.     *)
(* The flows that call them, Brain and ControlPlane, rest on these.        *)
(***************************************************************************)
EXTENDS Assessment, FiniteSetTheorems, TLAPS

\* Every status that assess, the validator or an early return of run_brain gives a
\* draft.
DraftStatus ==
    {"none", "ok", "blocked", "error", "not_supported", "invalid_date", "missing_edt",
     "missing_wages_date", "insufficient_grounding", "low_confidence", "quota_exceeded"}

GovernOutcomes == {"none", "passes", "fails"}

DraftType ==
    [status : DraftStatus, cites : SUBSET Citations, badUuid : BOOLEAN,
     summary : SUBSET Phrases, weaknesses : SUBSET Phrases, arguments : SUBSET Phrases,
     honest : BOOLEAN, governed : GovernOutcomes, flagged : BOOLEAN, mismatch : BOOLEAN]

\* The text that governance and the safety policy read, and the one they do not:
\* words of a model are in it only next to text that passed governance.
Text(d) == d.summary \cup d.weaknesses
ArgumentsEarned(d) == d.arguments # {} => d.governed = "passes"

\* What each gate adds to the draft on its way.
Governed(d) == Text(d) \cap GovernPhrases = {} /\ ArgumentsEarned(d)
Validated(d) == d.status = "ok" => d.cites # {} /\ ~ d.badUuid
Grounded(d) ==
    /\ d.cites \subseteq {"law"}
    /\ Text(d) \cap (GovernPhrases \cup SafetyPhrases) = {}
    /\ ArgumentsEarned(d)
    /\ Validated(d)

-----------------------------------------------------------------------------
(* What the gates guarantee about a single draft.                          *)

\* A refusal carries no citations and no text, so there is nothing to object to
\* unless it claims success (build_insufficient_grounding_response and the early
\* returns of assess).
LEMMA RefusalGrounded ==
    ASSUME NEW status \in DraftStatus, NEW governed \in GovernOutcomes, NEW j
    PROVE  /\ Refusal(status, governed, j) \in DraftType
           /\ Governed(Refusal(status, governed, j))
           /\ status # "ok" => Grounded(Refusal(status, governed, j))
           /\ Refusal(status, governed, j).status = status
<1> DEFINE d == Refusal(status, governed, j)
<1>1. d = [status |-> status, cites |-> {}, badUuid |-> FALSE, summary |-> {},
           weaknesses |-> {}, arguments |-> {}, honest |-> TRUE, governed |-> governed,
           flagged |-> FALSE, mismatch |-> j = "unknown"]
  BY DEF Refusal, Draft, Fallback
<1>2. (j = "unknown") \in BOOLEAN
  OBVIOUS
<1>3. d \in DraftType
  BY <1>1, <1>2 DEF DraftType
<1>4. d.status = status /\ d.cites = {} /\ Text(d) = {} /\ ArgumentsEarned(d)
  BY <1>1 DEF Text, ArgumentsEarned
<1> QED
  BY <1>3, <1>4 DEF Governed, Grounded, Validated

\* The citation guard hands on one of the replies or the deterministic fallback
\* (enforce_or_regenerate).
LEMMA GuardType ==
    ASSUME NEW a \in ModelOutputs, NEW b \in ModelOutputs, NEW f \in SUBSET Citations,
           NEW attempts \in {<< >>, <<a, b>>}
    PROVE  EnforceOrRegenerate(attempts, Fallback(f)) \in ModelOutputs
<1> DEFINE accepted == {i \in DOMAIN attempts : attempts[i].uuid}
<1>1. Fallback(f) \in ModelOutputs
  BY DEF Fallback, ModelOutputs
<1>2. CASE accepted = {}
  BY <1>1, <1>2 DEF EnforceOrRegenerate
<1>3. CASE accepted # {}
  <2>0. attempts = <<a, b>>
    <3>1. attempts = << >> => accepted = {}
      OBVIOUS
    <3> QED BY <1>3, <3>1
  <2>1. accepted \subseteq {1, 2}
    BY <2>0
  <2>2. \E x \in accepted : \A y \in accepted : x =< y
    BY <1>3, <2>1
  <2>3. Min(accepted) \in {1, 2}
    BY <2>1, <2>2 DEF Min
  <2>4. attempts[Min(accepted)] \in ModelOutputs
    BY <2>0, <2>3
  <2> QED
    BY <1>3, <2>4 DEF EnforceOrRegenerate
<1> QED
  BY <1>2, <1>3

\* Whatever the question and the replies, the draft of assess has no phrase that
\* governance prohibits where governance looks, and arguments of a model only if
\* it passed (govern).
LEMMA AssessGoverned ==
    ASSUME NEW q \in Queries, NEW a \in ModelOutputs, NEW b \in ModelOutputs,
           NEW f \in SUBSET Citations, NEW attempts \in {<< >>, <<a, b>>}
    PROVE  /\ Assess(q, attempts, f) \in DraftType
           /\ Governed(Assess(q, attempts, f))
           /\ Assess(q, attempts, f).governed = "passes" => Assess(q, attempts, f).status = "ok"
<1> DEFINE out == EnforceOrRegenerate(attempts, Fallback(f))
           d == Assess(q, attempts, f)
           ok == Draft("ok", out, "passes", q.jurisdiction)
           g == GroundingScore(out.cites, 1)
           c == ConfidenceScore(1, q.authorities, TRUE, q.facts)
           refused(status, governed) == Refusal(status, governed, q.jurisdiction)
<1>1. out \in ModelOutputs
  BY GuardType
<1>2. q.dates \in DraftStatus \cup {"ok"}
  BY DEF Queries, DraftStatus
<1>3. ASSUME Govern(out, g, c) = "passes"
      PROVE  ok \in DraftType /\ Governed(ok) /\ ok.status = "ok"
  <2>1. (out.summary \cup out.weaknesses) \cap GovernPhrases = {}
    BY <1>3 DEF Govern
  <2>2. ok = [status |-> "ok", cites |-> out.cites, badUuid |-> out.badUuid,
              summary |-> out.summary, weaknesses |-> out.weaknesses,
              arguments |-> out.arguments, honest |-> out.honest, governed |-> "passes", flagged |-> FALSE,
              mismatch |-> q.jurisdiction = "unknown"]
    BY DEF Draft
  <2>3. ok \in DraftType
    <3>1. /\ out.cites \in SUBSET Citations
          /\ out.summary \in SUBSET Phrases /\ out.weaknesses \in SUBSET Phrases
          /\ out.arguments \in SUBSET Phrases
      BY <1>1 DEF ModelOutputs
    <3>2. out.badUuid \in BOOLEAN /\ out.honest \in BOOLEAN
      BY <1>1 DEF ModelOutputs
    <3>3. (q.jurisdiction = "unknown") \in BOOLEAN /\ FALSE \in BOOLEAN
      OBVIOUS
    <3>4. "ok" \in DraftStatus /\ "passes" \in GovernOutcomes
      BY DEF DraftStatus, GovernOutcomes
    <3> HIDE DEF out, ok
    <3> QED
      BY <2>2, <3>1, <3>2, <3>3, <3>4, Zenon DEF DraftType
  <2>4. Text(ok) = out.summary \cup out.weaknesses /\ ArgumentsEarned(ok)
    BY <2>2 DEF Text, ArgumentsEarned
  <2> QED
    BY <2>1, <2>2, <2>3, <2>4 DEF Governed
<1>4. \/ \E status \in DraftStatus, governed \in {"none", "fails"} : d = refused(status, governed)
      \/ \E status \in DraftStatus, governed \in {"none", "fails"} :
            d = [refused(status, governed) EXCEPT !.flagged = TRUE]
      \/ Govern(out, g, c) = "passes" /\ d = ok
  BY <1>2 DEF Assess, DraftStatus, GovernOutcomes
<1>5. ASSUME NEW status \in DraftStatus, NEW governed \in {"none", "fails"}
      PROVE  /\ refused(status, governed) \in DraftType /\ Governed(refused(status, governed))
             /\ refused(status, governed).governed = governed
             /\ [refused(status, governed) EXCEPT !.flagged = TRUE].governed = governed
             /\ [refused(status, governed) EXCEPT !.flagged = TRUE] \in DraftType
             /\ Governed([refused(status, governed) EXCEPT !.flagged = TRUE])
  <2>1. refused(status, governed) \in DraftType /\ Governed(refused(status, governed))
    BY RefusalGrounded DEF GovernOutcomes
  <2>2. refused(status, governed).governed = governed
    BY DEF Refusal, Draft
  <2>3. [refused(status, governed) EXCEPT !.flagged = TRUE].governed = governed
    BY DEF Refusal, Draft
  <2> QED
    BY <2>1, <2>2, <2>3 DEF DraftType, Governed, Text, ArgumentsEarned
<1> QED
  BY <1>3, <1>4, <1>5

\* The number of failed checks is a number, and zero only for a draft that cites
\* something if it claims success and invents no corpus id (validate_legal_truth).
LEMMA ChecksCount ==
    ASSUME NEW d \in DraftType, NEW dbUp \in BOOLEAN
    PROVE  /\ FailedChecks(d, dbUp) \in Nat
           /\ FailedChecks(d, dbUp) = 0 => Validated(d)
<1> DEFINE n == Cardinality(d.cites \ Verified(d.cites, dbUp))
           x == IF d.badUuid THEN 1 ELSE 0
           y == IF d.cites = {} /\ d.status = "ok" THEN 1 ELSE 0
<1>1. IsFiniteSet(Citations)
  <2>1. IsFiniteSet({"law"})
    BY FS_Singleton
  <2>2. IsFiniteSet({"law"} \cup {"provision"})
    BY <2>1, FS_AddElement
  <2>3. IsFiniteSet(({"law"} \cup {"provision"}) \cup {"fake"})
    BY <2>2, FS_AddElement
  <2>4. Citations = ({"law"} \cup {"provision"}) \cup {"fake"}
    BY DEF Citations
  <2> QED
    BY <2>3, <2>4
<1>2. d.cites \ Verified(d.cites, dbUp) \in SUBSET Citations
  BY DEF DraftType
<1>3. n \in Nat
  BY <1>1, <1>2, FS_Subset, FS_CardinalityType
<1>4. FailedChecks(d, dbUp) = n + x + y
  BY DEF FailedChecks
<1>5. x \in {0, 1} /\ y \in {0, 1}
  OBVIOUS
<1>6. n + x + y = 0 => x = 0 /\ y = 0
  <2> HIDE DEF n, x, y
  <2> QED
    BY <1>3, <1>5
<1>7. x = 0 /\ y = 0 => Validated(d)
  BY DEF Validated
<1>8. n + x + y \in Nat
  <2> HIDE DEF n, x, y
  <2> QED
    BY <1>3, <1>5
<1> QED
  BY <1>4, <1>6, <1>7, <1>8

\* The outcomes of the validator: ok only for a draft that passes its checks, and
\* a gap is named only when the outcome is not ok.
LEMMA ValidatorOutcome ==
    ASSUME NEW d \in DraftType, NEW grounded \in BOOLEAN, NEW dbUp \in BOOLEAN
    PROVE  LET v == ValidateLegalTruth(d, grounded, dbUp)
           IN  /\ v.status \in {"ok", "rejected", "insufficient_grounding"}
               /\ v.status = "ok" => Validated(d) /\ ~ v.gaps
<1>1. FailedChecks(d, dbUp) = 0 \/ FailedChecks(d, dbUp) > 0
  BY ChecksCount
<1> QED
  BY <1>1, ChecksCount DEF ValidateLegalTruth

\* Applying the outcome changes the status and keeps the text
\* (apply_validation_to_assessment).
LEMMA ValidationApplied ==
    ASSUME NEW d \in DraftType, NEW grounded \in BOOLEAN, NEW dbUp \in BOOLEAN
    PROVE  LET v == ValidateLegalTruth(d, grounded, dbUp)
               e == ApplyValidation(d, v)
           IN  /\ e \in DraftType
               /\ Governed(d) => Governed(e)
               /\ Validated(e)
               /\ v.gaps => e.status # "ok"
<1> DEFINE v == ValidateLegalTruth(d, grounded, dbUp)
           e == ApplyValidation(d, v)
<1>1. v.status \in {"ok", "rejected", "insufficient_grounding"}
  BY ValidatorOutcome
<1>2. CASE v.status = "ok"
  <2>1. e = d
    BY <1>2 DEF ApplyValidation
  <2> QED
    BY <1>2, <2>1, ValidatorOutcome
<1>3. CASE v.status = "rejected"
  <2>1. e = [d EXCEPT !.status = "blocked"]
    BY <1>3 DEF ApplyValidation
  <2>2. e \in DraftType
    BY <2>1 DEF DraftType, DraftStatus
  <2>3. e.status # "ok" /\ Text(e) = Text(d) /\ (ArgumentsEarned(d) => ArgumentsEarned(e))
    BY <2>1 DEF DraftType, Text, ArgumentsEarned
  <2> QED
    BY <2>2, <2>3 DEF Governed, Validated
<1>4. CASE v.status = "insufficient_grounding"
  <2>1. e = [d EXCEPT !.status = "insufficient_grounding", !.flagged = TRUE]
    BY <1>4 DEF ApplyValidation
  <2>2. e \in DraftType
    BY <2>1 DEF DraftType, DraftStatus
  <2>3. e.status # "ok" /\ Text(e) = Text(d) /\ (ArgumentsEarned(d) => ArgumentsEarned(e))
    BY <2>1 DEF DraftType, Text, ArgumentsEarned
  <2> QED
    BY <2>2, <2>3 DEF Governed, Validated
<1> QED
  BY <1>1, <1>2, <1>3, <1>4

\* What governance and the validator let through and the safety policy does not
\* block is grounded, as far as they read it (_run_safety_checks).
LEMMA SafeIsGrounded ==
    ASSUME NEW d \in DraftType, NEW dbUp \in BOOLEAN,
           Governed(d), Validated(d), ~ SafetyBlocked(d, dbUp)
    PROVE  Grounded(d)
  BY DEF SafetyBlocked, Governed, Grounded, Text
=============================================================================
