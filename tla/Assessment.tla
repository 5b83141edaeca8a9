----------------------------- MODULE Assessment -----------------------------
(***************************************************************************)
(* The decisions a draft assessment goes through, as functions of the      *)
(* draft: the citation guard, scoring and governance inside pipeline.assess *)
(* and, in run_brain, the Legal Truth Validator, the evaluator, the safety *)
(* policy and the compliance verdict.  No state: Brain calls these.        *)
(*                                                                         *)
(* Text is abstracted to the classes of phrases it contains, a citation to *)
(* where it can be found, a score to hundredths.                           *)
(***************************************************************************)
EXTENDS Integers, Sequences, FiniteSets, FiniteSetsExt

CONSTANT NoDays  \* days_remaining when no limitation date is known (None)

\* A cited authority is in the tables verify_citation searches ("law"), only
\* findable by its chunk id or in knowledge.provision ("provision"), or nowhere.
Citations == {"law", "provision", "fake"}

\* The phrase lists of govern, the evaluator and the safety policy overlap but
\* differ; each class stands for the phrases with the same memberships.
Phrases == {"promise", "govern_only", "safety_only", "solicitor", "lawyer", "wrong_deadline"}
GovernPhrases == {"promise", "govern_only", "solicitor"}
SafetyPhrases == {"promise", "safety_only", "solicitor", "lawyer"}
EvaluatorPhrases == {"promise", "safety_only"}
IncorrectDeadlines == {"wrong_deadline"}

\* What one call of the reasoning model returns: is a real corpus UUID cited,
\* is there also an invented one, the structured citations, the phrases of the
\* summary, of the weaknesses and of the arguments the employer may raise (with
\* the basis of the value range), and is a viable claim said to have weaknesses?
\* The arguments are free text like the others, but no gate looks at them: each
\* reads the fields it lists (govern.py:81-84, brain.py:173-178,
\* evaluator.py:134-138).
ModelOutputs ==
    [uuid : BOOLEAN, badUuid : BOOLEAN, cites : SUBSET Citations,
     summary : SUBSET Phrases, weaknesses : SUBSET Phrases, arguments : SUBSET Phrases,
     honest : BOOLEAN]

\* A request as the pipeline meets it: are the supplied dates usable, is the
\* matter still classified as in scope the second time, which jurisdiction was
\* asked for, what retrieval finds, and does a stage raise?
Jurisdictions == {"served", "unverified", "unknown"}
Queries ==
    [dates : {"ok", "invalid_date", "missing_edt", "missing_wages_date"},
     inScope : BOOLEAN, jurisdiction : Jurisdictions,
     rules : {"none", "no_limit", "limit"},
     authorities : Nat, facts : Nat, raises : BOOLEAN]

-----------------------------------------------------------------------------
(* Urgency and human review.                                               *)

Urgencies == {"unknown", "expired", "critical", "urgent", "safe"}

\* _urgency_level.
UrgencyLevel(days) ==
    CASE days = NoDays -> "unknown"
      [] days # NoDays /\ days <= 0 -> "expired"
      [] days # NoDays /\ days > 0 /\ days <= 7 -> "critical"
      [] days # NoDays /\ days > 7 /\ days <= 30 -> "urgent"
      [] OTHER -> "safe"

HighRiskClaims == {"discrimination", "whistleblowing", "settlement_agreement"}

\* should_queue, with the number of missing facts and the evaluation outcome.
ShouldQueue(claim, urgency, missing, evaluation) ==
    \/ urgency \in {"critical", "expired"}
    \/ claim \in HighRiskClaims
    \/ missing >= 3
    \/ evaluation = "failed"

-----------------------------------------------------------------------------
(* pipeline.assess.                                                        *)

AtMost(n, bound) == IF n <= bound THEN n ELSE bound

\* _compute_grounding and _compute_confidence, in hundredths.
GroundingScore(cites, ruleCount) ==
    LET n == Cardinality(cites)
    IN  (IF ruleCount > 0 THEN 30 ELSE 0) + (IF n > 0 THEN 30 + AtMost(10 * n, 40) ELSE 0)

ConfidenceScore(ruleCount, authorities, hasDate, usefulFacts) ==
    (IF ruleCount > 0 THEN 30 ELSE 0) + AtMost(10 * authorities, 30)
      + (IF hasDate THEN 20 ELSE 0) + AtMost(5 * usefulFacts, 20)

BelowThreshold(grounding, confidence) == grounding < 30 \/ confidence < 30

\* govern: the reason the gate fails for, or "passes".
Govern(out, grounding, confidence) ==
    CASE BelowThreshold(grounding, confidence) -> "score_threshold"
      [] (out.summary \cup out.weaknesses) \cap GovernPhrases # {} -> "boundary_violation"
      [] ~ out.honest -> "honesty_violation"
      [] OTHER -> "passes"

\* enforce_or_regenerate: the first attempt that cites a real corpus UUID, else
\* the deterministic fallback; ungrounded model text is never accepted.
EnforceOrRegenerate(attempts, fallback) ==
    LET accepted == {i \in DOMAIN attempts : attempts[i].uuid}
    IN  IF accepted = {} THEN fallback ELSE attempts[Min(accepted)]

\* _fallback: fixed text, deterministic arguments and the citations found by
\* rules and retrieval.
Fallback(found) ==
    [uuid |-> FALSE, badUuid |-> FALSE, cites |-> found,
     summary |-> {}, weaknesses |-> {}, arguments |-> {}, honest |-> TRUE]

\* The dictionary assess returns; early returns carry no citations or text.  A
\* jurisdiction the registry does not know is replaced by the default one, so
\* the answer's differs from the one asked for.
Draft(status, out, governed, jurisdiction) ==
    [status |-> status, cites |-> out.cites, badUuid |-> out.badUuid,
     summary |-> out.summary, weaknesses |-> out.weaknesses,
     arguments |-> out.arguments, honest |-> out.honest,
     governed |-> governed, flagged |-> FALSE,
     mismatch |-> jurisdiction = "unknown"]

Refusal(status, governed, jurisdiction) ==
    Draft(status, Fallback({}), governed, jurisdiction)

\* assess(query, facts, ...), with the replies of the model to at most two
\* attempts and the citations the deterministic context collected.
Assess(q, attempts, found) ==
    LET Stop(status) == Refusal(status, "none", q.jurisdiction)
        out == EnforceOrRegenerate(attempts, Fallback(found))
        verdict == Govern(out, GroundingScore(out.cites, 1),
                          ConfidenceScore(1, q.authorities, TRUE, q.facts))
    IN  IF q.raises THEN Stop("error")
        ELSE IF q.dates = "invalid_date" THEN Stop(q.dates)
        ELSE IF ~ q.inScope THEN Stop("not_supported")
        ELSE IF q.dates # "ok" THEN Stop(q.dates)
        ELSE IF q.jurisdiction = "unverified"
        THEN [Stop("not_supported") EXCEPT !.flagged = TRUE]
        ELSE IF q.rules # "limit" THEN Stop("insufficient_grounding")
        ELSE CASE verdict = "passes" -> Draft("ok", out, "passes", q.jurisdiction)
               [] verdict = "score_threshold" ->
                     Refusal("low_confidence", "fails", q.jurisdiction)
               [] OTHER -> Refusal("insufficient_grounding", "fails", q.jurisdiction)

-----------------------------------------------------------------------------
(* The Legal Truth Validator.                                              *)

\* verify_citation, then the chunk id, then knowledge.provision; with the
\* database down nothing can be found.
Verified(cites, dbUp) == IF dbUp THEN cites \ {"fake"} ELSE {}

FailedChecks(d, dbUp) ==
    Cardinality(d.cites \ Verified(d.cites, dbUp))
      + (IF d.badUuid THEN 1 ELSE 0)
      + (IF d.cites = {} /\ d.status = "ok" THEN 1 ELSE 0)

\* validate_legal_truth: the result's status and whether it names a gap.
ValidateLegalTruth(d, bundleGrounded, dbUp) ==
    LET Result(status, gaps) == [status |-> status, gaps |-> gaps]
        failed == FailedChecks(d, dbUp)
    IN  CASE d.status \in {"not_supported", "blocked", "error"} -> Result("rejected", FALSE)
          [] d.status \notin {"not_supported", "blocked", "error"} /\ d.flagged ->
                Result("insufficient_grounding", TRUE)
          [] OTHER ->
                IF failed > 0
                THEN Result(IF d.cites # {} /\ failed = Cardinality(d.cites)
                            THEN "rejected" ELSE "insufficient_grounding", d.cites = {})
                ELSE IF ~ bundleGrounded /\ d.status = "ok"
                THEN Result("insufficient_grounding", TRUE)
                ELSE Result("ok", FALSE)

\* apply_validation_to_assessment: the status changes, the text stays.
ApplyValidation(d, result) ==
    CASE result.status = "ok" -> d
      [] result.status = "rejected" -> [d EXCEPT !.status = "blocked"]
      [] OTHER -> [d EXCEPT !.status = "insufficient_grounding", !.flagged = TRUE]

-----------------------------------------------------------------------------
(* The evaluator, the safety policy and the verdict.                       *)

\* The critical checks of evaluate_assessment: jurisdiction, guarantee and
\* reserved-activity language, known wrong deadlines.
CriticalFailure(d) ==
    \/ d.mismatch /\ d.status \notin {"not_supported", "insufficient_grounding"}
    \/ d.summary \cap (EvaluatorPhrases \cup IncorrectDeadlines) # {}

\* evaluate_assessment; the citation check is skipped when the legislation table
\* is empty or unreachable.
Evaluate(d, gaps, tableReadable) ==
    /\ ~ CriticalFailure(d)
    /\ d.honest
    /\ IF d.cites # {}
       THEN tableReadable => 2 * Cardinality(d.cites \cap {"law"}) >= Cardinality(d.cites)
       ELSE d.status \in {"insufficient_grounding", "not_supported", "missing_edt", "low_confidence"}
    /\ gaps => d.status \in {"insufficient_grounding", "not_supported"}

\* Mutant: the critic fails open.
SafetyBlockedIfChecked(d, dbUp) ==
    \/ (d.summary \cup d.weaknesses) \cap SafetyPhrases # {}
    \/ dbUp /\ ~ d.cites \subseteq {"law"}

\* _run_safety_checks: prohibited language anywhere in the text, or a citation
\* the critic cannot resolve to a row (it cannot when the database is down).
SafetyBlocked(d, dbUp) ==
    \/ (d.summary \cup d.weaknesses) \cap SafetyPhrases # {}
    \/ d.cites # {} /\ ~ (dbUp /\ d.cites \subseteq {"law"})

\* trace.compliance_verdict.
ComplianceVerdict(d, blocked, evaluated, bundleVerified) ==
    CASE blocked -> "blocked_safety"
      [] ~ blocked /\ ~ evaluated -> "blocked_evaluation"
      [] ~ blocked /\ evaluated /\ d.status = "ok" /\ bundleVerified -> "pass"
      [] ~ blocked /\ evaluated /\ ~ (d.status = "ok" /\ bundleVerified)
            /\ d.governed = "fails" -> "blocked_governance"
      [] OTHER -> "conditional"
=============================================================================
