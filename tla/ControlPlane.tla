---------------------------- MODULE ControlPlane ----------------------------
(***************************************************************************)
(* The Mother controller behind POST /assess and /api/diagnosis            *)
(* (backend/core/control_plane/), the language layer that renders its      *)
(* results, and POST /documents/generate, which drafts a document from a   *)
(* result the client hands back.                                           *)
(*                                                                         *)
(* A call passes the domain gate and takes the fast lane (rules table      *)
(* only) or the generative lane (retrieval, swarm agents, pipeline.assess  *)
(* as in Assessment), is judged by the governance engine, rendered,        *)
(* remembered, learned from and traced.  Each of these reads or writes the *)
(* database in a transaction of its own; failures are swallowed where the  *)
(* code swallows them.  Calls with one X-Request-ID share a trace row.     *)
(***************************************************************************)
EXTENDS Assessment

CONSTANTS
    Calls,       \* calls of MotherController.process
    TraceOf,     \* trace_id of each
    Asks,        \* what a call may ask, see MotherInput
    Replies, Collected,   \* inputs of Assess
    MaxFaults,   \* bound: database failures in one behaviour
    NoRow

\* MotherInput, with what the outside world answers: the pack of the resolved
\* domain, the lane of the path splitter, the question of pipeline.assess, is the
\* limitation date critical or expired, does the draft recommend human review,
\* and the phrases a model uses when it rephrases the summary.
MotherInput ==
    [domain : {"operational", "disabled", "missing"}, lane : {"fast", "generative"},
     q : Queries, useModel : BOOLEAN, arabic : BOOLEAN, consent : BOOLEAN,
     urgent : BOOLEAN, nextReview : BOOLEAN, phrasing : SUBSET Phrases]

ASSUME ControlPlaneAssumption ==
    /\ Asks \subseteq MotherInput
    /\ Replies \subseteq ModelOutputs
    /\ Collected \subseteq SUBSET Citations
    /\ MaxFaults \in Nat

VARIABLES
    pc,          \* the step each call is at
    ask,         \* its input
    result,      \* the dictionary handed from step to step, then to the client
    verdict,     \* governance_verdict
    agents,      \* the swarm's statuses, for the trace
    proposals,   \* knowledge.ingestion_proposals written by the learning loop
    memory,      \* agent_memory: the calls that wrote a row
    traces,      \* brain_traces, by trace_id
    drafts,      \* documents drafted: [of, cites, text]
    faults       \* database failures so far

vars == <<pc, ask, result, verdict, agents, proposals, memory, traces, drafts, faults>>

Traces == {TraceOf[c] : c \in Calls}

Verdicts == {"none", "PASS", "FAIL", "ESCALATE", "HUMAN_REVIEW"}
NoAgents == [retrieval |-> "none", judge |-> "none"]
NoResult == Refusal("none", "none", "served")

Init ==
    /\ pc = [c \in Calls |-> "start"]
    /\ ask \in [Calls -> Asks]
    /\ result = [c \in Calls |-> NoResult]
    /\ verdict = [c \in Calls |-> "none"]
    /\ agents = [c \in Calls |-> NoAgents]
    /\ proposals = {} /\ memory = {} /\ drafts = {}
    /\ traces = [t \in Traces |-> NoRow]
    /\ faults = 0

Goto(c, step) == pc' = [pc EXCEPT ![c] = step]

\* The database answers a step, or is unavailable while it runs.
Database(up) ==
    /\ up \/ faults < MaxFaults
    /\ faults' = IF up THEN faults ELSE faults + 1

-----------------------------------------------------------------------------
(* Lanes.                                                                  *)

\* require_operational_domain and domain_unavailable_response; the intake stage
\* that follows only logs, its errors included.
DomainGate(c) ==
    /\ pc[c] = "start"
    /\ \/ /\ ask[c].domain = "operational"
          /\ Goto(c, ask[c].lane)
          /\ UNCHANGED <<result, verdict>>
       \/ /\ ask[c].domain # "operational"
          /\ result' = [result EXCEPT ![c] = Refusal("domain_unavailable", "none", "served")]
          /\ verdict' = [verdict EXCEPT ![c] = "FAIL"]
          /\ Goto(c, "delivered")
    /\ UNCHANGED <<ask, agents, proposals, memory, traces, drafts, faults>>

\* assess_factual: rules only.  It looks the jurisdiction up in the domain's pack
\* and refuses what it does not find; a failing lookup counts as no rules.
FactualAnswer(q, found, up) ==
    IF q.jurisdiction = "served" /\ q.inScope /\ up /\ q.rules # "none"
    THEN Draft("ok", Fallback(found), "none", q.jurisdiction)
    ELSE Refusal("not_supported", "none", "served")

AssessFactual(c) ==
    /\ pc[c] = "fast"
    /\ \E up \in BOOLEAN, found \in Collected \ {{}} :
          /\ Database(up)
          /\ result' = [result EXCEPT ![c] = FactualAnswer(ask[c].q, found, up)]
    /\ Goto(c, "govern")
    /\ UNCHANGED <<ask, verdict, agents, proposals, memory, traces, drafts>>

\* The swarm agents that report more than a constant: the retrieval agent, and
\* the judge, which checks the retrieved authorities because no assessment
\* exists yet.  Their results are recorded and decide nothing.
SwarmResults(q, found, up) ==
    [retrieval |-> IF ~ q.inScope \/ (q.rules = "none" /\ q.authorities = 0)
                   THEN "insufficient_facts" ELSE "ok",
     judge |-> IF ~ q.inScope THEN "deferred"
               ELSE IF q.authorities = 0 \/ (up /\ found \subseteq {"law"}) THEN "ok"
               ELSE "blocked"]

\* route_and_retrieve and the swarm; a retrieval that raises ends the call with
\* a retryable refusal.
RouteAndRetrieve(c) ==
    /\ pc[c] = "generative"
    /\ \E up \in BOOLEAN, found \in Collected :
          /\ Database(up)
          /\ IF up \/ ~ ask[c].q.inScope
             THEN /\ agents' = [agents EXCEPT ![c] = SwarmResults(ask[c].q, found, up)]
                  /\ Goto(c, "reason")
                  /\ UNCHANGED <<result, verdict>>
             ELSE /\ result' = [result EXCEPT ![c] =
                         [Refusal("temporarily_unavailable", "none", "served")
                            EXCEPT !.flagged = TRUE]]
                  /\ verdict' = [verdict EXCEPT ![c] = "FAIL"]
                  /\ Goto(c, "delivered")
                  /\ UNCHANGED agents
    /\ UNCHANGED <<ask, proposals, memory, traces, drafts>>

\* execute_generative_lane without a streaming model, or run_reasoning_pipeline
\* with the stub model, which cites nothing the corpus holds and so always ends
\* in the deterministic guide.  An exception of the pipeline is not caught: the
\* client sees a server error.
Reason(c) ==
    /\ pc[c] = "reason"
    /\ \E a, b \in Replies, found \in Collected :
          LET attempts == IF ask[c].useModel THEN <<a, b>> ELSE << >>
              d == Assess(ask[c].q, attempts, found)
          IN  /\ result' = [result EXCEPT ![c] = d]
              /\ Goto(c, IF d.status = "error" THEN "raised" ELSE "govern")
    /\ UNCHANGED <<ask, verdict, agents, proposals, memory, traces, drafts, faults>>

-----------------------------------------------------------------------------
(* Governance, language, memory, learning, trace.                          *)

\* validate_assessment_truth: the pipeline's own governance, every citation found
\* by verify_citation, and the Legal Truth Validator without a bundle.
TruthPassed(d, up) ==
    /\ d.governed = "passes"
    /\ up /\ d.cites \subseteq {"law"}
    /\ ValidateLegalTruth(d, TRUE, up).status = "ok"

\* Some failure of it names citations.
CitationFailed(d, up) ==
    \/ d.cites # {} /\ ~ (up /\ d.cites \subseteq {"law"})
    \/ d.status = "ok" /\ d.cites = {}

\* Mutant: the verdict of the pipeline's governance is enough.
VerdictOnPipeline(d, a, up) ==
    IF d.governed = "passes" THEN "PASS" ELSE "FAIL"

\* GovernanceEngine.evaluate.  An urgent deadline overrides whatever was decided;
\* results of the fast lane and of early returns carry no deadline_info.
GovernanceVerdict(d, a, up) ==
    IF d.governed # "none" /\ a.urgent THEN "HUMAN_REVIEW"
    ELSE CASE d.status \in {"not_supported", "low_confidence"} -> "FAIL"
           [] d.status = "insufficient_grounding" -> "ESCALATE"
           [] OTHER -> IF TruthPassed(d, up) THEN "PASS"
                       ELSE IF d.status = "ok" /\ d.governed # "none" /\ a.nextReview
                       THEN "HUMAN_REVIEW"
                       ELSE IF CitationFailed(d, up) THEN "ESCALATE" ELSE "FAIL"

\* The verdict becomes metadata of the result, which goes on whatever it is.
GovernCall(c) ==
    /\ pc[c] = "govern"
    /\ \E up \in BOOLEAN :
          /\ Database(up)
          /\ verdict' = [verdict EXCEPT ![c] = GovernanceVerdict(result[c], ask[c], up)]
    /\ Goto(c, "render")
    /\ UNCHANGED <<ask, result, agents, proposals, memory, traces, drafts>>

\* _apply_language_layer and render_assessment: English text stays; in Arabic
\* each part comes from a template when it looks English, and with a model the
\* summary is whatever it writes, unless that is too short or it fails.
Wordings(d, a) ==
    [summary : {d.summary, {}} \cup (IF a.useModel THEN {a.phrasing} ELSE {}),
     weaknesses : {d.weaknesses, {}}, arguments : {d.arguments, {}}]

Render(d, a) ==
    IF ~ a.arabic THEN {d}
    ELSE {[d EXCEPT !.summary = w.summary, !.weaknesses = w.weaknesses,
                    !.arguments = w.arguments] : w \in Wordings(d, a)}

LanguageLayer(c) ==
    /\ pc[c] = "render"
    /\ \E d \in Render(result[c], ask[c]) : result' = [result EXCEPT ![c] = d]
    /\ Goto(c, IF ask[c].lane = "fast" THEN "learn" ELSE "remember")
    /\ UNCHANGED <<ask, verdict, agents, proposals, memory, traces, drafts, faults>>

\* write_agent_memory, with consent and a user id only.
WriteMemory(c) ==
    /\ pc[c] = "remember"
    /\ \E up \in BOOLEAN :
          /\ Database(up)
          /\ memory' = IF ask[c].consent /\ up THEN memory \cup {c} ELSE memory
    /\ Goto(c, "learn")
    /\ UNCHANGED <<ask, result, verdict, agents, proposals, traces, drafts>>

\* What learn_from_assessment proposes: the missing rule of an ungrounded result
\* and the citations, at most three, of an escalated one.
Lessons(d, v) ==
    (IF d.status = "insufficient_grounding" THEN {"missing_rule"} ELSE {})
      \cup (IF v = "ESCALATE" THEN d.cites ELSE {})

Learn(c) ==
    /\ pc[c] = "learn"
    /\ \E up \in BOOLEAN :
          /\ Database(up)
          /\ proposals' = IF up
                          THEN proposals \cup {<<c, g>> : g \in Lessons(result[c], verdict[c])}
                          ELSE proposals
    /\ Goto(c, IF ask[c].lane = "fast" THEN "delivered" ELSE "trace")
    /\ UNCHANGED <<ask, result, verdict, agents, memory, traces, drafts>>

\* _persist_trace: UPDATE, else INSERT ON CONFLICT DO UPDATE.
TraceRow(c) == [by |-> c, verdict |-> verdict[c], agents |-> agents[c]]

PersistTrace(c) ==
    /\ pc[c] = "trace"
    /\ \E up \in BOOLEAN :
          /\ Database(up)
          /\ traces' = IF up THEN [traces EXCEPT ![TraceOf[c]] = TraceRow(c)] ELSE traces
    /\ Goto(c, "delivered")
    /\ UNCHANGED <<ask, result, verdict, agents, proposals, memory, drafts>>

-----------------------------------------------------------------------------
(* Drafting a document from a delivered result.                            *)

\* The templates: which of the model's text and which citations each prints.  Dates,
\* amounts and the claimant's facts come from the rules and the intake form.
Printed(text, cites) == [text |-> text, cites |-> cites]
generate_particulars_of_claim(d) == Printed(d.summary \cup d.weaknesses, d.cites)
generate_schedule_of_loss(d) == Printed({}, d.cites)
generate_letter_before_action(d) == Printed({}, d.cites)
generate_et1_support_notes_wages(d) == Printed(d.summary \cup d.weaknesses, d.cites)

Templates(d) == {generate_particulars_of_claim(d), generate_schedule_of_loss(d),
                 generate_letter_before_action(d), generate_et1_support_notes_wages(d)}

\* _FORBIDDEN_PATTERNS, in the classes of Phrases.
safety_check(doc) == doc.text \cap {"promise", "solicitor"} = {}

\* Mutant: the critic is asked only about results that were not escalated.
CriticAcceptsTrusted(d, up) == d.status = "ok" \/ d.cites = {} \/ (up /\ d.cites \subseteq {"law"})

\* CriticAgent._check_corpus: every citation resolves, or there is none.
CriticAccepts(d, up) == d.cites = {} \/ (up /\ d.cites \subseteq {"law"})

GroundingGate(d) ==
    ~ d.flagged /\ d.status \notin {"insufficient_grounding", "not_supported"}

\* generate_document: grounding gate, critic, template, safety check.  Whether
\* the whole text or a preview is delivered is decided by Payments.
GenerateDocument(c) ==
    /\ pc[c] = "delivered"
    /\ GroundingGate(result[c])
    /\ \E up \in BOOLEAN, doc \in Templates(result[c]) :
          /\ Database(up)
          /\ CriticAccepts(result[c], up)
          /\ safety_check(doc)
          /\ drafts' = drafts \cup {[of |-> c, cites |-> doc.cites, text |-> doc.text]}
    /\ UNCHANGED <<pc, ask, result, verdict, agents, proposals, memory, traces>>

CallStep(c) ==
    \/ DomainGate(c) \/ AssessFactual(c) \/ RouteAndRetrieve(c) \/ Reason(c)
    \/ GovernCall(c) \/ LanguageLayer(c) \/ WriteMemory(c) \/ Learn(c) \/ PersistTrace(c)

Next ==
    \E c \in Calls :
        CallStep(c) \/ GenerateDocument(c)

Spec == Init /\ [][Next]_vars

-----------------------------------------------------------------------------
(* Properties.                                                             *)

Rephrased(c) == ask[c].arabic /\ ask[c].useModel

\* A result is delivered with PASS only if it is an answer of the generative lane
\* that cites at least one authority, cites nothing the database does not hold,
\* passed the pipeline's governance and has no urgent deadline.  Whatever the
\* verdict, the summary and the weaknesses delivered have none of the phrases
\* governance forbids unless a model has rephrased the summary after governance,
\* and arguments of a model are delivered only with an answer whose other parts
\* passed it: no gate reads the arguments themselves, which a PASS says nothing
\* about (mother_controller.py:186-193, governance_engine.py:41-90).
PassIsEarned ==
    \A c \in Calls : pc[c] = "delivered" =>
        /\ verdict[c] = "PASS" =>
              /\ result[c].status = "ok" /\ result[c].governed = "passes"
              /\ ask[c].lane = "generative"
              /\ result[c].cites # {} /\ result[c].cites \subseteq {"law"}
              /\ ~ ask[c].urgent
        /\ (result[c].summary \cup result[c].weaknesses) \cap GovernPhrases # {} => Rephrased(c)
        /\ result[c].arguments # {} => result[c].governed = "passes"

\* Whatever verdict a client ignores, a drafted document cites only authorities
\* that resolve to a row and never comes from a result without grounding, and the
\* text of a model that rephrased the summary after governance brings no
\* guarantee or solicitor language into it (main.py:813-921, documents.py:67-81).
DraftsSound ==
    \A d \in drafts :
        /\ d.cites \subseteq {"law"}
        /\ d.text \cap {"promise", "solicitor"} = {}
        /\ result[d.of].status # "insufficient_grounding"
        /\ verdict[d.of] = "ESCALATE" => d.cites = {} \/ faults > 0
=============================================================================
