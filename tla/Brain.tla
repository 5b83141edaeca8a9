------------------------------- MODULE Brain -------------------------------
(***************************************************************************)
(* run_brain (backend/core/brain.py): the steps one assessment request     *)
(* goes through and the rows it leaves behind.                             *)
(*                                                                         *)
(* Requests run concurrently.  Each database call is a transaction of its  *)
(* own, so the rows of one run are written one by one: human_review_queue, *)
(* cost_governor_log, knowledge.ingestion_proposals, legal_memory,         *)
(* brain_traces and outbox_events.  A failing write is logged and skipped  *)
(* and the run goes on; the API process may die between any two steps.     *)
(* Runs share a trace id when a client repeats a request with the same     *)
(* X-Request-ID header.                                                    *)
(***************************************************************************)
EXTENDS Assessment

CONSTANTS
    Runs,            \* calls of run_brain
    TraceOf,         \* trace_id of each
    UserOf, CaseOf,  \* user_id and case_id of each, Nobody when absent
    Nobody,
    Consent,         \* the runs with memory_consent
    EdtForms,        \* how callers pass facts["edt"]: an "iso" string, a "date"
    DaysLeft,        \* days to the limitation date that are considered
    Routes,          \* paths the router takes
    DailyLimit, RequestLimit,          \* of the cost governor
    Questions, Replies, Collected,     \* inputs of Assess
    MaxFaults,       \* bound: crashes and database errors in one behaviour
    NoRow

\* What the status of an assessment may be: none yet, those of pipeline.assess,
\* and those of the early returns of run_brain.
DraftStatuses ==
    {"none", "ok", "blocked", "error", "not_supported", "invalid_date", "missing_edt",
     "missing_wages_date", "insufficient_grounding", "low_confidence", "quota_exceeded"}
Verdicts == {"none", "pass", "conditional", "blocked_safety", "blocked_evaluation",
             "blocked_governance"}

ASSUME BrainAssumption ==
    /\ EdtForms \subseteq {"iso", "date"}
    /\ DaysLeft \subseteq Int
    /\ DailyLimit \in Nat /\ RequestLimit \in Nat
    /\ Questions \subseteq Queries
    /\ Replies \subseteq ModelOutputs
    /\ Collected \subseteq SUBSET Citations
    /\ MaxFaults \in Nat
    /\ Consent \subseteq Runs

ASSUME RunsAssumption == IsFiniteSet(Runs)

TraceRows == [by : Runs, status : DraftStatuses, verdict : Verdicts]

ASSUME NoRowAssumption == NoRow \notin Runs \cup TraceRows

VARIABLES
    pc,          \* the step each run is at
    due,         \* history: how urgent the limitation date really is
    urgency,     \* how urgent the run believes it to be
    cost,        \* estimated tokens of the route, until they are logged
    used,        \* daily usage as the cost governor read it, until it has decided
    draft,       \* the assessment
    verdict,     \* compliance_verdict, until it is audited
    reviews,     \* human_review_queue, by trace_id: the run that wrote the row
    ledger,      \* cost_governor_log: the row each run wrote
    proposals,   \* knowledge.ingestion_proposals: the runs that proposed
    memory,      \* legal_memory: the keys that have a row
    traces,      \* brain_traces, by trace_id
    events,      \* assessment_complete events, by trace_id: the run that published
    faults,      \* crashes and database errors so far
    overlapped   \* history: runs whose quota check overlapped another of the user

local == <<due, urgency, cost, used, draft, verdict>>
tables == <<reviews, ledger, proposals, memory, traces, events>>
vars == <<pc, local, tables, faults, overlapped>>

Traces == {TraceOf[r] : r \in Runs}
MemoryKey(r) == <<UserOf[r], CaseOf[r], TraceOf[r]>>
Identified(r) == UserOf[r] # Nobody /\ CaseOf[r] # Nobody

\* _ROUTE_ESTIMATES, in hundreds of tokens.
RouteEstimate ==
    [full_legal_pipeline |-> 40, full_legal_pipeline_plus_human_review |-> 50,
     rag_plus_rules |-> 10, rules_engine_only |-> 2, lite_llm_plus_glossary |-> 5]

ASSUME RoutesAssumption == Routes \subseteq DOMAIN RouteEstimate

Decisions == {"none", "daily_quota_exceeded", "request_downgraded", "within_budget"}
Steps == {"start", "analyse", "quota", "generate", "validate", "judge", "remember",
          "audit", "publish", "answered", "dead"}

NoDraft == Refusal("none", "none", "served")
NoEntry == [tokens |-> 0, decision |-> "none"]

\* What pipeline.assess can return.
Drafts ==
    {Assess(q, <<a, b>>, f) : q \in Questions, a, b \in Replies, f \in Collected}

TypeOK ==
    /\ pc \in [Runs -> Steps]
    /\ due \in [Runs -> Urgencies] /\ urgency \in [Runs -> Urgencies]
    /\ cost \in [Runs -> Nat] /\ used \in [Runs -> Nat]
    /\ \A r \in Runs : draft[r].cites \subseteq Citations /\ draft[r].status \in DraftStatuses
    /\ verdict \in [Runs -> Verdicts]
    /\ reviews \in [Traces -> Runs \cup {NoRow}]
    /\ ledger \in [Runs -> [tokens : Nat, decision : Decisions]]
    /\ proposals \subseteq Runs
    /\ memory \subseteq {MemoryKey(r) : r \in Runs}
    /\ \A t \in Traces : traces[t] # NoRow =>
          /\ traces[t] \in TraceRows /\ TraceOf[traces[t].by] = t
          /\ traces[t].verdict \notin {"none", "blocked_safety"}
    /\ events \in [Traces -> Runs \cup {NoRow}]
    /\ faults \in 0..MaxFaults
    /\ overlapped \subseteq Runs

Init ==
    /\ pc = [r \in Runs |-> "start"]
    /\ due = [r \in Runs |-> "unknown"] /\ urgency = [r \in Runs |-> "unknown"]
    /\ cost = [r \in Runs |-> 0] /\ used = [r \in Runs |-> 0]
    /\ draft = [r \in Runs |-> NoDraft]
    /\ verdict = [r \in Runs |-> "none"]
    /\ reviews = [t \in Traces |-> NoRow]
    /\ ledger = [r \in Runs |-> NoEntry]
    /\ proposals = {} /\ memory = {}
    /\ traces = [t \in Traces |-> NoRow] /\ events = [t \in Traces |-> NoRow]
    /\ faults = 0 /\ overlapped = {}

-----------------------------------------------------------------------------
\* One of the bounded crashes and database errors of a behaviour.
Fault == faults < MaxFaults /\ faults' = faults + 1

\* Does a database call succeed?
Succeeds(done) == IF done THEN UNCHANGED faults ELSE Fault

GoTo(r, step) == pc' = [pc EXCEPT ![r] = step]

\* INSERT ... ON CONFLICT (trace_id) DO NOTHING.
InsertOnce(table, r, row) ==
    IF table[TraceOf[r]] = NoRow THEN [table EXCEPT ![TraceOf[r]] = row] ELSE table

Return(r, status) ==
    /\ GoTo(r, "answered")
    /\ draft' = [draft EXCEPT ![r] = Refusal(status, "none", "served")]

\* Injection guard: the message is refused before anything else.
RejectInjection(r) ==
    /\ pc[r] = "start"
    /\ Return(r, "blocked")
    /\ UNCHANGED <<due, urgency, cost, used, verdict, tables, faults, overlapped>>

\* Steps 3-6 and the human review check.  The limitation date is computed from
\* facts["edt"] as it came: only a date object has the attributes the
\* computation uses, with a string it raises and days_remaining stays None.
ReviewNeeded(r, level) ==
    ShouldQueue("unfair_dismissal", level, 0, "none") /\ Identified(r)

QueueReview(r, level) ==
    \E done \in BOOLEAN :
        /\ ~ ReviewNeeded(r, level) => done
        /\ Succeeds(done)
        /\ reviews' = IF ReviewNeeded(r, level) /\ done THEN InsertOnce(reviews, r, r)
                      ELSE reviews

Triage(r, form, days) ==
    LET seen == IF form = "date" THEN days ELSE NoDays
    IN  /\ pc[r] = "start"
        /\ due' = [due EXCEPT ![r] = UrgencyLevel(days)]
        /\ urgency' = [urgency EXCEPT ![r] = UrgencyLevel(seen)]
        /\ QueueReview(r, UrgencyLevel(seen))
        /\ GoTo(r, "analyse")
        /\ UNCHANGED <<cost, used, draft, verdict, ledger, proposals, memory, traces, events, overlapped>>

\* Out of scope: no urgency is computed and the run ends after the review check.
OutOfScope(r) ==
    /\ pc[r] = "start"
    /\ Return(r, "not_supported")
    /\ UNCHANGED <<due, urgency, cost, used, verdict, tables, faults, overlapped>>

\* Steps 7-13 and the first half of the cost governor's check: the route fixes
\* the estimate, then the user's rows of the day are added up.  An anonymous
\* user, and one whose rows cannot be read, has used nothing.
LoggedTokens(S) == MapThenSumSet(LAMBDA s : ledger[s].tokens, S)
RunsOf(u) == {s \in Runs : UserOf[s] = u}
CheckingQuota(u) == {s \in RunsOf(u) : pc[s] = "quota"}

Analyse(r, route) ==
    LET u == UserOf[r]
    IN  /\ pc[r] = "analyse"
        /\ cost' = [cost EXCEPT ![r] = RouteEstimate[route]]
        /\ \E done \in BOOLEAN :
              /\ u = Nobody => done
              /\ Succeeds(done)
              /\ used' = [used EXCEPT ![r] =
                    IF u # Nobody /\ done THEN LoggedTokens(RunsOf(u)) ELSE 0]
        /\ overlapped' = IF CheckingQuota(u) = {} THEN overlapped
                         ELSE overlapped \cup CheckingQuota(u) \cup {r}
        /\ GoTo(r, "quota")
        /\ UNCHANGED <<due, urgency, draft, verdict, tables>>

\* Mutant: the request's own estimate is left out of the comparison.
CostDecisionOnUsage(usage, estimate) ==
    CASE usage > DailyLimit -> "daily_quota_exceeded"
      [] usage <= DailyLimit /\ estimate > RequestLimit -> "request_downgraded"
      [] OTHER -> "within_budget"

\* The second half: decide on what was read, log the estimate (of a refused
\* request too) and go on or give up.
CostDecision(usage, estimate) ==
    CASE usage + estimate > DailyLimit -> "daily_quota_exceeded"
      [] usage + estimate <= DailyLimit /\ estimate > RequestLimit -> "request_downgraded"
      [] OTHER -> "within_budget"

CostCheck(r) ==
    LET decision == CostDecision(used[r], cost[r])
    IN  /\ pc[r] = "quota"
        /\ \E done \in BOOLEAN :
              /\ Succeeds(done)
              /\ ledger' = IF done
                    THEN [ledger EXCEPT ![r] = [tokens |-> cost[r], decision |-> decision]]
                    ELSE ledger
        /\ IF decision = "daily_quota_exceeded" THEN Return(r, "quota_exceeded")
           ELSE GoTo(r, "generate") /\ UNCHANGED draft
        /\ cost' = [cost EXCEPT ![r] = 0]
        /\ used' = [used EXCEPT ![r] = 0]
        /\ UNCHANGED <<due, urgency, verdict, reviews, proposals, memory, traces, events, overlapped>>

\* Step 14: pipeline.assess.
Generate(r, d) ==
    /\ pc[r] = "generate"
    /\ draft' = [draft EXCEPT ![r] = d]
    /\ GoTo(r, "validate")
    /\ UNCHANGED <<due, urgency, cost, used, verdict, tables, faults, overlapped>>

\* The Legal Truth Validator, and the proposal for the gaps it found: the
\* validation is applied before the proposal is written, so a failing write
\* does not undo it.
LegalTruth(r, bundleGrounded, dbUp, done) ==
    LET result == ValidateLegalTruth(draft[r], bundleGrounded, dbUp)
    IN  /\ pc[r] = "validate"
        /\ result.gaps \/ done
        /\ dbUp \/ done
        /\ Succeeds(dbUp /\ done)
        /\ draft' = [draft EXCEPT ![r] = ApplyValidation(@, result)]
        /\ proposals' = IF result.gaps /\ dbUp /\ done THEN proposals \cup {r} ELSE proposals
        /\ GoTo(r, "judge")
        /\ UNCHANGED <<due, urgency, cost, used, verdict, reviews, ledger, memory, traces, events, overlapped>>

\* Steps 15 and 16: evaluator, safety policy, verdict.  A failed evaluation is
\* recorded; only the safety policy replaces the answer.
Judge(r, gaps, tableReadable, bundleVerified, dbUp) ==
    LET blocked == SafetyBlocked(draft[r], dbUp)
    IN  /\ pc[r] = "judge"
        /\ Succeeds(dbUp)
        /\ verdict' = [verdict EXCEPT ![r] =
              ComplianceVerdict(draft[r], blocked, Evaluate(draft[r], gaps, tableReadable),
                                bundleVerified)]
        /\ IF blocked THEN Return(r, "blocked") ELSE GoTo(r, "remember") /\ UNCHANGED draft
        /\ UNCHANGED <<due, urgency, cost, used, tables, overlapped>>

\* Mutant: consent is not asked for.
MayRememberAnyway(r) == Identified(r) /\ draft[r].status = "ok"

\* Step 17: save_memory, an upsert.
MayRemember(r) == Identified(r) /\ r \in Consent /\ draft[r].status = "ok"

\* Mutant: the event goes out before the audit row is stored.
SaveMemoryAndPublish(r, done) ==
    /\ pc[r] = "remember"
    /\ MayRemember(r) \/ done
    /\ Succeeds(done)
    /\ memory' = IF MayRemember(r) /\ done THEN memory \cup {MemoryKey(r)} ELSE memory
    /\ events' = IF draft[r].status = "ok" THEN InsertOnce(events, r, r) ELSE events
    /\ GoTo(r, "audit")
    /\ UNCHANGED <<local, reviews, ledger, proposals, traces, overlapped>>

SaveMemory(r, done) ==
    /\ pc[r] = "remember"
    /\ MayRemember(r) \/ done
    /\ Succeeds(done)
    /\ memory' = IF MayRemember(r) /\ done THEN memory \cup {MemoryKey(r)} ELSE memory
    /\ GoTo(r, "audit")
    /\ UNCHANGED <<local, reviews, ledger, proposals, traces, events, overlapped>>

\* Step 18: _write_brain_audit.
StoreAudit(r, done) ==
    /\ pc[r] = "audit"
    /\ Succeeds(done)
    /\ traces' = IF done
          THEN InsertOnce(traces, r,
                  [by |-> r, status |-> draft[r].status, verdict |-> verdict[r]])
          ELSE traces
    /\ verdict' = [verdict EXCEPT ![r] = "none"]
    /\ GoTo(r, "publish")
    /\ UNCHANGED <<due, urgency, cost, used, draft, reviews, ledger, proposals, memory, events, overlapped>>

\* Steps 18b and 19: publish on a connection of its own, then return.
PublishAndReturn(r, done) ==
    /\ pc[r] = "publish"
    /\ draft[r].status = "ok" \/ done
    /\ Succeeds(done)
    /\ events' = IF draft[r].status = "ok" /\ done THEN InsertOnce(events, r, r) ELSE events
    /\ GoTo(r, "answered")
    /\ UNCHANGED <<local, reviews, ledger, proposals, memory, traces, overlapped>>

\* The API process dies, or a step outside every try block raises.
Crash(r) ==
    /\ pc[r] \notin {"answered", "dead"}
    /\ Fault
    /\ GoTo(r, "dead")
    /\ UNCHANGED <<local, tables, overlapped>>

RunStep(r) ==
    \/ RejectInjection(r)
    \/ OutOfScope(r)
    \/ \E form \in EdtForms, days \in DaysLeft \cup {NoDays} : Triage(r, form, days)
    \/ \E route \in Routes : Analyse(r, route)
    \/ CostCheck(r)
    \/ \E d \in Drafts : Generate(r, d)
    \/ \E grounded, dbUp, done \in BOOLEAN : LegalTruth(r, grounded, dbUp, done)
    \/ \E gaps, readable, verified, dbUp \in BOOLEAN :
          Judge(r, gaps, readable, verified, dbUp)
    \/ \E done \in BOOLEAN : SaveMemory(r, done)
    \/ \E done \in BOOLEAN : StoreAudit(r, done)
    \/ \E done \in BOOLEAN : PublishAndReturn(r, done)
    \/ Crash(r)

Next == \E r \in Runs : RunStep(r)

Spec == Init /\ [][Next]_vars

-----------------------------------------------------------------------------
(* Properties.                                                             *)

Answered(r, status) == pc[r] = "answered" /\ draft[r].status = status

\* Whatever status an answer has, each citation in it resolves to a row of law
\* and the parts of it some gate reads, the summary and the weaknesses, have no
\* phrase any gate prohibits; a successful one cites something and invents no
\* corpus id.  This needs the citation guard, governance, the validator and the
\* critic together: each of them lets something through (brain.py:516).  Of the
\* employer's arguments, which none of them reads, it says only that a model's
\* words leave with an answer whose other parts passed governance.
AnswerGrounded ==
    \A r \in Runs : pc[r] = "answered" =>
        /\ draft[r].cites \subseteq {"law"}
        /\ (draft[r].summary \cup draft[r].weaknesses)
              \cap (GovernPhrases \cup SafetyPhrases) = {}
        /\ draft[r].arguments # {} => draft[r].governed = "passes"
        /\ draft[r].status = "ok" => draft[r].cites # {} /\ ~ draft[r].badUuid

\* What later readers find in the tables comes from a run that was entitled to
\* write it: memory only of a consenting run of that user, case and trace with
\* a successful draft, an event only for a successful draft, a proposal only
\* for one that was not, a review only of an identified user's run whose
\* limitation date is at most a week away; nothing of a run that safety blocked
\* is audited (brain.py:655-670, 1009-1136), although a retry may share the
\* trace id.
RecordsJustified ==
    /\ \A k \in memory : \E r \in Consent :
          MemoryKey(r) = k /\ Identified(r) /\ draft[r].status = "ok"
    /\ \A t \in Traces :
          /\ events[t] # NoRow => draft[events[t]].status = "ok"
          /\ reviews[t] # NoRow =>
                Identified(reviews[t]) /\ due[reviews[t]] \in {"critical", "expired"}
          /\ traces[t] # NoRow => traces[t].status = draft[traces[t].by].status
          /\ traces[t] # NoRow /\ traces[t].verdict = "pass" =>
                traces[t].status = "ok" /\ ~ CriticalFailure(draft[traces[t].by])
    /\ \A r \in proposals : draft[r].status # "ok"

\* Without crashes and database errors a successful answer has left everything
\* behind that it must: the trace row, the event for the worker and the memory
\* the user consented to, also when another run used the trace id first; and no
\* event is ever visible before its trace row (brain.py:1108-1111).
SuccessIsRecorded ==
    faults = 0 =>
        /\ \A r \in Runs : Answered(r, "ok") =>
              /\ events[TraceOf[r]] # NoRow
              /\ r \in Consent /\ Identified(r) => MemoryKey(r) \in memory
        /\ \A t \in Traces : events[t] # NoRow => traces[t] # NoRow

\* A user's admitted requests stay within the daily limit as far as their quota
\* checks did not overlap; reading the sum and logging the estimate are two
\* transactions, so overlapping ones may exceed it (cost_governor.py:51-73).
QuotaHolds ==
    faults = 0 => \A u \in {UserOf[r] : r \in Runs} \ {Nobody} :
        LoggedTokens({r \in RunsOf(u) \ overlapped :
                        ledger[r].decision \in {"request_downgraded", "within_budget"}})
          <= DailyLimit

\* "Boundary: output contains no reserved-activity action, no 'we will file/
\* represent', no outcome guarantee" (docs/04_RAG_REASONING_SPEC.md:112): nothing
\* in an answer, in whichever part of it, is a phrase governance forbids.
OutputInBounds ==
    \A r \in Runs : pc[r] = "answered" =>
        (draft[r].summary \cup draft[r].weaknesses \cup draft[r].arguments)
           \cap GovernPhrases = {}

\* "If evaluation fails on any CRITICAL check, the answer is blocked or returned
\* to the brain for correction" (evaluator.py:18): no answer is given as
\* successful that fails a critical check.
CriticalEvaluationBlocks ==
    \A r \in Runs : Answered(r, "ok") => ~ CriticalFailure(draft[r])

\* "Triggers: urgency=critical or expired" (human_review.py:8): a request of an
\* identified user whose limitation date is at most a week away, or past, is
\* queued for human review when nothing fails.
UrgentIsReviewed ==
    faults = 0 => \A r \in Runs :
        due[r] \in {"critical", "expired"} /\ Identified(r) => reviews[TraceOf[r]] # NoRow
=============================================================================
