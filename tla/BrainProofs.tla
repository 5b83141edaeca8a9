---------------------------- MODULE BrainProofs ----------------------------
(***************************************************************************)
(* Theorems about Brain: what is answered is grounded, what is stored is   *)
(* justified and what must be there is there, and admitted requests stay   *)
(* within the daily limit; for any number of concurrent runs, any          *)
(* questions and any replies of the model.                                 *)
(***************************************************************************)
EXTENDS Brain, AssessmentProofs, WellFoundedInduction

Judged == {"remember", "audit", "publish", "answered"}

\* A draft has passed the gates that lie before its run's step.
GatesPassed(step, d) ==
    /\ step \in {"validate", "judge"} => Governed(d)
    /\ step = "judge" => Validated(d)
    /\ step \in Judged => Grounded(d)

GateInv ==
    /\ pc \in [Runs -> Steps]
    /\ draft \in [Runs -> DraftType]
    /\ \A r \in Runs : GatesPassed(pc[r], draft[r])

-----------------------------------------------------------------------------
(* Every step keeps the gates closed.                                      *)

\* A step moves one run; the drafts of the others stay where they are.
LEMMA OneRunMoves ==
    ASSUME GateInv, NEW r \in Runs, NEW step \in Steps, NEW d \in DraftType,
           pc' = [pc EXCEPT ![r] = step], draft' = [draft EXCEPT ![r] = d],
           GatesPassed(step, d)
    PROVE  GateInv'
  BY DEF GateInv

\* The same for a step that leaves the draft alone.
LEMMA OneRunAdvances ==
    ASSUME GateInv, NEW r \in Runs, NEW step \in Steps,
           pc' = [pc EXCEPT ![r] = step], UNCHANGED draft,
           GatesPassed(step, draft[r])
    PROVE  GateInv'
  BY DEF GateInv

\* An early return answers with a refusal (run_brain's return statements).
LEMMA ReturnGrounded ==
    ASSUME GateInv, NEW r \in Runs, NEW status \in DraftStatus \ {"ok"},
           Return(r, status)
    PROVE  GateInv'
<1> DEFINE d == Refusal(status, "none", "served")
<1>1. d \in DraftType /\ Grounded(d)
  BY RefusalGrounded DEF GovernOutcomes
<1>2. GatesPassed("answered", d)
  BY <1>1 DEF GatesPassed, Judged
<1>3. pc' = [pc EXCEPT ![r] = "answered"] /\ draft' = [draft EXCEPT ![r] = d]
  BY DEF Return, GoTo
<1>4. "answered" \in Steps
  BY DEF Steps
<1> QED
  BY <1>1, <1>2, <1>3, <1>4, OneRunMoves

\* Every step of every run keeps GateInv.
LEMMA GateStep ==
    ASSUME GateInv, Next
    PROVE  GateInv'
<1> USE BrainAssumption
<1> PICK r \in Runs : RunStep(r)
  BY DEF Next
<1>typed. draft[r] \in DraftType /\ GatesPassed(pc[r], draft[r])
  BY DEF GateInv
<1>1. CASE RejectInjection(r)
  BY <1>1, ReturnGrounded DEF RejectInjection, DraftStatus
<1>2. CASE OutOfScope(r)
  BY <1>2, ReturnGrounded DEF OutOfScope, DraftStatus
<1>3. ASSUME NEW form, NEW days, Triage(r, form, days)
      PROVE  GateInv'
  BY <1>3, OneRunAdvances DEF Triage, GoTo, Steps, GatesPassed, Judged
<1>4. ASSUME NEW route, Analyse(r, route)
      PROVE  GateInv'
  BY <1>4, OneRunAdvances DEF Analyse, GoTo, Steps, GatesPassed, Judged
<1>5. CASE CostCheck(r)
  <2>1. CASE Return(r, "quota_exceeded")
    BY <2>1, ReturnGrounded DEF DraftStatus
  <2>2. CASE GoTo(r, "generate") /\ UNCHANGED draft
    BY <2>2, OneRunAdvances DEF GoTo, Steps, GatesPassed, Judged
  <2> QED
    BY <1>5, <2>1, <2>2 DEF CostCheck
<1>6. ASSUME NEW d \in Drafts, Generate(r, d)
      PROVE  GateInv'
  <2>1. PICK q \in Questions, a \in Replies, b \in Replies, f \in Collected :
            d = Assess(q, <<a, b>>, f)
    BY DEF Drafts
  <2>2. d \in DraftType /\ Governed(d)
    BY <2>1, AssessGoverned DEF BrainAssumption
  <2>3. GatesPassed("validate", d)
    BY <2>2 DEF GatesPassed, Judged
  <2> QED
    BY <1>6, <2>2, <2>3, OneRunMoves DEF Generate, GoTo, Steps
<1>7. ASSUME NEW grounded \in BOOLEAN, NEW dbUp \in BOOLEAN, NEW done \in BOOLEAN,
             LegalTruth(r, grounded, dbUp, done)
      PROVE  GateInv'
  <2> DEFINE e == ApplyValidation(draft[r], ValidateLegalTruth(draft[r], grounded, dbUp))
  <2>1. Governed(draft[r])
    BY <1>7, <1>typed DEF LegalTruth, GatesPassed
  <2>2. e \in DraftType /\ Governed(e) /\ Validated(e)
    BY <1>typed, <2>1, ValidationApplied
  <2>3. GatesPassed("judge", e)
    BY <2>2 DEF GatesPassed, Judged
  <2>4. pc' = [pc EXCEPT ![r] = "judge"] /\ draft' = [draft EXCEPT ![r] = e]
    BY <1>7 DEF LegalTruth, GoTo, GateInv
  <2> HIDE DEF e
  <2> QED
    BY <2>2, <2>3, <2>4, OneRunMoves DEF Steps
<1>8. ASSUME NEW gaps, NEW readable, NEW verified, NEW dbUp \in BOOLEAN,
             Judge(r, gaps, readable, verified, dbUp)
      PROVE  GateInv'
  <2>1. Governed(draft[r]) /\ Validated(draft[r])
    BY <1>8, <1>typed DEF Judge, GatesPassed
  <2>2. CASE SafetyBlocked(draft[r], dbUp)
    BY <1>8, <2>2, ReturnGrounded DEF Judge, DraftStatus
  <2>3. CASE ~ SafetyBlocked(draft[r], dbUp)
    <3>1. Grounded(draft[r])
      BY <1>typed, <2>1, <2>3, SafeIsGrounded
    <3> QED
      BY <1>8, <2>3, <3>1, OneRunAdvances DEF Judge, GoTo, Steps, GatesPassed, Judged
  <2> QED
    BY <2>2, <2>3
<1>9. ASSUME NEW done, SaveMemory(r, done) \/ StoreAudit(r, done) \/ PublishAndReturn(r, done)
      PROVE  GateInv'
  <2>1. pc[r] \in Judged /\ UNCHANGED draft
    BY <1>9 DEF SaveMemory, StoreAudit, PublishAndReturn, local, Judged
  <2>2. PICK step \in Judged : pc' = [pc EXCEPT ![r] = step]
    BY <1>9 DEF SaveMemory, StoreAudit, PublishAndReturn, GoTo, Judged
  <2>3. GatesPassed(step, draft[r]) /\ step \in Steps
    BY <1>typed, <2>1, <2>2 DEF GatesPassed, Judged, Steps
  <2> QED
    BY <2>1, <2>2, <2>3, OneRunAdvances
<1>10. CASE Crash(r)
  BY <1>10, OneRunAdvances DEF Crash, GoTo, local, Steps, GatesPassed, Judged
<1> QED
  BY <1>1, <1>2, <1>3, <1>4, <1>5, <1>6, <1>7, <1>8, <1>9, <1>10 DEF RunStep

\* No run has a draft in the beginning.
LEMMA GateInit == Init => GateInv
<1>1. NoDraft \in DraftType
  BY RefusalGrounded DEF NoDraft, DraftStatus, GovernOutcomes
<1> QED
  BY <1>1 DEF Init, GateInv, GatesPassed, Judged, Steps

\* At every step of every run the draft has passed the gates before that step.
THEOREM GatesHold == Spec => []GateInv
<1>1. GateInv /\ UNCHANGED vars => GateInv'
  BY DEF GateInv, vars, local
<1> QED
  BY <1>1, GateInit, GateStep, PTL DEF Spec

\* No answer of run_brain, whatever its status, cites what cannot be resolved or
\* contains prohibited language, and a successful one cites something and
\* invents no corpus id: for any number of runs, any questions and replies, any
\* crashes and database failures between the gates.
THEOREM Grounding == Spec => []AnswerGrounded
<1>1. GateInv => AnswerGrounded
  BY DEF GateInv, GatesPassed, Judged, Grounded, ArgumentsEarned, Validated, Text, AnswerGrounded
<1> QED
  BY <1>1, GatesHold, PTL

-----------------------------------------------------------------------------
(* What is stored is justified.                                            *)

\* From here on a run does not touch its draft again.
Final == {"audit", "publish", "answered", "dead"}

\* Each row was written by a run that has not changed its draft since.
VerdictInv ==
    /\ verdict \in [Runs -> Verdicts]
    /\ \A r \in Runs : pc[r] \in {"remember", "audit"} /\ verdict[r] = "pass" =>
          draft[r].status = "ok" /\ ~ CriticalFailure(draft[r])
MemoryInv ==
    \A k \in memory : \E r \in Consent :
        /\ MemoryKey(r) = k /\ Identified(r)
        /\ pc[r] \in Final /\ draft[r].status = "ok"
EventInv ==
    /\ events \in [Traces -> Runs \cup {NoRow}]
    /\ \A t \in Traces : events[t] # NoRow =>
          pc[events[t]] \in Final /\ draft[events[t]].status = "ok"
TraceInv ==
    /\ traces \in [Traces -> TraceRows \cup {NoRow}]
    /\ \A t \in Traces : traces[t] # NoRow =>
          /\ pc[traces[t].by] \in Final
          /\ traces[t].status = draft[traces[t].by].status
          /\ traces[t].verdict = "pass" =>
                traces[t].status = "ok" /\ ~ CriticalFailure(draft[traces[t].by])
ProposalInv ==
    /\ proposals \subseteq Runs
    /\ \A r \in proposals :
          pc[r] \in Final \cup {"judge", "remember"} /\ draft[r].status # "ok"

RecordInv == VerdictInv /\ MemoryInv /\ EventInv /\ TraceInv /\ ProposalInv

\* A run that is past its last gate keeps its draft, whatever the others do.
LEMMA FinalStays ==
    ASSUME GateInv, Next
    PROVE  \A s \in Runs : pc[s] \in Final => pc'[s] \in Final /\ draft'[s] = draft[s]
<1> PICK r \in Runs : RunStep(r)
  BY DEF Next
<1> SUFFICES ASSUME NEW s \in Runs, pc[s] \in Final
             PROVE  pc'[s] \in Final /\ draft'[s] = draft[s]
  OBVIOUS
<1> USE DEF GateInv
<1>1. CASE RejectInjection(r) \/ OutOfScope(r)
  BY <1>1 DEF RejectInjection, OutOfScope, Return, GoTo, Final
<1>2. ASSUME NEW form, NEW days, Triage(r, form, days)
      PROVE  pc'[s] \in Final /\ draft'[s] = draft[s]
  BY <1>2 DEF Triage, GoTo, Final
<1>3. ASSUME NEW route, Analyse(r, route)
      PROVE  pc'[s] \in Final /\ draft'[s] = draft[s]
  BY <1>3 DEF Analyse, GoTo, Final
<1>4. CASE CostCheck(r)
  BY <1>4 DEF CostCheck, Return, GoTo, Final
<1>5. ASSUME NEW d, Generate(r, d)
      PROVE  pc'[s] \in Final /\ draft'[s] = draft[s]
  BY <1>5 DEF Generate, GoTo, Final
<1>6. ASSUME NEW grounded, NEW dbUp, NEW done, LegalTruth(r, grounded, dbUp, done)
      PROVE  pc'[s] \in Final /\ draft'[s] = draft[s]
  BY <1>6 DEF LegalTruth, GoTo, Final
<1>7. ASSUME NEW gaps, NEW readable, NEW verified, NEW dbUp,
             Judge(r, gaps, readable, verified, dbUp)
      PROVE  pc'[s] \in Final /\ draft'[s] = draft[s]
  BY <1>7 DEF Judge, Return, GoTo, Final
<1>8. ASSUME NEW done, SaveMemory(r, done) \/ StoreAudit(r, done) \/ PublishAndReturn(r, done)
      PROVE  pc'[s] \in Final /\ draft'[s] = draft[s]
  BY <1>8 DEF SaveMemory, StoreAudit, PublishAndReturn, GoTo, local, Final
<1>9. CASE Crash(r)
  BY <1>9 DEF Crash, GoTo, local, Final
<1> QED
  BY <1>1, <1>2, <1>3, <1>4, <1>5, <1>6, <1>7, <1>8, <1>9 DEF RunStep

\* Which step writes which table.
LEMMA WhoWrites ==
    ASSUME NEW r \in Runs, RunStep(r)
    PROVE  /\ UNCHANGED memory \/ \E done \in BOOLEAN : SaveMemory(r, done)
           /\ UNCHANGED traces \/ \E done \in BOOLEAN : StoreAudit(r, done)
           /\ UNCHANGED events \/ \E done \in BOOLEAN : PublishAndReturn(r, done)
           /\ UNCHANGED proposals
                \/ \E grounded, dbUp, done \in BOOLEAN : LegalTruth(r, grounded, dbUp, done)
           /\ \/ UNCHANGED verdict
              \/ \E gaps, readable, verified, dbUp \in BOOLEAN :
                    Judge(r, gaps, readable, verified, dbUp)
              \/ \E done \in BOOLEAN : StoreAudit(r, done)
<1> USE DEF local, tables
<1>1. CASE RejectInjection(r) \/ OutOfScope(r)
  BY <1>1 DEF RejectInjection, OutOfScope
<1>2. ASSUME NEW form, NEW days, Triage(r, form, days)
      PROVE  UNCHANGED <<memory, traces, events, proposals, verdict>>
  BY <1>2 DEF Triage
<1>3. ASSUME NEW route, Analyse(r, route)
      PROVE  UNCHANGED <<memory, traces, events, proposals, verdict>>
  BY <1>3 DEF Analyse
<1>4. CASE CostCheck(r)
  BY <1>4 DEF CostCheck
<1>5. ASSUME NEW d, Generate(r, d)
      PROVE  UNCHANGED <<memory, traces, events, proposals, verdict>>
  BY <1>5 DEF Generate
<1>6. ASSUME NEW grounded, NEW dbUp, NEW done, LegalTruth(r, grounded, dbUp, done)
      PROVE  UNCHANGED <<memory, traces, events, verdict>>
  BY <1>6 DEF LegalTruth
<1>7. ASSUME NEW gaps, NEW readable, NEW verified, NEW dbUp,
             Judge(r, gaps, readable, verified, dbUp)
      PROVE  UNCHANGED <<memory, traces, events, proposals>>
  BY <1>7 DEF Judge
<1>8. ASSUME NEW done, SaveMemory(r, done)
      PROVE  UNCHANGED <<traces, events, proposals, verdict>>
  BY <1>8 DEF SaveMemory
<1>9. ASSUME NEW done, StoreAudit(r, done)
      PROVE  UNCHANGED <<memory, events, proposals>>
  BY <1>9 DEF StoreAudit
<1>10. ASSUME NEW done, PublishAndReturn(r, done)
       PROVE  UNCHANGED <<memory, traces, proposals, verdict>>
  BY <1>10 DEF PublishAndReturn
<1>11. CASE Crash(r)
  BY <1>11 DEF Crash
<1> QED
  BY <1>1, <1>2, <1>3, <1>4, <1>5, <1>6, <1>7, <1>8, <1>9, <1>10, <1>11 DEF RunStep

\* legal_memory gets only the row of a consenting run with a successful draft
\* (save_memory as called by run_brain).
LEMMA MemoryStep ==
    ASSUME GateInv, MemoryInv, Next
    PROVE  MemoryInv'
<1> USE BrainAssumption DEF BrainAssumption
<1>0. \A s \in Runs : pc[s] \in Final => pc'[s] \in Final /\ draft'[s] = draft[s]
  BY FinalStays
<1> SUFFICES ASSUME NEW k \in memory'
             PROVE  \E r \in Consent : /\ MemoryKey(r) = k /\ Identified(r)
                                       /\ pc'[r] \in Final /\ draft'[r].status = "ok"
  BY DEF MemoryInv, MemoryKey, Identified
<1> PICK r \in Runs : RunStep(r)
  BY DEF Next
<1>1. CASE k \in memory
  BY <1>0, <1>1 DEF MemoryInv
<1>2. CASE k \notin memory
  <2>1. PICK done \in BOOLEAN : SaveMemory(r, done)
    BY <1>2, WhoWrites
  <2>2. MayRemember(r) /\ k = MemoryKey(r)
    BY <1>2, <2>1 DEF SaveMemory
  <2>3. pc'[r] = "audit" /\ draft' = draft
    BY <2>1 DEF SaveMemory, GoTo, local, GateInv
  <2> QED
    BY <2>2, <2>3 DEF MayRemember, Final
<1> QED
  BY <1>1, <1>2

\* outbox_events gets only the row of a successful answer (step 18b).
LEMMA EventStep ==
    ASSUME GateInv, EventInv, Next
    PROVE  EventInv'
<1>0. \A s \in Runs : pc[s] \in Final => pc'[s] \in Final /\ draft'[s] = draft[s]
  BY FinalStays
<1> PICK r \in Runs : RunStep(r)
  BY DEF Next
<1>1. CASE UNCHANGED events
  BY <1>0, <1>1 DEF EventInv
<1>2. ASSUME NEW done \in BOOLEAN, PublishAndReturn(r, done)
      PROVE  EventInv'
  <2>1. pc'[r] = "answered" /\ draft' = draft
    BY <1>2 DEF PublishAndReturn, GoTo, local, GateInv
  <2>2. TraceOf[r] \in Traces
    BY DEF Traces
  <2>3. \/ UNCHANGED events
        \/ draft[r].status = "ok" /\ events' = [events EXCEPT ![TraceOf[r]] = r]
    BY <1>2 DEF PublishAndReturn, InsertOnce
  <2> QED
    BY <1>1, <1>0, <2>1, <2>2, <2>3 DEF EventInv, Final
<1> QED
  BY <1>1, <1>2, WhoWrites

\* Only the judging step lets a run go on to memory and audit.
LEMMA OnlyJudgeAdmits ==
    ASSUME GateInv, NEW r \in Runs, RunStep(r), NEW s \in Runs,
           pc'[s] \in {"remember", "audit"}
    PROVE  \/ pc[s] \in {"remember", "audit"} /\ draft'[s] = draft[s]
           \/ s = r /\ \E gaps, readable, verified, dbUp \in BOOLEAN :
                           Judge(r, gaps, readable, verified, dbUp)
<1> USE DEF GateInv
<1> DEFINE Kept == pc[s] \in {"remember", "audit"} /\ draft'[s] = draft[s]
<1>1. CASE RejectInjection(r) \/ OutOfScope(r)
  BY <1>1 DEF RejectInjection, OutOfScope, Return, GoTo
<1>2. ASSUME NEW form, NEW days, Triage(r, form, days)
      PROVE  Kept
  BY <1>2 DEF Triage, GoTo
<1>3. ASSUME NEW route, Analyse(r, route)
      PROVE  Kept
  BY <1>3 DEF Analyse, GoTo
<1>4. CASE CostCheck(r)
  BY <1>4 DEF CostCheck, Return, GoTo
<1>5. ASSUME NEW d, Generate(r, d)
      PROVE  Kept
  BY <1>5 DEF Generate, GoTo
<1>6. ASSUME NEW grounded, NEW dbUp, NEW done, LegalTruth(r, grounded, dbUp, done)
      PROVE  Kept
  BY <1>6 DEF LegalTruth, GoTo
<1>7. ASSUME NEW gaps, NEW readable, NEW verified, NEW dbUp,
             Judge(r, gaps, readable, verified, dbUp), s # r
      PROVE  Kept
  BY <1>7 DEF Judge, Return, GoTo
<1>8. ASSUME NEW done, SaveMemory(r, done) \/ StoreAudit(r, done) \/ PublishAndReturn(r, done)
      PROVE  Kept
  BY <1>8 DEF SaveMemory, StoreAudit, PublishAndReturn, GoTo, local
<1>9. CASE Crash(r)
  BY <1>9 DEF Crash, GoTo, local
<1> QED
  BY <1>1, <1>2, <1>3, <1>4, <1>5, <1>6, <1>7, <1>8, <1>9 DEF RunStep

\* The verdict is "pass" only for a successful draft without a critical failure.
LEMMA PassMeansPassed ==
    ASSUME NEW d, NEW blocked \in BOOLEAN, NEW gaps, NEW readable, NEW verified
    PROVE  LET v == ComplianceVerdict(d, blocked, Evaluate(d, gaps, readable), verified)
           IN  /\ v \in Verdicts
               /\ v = "pass" => d.status = "ok" /\ ~ CriticalFailure(d)
<1> DEFINE evaluated == Evaluate(d, gaps, readable)
<1>1. evaluated => ~ CriticalFailure(d)
  BY DEF Evaluate
<1> HIDE DEF evaluated
<1>2. LET v == ComplianceVerdict(d, blocked, evaluated, verified)
      IN  v \in Verdicts /\ (v = "pass" => d.status = "ok" /\ evaluated)
  BY DEF ComplianceVerdict, Verdicts
<1> QED
  BY <1>1, <1>2 DEF evaluated

\* A pass that is waiting to be audited is the pass of the present draft.
LEMMA VerdictStep ==
    ASSUME GateInv, VerdictInv, Next
    PROVE  VerdictInv'
<1> PICK r \in Runs : RunStep(r)
  BY DEF Next
<1>1. CASE \E gaps, readable, verified, dbUp \in BOOLEAN :
              Judge(r, gaps, readable, verified, dbUp)
  <2> PICK gaps \in BOOLEAN, readable \in BOOLEAN, verified \in BOOLEAN, dbUp \in BOOLEAN :
          Judge(r, gaps, readable, verified, dbUp)
    BY <1>1
  <2> DEFINE blocked == SafetyBlocked(draft[r], dbUp)
             v == ComplianceVerdict(draft[r], blocked,
                                    Evaluate(draft[r], gaps, readable), verified)
  <2>1. verdict' = [verdict EXCEPT ![r] = v]
    BY DEF Judge
  <2>2. v \in Verdicts /\ (v = "pass" => draft[r].status = "ok" /\ ~ CriticalFailure(draft[r]))
    <3>1. blocked \in BOOLEAN
      BY DEF SafetyBlocked
    <3> QED
      BY <3>1, PassMeansPassed
  <2>3. pc'[r] = "remember" => draft'[r] = draft[r]
    BY DEF Judge, Return, GoTo, GateInv
  <2>4. pc'[r] # "audit"
    BY DEF Judge, Return, GoTo, GateInv
  <2>5. \A s \in Runs \ {r} : pc'[s] = pc[s] /\ draft'[s] = draft[s]
    BY DEF Judge, Return, GoTo, GateInv
  <2> HIDE DEF v
  <2> QED
    BY <2>1, <2>2, <2>3, <2>4, <2>5 DEF VerdictInv
<1>2. CASE ~ \E gaps, readable, verified, dbUp \in BOOLEAN :
                Judge(r, gaps, readable, verified, dbUp)
  <2>1. \A s \in Runs : pc'[s] \in {"remember", "audit"} =>
            pc[s] \in {"remember", "audit"} /\ draft'[s] = draft[s]
    BY <1>2, OnlyJudgeAdmits
  <2>2. UNCHANGED verdict \/ verdict' = [verdict EXCEPT ![r] = "none"]
    BY <1>2, WhoWrites DEF StoreAudit
  <2> QED
    BY <2>1, <2>2 DEF VerdictInv, Verdicts
<1> QED
  BY <1>1, <1>2

\* brain_traces gets the status and the verdict of the run that inserts the row
\* (_write_brain_audit).
LEMMA TraceStep ==
    ASSUME GateInv, VerdictInv, TraceInv, Next
    PROVE  TraceInv'
<1>0. \A s \in Runs : pc[s] \in Final => pc'[s] \in Final /\ draft'[s] = draft[s]
  BY FinalStays
<1> PICK r \in Runs : RunStep(r)
  BY DEF Next
<1>1. CASE UNCHANGED traces
  BY <1>0, <1>1 DEF TraceInv, TraceRows
<1>2. ASSUME NEW done \in BOOLEAN, StoreAudit(r, done)
      PROVE  TraceInv'
  <2> DEFINE row == [by |-> r, status |-> draft[r].status, verdict |-> verdict[r]]
  <2>1. pc[r] = "audit" /\ pc'[r] = "publish" /\ draft' = draft
    BY <1>2 DEF StoreAudit, GoTo, GateInv
  <2>2. TraceOf[r] \in Traces
    BY DEF Traces
  <2>3. UNCHANGED traces \/ traces' = [traces EXCEPT ![TraceOf[r]] = row]
    BY <1>2 DEF StoreAudit, InsertOnce
  <2>4. row \in TraceRows
    BY DEF TraceRows, GateInv, DraftType, DraftStatus, DraftStatuses, VerdictInv
  <2>5. row.by = r /\ row.status = draft[r].status /\ row.verdict = verdict[r]
    OBVIOUS
  <2>6. verdict[r] = "pass" => draft[r].status = "ok" /\ ~ CriticalFailure(draft[r])
    BY <2>1 DEF VerdictInv
  <2> HIDE DEF row
  <2>7. CASE traces' = [traces EXCEPT ![TraceOf[r]] = row]
    <3>1. traces' \in [Traces -> TraceRows \cup {NoRow}]
      BY <2>4, <2>7 DEF TraceInv
    <3>2. \A t \in Traces : traces'[t] = IF t = TraceOf[r] THEN row ELSE traces[t]
      BY <2>7 DEF TraceInv
    <3>3. \A t \in Traces : traces[t] # NoRow => traces[t].by \in Runs
      BY DEF TraceInv, TraceRows
    <3> QED
      BY <1>0, <2>1, <2>5, <2>6, <3>1, <3>2, <3>3 DEF TraceInv, Final
  <2> QED
    BY <1>1, <2>3, <2>7
<1> QED
  BY <1>1, <1>2, WhoWrites

\* A knowledge gap is proposed only for a draft that the validator has refused,
\* and such a draft never becomes successful again (step 14b).
LEMMA GapStep ==
    ASSUME GateInv, ProposalInv, Next
    PROVE  ProposalInv'
<1> DEFINE After == Final \cup {"judge", "remember"}
<1> PICK r \in Runs : RunStep(r)
  BY DEF Next
<1>0. ASSUME NEW s \in Runs, pc[s] \in After, draft[s].status # "ok"
      PROVE  pc'[s] \in After /\ draft'[s].status # "ok"
  <2> USE DEF GateInv
  <2>1. CASE pc[s] \in Final
    BY <1>0, <2>1, FinalStays
  <2>2. CASE s # r
    BY <1>0, <2>2 DEF RunStep, RejectInjection, OutOfScope, Triage, Analyse, CostCheck,
       Generate, LegalTruth, Judge, SaveMemory, StoreAudit, PublishAndReturn, Crash,
       Return, GoTo, local
  <2>3. CASE s = r /\ pc[r] = "remember"
    <3>1. (\E done \in BOOLEAN : SaveMemory(r, done)) \/ Crash(r)
      BY <2>3 DEF RunStep, RejectInjection, OutOfScope, Triage, Analyse, CostCheck,
         Generate, LegalTruth, Judge, StoreAudit, PublishAndReturn
    <3> QED
      BY <1>0, <2>3, <3>1 DEF SaveMemory, Crash, GoTo, local, Final
  <2>4. CASE s = r /\ pc[r] = "judge"
    <3>1. \/ \E gaps, readable, verified, dbUp \in BOOLEAN :
                Judge(r, gaps, readable, verified, dbUp)
          \/ Crash(r)
      BY <2>4 DEF RunStep, RejectInjection, OutOfScope, Triage, Analyse, CostCheck,
         Generate, LegalTruth, SaveMemory, StoreAudit, PublishAndReturn
    <3>2. Refusal("blocked", "none", "served").status = "blocked"
      BY RefusalGrounded DEF DraftStatus, GovernOutcomes
    <3> QED
      BY <1>0, <2>4, <3>1, <3>2 DEF Judge, Return, Crash, GoTo, local, Final
  <2> QED
    BY <1>0, <2>1, <2>2, <2>3, <2>4
<1>1. CASE UNCHANGED proposals
  BY <1>0, <1>1 DEF ProposalInv
<1>2. ASSUME NEW grounded \in BOOLEAN, NEW dbUp \in BOOLEAN, NEW done \in BOOLEAN,
             LegalTruth(r, grounded, dbUp, done)
      PROVE  ProposalInv'
  <2> DEFINE v == ValidateLegalTruth(draft[r], grounded, dbUp)
             e == ApplyValidation(draft[r], v)
  <2>1. pc'[r] = "judge" /\ draft'[r] = e
    BY <1>2 DEF LegalTruth, GoTo, GateInv
  <2>2. v.gaps => e.status # "ok"
    BY ValidationApplied DEF GateInv
  <2>3. CASE v.gaps /\ dbUp /\ done
    <3>1. proposals' = proposals \cup {r}
      BY <1>2, <2>3 DEF LegalTruth
    <3> HIDE DEF v, e
    <3> QED
      BY <1>0, <2>1, <2>2, <2>3, <3>1 DEF ProposalInv
  <2>4. CASE ~ (v.gaps /\ dbUp /\ done)
    <3>1. proposals' = proposals
      BY <1>2, <2>4, Zenon DEF LegalTruth
    <3> QED
      BY <1>1, <3>1
  <2> QED
    BY <2>3, <2>4
<1> QED
  BY <1>1, <1>2, WhoWrites

\* All tables are empty in the beginning.
LEMMA RecordInit == Init => RecordInv
  BY DEF Init, RecordInv, VerdictInv, MemoryInv, EventInv, TraceInv, ProposalInv, Verdicts

\* Every row is accounted for in every reachable state.
THEOREM RecordsAccountedFor == Spec => []RecordInv
<1>1. RecordInv /\ UNCHANGED vars => RecordInv'
  BY DEF RecordInv, VerdictInv, MemoryInv, EventInv, TraceInv, ProposalInv, vars, local,
     tables, MemoryKey, Identified
<1>2. GateInv /\ RecordInv /\ Next => RecordInv'
  BY VerdictStep, MemoryStep, EventStep, TraceStep, GapStep DEF RecordInv
<1> QED
  BY <1>1, <1>2, RecordInit, GatesHold, PTL DEF Spec

\* A review row is of an identified user's run that has been through triage, and
\* its limitation date is at most a week away.
QueueInv ==
    /\ faults \in Nat
    /\ due \in [Runs -> Urgencies]
    /\ reviews \in [Traces -> Runs \cup {NoRow}]
    /\ \A t \in Traces : reviews[t] # NoRow =>
          /\ pc[reviews[t]] # "start" /\ Identified(reviews[t])
          /\ due[reviews[t]] \in {"critical", "expired"}

\* Only triage touches the urgency and the review queue, and faults only grow.
LEMMA OnlyTriageQueues ==
    ASSUME faults \in Nat, NEW r \in Runs, RunStep(r)
    PROVE  /\ faults' \in Nat /\ (faults' = 0 => faults = 0)
           /\ \/ UNCHANGED <<due, reviews>>
              \/ \E form \in EdtForms, days \in DaysLeft \cup {NoDays} : Triage(r, form, days)
<1> USE DEF local, tables, Succeeds, Fault
<1>1. CASE RejectInjection(r) \/ OutOfScope(r)
  BY <1>1 DEF RejectInjection, OutOfScope
<1>2. ASSUME NEW form, NEW days, Triage(r, form, days)
      PROVE  faults' \in Nat /\ (faults' = 0 => faults = 0)
  BY <1>2 DEF Triage, QueueReview
<1>3. ASSUME NEW route, Analyse(r, route)
      PROVE  /\ faults' \in Nat /\ (faults' = 0 => faults = 0)
             /\ UNCHANGED <<due, reviews>>
  BY <1>3 DEF Analyse
<1>4. CASE CostCheck(r)
  BY <1>4 DEF CostCheck
<1>5. ASSUME NEW d, Generate(r, d)
      PROVE  UNCHANGED <<faults, due, reviews>>
  BY <1>5 DEF Generate
<1>6. ASSUME NEW grounded, NEW dbUp, NEW done, LegalTruth(r, grounded, dbUp, done)
      PROVE  /\ faults' \in Nat /\ (faults' = 0 => faults = 0)
             /\ UNCHANGED <<due, reviews>>
  BY <1>6 DEF LegalTruth
<1>7. ASSUME NEW gaps, NEW readable, NEW verified, NEW dbUp,
             Judge(r, gaps, readable, verified, dbUp)
      PROVE  /\ faults' \in Nat /\ (faults' = 0 => faults = 0)
             /\ UNCHANGED <<due, reviews>>
  BY <1>7 DEF Judge
<1>8. ASSUME NEW done, SaveMemory(r, done) \/ StoreAudit(r, done) \/ PublishAndReturn(r, done)
      PROVE  /\ faults' \in Nat /\ (faults' = 0 => faults = 0)
             /\ UNCHANGED <<due, reviews>>
  BY <1>8 DEF SaveMemory, StoreAudit, PublishAndReturn
<1>9. CASE Crash(r)
  BY <1>9 DEF Crash
<1> QED
  BY <1>1, <1>2, <1>3, <1>4, <1>5, <1>6, <1>7, <1>8, <1>9 DEF RunStep

\* A run that has left its first step does not come back to it.
LEMMA StartedOnce ==
    ASSUME GateInv, NEW r \in Runs, RunStep(r), NEW s \in Runs, pc[s] # "start"
    PROVE  pc'[s] # "start"
  BY DEF GateInv, RunStep, RejectInjection, OutOfScope, Triage, Analyse, CostCheck, Generate,
     LegalTruth, Judge, SaveMemory, StoreAudit, PublishAndReturn, Crash, Return, GoTo

\* Triage queues only a run whose date, as far as it could be computed, is near,
\* and what it believes near is near (brain.py:639-670).
LEMMA QueueStep ==
    ASSUME GateInv, QueueInv, Next
    PROVE  QueueInv'
<1> PICK r \in Runs : RunStep(r)
  BY DEF Next
<1>0. faults' \in Nat
  BY OnlyTriageQueues DEF QueueInv
<1>1. \A t \in Traces : reviews[t] # NoRow => reviews[t] \in Runs /\ pc'[reviews[t]] # "start"
  BY StartedOnce DEF QueueInv
<1>2. CASE UNCHANGED <<due, reviews>>
  BY <1>0, <1>1, <1>2 DEF QueueInv, Identified
<1>3. ASSUME NEW form, NEW days, Triage(r, form, days)
      PROVE  QueueInv'
  <2> DEFINE level == UrgencyLevel(IF form = "date" THEN days ELSE NoDays)
  <2>1. UrgencyLevel(days) \in Urgencies /\ due' = [due EXCEPT ![r] = UrgencyLevel(days)]
    BY <1>3 DEF Triage, UrgencyLevel, Urgencies
  <2>2. PICK done \in BOOLEAN :
            reviews' = IF ReviewNeeded(r, level) /\ done THEN InsertOnce(reviews, r, r)
                       ELSE reviews
    BY <1>3 DEF Triage, QueueReview
  <2>3. ReviewNeeded(r, level) => Identified(r) /\ due'[r] \in {"critical", "expired"}
    <3>1. UrgencyLevel(NoDays) = "unknown"
      BY DEF UrgencyLevel
    <3>2. ReviewNeeded(r, level) => level \in {"critical", "expired"} /\ Identified(r)
      BY DEF ReviewNeeded, ShouldQueue, HighRiskClaims
    <3>3. due'[r] = UrgencyLevel(days)
      BY <2>1 DEF QueueInv
    <3> QED
      BY <3>1, <3>2, <3>3
  <2> HIDE DEF level
  <2>4. pc[r] = "start" /\ pc'[r] # "start"
    BY <1>3 DEF Triage, GoTo, GateInv
  <2>5. reviews' \in [Traces -> Runs \cup {NoRow}] /\ due' \in [Runs -> Urgencies]
    BY <2>1, <2>2 DEF InsertOnce, QueueInv
  <2>6. ASSUME NEW t \in Traces, reviews'[t] # NoRow
        PROVE  /\ pc'[reviews'[t]] # "start" /\ Identified(reviews'[t])
               /\ due'[reviews'[t]] \in {"critical", "expired"}
    <3>1. reviews'[t] = reviews[t] \/ (reviews'[t] = r /\ ReviewNeeded(r, level))
      BY <2>2, <2>6 DEF InsertOnce, QueueInv
    <3>2. CASE reviews'[t] = reviews[t]
      <4>1. reviews[t] # r
        BY <2>4, <2>6, <3>2 DEF QueueInv
      <4> QED
        BY <1>1, <2>1, <2>6, <3>2, <4>1 DEF QueueInv
    <3>3. CASE reviews'[t] = r /\ ReviewNeeded(r, level)
      BY <2>3, <2>4, <3>3
    <3> QED
      BY <3>1, <3>2, <3>3
  <2> QED
    BY <1>0, <2>5, <2>6 DEF QueueInv, Identified
<1> QED
  BY <1>2, <1>3, OnlyTriageQueues DEF QueueInv

\* The review queue is accounted for in every reachable state.
THEOREM QueueAccountedFor == Spec => []QueueInv
<1>1. Init => QueueInv
  BY DEF Init, QueueInv, Urgencies
<1>2. QueueInv /\ UNCHANGED vars => QueueInv'
  BY DEF QueueInv, Identified, vars, local, tables
<1> QED
  BY <1>1, <1>2, QueueStep, GatesHold, PTL DEF Spec

\* Memory, events, traces, proposals and reviews come only from runs entitled to
\* write them, for any number of runs that share users, cases and trace ids and
\* any crashes and failing writes.
THEOREM Justification == Spec => []RecordsJustified
<1>1. RecordInv /\ QueueInv => RecordsJustified
  BY DEF RecordInv, MemoryInv, EventInv, TraceInv, ProposalInv, QueueInv, RecordsJustified
<1> QED
  BY <1>1, RecordsAccountedFor, QueueAccountedFor, PTL

-----------------------------------------------------------------------------
(* What has to be there when nothing fails.                                *)

\* What run r has written by the step it is at.
Recorded(r) ==
    /\ pc[r] = "publish" => traces[TraceOf[r]] # NoRow
    /\ pc[r] \in {"audit", "publish", "answered"} /\ draft[r].status = "ok"
       /\ r \in Consent /\ Identified(r) => MemoryKey(r) \in memory
    /\ Answered(r, "ok") => events[TraceOf[r]] # NoRow

SuccessInv ==
    faults = 0 =>
        /\ \A r \in Runs : Recorded(r)
        /\ \A t \in Traces : events[t] # NoRow => traces[t] # NoRow

\* The draft of a run is successful only if no early return answered for it.
LEMMA ReturnIsRefusal ==
    ASSUME GateInv, NEW r \in Runs, NEW status \in DraftStatus \ {"ok"}, Return(r, status)
    PROVE  pc'[r] = "answered" /\ draft'[r].status # "ok"
<1>1. Refusal(status, "none", "served").status = status
  BY RefusalGrounded DEF GovernOutcomes
<1> QED
  BY <1>1 DEF Return, GoTo, GateInv

\* A step of r leaves the step and the draft of the others alone.
LEMMA OthersStandStill ==
    ASSUME GateInv, NEW r \in Runs, RunStep(r), NEW s \in Runs, s # r
    PROVE  pc'[s] = pc[s] /\ draft'[s] = draft[s]
  BY DEF GateInv, RunStep, RejectInjection, OutOfScope, Triage, Analyse, CostCheck, Generate,
     LegalTruth, Judge, SaveMemory, StoreAudit, PublishAndReturn, Crash, Return, GoTo, local

\* Rows of the three tables are never removed.
LEMMA TablesGrow ==
    ASSUME RecordInv, NEW r \in Runs, RunStep(r)
    PROVE  /\ memory \subseteq memory'
           /\ \A t \in Traces : events[t] # NoRow => events'[t] # NoRow
           /\ \A t \in Traces : traces[t] # NoRow => traces'[t] # NoRow
<1>1. memory \subseteq memory'
  BY WhoWrites DEF SaveMemory
<1>2. \A t \in Traces : events[t] # NoRow => events'[t] # NoRow
  <2>1. CASE UNCHANGED events
    BY <2>1
  <2>2. ASSUME NEW done \in BOOLEAN, PublishAndReturn(r, done)
        PROVE  \A t \in Traces : events[t] # NoRow => events'[t] # NoRow
    BY <2>2 DEF PublishAndReturn, InsertOnce, RecordInv, EventInv
  <2> QED
    BY <2>1, <2>2, WhoWrites
<1>3. \A t \in Traces : traces[t] # NoRow => traces'[t] # NoRow
  <2>1. CASE UNCHANGED traces
    BY <2>1
  <2>2. ASSUME NEW done \in BOOLEAN, StoreAudit(r, done)
        PROVE  \A t \in Traces : traces[t] # NoRow => traces'[t] # NoRow
    BY <2>2 DEF StoreAudit, InsertOnce, RecordInv, TraceInv
  <2> QED
    BY <2>1, <2>2, WhoWrites
<1> QED
  BY <1>1, <1>2, <1>3

\* Each writing step of a run that does not fail leaves its row behind (steps 17
\* to 18b).
LEMMA RunRecords ==
    ASSUME GateInv, RecordInv, NEW r \in Runs, RunStep(r), Recorded(r),
           faults \in Nat, faults' = faults
    PROVE  Recorded(r)'
<1> USE DEF GateInv
<1> DEFINE Early == pc'[r] \notin {"audit", "publish", "answered"}
           Refused == pc'[r] = "answered" /\ draft'[r].status # "ok"
<1>0. Early \/ Refused => Recorded(r)'
  BY DEF Recorded, Answered
<1>1. CASE RejectInjection(r) \/ OutOfScope(r)
  BY <1>0, <1>1, ReturnIsRefusal DEF RejectInjection, OutOfScope, DraftStatus
<1>2. ASSUME NEW form, NEW days, Triage(r, form, days)
      PROVE  Early
  BY <1>2 DEF Triage, GoTo
<1>3. ASSUME NEW route, Analyse(r, route)
      PROVE  Early
  BY <1>3 DEF Analyse, GoTo
<1>4. CASE CostCheck(r)
  <2>1. CASE Return(r, "quota_exceeded")
    BY <1>0, <2>1, ReturnIsRefusal DEF DraftStatus
  <2>2. CASE GoTo(r, "generate")
    BY <1>0, <2>2 DEF GoTo
  <2> QED
    BY <1>4, <2>1, <2>2 DEF CostCheck
<1>5. ASSUME NEW d, Generate(r, d)
      PROVE  Early
  BY <1>5 DEF Generate, GoTo
<1>6. ASSUME NEW grounded, NEW dbUp, NEW done, LegalTruth(r, grounded, dbUp, done)
      PROVE  Early
  BY <1>6 DEF LegalTruth, GoTo
<1>7. ASSUME NEW gaps, NEW readable, NEW verified, NEW dbUp,
             Judge(r, gaps, readable, verified, dbUp)
      PROVE  Recorded(r)'
  <2>1. CASE Return(r, "blocked")
    BY <1>0, <2>1, ReturnIsRefusal DEF DraftStatus
  <2>2. CASE GoTo(r, "remember")
    BY <1>0, <2>2 DEF GoTo
  <2> QED
    BY <1>7, <2>1, <2>2 DEF Judge
<1>8. ASSUME NEW done \in BOOLEAN, SaveMemory(r, done)
      PROVE  Recorded(r)'
  <2>1. done
    BY <1>8 DEF SaveMemory, Succeeds, Fault
  <2>2. pc'[r] = "audit" /\ draft' = draft
    BY <1>8 DEF SaveMemory, GoTo, local
  <2>3. MayRemember(r) => MemoryKey(r) \in memory'
    BY <1>8, <2>1 DEF SaveMemory
  <2> QED
    BY <2>2, <2>3 DEF Recorded, Answered, MayRemember, MemoryKey, Identified
<1>9. ASSUME NEW done \in BOOLEAN, StoreAudit(r, done)
      PROVE  Recorded(r)'
  <2> DEFINE row == [by |-> r, status |-> draft[r].status, verdict |-> verdict[r]]
  <2>1. done
    BY <1>9 DEF StoreAudit, Succeeds, Fault
  <2>2. pc[r] = "audit" /\ pc'[r] = "publish" /\ draft' = draft /\ memory' = memory
    BY <1>9 DEF StoreAudit, GoTo
  <2>3. row # NoRow
    <3>1. row \in TraceRows
      BY DEF TraceRows, RecordInv, VerdictInv, DraftType, DraftStatus, DraftStatuses
    <3> QED
      BY <3>1, NoRowAssumption
  <2>4. traces' = InsertOnce(traces, r, row)
    BY <1>9, <2>1 DEF StoreAudit
  <2> HIDE DEF row
  <2>5. traces'[TraceOf[r]] # NoRow
    BY <2>3, <2>4 DEF InsertOnce, RecordInv, TraceInv, Traces
  <2> QED
    BY <2>2, <2>5 DEF Recorded, Answered, MemoryKey, Identified
<1>10. ASSUME NEW done \in BOOLEAN, PublishAndReturn(r, done)
       PROVE  Recorded(r)'
  <2>1. done
    BY <1>10 DEF PublishAndReturn, Succeeds, Fault
  <2>2. pc[r] = "publish" /\ pc'[r] = "answered" /\ draft' = draft /\ memory' = memory
    BY <1>10 DEF PublishAndReturn, GoTo, local
  <2>3. draft[r].status = "ok" => events' = InsertOnce(events, r, r)
    BY <1>10, <2>1 DEF PublishAndReturn
  <2>4. draft[r].status = "ok" => events'[TraceOf[r]] # NoRow
    BY <2>3, NoRowAssumption DEF InsertOnce, RecordInv, EventInv, Traces
  <2> QED
    BY <2>2, <2>4 DEF Recorded, Answered, MemoryKey, Identified
<1>11. CASE Crash(r)
  BY <1>0, <1>11 DEF Crash, GoTo
<1> QED
  BY <1>0, <1>1, <1>2, <1>3, <1>4, <1>5, <1>6, <1>7, <1>8, <1>9, <1>10, <1>11 DEF RunStep

LEMMA SuccessStep ==
    ASSUME GateInv, RecordInv, QueueInv, SuccessInv, Next
    PROVE  SuccessInv'
<1> SUFFICES ASSUME faults' = 0
             PROVE  /\ \A s \in Runs : Recorded(s)'
                    /\ \A t \in Traces : events'[t] # NoRow => traces'[t] # NoRow
  BY DEF SuccessInv, Traces
<1> PICK r \in Runs : RunStep(r)
  BY DEF Next
<1>1. faults = 0 /\ faults \in Nat
  BY OnlyTriageQueues DEF QueueInv
<1>2. /\ \A s \in Runs : Recorded(s)
      /\ \A t \in Traces : events[t] # NoRow => traces[t] # NoRow
  BY <1>1 DEF SuccessInv
<1>3. Recorded(r)'
  BY <1>1, <1>2, RunRecords
<1>4. ASSUME NEW s \in Runs, s # r
      PROVE  Recorded(s)'
  <2>1. pc'[s] = pc[s] /\ draft'[s] = draft[s]
    BY <1>4, OthersStandStill
  <2>2. TraceOf[s] \in Traces
    BY DEF Traces
  <2> QED
    BY <1>2, <2>1, <2>2, TablesGrow DEF Recorded, Answered, MemoryKey, Identified
<1>5. ASSUME NEW t \in Traces, events'[t] # NoRow
      PROVE  traces'[t] # NoRow
  <2>1. CASE events[t] # NoRow
    BY <1>2, <2>1, TablesGrow
  <2>2. CASE events[t] = NoRow
    <3>1. PICK done \in BOOLEAN : PublishAndReturn(r, done)
      BY <1>5, <2>2, WhoWrites
    <3>2. t = TraceOf[r] /\ pc[r] = "publish"
      BY <1>5, <2>2, <3>1 DEF PublishAndReturn, InsertOnce, RecordInv, EventInv
    <3> QED
      BY <1>2, <3>2, TablesGrow DEF Recorded
  <2> QED
    BY <2>1, <2>2
<1> QED
  BY <1>3, <1>4, <1>5

\* As long as nothing crashes or fails, a successful answer has its trace row, its
\* event and the memory that the user consented to, also when another run took
\* the trace id first, and no event precedes its trace row (run_brain, steps 17
\* to 19).
THEOREM SuccessKept == Spec => []SuccessIsRecorded
<1>1. Init => SuccessInv
  BY DEF Init, SuccessInv, Recorded, Answered
<1>2. SuccessInv /\ UNCHANGED vars => SuccessInv'
  BY DEF SuccessInv, Recorded, Answered, MemoryKey, Identified, vars, local, tables
<1>3. SuccessInv => SuccessIsRecorded
  BY DEF SuccessInv, Recorded, SuccessIsRecorded, Answered
<1> QED
  BY <1>1, <1>2, <1>3, SuccessStep, GatesHold, RecordsAccountedFor, QueueAccountedFor, PTL DEF Spec

-----------------------------------------------------------------------------
(***************************************************************************)
(* The daily limit.  Reading the user's rows and logging the estimate are  *)
(* two transactions, so a check may decide on what is no longer true; but  *)
(* a check that overlapped none of its user's is alone between the two,    *)
(* and then what it read is still what is there.  The rest is about sums:  *)
(* the governor's total is a fold, so first that a finite set has a sum    *)
(* and that the fold finds it.                                             *)
(***************************************************************************)

\* What holds of a finite set if it holds of it without any one of its members
\* holds of all finite sets.
LEMMA OneByOne ==
    ASSUME NEW U, IsFiniteSet(U), NEW D, {} \in D,
           \A S \in SUBSET U : S # {} /\ (\A x \in S : S \ {x} \in D) => S \in D
    PROVE  SUBSET U \subseteq D
<1> DEFINE Bad == {S \in SUBSET U : S \notin D}
<1> SUFFICES ASSUME Bad # {} PROVE FALSE
  OBVIOUS
<1>1. \A S \in SUBSET U : IsFiniteSet(S) /\ Cardinality(S) \in Nat
  BY FS_Subset, FS_CardinalityType
<1>2. PICK Sizes : Sizes = {Cardinality(S) : S \in Bad}
  OBVIOUS
<1>sizes. Sizes \in SUBSET Nat
  BY <1>1, <1>2
<1>3. Sizes # {}
  BY <1>2
<1>4. PICK n \in Sizes : \A k \in Sizes : ~ (<<k, n>> \in OpToRel(<, Nat))
  BY <1>3, <1>sizes, NatLessThanWellFounded, WFMin
<1>5. PICK S \in Bad : Cardinality(S) = n
  BY <1>2, <1>4
<1>6. S # {}
  BY <1>5
<1>7. ASSUME NEW x \in S PROVE S \ {x} \in D
  <2>1. IsFiniteSet(S) /\ Cardinality(S) \in Nat /\ S \ {x} \in SUBSET U
    BY <1>1
  <2>2. Cardinality(S \ {x}) = n - 1 /\ n - 1 \in Nat
    <3>1. Cardinality(S \ {x}) = Cardinality(S) - 1
      BY <2>1, FS_RemoveElement
    <3>2. Cardinality(S \ {x}) \in Nat
      BY <1>1, <2>1
    <3> QED BY <1>5, <3>1, <3>2
  <2>3. PICK p : p = <<n - 1, n>>
    OBVIOUS
  <2>4. p \in OpToRel(<, Nat)
    <3>1. p \in Nat \X Nat /\ p[1] < p[2]
      BY <1>sizes, <2>2, <2>3
    <3> QED BY <3>1 DEF OpToRel
  <2>5. n - 1 \notin Sizes
    BY <1>4, <2>3, <2>4
  <2> QED BY <1>2, <2>1, <2>2, <2>5
<1> QED BY <1>5, <1>6, <1>7

\* g adds up what f has on each subset of U.
Adds(f, U, g) ==
    /\ g \in [SUBSET U -> Nat] /\ g[{}] = 0
    /\ \A S \in SUBSET U : \A x \in S : g[S] = g[S \ {x}] + f[x]

\* A finite set has sums.
LEMMA SumsExist ==
    ASSUME NEW U, IsFiniteSet(U), NEW f \in [U -> Nat]
    PROVE  \E g : Adds(f, U, g)
<1> DEFINE D == {T \in SUBSET U : \E g : Adds(f, T, g)}
<1>1. {} \in D
  <2>1. PICK g : g = [S \in SUBSET {} |-> 0]
    OBVIOUS
  <2>2. Adds(f, {}, g)
    BY <2>1 DEF Adds
  <2> QED BY <2>2
<1>2. ASSUME NEW T \in SUBSET U, NEW x \in T, T \ {x} \in D PROVE T \in D
  <2>1. PICK h : Adds(f, T \ {x}, h)
    BY <1>2
  <2>2. PICK g : g = [S \in SUBSET T |-> IF x \in S THEN h[S \ {x}] + f[x] ELSE h[S]]
    OBVIOUS
  <2>3. h \in [SUBSET (T \ {x}) -> Nat] /\ h[{}] = 0
    BY <2>1 DEF Adds
  <2>4. \A S \in SUBSET (T \ {x}) : \A y \in S : h[S] = h[S \ {y}] + f[y]
    BY <2>1 DEF Adds
  <2>5. f[x] \in Nat /\ \A y \in T : f[y] \in Nat
    OBVIOUS
  <2>6. ASSUME NEW S \in SUBSET T PROVE g[S] \in Nat
    <3>1. CASE x \in S
      <4>1. S \ {x} \in SUBSET (T \ {x})
        OBVIOUS
      <4>2. h[S \ {x}] \in Nat
        BY <2>3, <4>1
      <4> QED BY <2>2, <2>5, <3>1, <4>2
    <3>2. CASE x \notin S
      <4>1. S \in SUBSET (T \ {x})
        BY <3>2
      <4>2. h[S] \in Nat
        BY <2>3, <4>1
      <4> QED BY <2>2, <3>2, <4>2
    <3> QED BY <3>1, <3>2
  <2>7. g \in [SUBSET T -> Nat] /\ g[{}] = 0
    BY <2>2, <2>3, <2>6
  <2>8. ASSUME NEW S \in SUBSET T, NEW y \in S PROVE g[S] = g[S \ {y}] + f[y]
    <3>1. CASE y = x
      <4>1. g[S] = h[S \ {x}] + f[x]
        BY <2>2, <3>1
      <4>2. g[S \ {x}] = h[S \ {x}]
        BY <2>2
      <4> QED BY <3>1, <4>1, <4>2
    <3>2. CASE y # x /\ x \in S
      <4>1. PICK R : R = (S \ {x}) \ {y}
        OBVIOUS
      <4>2. S \ {x} \in SUBSET (T \ {x}) /\ y \in S \ {x}
        BY <3>2
      <4>3. h[S \ {x}] = h[R] + f[y]
        BY <2>4, <4>1, <4>2
      <4>4. R \in SUBSET (T \ {x}) /\ R = (S \ {y}) \ {x}
        BY <4>1
      <4>5. g[S] = h[S \ {x}] + f[x]
        BY <2>2, <3>2
      <4>6. g[S \ {y}] = h[R] + f[x]
        BY <2>2, <3>2, <4>4
      <4>7. h[R] \in Nat /\ f[x] \in Nat /\ f[y] \in Nat
        BY <2>3, <2>5, <4>4
      <4> QED BY <4>3, <4>5, <4>6, <4>7
    <3>3. CASE x \notin S
      <4>1. S \in SUBSET (T \ {x}) /\ g[S] = h[S] /\ g[S \ {y}] = h[S \ {y}]
        BY <2>2, <3>3
      <4> QED BY <2>4, <4>1
    <3> QED BY <3>1, <3>2, <3>3
  <2>9. Adds(f, T, g)
    BY <2>7, <2>8 DEF Adds
  <2> QED BY <2>9
<1>3. U \in D
  <2>1. ASSUME NEW T \in SUBSET U, T # {}, \A x \in T : T \ {x} \in D PROVE T \in D
    <3>1. PICK x \in T : T \ {x} \in D
      BY <2>1
    <3> HIDE DEF D
    <3> QED BY <1>2, <3>1
  <2> HIDE DEF D
  <2>2. SUBSET U \subseteq D
    BY <1>1, <2>1, OneByOne
  <2> QED BY <2>2
<1> QED BY <1>3

\* What the rows of S add up to in a given log.
TokensIn(log, S) == MapThenSumSet(LAMBDA s : log[s].tokens, S)

\* A fold finds the sum.
LEMMA FoldIsSum ==
    ASSUME IsFiniteSet(Runs), NEW log, NEW f \in [Runs -> Nat], \A r \in Runs : f[r] = log[r].tokens,
           NEW g, Adds(f, Runs, g), NEW S \in SUBSET Runs
    PROVE  TokensIn(log, S) = g[S]
<1> DEFINE Any(s) == CHOOSE x \in s : TRUE
<1> DEFINE eq(i) == i = [s \in SUBSET S |-> IF s = {} THEN 0 ELSE log[Any(s)].tokens + i[s \ {Any(s)}]]
<1>1. PICK h : h = [s \in SUBSET S |-> g[s]]
  OBVIOUS
<1>2. eq(h)
  <2>1. ASSUME NEW s \in SUBSET S, s # {}
        PROVE  h[s] = log[Any(s)].tokens + h[s \ {Any(s)}]
    <3>1. PICK x : x = Any(s)
      OBVIOUS
    <3>2. x \in s /\ x \in Runs /\ s \in SUBSET Runs /\ s \ {x} \in SUBSET S
      BY <2>1, <3>1
    <3>3. g[s] = g[s \ {x}] + f[x] /\ g[s \ {x}] \in Nat
      BY <3>2 DEF Adds
    <3>4. h[s] = g[s] /\ h[s \ {x}] = g[s \ {x}]
      BY <1>1, <3>2
    <3>5. f[x] = log[x].tokens /\ f[x] \in Nat
      BY <3>2
    <3> QED BY <3>1, <3>3, <3>4, <3>5
  <2>2. h[{}] = 0
    BY <1>1 DEF Adds
  <2> QED BY <1>1, <2>1, <2>2
<1>3. PICK i : eq(i) /\ TokensIn(log, S) = i[S]
  BY <1>2 DEF TokensIn, MapThenSumSet, MapThenFoldSet
<1>4. \A s \in SUBSET S : i[s] = h[s]
  <2> DEFINE D == {s \in SUBSET S : i[s] = h[s]}
  <2>1. {} \in D
    BY <1>2, <1>3
  <2>2. ASSUME NEW s \in SUBSET S, s # {}, \A y \in s : s \ {y} \in D PROVE s \in D
    <3>1. PICK x : x = Any(s)
      OBVIOUS
    <3>2. x \in s /\ i[s \ {x}] = h[s \ {x}]
      BY <2>2, <3>1
    <3>3. i[s] = log[x].tokens + i[s \ {x}]
      BY <1>3, <2>2, <3>1
    <3>4. h[s] = log[x].tokens + h[s \ {x}]
      BY <1>2, <2>2, <3>1
    <3> QED BY <3>2, <3>3, <3>4
  <2>3. IsFiniteSet(S)
    BY FS_Subset
  <2> HIDE DEF D
  <2>4. SUBSET S \subseteq D
    BY <2>1, <2>2, <2>3, OneByOne
  <2> QED BY <2>4 DEF D
<1> QED BY <1>1, <1>3, <1>4

\* The governor adds up the log as it is, and after a step as it is then.
LEMMA NowAndThen == \A S : LoggedTokens(S) = TokensIn(ledger, S) /\ LoggedTokens(S)' = TokensIn(ledger', S)
<1> TAKE S
<1>1. LoggedTokens(S) = TokensIn(ledger, S)
  BY DEF LoggedTokens, TokensIn
<1>2. LoggedTokens(S)' = TokensIn(ledger', S)
  BY DEF LoggedTokens, TokensIn, MapThenSumSet, MapThenFoldSet
<1> QED BY <1>1, <1>2

LogEntry == [tokens : Nat, decision : Decisions]

\* One row more adds its tokens.
LEMMA TokensAdd ==
    ASSUME IsFiniteSet(Runs), NEW log \in [Runs -> LogEntry], NEW S \in SUBSET Runs
    PROVE  /\ TokensIn(log, S) \in Nat
           /\ \A x \in S : TokensIn(log, S) = TokensIn(log, S \ {x}) + log[x].tokens
<1>1. PICK f : f = [r \in Runs |-> log[r].tokens]
  OBVIOUS
<1>2. f \in [Runs -> Nat] /\ \A r \in Runs : f[r] = log[r].tokens
  BY <1>1 DEF LogEntry
<1>3. PICK g : Adds(f, Runs, g)
  BY <1>2, SumsExist
<1>4. \A T \in SUBSET Runs : TokensIn(log, T) = g[T]
  BY <1>2, <1>3, FoldIsSum
<1>5. g[S] \in Nat /\ \A x \in S : g[S] = g[S \ {x}] + f[x]
  BY <1>3 DEF Adds
<1> QED BY <1>2, <1>4, <1>5

\* More rows never make fewer tokens.
LEMMA TokensGrow ==
    ASSUME IsFiniteSet(Runs), NEW log \in [Runs -> LogEntry],
           NEW S \in SUBSET Runs, NEW T \in SUBSET S
    PROVE  TokensIn(log, T) <= TokensIn(log, S)
<1> DEFINE D == {B \in SUBSET Runs : \A A \in SUBSET B : TokensIn(log, A) <= TokensIn(log, B)}
<1>1. \A B \in SUBSET Runs : TokensIn(log, B) \in Nat
  BY TokensAdd
<1>2. {} \in D
  <2>1. \A A \in SUBSET {} : A = {}
    OBVIOUS
  <2>2. TokensIn(log, {}) \in Nat
    BY <1>1
  <2> QED BY <2>1, <2>2
<1>3. ASSUME NEW B \in SUBSET Runs, B # {}, \A x \in B : B \ {x} \in D PROVE B \in D
  <2>1. ASSUME NEW A \in SUBSET B PROVE TokensIn(log, A) <= TokensIn(log, B)
    <3>1. CASE A = B
      BY <1>1, <3>1
    <3>2. CASE A # B
      <4>1. PICK x \in B : x \notin A
        BY <3>2
      <4>2. TokensIn(log, B) = TokensIn(log, B \ {x}) + log[x].tokens
        BY TokensAdd
      <4>3. TokensIn(log, A) <= TokensIn(log, B \ {x})
        BY <1>3, <4>1
      <4>4. log[x].tokens \in Nat
        BY DEF LogEntry
      <4>5. /\ TokensIn(log, A) \in Nat /\ TokensIn(log, B) \in Nat
            /\ TokensIn(log, B \ {x}) \in Nat
        BY <1>1
      <4> QED BY <4>2, <4>3, <4>4, <4>5
    <3> QED BY <3>1, <3>2
  <2> QED BY <2>1
<1>4. SUBSET Runs \subseteq D
  <2> HIDE DEF D
  <2> QED BY <1>2, <1>3, OneByOne
<1> QED BY <1>4

\* Rows elsewhere do not matter.
LEMMA TokensKept ==
    ASSUME IsFiniteSet(Runs), NEW log \in [Runs -> LogEntry], NEW new \in [Runs -> LogEntry],
           NEW S \in SUBSET Runs, \A s \in S : new[s] = log[s]
    PROVE  TokensIn(new, S) = TokensIn(log, S)
<1> DEFINE D == {B \in SUBSET S : TokensIn(new, B) = TokensIn(log, B)}
<1>1. {} \in D
  <2>1. PICK f, h : /\ f = [r \in Runs |-> log[r].tokens]
                    /\ h = [r \in Runs |-> new[r].tokens]
    OBVIOUS
  <2>2. /\ f \in [Runs -> Nat] /\ \A r \in Runs : f[r] = log[r].tokens
        /\ h \in [Runs -> Nat] /\ \A r \in Runs : h[r] = new[r].tokens
    BY <2>1 DEF LogEntry
  <2>3. PICK g : Adds(f, Runs, g)
    BY <2>2, SumsExist
  <2>4. PICK i : Adds(h, Runs, i)
    BY <2>2, SumsExist
  <2>5. TokensIn(log, {}) = g[{}] /\ TokensIn(new, {}) = i[{}]
    <3>1. {} \in SUBSET Runs
      OBVIOUS
    <3> QED BY <2>2, <2>3, <2>4, <3>1, FoldIsSum
  <2> QED BY <2>3, <2>4, <2>5 DEF Adds
<1>2. ASSUME NEW B \in SUBSET S, B # {}, \A x \in B : B \ {x} \in D PROVE B \in D
  <2>1. PICK x \in B : B \ {x} \in D
    BY <1>2
  <2>2. /\ TokensIn(new, B) = TokensIn(new, B \ {x}) + new[x].tokens
        /\ TokensIn(log, B) = TokensIn(log, B \ {x}) + log[x].tokens
    BY TokensAdd
  <2> QED BY <2>1, <2>2
<1>3. IsFiniteSet(S)
  BY FS_Subset
<1>4. SUBSET S \subseteq D
  <2> HIDE DEF D
  <2> QED BY <1>1, <1>2, <1>3, OneByOne
<1> QED BY <1>4


QuotaTypes ==
    /\ pc \in [Runs -> Steps] /\ faults \in Nat
    /\ cost \in [Runs -> Nat] /\ used \in [Runs -> Nat]
    /\ ledger \in [Runs -> LogEntry] /\ overlapped \subseteq Runs

\* A run whose check overlaps no other is alone with its user's rows: they are still
\* what it read.
AloneInv ==
    faults = 0 => \A r \in Runs :
        pc[r] = "quota" /\ r \notin overlapped /\ UserOf[r] # Nobody =>
            /\ CheckingQuota(UserOf[r]) = {r}
            /\ used[r] = TokensIn(ledger, RunsOf(UserOf[r]))

\* The runs of a user that were admitted by a check of their own.
Admitted(u) ==
    {r \in RunsOf(u) \ overlapped : ledger[r].decision \in {"request_downgraded", "within_budget"}}

Users == {UserOf[r] : r \in Runs} \ {Nobody}

LimitInv == faults = 0 => \A u \in Users : TokensIn(ledger, Admitted(u)) <= DailyLimit

QuotaInv == QuotaTypes /\ AloneInv /\ LimitInv

\* The other steps of a run neither check nor log.
LEMMA OnlyQuotaLogs ==
    ASSUME faults \in Nat, NEW r \in Runs, RunStep(r), pc \in [Runs -> Steps]
    PROVE  \/ \E route \in Routes : Analyse(r, route)
           \/ CostCheck(r)
           \/ /\ faults' \in Nat /\ (faults' = 0 => faults = 0)
              /\ UNCHANGED <<ledger, overlapped, used, cost>>
              /\ \E step \in Steps \ {"quota"} : pc' = [pc EXCEPT ![r] = step]
<1> DEFINE Quiet == /\ faults' \in Nat /\ (faults' = 0 => faults = 0)
                    /\ UNCHANGED <<ledger, overlapped, used, cost>>
                    /\ \E step \in Steps \ {"quota"} : pc' = [pc EXCEPT ![r] = step]
<1> USE DEF local, tables, Succeeds, Fault, GoTo, Steps
<1>1. ASSUME RejectInjection(r) \/ OutOfScope(r) PROVE Quiet
  BY <1>1 DEF RejectInjection, OutOfScope, Return
<1>2. ASSUME NEW form, NEW days, Triage(r, form, days) PROVE Quiet
  <2>1. pc' = [pc EXCEPT ![r] = "analyse"] /\ UNCHANGED <<ledger, overlapped, used, cost>>
    BY <1>2 DEF Triage
  <2>2. \E done \in BOOLEAN : Succeeds(done)
    BY <1>2 DEF Triage, QueueReview
  <2>3. faults' \in Nat /\ (faults' = 0 => faults = 0)
    BY <2>2
  <2> QED BY <2>1, <2>3
<1>3. ASSUME NEW d, Generate(r, d) PROVE Quiet
  BY <1>3 DEF Generate
<1>4. ASSUME NEW grounded, NEW dbUp, NEW done, LegalTruth(r, grounded, dbUp, done) PROVE Quiet
  <2>1. pc' = [pc EXCEPT ![r] = "judge"] /\ UNCHANGED <<ledger, overlapped, used, cost>>
    BY <1>4 DEF LegalTruth
  <2>2. Succeeds(dbUp /\ done)
    BY <1>4 DEF LegalTruth
  <2>3. faults' \in Nat /\ (faults' = 0 => faults = 0)
    BY <2>2
  <2> QED BY <2>1, <2>3
<1>5. ASSUME NEW gaps, NEW readable, NEW verified, NEW dbUp,
             Judge(r, gaps, readable, verified, dbUp)
      PROVE  Quiet
  <2>1. UNCHANGED <<ledger, overlapped, used, cost>>
    BY <1>5 DEF Judge
  <2>2. Succeeds(dbUp)
    BY <1>5 DEF Judge
  <2>3. faults' \in Nat /\ (faults' = 0 => faults = 0)
    BY <2>2
  <2>4. Return(r, "blocked") \/ GoTo(r, "remember")
    BY <1>5 DEF Judge
  <2>5. \E step \in Steps \ {"quota"} : pc' = [pc EXCEPT ![r] = step]
    BY <2>4 DEF Return
  <2> QED BY <2>1, <2>3, <2>5
<1>6. ASSUME NEW done, SaveMemory(r, done) \/ StoreAudit(r, done) \/ PublishAndReturn(r, done)
      PROVE  Quiet
  <2>1. Succeeds(done) /\ UNCHANGED <<ledger, overlapped, used, cost>>
    BY <1>6 DEF SaveMemory, StoreAudit, PublishAndReturn
  <2>2. faults' \in Nat /\ (faults' = 0 => faults = 0)
    BY <2>1
  <2>3. \E step \in Steps \ {"quota"} : pc' = [pc EXCEPT ![r] = step]
    BY <1>6 DEF SaveMemory, StoreAudit, PublishAndReturn
  <2> QED BY <2>1, <2>2, <2>3
<1>7. ASSUME Crash(r) PROVE Quiet
  <2>1. faults' = faults + 1 /\ UNCHANGED <<ledger, overlapped, used, cost>>
    BY <1>7 DEF Crash
  <2>2. \E step \in Steps \ {"quota"} : pc' = [pc EXCEPT ![r] = step]
    BY <1>7 DEF Crash
  <2>3. faults' \in Nat /\ (faults' = 0 => faults = 0)
    BY <2>1
  <2> HIDE DEF Steps
  <2> QED BY <2>1, <2>2, <2>3
<1>8. (\E route \in Routes : Analyse(r, route)) \/ CostCheck(r) \/ Quiet
  <2> HIDE DEF Quiet
  <2> QED BY <1>1, <1>2, <1>3, <1>4, <1>5, <1>6, <1>7 DEF RunStep
<1> QED BY <1>8

\* A step that neither checks nor logs leaves a run alone that was so.
LEMMA QuietKeepsQuota ==
    ASSUME QuotaInv, NEW r \in Runs, NEW step \in Steps \ {"quota"},
           faults' \in Nat, faults' = 0 => faults = 0,
           UNCHANGED <<ledger, overlapped, used, cost>>, pc' = [pc EXCEPT ![r] = step]
    PROVE  QuotaInv'
<1>1. QuotaTypes'
  BY DEF QuotaInv, QuotaTypes
<1>2. AloneInv'
  <2> SUFFICES ASSUME faults' = 0, NEW s \in Runs, pc'[s] = "quota", s \notin overlapped,
                      UserOf[s] # Nobody
               PROVE  /\ CheckingQuota(UserOf[s])' = {s}
                      /\ used[s] = TokensIn(ledger, RunsOf(UserOf[s]))
    BY DEF AloneInv, RunsOf
  <2>1. pc[s] = "quota" /\ s # r
    BY DEF QuotaInv, QuotaTypes
  <2>2. CheckingQuota(UserOf[s]) = {s} /\ used[s] = TokensIn(ledger, RunsOf(UserOf[s]))
    BY <2>1 DEF QuotaInv, AloneInv
  <2>3. CheckingQuota(UserOf[s])' = {s}
    BY <2>1, <2>2 DEF QuotaInv, QuotaTypes, CheckingQuota, RunsOf
  <2> QED BY <2>2, <2>3
<1>3. LimitInv'
  BY DEF QuotaInv, LimitInv, Admitted, RunsOf, Users
<1> QED BY <1>1, <1>2, <1>3 DEF QuotaInv

\* A check begins: it reads the rows, and marks those it overlaps.
LEMMA AnalyseKeepsQuota ==
    ASSUME QuotaInv, NEW r \in Runs, NEW route \in Routes, Analyse(r, route)
    PROVE  QuotaInv'
<1>1. PICK u : u = UserOf[r]
  OBVIOUS
<1>2. PICK done \in BOOLEAN :
         /\ u = Nobody => done
         /\ Succeeds(done)
         /\ used' = [used EXCEPT ![r] = IF u # Nobody /\ done THEN LoggedTokens(RunsOf(u)) ELSE 0]
  BY <1>1 DEF Analyse
<1>3. /\ pc[r] = "analyse" /\ pc' = [pc EXCEPT ![r] = "quota"]
      /\ cost' = [cost EXCEPT ![r] = RouteEstimate[route]]
      /\ overlapped' = IF CheckingQuota(u) = {} THEN overlapped
                       ELSE overlapped \cup CheckingQuota(u) \cup {r}
      /\ UNCHANGED ledger
  BY <1>1 DEF Analyse, GoTo, tables
<1>4. /\ QuotaTypes /\ AloneInv /\ LimitInv
  BY DEF QuotaInv
<1>5. faults' \in Nat /\ (faults' = 0 => faults = 0 /\ done)
  BY <1>2, <1>4 DEF QuotaTypes, Succeeds, Fault
<1>6. PICK n \in Nat : n = TokensIn(ledger, RunsOf(u)) /\ LoggedTokens(RunsOf(u)) = n
  <2>1. RunsOf(u) \in SUBSET Runs
    BY DEF RunsOf
  <2>2. LoggedTokens(RunsOf(u)) = TokensIn(ledger, RunsOf(u))
    BY NowAndThen
  <2> QED BY <1>4, <2>1, <2>2, TokensAdd, BrainAssumption, RunsAssumption DEF QuotaTypes
<1>7. RouteEstimate[route] \in Nat
  BY RoutesAssumption DEF RouteEstimate
<1>8. QuotaTypes'
  <2>1. pc' \in [Runs -> Steps]
    BY <1>3, <1>4 DEF QuotaTypes, Steps
  <2>2. cost' \in [Runs -> Nat]
    BY <1>3, <1>4, <1>7 DEF QuotaTypes
  <2>3. used' \in [Runs -> Nat]
    BY <1>2, <1>4, <1>6 DEF QuotaTypes
  <2>4. overlapped' \subseteq Runs
    BY <1>3, <1>4 DEF QuotaTypes, CheckingQuota, RunsOf
  <2> QED BY <1>3, <1>4, <1>5, <2>1, <2>2, <2>3, <2>4 DEF QuotaTypes
<1>9. AloneInv'
  <2> SUFFICES ASSUME faults' = 0, NEW s \in Runs, pc'[s] = "quota", s \notin overlapped',
                      UserOf[s] # Nobody
               PROVE  /\ CheckingQuota(UserOf[s])' = {s}
                      /\ used'[s] = TokensIn(ledger, RunsOf(UserOf[s]))
    BY <1>3 DEF AloneInv, RunsOf
  <2>1. CASE s = r
    <3>1. CheckingQuota(u) = {}
      BY <1>3, <2>1
    <3>2. CheckingQuota(u)' = {s}
      BY <1>1, <1>3, <1>4, <2>1, <3>1 DEF CheckingQuota, RunsOf, QuotaTypes
    <3>3. used'[s] = n
      BY <1>1, <1>2, <1>4, <1>5, <1>6, <2>1 DEF QuotaTypes
    <3> QED BY <1>1, <1>6, <2>1, <3>2, <3>3
  <2>2. CASE s # r
    <3>1. pc[s] = "quota" /\ s \notin overlapped /\ faults = 0
      BY <1>3, <1>4, <1>5, <2>2 DEF QuotaTypes
    <3>2. UserOf[s] # u
      <4>1. UserOf[s] = u => s \in CheckingQuota(u)
        BY <3>1 DEF CheckingQuota, RunsOf
      <4> QED BY <1>3, <4>1
    <3>3. CheckingQuota(UserOf[s]) = {s} /\ used[s] = TokensIn(ledger, RunsOf(UserOf[s]))
      BY <1>4, <3>1 DEF AloneInv
    <3>4. CheckingQuota(UserOf[s])' = CheckingQuota(UserOf[s])
      BY <1>1, <1>3, <1>4, <3>2 DEF CheckingQuota, RunsOf, QuotaTypes
    <3>5. used'[s] = used[s]
      BY <1>2, <1>4, <2>2 DEF QuotaTypes
    <3> QED BY <3>3, <3>4, <3>5
  <2> QED BY <2>1, <2>2
<1>10. LimitInv'
  <2> SUFFICES ASSUME faults' = 0, NEW v \in Users
               PROVE  TokensIn(ledger, Admitted(v)') <= DailyLimit
    BY <1>3 DEF LimitInv, Users
  <2>1. TokensIn(ledger, Admitted(v)) <= DailyLimit
    BY <1>4, <1>5 DEF LimitInv
  <2>2. PICK old, new : old = Admitted(v) /\ new = Admitted(v)'
    OBVIOUS
  <2>3. new \in SUBSET old /\ old \in SUBSET Runs
    BY <1>3, <2>2 DEF Admitted, RunsOf
  <2>4. /\ TokensIn(ledger, new) <= TokensIn(ledger, old)
        /\ TokensIn(ledger, new) \in Nat /\ TokensIn(ledger, old) \in Nat
    <3>1. new \in SUBSET Runs
      BY <2>3
    <3> QED BY <1>4, <2>3, <3>1, TokensGrow, TokensAdd, BrainAssumption, RunsAssumption DEF QuotaTypes
  <2>5. DailyLimit \in Nat
    BY BrainAssumption, RunsAssumption
  <2> QED BY <2>1, <2>2, <2>4, <2>5
<1> QED BY <1>8, <1>9, <1>10 DEF QuotaInv

\* A check ends: what it admits fits with what it read, which is all there is.
LEMMA CostCheckKeepsQuota ==
    ASSUME QuotaInv, NEW r \in Runs, CostCheck(r)
    PROVE  QuotaInv'
<1>1. PICK decision : decision = CostDecision(used[r], cost[r])
  OBVIOUS
<1>2. PICK done \in BOOLEAN :
         /\ Succeeds(done)
         /\ ledger' = IF done THEN [ledger EXCEPT ![r] = [tokens |-> cost[r], decision |-> decision]]
                      ELSE ledger
  BY <1>1 DEF CostCheck
<1>3. PICK step \in Steps \ {"quota"} :
         /\ pc[r] = "quota" /\ pc' = [pc EXCEPT ![r] = step]
         /\ cost' = [cost EXCEPT ![r] = 0] /\ used' = [used EXCEPT ![r] = 0]
         /\ UNCHANGED overlapped
  BY DEF CostCheck, Return, GoTo, Steps
<1>4. QuotaTypes /\ AloneInv /\ LimitInv
  BY DEF QuotaInv
<1>5. faults' \in Nat /\ (faults' = 0 => faults = 0 /\ done)
  BY <1>2, <1>4 DEF QuotaTypes, Succeeds, Fault
<1>6. used[r] \in Nat /\ cost[r] \in Nat /\ DailyLimit \in Nat /\ RequestLimit \in Nat
  BY <1>4, BrainAssumption, RunsAssumption DEF QuotaTypes
<1>7. /\ decision \in Decisions
      /\ decision \in {"request_downgraded", "within_budget"} => used[r] + cost[r] <= DailyLimit
  BY <1>1, <1>6 DEF CostDecision, Decisions
<1>8. PICK entry \in LogEntry : entry = [tokens |-> cost[r], decision |-> decision]
  BY <1>6, <1>7 DEF LogEntry
<1>9. PICK log : log = ledger'
  OBVIOUS
<1>10. log \in [Runs -> LogEntry] /\ \A s \in Runs \ {r} : log[s] = ledger[s]
  BY <1>2, <1>4, <1>8, <1>9 DEF QuotaTypes
<1>11. done => log[r].tokens = cost[r] /\ log[r].decision = decision
  BY <1>2, <1>4, <1>9 DEF QuotaTypes
<1>12. QuotaTypes'
  BY <1>3, <1>4, <1>5, <1>9, <1>10 DEF QuotaTypes
<1>13. AloneInv'
  <2> SUFFICES ASSUME faults' = 0, NEW s \in Runs, pc'[s] = "quota", s \notin overlapped,
                      UserOf[s] # Nobody
               PROVE  /\ CheckingQuota(UserOf[s])' = {s}
                      /\ used'[s] = TokensIn(log, RunsOf(UserOf[s]))
    BY <1>3, <1>9 DEF AloneInv, RunsOf
  <2>1. pc[s] = "quota" /\ s # r /\ faults = 0
    BY <1>3, <1>4, <1>5 DEF QuotaTypes
  <2>2. CheckingQuota(UserOf[s]) = {s} /\ used[s] = TokensIn(ledger, RunsOf(UserOf[s]))
    BY <1>4, <2>1 DEF AloneInv
  <2>3. UserOf[s] # UserOf[r]
    <3>1. UserOf[s] = UserOf[r] => r \in CheckingQuota(UserOf[s])
      BY <1>3 DEF CheckingQuota, RunsOf
    <3> QED BY <2>1, <2>2, <3>1
  <2>4. CheckingQuota(UserOf[s])' = {s}
    BY <1>3, <1>4, <2>1, <2>2 DEF QuotaTypes, CheckingQuota, RunsOf
  <2>5. PICK S : S = RunsOf(UserOf[s])
    OBVIOUS
  <2>in. S \in SUBSET Runs /\ r \notin S
    BY <2>3, <2>5 DEF RunsOf
  <2>6. \A q \in S : log[q] = ledger[q]
    BY <1>10, <2>in
  <2>7. TokensIn(log, S) = TokensIn(ledger, S)
    BY <1>4, <1>10, <2>in, <2>6, TokensKept, BrainAssumption, RunsAssumption DEF QuotaTypes
  <2>8. used'[s] = used[s]
    BY <1>3, <1>4, <2>1 DEF QuotaTypes
  <2> QED BY <2>2, <2>4, <2>5, <2>7, <2>8
<1>14. LimitInv'
  <2> SUFFICES ASSUME faults' = 0, NEW v \in Users
               PROVE  TokensIn(log, Admitted(v)') <= DailyLimit
    BY <1>9 DEF LimitInv, Users
  <2>1. PICK old, new, all : old = Admitted(v) /\ new = Admitted(v)' /\ all = RunsOf(v)
    OBVIOUS
  <2>2. /\ old \in SUBSET Runs /\ all \in SUBSET Runs
        /\ old = {s \in all \ overlapped :
                    ledger[s].decision \in {"request_downgraded", "within_budget"}}
        /\ new = {s \in all \ overlapped :
                    log[s].decision \in {"request_downgraded", "within_budget"}}
    BY <1>3, <1>9, <2>1 DEF Admitted, RunsOf
  <2>3. new \ {r} \in SUBSET old /\ new \ {r} \in SUBSET all /\ new \ {r} \in SUBSET Runs
        /\ new \in SUBSET Runs
    BY <1>10, <2>2
  <2>4. TokensIn(log, new \ {r}) = TokensIn(ledger, new \ {r})
    <3>1. \A q \in new \ {r} : log[q] = ledger[q]
      BY <1>10, <2>3
    <3> QED BY <1>4, <1>10, <2>3, <3>1, TokensKept, BrainAssumption, RunsAssumption DEF QuotaTypes
  <2>5. /\ TokensIn(ledger, new \ {r}) \in Nat /\ TokensIn(ledger, old) \in Nat
        /\ TokensIn(ledger, all) \in Nat /\ TokensIn(log, new) \in Nat
    BY <1>4, <1>10, <2>2, <2>3, TokensAdd, BrainAssumption, RunsAssumption DEF QuotaTypes
  <2>6. CASE r \notin new
    <3>1. new \ {r} = new
      BY <2>6
    <3>2. TokensIn(ledger, new) <= TokensIn(ledger, old)
      BY <1>4, <2>2, <2>3, <3>1, TokensGrow, BrainAssumption, RunsAssumption DEF QuotaTypes
    <3>3. TokensIn(ledger, old) <= DailyLimit
      BY <1>4, <1>5, <2>1 DEF LimitInv
    <3> QED BY <1>6, <2>1, <2>4, <2>5, <3>1, <3>2, <3>3
  <2>7. CASE r \in new
    <3>1. v = UserOf[r] /\ r \notin overlapped /\ v # Nobody
      BY <2>1, <2>2, <2>7 DEF RunsOf, Users
    <3>2. used[r] = TokensIn(ledger, all)
      BY <1>3, <1>4, <1>5, <2>1, <3>1 DEF AloneInv
    <3>3. log[r].tokens = cost[r] /\ used[r] + cost[r] <= DailyLimit
      BY <1>5, <1>7, <1>11, <2>2, <2>7
    <3>4. TokensIn(log, new) = TokensIn(log, new \ {r}) + log[r].tokens
      BY <1>10, <2>3, <2>7, TokensAdd, BrainAssumption, RunsAssumption
    <3>5. TokensIn(ledger, new \ {r}) <= TokensIn(ledger, all)
      BY <1>4, <2>2, <2>3, TokensGrow, BrainAssumption, RunsAssumption DEF QuotaTypes
    <3> QED BY <1>6, <2>1, <2>4, <2>5, <3>2, <3>3, <3>4, <3>5
  <2> QED BY <2>6, <2>7
<1> QED BY <1>12, <1>13, <1>14 DEF QuotaInv


\* Nothing is logged in the beginning.
LEMMA QuotaInit == Init => QuotaInv
<1> SUFFICES ASSUME Init PROVE QuotaInv
  OBVIOUS
<1>1. NoEntry \in LogEntry /\ NoEntry.decision = "none"
  BY DEF NoEntry, LogEntry, Decisions
<1>2. QuotaTypes /\ \A r \in Runs : pc[r] # "quota" /\ ledger[r] = NoEntry
  BY <1>1 DEF Init, QuotaTypes, Steps
<1>3. AloneInv
  BY <1>2 DEF AloneInv
<1>4. LimitInv
  <2> SUFFICES ASSUME NEW u \in Users PROVE TokensIn(ledger, Admitted(u)) <= DailyLimit
    BY DEF LimitInv
  <2>1. Admitted(u) = {}
    BY <1>1, <1>2 DEF Admitted, RunsOf
  <2>2. PICK f : f = [r \in Runs |-> 0]
    OBVIOUS
  <2>3. f \in [Runs -> Nat] /\ \A r \in Runs : f[r] = ledger[r].tokens
    BY <1>2, <2>2 DEF NoEntry
  <2>4. PICK g : Adds(f, Runs, g)
    BY <2>3, SumsExist, BrainAssumption, RunsAssumption
  <2>5. {} \in SUBSET Runs
    OBVIOUS
  <2>6. TokensIn(ledger, {}) = g[{}]
    BY <2>3, <2>4, <2>5, FoldIsSum, BrainAssumption, RunsAssumption
  <2>7. g[{}] = 0
    BY <2>4 DEF Adds
  <2> QED BY <2>1, <2>6, <2>7, BrainAssumption, RunsAssumption
<1> QED BY <1>2, <1>3, <1>4 DEF QuotaInv

\* What a user's requests were admitted for stays within the daily limit, for any
\* number of concurrent requests, as far as their checks did not overlap.
THEOREM QuotaKept == Spec => []QuotaHolds
<1>1. Init => QuotaInv
  BY QuotaInit
<1>2. QuotaInv /\ [Next]_vars => QuotaInv'
  <2> SUFFICES ASSUME QuotaInv, [Next]_vars PROVE QuotaInv'
    OBVIOUS
  <2>1. CASE UNCHANGED vars
    BY <2>1 DEF vars, local, tables, QuotaInv, QuotaTypes, AloneInv, LimitInv, CheckingQuota,
                RunsOf, Admitted, Users
  <2>2. ASSUME NEW r \in Runs, RunStep(r) PROVE QuotaInv'
    <3>1. faults \in Nat /\ pc \in [Runs -> Steps]
      BY DEF QuotaInv, QuotaTypes
    <3> QED BY <2>2, <3>1, OnlyQuotaLogs, AnalyseKeepsQuota, CostCheckKeepsQuota, QuietKeepsQuota
  <2> QED BY <2>1, <2>2 DEF Next
<1>3. QuotaInv => QuotaHolds
  BY NowAndThen DEF QuotaInv, LimitInv, Admitted, Users, QuotaHolds
<1> QED BY <1>1, <1>2, <1>3, PTL DEF Spec

=============================================================================
