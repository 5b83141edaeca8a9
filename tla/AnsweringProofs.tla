-------------------------- MODULE AnsweringProofs --------------------------
(***************************************************************************)
(* Theorems about ControlPlane and Retrieval: what a verdict of PASS       *)
(* stands for and what a drafted document may contain, for any number of   *)
(* concurrent calls, any questions, any replies of the model and any       *)
(* failures of the database; and which authorities a bundle holds and in   *)
(* which order, for any corpus and any changes of it.                      *)
(***************************************************************************)
EXTENDS ControlPlane, Retrieval, AssessmentProofs, FiniteSetTheorems, WellFoundedInduction

\* The steps before governance, the two with a full draft in hand, and those after.
Ungoverned == {"start", "fast", "generative", "reason"}
After == {"render", "remember", "learn", "trace", "delivered"}

\* What a verdict says of the result it came with, after n failures of the database.
VerdictMeans(v, d, a, n) ==
    /\ v = "PASS" =>
          /\ d.status = "ok" /\ d.governed = "passes" /\ a.lane = "generative"
          /\ d.cites # {} /\ d.cites \subseteq {"law"}
          /\ ~ a.urgent
    /\ v = "ESCALATE" =>
          \/ d.status = "insufficient_grounding"
          \/ d.cites = {}
          \/ ~ d.cites \subseteq {"law"}
          \/ n > 0

\* Only a model that rephrases brings text past governance.
WordsGoverned(d, a) ==
    /\ Text(d) \cap GovernPhrases = {} \/ (a.arabic /\ a.useModel)
    /\ ArgumentsEarned(d)

CallInv(step, v, d, a, n) ==
    /\ step \in Ungoverned \cup {"govern", "raised"} => v = "none"
    /\ step \in {"generative", "reason"} => a.lane = "generative"
    /\ step = "govern" /\ d.governed = "passes" => d.status = "ok" /\ a.lane = "generative"
    /\ step \in {"govern", "render"} => d \in DraftType
    /\ step \in After => VerdictMeans(v, d, a, n)
    /\ step \in After \cup {"govern"} => WordsGoverned(d, a)

\* A draft prints the citations of the result it came from, which all resolved.
DraftInv(d) ==
    /\ d.of \in Calls /\ pc[d.of] = "delivered"
    /\ d.cites = {} \/ d.cites = result[d.of].cites
    /\ d.cites \subseteq {"law"}
    /\ d.text \cap {"promise", "solicitor"} = {}
    /\ result[d.of].status # "insufficient_grounding"

ControlTypes ==
    /\ pc = [c \in Calls |-> pc[c]]
    /\ result = [c \in Calls |-> result[c]]
    /\ verdict = [c \in Calls |-> verdict[c]]
    /\ ask \in [Calls -> Asks]
    /\ faults \in Nat

ControlInv ==
    /\ ControlTypes
    /\ \A c \in Calls : CallInv(pc[c], verdict[c], result[c], ask[c], faults)
    /\ \A d \in drafts : DraftInv(d)

\* No call has started.
LEMMA ControlInit == Init => ControlInv
BY DEF Init, ControlInv, ControlTypes, CallInv, Ungoverned, After

\* The database can only fail more often.
LEMMA FaultsGrow ==
    ASSUME faults \in Nat, NEW up \in BOOLEAN, Database(up)
    PROVE  faults' \in Nat /\ faults' >= faults /\ (~ up => faults' > 0)
BY DEF Database

\* A call that is not delivered moves on: the others keep what they have, and no
\* draft is of the call that moved.
LEMMA OneCallMoves ==
    ASSUME ControlInv, NEW c \in Calls, pc[c] # "delivered",
           NEW step, NEW v, NEW d,
           pc' = [pc EXCEPT ![c] = step], verdict' = [verdict EXCEPT ![c] = v],
           result' = [result EXCEPT ![c] = d], UNCHANGED <<ask, drafts>>,
           faults' \in Nat, faults' >= faults,
           CallInv(step, v, d, ask[c], faults')
    PROVE  ControlInv'
<1> USE DEF ControlInv
<1>1. /\ pc'[c] = step /\ verdict'[c] = v /\ result'[c] = d
      /\ \A o \in Calls : o # c => pc'[o] = pc[o] /\ verdict'[o] = verdict[o] /\ result'[o] = result[o]
  BY DEF ControlTypes
<1>2. ControlTypes'
  BY DEF ControlTypes
<1>3. ASSUME NEW s, NEW w, NEW e, NEW a, CallInv(s, w, e, a, faults)
      PROVE  CallInv(s, w, e, a, faults')
  BY <1>3 DEF CallInv, VerdictMeans, ControlTypes
<1>4. \A o \in Calls : CallInv(pc'[o], verdict'[o], result'[o], ask'[o], faults')
  <2> SUFFICES ASSUME NEW o \in Calls PROVE CallInv(pc'[o], verdict'[o], result'[o], ask'[o], faults')
    OBVIOUS
  <2>1. CASE o = c
    BY <1>1, <2>1
  <2>2. CASE o # c
    BY <1>1, <1>3, <2>2
  <2> QED BY <2>1, <2>2
<1>5. \A f \in drafts : DraftInv(f)'
  BY <1>1 DEF DraftInv
<1> QED BY <1>2, <1>4, <1>5

\* The same for a step that leaves verdict, result or failures alone.
LEMMA OneCallAdvances ==
    ASSUME ControlInv, NEW c \in Calls, pc[c] # "delivered", NEW step,
           pc' = [pc EXCEPT ![c] = step], UNCHANGED <<verdict, result, ask, drafts>>,
           faults' \in Nat, faults' >= faults,
           CallInv(step, verdict[c], result[c], ask[c], faults')
    PROVE  ControlInv'
<1>1. PICK v, d : v = verdict[c] /\ d = result[c]
  OBVIOUS
<1>2. verdict' = [verdict EXCEPT ![c] = v] /\ result' = [result EXCEPT ![c] = d]
  BY <1>1 DEF ControlInv, ControlTypes
<1> QED BY <1>1, <1>2, OneCallMoves

\* A draft of the fast lane cites what the rules found and was not governed.
LEMMA FactualType ==
    ASSUME NEW q \in Queries, NEW f \in SUBSET Citations, NEW up \in BOOLEAN
    PROVE  LET d == FactualAnswer(q, f, up)
           IN  d \in DraftType /\ Governed(d) /\ d.governed = "none"
<1> DEFINE d == FactualAnswer(q, f, up)
<1>1. PICK status \in DraftStatus, cites \in SUBSET Citations, m \in BOOLEAN :
          d = [status |-> status, cites |-> cites, badUuid |-> FALSE, summary |-> {},
               weaknesses |-> {}, arguments |-> {}, honest |-> TRUE, governed |-> "none",
               flagged |-> FALSE, mismatch |-> m]
  <2>1. CASE q.jurisdiction = "served" /\ q.inScope /\ up /\ q.rules # "none"
    <3>1. d = [status |-> "ok", cites |-> f, badUuid |-> FALSE, summary |-> {},
               weaknesses |-> {}, arguments |-> {}, honest |-> TRUE, governed |-> "none",
               flagged |-> FALSE, mismatch |-> FALSE]
      BY <2>1 DEF FactualAnswer, Draft, Fallback
    <3> HIDE DEF d
    <3> QED BY <3>1 DEF DraftStatus
  <2>2. CASE ~ (q.jurisdiction = "served" /\ q.inScope /\ up /\ q.rules # "none")
    <3>1. d = [status |-> "not_supported", cites |-> {}, badUuid |-> FALSE, summary |-> {},
               weaknesses |-> {}, arguments |-> {}, honest |-> TRUE, governed |-> "none",
               flagged |-> FALSE, mismatch |-> FALSE]
      BY <2>2 DEF FactualAnswer, Refusal, Draft, Fallback
    <3> HIDE DEF d
    <3> QED BY <3>1 DEF DraftStatus
  <2> QED BY <2>1, <2>2
<1> HIDE DEF d
<1>2. d \in DraftType
  BY <1>1 DEF DraftType, GovernOutcomes
<1>3. d.summary = {} /\ d.weaknesses = {} /\ d.arguments = {} /\ d.governed = "none"
  BY <1>1
<1> QED BY <1>2, <1>3 DEF Governed, Text, ArgumentsEarned, d

\* A refusal of the controller has neither text nor citations.
LEMMA RefusalEmpty ==
    ASSUME NEW status, NEW j
    PROVE  LET d == Refusal(status, "none", j)
               e == [d EXCEPT !.flagged = TRUE]
           IN  Governed(d) /\ Governed(e)
<1>1. /\ Refusal(status, "none", j).summary = {} /\ Refusal(status, "none", j).weaknesses = {}
      /\ Refusal(status, "none", j).arguments = {}
  BY DEF Refusal, Draft, Fallback
<1>2. /\ [Refusal(status, "none", j) EXCEPT !.flagged = TRUE].summary = {}
      /\ [Refusal(status, "none", j) EXCEPT !.flagged = TRUE].weaknesses = {}
      /\ [Refusal(status, "none", j) EXCEPT !.flagged = TRUE].arguments = {}
  BY DEF Refusal, Draft, Fallback
<1> QED BY <1>1, <1>2 DEF Governed, Text, ArgumentsEarned

\* The verdict of the engine, for every draft that reaches it.
LEMMA VerdictEarned ==
    ASSUME NEW d \in DraftType, NEW a \in Asks, NEW up \in BOOLEAN, NEW n \in Nat,
           d.governed = "passes" => d.status = "ok" /\ a.lane = "generative",
           ~ up => n > 0
    PROVE  VerdictMeans(GovernanceVerdict(d, a, up), d, a, n)
<1>1. CASE GovernanceVerdict(d, a, up) = "PASS"
  <2>1. TruthPassed(d, up) /\ ~ (d.governed # "none" /\ a.urgent)
    BY <1>1 DEF GovernanceVerdict
  <2>2. d.governed = "passes" /\ d.cites \subseteq {"law"} /\ ValidateLegalTruth(d, TRUE, up).status = "ok"
    BY <2>1 DEF TruthPassed
  <2>3. Validated(d)
    BY <2>2, ValidatorOutcome
  <2>4. ~ a.urgent
    BY <2>1, <2>2
  <2> QED BY <1>1, <2>2, <2>3, <2>4 DEF VerdictMeans, Validated
<1>2. CASE GovernanceVerdict(d, a, up) = "ESCALATE"
  <2>1. d.status = "insufficient_grounding" \/ CitationFailed(d, up)
    BY <1>2 DEF GovernanceVerdict
  <2> QED BY <1>2, <2>1 DEF VerdictMeans, CitationFailed
<1> QED BY <1>1, <1>2 DEF VerdictMeans

\* What the language layer may change: only the text, and it brings in words that
\* governance has not seen only with a model.
LEMMA RenderedWords ==
    ASSUME NEW d \in DraftType, NEW a \in Asks, NEW e \in Render(d, a), WordsGoverned(d, a)
    PROVE  /\ e.status = d.status /\ e.cites = d.cites /\ e.governed = d.governed
           /\ WordsGoverned(e, a)
<1>1. CASE ~ a.arabic
  BY <1>1 DEF Render
<1>2. CASE a.arabic
  <2>1. PICK w \in Wordings(d, a) :
           e = [d EXCEPT !.summary = w.summary, !.weaknesses = w.weaknesses,
                         !.arguments = w.arguments]
    BY <1>2, Zenon DEF Render
  <2>2. /\ e.status = d.status /\ e.cites = d.cites /\ e.governed = d.governed
        /\ e.summary = w.summary /\ e.weaknesses = w.weaknesses /\ e.arguments = w.arguments
    BY <2>1 DEF DraftType
  <2>3. /\ w.summary \in {d.summary, {}} \cup (IF a.useModel THEN {a.phrasing} ELSE {})
        /\ w.weaknesses \in {d.weaknesses, {}} /\ w.arguments \in {d.arguments, {}}
    BY <2>1 DEF Wordings
  <2>4. ArgumentsEarned(e)
    BY <2>2, <2>3 DEF WordsGoverned, ArgumentsEarned
  <2>5. ~ a.useModel => Text(e) \subseteq Text(d)
    BY <2>2, <2>3 DEF Text
  <2> QED BY <1>2, <2>2, <2>4, <2>5 DEF WordsGoverned
<1> QED BY <1>1, <1>2

\* One step of one call.
LEMMA CallStepInv ==
    ASSUME ControlInv, NEW c \in Calls, CallStep(c)
    PROVE  ControlInv'
<1> USE DEF ControlInv
<1>1. /\ CallInv(pc[c], verdict[c], result[c], ask[c], faults)
      /\ faults \in Nat /\ ask[c] \in Asks
  BY DEF ControlTypes
<1>0. UNCHANGED faults => faults' \in Nat /\ faults' >= faults
  BY <1>1
<1>2. /\ Asks \subseteq MotherInput /\ Collected \subseteq SUBSET Citations /\ Replies \subseteq ModelOutputs
      /\ ask[c].q \in Queries
  BY <1>1, ControlPlaneAssumption DEF MotherInput
<1>3. CASE DomainGate(c)
  <2>1. pc[c] = "start" /\ faults' = faults /\ UNCHANGED <<ask, drafts>>
    BY <1>3 DEF DomainGate
  <2>2. CASE Goto(c, ask[c].lane) /\ UNCHANGED <<result, verdict>>
    <3>1. ask[c].lane \in {"fast", "generative"}
      BY <1>1, <1>2 DEF MotherInput
    <3>2. CallInv(ask[c].lane, verdict[c], result[c], ask[c], faults')
      BY <1>1, <2>1, <3>1 DEF CallInv, Ungoverned, After
    <3> QED BY <1>0, <2>1, <2>2, <3>2, OneCallAdvances DEF Goto
  <2>3. CASE /\ result' = [result EXCEPT ![c] = Refusal("domain_unavailable", "none", "served")]
             /\ verdict' = [verdict EXCEPT ![c] = "FAIL"]
             /\ Goto(c, "delivered")
    <3>1. PICK d : d = Refusal("domain_unavailable", "none", "served") /\ Governed(d)
      BY RefusalEmpty
    <3>2. CallInv("delivered", "FAIL", d, ask[c], faults')
      BY <3>1 DEF CallInv, Ungoverned, After, VerdictMeans, WordsGoverned, Governed
    <3> QED BY <1>0, <2>1, <2>3, <3>1, <3>2, OneCallMoves DEF Goto
  <2> QED BY <1>3, <2>2, <2>3 DEF DomainGate
<1>4. CASE AssessFactual(c)
  <2>1. PICK up \in BOOLEAN, found \in Collected \ {{}} :
           Database(up) /\ result' = [result EXCEPT ![c] = FactualAnswer(ask[c].q, found, up)]
    BY <1>4 DEF AssessFactual
  <2>2. pc[c] = "fast" /\ pc' = [pc EXCEPT ![c] = "govern"] /\ UNCHANGED <<ask, verdict, drafts>>
    BY <1>4 DEF AssessFactual, Goto
  <2>3. PICK d : /\ d = FactualAnswer(ask[c].q, found, up)
                 /\ d \in DraftType /\ Governed(d) /\ d.governed = "none"
    BY <1>2, FactualType
  <2>4. PICK v : v = verdict[c] /\ verdict' = [verdict EXCEPT ![c] = v]
    BY <2>2 DEF ControlTypes
  <2>5. CallInv("govern", v, d, ask[c], faults')
    BY <1>1, <2>2, <2>3, <2>4 DEF CallInv, Ungoverned, After, WordsGoverned, Governed
  <2> QED BY <1>1, <2>1, <2>2, <2>3, <2>4, <2>5, FaultsGrow, OneCallMoves
<1>5. CASE RouteAndRetrieve(c)
  <2>1. PICK up \in BOOLEAN : Database(up)
    BY <1>5 DEF RouteAndRetrieve
  <2>2. pc[c] = "generative" /\ UNCHANGED <<ask, drafts>> /\ faults' \in Nat /\ faults' >= faults
    BY <1>1, <1>5, <2>1, FaultsGrow DEF RouteAndRetrieve
  <2>3. CASE Goto(c, "reason") /\ UNCHANGED <<result, verdict>>
    <3>1. CallInv("reason", verdict[c], result[c], ask[c], faults')
      BY <1>1, <2>2 DEF CallInv, Ungoverned, After
    <3> QED BY <2>2, <2>3, <3>1, OneCallAdvances DEF Goto
  <2>4. CASE /\ result' = [result EXCEPT ![c] =
                    [Refusal("temporarily_unavailable", "none", "served") EXCEPT !.flagged = TRUE]]
             /\ verdict' = [verdict EXCEPT ![c] = "FAIL"]
             /\ Goto(c, "delivered")
    <3>1. PICK d : /\ d = [Refusal("temporarily_unavailable", "none", "served") EXCEPT !.flagged = TRUE]
                   /\ Governed(d)
      BY RefusalEmpty
    <3>2. CallInv("delivered", "FAIL", d, ask[c], faults')
      BY <3>1 DEF CallInv, Ungoverned, After, VerdictMeans, WordsGoverned, Governed
    <3> QED BY <2>2, <2>4, <3>1, <3>2, OneCallMoves DEF Goto
  <2> QED BY <1>5, <2>3, <2>4 DEF RouteAndRetrieve
<1>6. CASE Reason(c)
  <2>1. PICK a \in Replies, b \in Replies, found \in Collected :
          LET attempts == IF ask[c].useModel THEN <<a, b>> ELSE << >>
              d == Assess(ask[c].q, attempts, found)
          IN  /\ result' = [result EXCEPT ![c] = d]
              /\ Goto(c, IF d.status = "error" THEN "raised" ELSE "govern")
    BY <1>6 DEF Reason
  <2>2. PICK attempts \in {<< >>, <<a, b>>} : attempts = IF ask[c].useModel THEN <<a, b>> ELSE << >>
    OBVIOUS
  <2>3. PICK d : /\ d = Assess(ask[c].q, attempts, found)
                 /\ d \in DraftType /\ Governed(d)
                 /\ d.governed = "passes" => d.status = "ok"
    BY <1>2, AssessGoverned
  <2>4. PICK step \in {"raised", "govern"} : pc' = [pc EXCEPT ![c] = step] /\ result' = [result EXCEPT ![c] = d]
    BY <2>1, <2>2, <2>3 DEF Goto
  <2>5. pc[c] = "reason" /\ UNCHANGED <<ask, verdict, drafts, faults>>
    BY <1>6 DEF Reason
  <2>6. PICK v : v = verdict[c] /\ verdict' = [verdict EXCEPT ![c] = v]
    BY <2>5 DEF ControlTypes
  <2>7. ask[c].lane = "generative"
    BY <1>1, <2>5 DEF CallInv
  <2>8. CallInv(step, v, d, ask[c], faults')
    BY <1>1, <2>3, <2>4, <2>5, <2>6, <2>7 DEF CallInv, Ungoverned, After, WordsGoverned, Governed
  <2> QED BY <1>0, <2>4, <2>5, <2>6, <2>8, OneCallMoves
<1>7. CASE GovernCall(c)
  <2>1. PICK up \in BOOLEAN : Database(up) /\ verdict' = [verdict EXCEPT ![c] = GovernanceVerdict(result[c], ask[c], up)]
    BY <1>7 DEF GovernCall
  <2>2. pc[c] = "govern" /\ pc' = [pc EXCEPT ![c] = "render"] /\ UNCHANGED <<ask, result, drafts>>
    BY <1>7 DEF GovernCall, Goto
  <2>3. PICK d \in DraftType : d = result[c] /\ result' = [result EXCEPT ![c] = d]
    BY <1>1, <2>2 DEF CallInv, ControlTypes
  <2>4. faults' \in Nat /\ faults' >= faults /\ (~ up => faults' > 0)
    BY <1>1, <2>1, FaultsGrow
  <2>5. PICK v : v = GovernanceVerdict(d, ask[c], up) /\ VerdictMeans(v, d, ask[c], faults')
    BY <1>1, <2>2, <2>3, <2>4, VerdictEarned DEF CallInv
  <2>6. CallInv("render", v, d, ask[c], faults')
    BY <1>1, <2>2, <2>3, <2>5 DEF CallInv, Ungoverned, After
  <2> QED BY <2>1, <2>2, <2>3, <2>4, <2>5, <2>6, OneCallMoves
<1>8. CASE LanguageLayer(c)
  <2>1. PICK d \in Render(result[c], ask[c]) : result' = [result EXCEPT ![c] = d]
    BY <1>8 DEF LanguageLayer
  <2>2. PICK step \in {"learn", "remember"} : pc' = [pc EXCEPT ![c] = step]
    BY <1>8 DEF LanguageLayer, Goto
  <2>3. pc[c] = "render" /\ UNCHANGED <<ask, verdict, drafts, faults>>
    BY <1>8 DEF LanguageLayer
  <2>4. PICK v : v = verdict[c] /\ verdict' = [verdict EXCEPT ![c] = v]
    BY <2>3 DEF ControlTypes
  <2>5. result[c] \in DraftType /\ WordsGoverned(result[c], ask[c]) /\ VerdictMeans(v, result[c], ask[c], faults)
    BY <1>1, <2>3, <2>4 DEF CallInv, After
  <2>6. /\ d.status = result[c].status /\ d.cites = result[c].cites
        /\ d.governed = result[c].governed /\ WordsGoverned(d, ask[c])
    BY <1>1, <2>5, RenderedWords
  <2>7. CallInv(step, v, d, ask[c], faults')
    BY <2>2, <2>3, <2>5, <2>6 DEF CallInv, Ungoverned, After, VerdictMeans
  <2> QED BY <1>0, <2>1, <2>2, <2>3, <2>4, <2>7, OneCallMoves
<1>9. CASE WriteMemory(c) \/ Learn(c) \/ PersistTrace(c)
  <2>1. PICK up \in BOOLEAN : Database(up)
    BY <1>9 DEF WriteMemory, Learn, PersistTrace
  <2>2. PICK step \in After \ {"render"} : pc' = [pc EXCEPT ![c] = step]
    BY <1>9 DEF WriteMemory, Learn, PersistTrace, Goto, After
  <2>3. /\ pc[c] \in After \ {"render", "delivered"}
        /\ UNCHANGED <<ask, result, verdict, drafts>>
    BY <1>9 DEF WriteMemory, Learn, PersistTrace, After
  <2>4. faults' \in Nat /\ faults' >= faults
    BY <1>1, <2>1, FaultsGrow
  <2>5. CallInv(step, verdict[c], result[c], ask[c], faults')
    BY <1>1, <2>2, <2>3, <2>4 DEF CallInv, Ungoverned, After, VerdictMeans
  <2> QED BY <2>2, <2>3, <2>4, <2>5, OneCallAdvances
<1> QED
  BY <1>3, <1>4, <1>5, <1>6, <1>7, <1>8, <1>9 DEF CallStep

\* Drafting from a delivered result.
LEMMA DraftingInv ==
    ASSUME ControlInv, NEW c \in Calls, GenerateDocument(c)
    PROVE  ControlInv'
<1> USE DEF ControlInv
<1>1. PICK up \in BOOLEAN, doc \in Templates(result[c]) :
          /\ Database(up) /\ CriticAccepts(result[c], up) /\ safety_check(doc)
          /\ drafts' = drafts \cup {[of |-> c, cites |-> doc.cites, text |-> doc.text]}
  BY DEF GenerateDocument
<1>2. /\ pc[c] = "delivered" /\ GroundingGate(result[c])
      /\ UNCHANGED <<pc, ask, result, verdict>>
  BY DEF GenerateDocument
<1>3. doc.cites = result[c].cites
  BY <1>1 DEF Templates, generate_particulars_of_claim, generate_schedule_of_loss,
              generate_letter_before_action, generate_et1_support_notes_wages, Printed
<1>4. result[c].cites \subseteq {"law"} /\ doc.text \cap {"promise", "solicitor"} = {}
      /\ result[c].status # "insufficient_grounding"
  BY <1>1, <1>2 DEF CriticAccepts, safety_check, GroundingGate
<1>5. PICK n : n = [of |-> c, cites |-> doc.cites, text |-> doc.text]
  OBVIOUS
<1>6. DraftInv(n)
  BY <1>2, <1>3, <1>4, <1>5 DEF DraftInv
<1>7. \A d \in drafts' : DraftInv(d)'
  BY <1>1, <1>2, <1>5, <1>6 DEF DraftInv
<1>8. faults' \in Nat /\ faults' >= faults
  BY <1>1, FaultsGrow DEF ControlTypes
<1>9. \A o \in Calls : CallInv(pc[o], verdict[o], result[o], ask[o], faults')
  BY <1>8 DEF CallInv, VerdictMeans, ControlTypes
<1>10. ControlTypes'
  BY <1>2, <1>8 DEF ControlTypes
<1>11. \A o \in Calls : CallInv(pc'[o], verdict'[o], result'[o], ask'[o], faults')
  BY <1>2, <1>9
<1> QED BY <1>7, <1>10, <1>11

\* Calls and drafts together.
LEMMA ControlInvariant == Spec => []ControlInv
<1>1. Init => ControlInv
  BY ControlInit
<1>2. ControlInv /\ [Next]_vars => ControlInv'
  <2> SUFFICES ASSUME ControlInv, [Next]_vars PROVE ControlInv'
    OBVIOUS
  <2>1. CASE UNCHANGED vars
    BY <2>1 DEF vars, ControlInv, ControlTypes, CallInv, VerdictMeans, DraftInv
  <2> QED BY <2>1, CallStepInv, DraftingInv DEF Next
<1> QED BY <1>1, <1>2, PTL DEF Spec

\* A verdict of PASS is earned: whatever the calls ask, the model replies and the
\* database does, only a governed answer of the generative lane gets it, with
\* citations that resolve and no urgent deadline.  No forbidden phrase leaves in
\* the summary or the weaknesses without a model that rephrased, and arguments of
\* a model, which governance does not read, leave only with an answer it passed
\* (mother_controller.py, governance_engine.py).
THEOREM PassOnlyWhenEarned == Spec => []PassIsEarned
<1>1. ControlInv => PassIsEarned
  BY DEF ControlInv, CallInv, After, VerdictMeans, WordsGoverned, ArgumentsEarned,
         Text, PassIsEarned, Rephrased
<1> QED BY <1>1, ControlInvariant, PTL

\* Whatever a client drafts from, a document cites resolved authorities only, holds
\* no guarantee or solicitor language and never comes from an ungrounded result; an
\* escalated one that cites anything needs a failure of the database (main.py,
\* documents.py).
THEOREM DraftsStaySound == Spec => []DraftsSound
<1>1. ControlInv => DraftsSound
  <2> SUFFICES ASSUME ControlInv, NEW d \in drafts
               PROVE  /\ d.cites \subseteq {"law"}
                      /\ d.text \cap {"promise", "solicitor"} = {}
                      /\ result[d.of].status # "insufficient_grounding"
                      /\ verdict[d.of] = "ESCALATE" => d.cites = {} \/ faults > 0
    BY DEF DraftsSound
  <2>1. DraftInv(d) /\ CallInv(pc[d.of], verdict[d.of], result[d.of], ask[d.of], faults)
    BY DEF ControlInv, DraftInv
  <2> QED BY <2>1 DEF DraftInv, CallInv, After, VerdictMeans
<1> QED BY <1>1, ControlInvariant, PTL

-----------------------------------------------------------------------------
\* Whoever sorts first: the greater key, and of equal keys the earlier place.
Precedes(key, place, p, q) == Before(key[p], key[q], place[p] < place[q])

\* Different keys have a first column in which they differ.
LEMMA FirstDifference ==
    ASSUME NEW n \in Nat, NEW a \in [1..n -> Int], NEW b \in [1..n -> Int], a # b
    PROVE  \E i \in 1..n : a[i] # b[i] /\ \A j \in 1..(i - 1) : a[j] = b[j]
<1> DEFINE D == {i \in 1..n : a[i] # b[i]}
<1>1. D \subseteq Nat /\ D # {}
  OBVIOUS
<1>2. PICK i \in D : \A j \in D : ~ <<j, i>> \in OpToRel(<, Nat)
  <2> HIDE DEF D
  <2> QED BY <1>1, NatLessThanWellFounded, WFMin
<1>3. ASSUME NEW j \in 1..(i - 1) PROVE a[j] = b[j]
  <2>0. i \in 1..n
    BY <1>2
  <2>1. j \in 1..n /\ j \in Nat /\ i \in Nat /\ j < i
    BY <1>3, <2>0
  <2>2. PICK p : p = <<j, i>>
    OBVIOUS
  <2>3. p \in Nat \X Nat /\ p[1] < p[2]
    BY <2>1, <2>2
  <2>4. p \in OpToRel(<, Nat)
    BY <2>3 DEF OpToRel
  <2>5. j \notin D
    BY <1>2, <2>2, <2>4
  <2> QED BY <2>1, <2>5
<1>4. i \in 1..n /\ a[i] # b[i]
  BY <1>2
<1> QED BY <1>3, <1>4

\* The order of two keys is total, and no key is both before and after another.
LEMMA KeysCompare ==
    ASSUME NEW n \in Nat, NEW a \in [1..n -> Int], NEW b \in [1..n -> Int],
           NEW e \in BOOLEAN, NEW f \in BOOLEAN
    PROVE  /\ e \/ f => Before(a, b, e) \/ Before(b, a, f)
           /\ ~ (e /\ f) => ~ (Before(a, b, e) /\ Before(b, a, f))
<1>1. DOMAIN a = 1..n /\ DOMAIN b = 1..n
  OBVIOUS
<1>2. CASE a = b
  <2>1. ~ \E i \in 1..n : a[i] > b[i] \/ b[i] > a[i]
    BY <1>2
  <2>2. (Before(a, b, e) <=> e) /\ (Before(b, a, f) <=> f)
    BY <1>1, <1>2, <2>1 DEF Before
  <2> QED BY <2>2
<1>3. CASE a # b
  <2>1. PICK i \in 1..n : a[i] # b[i] /\ \A j \in 1..(i - 1) : a[j] = b[j]
    BY <1>3, FirstDifference
  <2>2. a[i] \in Int /\ b[i] \in Int
    OBVIOUS
  <2>3. Before(a, b, e) <=> a[i] > b[i]
    <3>1. a[i] > b[i] => Before(a, b, e)
      BY <1>1, <2>1 DEF Before
    <3>2. ASSUME NEW k \in 1..n, a[k] > b[k], \A j \in 1..(k - 1) : a[j] = b[j]
          PROVE  k = i
      <4>1. ~ k < i
        BY <2>1, <3>2
      <4>2. ~ i < k
        BY <2>1, <3>2
      <4> QED BY <4>1, <4>2
    <3> QED BY <1>1, <1>3, <3>1, <3>2 DEF Before
  <2>4. Before(b, a, f) <=> b[i] > a[i]
    <3>1. b[i] > a[i] => Before(b, a, f)
      BY <1>1, <2>1 DEF Before
    <3>2. ASSUME NEW k \in 1..n, b[k] > a[k], \A j \in 1..(k - 1) : b[j] = a[j]
          PROVE  k = i
      <4>1. ~ k < i
        BY <2>1, <3>2
      <4>2. ~ i < k
        BY <2>1, <3>2
      <4> QED BY <4>1, <4>2
    <3> QED BY <1>1, <1>3, <3>1, <3>2 DEF Before
  <2> QED BY <2>1, <2>2, <2>3, <2>4
<1> QED BY <1>2, <1>3

\* Greater in the first column in which they differ.
Outranks(a, b) == \E i \in DOMAIN a : a[i] > b[i] /\ \A j \in 1..(i - 1) : a[j] = b[j]

\* Columns compare as numbers do: to outrank is transitive.
LEMMA RanksChain ==
    ASSUME NEW n \in Nat, NEW a \in [1..n -> Int], NEW b \in [1..n -> Int],
           NEW c \in [1..n -> Int], Outranks(a, b), Outranks(b, c)
    PROVE  Outranks(a, c)
<1>1. DOMAIN a = 1..n /\ DOMAIN b = 1..n
  OBVIOUS
<1>2. PICK i \in 1..n : a[i] > b[i] /\ \A j \in 1..(i - 1) : a[j] = b[j]
  BY <1>1 DEF Outranks
<1>3. PICK k \in 1..n : b[k] > c[k] /\ \A j \in 1..(k - 1) : b[j] = c[j]
  BY <1>1 DEF Outranks
<1>4. PICK m \in 1..n : m <= i /\ m <= k /\ (m = i \/ m = k)
  <2>1. CASE i <= k
    <3>1. i <= i /\ i <= k
      BY <2>1
    <3> WITNESS i \in 1..n
    <3> QED BY <3>1
  <2>2. CASE ~ i <= k
    <3>1. k <= i /\ k <= k
      BY <2>2
    <3> WITNESS k \in 1..n
    <3> QED BY <3>1
  <2> QED BY <2>1, <2>2
<1>5. a[m] \in Int /\ b[m] \in Int /\ c[m] \in Int
  OBVIOUS
<1>6. a[m] > c[m]
  <2>1. m < i => a[m] = b[m]
    BY <1>2
  <2>2. m < k => b[m] = c[m]
    BY <1>3
  <2> QED BY <1>2, <1>3, <1>4, <1>5, <2>1, <2>2
<1>7. \A j \in 1..(m - 1) : a[j] = c[j]
  BY <1>2, <1>3, <1>4
<1> QED BY <1>1, <1>6, <1>7 DEF Outranks

\* What a sort is of: finitely many things with keys of n columns and places of their own.
Sortable(S, key, place, n) ==
    /\ IsFiniteSet(S) /\ n \in Nat
    /\ key \in [S -> [1..n -> Int]]
    /\ place \in [S -> Int]
    /\ \A p, q \in S : place[p] = place[q] => p = q

\* The order of a sort is strict, total and transitive.
LEMMA PrecedenceIsAnOrder ==
    ASSUME NEW S, NEW key, NEW place, NEW n, Sortable(S, key, place, n)
    PROVE  /\ \A p \in S : ~ Precedes(key, place, p, p)
           /\ \A p, q \in S : p # q => Precedes(key, place, p, q) \/ Precedes(key, place, q, p)
           /\ \A p, q \in S : ~ (Precedes(key, place, p, q) /\ Precedes(key, place, q, p))
           /\ \A p, q, r \in S : Precedes(key, place, p, q) /\ Precedes(key, place, q, r)
                                    => Precedes(key, place, p, r)
<1>1. n \in Nat /\ \A p \in S : key[p] \in [1..n -> Int] /\ place[p] \in Int
  BY DEF Sortable
<1>2. ASSUME NEW p \in S, NEW q \in S
      PROVE  /\ p # q => Precedes(key, place, p, q) \/ Precedes(key, place, q, p)
             /\ ~ (Precedes(key, place, p, q) /\ Precedes(key, place, q, p))
  <2>1. PICK e \in BOOLEAN : e <=> place[p] < place[q]
    OBVIOUS
  <2>2. PICK f \in BOOLEAN : f <=> place[q] < place[p]
    OBVIOUS
  <2>3. ~ (e /\ f) /\ (p # q => e \/ f)
    <3>1. place[p] \in Int /\ place[q] \in Int
      BY <1>1
    <3>2. p # q => place[p] # place[q]
      BY DEF Sortable
    <3> QED BY <2>1, <2>2, <3>1, <3>2
  <2>4. e = (place[p] < place[q]) /\ f = (place[q] < place[p])
    BY <2>1, <2>2
  <2>5. /\ e \/ f => Before(key[p], key[q], e) \/ Before(key[q], key[p], f)
        /\ ~ (e /\ f) => ~ (Before(key[p], key[q], e) /\ Before(key[q], key[p], f))
    BY <1>1, KeysCompare
  <2> QED BY <2>3, <2>4, <2>5 DEF Precedes
<1>3. ASSUME NEW p \in S, NEW q \in S, NEW r \in S,
             Precedes(key, place, p, q), Precedes(key, place, q, r)
      PROVE  Precedes(key, place, p, r)
  <2>1. (key[p] = key[q] /\ place[p] < place[q]) \/ Outranks(key[p], key[q])
    BY <1>3 DEF Precedes, Before, Outranks
  <2>2. (key[q] = key[r] /\ place[q] < place[r]) \/ Outranks(key[q], key[r])
    BY <1>3 DEF Precedes, Before, Outranks
  <2>3. place[p] < place[q] /\ place[q] < place[r] => place[p] < place[r]
    <3>1. place[p] \in Int /\ place[q] \in Int /\ place[r] \in Int
      BY <1>1
    <3> QED BY <3>1
  <2>4. Outranks(key[p], key[q]) /\ Outranks(key[q], key[r]) => Outranks(key[p], key[r])
    BY <1>1, RanksChain
  <2>5. (key[p] = key[r] /\ place[p] < place[r]) \/ Outranks(key[p], key[r])
    BY <2>1, <2>2, <2>3, <2>4
  <2> QED BY <2>5 DEF Precedes, Before, Outranks
<1>4. \A p \in S : ~ Precedes(key, place, p, p)
  BY <1>2
<1> QED BY <1>2, <1>3, <1>4

\* Those that come before p.
Forerunners(S, key, place, p) == {q \in S : Precedes(key, place, q, p)}

\* Fewer come before p than there are: p itself does not.
LEMMA ForerunnersCount ==
    ASSUME NEW S, NEW key, NEW place, NEW n, Sortable(S, key, place, n), NEW p \in S
    PROVE  /\ Cardinality(S) \in Nat
           /\ IsFiniteSet(Forerunners(S, key, place, p))
           /\ Cardinality(Forerunners(S, key, place, p)) \in 0..(Cardinality(S) - 1)
<1> DEFINE F == Forerunners(S, key, place, p)
<1>1. IsFiniteSet(S)
  BY DEF Sortable
<1>2. F \subseteq S /\ p \notin F
  BY PrecedenceIsAnOrder DEF Forerunners
<1> HIDE DEF F
<1>3. IsFiniteSet(F)
  BY <1>1, <1>2, FS_Subset
<1>4. Cardinality(F \cup {p}) = Cardinality(F) + 1
  BY <1>2, <1>3, FS_AddElement
<1>5. Cardinality(F \cup {p}) <= Cardinality(S)
  <2>1. F \cup {p} \in SUBSET S
    BY <1>2
  <2> QED BY <1>1, <2>1, FS_Subset
<1>6. Cardinality(F) \in Nat /\ Cardinality(S) \in Nat
  BY <1>1, <1>3, FS_CardinalityType
<1> QED BY <1>3, <1>4, <1>5, <1>6 DEF F

\* Whoever comes later has more before it.
LEMMA ForerunnersGrow ==
    ASSUME NEW S, NEW key, NEW place, NEW n, Sortable(S, key, place, n),
           NEW p \in S, NEW q \in S, Precedes(key, place, p, q)
    PROVE  Cardinality(Forerunners(S, key, place, p)) < Cardinality(Forerunners(S, key, place, q))
<1> DEFINE F == Forerunners(S, key, place, p)
           G == Forerunners(S, key, place, q)
<1>1. F \cup {p} \subseteq G /\ p \notin F
  <2>1. p \notin F /\ p \in G
    BY PrecedenceIsAnOrder DEF Forerunners
  <2>2. ASSUME NEW x \in F PROVE x \in G
    <3>1. x \in S /\ Precedes(key, place, x, p)
      BY DEF Forerunners
    <3>2. Precedes(key, place, x, q)
      BY <3>1, PrecedenceIsAnOrder
    <3> QED BY <3>1, <3>2 DEF Forerunners
  <2> QED BY <2>1, <2>2
<1>2. IsFiniteSet(F) /\ Cardinality(F) \in Nat /\ IsFiniteSet(G) /\ Cardinality(G) \in Nat
  <2>1. IsFiniteSet(F) /\ IsFiniteSet(G)
    BY ForerunnersCount
  <2> HIDE DEF F, G
  <2> QED BY <2>1, FS_CardinalityType
<1> HIDE DEF F, G
<1>3. Cardinality(F \cup {p}) = Cardinality(F) + 1
  BY <1>1, <1>2, FS_AddElement
<1>4. Cardinality(F \cup {p}) <= Cardinality(G)
  <2>1. F \cup {p} \in SUBSET G
    BY <1>1
  <2> QED BY <1>2, <2>1, FS_Subset
<1>5. Cardinality(F) < Cardinality(G)
  BY <1>2, <1>3, <1>4
<1> QED BY <1>5 DEF F, G

\* A sort lists everything once, and whoever comes before another stands ahead of it.
IsSortOf(list, S, key, place) ==
    /\ list \in [1..Cardinality(S) -> S]
    /\ \A p \in S : \E i \in 1..Cardinality(S) : list[i] = p
    /\ \A i, j \in 1..Cardinality(S) :
          /\ list[i] = list[j] => i = j
          /\ Precedes(key, place, list[i], list[j]) => i < j

\* Descending sorts: the ranks 0 .. n - 1 are all taken, each by one, so that every
\* place of the list has its one occupant.
LEMMA Sorting ==
    ASSUME NEW S, NEW key, NEW place, NEW n, Sortable(S, key, place, n)
    PROVE  Cardinality(S) \in Nat /\ IsSortOf(Descending(S, key, place), S, key, place)
<1> DEFINE N == Cardinality(S)
           s == Descending(S, key, place)
           R == [p \in S |-> Cardinality(Forerunners(S, key, place, p))]
<1>1. IsFiniteSet(S) /\ N \in Nat
  BY FS_CardinalityType DEF Sortable
<1>2. R \in [S -> 0..(N - 1)]
  BY ForerunnersCount
<1>3. \A p, q \in S : Precedes(key, place, p, q) => R[p] < R[q]
  BY ForerunnersGrow
<1>4. \A p \in S : R[p] \in Int
  BY <1>2
<1>5. \A p, q \in S : R[p] = R[q] => p = q
  <2> SUFFICES ASSUME NEW p \in S, NEW q \in S, R[p] = R[q], p # q PROVE FALSE
    OBVIOUS
  <2>1. R[p] < R[q] \/ R[q] < R[p]
    <3> HIDE DEF R
    <3> QED BY <1>3, PrecedenceIsAnOrder
  <2> HIDE DEF R
  <2> QED BY <1>4, <2>1
<1>6. s = [i \in 1..N |-> CHOOSE p \in S : Cardinality(Forerunners(S, key, place, p)) = i - 1]
  BY DEF Descending, Forerunners, Precedes
<1>ranks. \A p \in S : R[p] = Cardinality(Forerunners(S, key, place, p))
  OBVIOUS
<1> HIDE DEF R
<1>7. \A i \in 1..N : \E p \in S : R[p] = i - 1
  <2>1. R \in Injection(S, 0..(N - 1))
    BY <1>2, <1>5 DEF Injection, IsInjective
  <2>2. IsFiniteSet(0..(N - 1)) /\ Cardinality(0..(N - 1)) = N
    <3>1. 0 \in Int /\ N - 1 \in Int
      BY <1>1
    <3>2. IsFiniteSet(0..(N - 1)) /\ Cardinality(0..(N - 1)) = IF 0 > N - 1 THEN 0 ELSE N - 1 - 0 + 1
      BY <3>1, FS_Interval
    <3> QED BY <1>1, <3>2
  <2>3. R \in Surjection(S, 0..(N - 1))
    BY <2>1, <2>2, FS_Injection
  <2>4. \A i \in 1..N : i - 1 \in 0..(N - 1)
    BY <1>1
  <2> QED BY <2>3, <2>4 DEF Surjection
<1> HIDE DEF s, N
<1>8. \A i \in 1..N : s[i] \in S /\ R[s[i]] = i - 1
  BY <1>6, <1>7, <1>ranks
<1>9. s \in [1..N -> S]
  BY <1>6, <1>8
<1>10. \A p \in S : \E i \in 1..N : s[i] = p
  <2> SUFFICES ASSUME NEW p \in S PROVE \E i \in 1..N : s[i] = p
    OBVIOUS
  <2>1. R[p] + 1 \in 1..N /\ (R[p] + 1) - 1 = R[p]
    BY <1>1, <1>2
  <2>2. R[s[R[p] + 1]] = R[p] /\ s[R[p] + 1] \in S
    BY <1>8, <2>1
  <2> QED BY <1>5, <2>1, <2>2
<1>11. \A i, j \in 1..N : s[i] = s[j] => i = j
  BY <1>1, <1>8
<1>12. \A i, j \in 1..N : Precedes(key, place, s[i], s[j]) => i < j
  <2> SUFFICES ASSUME NEW i \in 1..N, NEW j \in 1..N, Precedes(key, place, s[i], s[j])
               PROVE  i < j
    OBVIOUS
  <2>1. R[s[i]] < R[s[j]]
    BY <1>3, <1>8
  <2> QED BY <1>1, <1>8, <2>1
<1> QED BY <1>1, <1>9, <1>10, <1>11, <1>12 DEF IsSortOf, N, s

(* Arithmetic. *)

\* A later place is worth no more than an earlier one.
LEMMA QuotientsShrink ==
    ASSUME NEW a \in Nat, NEW b \in Nat, a <= b
    PROVE  /\ 1000000 \div (60 + a) \in Nat
           /\ 1000000 \div (60 + b) <= 1000000 \div (60 + a)
<1> DEFINE u == 60 + a
           v == 60 + b
           x == 1000000 \div u
           y == 1000000 \div v
<1>1. u \in Nat /\ v \in Nat /\ 0 < u /\ u <= v
  OBVIOUS
<1> HIDE DEF u, v
<1>2. x \in Int /\ y \in Int /\ 0 <= y /\ 0 <= x
  BY <1>1
<1>3. y * v <= 1000000
  BY <1>1
<1>4. 1000000 < (x + 1) * u
  BY <1>1
<1> HIDE DEF x, y
<1>5. y * u <= y * v
  BY <1>1, <1>2
<1>6. SUFFICES ASSUME x < y PROVE FALSE
  BY <1>2 DEF x, y, u, v
<1>7. x + 1 <= y
  BY <1>2, <1>6
<1>8. (x + 1) * u <= y * u
  BY <1>1, <1>2, <1>7
<1>9. (x + 1) * u \in Int /\ y * u \in Int /\ y * v \in Int
  BY <1>1, <1>2
<1> QED BY <1>3, <1>4, <1>5, <1>8, <1>9

\* The share of the fused score in the base score keeps its order and its bounds.
LEMMA SharesGrow ==
    ASSUME NEW a \in Int, NEW b \in Int
    PROVE  /\ (a * 55) \div 100 \in Int
           /\ a <= b => (a * 55) \div 100 <= (b * 55) \div 100
           /\ a >= 1000000 => (a * 55) \div 100 >= 550000
           /\ a <= 32786 => (a * 55) \div 100 <= 18032
  OBVIOUS

\* Min of two numbers is below both.
LEMMA MinOfTwo ==
    ASSUME NEW a \in Nat, NEW b \in Nat
    PROVE  Min({a, b}) \in Nat /\ Min({a, b}) <= a /\ Min({a, b}) <= b
<1>1. \E m \in {a, b} : \A y \in {a, b} : m <= y
  BY SMT
<1>2. Min({a, b}) \in {a, b} /\ \A y \in {a, b} : Min({a, b}) <= y
  BY <1>1 DEF Min
<1> QED BY <1>2

(* Lists. *)

\* PositionIn finds what a list holds.
LEMMA Position ==
    ASSUME NEW S, NEW list \in Seq(S), NEW p \in Range(list)
    PROVE  PositionIn(p, list) \in 1..Len(list) /\ list[PositionIn(p, list)] = p
  BY DEF Range, PositionIn

\* The passages and the authorities of the rules are finitely many.
LEMMA AuthoritiesFinite == IsFiniteSet(Authorities) /\ Len(RuleRefs) \in Nat
<1>1. RuleRefs \in Seq(Range(RuleRefs)) /\ IsFiniteSet(Passages)
  BY RetrievalAssumption
<1>2. Len(RuleRefs) \in Nat
  BY <1>1
<1>3. RuleRefs \in [1..Len(RuleRefs) -> Range(RuleRefs)]
  BY <1>1
<1>4. RuleRefs \in Surjection(1..Len(RuleRefs), Range(RuleRefs))
  BY <1>3 DEF Surjection, Range
<1>5. IsFiniteSet(1..Len(RuleRefs))
  <2>1. 1 \in Int /\ Len(RuleRefs) \in Int
    BY <1>2
  <2> QED BY <2>1, FS_Interval
<1>6. IsFiniteSet(Range(RuleRefs))
  BY <1>4, <1>5, FS_Surjection
<1> QED BY <1>1, <1>2, <1>6, FS_Union DEF Authorities

\* What a query returns of the rows that qualify.
LEMMA TopRows ==
    ASSUME NEW S \in SUBSET Passages, NEW s \in Ranked(S)
    PROVE  LET top == SubSeq(s, 1, Min({K, Len(s)}))
           IN  top \in Seq(S) /\ Len(top) <= K
<1> DEFINE m == Min({K, Len(s)})
           top == SubSeq(s, 1, m)
<1>1. IsFiniteSet(S)
  BY RetrievalAssumption, FS_Subset
<1>2. PICK n \in 0..Cardinality(S) : s \in [1..n -> S]
  BY DEF Ranked, SeqOf
<1>3. n \in Nat
  BY <1>1, <1>2, FS_CardinalityType
<1>4. s \in Seq(S)
  BY <1>2, <1>3
<1>5. K \in Nat
  BY RetrievalAssumption
<1>6. m \in Nat /\ m <= K /\ m <= Len(s)
  BY <1>4, <1>5, MinOfTwo
<1> HIDE DEF m
<1>7. top \in Seq(S) /\ Len(top) = m
  BY <1>4, <1>6
<1> QED BY <1>5, <1>6, <1>7 DEF m

\* A sort is a list of everything in it, once.
LEMMA SortsAreLists ==
    ASSUME NEW S, NEW key, NEW place, NEW list, Cardinality(S) \in Nat,
           IsSortOf(list, S, key, place)
    PROVE  /\ list \in Seq(S) /\ Range(list) = S
           /\ \A p \in S : PositionIn(p, list) \in Int /\ list[PositionIn(p, list)] = p
           /\ \A p, q \in S : Precedes(key, place, p, q)
                                 => PositionIn(p, list) < PositionIn(q, list)
<1>1. list \in [1..Cardinality(S) -> S]
  BY DEF IsSortOf
<1>2. list \in Seq(S) /\ Len(list) = Cardinality(S)
  BY <1>1
<1>3. Range(list) = S
  BY <1>1 DEF IsSortOf, Range
<1>4. \A p \in S : PositionIn(p, list) \in 1..Cardinality(S) /\ list[PositionIn(p, list)] = p
  BY <1>2, <1>3, Position
<1>5. \A p \in S : PositionIn(p, list) \in Int
  BY <1>4
<1> QED BY <1>2, <1>3, <1>4, <1>5 DEF IsSortOf

\* The next sort can take the places of the last one.
LEMMA SortAgain ==
    ASSUME NEW S, NEW list, NEW key, NEW n \in Nat, IsFiniteSet(S),
           Range(list) = S, key \in [S -> [1..n -> Int]],
           \A p \in S : PositionIn(p, list) \in Int /\ list[PositionIn(p, list)] = p
    PROVE  Sortable(S, key, Places(list), n)
<1>1. Places(list) = [p \in S |-> PositionIn(p, list)]
  BY DEF Places
<1>2. \A p, q \in S : PositionIn(p, list) = PositionIn(q, list) => p = q
  OBVIOUS
<1> QED BY <1>1, <1>2 DEF Sortable

\* What the legs may hold, in every state.
LegsBounded ==
    /\ lexical \in Seq(Authorities) /\ Len(lexical) <= Len(RuleRefs) + K
    /\ semantic \in Seq(Passages) /\ Len(semantic) <= K

Found == Range(lexical) \cup Range(semantic)

Share(n) == 1000000 \div (60 + n)

\* What the assumptions say, in the form the proofs use.
LEMMA RetrievalConstants ==
    /\ K \in Nat /\ K >= 1 /\ Len(RuleRefs) \in Nat
    /\ KindOf \in [Authorities -> {"legislation", "case_law", "acas", "unknown"}]
    /\ Passages \subseteq Authorities
  BY RetrievalAssumption, AuthoritiesFinite DEF Authorities

\* A place on a leg of at most m rows is worth a share between the last and the first.
LEMMA ReciprocalBounds ==
    ASSUME NEW S, NEW leg \in Seq(S), NEW m \in Nat, Len(leg) <= m, NEW p
    PROVE  /\ p \in Range(leg) => Reciprocal(p, leg) >= Share(m)
           /\ p \notin Range(leg) => Reciprocal(p, leg) = 0
           /\ Reciprocal(p, leg) \in Int
           /\ 0 <= Reciprocal(p, leg) /\ Reciprocal(p, leg) <= Share(1)
<1>1. Share(1) = 16393
  BY DEF Share
<1>2. CASE p \in Range(leg)
  <2>1. PICK n : n = PositionIn(p, leg)
    OBVIOUS
  <2>2. n \in Nat /\ 1 <= n /\ n <= m
    <3>1. n \in 1..Len(leg)
      BY <1>2, <2>1, Position
    <3>2. Len(leg) \in Nat
      OBVIOUS
    <3> QED BY <3>1, <3>2
  <2>3. Reciprocal(p, leg) = Share(n)
    BY <1>2, <2>1 DEF Reciprocal, Share
  <2>4. Share(n) \in Nat /\ Share(m) <= Share(n) /\ Share(n) <= Share(1)
    BY <2>2, QuotientsShrink DEF Share
  <2> QED BY <1>1, <1>2, <2>3, <2>4
<1>3. CASE p \notin Range(leg)
  BY <1>1, <1>3 DEF Reciprocal
<1> QED BY <1>2, <1>3

Boost(p) == IF p \in Named THEN 1000000 ELSE 0

\* The fused score: a boost and what the two legs give.
LEMMA FusedScore ==
    ASSUME LegsBounded, NEW p
    PROVE  /\ rrf_score(p) \in Int
           /\ p \in Named => rrf_score(p) >= 1000000
           /\ p \notin Named => 0 <= rrf_score(p) /\ rrf_score(p) <= 32786
           /\ Hybrid(p) => rrf_score(p) >= Boost(p) + Share(Len(RuleRefs) + K) + Share(K)
           /\ ~ Hybrid(p) => rrf_score(p) <= Boost(p) + Share(1)
<1>1. PICK x : x = Reciprocal(p, lexical)
  OBVIOUS
<1>2. PICK y : y = Reciprocal(p, semantic)
  OBVIOUS
<1>3. /\ p \in Range(lexical) => x >= Share(Len(RuleRefs) + K)
      /\ p \notin Range(lexical) => x = 0
      /\ x \in Int /\ 0 <= x /\ x <= Share(1)
  BY <1>1, RetrievalConstants, ReciprocalBounds DEF LegsBounded
<1>4. /\ p \in Range(semantic) => y >= Share(K)
      /\ p \notin Range(semantic) => y = 0
      /\ y \in Int /\ 0 <= y /\ y <= Share(1)
  BY <1>2, RetrievalConstants, ReciprocalBounds DEF LegsBounded
<1>5. rrf_score(p) = x + y + Boost(p)
  BY <1>1, <1>2 DEF rrf_score, Boost, EXACT_CITATION_BOOST
<1>6. Boost(p) \in Int /\ Boost(p) = IF p \in Named THEN 1000000 ELSE 0
  BY DEF Boost
<1>7. Share(1) = 16393
  BY DEF Share
<1>8. Share(K) \in Int /\ Share(Len(RuleRefs) + K) \in Int
  BY RetrievalConstants, QuotientsShrink DEF Share
<1>9. Hybrid(p) => x >= Share(Len(RuleRefs) + K) /\ y >= Share(K)
  BY <1>3, <1>4 DEF Hybrid
<1>10. ~ Hybrid(p) => x = 0 \/ y = 0
  BY <1>3, <1>4 DEF Hybrid
<1> QED BY <1>3, <1>4, <1>5, <1>6, <1>7, <1>8, <1>9, <1>10

\* Two legs outweigh one.
LEMMA HybridWins ==
    ASSUME LegsBounded, NEW p, NEW q, p \in Named <=> q \in Named, Hybrid(p), ~ Hybrid(q)
    PROVE  rrf_score(p) > rrf_score(q)
<1>1. Boost(p) = Boost(q) /\ Boost(p) \in Int
  BY DEF Boost
<1>2. Share(K) \in Int /\ Share(Len(RuleRefs) + K) \in Int /\ Share(1) \in Int
  BY RetrievalConstants, QuotientsShrink DEF Share
<1>3. Share(Len(RuleRefs) + K) + Share(K) > Share(1)
  <2>1. 60 + (Len(RuleRefs) + K) = 60 + Len(RuleRefs) + K
    BY RetrievalConstants
  <2> QED BY <2>1, FusionAssumption DEF Share
<1> QED BY <1>1, <1>2, <1>3, FusedScore

\* Every authority has a trust score between 30 and 100.
LEMMA TrustScores ==
    ASSUME NEW p \in Authorities
    PROVE  trust_score(p) \in Int /\ 30 <= trust_score(p) /\ trust_score(p) <= 100
<1>1. KindOf[p] \in {"legislation", "case_law", "acas", "unknown"}
  BY RetrievalConstants
<1>2. SCORES["legislation"] = 100 /\ SCORES["acas"] = 95 /\ SCORES["case_law"] = 90
      /\ SCORES["unknown"] = 30
  BY DEF SCORES
<1> QED BY <1>1, <1>2 DEF trust_score

\* The keys of the sorts are rows of integers.
LEMMA RerankKeyType ==
    ASSUME LegsBounded, NEW p \in Authorities
    PROVE  /\ RerankKey(p) \in [1..3 -> Int]
           /\ RerankKey(p)[1] = _base_score(p) /\ RerankKey(p)[2] = trust_score(p)
           /\ RerankKey(p)[3] = rrf_score(p)
           /\ FusionKey(p) \in [1..2 -> Int]
           /\ [i \in 1..1 |-> trust_score(p)] = <<trust_score(p)>>
<1>1. rrf_score(p) \in Int /\ trust_score(p) \in Int
  BY FusedScore, TrustScores
<1>2. _base_score(p) \in Int
  BY <1>1, SharesGrow DEF _base_score
<1> QED BY <1>1, <1>2 DEF RerankKey, FusionKey

\* The order of the last sort, from its keys alone.
LEMMA RerankOrder ==
    ASSUME LegsBounded, NEW p \in Authorities, NEW q \in Authorities,
           \/ p \in Named /\ q \notin Named
           \/ /\ KindOf[p] = KindOf[q] /\ (p \in Named <=> q \in Named)
              /\ Hybrid(p) /\ ~ Hybrid(q),
           NEW e \in BOOLEAN
    PROVE  Before(RerankKey(p), RerankKey(q), e)
<1>1. PICK x : x = rrf_score(p)
  OBVIOUS
<1>2. PICK y : y = rrf_score(q)
  OBVIOUS
<1>3. PICK t : t = trust_score(p)
  OBVIOUS
<1>4. PICK u : u = trust_score(q)
  OBVIOUS
<1>5. PICK b : b = _base_score(p)
  OBVIOUS
<1>6. PICK c : c = _base_score(q)
  OBVIOUS
<1>7. /\ t \in Int /\ 30 <= t /\ t <= 100 /\ u \in Int /\ 30 <= u /\ u <= 100
      /\ x \in Int /\ y \in Int
  BY <1>1, <1>2, <1>3, <1>4, FusedScore, TrustScores
<1>8. b = (x * 55) \div 100 + t * 3500 + (IF p \in Named THEN 100000 ELSE 0)
  BY <1>1, <1>3, <1>5 DEF _base_score
<1>9. c = (y * 55) \div 100 + u * 3500 + (IF q \in Named THEN 100000 ELSE 0)
  BY <1>2, <1>4, <1>6 DEF _base_score
<1>10. PICK P : P = RerankKey(p)
  OBVIOUS
<1>13. PICK Q : Q = RerankKey(q)
  OBVIOUS
<1>14. DOMAIN P = 1..3 /\ P[1] = b /\ P[2] = t /\ P[3] = x
  <2>1. P \in [1..3 -> Int]
    BY <1>10, RerankKeyType
  <2> QED BY <1>1, <1>3, <1>5, <1>10, <2>1, RerankKeyType
<1>15. Q[1] = c /\ Q[2] = u /\ Q[3] = y
  BY <1>2, <1>4, <1>6, <1>13, RerankKeyType
<1>16. SUFFICES Before(P, Q, e)
  BY <1>10, <1>13
<1>11. CASE p \in Named /\ q \notin Named
  <2>1. x >= 1000000 /\ y <= 32786
    BY <1>1, <1>2, <1>11, FusedScore
  <2>2. (x * 55) \div 100 >= 550000 /\ (y * 55) \div 100 <= 18032
        /\ (x * 55) \div 100 \in Int /\ (y * 55) \div 100 \in Int
    BY <1>7, <2>1, SharesGrow
  <2>3. b > c
    BY <1>7, <1>8, <1>9, <1>11, <2>2
  <2>4. 1 \in 1..3 /\ 1..(1 - 1) = {}
    OBVIOUS
  <2> QED BY <1>14, <1>15, <2>3, <2>4 DEF Before
<1>12. CASE /\ KindOf[p] = KindOf[q] /\ (p \in Named <=> q \in Named)
            /\ Hybrid(p) /\ ~ Hybrid(q)
  <2>1. x > y
    BY <1>1, <1>2, <1>12, HybridWins
  <2>2. t = u
    BY <1>3, <1>4, <1>12 DEF trust_score
  <2>3. (y * 55) \div 100 <= (x * 55) \div 100
        /\ (x * 55) \div 100 \in Int /\ (y * 55) \div 100 \in Int
    BY <1>7, <2>1, SharesGrow
  <2>4. b >= c /\ b \in Int /\ c \in Int
    BY <1>7, <1>8, <1>9, <1>12, <2>2, <2>3
  <2>5. b > c \/ b = c
    BY <2>4
  <2>6. CASE b > c
    <3>1. 1 \in 1..3 /\ 1..(1 - 1) = {}
      OBVIOUS
    <3> QED BY <1>14, <1>15, <2>6, <3>1 DEF Before
  <2>7. CASE b = c
    <3>1. P[1] = Q[1] /\ P[2] = Q[2] /\ P[3] > Q[3]
      BY <1>14, <1>15, <2>1, <2>2, <2>7
    <3>2. 3 \in 1..3 /\ \A j \in 1..(3 - 1) : j = 1 \/ j = 2
      OBVIOUS
    <3>3. \A j \in 1..(3 - 1) : P[j] = Q[j]
      BY <3>1, <3>2
    <3> QED BY <1>14, <3>1, <3>2, <3>3 DEF Before
  <2> QED BY <2>5, <2>6, <2>7
<1> QED BY <1>11, <1>12

\* What the legs hold are finitely many authorities.
LEMMA FoundFinite ==
    ASSUME LegsBounded
    PROVE  IsFiniteSet(Found) /\ Found \subseteq Authorities /\ Cardinality(Found) \in Nat
<1>1. Found \subseteq Authorities
  <2>1. Range(lexical) \subseteq Authorities
    BY DEF LegsBounded, Range
  <2>2. Range(semantic) \subseteq Passages
    BY DEF LegsBounded, Range
  <2> QED BY <2>1, <2>2, RetrievalConstants DEF Found
<1> QED BY <1>1, AuthoritiesFinite, FS_Subset, FS_CardinalityType

\* The fusion meets every passage at a place of its own.
LEMMA MetOnce ==
    ASSUME LegsBounded
    PROVE  /\ \A p \in Found : MetAt(p) \in Int
           /\ \A p, q \in Found : MetAt(p) = MetAt(q) => p = q
<1>1. Len(lexical) \in Nat
  BY DEF LegsBounded
<1>2. ASSUME NEW p \in Range(lexical)
      PROVE  MetAt(p) \in Int /\ MetAt(p) <= Len(lexical) /\ lexical[MetAt(p)] = p
  BY <1>2, Position DEF LegsBounded, MetAt
<1>3. ASSUME NEW p \in Found, p \notin Range(lexical)
      PROVE  /\ MetAt(p) \in Int /\ MetAt(p) > Len(lexical)
             /\ semantic[MetAt(p) - Len(lexical)] = p
  <2>1. p \in Range(semantic)
    BY <1>3 DEF Found
  <2>2. PICK n : n = PositionIn(p, semantic)
    OBVIOUS
  <2>3. n \in 1..Len(semantic) /\ semantic[n] = p
    BY <2>1, <2>2, Position DEF LegsBounded
  <2>4. MetAt(p) = Len(lexical) + n
    BY <1>3, <2>2 DEF MetAt
  <2>5. n \in Nat /\ n >= 1
    BY <2>3 DEF LegsBounded
  <2>6. (Len(lexical) + n) - Len(lexical) = n
    BY <1>1, <2>5
  <2> QED BY <1>1, <2>3, <2>4, <2>5, <2>6
<1>4. \A p \in Found : MetAt(p) \in Int
  BY <1>2, <1>3
<1>5. ASSUME NEW p \in Found, NEW q \in Found, MetAt(p) = MetAt(q) PROVE p = q
  <2>1. CASE p \in Range(lexical) /\ q \in Range(lexical)
    BY <1>2, <1>5, <2>1
  <2>2. CASE p \notin Range(lexical) /\ q \notin Range(lexical)
    BY <1>3, <1>5, <2>2
  <2>3. CASE p \in Range(lexical) /\ q \notin Range(lexical)
    BY <1>1, <1>2, <1>3, <1>5, <2>3
  <2>4. CASE p \notin Range(lexical) /\ q \in Range(lexical)
    BY <1>1, <1>2, <1>3, <1>5, <2>4
  <2> QED BY <2>1, <2>2, <2>3, <2>4
<1> QED BY <1>4, <1>5

\* The first sort, by the fused score, loses nothing.
LEMMA FusionList ==
    ASSUME LegsBounded
    PROVE  /\ Range(reciprocal_rank_fusion) = Found
           /\ \A p \in Found : /\ PositionIn(p, reciprocal_rank_fusion) \in Int
                               /\ reciprocal_rank_fusion[PositionIn(p, reciprocal_rank_fusion)] = p
<1> DEFINE key == [p \in Found |-> FusionKey(p)]
           place == [p \in Found |-> MetAt(p)]
<1>1. key \in [Found -> [1..2 -> Int]]
  BY FoundFinite, RerankKeyType
<1>2. place \in [Found -> Int] /\ \A p, q \in Found : place[p] = place[q] => p = q
  BY MetOnce
<1>3. Sortable(Found, key, place, 2)
  <2> HIDE DEF key, place
  <2> QED BY <1>1, <1>2, FoundFinite DEF Sortable
<1>4. reciprocal_rank_fusion = Descending(Found, key, place)
  BY DEF reciprocal_rank_fusion, Found
<1> HIDE DEF key, place
<1>5. IsSortOf(reciprocal_rank_fusion, Found, key, place)
  BY <1>3, <1>4, Sorting
<1> QED BY <1>5, FoundFinite, SortsAreLists

\* A list of all that was found, each at one place.
ListsFound(list) ==
    /\ Range(list) = Found
    /\ \A p \in Found : PositionIn(p, list) \in Int /\ list[PositionIn(p, list)] = p

\* The second sort, by trust, loses nothing.
LEMMA TrustList ==
    ASSUME LegsBounded, NEW list, ListsFound(list)
    PROVE  ListsFound(score_authorities(list))
<1> DEFINE key == [p \in Found |-> <<trust_score(p)>>]
<1>1. key \in [Found -> [1..1 -> Int]]
  <2>1. ASSUME NEW p \in Found PROVE <<trust_score(p)>> \in [1..1 -> Int]
    <3>1. trust_score(p) \in Int
      BY FoundFinite, TrustScores
    <3> QED BY <3>1
  <2> QED BY <2>1
<1>2. score_authorities(list) = Descending(Found, key, Places(list))
  BY DEF score_authorities, ListsFound
<1> HIDE DEF key
<1>3. Sortable(Found, key, Places(list), 1)
  BY <1>1, FoundFinite, SortAgain DEF ListsFound
<1>4. IsSortOf(score_authorities(list), Found, key, Places(list))
  BY <1>2, <1>3, Sorting
<1> QED BY <1>4, FoundFinite, SortsAreLists DEF ListsFound

\* Which of two the bundle must have first.
MustLead(p, q) ==
    \/ p \in Named /\ q \notin Named
    \/ /\ KindOf[p] = KindOf[q] /\ (p \in Named <=> q \in Named)
       /\ Hybrid(p) /\ ~ Hybrid(q)

\* The third sort loses nothing and puts the leaders first, whatever order it was given.
LEMMA RerankList ==
    ASSUME LegsBounded, NEW list, ListsFound(list)
    PROVE  /\ ListsFound(rerank_authorities(list))
           /\ \A p, q \in Found : MustLead(p, q) =>
                 PositionIn(p, rerank_authorities(list)) < PositionIn(q, rerank_authorities(list))
<1> DEFINE key == [p \in Found |-> RerankKey(p)]
           place == Places(list)
<1>1. key \in [Found -> [1..3 -> Int]]
  BY FoundFinite, RerankKeyType
<1>2. rerank_authorities(list) = Descending(Found, key, place)
  BY DEF rerank_authorities, ListsFound
<1>3. \A p \in Found : key[p] = RerankKey(p)
  OBVIOUS
<1> HIDE DEF key
<1>4. Sortable(Found, key, place, 3)
  BY <1>1, FoundFinite, SortAgain DEF ListsFound
<1>5. IsSortOf(rerank_authorities(list), Found, key, place)
  BY <1>2, <1>4, Sorting
<1>6. ASSUME NEW p \in Found, NEW q \in Found, MustLead(p, q)
      PROVE  Precedes(key, place, p, q)
  <2>1. PICK e \in BOOLEAN : e <=> place[p] < place[q]
    OBVIOUS
  <2>2. e = (place[p] < place[q])
    BY <2>1
  <2>3. Before(RerankKey(p), RerankKey(q), e)
    BY <1>6, FoundFinite, RerankOrder DEF MustLead
  <2> QED BY <1>3, <2>2, <2>3 DEF Precedes
<1> HIDE DEF place
<1>7. ListsFound(rerank_authorities(list))
  BY <1>5, FoundFinite, SortsAreLists DEF ListsFound
<1>8. \A p, q \in Found : Precedes(key, place, p, q) =>
        PositionIn(p, rerank_authorities(list)) < PositionIn(q, rerank_authorities(list))
  BY <1>5, FoundFinite, SortsAreLists
<1> QED BY <1>6, <1>7, <1>8

-----------------------------------------------------------------------------

\* A provision that a leg holds is a rule's, or was in force while the retrieval ran.
LegInForce(leg) ==
    \A p \in Range(leg) :
        KindOf[p] = "legislation" => p \in Range(ruleHits) \/ p \in everUsable \cap Local

RetrievalInv ==
    /\ ruleHits \in {<<>>, RuleRefs}
    /\ LegsBounded
    /\ stage = "domain" => lexical = <<>> /\ semantic = <<>>
    /\ stage \in {"lexical", "semantic"} => Usable \subseteq everUsable
    /\ LegInForce(lexical) /\ LegInForce(semantic)
    /\ RankingSound

\* No leg has run and the bundle is empty.
LEMMA RetrievalInitInv == RetrievalInit => RetrievalInv
<1> SUFFICES ASSUME RetrievalInit PROVE RetrievalInv
  OBVIOUS
<1>1. lexical = <<>> /\ semantic = <<>> /\ ruleHits = <<>> /\ stage = "domain"
  BY DEF RetrievalInit
<1>2. Range(<<>>) = {}
  BY DEF Range
<1>3. LegsBounded
  BY <1>1, RetrievalConstants DEF LegsBounded
<1> QED BY <1>1, <1>2, <1>3 DEF RetrievalInv, LegInForce, RankingSound

\* The lexical leg returns at most K passages, and provisions only that are in force.
LEMMA KeywordRows ==
    ASSUME NEW found \in retrieve_keyword
    PROVE  /\ found \in Seq(Passages) /\ Len(found) <= K
           /\ \A p \in Range(found) : KindOf[p] = "legislation" => p \in Usable \cap Local
<1> DEFINE S == {p \in Passages : LexicalCandidate(p)}
<1>1. PICK s \in Ranked(S) : found = SubSeq(s, 1, Min({K, Len(s)}))
  BY DEF retrieve_keyword
<1>2. S \in SUBSET Passages
  OBVIOUS
<1>3. found \in Seq(S) /\ Len(found) <= K
  <2> HIDE DEF S
  <2> QED BY <1>1, <1>2, TopRows
<1>4. found \in Seq(Passages)
  BY <1>2, <1>3
<1>5. Range(found) \subseteq S
  BY <1>3 DEF Range
<1>6. \A p \in S : KindOf[p] = "legislation" => p \in Usable \cap Local
  BY DEF LexicalCandidate, Usable
<1> QED BY <1>3, <1>4, <1>5, <1>6

\* So does the semantic leg, also when it falls back to the keywords.
LEMMA SemanticRows ==
    ASSUME NEW found \in retrieve_semantic
    PROVE  /\ found \in Seq(Passages) /\ Len(found) <= K
           /\ \A p \in Range(found) : KindOf[p] = "legislation" => p \in Usable \cap Local
<1>1. CASE plane # "ready"
  BY <1>1, KeywordRows DEF retrieve_semantic
<1>2. CASE plane = "ready"
  <2> DEFINE S == {p \in Passages : SemanticCandidate(p)}
  <2>1. PICK s \in Ranked(S) : found = SubSeq(s, 1, Min({K, Len(s)}))
    BY <1>2 DEF retrieve_semantic
  <2>2. S \in SUBSET Passages
    OBVIOUS
  <2>3. found \in Seq(S) /\ Len(found) <= K
    <3> HIDE DEF S
    <3> QED BY <2>1, <2>2, TopRows
  <2>4. found \in Seq(Passages)
    BY <2>2, <2>3
  <2>5. Range(found) \subseteq S
    BY <2>3 DEF Range
  <2>6. \A p \in S : p \in Usable \cap Local
    BY DEF SemanticCandidate, Usable
  <2> QED BY <2>3, <2>4, <2>5, <2>6
<1> QED BY <1>1, <1>2

\* The lexical leg puts the rules first and adds what is in force now.
LEMMA LexicalLegInv ==
    ASSUME RetrievalInv, LexicalLeg
    PROVE  RetrievalInv'
<1>1. PICK found \in retrieve_keyword : lexical' = ruleHits \o found
  BY DEF LexicalLeg
<1>2. /\ stage = "lexical" /\ stage' = "semantic"
      /\ UNCHANGED <<sourceRow, chunkRow, ruleHits, semantic, everUsable>>
  BY DEF LexicalLeg
<1>3. /\ found \in Seq(Passages) /\ Len(found) <= K
      /\ \A p \in Range(found) : KindOf[p] = "legislation" => p \in everUsable \cap Local
  BY <1>1, <1>2, KeywordRows DEF RetrievalInv
<1>4. ruleHits \in Seq(Authorities) /\ Len(ruleHits) <= Len(RuleRefs)
  <2>1. RuleRefs \in Seq(Range(RuleRefs))
    BY RetrievalAssumption
  <2>2. RuleRefs \in Seq(Authorities)
    BY <2>1 DEF Authorities
  <2>3. <<>> \in Seq(Authorities) /\ Len(<<>>) = 0
    OBVIOUS
  <2>4. ruleHits = <<>> \/ ruleHits = RuleRefs
    BY DEF RetrievalInv
  <2>5. CASE ruleHits = <<>>
    BY <2>3, <2>5, RetrievalConstants
  <2>6. CASE ruleHits = RuleRefs
    BY <2>2, <2>6, RetrievalConstants
  <2> QED BY <2>4, <2>5, <2>6
<1>5. found \in Seq(Authorities) /\ Len(found) \in Nat
  BY <1>3, RetrievalConstants
<1>6. PICK both : both = ruleHits \o found
  OBVIOUS
<1>7. /\ both \in Seq(Authorities) /\ Len(both) = Len(ruleHits) + Len(found)
      /\ Range(both) = Range(ruleHits) \cup Range(found)
  <2>1. both \in Seq(Authorities) /\ Len(both) = Len(ruleHits) + Len(found)
    BY <1>4, <1>5, <1>6
  <2>2. \A i \in 1..Len(both) : both[i] = IF i <= Len(ruleHits) THEN ruleHits[i] ELSE found[i - Len(ruleHits)]
    BY <1>4, <1>5, <1>6
  <2>3. Range(both) \subseteq Range(ruleHits) \cup Range(found)
    <3> SUFFICES ASSUME NEW i \in 1..Len(both) PROVE both[i] \in Range(ruleHits) \cup Range(found)
      BY <2>1 DEF Range
    <3>1. CASE i <= Len(ruleHits)
      BY <1>4, <2>2, <3>1 DEF Range
    <3>2. CASE ~ i <= Len(ruleHits)
      <4>1. i - Len(ruleHits) \in 1..Len(found)
        BY <1>4, <1>5, <2>1, <3>2
      <4> QED BY <1>5, <2>2, <3>2, <4>1 DEF Range
    <3> QED BY <3>1, <3>2
  <2>4. Range(ruleHits) \subseteq Range(both)
    <3> SUFFICES ASSUME NEW i \in 1..Len(ruleHits) PROVE ruleHits[i] \in Range(both)
      BY <1>4 DEF Range
    <3>1. i \in 1..Len(both) /\ i <= Len(ruleHits)
      BY <1>4, <1>5, <2>1
    <3> QED BY <2>1, <2>2, <3>1 DEF Range
  <2>5. Range(found) \subseteq Range(both)
    <3> SUFFICES ASSUME NEW i \in 1..Len(found) PROVE found[i] \in Range(both)
      BY <1>5 DEF Range
    <3>1. PICK n : n = i + Len(ruleHits)
      OBVIOUS
    <3>2. n \in 1..Len(both) /\ ~ n <= Len(ruleHits) /\ n - Len(ruleHits) = i
      BY <1>4, <1>5, <2>1, <3>1
    <3> QED BY <2>1, <2>2, <3>2 DEF Range
  <2> QED BY <2>1, <2>3, <2>4, <2>5
<1>8. LegsBounded'
  BY <1>1, <1>2, <1>3, <1>4, <1>5, <1>6, <1>7, RetrievalConstants DEF RetrievalInv, LegsBounded
<1>9. LegInForce(lexical)'
  BY <1>1, <1>2, <1>3, <1>6, <1>7 DEF LegInForce
<1>10. LegInForce(semantic)'
  BY <1>2 DEF RetrievalInv, LegInForce
<1>11. Usable' = Usable
  BY <1>2 DEF Usable
<1> QED BY <1>2, <1>8, <1>9, <1>10, <1>11 DEF RetrievalInv, RankingSound

\* The semantic leg adds what is in force now, whatever changed since the lexical one.
LEMMA SemanticLegInv ==
    ASSUME RetrievalInv, SemanticLeg
    PROVE  RetrievalInv'
<1>1. /\ stage = "semantic" /\ stage' = "fuse" /\ semantic' \in retrieve_semantic
      /\ UNCHANGED <<ruleHits, lexical, everUsable>>
  BY DEF SemanticLeg
<1>2. /\ semantic' \in Seq(Passages) /\ Len(semantic') <= K
      /\ \A p \in Range(semantic') : KindOf[p] = "legislation" => p \in everUsable \cap Local
  BY <1>1, SemanticRows DEF RetrievalInv
<1>3. LegsBounded'
  BY <1>1, <1>2 DEF RetrievalInv, LegsBounded
<1>4. LegInForce(lexical)' /\ LegInForce(semantic)'
  BY <1>1, <1>2 DEF RetrievalInv, LegInForce
<1> QED BY <1>1, <1>3, <1>4 DEF RetrievalInv, RankingSound

\* The three sorts turn two bounded legs into a ranked bundle.
LEMMA FuseInv ==
    ASSUME RetrievalInv, Fuse
    PROVE  RetrievalInv'
<1>1. /\ stage = "fuse" /\ stage' = "done"
      /\ bundle' = rerank_authorities(score_authorities(reciprocal_rank_fusion))
      /\ UNCHANGED <<ruleHits, lexical, semantic, everUsable>>
  BY DEF Fuse
<1>2. LegsBounded
  BY DEF RetrievalInv
<1>3. ListsFound(reciprocal_rank_fusion)
  BY <1>2, FusionList DEF ListsFound
<1>4. ListsFound(score_authorities(reciprocal_rank_fusion))
  BY <1>2, <1>3, TrustList
<1>5. /\ ListsFound(bundle')
      /\ \A p, q \in Found : MustLead(p, q) => PositionIn(p, bundle') < PositionIn(q, bundle')
  BY <1>1, <1>2, <1>4, RerankList
<1>6. RankingSound'
  BY <1>1, <1>5 DEF RankingSound, ListsFound, Found, MustLead, Ahead, Hybrid
<1>7. LegsBounded' /\ LegInForce(lexical)' /\ LegInForce(semantic)'
  BY <1>1 DEF RetrievalInv, LegsBounded, LegInForce
<1> QED BY <1>1, <1>6, <1>7 DEF RetrievalInv

\* Every step of a retrieval, and every change of the corpus, keeps RetrievalInv.
LEMMA RetrievalStepInv ==
    ASSUME RetrievalInv, [RetrievalNext]_retrievalVars
    PROVE  RetrievalInv'
<1>1. CASE RefuseDomain
  <2>1. stage' = "refused" /\ UNCHANGED <<ruleHits, lexical, semantic, everUsable>>
    BY <1>1 DEF RefuseDomain
  <2> QED BY <2>1 DEF RetrievalInv, LegsBounded, LegInForce, RankingSound
<1>2. CASE ReadRules
  <2>1. /\ stage = "domain" /\ stage' = "lexical" /\ everUsable' = Usable
        /\ UNCHANGED <<sourceRow, chunkRow, lexical, semantic>>
    BY <1>2 DEF ReadRules
  <2>2. ruleHits' \in {<<>>, RuleRefs}
    BY <1>2 DEF ReadRules
  <2>3. lexical' = <<>> /\ semantic' = <<>> /\ Range(<<>>) = {}
    BY <2>1 DEF RetrievalInv, Range
  <2>4. LegInForce(lexical)' /\ LegInForce(semantic)'
    BY <2>3 DEF LegInForce
  <2>5. Usable' = Usable
    BY <2>1 DEF Usable
  <2>6. LegsBounded'
    BY <2>1 DEF RetrievalInv, LegsBounded
  <2> QED BY <2>1, <2>2, <2>4, <2>5, <2>6 DEF RetrievalInv, RankingSound
<1>3. CASE CorpusChange
  <2>1. /\ stage \in {"lexical", "semantic"} /\ everUsable' = everUsable \cup Usable'
        /\ UNCHANGED <<stage, ruleHits, lexical, semantic>>
    BY <1>3 DEF CorpusChange
  <2> QED BY <2>1 DEF RetrievalInv, LegsBounded, LegInForce, RankingSound
<1>4. CASE UNCHANGED retrievalVars
  BY <1>4 DEF retrievalVars, RetrievalInv, LegsBounded, LegInForce, RankingSound, Usable,
              Ahead, Hybrid
<1> QED
  BY <1>1, <1>2, <1>3, <1>4, LexicalLegInv, SemanticLegInv, FuseInv DEF RetrievalNext

\* A bundle is sound: whatever the corpus does between the legs and whichever leg
\* falls back, it holds all that the legs found, what the query names first, of one
\* kind what both legs found before what one did, and no provision but those in force
\* in the jurisdiction at some time of the retrieval (retrieve.py, rrf.py, rerank.py).
THEOREM BundlesStaySound == RetrievalSpec => []BundleSound
<1>1. RetrievalInit => RetrievalInv
  BY RetrievalInitInv
<1>2. RetrievalInv /\ [RetrievalNext]_retrievalVars => RetrievalInv'
  BY RetrievalStepInv
<1>3. RetrievalInv => BundleSound
  BY DEF RetrievalInv, LegInForce, RankingSound, ProvisionsInForce, BundleSound
<1> QED BY <1>1, <1>2, <1>3, PTL DEF RetrievalSpec

=============================================================================
