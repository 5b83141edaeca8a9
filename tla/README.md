# A TLA+ model of the legal assessment backend

The repository is a legal assistant for employment disputes: a Python backend
(`src/backend`) that turns a user's story into a grounded assessment, services
around it (`src/backend/services`, `src/services`), an ingestion side
(`src/ingestion`, `src/backend/core/ingestion`) that fills the corpus, a Postgres
schema (`src/db/migrations`) and a frontend. Almost all state lives in Postgres
and almost every call opens a connection and a transaction of its own. What is
hard about the system is therefore what happens *between* transactions:
competing workers, repeated requests, a process that dies half-way, an error
that is logged and swallowed, a cached answer that outlives its reason. The
rest of the difficulty is in its arithmetic: dates, thresholds and
effective-dated figures that several programs compute independently.

Contents: 1 inventory, 2 modules, 3 runs, 4 proofs, 5 findings and facts, 6 what
is left out, 7 plan, 8 how to run it.

## 1. Inventory

| Component | State | Operations | Works with |
|---|---|---|---|
| Outbox and delivery worker (`core/outbox.py`, `outbox_worker.py`) | table `outbox_events`; per worker the claimed batch and the event being dispatched | `publish`, `claim_batch`, `_dispatch`, status writes, shutdown, restart | brain, proposals, uploads publish |
| Ingestion proposals (`core/knowledge_proposer.py`) | `ingestion_proposals`, `ingestion_jobs` | propose, `approve_proposal` | the outbox, in the approval's transaction |
| Brain (`core/brain.py`, `run_brain`) | `brain_traces`, and a row in five tables of other components | one call per request, 19 steps, five early returns | the next four |
| Assessment and gates (`pipeline.py`, `score.py`, `govern.py`, citation guard, Legal Truth Validator, `evaluator.py`, `critic.py`) | none | functions of the draft | brain, Mother controller |
| Cost governor, human review, case memory | `cost_governor_log`, `human_review_queue`, `legal_memory` | check, queue, save | brain |
| Mother controller and documents (`core/control_plane`, `documents.py`, language layer) | trace row, memory, learning log | two lanes, governance verdict, rendering, drafting | as the brain |
| Circuit breaker (`circuit_breaker.py`) | state, failures, opening time, in memory | `call` | LLM gateway |
| Authentication and sessions (`core/auth`) | users, `sessions`, single-use tokens | registration, login, `refresh`, log-out, links, reset, identity providers | HTTP API |
| Access control (`user_auth.py`, `providers.py`, `login_gate.py`) | two caches of signing keys, owners of cases, teaser tokens | identify, check ownership, free tool's wall | every route |
| Payments (`api/payment_routes.py`, `document_routes.py`) | `cases`, `payment_sessions`, `payment_events`, documents and files | onboarding, checkout, webhooks, test confirmation, generation, list, download | Stripe, uploads |
| Evidence (uploads, extraction, review, bundle, timeline) | `uploads`, `document_facts`, key dates, files | upload, extract, review, confirm, apply, preview | outbox |
| Leads (`kms.py`, `envelope_encryption.py`) | encrypted leads | capture, delete, retention, redeployment in another key mode | KMS |
| Matters and notifications (`feature_spec_service.py`, notification service) | matters, deadlines, e-mail rows, Redis list | create, save deadline, hub, send | partner |
| Ingestion workers (`ingestion/workers`) | Redis queues, `ingestion_jobs` | dequeue, script, record, dead letter | corpus writers |
| Corpus writers (`ingestion/*`, `perpetual_law_brain.py`) | four source tables, `corpus_chunks`, graph | ingest, embed, synchronise, governed run | workers, retrieval |
| Swedish pack (`ingestion/riksdagen`) | fixtures, legislation, chunks, draft rules | fetch, seed, synchronise, migrate | corpus writers |
| Rules table | `rules` | four seed programs, migrations, `retrieve_rules` | every engine |
| Deadline arithmetic, deterministic verdicts (`deadline.py`, `employment_assessment.py`, ...) | the stored deadline of a case, stated facts | limit, urgency, escalation, eleven handlers | pipeline, API |
| Retrieval (`retrieve.py`, `retrieval/*`), legal graph, search service, caches | answer caches, a shared connection | legs, fusion, rerank, traversal, search, lookup | pipeline, services |
| Classification, graph update worker, thin services, HTTP shell, frontend, deployment | none of their own, or none deployed | see section 6 | - |

What makes each of them correct, and what is hard about it:

- **Outbox.** An event is never in two workers' hands although several workers
  run with one worker id and the status writes do not look at who holds the row;
  a handler completes at most once; a settled row stays settled; nothing waits
  for ever behind others. Hard: a crash or a lost reply between claim, handler
  and status write, and the retry budget that two statements compute
  independently.
- **Proposals.** Approval, job and event exist together or not at all. Hard:
  two administrators at once, and `publish` swallows its own error inside the
  caller's transaction.
- **Brain, gates, control plane.** No answer cites what does not exist, no
  successful one is without citation or with prohibited language in the text the
  gates read, and what the tables say of a run is justified by it. Each gate alone
  lets something through, so the properties are about the composition, also when
  the database fails between two gates and when two requests share a trace id.
  Hard: one of the three texts the model writes is in no gate's text.
- **Sessions and access.** What was exchanged for a session is spent, a revoked
  session stays revoked although `refresh` reads and writes without a lock,
  a withdrawn key dies although fetches overtake each other, and a case is seen
  only by those entitled to it in every production configuration.
- **Payments.** Nothing is delivered that was not charged, a paid case stays
  paid whatever late event arrives, onboarding makes one case, a generated document
  that is listed can be downloaded.
- **Evidence, leads, matters.** Only accepted facts reach the key dates and the
  bundle; no exhibit without its file; a lead is readable exactly where the key
  it was written with can be reached; a deadline shown is never late; no e-mail job
  without its row.
- **Ingestion, corpus, Sweden.** A job is in one place or a fault took it; a page
  with rows has all the chunks of one text, and no others unless two ingestions
  overlapped; the current chunks are those of the current text; a sign-off covers
  what was signed. Hard: the replacement of a page is a DELETE and one INSERT per
  chunk under READ COMMITTED, and an error of the pop ends a worker thread.
- **Rules, deadlines, verdicts.** One figure per key and day whatever program
  ran last; a limit is the right day, neither early nor late, at month ends and
  however conciliation falls; a fact in the claimant's favour never hurts; no
  verdict without the rules it rests on.
- **Retrieval, graph, search, caches.** A repealed provision does not return
  through the other leg; an outage is not read as "nothing required"; a cached
  answer is no older than its lifetime.

`PROJECT.json` lists every component with its status and every hazard at the
line where it bites.

## 2. Modules and how they correspond to the code

`PROJECT.json` maps each definition to its lines. Definitions keep the names of
the functions, tables and columns they stand for where TLA+ allows it. A handler
that decides on a read of one transaction and writes in a later one is several
actions, with what it carries over in a variable (`requests`, `handling`, `rq`,
`walk`, ...); an UPDATE with a condition, or one transaction, is one action.

**Outbox** models `outbox.py` and `outbox_worker.py`. `status`, `retry` and
`owner` are columns of `outbox_events`, `created` is the order of `created_at`.
`batch`, `current` and `result` are the local variables of `run_once` and
`_dispatch` in each worker process. Each action is one transaction of the code
or the local step between two: `Publish`, `ClaimBatch` (the single
`UPDATE ... FOR UPDATE SKIP LOCKED`), `Dispatch` (the handler runs),
`MarkProcessed` / `MarkFailed`, `Stop` (SIGTERM, read between batches) and
`Start`. The faults are `Crash` (a worker dies anywhere), `ClaimReplyLost` (the
claim commits, the worker sees an error and an empty batch), `StatusWriteLost`
(an error in the status write is swallowed) and `ClaimPastLocked` (rows locked
by a claim that then rolls back are skipped). Two overlapping claims that both
commit are the same as one after the other. A status write that commits and
whose reply is lost is the same as one that succeeds. `attempts` and `effects`
are history variables. The handlers of the repository only raise when a
`trace_id` is missing; `Flaky` lets a registered handler fail as well, which
the handler contract allows and the tests do by replacing the handler. The
exact current handlers are the instance `Flaky = {}`, whose behaviours are
among those checked.

**OutboxLifecycle** is the abstract specification: rows that go from absent to
pending, processing, and to processed or dead_letter, with a budget of
failures. It has no workers, batches or faults. `ImplementsLifecycle` says that
`Outbox` refines it with `state <- status, failures <- retry`.

**Proposals** extends `Outbox`: the transaction of `approve_proposal` is the
conjunction of its own writes and of `Publish`, so the event row appears in the
same step. Reply lost after commit and publish failing inside the transaction
are actions of their own. Rejecting a proposal does not exist in the code.

**Assessment** has no state. It gives the decisions of `assess` (early returns
in order, citation guard with regeneration, scores, governance), of
the Legal Truth Validator, evaluator, safety policy and verdict as operators on
an abstract draft. Text is reduced to classes of phrases: the three phrase lists
of the code (governance, evaluator, safety) overlap without being equal, and a
class stands for the phrases with the same memberships. A draft has the three
texts the model writes, `summary`, `weaknesses` and `arguments` (the code's
`employer_arguments`); the gates read the first two, as in the code. A citation is
reduced to where it can be found, scores are in hundredths.

**Brain** is `run_brain`, one action per step that reads or writes a table:
`Triage` with the review row, `Analyse` and `CostCheck` for the two halves of
the cost governor, `Generate`, `LegalTruth` with its gap proposal, `Judge`,
`SaveMemory`, `StoreAudit`, `PublishAndReturn`, and the early returns. The date of
the termination is an ISO string, which is what every caller in the repository
passes, or a date, which the signature also admits; only the second ever fills the
review queue. Every
write has a variant that fails and is skipped; `Crash` ends a run between any
two steps. Runs may share a trace id. The rows of write-only log tables
(injection log, safety checks, agent failures) are left out: nothing reads them.
Here the outbox is reduced to "an event row exists for this trace".

**Breaker** is `CircuitBreaker.call` as its two critical sections: admitting a
call and booking its result, with the model's answer in between and any number
of threads. Age and failure count saturate where the code stops telling values
apart, so time needs no bound.

**Sessions** is `auth/service.py`. A row of `sessions` is a refresh token, with
`via` (a history field) recording what it was issued for; password login and
refresh are a read and a later write. **Access** is what a bearer token, a header
or the administrators' key lets a caller do under each configuration, with the
signing-key caches of two services as processes that fetch without the lock.
The two meet only in the signed access token, which outlives its session.

**Payments** holds cases, checkouts, Stripe's side of a checkout (external), the
audit rows, documents and files of one account. Each route is the steps its
transactions make it. The list of documents has every row of the case: generated
ones, uploads of both upload routes (which Evidence has in steps; here they are one
step each, as far as the list shows them) and one row for the components of a
bundle. **Evidence** is the uploads of one case between file
system, two connections and the outbox; what a text states is an input.
**Leads** reduces ciphers to which key opens what. **Matters** has the saved
deadlines, the hub's reading of them, and e-mails as a row and a Redis job.

**Corpus** is the writers of the four source tables, the embedding job, the
synchronisation, the statute script and the governed path (`PerpetualLawBrain`)
with its critic, staleness marks and graph links. An ingestion of a GOV.UK page is
its DELETE, which removes the rows that are visible to it, one INSERT ... ON CONFLICT
per chunk, and the commit; several calls may be under way (`page`), and `mixed`
remembers the pages on which two of them overlapped since one last ran alone.
**Ingestion** extends it with the worker threads: BRPOP, the job's row, the script
of its table, an exception, a `sys.exit` that ends the thread, an error of the pop
outside the try of `run_once`, which ends the thread too and may take the popped job
along, a crash of the process. **SwedishPack** is the
fetcher, the seed and the synchronisation over acts that gain and lose sections.

**RuleTable** has the real rows: all keys, effective dates, figures and
verification statuses that `seed.py`, `seed_unfair_dismissal.py`,
`seed_unpaid_wages.py`, `seed_limits_orders.py` and the migrations write.
**Deadlines** is the date arithmetic (ordinals and month lengths as in Python's
`datetime`) and the life of a stored deadline as days pass. **Verdicts** extends
it with the eleven handlers, the pre-assessment, the triage and the diagnosis
route; facts are stated one at a time and rules come and go. Awards are counted
in half weeks so that the multipliers are integers.

**ControlPlane** extends `Assessment`: the Mother controller's two lanes, the
governance verdict, the language layer that rephrases afterwards, memory, learning
log and trace, and the drafting of a document from a result the client hands
back. **Retrieval** is one retrieval over a corpus that changes between its legs;
the order in which a leg returns its hits is arbitrary, fusion, trust score and
rerank are computed. **LegalGraph** walks the graph statement by statement while
it is edited, and caches the chain of whichever engine answered.
**SearchService** is the one shared connection of `lawapp-rag-service`.
**Caches** is the read-through cache of the rules engine and the Redis cache of
the citation guard.

**Composition.** `Proposals` composes approvals with the outbox, `Ingestion` the
workers with the corpus, `Verdicts` the deadlines with the engines, `ControlPlane`
and `Brain` the gates with the orchestration. The other modules share tables but no
operation of one reads what another writes. Their MC modules put them in one
specification with a variable `subject` (`scenario` in `MCIngestion`) that is
chosen in the initial state: the component it names moves and the others rest
in one initial state. Since nothing is shared, this explores each component's
whole graph without multiplying them.

**Proof modules.** Eight modules hold the theorems: **DeliveryProofs** (Outbox,
OutboxLifecycle, Proposals), **AssessmentProofs** (lemmas about single gates, used by
the next two), **BrainProofs** (Brain), **AnsweringProofs** (ControlPlane, Retrieval),
**LegalServicesProofs** (SwedishPack, RuleTable, Deadlines, Verdicts, Caches, SearchService,
LegalGraph, Breaker), **AccountsProofs** (Sessions, Access), **CaseworkProofs** (Payments,
Leads, Matters, Evidence), **IngestionProofs** (Corpus, Ingestion). The **MC** modules
give constants their values.

Definitions marked *Mutant* stand before the definition they vary: a version
with one plausible slip (a dropped guard, an off-by-one, an upsert for an insert,
a gate that fails open). They are used by no specification. For each property
`PROJECT.json` names the mutant with which TLC finds it violated.

## 3. Runs

| Run | Instance | Checks | Shows |
|---|---|---|---|
| `outbox` | one proposal (its event has no handler), a flaky registered handler, an acknowledged type, a refused type; 2 workers with one id, batch 2, budget 2, 2 faults of any kind, 1 error in an approval, 1 shutdown | `ClaimExclusive`, `EffectAtMostOnce`, `StrandedOnlyByFaults`, `ApprovalAtomic`, `OkMeansApproved`, `ImplementsLifecycle`, `ApprovalDeadLetters`, `NeverStarved` | delivery is exclusive and at most once, only faults strand a row, approvals are atomic, a wrong "ok" needs a swallowed error, nothing waits behind others for ever |
| `outbox_crash` | the outbox alone, one crash | `CrashIsRedelivered` | violated: finding 1 |
| `brain_records` | 2 runs of one user and case sharing a trace id, one with consent; 3 questions, 11 model replies, 2 sets of collected citations, dates in both forms; one fault anywhere | `AnswerGrounded`, `RecordsJustified`, `SuccessIsRecorded`, `QuotaHolds` | the composition of gates holds and six tables stay consistent with the runs |
| `brain_arguments` | one run | `OutputInBounds` | violated: finding 5 |
| `brain_evaluation` | one run, every early return of `assess` | `CriticalEvaluationBlocks` | violated: finding 2 |
| `brain_review` | one run, dates as strings | `UrgentIsReviewed` | violated: finding 3 |
| `accounts` | sessions: 1 account, 3 sessions, 1 link, 2 requests; access: 1 signing key, 2 callers, 7 kinds of request, production and development configurations | `TokensSpentOnce`, `RevocationIsPermanent`, `WithdrawnKeysDie`, `CasesGuarded` | tokens are spent once, revocation is final, a withdrawn key dies within lifetime plus one fetch, cases are guarded |
| `casework` | 2 cases, checkouts, requests, 2 ids for generated and uploaded documents; 1 upload with an applicable and another field; 2 leads; 1 matter with 2 events | `MoneyAccounted`, `OnboardedOnce`, `PaidCanDownload`, `PaidIsPermanent`, `EvidenceSound`, `ReadableWithItsKey`, `MattersSound` | the tables of a case keep their promises across webhooks, deletions, reviews and redeployments |
| `answering` | 2 calls on one trace id; 3 passages, one foreign, one named; a diamond and a cycle of 4 nodes; 2 searches; 2 rules in a cache of one, 3 checks of 2 ids | `PassIsEarned`, `DraftsSound`, `BundleSound`, `GraphAnswersHonest`, `SearchHonest`, `CachesHonest` | what is answered, drafted or handed out is earned, in force, complete or recent |
| `ingestion` | 1 document with 3 texts (short, long, unreadable) in any of 4 tables, 2 overlapping ingestions of a page, 2 jobs, 2 governed runs, 2 faults, fair threads | `GuidanceCoherent`, `JobAccounted`, `PassedRunIsCurrent`, `JobsSettle` | a page keeps one whole text, jobs are accounted for and settle unless their thread ends |
| `rules` | 4 terminations at month ends and leap days, conciliation beginning from 20 days before the termination to 2 after the limit; each claim type with facts on both sides of every threshold; all real rule rows on 8 days; one Swedish act with 3 texts; a breaker with 3 threads that 2 failures open, reset after 2 ticks | `DeadlinesSound`, `VerdictsSound`, `RuleTableSound`, `SwedishPackSound`, `CountMatchesState`, `FollowsTheModel` | the arithmetic, the thresholds, the writers of the rules and the Swedish pack are sound; whatever late results are booked, the breaker ends up on the model's side |
| `rules_conciliation` | the same deadlines | `NoExtensionAfterLimit` | violated: finding 4 |

**Bounds.** All are constants of the modules.

- *Outbox*: two workers and a batch of two are the least with which a batch is
  interrupted half-way while another worker takes the rest. A budget of two (the
  code's is three) has a first and a last attempt. Two faults allow one while
  recovering from another.
- *Brain*: tables are keyed by trace, user and case, and both runs share all
  three. Route estimates are the code's, in hundreds of tokens; a daily limit of
  90 lets one expensive (50) and one cheap (40) request fill the day exactly. The
  replies are one for each way a draft can offend a gate.
- *Breaker* (in `rules`): three threads give a trial, a second trial and a late result.
- *Accounts*: a refresh can race a second refresh, a log-out or a reset; three
  sessions are two successors of one. Two callers let a slow fetch overtake a
  quick one; the clock runs to one lifetime and one fetch past the withdrawal.
- *Casework*: two checkouts of one case can both be charged; two requests write
  one document, or one is overtaken by a deletion; every row of a case can be of a
  different kind. Two requests are every race
  of read and write there is: no handler reads more than once between writes.
- *Answering*: one fault, one change of the corpus, one edit of the graph at any
  point; more would be further instances of the same race. The rules cache of
  one entry evicts at once.
- *Ingestion*: one document, since no statement relates two; two page calls, jobs or
  runs overlap, three texts distinguish "changed", "changed back" and "unusable", and
  a short text over a long one leaves rows that must be deleted. Two faults let the
  pop fail after a crash. Overlapping page calls are explored beside the embedding
  job, without the other scripts.
- *Rules*: the dates are those at which the clamping, the day less, the floor of
  one month and the leap day interact; Day A lies 20 days before the termination, on
  it, or in the window from 15 days before the limit to 2 after; Day B after it in
  the window, as the days pass. Facts lie at, below and above each threshold. The
  rule rows are not reduced. The Swedish act gains one section and loses two,
  which moves all later positions.

**Fairness.** Outbox: weak fairness of each worker's steps (`process_forever`
always calls `run_once` again) and of its restart (`restart: unless-stopped` of
the worker in `docker-compose.yml`). Breaker: time passes, a thread that wants
to be admitted is, and a model's answer arrives (the gateway's HTTP timeout).
Ingestion: a thread that has not ended keeps running (`run_forever`); no fault has
to happen. A thread ended by `sys.exit` or by an error of the pop is not started
again (`worker_runner.py` starts threads once, and the compose file gives the worker
no restart policy), and `JobsSettle` excludes the jobs of its queue. Publishers, users,
administrators, shutdowns and faults are not fair. The other modules have no
liveness property: a client may go away and nothing resumes its request.

**Symmetry** is used in `accounts` and `casework`, over sessions, requests, cases,
checkouts and documents. No property there is temporal beyond a single step.

**Deadlock** is checked in the outbox runs, where publishing an existing key or an
idle loop is always possible. Elsewhere requests end
and the bounds run out, so it is switched off.

## 4. Proofs

Everything below holds for every value of the constants that satisfies the
assumptions of the module, which the runs evaluate on their instances. Mostly these
are the types of the constants; where more is assumed, it is said. The pattern is the
same throughout: an invariant stronger than the property, one lemma per action, and a
last step by temporal logic.

| Module proved about | Theorems | States |
|---|---|---|
| Outbox | `TypeCorrect`, `Exclusion`, `Budget`, `AtMostOnce`, `NoStrandingWithoutFaults`, `Refinement` | `TypeOK`, `ClaimExclusive`, `RetryBudget`, `EffectAtMostOnce`, `StrandedOnlyByFaults`, `ImplementsLifecycle` |
| Proposals | `CompositionKeepsOutbox`, `LifecycleSurvives`, `AllOrNothing`, `OksAccountedFor` | the outbox's specification, `ApprovalAtomic`, `OkMeansApproved` |
| Brain | `Grounding`, `Justification`, `SuccessKept`, `QuotaKept` | `AnswerGrounded`, `RecordsJustified`, `SuccessIsRecorded`, `QuotaHolds` |
| ControlPlane, Retrieval | `PassOnlyWhenEarned`, `DraftsStaySound`, `BundlesStaySound` | `PassIsEarned`, `DraftsSound`, `BundleSound` |
| Sessions, Access | `SpentOnce`, `RevokedForGood`, `WithdrawnKeysDieOut`, `CasesStayGuarded` | `TokensSpentOnce`, `RevocationIsPermanent`, `WithdrawnKeysDie`, `CasesGuarded` |
| Payments, Leads | `MoneyIsAccountedFor`, `OneOnboardingCase`, `PaidAndDownloadable`, `PaidForGood`, `LeadsReadable` | `MoneyAccounted`, `OnboardedOnce`, `PaidCanDownload`, `PaidIsPermanent`, `ReadableWithItsKey` |
| Matters, Evidence | `MattersStaySound`, `EvidenceStaysSound` | `MattersSound`, `EvidenceSound` |
| Corpus, Ingestion | `GuidanceStaysCoherent`, `PassedRunsAreCurrent`, `JobsStayAccounted` | `GuidanceCoherent`, `PassedRunIsCurrent`, `JobAccounted` |
| Caches, SearchService | `CachesStayHonest`, `SearchStaysHonest` | `CachesHonest`, `SearchHonest` |
| LegalGraph | `TraversalStaysExact`, `GraphAnswersStayHonest` | `GraphAnswersHonest` |
| RuleTable, Deadlines, Verdicts, SwedishPack | `RulesStaySettled`, `DeadlinesStaySound`, `VerdictsStaySound`, `SwedenSound` | `RuleTableSound`, `DeadlinesSound`, `VerdictsSound`, `SwedishPackSound` |
| Breaker | `Counting` | `CountMatchesState` |

### Delivery

For any sets of keys and workers, any assignment of worker ids, batch size, budget and
number of faults (budget and batch size positive; approval keys have no handler). The
theorems about the outbox follow from

    IInv == TypeOK /\ ClaimExclusive /\ WorkerShape /\ RowShape
              /\ EffectShape /\ AttemptShape /\ NoStray

- `ClaimExclusive` is nearly inductive by itself: a claim takes only pending
  rows, and what is held is processing. It needs `WorkerShape` (the event being
  dispatched has left the batch, and a result exists exactly while one is being
  dispatched), because a status write releases one event and must not release
  another of the same batch.
- `RowShape` is the budget, with absent rows unspent.
- `EffectShape` is what at-most-once delivery needs: which statuses, and which
  positions in a worker, imply that the handler has or has not completed.
  Without the clauses on `batch` and `result`, a failed status could be written
  over a completed handler and the row be claimed again.
- `AttemptShape` says attempts run ahead of the retry count by at most the one
  in flight or lost; `NoStray` is stranding only by faults.

`Refinement` uses the invariant: a status write is a lifecycle step only
because what a worker holds is processing. Every step of the composition with
approvals is a step of the outbox or leaves it alone (`StepIsOutboxStep`), so all of
this applies to it. On top,
`ProposalsInv == ProposalsTypeOK /\ ApprovalAtomic /\ OksShape` is inductive
given `IInv`, where `OksShape` counts the oks of proposals that are not
approved against the errors.

### Brain

For any number of concurrent runs that share users, cases
and trace ids, any questions and model replies, and any crashes and failing
calls. First come the lemmas of `AssessmentProofs` about single gates: whatever `Assess`
returns has no phrase governance prohibits in summary or weaknesses, and arguments
only if governance passed it; what the validator lets pass as
ok cites something and invents no corpus id; what these two let
through and the safety policy does not block is grounded (`SafeIsGrounded`).
`AnswerGrounded` speaks of the last step only, so it is strengthened to
`GateInv`: at each step of a run its draft has passed the gates before it.

For the tables, `RecordInv` says of each row that the run that wrote it is past the
step after which it never touches its draft again, and of a pending "pass"
that it is the pass of the present draft; without this a row would be justified
when written and not afterwards. `QueueInv` says the same of a review: the run that
wrote it has left triage, so the urgency it was written for stays, also when a
later run of the trace has another.

`SuccessIsRecorded` holds only while nothing has failed. Faults
are counted and only grow, so that a step after which there are none had none
before it, and each skipped write counts as one. `SuccessInv` says what a run has
written by its step.

`QuotaKept` needs `Runs` to be finite and the routes to be those with an estimate
(`RoutesAssumption`): the ledger is summed over the runs. The sum is
a fold, and what it does when one run's entry changes is proved by well-founded induction on
the sets of runs. `AloneInv` says that a run whose quota check overlaps no
other of its user has read the sum there still is; so admitting it keeps
`LimitInv`, the limit on the runs admitted without overlap.

### Answering

`PassOnlyWhenEarned` and `DraftsStaySound` follow from `ControlInv`: what the verdict of
a call means for its result at each step, and that a drafted document was
drafted from a delivered one. Only a model that rephrases in Arabic brings words past
governance (`WordsGoverned`), and drafting has a gate of its own against them.

`BundlesStaySound` assumes that `Passages` is finite and that two last places
still weigh more than one first place (`FusionAssumption`; with the code's k = 5 this
holds as long as fewer than 926 rules begin with a number of the query). The work is in the sorts: by
induction on the set still to be ranked, `SetToSortSeq` under a strict order is a
sequence of exactly that set in that order, from which it follows that the third sort keeps what the
first two established. `RetrievalInv` adds that what a leg holds
was in force at some time while the retrieval ran.

### Accounts

`SessionsInv == Tables /\ RefreshesRead /\ OriginSpent /\ LinkSpent /\ OneSessionPerLink`.
`refresh` decides on a row it read without a lock, so what its second half needs
has to hold of the table and not only of what it read: rows are never deleted
under it, the session another one was refreshed from exists
and is revoked, and a link that gave a session is consumed. Every step is first
reduced to an `Effect`: rows stay with what they were issued for and stay revoked,
links stay spent, and at most one session is new, which something was spent on.

`AccessInv == AccessTypes /\ StartedSafely /\ CacheInv /\ CallersInv`: an entry of the
key cache holds only keys published at its time less one fetch, because the answer of a slow fetch may
be older than the moment it is stored (`FetchInv`). Hence a withdrawn key dies within a
lifetime and one fetch, and not within a lifetime. `CasesStayGuarded` rests on
`IdentityInv`, and on `StartedSafely`: production refuses to start without the settings
that the guards rely on.

### Casework

`PaymentsInv == Tables /\ RowsShape /\ RequestsHold /\ DistinctSessions /\ OnboardedOnce`.
`RequestsHold` says that what each request carries from one transaction into the
next still holds when it writes: onboarding has the lock on the user and "no
case" is still true, a checkout being created is not stored yet, the case of a
document about to be recorded is settled and its file written. A step shows that it
`Keeps` rows, payments and charges; then only the row it writes needs an argument.
An id is drawn anew for every row (`Unused`), so a file stays that of its row
(`UploadStep` for the two upload routes).

`LeadsInv`: a row is closed with a data key of its own and carries the bundle that
recovers it, or with the configured key, which then is among the settings. Which
provider runs then decides alone whether it can be read.

`MattersInv == MattersTypes /\ DueByRule /\ HubSaw /\ NotesInv`: the hub's minimum is
not above any deadline it had seen, and a note still to be sent has no job.

`EvidenceInv == EvidenceTypeOK /\ HandlersInv /\ RowsInv` carries what was accepted
through the requests that read it: a value a review holds between read
and write was accepted when read (`HandlerOK`), and a document being
stored is dealt with by one request only, without which a second one could work on a
row before it exists. The property also speaks of the generated documents; these lists are
sorted, and only what they hold is needed.

### Corpus and ingestion

`CorpusInv == CorpusTypeOK /\ BatchInv /\ GuidanceInv /\ PageInv /\ RunsInv`.
`GuidanceInv` is the property, with `PageInv` for the calls between DELETE and
commit: one that is alone has seen every row there is, so it deletes all that are not
of its text; of overlapping ones, the last to commit still leaves its own text
whole. On a page that is not mixed, what the embedding job holds is still there with
its text (`BatchInv`): it updates rows by id, and a replacement inserts new ones, so
what it held of them is void. `RunsInv` says of a call of PerpetualLawBrain that is alone on its source
how far its chunks are: stored, current, and finally the only ones.
`JobsInv` puts every job in exactly one place; the queues are sequences without
repetition (`Appended`, `Popped`).

### Legal services

- *Swedish pack* (every candidate rule has its act among the acts, sections of one body have
  one reference). The heart is `RowsHaveChunks`: every legislation row has a chunk of
  its hash, because the seed writes both in one transaction. So the
  synchronisation, which would label what it adds as British law, never finds
  anything to add; with a hash that left out the position this would fail.
- *Rule table* (`Days` are dates up to "open"). `RuleTableInv` says of every row that
  it bears the figure of one law for its key (`Law`, a function of the day), and
  of the rows together that where a row ends early another takes over (`Trusty`). Each
  of the five writers keeps this although it matches rows by different columns; from it follow
  that a figure is unambiguous and that no writer takes one back. `Anchored`: the row
  on which a deployed jurisdiction rests is written by no script.
- *Deadlines* (terminations are real dates of year 1 or later, any positive limits in
  months, conciliation before, across or after any of it). The calendar is proved from the code's own arithmetic:
  ordinals grow with dates (`DatesAscend`), every ordinal is the date it is
  decoded to (`Civil`, `ReadBack`), adding months clamps to the month's last day
  (`MonthsLater`), and the last day of the period is the one the statute
  names (`PeriodEnds`). With conciliation the limitation date is bounded from both
  sides: the claimant keeps at least the countable days of the primary limit, and has
  more only by the days of conciliation before the termination or up to one month
  after Day B, to the day. `DeadlinesInv` adds that what was stored was possible, i.e.
  not after what the facts of today give; conciliation only ever extends.
- *Verdicts* (figures of the rules table and what users state are not negative, a delay
  excepted; the longest notice is at least a week). `VerdictsInv` only says of what
  kind each fact is. A step that strengthens one fact `Improves` the facts; each
  quantity an engine reads has then moved one way (`SpeaksFor`, `SpeaksAgainst`) and the rest is
  as it was, and one lemma per engine shows its verdict `Grown`: no cap, band or
  threshold steps down. Without "at least a week" the notice would fall when two
  years are completed. The weeks of a redundancy payment are
  years reached at two ages (`redundancy_weeks`), so that they can be counted; they
  are at most what the present age gives, which bounds the payment by the basic
  award. 731 days is the first number that is two years in each of three units (`UnitsAgree`).
- *Caches*: `RulesInv` and `GuardInv` relate every entry to the version in force when
  its loader's request arrived, which may wait for the lock long after; an id held for true was a row.
- *Search*: `SearchInv` says how recently each hit of a search in progress was seen, and that a sound
  search has an open or an aborted connection.
- *Graph* (`Nodes` finite, the root among the local ones). `GraphInv`: an answer reports what it
  lacks, and is complete while nobody edits. `WalkInv` is the breadth-first
  argument under edits: depths grow along the queue (`Sorted`), what is found could be
  reached in the union of all graphs there were (`Reached`), and the rings of
  the part that was there throughout are met in order (`Complete`).
- *Breaker* (any number of threads, any `fail_max`, any reset time): the count lies
  between zero and the limit; every booking, early or late, then keeps
  "closed below the limit, otherwise at least one failure".

### Only model-checked

- The liveness properties `ApprovalDeadLetters`, `NeverStarved`, `JobsSettle`, and
  `FollowsTheModel`: fairness and ENABLED are out of the prover's reach.
- The five findings, which are violations.
- Induction over data goes through only where it can be stated on finite sets
  (`WellFoundedInduction` with a set as the parameter); what a recursive operator computes has
  no proof here.

## 5. Findings and facts

Findings, each shown by a run:

1. **A crashed worker's events are never delivered** (`outbox_crash`). The
   handler contract says an event may be delivered again after a crash; a
   claimed row is `processing`, `claim_batch` selects only `pending`
   (`outbox.py:135`) and nothing puts it back.
2. **A failed critical evaluation does not block** (`brain_evaluation`). The
   evaluator's docstring says it does; `run_brain` records the verdict
   (`brain.py:989`) and returns, stores and publishes the answer as ok.
3. **Urgent cases are not queued for review** (`brain_review`). `run_brain`
   hands the date to the limitation computation as the string it received
   (`brain.py:639`); that raises, the error is logged at debug level.
4. **Conciliation started after the limit extends it** (`rules_conciliation`).
   `deadline.py:86` adds the days of conciliation whatever Day A is;
   `docs/08a_DEADLINE_AND_VALUE_LOGIC.md:51-54` returns the base limit.
5. **The employer's arguments are released unread** (`brain_arguments`).
   `docs/04_RAG_REASONING_SPEC.md:112` says the output contains no reserved
   activity and no outcome guarantee; `govern.py:81-84` reads the summary and the
   weaknesses, and neither critic, safety policy nor evaluator read
   `employer_arguments`, which the model writes as well.

Facts met while modelling. The model has each of them as the code does; the
properties above are stated so as to hold in spite of them.

- *Outbox, brain.* An approval's event always ends as a dead letter
  (`ApprovalDeadLetters`). The quota is exceeded by checks that overlap
  (`QuotaHolds` bounds the others). `AnswerGrounded` and `PassIsEarned` speak of the
  text the gates read; of the arguments they say that only drafts governance
  let through carry any. The text of the value range is read by no gate either.
  Every caller passes the date as a string, so the review queue stays empty.
- *Breaker.* Its docstring promises a single trial; in the half-open state every
  concurrent caller is admitted (`circuit_breaker.py:77`).
- *Sessions, access.* A refresh or login in flight during a password reset can
  leave a session that outlives the reset. An access token outlives its session
  except at `/me`. An empty key list is cached for five minutes. The free
  tool's routes promise answers restored, and nothing stores them.
- *Payments.* The canonical webhook inserts `str(event)` into a JSONB column,
  which fails and rolls back; the deprecated one acknowledges and swallows. Two
  checkouts of one case can both be charged. A document can be recorded after its
  case was deleted, and the idempotent branch of generation returns an id
  without a row. The list of a paid case shows more than can be downloaded: an
  attached file's row has no owner (403) and a reference that is no path (404), a
  bundle's row has no file. What was uploaded through the uploads API is handed out
  as it is stored, encrypted, under the name and type of an HTML document.
- *Evidence.* The direct upload fails when `doc_type` is NOT NULL and leaves its
  file; a value rejected in the meantime can still be applied; extraction resets
  "reviewed".
- *Leads, matters.* A lead captured under the configured key cannot be read
  after the switch to AWS, although `envelope_encryption.py:18-20` says both paths
  are handled. In disabled mode, in aws_kms mode without an ARN and in kms_stub mode
  without a key id a lead is encrypted under the configured key all the same
  (`main.py:1834-1843`), and cannot be read in that very mode.
  Deleting a case erases neither leads, files nor facts. Nothing consumes the
  e-mail queue.
- *Ingestion, corpus.* `sys.exit` in a script kills its worker thread and leaves
  the job "processing". An error of Redis, or an entry that is not JSON, raised by the
  pop ends the thread of that queue for good, and what had been popped is gone.
  Two overlapping ingestions of a page can leave chunks of both texts, because the
  DELETE of one does not see what the other inserts. Overlapping runs, or a text that was changed back, can
  leave a document without any current chunk. An exception leaves a run "running".
- *Sweden.* An inserted or repealed section leaves rows with another section's
  reference, and old chunks stay current; a re-seed withdraws a sign-off.
- *Rules, verdicts.* `seed.py` resets verification; two programs date the start of
  early conciliation differently (2014-04-06, 2014-05-06). 730 days of service
  fail the two-year period counted over 365.25. Days of conciliation before the
  termination are added to the limit too, and the month after Day B is given to
  conciliation that begins after it. `workflow_diagnosis` cannot assess
  unfair dismissal or wages.
- *Control plane.* The governance verdict is metadata; answers of the fast lane
  never pass; a model rephrases after governance; documents can be drafted from
  a result whose date is missing or whose confidence is low.
- *Graph, search, caches.* The empty chain of an outage is cached for 300 s. A
  filtered search mixes up its SQL parameters and aborts the shared
  transaction, after which searches are empty and cached for an hour. The rules
  engine falls back to three months when a rule is missing.

## 6. What is not modelled, and why

- **Text**: classification, prompts, phrase lists, parsing of XML, HTML and
  uploaded files. Their outcome is an input from a small set; the phrase lists
  are reduced to their memberships. Ciphers, hashes and signatures are reduced
  to who can open or make them.
- **Ranking inside a leg** of the retrieval (`ts_rank`, cosine distance) and
  embeddings: any order.
- **Log tables nothing reads** (retrieval and pipeline audits, injection log,
  safety checks, agent failures), `record_usage`, `poll_pending`, `record_payment`
  and `handle_stripe_webhook` of `core/payment.py`: no reader or no caller.
- **Graph update worker**: its audit table is created by no migration and no
  process calls its entry points.
- **Admin, case, audit and redaction services, HTTP shell, tracing, reports**:
  thin routes over tables modelled elsewhere (the admin service is the second
  administrator of `Proposals`), append-only logs, formatting. Rate limits and
  CORS are configuration.
- **Frontend, deployment, proof scripts**: no protocol of their own; the
  restart policy is the fairness of worker restarts.
- **Partly**: the reviewer's side of the review queue has no code beyond a
  status update; reading and deleting memory; the swarm agents' single findings
  (their effect on later steps is kept); the templates of notices.
- **Dates at which law comes into force**: retrieval never compares
  `effective_from` with the day of the question (`retrieve.py:190`, `362`), so a
  provision not yet in force needs no state of its own; the Swedish seed gives all
  texts of an act one such date (`ingest.py:99-103`, `443`). The fusion key is the
  citation with the first 80 characters of the text; two passages that agree in both are
  one passage here.
- **A certificate dated before conciliation began**: no route refuses such a pair
  of dates, and the limit is then moved to earlier; the model enters each date on its
  day.
- **Clock skew and database outages beyond a single statement** are not
  assumed where the code does nothing about them.

## 7. Plan

Done: all components of section 1 with state of their own; proofs of the safety
properties of every module that has one.

Next, in this order:

1. Composition of Brain and Outbox: a successful answer is eventually
   delivered.
2. An abstract specification of the rules table (figures as functions of the day)
   and of the citation guard, with the detailed ones shown to implement it.

## 8. Running

    tlc -config MCProposals.cfg MCProposals
    tlapm DeliveryProofs.tla

Module and configuration of every run are in `PROJECT.json`.
