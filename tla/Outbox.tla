------------------------------- MODULE Outbox -------------------------------
(***************************************************************************)
(* The transactional outbox (backend/core/outbox.py) and its delivery      *)
(* worker (backend/core/outbox_worker.py).                                 *)
(*                                                                         *)
(* Publishers insert rows into outbox_events.  Worker processes claim      *)
(* batches of pending rows in one UPDATE, run a handler for each claimed   *)
(* event and write the outcome back.  Every database call of a worker is a *)
(* transaction of its own, so a worker can be killed, or lose a write,     *)
(* between any two of them.                                                *)
(***************************************************************************)
EXTENDS Naturals, Sequences, FiniteSets

CONSTANTS
    Events,      \* the idempotency keys (event_id) publishers use
    Workers,     \* worker processes
    WorkerId,    \* WORKER_ID of each: its pid, so containers may well share one
    KindOf,      \* what kind of event each key is published with
    Flaky,       \* kinds whose registered handler may also raise
    Limit,       \* batch size of claim_batch
    MaxRetries,  \* the max_retries column
    MaxFaults,   \* bound: crashes and database errors in one behaviour
    MaxStops,    \* bound: clean shutdowns in one behaviour
    FaultKinds,  \* which faults occur: "crash", "claim", "write"
    NoEvent      \* "no event is being dispatched"

\* _VALID_TYPES and HANDLERS leave five classes of events: a type whose handler
\* acknowledges, assessment_complete with and without the trace_id its handler
\* insists on, a valid type for which HANDLERS has no entry
\* (ingestion_proposal_approved), and a type that publish refuses.
Kinds == {"ack", "assessment", "assessment_no_trace", "no_handler", "unknown_type"}

ASSUME OutboxAssumption ==
    /\ KindOf \in [Events -> Kinds]
    /\ Flaky \subseteq {"ack", "assessment"}
    /\ Limit \in Nat \ {0}
    /\ MaxRetries \in Nat \ {0}
    /\ MaxFaults \in Nat
    /\ MaxStops \in Nat
    /\ FaultKinds \subseteq {"crash", "claim", "write"}
    /\ NoEvent \notin Events

VARIABLES
    status,     \* outbox_events.status, "absent" before the row exists
    retry,      \* outbox_events.retry_count
    owner,      \* outbox_events.worker_id, NULL until claimed
    created,    \* the rows in created_at order
    alive,      \* is the worker process running?
    batch,      \* events claimed by run_once and not yet dispatched
    current,    \* the event _dispatch is working on
    result,     \* what its handler did: "ok" or "failed"
    faults,     \* crashes and database errors so far
    stops,      \* clean shutdowns so far
    attempts,   \* history: how often a handler was started for the event
    effects     \* history: how often a handler completed for the event

rowVars == <<status, retry, owner, created>>
workerVars == <<alive, batch, current, result>>
history == <<attempts, effects>>
vars == <<rowVars, workerVars, faults, stops, history>>

NULL == "null"
Statuses == {"absent", "pending", "processing", "processed", "dead_letter"}

TypeOK ==
    /\ status \in [Events -> Statuses]
    /\ retry \in [Events -> Nat]
    /\ owner \in [Events -> {WorkerId[w] : w \in Workers} \cup {NULL}]
    /\ created \in Seq(Events)
    /\ alive \in [Workers -> BOOLEAN]
    /\ batch \in [Workers -> SUBSET Events]
    /\ current \in [Workers -> Events \cup {NoEvent}]
    /\ result \in [Workers -> {"none", "ok", "failed"}]
    /\ faults \in Nat
    /\ stops \in Nat
    /\ attempts \in [Events -> Nat]
    /\ effects \in [Events -> Nat]

Init ==
    /\ status = [e \in Events |-> "absent"]
    /\ retry = [e \in Events |-> 0]
    /\ owner = [e \in Events |-> NULL]
    /\ created = <<>>
    /\ alive = [w \in Workers |-> TRUE]
    /\ batch = [w \in Workers |-> {}]
    /\ current = [w \in Workers |-> NoEvent]
    /\ result = [w \in Workers |-> "none"]
    /\ faults = 0
    /\ stops = 0
    /\ attempts = [e \in Events |-> 0]
    /\ effects = [e \in Events |-> 0]

\* One of the bounded crashes and database errors of a behaviour.
Fault(kind) ==
    /\ kind \in FaultKinds
    /\ faults < MaxFaults
    /\ faults' = faults + 1

-----------------------------------------------------------------------------
(* Publishing.                                                             *)

ValidType(e) == KindOf[e] # "unknown_type"

\* Mutant: DO UPDATE instead of DO NOTHING.
InsertRowUpsert(e) ==
    /\ status' = [status EXCEPT ![e] = "pending"]
    /\ retry' = [retry EXCEPT ![e] = 0]
    /\ created' = IF status[e] = "absent" THEN Append(created, e) ELSE created
    /\ UNCHANGED owner

\* INSERT ... ON CONFLICT (event_id) DO NOTHING: a key that already has a row,
\* whatever its status, leaves that row alone.
InsertRow(e) ==
    IF status[e] = "absent"
    THEN /\ status' = [status EXCEPT ![e] = "pending"]
         /\ retry' = [retry EXCEPT ![e] = 0]
         /\ created' = Append(created, e)
         /\ UNCHANGED owner
    ELSE UNCHANGED rowVars

\* publish on its own connection.  An unknown type and a database error both
\* return None and change nothing.
Publish(e) ==
    /\ ValidType(e)
    /\ InsertRow(e)
    /\ UNCHANGED <<workerVars, faults, stops, history>>

-----------------------------------------------------------------------------
(* Claiming.                                                               *)

\* Mutant: rows in processing are selected too.
ClaimableInProcessing ==
    {e \in Events : status[e] \in {"pending", "processing"} /\ retry[e] < MaxRetries}

\* The WHERE clause of claim_batch.
Claimable == {e \in Events : status[e] = "pending" /\ retry[e] < MaxRetries}

CreatedBefore(d, e) ==
    \E i, j \in 1..Len(created) : i < j /\ created[i] = d /\ created[j] = e

\* ORDER BY created_at LIMIT: S is the oldest part of the rows in R, as large
\* as the limit allows.
OldestOf(S, R) ==
    /\ S \subseteq R
    /\ Cardinality(S) <= Limit
    /\ S = R \/ Cardinality(S) = Limit
    /\ \A d \in S, e \in R \ S : CreatedBefore(d, e)

MarkClaimed(w, S) ==
    /\ status' = [e \in Events |-> IF e \in S THEN "processing" ELSE status[e]]
    /\ owner' = [e \in Events |-> IF e \in S THEN WorkerId[w] ELSE owner[e]]
    /\ UNCHANGED <<retry, created>>

Idle(w) == alive[w] /\ batch[w] = {} /\ current[w] = NoEvent

\* run_once: claim_batch in one statement; the rows come back in no particular
\* order, so the batch is a set.
ClaimBatch(w, S) ==
    /\ Idle(w)
    /\ S # {}
    /\ OldestOf(S, Claimable)
    /\ MarkClaimed(w, S)
    /\ batch' = [batch EXCEPT ![w] = S]
    /\ UNCHANGED <<alive, current, result, faults, stops, history>>

\* FOR UPDATE SKIP LOCKED: rows that another worker's claim has locked are
\* passed over; that other claim then fails and rolls back.
ClaimPastLocked(w, v, L, S) ==
    /\ Fault("claim")
    /\ v # w /\ Idle(v) /\ Idle(w)
    /\ L # {} /\ OldestOf(L, Claimable)
    /\ S # {} /\ OldestOf(S, Claimable \ L)
    /\ MarkClaimed(w, S)
    /\ batch' = [batch EXCEPT ![w] = S]
    /\ UNCHANGED <<alive, current, result, stops, history>>

\* The claim commits but its reply is lost: claim_batch catches the error and
\* run_once sees an empty batch.
ClaimReplyLost(w, S) ==
    /\ Fault("claim")
    /\ Idle(w)
    /\ S # {}
    /\ OldestOf(S, Claimable)
    /\ MarkClaimed(w, S)
    /\ UNCHANGED <<workerVars, stops, history>>

-----------------------------------------------------------------------------
(* Dispatching.                                                            *)

HasHandler(e) == KindOf[e] \in {"ack", "assessment", "assessment_no_trace"}

\* Mutant: an event without a handler is acknowledged.
HandlerOutcomesLenient(e) ==
    IF KindOf[e] \in Flaky \cup {"assessment_no_trace"} THEN {"ok", "failed"} ELSE {"ok"}

\* _handle_ack returns; _handle_assessment_complete raises when the payload has
\* no trace_id; a handler with a downstream effect (Flaky) may also raise.
HandlerOutcomes(e) ==
    CASE KindOf[e] \in Flaky -> {"ok", "failed"}
      [] KindOf[e] \in {"ack", "assessment"} \ Flaky -> {"ok"}
      [] OTHER -> {"failed"}

\* The first half of _dispatch, up to the status write.
Dispatch(w, e) ==
    /\ current[w] = NoEvent
    /\ e \in batch[w]
    /\ batch' = [batch EXCEPT ![w] = @ \ {e}]
    /\ current' = [current EXCEPT ![w] = e]
    /\ \E r \in HandlerOutcomes(e) :
          /\ result' = [result EXCEPT ![w] = r]
          /\ effects' = [effects EXCEPT ![e] = IF r = "ok" THEN @ + 1 ELSE @]
    /\ attempts' = [attempts EXCEPT ![e] = IF HasHandler(e) THEN @ + 1 ELSE @]
    /\ UNCHANGED <<rowVars, alive, faults, stops>>

EndDispatch(w) ==
    /\ current' = [current EXCEPT ![w] = NoEvent]
    /\ result' = [result EXCEPT ![w] = "none"]
    /\ UNCHANGED <<alive, batch, stops, history>>

\* mark_processed: an UPDATE by event_id, whatever the row's status is now.
MarkProcessed(w) ==
    /\ result[w] = "ok"
    /\ status' = [status EXCEPT ![current[w]] = "processed"]
    /\ EndDispatch(w)
    /\ UNCHANGED <<retry, owner, created, faults>>

\* Mutant: one retry too many.
AfterFailureOffByOne(e) == IF retry[e] + 1 > MaxRetries THEN "dead_letter" ELSE "pending"

\* The CASE of mark_failed's UPDATE.
AfterFailure(e) == IF retry[e] + 1 >= MaxRetries THEN "dead_letter" ELSE "pending"

\* mark_failed: count the attempt, back to pending or on to dead_letter.
MarkFailed(w) ==
    /\ result[w] = "failed"
    /\ LET e == current[w]
       IN  /\ retry' = [retry EXCEPT ![e] = @ + 1]
           /\ status' = [status EXCEPT ![e] = AfterFailure(e)]
    /\ EndDispatch(w)
    /\ UNCHANGED <<owner, created, faults>>

\* Mutant: an event whose outcome could not be written is delivered again.
StatusWriteRetried(w) ==
    /\ Fault("write")
    /\ current[w] # NoEvent
    /\ status' = [status EXCEPT ![current[w]] = "pending"]
    /\ EndDispatch(w)
    /\ UNCHANGED <<retry, owner, created>>

\* A database error in mark_processed or mark_failed is logged and swallowed.
StatusWriteLost(w) ==
    /\ Fault("write")
    /\ current[w] # NoEvent
    /\ EndDispatch(w)
    /\ UNCHANGED rowVars

-----------------------------------------------------------------------------
(* Process lifetime.                                                       *)

Forget(w) ==
    /\ alive' = [alive EXCEPT ![w] = FALSE]
    /\ batch' = [batch EXCEPT ![w] = {}]
    /\ current' = [current EXCEPT ![w] = NoEvent]
    /\ result' = [result EXCEPT ![w] = "none"]

Crash(w) ==
    /\ Fault("crash")
    /\ alive[w]
    /\ Forget(w)
    /\ UNCHANGED <<rowVars, stops, history>>

\* Mutant: SIGTERM ends the loop in the middle of a batch.
StopAtOnce(w) ==
    /\ stops < MaxStops
    /\ alive[w]
    /\ Forget(w)
    /\ stops' = stops + 1
    /\ UNCHANGED <<rowVars, faults, history>>

\* SIGTERM: the flag is read between batches, so a claimed batch is finished.
Stop(w) ==
    /\ stops < MaxStops
    /\ Idle(w)
    /\ Forget(w)
    /\ stops' = stops + 1
    /\ UNCHANGED <<rowVars, faults, history>>

Start(w) ==
    /\ ~ alive[w]
    /\ alive' = [alive EXCEPT ![w] = TRUE]
    /\ UNCHANGED <<rowVars, batch, current, result, faults, stops, history>>

-----------------------------------------------------------------------------
Claim(w) == \E S \in SUBSET Claimable : ClaimBatch(w, S)

SkipLocked(w) ==
    \E v \in Workers, L, S \in SUBSET Claimable : ClaimPastLocked(w, v, L, S)

LoseClaim(w) == \E S \in SUBSET Claimable : ClaimReplyLost(w, S)

DispatchNext(w) == \E e \in Events : Dispatch(w, e)

WorkerStep(w) == Claim(w) \/ DispatchNext(w) \/ MarkProcessed(w) \/ MarkFailed(w)

Next ==
    \/ \E e \in Events : Publish(e)
    \/ \E w \in Workers :
          \/ WorkerStep(w)
          \/ SkipLocked(w) \/ LoseClaim(w) \/ StatusWriteLost(w)
          \/ Crash(w) \/ Stop(w) \/ Start(w)

Spec == Init /\ [][Next]_vars

\* The worker's loop keeps running and its container is restarted
\* (restart: unless-stopped); publishers, crashes and faults are not fair.
Fairness ==
    \A w \in Workers : WF_vars(WorkerStep(w)) /\ WF_vars(Start(w))

FairSpec == Spec /\ Fairness

-----------------------------------------------------------------------------
(* Properties.                                                             *)

Held(w) == batch[w] \cup ({current[w]} \ {NoEvent})

\* Rows that say "processing" while no worker has them: no statement of the
\* code selects them again.
Stranded ==
    {e \in Events : status[e] = "processing" /\ \A w \in Workers : e \notin Held(w)}

\* What a worker has in its hands belongs to it alone: the row says processing
\* under its worker_id and no second worker is dispatching the same event, even
\* though mark_processed and mark_failed update the row without looking at its
\* status or worker_id (claim_batch, outbox.py:119).
ClaimExclusive ==
    \A w \in Workers : \A e \in Held(w) :
        /\ status[e] = "processing" /\ owner[e] = WorkerId[w]
        /\ \A v \in Workers \ {w} : e \notin Held(v)

\* The retry budget and the status agree: a row that can still be delivered has
\* budget left, and exactly the dead letters have used it up (mark_failed,
\* outbox.py:90).
RetryBudget ==
    \A e \in Events :
        /\ status[e] # "dead_letter" => retry[e] < MaxRetries
        /\ status[e] = "dead_letter" => retry[e] = MaxRetries

\* Whatever crashes and lost writes happen, a handler completes at most once for
\* an event, is started at most MaxRetries times, and a row becomes processed
\* only after its handler completed (_dispatch, outbox_worker.py:81).
EffectAtMostOnce ==
    \A e \in Events :
        /\ effects[e] <= 1
        /\ attempts[e] <= MaxRetries
        /\ status[e] = "processed" => effects[e] = 1
        /\ status[e] \in {"pending", "dead_letter"} => effects[e] = 0

\* Clean shutdowns, retries and competing workers never strand a row: only a
\* crash or a database error does (process_forever, outbox_worker.py:111).
StrandedOnlyByFaults == faults = 0 => Stranded = {}

\* The table behaves as the documented lifecycle: no settled row is ever
\* reopened, by a late status write or by publishing its key again.
Lifecycle == INSTANCE OutboxLifecycle WITH state <- status, failures <- retry
ImplementsLifecycle == Lifecycle!Spec

Settled(e) == status[e] \in {"processed", "dead_letter"}

\* Whatever faults, shutdowns and other workers do, every published event is
\* eventually settled or stranded, none stays pending for ever behind other rows;
\* without faults, nothing being stranded then, every one is settled.
NeverStarved ==
    \A e \in Events : status[e] = "pending" ~> (Settled(e) \/ e \in Stranded)

\* "the same event may be delivered more than once after a crash between
\* side-effect and status update" (outbox_worker.py:34): a worker crash delays a
\* claimed event but its delivery is repeated until the row is settled.
CrashIsRedelivered == \A e \in Events : status[e] = "processing" ~> Settled(e)
=============================================================================
