--------------------------- MODULE DeliveryProofs ---------------------------
(***************************************************************************)
(* Safety of the outbox and of the approvals that publish into it, for any *)
(* number of keys, workers and proposals, any batch size, any retry budget *)
(* and any number of crashes and lost writes.                              *)
(***************************************************************************)
EXTENDS Proposals, TLAPS

(***************************************************************************)
(* The outbox.  The properties checked by TLC speak of what workers hold   *)
(* and of finished rows; their preservation also needs how the three parts *)
(* of a worker's state fit together (WorkerShape) and what the history     *)
(* counters are for every row a handler can still be started for           *)
(* (EffectShape, AttemptShape).                                            *)
(***************************************************************************)

(***************************************************************************)
(* The inductive invariant.  The properties checked by TLC speak of what   *)
(* workers hold and of finished rows; their preservation also needs how    *)
(* the three parts of a worker's state fit together (WorkerShape) and what *)
(* the history counters are for every row a handler can still be started   *)
(* for (EffectShape, AttemptShape).                                        *)
(***************************************************************************)
WorkerShape ==
    \A w \in Workers :
        /\ current[w] \notin batch[w]
        /\ result[w] = "none" <=> current[w] = NoEvent

RowShape ==
    \A e \in Events :
        /\ status[e] = "absent" => retry[e] = 0
        /\ status[e] # "dead_letter" => retry[e] < MaxRetries
        /\ status[e] = "dead_letter" => retry[e] = MaxRetries

EffectShape ==
    /\ \A e \in Events :
          /\ effects[e] <= 1
          /\ status[e] \in {"absent", "pending", "dead_letter"} => effects[e] = 0
          /\ status[e] = "processed" => effects[e] = 1
    /\ \A w \in Workers :
          /\ \A e \in batch[w] : effects[e] = 0
          /\ result[w] = "failed" => effects[current[w]] = 0
          /\ result[w] = "ok" => effects[current[w]] = 1

AttemptShape ==
    /\ \A e \in Events :
          /\ status[e] \in {"absent", "pending", "dead_letter"} => attempts[e] <= retry[e]
          /\ attempts[e] <= retry[e] + 1
    /\ \A w \in Workers : \A e \in batch[w] : attempts[e] <= retry[e]

NoStray == faults = 0 => Stranded = {}

IInv ==
    /\ TypeOK
    /\ ClaimExclusive
    /\ WorkerShape
    /\ RowShape
    /\ EffectShape
    /\ AttemptShape
    /\ NoStray

-----------------------------------------------------------------------------
(* Preservation by each action.                                            *)

\* publish: a new row starts with nothing spent, an existing row is left alone.
LEMMA PublishInv ==
    ASSUME IInv, NEW e \in Events, Publish(e)
    PROVE  IInv'
<1> USE OutboxAssumption DEF IInv, TypeOK, Publish, InsertRow, rowVars, workerVars, history
<1>a. retry' = retry
  BY DEF RowShape
<1>b. \A x \in Events : status'[x] = "processing" <=> status[x] = "processing"
  OBVIOUS
<1>c. created' \in Seq(Events)
  <2>1. Append(created, e) \in Seq(Events)
    OBVIOUS
  <2> QED
    BY <2>1
<1>d. /\ status' \in [Events -> Statuses] /\ owner' = owner
  BY DEF Statuses
<1>1. TypeOK'
  BY <1>a, <1>c, <1>d
<1>2. ClaimExclusive'
  BY DEF ClaimExclusive, Held
<1>3. WorkerShape'
  BY DEF WorkerShape
<1>4. RowShape'
  BY DEF RowShape
<1>5. EffectShape'
  BY DEF EffectShape
<1>6. AttemptShape'
  BY <1>a, <1>b DEF AttemptShape
<1>7. NoStray'
  BY <1>b DEF NoStray, Stranded, Held
<1> QED
  BY <1>1, <1>2, <1>3, <1>4, <1>5, <1>6, <1>7

\* claim_batch: only pending rows, which nobody holds, are handed out.
LEMMA ClaimBatchInv ==
    ASSUME IInv, NEW w \in Workers, NEW S \in SUBSET Claimable, ClaimBatch(w, S)
    PROVE  IInv'
<1> USE OutboxAssumption DEF IInv, TypeOK, ClaimBatch, MarkClaimed, Claimable, Idle, history
<1>1. TypeOK'
  BY DEF Statuses
<1>2. ClaimExclusive'
  BY DEF ClaimExclusive, Held
<1>3. WorkerShape'
  BY DEF WorkerShape
<1>4. RowShape'
  BY DEF RowShape
<1>5. EffectShape'
  BY DEF EffectShape
<1>6. AttemptShape'
  BY DEF AttemptShape
<1>7. NoStray'
  BY DEF NoStray, Stranded, Held
<1> QED
  BY <1>1, <1>2, <1>3, <1>4, <1>5, <1>6, <1>7

\* claim_batch past rows that another, failing claim has locked.
LEMMA ClaimPastLockedInv ==
    ASSUME IInv, NEW w \in Workers, NEW v \in Workers, NEW L \in SUBSET Claimable,
           NEW S \in SUBSET Claimable, ClaimPastLocked(w, v, L, S)
    PROVE  IInv'
<1> USE OutboxAssumption DEF IInv, TypeOK, ClaimPastLocked, MarkClaimed, Claimable, Idle, Fault, history
<1>1. TypeOK'
  BY DEF Statuses
<1>2. ClaimExclusive'
  BY DEF ClaimExclusive, Held
<1>3. WorkerShape'
  BY DEF WorkerShape
<1>4. RowShape'
  BY DEF RowShape
<1>5. EffectShape'
  BY DEF EffectShape
<1>6. AttemptShape'
  BY DEF AttemptShape
<1>7. NoStray'
  BY DEF NoStray, Stranded, Held
<1> QED
  BY <1>1, <1>2, <1>3, <1>4, <1>5, <1>6, <1>7

\* A committed claim whose reply is lost strands its rows, and counts as a fault.
LEMMA ClaimReplyLostInv ==
    ASSUME IInv, NEW w \in Workers, NEW S \in SUBSET Claimable, ClaimReplyLost(w, S)
    PROVE  IInv'
<1> USE OutboxAssumption DEF IInv, TypeOK, ClaimReplyLost, MarkClaimed, Claimable, Idle, Fault, workerVars, history
<1>1. TypeOK'
  BY DEF Statuses
<1>2. ClaimExclusive'
  BY DEF ClaimExclusive, Held
<1>3. WorkerShape'
  BY DEF WorkerShape
<1>4. RowShape'
  BY DEF RowShape
<1>5. EffectShape'
  BY DEF EffectShape
<1>6. AttemptShape'
  BY DEF AttemptShape
<1>7. NoStray'
  BY DEF NoStray, Stranded, Held
<1> QED
  BY <1>1, <1>2, <1>3, <1>4, <1>5, <1>6, <1>7

\* Every handler either completes or raises.
LEMMA OutcomesAreTwo ==
    \A e \in Events : HandlerOutcomes(e) \subseteq {"ok", "failed"}
<1> TAKE e \in Events
<1>1. CASE KindOf[e] \in Flaky
  BY <1>1, OutboxAssumption DEF HandlerOutcomes
<1>2. CASE KindOf[e] \in {"ack", "assessment"} \ Flaky
  BY <1>2 DEF HandlerOutcomes
<1>3. CASE KindOf[e] \notin Flaky /\ KindOf[e] \notin {"ack", "assessment"}
  BY <1>3 DEF HandlerOutcomes
<1> QED
  BY <1>1, <1>2, <1>3

\* _dispatch: the event moves from the batch to the handler of its only holder.
LEMMA DispatchInv ==
    ASSUME IInv, NEW w \in Workers, NEW e \in Events, Dispatch(w, e)
    PROVE  IInv'
<1> USE OutboxAssumption DEF IInv, TypeOK, Dispatch, rowVars
<1>a. PICK r \in {"ok", "failed"} :
         /\ result' = [result EXCEPT ![w] = r]
         /\ effects' = [effects EXCEPT ![e] = IF r = "ok" THEN @ + 1 ELSE @]
  BY OutcomesAreTwo
<1>b. /\ status[e] = "processing" /\ effects[e] = 0 /\ attempts[e] <= retry[e]
      /\ \A v \in Workers \ {w} : e \notin batch[v] /\ current[v] # e
  BY DEF ClaimExclusive, Held, EffectShape, AttemptShape
<1>c. attempts'[e] \in Nat /\ attempts'[e] <= retry[e] + 1
  BY <1>b
<1>d. \A v \in Workers : Held(v)' = Held(v)
  BY DEF Held
<1>1. TypeOK'
  BY <1>a, <1>c
<1>2. ClaimExclusive'
  BY <1>d DEF ClaimExclusive
<1>3. WorkerShape'
  BY <1>a DEF WorkerShape
<1>4. RowShape'
  BY DEF RowShape
<1>5. EffectShape'
  BY <1>a, <1>b DEF EffectShape
<1>6. AttemptShape'
  BY <1>b, <1>c DEF AttemptShape
<1>7. NoStray'
  BY <1>d DEF NoStray, Stranded
<1> QED
  BY <1>1, <1>2, <1>3, <1>4, <1>5, <1>6, <1>7

\* mark_processed: the unconditional UPDATE hits a row this worker holds.
LEMMA MarkProcessedInv ==
    ASSUME IInv, NEW w \in Workers, MarkProcessed(w)
    PROVE  IInv'
<1> USE OutboxAssumption DEF IInv, TypeOK, MarkProcessed, EndDispatch, history
<1>a. current[w] \in Events
  BY DEF WorkerShape
<1>b. /\ status[current[w]] = "processing"
      /\ \A v \in Workers \ {w} : current[w] \notin batch[v] /\ current[v] # current[w]
      /\ current[w] \notin batch[w]
  BY <1>a DEF ClaimExclusive, WorkerShape, Held
<1>1. TypeOK'
  BY <1>a DEF Statuses
<1>2. ClaimExclusive'
  BY <1>a, <1>b DEF ClaimExclusive, Held
<1>3. WorkerShape'
  BY <1>a, <1>b DEF WorkerShape
<1>4. RowShape'
  BY <1>a, <1>b DEF RowShape
<1>5. EffectShape'
  BY <1>a, <1>b DEF EffectShape
<1>6. AttemptShape'
  BY <1>a, <1>b DEF AttemptShape
<1>7. NoStray'
  BY <1>a, <1>b DEF NoStray, Stranded, Held
<1> QED
  BY <1>1, <1>2, <1>3, <1>4, <1>5, <1>6, <1>7

\* mark_failed: likewise, and the attempt it counts is the one just made.
LEMMA MarkFailedInv ==
    ASSUME IInv, NEW w \in Workers, MarkFailed(w)
    PROVE  IInv'
<1> USE OutboxAssumption DEF IInv, TypeOK, MarkFailed, AfterFailure, EndDispatch, history
<1>a. current[w] \in Events
  BY DEF WorkerShape
<1>b. /\ status[current[w]] = "processing"
      /\ \A v \in Workers \ {w} : current[w] \notin batch[v] /\ current[v] # current[w]
      /\ current[w] \notin batch[w]
  BY <1>a DEF ClaimExclusive, WorkerShape, Held
<1>1. TypeOK'
  BY <1>a DEF Statuses
<1>2. ClaimExclusive'
  BY <1>a, <1>b DEF ClaimExclusive, Held
<1>3. WorkerShape'
  BY <1>a, <1>b DEF WorkerShape
<1>4. RowShape'
  BY <1>a, <1>b DEF RowShape
<1>5. EffectShape'
  BY <1>a, <1>b DEF EffectShape
<1>6. AttemptShape'
  BY <1>a, <1>b DEF AttemptShape
<1>7. NoStray'
  BY <1>a, <1>b DEF NoStray, Stranded, Held
<1> QED
  BY <1>1, <1>2, <1>3, <1>4, <1>5, <1>6, <1>7

\* A swallowed status write leaves the row in processing.
LEMMA StatusWriteLostInv ==
    ASSUME IInv, NEW w \in Workers, StatusWriteLost(w)
    PROVE  IInv'
<1> USE OutboxAssumption DEF IInv, TypeOK, StatusWriteLost, EndDispatch, Fault, rowVars, history
<1>1. TypeOK'
  BY DEF Statuses
<1>2. ClaimExclusive'
  BY DEF ClaimExclusive, Held
<1>3. WorkerShape'
  BY DEF WorkerShape
<1>4. RowShape'
  BY DEF RowShape
<1>5. EffectShape'
  BY DEF EffectShape
<1>6. AttemptShape'
  BY DEF AttemptShape
<1>7. NoStray'
  BY DEF NoStray, Stranded, Held
<1> QED
  BY <1>1, <1>2, <1>3, <1>4, <1>5, <1>6, <1>7

\* A crash forgets the batch and leaves the rows in processing.
LEMMA CrashInv ==
    ASSUME IInv, NEW w \in Workers, Crash(w)
    PROVE  IInv'
<1> USE OutboxAssumption DEF IInv, TypeOK, Crash, Forget, Fault, rowVars, history
<1>1. TypeOK'
  BY DEF Statuses
<1>2. ClaimExclusive'
  BY DEF ClaimExclusive, Held
<1>3. WorkerShape'
  BY DEF WorkerShape
<1>4. RowShape'
  BY DEF RowShape
<1>5. EffectShape'
  BY DEF EffectShape
<1>6. AttemptShape'
  BY DEF AttemptShape
<1>7. NoStray'
  BY DEF NoStray, Stranded, Held
<1> QED
  BY <1>1, <1>2, <1>3, <1>4, <1>5, <1>6, <1>7

\* A clean shutdown happens between batches, so nothing is forgotten.
LEMMA StopInv ==
    ASSUME IInv, NEW w \in Workers, Stop(w)
    PROVE  IInv'
<1> USE OutboxAssumption DEF IInv, TypeOK, Stop, Forget, Idle, rowVars, history
<1>1. TypeOK'
  BY DEF Statuses
<1>2. ClaimExclusive'
  BY DEF ClaimExclusive, Held
<1>3. WorkerShape'
  BY DEF WorkerShape
<1>4. RowShape'
  BY DEF RowShape
<1>5. EffectShape'
  BY DEF EffectShape
<1>6. AttemptShape'
  BY DEF AttemptShape
<1>7. NoStray'
  BY DEF NoStray, Stranded, Held
<1> QED
  BY <1>1, <1>2, <1>3, <1>4, <1>5, <1>6, <1>7

\* A restarted worker holds nothing.
LEMMA StartInv ==
    ASSUME IInv, NEW w \in Workers, Start(w)
    PROVE  IInv'
<1> USE OutboxAssumption DEF IInv, TypeOK, Start, rowVars, history
<1>1. TypeOK'
  BY DEF Statuses
<1>2. ClaimExclusive'
  BY DEF ClaimExclusive, Held
<1>3. WorkerShape'
  BY DEF WorkerShape
<1>4. RowShape'
  BY DEF RowShape
<1>5. EffectShape'
  BY DEF EffectShape
<1>6. AttemptShape'
  BY DEF AttemptShape
<1>7. NoStray'
  BY DEF NoStray, Stranded, Held
<1> QED
  BY <1>1, <1>2, <1>3, <1>4, <1>5, <1>6, <1>7

-----------------------------------------------------------------------------
(* The invariant holds in every reachable state.                           *)

\* The empty table and idle workers satisfy the invariant.
LEMMA InitInv == Init => IInv
<1> SUFFICES ASSUME Init PROVE IInv
  OBVIOUS
<1> USE OutboxAssumption DEF Init
<1>1. TypeOK
  BY DEF TypeOK, Statuses
<1>2. ClaimExclusive /\ WorkerShape /\ NoStray
  BY DEF ClaimExclusive, WorkerShape, NoStray, Stranded, Held
<1>3. RowShape /\ EffectShape /\ AttemptShape
  BY DEF RowShape, EffectShape, AttemptShape
<1> QED
  BY <1>1, <1>2, <1>3 DEF IInv

\* Every step of every worker and publisher preserves the invariant.
LEMMA NextInv == IInv /\ [Next]_vars => IInv'
<1> SUFFICES ASSUME IInv, [Next]_vars PROVE IInv'
  OBVIOUS
<1>1. CASE \E e \in Events : Publish(e)
  BY <1>1, PublishInv
<1>2. ASSUME NEW w \in Workers, Claim(w) PROVE IInv'
  BY <1>2, ClaimBatchInv DEF Claim
<1>3. ASSUME NEW w \in Workers, SkipLocked(w) PROVE IInv'
  BY <1>3, ClaimPastLockedInv DEF SkipLocked
<1>4. ASSUME NEW w \in Workers, LoseClaim(w) PROVE IInv'
  BY <1>4, ClaimReplyLostInv DEF LoseClaim
<1>5. ASSUME NEW w \in Workers, DispatchNext(w) PROVE IInv'
  BY <1>5, DispatchInv DEF DispatchNext
<1>6. ASSUME NEW w \in Workers, MarkProcessed(w) PROVE IInv'
  BY <1>6, MarkProcessedInv
<1>7. ASSUME NEW w \in Workers, MarkFailed(w) PROVE IInv'
  BY <1>7, MarkFailedInv
<1>8. ASSUME NEW w \in Workers, StatusWriteLost(w) PROVE IInv'
  BY <1>8, StatusWriteLostInv
<1>9. ASSUME NEW w \in Workers, Crash(w) \/ Stop(w) \/ Start(w) PROVE IInv'
  BY <1>9, CrashInv, StopInv, StartInv
<1>10. CASE UNCHANGED vars
  BY <1>10 DEF IInv, TypeOK, ClaimExclusive, WorkerShape, RowShape, EffectShape,
       AttemptShape, NoStray, Stranded, Held, vars, rowVars, workerVars, history
<1> QED
  BY <1>1, <1>2, <1>3, <1>4, <1>5, <1>6, <1>7, <1>8, <1>9, <1>10 DEF Next, WorkerStep

\* The inductive invariant holds in every reachable state of the outbox.
THEOREM Invariance == Spec => []IInv
<1> QED
  BY InitInv, NextInv, PTL DEF Spec

\* Every variable keeps its type, for any keys, workers, batch size and budget.
THEOREM TypeCorrect == Spec => []TypeOK
<1>1. IInv => TypeOK
  BY DEF IInv
<1> QED
  BY <1>1, Invariance, PTL

\* claim_batch hands an event to one worker at a time, and nothing another
\* worker does (crash, lost write, late status update) takes it away.
THEOREM Exclusion == Spec => []ClaimExclusive
<1>1. IInv => ClaimExclusive
  BY DEF IInv
<1> QED
  BY <1>1, Invariance, PTL

\* mark_failed's CASE and the retry_count < max_retries filter of claim_batch
\* agree: a deliverable row always has budget left, a dead letter has none.
THEOREM Budget == Spec => []RetryBudget
<1>1. IInv => RetryBudget
  BY DEF IInv, RowShape, RetryBudget
<1> QED
  BY <1>1, Invariance, PTL

\* A handler completes at most once per event and is started at most MaxRetries
\* times, however many crashes and lost status writes there are.
THEOREM AtMostOnce == Spec => []EffectAtMostOnce
<1>1. IInv => EffectAtMostOnce
  <2> SUFFICES ASSUME IInv, NEW e \in Events
               PROVE  /\ effects[e] <= 1
                      /\ attempts[e] <= MaxRetries
                      /\ status[e] = "processed" => effects[e] = 1
                      /\ status[e] \in {"pending", "dead_letter"} => effects[e] = 0
    BY DEF EffectAtMostOnce
  <2>0. attempts[e] \in Nat /\ retry[e] \in Nat /\ MaxRetries \in Nat
    BY OutboxAssumption DEF IInv, TypeOK
  <2>1. attempts[e] <= MaxRetries
    <3>1. CASE status[e] = "dead_letter"
      BY <2>0, <3>1 DEF IInv, RowShape, AttemptShape
    <3>2. CASE status[e] # "dead_letter"
      BY <2>0, <3>2 DEF IInv, RowShape, AttemptShape
    <3> QED
      BY <3>1, <3>2
  <2> QED
    BY <2>1 DEF IInv, EffectShape
<1> QED
  BY <1>1, Invariance, PTL

\* Without crashes and database errors no row is left in processing with no
\* worker on it, however workers compete and are stopped and started.
THEOREM NoStrandingWithoutFaults == Spec => []StrandedOnlyByFaults
<1>1. IInv => StrandedOnlyByFaults
  BY DEF IInv, NoStray, StrandedOnlyByFaults
<1> QED
  BY <1>1, Invariance, PTL

-----------------------------------------------------------------------------
(* The table implements the abstract lifecycle.                            *)

\* The empty table is the initial state of the lifecycle.
LEMMA LifecycleInit == Init => Lifecycle!Init
  BY DEF Init, Lifecycle!Init

\* Every step of the outbox is a lifecycle step or leaves the table alone.
LEMMA LifecycleStep == IInv /\ [Next]_vars => [Lifecycle!Next]_(Lifecycle!lifecycle)
<1> SUFFICES ASSUME IInv, [Next]_vars
             PROVE  Lifecycle!Next \/ UNCHANGED <<status, retry>>
  BY DEF Lifecycle!lifecycle
<1> USE OutboxAssumption
<1>1. ASSUME NEW e \in Events, Publish(e)
      PROVE  Lifecycle!Next \/ UNCHANGED <<status, retry>>
  <2>1. CASE status[e] = "absent"
    <3>1. retry' = retry
      BY <1>1, <2>1 DEF Publish, InsertRow, IInv, TypeOK, RowShape
    <3>2. Lifecycle!Accept(e)
      BY <1>1, <2>1, <3>1 DEF Publish, InsertRow, Lifecycle!Accept
    <3> QED
      BY <3>2 DEF Lifecycle!Next
  <2>2. CASE status[e] # "absent"
    BY <1>1, <2>2 DEF Publish, InsertRow, rowVars
  <2> QED
    BY <2>1, <2>2
<1>2. ASSUME NEW w \in Workers, NEW S \in SUBSET Claimable, MarkClaimed(w, S)
      PROVE  Lifecycle!Next
  <2>1. S \in SUBSET Events /\ Lifecycle!HandOut(S)
    BY <1>2 DEF MarkClaimed, Claimable, Lifecycle!HandOut
  <2> QED
    BY <2>1 DEF Lifecycle!Next
<1>3. ASSUME NEW w \in Workers, Claim(w) \/ SkipLocked(w) \/ LoseClaim(w)
      PROVE  Lifecycle!Next
  BY <1>2, <1>3 DEF Claim, SkipLocked, LoseClaim, ClaimBatch, ClaimPastLocked, ClaimReplyLost
<1>4. ASSUME NEW w \in Workers, MarkProcessed(w)
      PROVE  Lifecycle!Next
  <2>1. current[w] \in Events /\ status[current[w]] = "processing"
    BY <1>4 DEF MarkProcessed, IInv, TypeOK, WorkerShape, ClaimExclusive, Held
  <2>2. Lifecycle!Complete(current[w])
    BY <1>4, <2>1 DEF MarkProcessed, Lifecycle!Complete
  <2> QED
    BY <2>1, <2>2 DEF Lifecycle!Next
<1>5. ASSUME NEW w \in Workers, MarkFailed(w)
      PROVE  Lifecycle!Next
  <2>1. current[w] \in Events /\ status[current[w]] = "processing"
    BY <1>5 DEF MarkFailed, IInv, TypeOK, WorkerShape, ClaimExclusive, Held
  <2>2. retry[current[w]] \in Nat /\ retry[current[w]] < MaxRetries
    BY <2>1 DEF IInv, TypeOK, RowShape
  <2>3. CASE retry[current[w]] + 1 < MaxRetries
    <3>1. /\ status' = [status EXCEPT ![current[w]] = "pending"]
          /\ retry' = [retry EXCEPT ![current[w]] = @ + 1]
      <4>1. ~ (retry[current[w]] + 1 >= MaxRetries)
        BY <2>2, <2>3
      <4> QED
        BY <1>5, <4>1 DEF MarkFailed, AfterFailure
    <3>2. Lifecycle!GiveBack(current[w])
      BY <2>1, <2>3, <3>1 DEF Lifecycle!GiveBack
    <3> QED
      BY <2>1, <3>2 DEF Lifecycle!Next
  <2>4. CASE retry[current[w]] + 1 >= MaxRetries
    <3>1. /\ status' = [status EXCEPT ![current[w]] = "dead_letter"]
          /\ retry' = [retry EXCEPT ![current[w]] = @ + 1]
      BY <1>5, <2>4 DEF MarkFailed, AfterFailure
    <3>2. retry[current[w]] + 1 = MaxRetries
      BY <2>2, <2>4
    <3>3. Lifecycle!GiveUp(current[w])
      BY <2>1, <3>1, <3>2 DEF Lifecycle!GiveUp
    <3> QED
      BY <2>1, <3>3 DEF Lifecycle!Next
  <2> QED
    BY <2>2, <2>3, <2>4
<1>6. ASSUME NEW w \in Workers,
             DispatchNext(w) \/ StatusWriteLost(w) \/ Crash(w) \/ Stop(w) \/ Start(w)
      PROVE  UNCHANGED <<status, retry>>
  BY <1>6 DEF DispatchNext, Dispatch, StatusWriteLost, Crash, Stop, Start, rowVars
<1>7. CASE UNCHANGED vars
  BY <1>7 DEF vars, rowVars
<1> QED
  BY <1>1, <1>3, <1>4, <1>5, <1>6, <1>7 DEF Next, WorkerStep

\* The outbox table implements the lifecycle its worker documents: a settled row
\* is never reopened, whatever is published, claimed, crashed or lost.
THEOREM Refinement == Spec => ImplementsLifecycle
<1> QED
  BY LifecycleInit, LifecycleStep, Invariance, PTL
  DEF Spec, ImplementsLifecycle, Lifecycle!Spec

-----------------------------------------------------------------------------

(***************************************************************************)
(* Approving proposals is all or nothing, for any number of proposals,     *)
(* workers and failures.  The argument has two parts: every step of the    *)
(* composition is a step of the outbox, so what is proved of the outbox    *)
(* holds here; and no step of the outbox other than an approval's own      *)
(* publish creates or removes the row of a proposal.                       *)
(***************************************************************************)

\* Seen from the outbox, a step of the composition is one of its own steps: the
\* commit of an approval is a publish.
LEMMA StepIsOutboxStep == [ProposalsNext]_allVars => [Next]_vars
<1>1. ASSUME OutboxStep PROVE Next
  BY <1>1 DEF OutboxStep, Next
<1>2. ASSUME NEW p \in ProposalIds, ProposalStep(p) PROVE Next \/ UNCHANGED vars
  BY <1>2, ProposalsAssumption
  DEF ProposalStep, Propose, Approve, ApproveReplyLost, ApprovePublishFails, Commit, Next
<1>3. UNCHANGED allVars => UNCHANGED vars
  BY DEF allVars
<1> QED
  BY <1>1, <1>2, <1>3 DEF ProposalsNext

\* Composing approvals with the outbox keeps the outbox's specification, and with
\* it every theorem above.
THEOREM CompositionKeepsOutbox == ProposalsSpec => Spec
<1>1. ProposalsInit => Init
  BY DEF ProposalsInit
<1> QED
  BY <1>1, StepIsOutboxStep, PTL DEF ProposalsSpec, Spec

\* The lifecycle of rows survives the transactions of approvals.
THEOREM LifecycleSurvives == ProposalsSpec => ComposedLifecycle
  BY CompositionKeepsOutbox, Refinement DEF ComposedLifecycle

\* Workers and other publishers neither create nor remove the row of a proposal:
\* claims and status writes touch rows that exist and leave them existing.
LEMMA RowsKept ==
    ASSUME IInv, OutboxStep, NEW p \in ProposalIds
    PROVE  status'[p] = "absent" <=> status[p] = "absent"
<1> USE ProposalsAssumption DEF IInv, TypeOK
<1>1. ASSUME NEW e \in Events \ ProposalIds, Publish(e)
      PROVE  status'[p] = status[p]
  BY <1>1 DEF Publish, InsertRow, rowVars
<1>2. ASSUME NEW w \in Workers, NEW S \in SUBSET Claimable, MarkClaimed(w, S)
      PROVE  status'[p] = "absent" <=> status[p] = "absent"
  BY <1>2 DEF MarkClaimed, Claimable
<1>3. ASSUME NEW w \in Workers, Claim(w) \/ SkipLocked(w) \/ LoseClaim(w)
      PROVE  status'[p] = "absent" <=> status[p] = "absent"
  BY <1>2, <1>3 DEF Claim, SkipLocked, LoseClaim, ClaimBatch, ClaimPastLocked, ClaimReplyLost
<1>4. ASSUME NEW w \in Workers, MarkProcessed(w) \/ MarkFailed(w)
      PROVE  status'[p] = "absent" <=> status[p] = "absent"
  <2>1. current[w] \in Events /\ status[current[w]] = "processing"
    BY <1>4 DEF MarkProcessed, MarkFailed, WorkerShape, ClaimExclusive, Held
  <2>2. \E s \in {"processed", "dead_letter", "pending"} :
           status' = [status EXCEPT ![current[w]] = s]
    BY <1>4 DEF MarkProcessed, MarkFailed, AfterFailure
  <2> QED
    BY <2>1, <2>2
<1>5. ASSUME NEW w \in Workers,
             DispatchNext(w) \/ StatusWriteLost(w) \/ Crash(w) \/ Stop(w) \/ Start(w)
      PROVE  status' = status
  BY <1>5 DEF DispatchNext, Dispatch, StatusWriteLost, Crash, Stop, Start, rowVars
<1> QED
  BY <1>1, <1>3, <1>4, <1>5 DEF OutboxStep, WorkerStep

-----------------------------------------------------------------------------
\* Until a proposal is approved, each ok was one of the errors; this is what
\* makes OkMeansApproved inductive.
OksShape ==
    \A p \in ProposalIds :
        /\ oks[p] <= 1 + errors
        /\ approval[p] # "approved" => oks[p] <= errors

\* The invariant of the composition, on top of the outbox's.
ProposalsInv == ProposalsTypeOK /\ ApprovalAtomic /\ OksShape

\* The commit of an approval gives the proposal its job and its row together.
LEMMA CommitInv ==
    ASSUME ProposalsInv, NEW p \in ProposalIds, Commit(p), TypeOK
    PROVE  /\ approval' = [approval EXCEPT ![p] = "approved"]
           /\ jobs' = [jobs EXCEPT ![p] = 1]
           /\ status' = [status EXCEPT ![p] = "pending"]
<1> USE ProposalsAssumption DEF ProposalsInv, ProposalsTypeOK, ApprovalAtomic, Commit
<1>1. jobs[p] = 0 /\ status[p] = "absent"
  OBVIOUS
<1>2. status' = [status EXCEPT ![p] = "pending"]
  BY <1>1 DEF Publish, InsertRow
<1> QED
  BY <1>1, <1>2

\* Proposing, approving and failing to approve keep the invariant.
LEMMA ProposalStepInv ==
    ASSUME TypeOK, ProposalsInv, NEW p \in ProposalIds, ProposalStep(p)
    PROVE  ProposalsInv'
<1> USE ProposalsAssumption DEF ProposalsInv, ProposalsTypeOK, TypeOK
<1>1. CASE Propose(p)
  BY <1>1 DEF Propose, ApprovalAtomic, OksShape, vars, rowVars
<1>2. CASE ApprovePublishFails(p)
  BY <1>2 DEF ApprovePublishFails, TellOk, ErrorOccurs, ApprovalAtomic, OksShape, vars, rowVars
<1>3. ASSUME Commit(p)
      PROVE  /\ approval' \in [ProposalIds -> {"absent", "pending", "approved"}]
             /\ jobs' \in [ProposalIds -> Nat]
             /\ ApprovalAtomic'
  <2>1. /\ approval' = [approval EXCEPT ![p] = "approved"]
        /\ jobs' = [jobs EXCEPT ![p] = 1]
        /\ status' = [status EXCEPT ![p] = "pending"]
    BY <1>3, CommitInv
  <2> QED
    BY <2>1 DEF ApprovalAtomic
<1>4. CASE Approve(p)
  <2>1. approval' = [approval EXCEPT ![p] = "approved"] /\ approval[p] = "pending"
    BY <1>4 DEF Approve, Commit
  <2>2. OksShape' /\ oks' \in [ProposalIds -> Nat] /\ errors' \in Nat
    BY <1>4, <2>1 DEF Approve, TellOk, OksShape
  <2> QED
    BY <1>3, <1>4, <2>2 DEF Approve
<1>5. CASE ApproveReplyLost(p)
  <2>1. approval' = [approval EXCEPT ![p] = "approved"]
    BY <1>5 DEF ApproveReplyLost, Commit
  <2>2. OksShape' /\ oks' \in [ProposalIds -> Nat] /\ errors' \in Nat
    BY <1>5, <2>1 DEF ApproveReplyLost, ErrorOccurs, OksShape
  <2> QED
    BY <1>3, <1>5, <2>2 DEF ApproveReplyLost
<1> QED
  BY <1>1, <1>2, <1>4, <1>5 DEF ProposalStep

\* Every step keeps it; workers leave the rows of proposals in place (RowsKept).
LEMMA ProposalsNextInv ==
    IInv /\ ProposalsInv /\ [ProposalsNext]_allVars => ProposalsInv'
<1> SUFFICES ASSUME IInv, ProposalsInv, [ProposalsNext]_allVars
             PROVE  ProposalsInv'
  OBVIOUS
<1>1. ASSUME OutboxStep PROVE ProposalsInv'
  <2>1. \A p \in ProposalIds : status'[p] = "absent" <=> status[p] = "absent"
    BY <1>1, RowsKept
  <2>2. UNCHANGED proposalVars
    BY <1>1 DEF OutboxStep
  <2> QED
    BY <2>1, <2>2 DEF ProposalsInv, ProposalsTypeOK, ApprovalAtomic, OksShape, proposalVars
<1>2. ASSUME NEW p \in ProposalIds, ProposalStep(p) PROVE ProposalsInv'
  BY <1>2, ProposalStepInv DEF IInv
<1>3. CASE UNCHANGED allVars
  BY <1>3 DEF ProposalsInv, ProposalsTypeOK, ApprovalAtomic, OksShape, allVars, vars, rowVars,
     proposalVars
<1> QED
  BY <1>1, <1>2, <1>3 DEF ProposalsNext

\* It holds before anything was proposed.
LEMMA ProposalsInitInv == ProposalsInit => ProposalsInv
  BY ProposalsAssumption
  DEF ProposalsInit, Init, ProposalsInv, ProposalsTypeOK, ApprovalAtomic, OksShape

\* It holds in every reachable state of the composition, given the invariant of
\* the outbox.
THEOREM ProposalsInvariance == ProposalsSpec => []ProposalsInv
<1>1. ProposalsSpec => []IInv
  BY CompositionKeepsOutbox, Invariance, PTL
<1> QED
  BY <1>1, ProposalsInitInv, ProposalsNextInv, PTL DEF ProposalsSpec

\* approve_proposal is all or nothing: no interleaving of administrators, workers
\* and failures leaves a proposal approved without its one job and its event, or
\* a job or an event without the approval.
THEOREM AllOrNothing == ProposalsSpec => []ApprovalAtomic
<1>1. ProposalsInv => ApprovalAtomic
  BY DEF ProposalsInv
<1> QED
  BY <1>1, ProposalsInvariance, PTL

\* Each ok an administrator gets is the approval or one of the database errors
\* that publish swallowed.
THEOREM OksAccountedFor == ProposalsSpec => []OkMeansApproved
<1>1. ProposalsInv => OkMeansApproved
  BY DEF ProposalsInv, ProposalsTypeOK, OksShape, OkMeansApproved
<1> QED
  BY <1>1, ProposalsInvariance, PTL
=============================================================================
