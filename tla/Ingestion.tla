----------------------------- MODULE Ingestion -----------------------------
(***************************************************************************)
(* The ingestion workers of ingestion/worker_runner.py: one thread per     *)
(* queue, each taking jobs from a Redis list and running the ingestion     *)
(* script of its table over the corpus (module Corpus).  The ingestion_jobs *)
(* row of a job is the only trace of it once it has left the queue.        *)
(***************************************************************************)
EXTENDS Corpus, Sequences

CONSTANTS
    Jobs,       \* job ids
    Payloads,   \* what is put on the queues: [worker, mode]
    Licence,    \* FCL_BULK_LICENCE_GRANTED
    MaxFaults   \* bound: crashes, errors of dequeue, other errors of a job

VARIABLES
    payload,    \* payload[j]: None until j is enqueued
    queue,      \* queue[w]: the jobs waiting for worker w, oldest first
    thread,     \* thread[w]: what the thread of worker w is doing
    jobRow,     \* jobRow[j]: postgres_status, "none" without a row
    proposals,  \* proposals[j]: rule candidates inserted for j
    lost,       \* jobs a crash, a fatal exit, a failed pop or a failed record took
    faults

jobVars == <<payload, queue, thread, jobRow, proposals, lost, faults>>
ingestionVars == <<corpusVars, jobVars>>

Workers == {"legislation", "acas", "case_law", "rules_compiler"}
TableOf == [legislation |-> "legislation", acas |-> "acas_guidance", case_law |-> "case_law"]
Idle == [at |-> "idle", job |-> None, status |-> "none"]
Ended == [Idle EXCEPT !.at = "dead"]
Settled == {"done", "failed", "skipped"}

ASSUME IngestionAssumption ==
    /\ Payloads \subseteq [worker: Workers, mode: {"full", "section", "index", "sample", "bulk", "candidates"}]
    /\ None \notin Jobs \cup Payloads
    /\ MaxFaults \in Nat

IngestionTypeOK ==
    /\ CorpusTypeOK
    /\ payload \in [Jobs -> Payloads \cup {None}]
    /\ queue \in [Workers -> Seq(Jobs)]
    /\ thread \in [Workers -> [at: {"idle", "taken", "started", "ingested", "dead"},
                               job: Jobs \cup {None}, status: Settled \cup {"none"}]]
    /\ jobRow \in [Jobs -> Settled \cup {"none", "processing"}]
    /\ proposals \in [Jobs -> 0..1]
    /\ lost \subseteq Jobs
    /\ faults \in 0..MaxFaults

IngestionInit ==
    /\ CorpusInit
    /\ payload = [j \in Jobs |-> None]
    /\ queue = [w \in Workers |-> <<>>]
    /\ thread = [w \in Workers |-> Idle]
    /\ jobRow = [j \in Jobs |-> "none"]
    /\ proposals = [j \in Jobs |-> 0]
    /\ lost = {}
    /\ faults = 0

-----------------------------------------------------------------------------
(* LPUSH of a job with a fresh id.                                         *)
enqueue(j, p) ==
    /\ payload[j] = None
    /\ payload' = [payload EXCEPT ![j] = p]
    /\ queue' = [queue EXCEPT ![p.worker] = Append(@, j)]
    /\ UNCHANGED <<corpusVars, thread, jobRow, proposals, lost, faults>>

(* BRPOP: the job is gone from Redis before anything is known of it.  What *)
(* the call raises is outside the try of run_once, and run_forever has     *)
(* none: the thread ends, and nothing starts it again.  Redis cannot be    *)
(* reached, or the entry was popped and its reply lost or not readable by  *)
(* json.loads.                                                             *)
dequeue(w) ==
    /\ thread[w].at = "idle"
    /\ \/ /\ queue[w] # <<>>
          /\ thread' = [thread EXCEPT ![w] = [Idle EXCEPT !.at = "taken", !.job = Head(queue[w])]]
          /\ queue' = [queue EXCEPT ![w] = Tail(@)]
          /\ UNCHANGED <<lost, faults>>
       \/ /\ faults < MaxFaults
          /\ faults' = faults + 1
          /\ thread' = [thread EXCEPT ![w] = Ended]
          /\ \/ UNCHANGED <<queue, lost>>
             \/ /\ queue[w] # <<>>
                /\ queue' = [queue EXCEPT ![w] = Tail(@)]
                /\ lost' = lost \cup {Head(queue[w])}
    /\ UNCHANGED <<corpusVars, payload, jobRow, proposals>>

(* Recording the job's status, committed; a final one frees the thread.    *)
Record(w, status, next) ==
    /\ jobRow' = [jobRow EXCEPT ![thread[w].job] = status]
    /\ thread' = [thread EXCEPT ![w] = next]

(* The case law worker refuses a bulk job without a licence, and records   *)
(* nothing before its script has run; the two others first record that     *)
(* they are processing.                                                    *)
begin(w) ==
    /\ thread[w].at = "taken" /\ w # "rules_compiler"
    /\ LET started == [thread[w] EXCEPT !.at = "started"] IN
       IF w # "case_law" THEN Record(w, "processing", started)
       ELSE IF payload[thread[w].job].mode = "bulk" /\ ~Licence THEN Record(w, "skipped", Idle)
       ELSE thread' = [thread EXCEPT ![w] = started] /\ UNCHANGED jobRow
    /\ UNCHANGED <<corpusVars, payload, queue, proposals, lost, faults>>

(* The script.  A legislation job without a section or an ACAS job that    *)
(* only indexes runs none; a document with no extractable text is an error *)
(* of the legislation script: it fails a section job and ends the thread   *)
(* of a full one, for sys.exit is not an Exception.                        *)
RunsScript(w) == payload[thread[w].job].mode \in {"full", "section", "bulk", "sample"}

Mine(w) == {s \in Sources : table[s] = TableOf[w]}

FatalExit(w) ==
    /\ w = "legislation" /\ payload[thread[w].job].mode = "full"
    /\ \E s \in Mine(w) : Fetched(s) = "empty"

exit(w) ==
    /\ thread[w].at = "started" /\ FatalExit(w)
    /\ thread' = [thread EXCEPT ![w] = Ended]
    /\ lost' = lost \cup {thread[w].job}
    /\ UNCHANGED <<corpusVars, payload, queue, jobRow, proposals, faults>>

script(w) ==
    /\ thread[w].at = "started"
    /\ IF ~RunsScript(w)
       THEN /\ UNCHANGED corpusVars
            /\ thread' = [thread EXCEPT ![w].at = "ingested",
                                        ![w].status = IF w = "legislation" THEN "skipped" ELSE "done"]
       ELSE /\ ~FatalExit(w)
            /\ IF Mine(w) = {} THEN UNCHANGED corpusVars ELSE \E s \in Mine(w) : ingest(s)
            /\ thread' = [thread EXCEPT ![w].at = "ingested",
                                        ![w].status = IF w = "legislation" /\ \E s \in Mine(w) : Fetched(s) = "empty"
                                                      THEN "failed" ELSE "done"]
    /\ UNCHANGED <<payload, queue, jobRow, proposals, lost, faults>>

(* index_pending_legislation and index_pending_acas read tuples and index  *)
(* them by column name: with any row to index they raise.                  *)
Indexable(w) ==
    \E s \in Mine(w), i \in Indexes :
        /\ w # "case_law" /\ rows[s][i] # None
        /\ w = "legislation" => rows[s][i].emb # None

conclude(w) ==
    /\ thread[w].at = "ingested" /\ ~Indexable(w)
    /\ Record(w, thread[w].status, Idle)
    /\ UNCHANGED <<corpusVars, payload, queue, proposals, lost, faults>>

(* The rules compiler: status, proposals and status in one transaction.    *)
compile(w) ==
    /\ w = "rules_compiler" /\ thread[w].at = "taken"
    /\ proposals' = [proposals EXCEPT ![thread[w].job] = 1]
    /\ Record(w, "done", Idle)
    /\ UNCHANGED <<corpusVars, payload, queue, lost, faults>>

(* Ways to get the except clause of run_once wrong: the failure is logged  *)
(* and not recorded, or the job is tried again at once.                    *)
raise_unrecorded(w) ==
    /\ thread[w].at = "ingested" /\ Indexable(w)
    /\ thread' = [thread EXCEPT ![w] = Idle]
    /\ UNCHANGED <<corpusVars, payload, queue, jobRow, proposals, lost, faults>>

raise_retries(w) ==
    /\ thread[w].at = "ingested" /\ Indexable(w)
    /\ thread' = [thread EXCEPT ![w].at = "taken", ![w].status = "none"]
    /\ UNCHANGED <<corpusVars, payload, queue, jobRow, proposals, lost, faults>>

(* An exception in process: the indexing one, which is certain when there  *)
(* is something to index, or a database or network failure anywhere.       *)
(* run_once records the failure; when that fails too, nothing is left.     *)
raise(w) ==
    /\ thread[w].at \in {"taken", "started", "ingested"}
    /\ \/ /\ thread[w].at = "ingested" /\ Indexable(w)
          /\ Record(w, "failed", Idle)
          /\ UNCHANGED <<lost, faults>>
       \/ /\ faults < MaxFaults
          /\ faults' = faults + 1
          /\ \/ Record(w, "failed", Idle) /\ UNCHANGED lost
             \/ /\ thread' = [thread EXCEPT ![w] = Idle]
                /\ lost' = lost \cup {thread[w].job}
                /\ UNCHANGED jobRow
    /\ UNCHANGED <<corpusVars, payload, queue, proposals>>

(* The container dies and is started again: the threads are new, the jobs  *)
(* they had taken are nowhere.                                             *)
Crash ==
    /\ faults < MaxFaults
    /\ faults' = faults + 1
    /\ lost' = lost \cup {thread[w].job : w \in {v \in Workers : thread[v].job # None}}
    /\ thread' = [w \in Workers |-> Idle]
    /\ UNCHANGED <<corpusVars, payload, queue, jobRow, proposals>>

run_once(w) ==
    \/ dequeue(w) \/ begin(w) \/ script(w) \/ exit(w) \/ conclude(w) \/ compile(w) \/ raise(w)

IngestionNext ==
    \/ \E j \in Jobs, p \in Payloads : enqueue(j, p)
    \/ \E w \in Workers : run_once(w)
    \/ Crash
    \/ CorpusNext /\ UNCHANGED jobVars

IngestionSpec == IngestionInit /\ [][IngestionNext]_ingestionVars

(* A thread that has not ended keeps running; no fault has to happen.      *)
FairIngestion ==
    IngestionSpec /\ \A w \in Workers : WF_ingestionVars(run_once(w) /\ faults' = faults)

-----------------------------------------------------------------------------
(* A job that was put on a queue is always in exactly one place: still     *)
(* waiting, in the hands of a live thread, settled in ingestion_jobs, or   *)
(* among those that a crash, a fatal exit of the script, an error after    *)
(* the pop or a failure to record a failure took (BRPOP has removed it,    *)
(* base_worker.py:54-59, and nothing acknowledges it).  A job that lost    *)
(* its thread otherwise would be gone without trace.                       *)
JobAccounted ==
    \A j \in Jobs : payload[j] # None =>
        LET waiting == \E w \in Workers : \E n \in 1..Len(queue[w]) : queue[w][n] = j
            held == \E w \in Workers : thread[w].job = j
            settled == jobRow[j] \in Settled
        IN Cardinality({x \in {"waiting", "held", "settled", "lost"} :
                \/ x = "waiting" /\ waiting
                \/ x = "held" /\ held
                \/ x = "settled" /\ settled
                \/ x = "lost" /\ j \in lost}) = 1

(* Every job is eventually settled, whatever the scripts meet, unless a    *)
(* fault took it or the thread of its queue ends and is never started      *)
(* again: worker_runner.py starts each thread once, and an error of Redis  *)
(* or a fatal exit of the script ends it for good.  When the whole runner  *)
(* is restarted after that, the jobs still waiting are settled after all.  *)
JobsSettle ==
    \A j \in Jobs : payload[j] # None
        ~> \/ jobRow[j] \in Settled \/ j \in lost
           \/ [](payload[j] # None /\ thread[payload[j].worker].at = "dead")
=============================================================================
