---------------------------- MODULE MCIngestion ----------------------------
(* One document that belongs to any of the four tables, with a short, a    *)
(* long and an unreadable version.  The workers and the governed path      *)
(* share no state but the document (a job touches the source tables only,  *)
(* a run of PerpetualLawBrain corpus_chunks and the graph only), so the    *)
(* scripts alone, overlapping ingestions of a GOV.UK page beside the       *)
(* embedding job, the workers beside it and the governed path beside the   *)
(* scripts are explored one by one.  Jobs are put on the queue of the      *)
(* document's own worker and on the rules compiler's: for the other        *)
(* workers there is nothing to ingest.                                     *)
EXTENDS Ingestion
CONSTANTS t0, t1, t2
VARIABLE scenario

MCChunks == [t \in Texts |-> IF t = t1 THEN {0} ELSE IF t = t2 THEN {0, 1} ELSE {}]
MCPayloads == {[worker |-> "legislation", mode |-> m] : m \in {"full", "section", "index"}}
              \cup {[worker |-> "acas", mode |-> m] : m \in {"full", "index"}}
              \cup {[worker |-> "case_law", mode |-> m] : m \in {"sample", "bulk"}}
              \cup {[worker |-> "rules_compiler", mode |-> "candidates"]}

MCInit ==
    /\ IngestionInit /\ scenario \in {"scripts", "pages", "workers", "governed"}
    /\ scenario = "pages" => \A s \in Sources : table[s] = "official_guidance"
MCNext ==
    /\ IngestionNext
    /\ scenario # "workers" => jobVars' = jobVars
    /\ scenario \in {"pages", "workers"} => corpus' = corpus
    /\ scenario = "workers" => rows' = rows \/ thread' # thread \/ batch' # batch
    /\ scenario # "governed" => run' = run
    /\ scenario # "pages" => page' = page
    /\ scenario = "governed" => batch' = batch /\ \A k \in Keys : k.via = "a7" => corpus'[k] = corpus[k]
    /\ \A j \in Jobs : payload'[j] # payload[j] =>
          payload'[j].worker \in {"rules_compiler"} \cup {w \in DOMAIN TableOf : Mine(w) # {}}
    /\ UNCHANGED scenario
MCSpec ==
    /\ MCInit /\ [][MCNext]_<<ingestionVars, scenario>>
    /\ \A w \in Workers : WF_<<ingestionVars, scenario>>(run_once(w) /\ faults' = faults /\ UNCHANGED scenario)
=============================================================================
