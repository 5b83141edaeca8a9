---------------------------- MODULE SearchService ----------------------------
(***************************************************************************)
(* lawapp-rag-service (port 8017): hybrid search over corpus_chunks        *)
(* through ONE database connection that all requests share and that is     *)
(* never committed or rolled back, with an answer cache of one hour.       *)
(*                                                                         *)
(* Every chunk matches the query and the limit is not reached: what is     *)
(* left of a search is which chunks the connection can still see.          *)
(***************************************************************************)
EXTENDS Integers, FiniteSets

CONSTANTS Chunks,
          Searches,    \* requests served at a time
          SearchTTL,   \* 3600 s
          SearchEnd,   \* bound: the clock
          MaxOutages   \* bound: how often the database goes away

ASSUME SearchServiceAssumption ==
    SearchTTL \in Nat \ {0} /\ SearchEnd \in Nat /\ MaxOutages \in Nat

VARIABLES currentChunks,   \* is_current
          embedded,        \* embedding IS NOT NULL
          link,            \* the global db
          dbAnswers,       \* whether the database is up
          outages,
          searchClock,
          answers,         \* Redis: by corpus_filter, results and expiry
          search,          \* the requests
          seenAt           \* history: when each chunk was current last

searchVars == <<currentChunks, embedded, link, dbAnswers, outages, searchClock, answers, search, seenAt>>

\* "dropped": the server is gone and psycopg2 has not noticed; "aborted": a statement
\* failed and the transaction refuses every other one; db.closed is 0 in both.
Links == {"none", "open", "dropped", "aborted", "closed"}
Filters == {"none", "legislation"}

IdleSearch == [step |-> "idle", filter |-> "none", hits |-> {}, due |-> {}, sound |-> FALSE, at |-> 0]

SearchInit ==
    /\ currentChunks = Chunks /\ embedded \in SUBSET Chunks
    /\ link = "none" /\ dbAnswers = TRUE /\ outages = 0
    /\ searchClock = 0
    /\ answers = [f \in Filters |-> [hits |-> {}, until |-> 0]]
    /\ search = [s \in Searches |-> IdleSearch]
    /\ seenAt = [c \in Chunks |-> 0]

\* _ensure_db: connect when there is no connection or it is known to be closed.
_ensure_db ==
    IF link \in {"none", "closed"} THEN IF dbAnswers THEN "open" ELSE "none" ELSE link

\* The connection after a correct statement.
AfterStatement(l) == IF l = "dropped" THEN "closed" ELSE l

\* hybrid_search up to its first query.
Arrive(s, f) ==
    /\ search[s].step \in {"idle", "answered", "refused"}
    /\ link' = _ensure_db
    /\ search' = [search EXCEPT ![s] =
          IF link' = "none" THEN [IdleSearch EXCEPT !.step = "refused"]
          ELSE IF searchClock < answers[f].until
          THEN [IdleSearch EXCEPT !.step = "answered", !.filter = f, !.hits = answers[f].hits,
                                  !.at = searchClock]
          ELSE [IdleSearch EXCEPT !.step = "fts", !.filter = f, !.sound = link' = "open"]]
    /\ UNCHANGED <<currentChunks, embedded, dbAnswers, outages, searchClock, answers, seenAt>>

\* Mutant: superseded chunks are searched too.
FtsAll == Chunks

FtsRows == currentChunks

_fts_search(s) ==
    /\ search[s].step = "fts"
    /\ link' = AfterStatement(_ensure_db)
    /\ search' = [search EXCEPT ![s].step = "vector",
                                ![s].hits = IF link' = "open" THEN FtsRows ELSE {},
                                ![s].due = currentChunks]
    /\ UNCHANGED <<currentChunks, embedded, dbAnswers, outages, searchClock, answers, seenAt>>

\* The probes, the embedding of the query by Ollama, which may fail, and the query.
\* The parameters of the filtered query are in the wrong order: it casts the filter
\* to a vector and fails.
_vector_search(s) ==
    /\ search[s].step = "vector"
    /\ LET l == AfterStatement(_ensure_db) IN
       \/ /\ l = "open" /\ embedded # {}
          /\ link' = IF search[s].filter = "none" THEN "open" ELSE "aborted"
          /\ search' = [search EXCEPT ![s].step = "merge",
                           ![s].hits = IF link' = "open" THEN @ \cup (currentChunks \cap embedded)
                                       ELSE @]
       \/ /\ link' = l
          /\ search' = [search EXCEPT ![s].step = "merge"]
    /\ UNCHANGED <<currentChunks, embedded, dbAnswers, outages, searchClock, answers, seenAt>>

\* Whatever the two queries gave is the answer, and is cached.
Merge(s) ==
    /\ search[s].step = "merge"
    /\ search' = [search EXCEPT ![s].step = "answered", ![s].at = searchClock]
    /\ answers' = [answers EXCEPT ![search[s].filter] =
                      [hits |-> search[s].hits, until |-> searchClock + SearchTTL]]
    /\ UNCHANGED <<currentChunks, embedded, link, dbAnswers, outages, searchClock, seenAt>>

\* External: the corpus changes; the database goes away and comes back, in the
\* meantime every connection is dropped; the clock, of which a search takes nothing.
Supersede(c) ==
    /\ currentChunks' = currentChunks \ {c}
    /\ UNCHANGED <<embedded, link, dbAnswers, outages, searchClock, answers, search, seenAt>>

Outage ==
    /\ \/ dbAnswers /\ outages < MaxOutages /\ outages' = outages + 1
       \/ ~ dbAnswers /\ outages' = outages
    /\ dbAnswers' = ~ dbAnswers
    /\ link' = IF link \in {"open", "aborted"} THEN "dropped" ELSE link
    /\ search' = [s \in Searches |-> [search[s] EXCEPT !.sound = FALSE]]
    /\ UNCHANGED <<currentChunks, embedded, searchClock, answers, seenAt>>

SearchTick ==
    /\ searchClock < SearchEnd /\ searchClock' = searchClock + 1
    /\ \A s \in Searches : search[s].step \in {"idle", "answered", "refused"}
    /\ seenAt' = [c \in Chunks |-> IF c \in currentChunks THEN searchClock' ELSE seenAt[c]]
    /\ UNCHANGED <<currentChunks, embedded, link, dbAnswers, outages, answers, search>>

SearchNext ==
    \/ \E s \in Searches : \/ \E f \in Filters : Arrive(s, f)
                           \/ _fts_search(s) \/ _vector_search(s) \/ Merge(s)
    \/ \E c \in Chunks : Supersede(c)
    \/ Outage \/ SearchTick

SearchSpec == SearchInit /\ [][SearchNext]_searchVars

-----------------------------------------------------------------------------
(* Properties.                                                             *)

(***************************************************************************)
(* Through lost connections, failed statements and cached answers, a chunk *)
(* that a search hands out was current at most SearchTTL before            *)
(* (lawapp-rag-service/main.py:120-162, 187-226).                          *)
(***************************************************************************)
ResultsRecent ==
    \A s \in Searches : search[s].step = "answered" =>
        \A c \in search[s].hits : search[s].at - seenAt[c] <= SearchTTL

(***************************************************************************)
(* A search that queried the corpus over a working connection found what   *)
(* the keyword query matches, unless a filtered search had failed on that  *)
(* connection, which they all share: its error aborts the transaction,     *)
(* nothing ever rolls it back, and from then on a search finds nothing     *)
(* (lawapp-rag-service/main.py:34-60, 165-226, 281-305).                   *)
(***************************************************************************)
SearchFinds ==
    \A s \in Searches :
        search[s].step = "answered" /\ search[s].sound /\ link # "aborted" =>
            search[s].due \subseteq search[s].hits

\* Both: what a search hands out is neither stale nor missing without cause.
SearchHonest == ResultsRecent /\ SearchFinds
=============================================================================
