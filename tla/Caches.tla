------------------------------- MODULE Caches -------------------------------
(***************************************************************************)
(* The two caches in front of the legal tables.                            *)
(*                                                                         *)
(* The rules engine (services/lawapp_rules_engine) keeps rules in a        *)
(* read-through TTL cache: a request notes the time, takes one lock for    *)
(* all keys, and on a miss reads the database while it holds the lock.     *)
(* The citation guard (services/lawapp_citation_guard) keeps in Redis      *)
(* whether a chunk id exists; lookup, query and write-back are separate    *)
(* and nothing is locked.  Meanwhile rules are amended and chunks come and *)
(* go.                                                                     *)
(***************************************************************************)
EXTENDS Integers, Sequences, SequencesExt

CONSTANTS
    Keys,        \* (claim_type, jurisdiction, date)
    Maxsize,     \* RULES_CACHE_MAXSIZE
    TTL,         \* RULES_CACHE_TTL_SECONDS, and Redis' CACHE_DEFAULT_TTL_S
    Requests,    \* requests to the rules engine
    Checks,      \* requests to the citation guard
    Ids,         \* chunk ids, real or invented
    MaxTime, MaxVersion, MaxFailures,   \* bounds: clock, amendments, failures
    Nobody, NoEntry

ASSUME CachesAssumption ==
    Maxsize \in Nat \ {0} /\ TTL \in Nat \ {0} /\ MaxTime \in Nat /\ MaxVersion \in Nat

VARIABLES
    now,         \* time.monotonic
    version,     \* the rules row of each key: how often it was amended
    replaced,    \* history: when each version of a key was replaced
    store,       \* _store: entries in insertion order
    lock,        \* the request that holds it
    rq,          \* requests: step, key, time of arrival, loaded or answered version
    corpus,      \* ids in corpus_chunks
    written,     \* history: ids that were ever there
    redis,       \* cached existence of each id: value and expiry, or NoEntry
    ck,          \* checks: step, id, answer
    failures

cacheVars == <<now, version, replaced, store, lock, rq, corpus, written, redis, ck, failures>>

ruleVars == <<version, replaced, store, lock, rq>>
guardVars == <<corpus, written, redis, ck>>

CachesInit ==
    /\ now = 0 /\ failures = 0
    /\ version = [k \in Keys |-> 0]
    /\ replaced = [k \in Keys |-> << >>]
    /\ store = << >> /\ lock = Nobody
    /\ rq \in {[r \in Requests |-> [at |-> "idle", key |-> f[r], time |-> 0, val |-> 0]] :
                  f \in [Requests -> Keys]}
    /\ corpus = {} /\ written = {}
    /\ redis = [i \in Ids |-> NoEntry]
    /\ ck \in {[c \in Checks |-> [at |-> "idle", id |-> f[c], valid |-> FALSE]] :
                  f \in [Checks -> Ids]}

Fault == failures < MaxFailures /\ failures' = failures + 1

CacheTick == now < MaxTime /\ now' = now + 1 /\ UNCHANGED <<ruleVars, guardVars, failures>>

-----------------------------------------------------------------------------
(* The rules cache.                                                        *)

\* The rules table is amended (external: the ingestion scripts).
Amend(k) ==
    /\ version[k] < MaxVersion
    /\ version' = [version EXCEPT ![k] = @ + 1]
    /\ replaced' = [replaced EXCEPT ![k] = Append(@, now)]
    /\ UNCHANGED <<now, store, lock, rq, guardVars, failures>>

Entries(k) == {i \in DOMAIN store : store[i].key = k}

\* get_or_load reads the clock before it waits for the lock.
RequestArrives(r) ==
    /\ rq[r].at = "idle"
    /\ rq' = [rq EXCEPT ![r].at = "waiting", ![r].time = now]
    /\ UNCHANGED <<now, version, replaced, store, lock, guardVars, failures>>

\* An entry younger than the TTL when the request arrived is a hit.
Fresh(e, time) == time - e.time < TTL

Hit(r) ==
    /\ rq[r].at = "waiting" /\ lock = Nobody
    /\ \E i \in Entries(rq[r].key) :
          /\ Fresh(store[i], rq[r].time)
          /\ rq' = [rq EXCEPT ![r].at = "answered", ![r].val = store[i].val]
    /\ UNCHANGED <<now, version, replaced, store, lock, guardVars, failures>>

\* On a miss the loader reads the table under the lock.
Load(r) ==
    /\ rq[r].at = "waiting" /\ lock = Nobody
    /\ \A i \in Entries(rq[r].key) : ~ Fresh(store[i], rq[r].time)
    /\ lock' = r
    /\ rq' = [rq EXCEPT ![r].at = "loaded", ![r].val = version[rq[r].key]]
    /\ UNCHANGED <<now, version, replaced, store, guardVars, failures>>

\* The loader raises: nothing is stored, the lock is released, the client sees 503.
LoadFails(r) ==
    /\ rq[r].at = "waiting" /\ lock = Nobody
    /\ \A i \in Entries(rq[r].key) : ~ Fresh(store[i], rq[r].time)
    /\ Fault
    /\ rq' = [rq EXCEPT ![r].at = "failed"]
    /\ UNCHANGED <<now, version, replaced, store, lock, guardVars>>

\* Mutant: the entry is stamped when it is stored.
StoredWhenDone(k, time, val) ==
    LET e == [key |-> k, time |-> now, val |-> val]
        room == IF Len(store) >= Maxsize /\ Entries(k) = {} THEN Tail(store) ELSE store
    IN  IF Entries(k) = {} THEN Append(room, e)
        ELSE [i \in DOMAIN store |-> IF store[i].key = k THEN e ELSE store[i]]

\* A new key makes room by dropping the oldest one; a known key keeps its place in
\* the dictionary's order.
Stored(k, time, val) ==
    LET e == [key |-> k, time |-> time, val |-> val]
        room == IF Len(store) >= Maxsize /\ Entries(k) = {} THEN Tail(store) ELSE store
    IN  IF Entries(k) = {} THEN Append(room, e)
        ELSE [i \in DOMAIN store |-> IF store[i].key = k THEN e ELSE store[i]]

Store(r) ==
    /\ rq[r].at = "loaded"
    /\ store' = Stored(rq[r].key, rq[r].time, rq[r].val)
    /\ lock' = Nobody
    /\ rq' = [rq EXCEPT ![r].at = "answered"]
    /\ UNCHANGED <<now, version, replaced, guardVars, failures>>

-----------------------------------------------------------------------------
(* The citation guard's cache.                                             *)

\* Chunks are inserted and deleted (external: the ingestion scripts).
CorpusChanges(i) ==
    /\ \/ corpus' = corpus \cup {i} /\ i \notin written
       \/ corpus' = corpus \ {i} /\ i \in corpus
    /\ written' = written \cup {i}
    /\ UNCHANGED <<now, ruleVars, redis, ck, failures>>

\* Redis forgets an entry when its TTL is over.
Live(i) == redis[i] # NoEntry /\ now < redis[i].expires

\* cache_get_bool: a hit answers; a miss, or a Redis that does not answer, goes on
\* to the database.
Lookup(c) ==
    LET i == ck[c].id
    IN  /\ ck[c].at = "idle"
        /\ \/ /\ Live(i)
              /\ ck' = [ck EXCEPT ![c].at = "answered", ![c].valid = redis[i].val]
              /\ UNCHANGED failures
           \/ /\ ~ Live(i)
              /\ ck' = [ck EXCEPT ![c].at = "missed"]
              /\ UNCHANGED failures
           \/ /\ Live(i) /\ Fault
              /\ ck' = [ck EXCEPT ![c].at = "missed"]
        /\ UNCHANGED <<now, ruleVars, corpus, written, redis>>

\* valid_corpus_uuids: one query.
Query(c) ==
    /\ ck[c].at = "missed"
    /\ ck' = [ck EXCEPT ![c].at = "queried", ![c].valid = ck[c].id \in corpus]
    /\ UNCHANGED <<now, ruleVars, corpus, written, redis, failures>>

Cached(valid) == [val |-> valid, expires |-> now + TTL]

\* cache_set_bool; a Redis that fails is ignored.
WriteBack(c) ==
    /\ ck[c].at = "queried"
    /\ ck' = [ck EXCEPT ![c].at = "answered"]
    /\ \/ redis' = [redis EXCEPT ![ck[c].id] = Cached(ck[c].valid)] /\ UNCHANGED failures
       \/ UNCHANGED redis /\ Fault
    /\ UNCHANGED <<now, ruleVars, corpus, written>>

-----------------------------------------------------------------------------

RulesStep ==
    \/ \E k \in Keys : Amend(k)
    \/ \E r \in Requests : RequestArrives(r) \/ Hit(r) \/ Load(r) \/ LoadFails(r) \/ Store(r)

GuardStep ==
    \/ \E i \in Ids : CorpusChanges(i)
    \/ \E c \in Checks : Lookup(c) \/ Query(c) \/ WriteBack(c)

CachesNext == CacheTick \/ RulesStep \/ GuardStep

CachesSpec == CachesInit /\ [][CachesNext]_cacheVars

\* However long requests wait for the lock or for the database, the rules a
\* request is answered with were in force at most TTL before it arrived: the entry
\* carries the time before the load (services/lawapp_rules_engine/cache.py:68-88).
RulesFresh ==
    \A r \in Requests : rq[r].at = "answered" =>
        \/ rq[r].val = version[rq[r].key]
        \/ rq[r].time - replaced[rq[r].key][rq[r].val + 1] < TTL

\* Neither races between checks nor a failing Redis make the guard accept an id
\* that was never a row of corpus_chunks; an id that was deleted may be accepted
\* until its entry expires (corpus_citation_guard.py:54-101).
GuardNeverInvents ==
    \A c \in Checks : ck[c].at = "answered" /\ ck[c].valid => ck[c].id \in written

\* Both: neither cache answers with more than its lifetime allows.
CachesHonest == RulesFresh /\ GuardNeverInvents
=============================================================================
