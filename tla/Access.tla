------------------------------- MODULE Access -------------------------------
(***************************************************************************)
(* Who is let in: bearer tokens and the signing keys they are verified     *)
(* with (backend/core/user_auth.py, backend/core/auth/providers.py), case  *)
(* ownership, the administrators' gates of backend/api/main.py and the     *)
(* free tool's login wall (backend/core/login_gate.py and its routes).     *)
(*                                                                         *)
(* Signing keys are fetched over HTTP and cached by two services, the      *)
(* server's own verifier and the sign-in with identity providers; the lock *)
(* covers the cache but not the fetch, so fetches overlap and a slow one   *)
(* overwrites what a quicker one stored.  Meanwhile the issuer publishes   *)
(* and withdraws keys and cases are deleted.                               *)
(***************************************************************************)
EXTENDS Integers, Sequences, FiniteSets

CONSTANTS SigningKeys, People, CaseIds, ResumeTokens, Tools,
          Callers,      \* requests being served at a time
          Configs,      \* environments the server may be started in
          Asks,         \* what a caller may ask for, and with which credentials
          KeyTTL,       \* _JWKS_CACHE_TTL_SECONDS and _JWKS_TTL_SECONDS, per service
          FetchLimit,   \* how long a fetch may take (timeout=10.0)
          AccessEnd,    \* bound: the clock
          MaxSignals,   \* bound: rows of funnel_signals per resume token
          Secret,       \* JWT_SECRET, as the key of a token it signed
          Nil

ASSUME AccessAssumption ==
    /\ Configs \subseteq [deployment : {"production", "development"},
                          mode : {"none", "mock", "jwt"},
                          verifier : {"jwks", "secret", "neither"}, adminKey : BOOLEAN]
    /\ Asks \subseteq
          [route : {"case", "admin", "debug", "full", "signin"},
           token : {Nil} \cup [alg : {"RS256", "HS256"}, signedBy : SigningKeys \cup {Secret},
                               kid : SigningKeys \cup {Nil}, sub : People, sound : BOOLEAN],
           header : People \cup {Nil}, adminKey : BOOLEAN, case : CaseIds,
           resume : ResumeTokens \cup {Nil}]
    /\ KeyTTL \in [{"own", "provider"} -> Nat \ {0}]
    /\ FetchLimit \in Nat /\ AccessEnd \in Nat
    /\ Nil \notin SigningKeys \cup People \cup {Secret}

VARIABLES clock,
          config,      \* environment: deployment, auth mode, verifier, admin key set
          published,   \* keys the issuer publishes
          withdrawn,   \* history: when each key was last withdrawn, or -1
          jwks,        \* _jwks_cache of each service: keys and time, or Nil
          owner,       \* cases.user_id
          erased,      \* cases with deleted_at
          signals,     \* rows of funnel_signals per resume token: the tool
          callers

accessVars == <<clock, config, published, withdrawn, jwks, owner, erased, signals, callers>>

\* A caller: the step it is at, what it asks, since when it fetches keys, what it
\* fetched, and whom it was taken for.
Waiting(a) == [at |-> "idle", ask |-> a, since |-> 0, keys |-> {}, user |-> Nil]

At(r, step) == callers[r] # Nil /\ callers[r].at = step

\* In production the server does not start unless tokens are required and can be
\* verified, and the administrators' key is set.
validate_startup_config(c) ==
    c.deployment = "production" => c.mode = "jwt" /\ c.verifier # "neither" /\ c.adminKey

AccessInit ==
    /\ clock = 0
    /\ config \in {c \in Configs : validate_startup_config(c)}
    /\ published = {}
    /\ withdrawn = [k \in SigningKeys |-> -1]
    /\ jwks = [s \in {"own", "provider"} |-> Nil]
    /\ owner \in [CaseIds -> People \cup {Nil}]
    /\ erased = {}
    /\ signals = [t \in ResumeTokens |-> << >>]
    /\ callers = [r \in Callers |-> Nil]

(***************************************************************************)
(* Verifying a token                                                       *)
(***************************************************************************)

\* The key a token is verified with: the one it names, or the only one.
_find_jwks_key(keys, kid) ==
    IF kid # Nil THEN keys \cap {kid} ELSE IF Cardinality(keys) = 1 THEN keys ELSE {}

\* A provider's token that names no key is verified with the first one.
FirstMatching(keys, kid) == IF kid # Nil THEN keys \cap {kid} ELSE keys

\* Algorithm, signature, expiry, issuer, audience and subject all have to fit.
_verify_jwt_rs256(token, keys) ==
    /\ token.alg = "RS256"
    /\ token.sound
    /\ token.signedBy \in _find_jwks_key(keys, token.kid)

verify_id_token(token, key) ==
    token.alg = "RS256" /\ token.sound /\ token.signedBy = key

_verify_jwt_hs256(token) ==
    token.alg = "HS256" /\ token.sound /\ token.signedBy = Secret

\* Which service verifies the caller's token with published keys, if any.
NeedsKeys(r) ==
    /\ callers[r].ask.token # Nil
    /\ callers[r].ask.token.alg = "RS256"
    /\ \/ callers[r].ask.route = "signin"
       \/ config.mode = "jwt" /\ config.verifier = "jwks"

Service(r) == IF callers[r].ask.route = "signin" THEN "provider" ELSE "own"

\* Mutant: an expired entry is used while there is one.
UsedWhileThere(s) == jwks[s] # Nil

CachedKeys(s) == jwks[s] # Nil /\ clock - jwks[s].at < KeyTTL[s]

Turn(r, step, user) ==
    callers' = [callers EXCEPT ![r] = [Waiting(@.ask) EXCEPT !.at = step, !.user = user]]

\* The caller's token against these keys: identified, or refused with 401.
Verified(r, keys) ==
    LET tok == callers[r].ask.token
    IN  IF Service(r) = "own"
        THEN Turn(r, IF _verify_jwt_rs256(tok, keys) THEN "identified" ELSE "refused",
                  IF _verify_jwt_rs256(tok, keys) THEN tok.sub ELSE Nil)
        ELSE \/ \E k \in FirstMatching(keys, tok.kid) :
                  Turn(r, IF verify_id_token(tok, k) THEN "identified" ELSE "refused",
                       IF verify_id_token(tok, k) THEN tok.sub ELSE Nil)
             \/ FirstMatching(keys, tok.kid) = {} /\ Turn(r, "refused", Nil)

\* _fetch_jwks with a fresh entry.
UseCachedKeys(r) ==
    /\ At(r, "idle") /\ NeedsKeys(r)
    /\ CachedKeys(Service(r))
    /\ Verified(r, jwks[Service(r)].keys)
    /\ UNCHANGED <<clock, config, published, withdrawn, jwks, owner, erased, signals>>

\* _fetch_jwks without one: the request leaves, the lock is not held.
FetchKeys(r) ==
    /\ At(r, "idle") /\ NeedsKeys(r)
    /\ ~ CachedKeys(Service(r))
    /\ callers' = [callers EXCEPT ![r].at = "fetching", ![r].since = clock]
    /\ UNCHANGED <<clock, config, published, withdrawn, jwks, owner, erased, signals>>

\* External: the issuer answers with what it publishes now, or not at all (503).
IssuerAnswers(r) ==
    /\ At(r, "fetching")
    /\ \/ callers' = [callers EXCEPT ![r].at = "fetched", ![r].keys = published]
       \/ Turn(r, "refused", Nil)
    /\ UNCHANGED <<clock, config, published, withdrawn, jwks, owner, erased, signals>>

\* The answer is stored with the time it is stored at, whatever is there by now,
\* and used.  An empty answer is stored by the server's verifier and refused by
\* the providers'.
StoreKeys(r) ==
    /\ At(r, "fetched")
    /\ IF Service(r) = "provider" /\ callers[r].keys = {}
       THEN Turn(r, "refused", Nil) /\ UNCHANGED jwks
       ELSE /\ jwks' = [jwks EXCEPT ![Service(r)] = [keys |-> callers[r].keys, at |-> clock]]
            /\ Verified(r, callers[r].keys)
    /\ UNCHANGED <<clock, config, published, withdrawn, owner, erased, signals>>

\* get_current_user where no key has to be fetched: no authentication, a test
\* identity, no token, or a token under the shared secret.  An RS256 token meets
\* the wrong verifier and an HS256 one the wrong algorithm.
get_current_user(r) ==
    LET a == callers[r].ask
    IN  /\ At(r, "idle") /\ ~ NeedsKeys(r)
        /\ CASE a.route = "signin" -> Turn(r, "refused", Nil)
             [] a.route # "signin" /\ config.mode = "none" -> Turn(r, "identified", Nil)
             [] a.route # "signin" /\ config.mode = "mock" -> Turn(r, "identified", a.header)
             [] a.route # "signin" /\ config.mode = "jwt" ->
                  IF a.token = Nil THEN Turn(r, "identified", Nil)
                  ELSE IF config.verifier = "secret" /\ _verify_jwt_hs256(a.token)
                       THEN Turn(r, "identified", a.token.sub)
                       ELSE Turn(r, "refused", Nil)
        /\ UNCHANGED <<clock, config, published, withdrawn, jwks, owner, erased, signals>>

(***************************************************************************)
(* Gates                                                                   *)
(***************************************************************************)

AdminKeyShown(a) == config.adminKey /\ a.adminKey

\* Mutant: an anonymous caller is let through, as in the development modes.
OwnershipAnonymousPasses(a, user) ==
    \/ AdminKeyShown(a)
    \/ user = Nil
    \/ user # Nil /\ a.case \notin erased /\ owner[a.case] \in {Nil, user}

\* An anonymous caller passes only where tokens are not required; a case saved
\* without an owner is anybody's.
check_case_ownership(a, user) ==
    \/ AdminKeyShown(a)
    \/ user = Nil /\ config.mode # "jwt"
    \/ user # Nil /\ a.case \notin erased /\ owner[a.case] \in {Nil, user}

_require_admin_in_production(a) == config.mode = "none" \/ AdminKeyShown(a)

\* The full result and the resumption need an identity; a resume token must be one
\* that a teaser was saved under (anybody's).
require_capability(a, user) ==
    /\ user # Nil
    /\ a.resume # Nil => signals[a.resume] # << >>

Admits(a, user) ==
    CASE a.route = "case"   -> check_case_ownership(a, user)
      [] a.route = "admin"  -> AdminKeyShown(a)
      [] a.route = "debug"  -> _require_admin_in_production(a)
      [] a.route = "full"   -> require_capability(a, user)
      [] a.route = "signin" -> user # Nil

Authorise(r) ==
    /\ At(r, "identified")
    /\ Turn(r, IF Admits(callers[r].ask, callers[r].user) THEN "admitted" ELSE "refused",
            callers[r].user)
    /\ UNCHANGED <<clock, config, published, withdrawn, jwks, owner, erased, signals>>

\* A request comes in, and is done with.
NextCall(r) ==
    /\ \/ callers[r] = Nil /\ \E a \in Asks : callers' = [callers EXCEPT ![r] = Waiting(a)]
       \/ (At(r, "admitted") \/ At(r, "refused")) /\ callers' = [callers EXCEPT ![r] = Nil]
    /\ UNCHANGED <<clock, config, published, withdrawn, jwks, owner, erased, signals>>

\* The teaser is public: one more row under the token, new or shown by the caller.
save_teaser_state(t, tool) ==
    /\ Len(signals[t]) < MaxSignals
    /\ signals' = [signals EXCEPT ![t] = Append(@, tool)]
    /\ UNCHANGED <<clock, config, published, withdrawn, jwks, owner, erased, callers>>

(***************************************************************************)
(* The surroundings                                                        *)
(***************************************************************************)

\* External: the issuer publishes a new key or withdraws one, for good.
Publish(k) ==
    /\ k \notin published /\ withdrawn[k] = -1
    /\ published' = published \cup {k}
    /\ UNCHANGED <<clock, config, withdrawn, jwks, owner, erased, signals, callers>>

Withdraw(k) ==
    /\ k \in published
    /\ published' = published \ {k}
    /\ withdrawn' = [withdrawn EXCEPT ![k] = clock]
    /\ UNCHANGED <<clock, config, jwks, owner, erased, signals, callers>>

EraseCase(c) ==
    /\ c \notin erased
    /\ erased' = erased \cup {c}
    /\ UNCHANGED <<clock, config, published, withdrawn, jwks, owner, signals, callers>>

\* Time passes; no fetch outlasts its limit.
ClockTicks ==
    /\ clock < AccessEnd
    /\ \A r \in Callers : At(r, "fetching") \/ At(r, "fetched") =>
          clock - callers[r].since < FetchLimit
    /\ clock' = clock + 1
    /\ UNCHANGED <<config, published, withdrawn, jwks, owner, erased, signals, callers>>

AccessNext ==
    \/ ClockTicks
    \/ \E k \in SigningKeys : Publish(k) \/ Withdraw(k)
    \/ \E c \in CaseIds : EraseCase(c)
    \/ \E t \in ResumeTokens, tool \in Tools : save_teaser_state(t, tool)
    \/ \E r \in Callers :
          \/ UseCachedKeys(r) \/ FetchKeys(r) \/ IssuerAnswers(r) \/ StoreKeys(r)
          \/ get_current_user(r) \/ Authorise(r) \/ NextCall(r)

AccessSpec == AccessInit /\ [][AccessNext]_accessVars

(***************************************************************************)
(* Properties                                                              *)
(***************************************************************************)

\* However fetches overlap, fail or overtake each other, nobody is identified by
\* a key that its issuer withdrew longer ago than the cache's lifetime and one
\* fetch (user_auth.py:60-97, providers.py:70-90).
WithdrawnKeysDie ==
    [][\A r \in Callers :
          (At(r, "idle") \/ At(r, "fetched")) /\ NeedsKeys(r) /\ At(r, "identified")' =>
          LET k == callers[r].ask.token.signedBy
          IN  k \in published \/ clock - withdrawn[k] < KeyTTL[Service(r)] + FetchLimit]_accessVars

\* In production nobody reaches a case but its owner with a sound token, a holder
\* of the administrators' key, or, for a case saved without an owner, anybody who
\* is signed in; never a deleted case without the key, and never by a user id
\* sent in a header (config_validation.py:75-95, user_auth.py:446-497).
CasesGuarded ==
    [][\A r \in Callers :
          At(r, "identified") /\ At(r, "admitted")'
             /\ config.deployment = "production" /\ callers[r].ask.route = "case" =>
          LET a == callers[r].ask
          IN  \/ a.adminKey
              \/ /\ a.token # Nil /\ a.token.sound
                 /\ a.case \notin erased
                 /\ owner[a.case] \in {Nil, a.token.sub}]_accessVars
=============================================================================
