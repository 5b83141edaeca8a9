----------------------------- MODULE MCAccounts -----------------------------
(***************************************************************************)
(* Instances of Sessions and Access for TLC.  The two meet only in the     *)
(* signed access token, which outlives the session it was issued for, so a *)
(* behaviour exercises one of them while the other rests in its initial    *)
(* state; which one is `subject`.                                          *)
(*                                                                         *)
(* One account, its password, one e-mailed link at a time and three        *)
(* sessions: enough for a refresh to race a second refresh of the same     *)
(* token, a log-out or a reset.  One signing key and two callers: enough   *)
(* for a slow fetch of the keys to overwrite a later one after the key was *)
(* withdrawn.                                                              *)
(***************************************************************************)
EXTENDS Sessions, Access, TLC

VARIABLE subject

\* The component that rests does so in one of its initial states.
MCInit ==
    /\ subject \in {"sessions", "access"}
    /\ Init /\ AccessInit
    /\ subject # "sessions" => \A u \in Users : ~users[u].exists
    /\ subject # "access" => config.mode = "none" /\ \A c \in CaseIds : owner[c] = Nil

MCNext ==
    /\ UNCHANGED subject
    /\ \/ subject = "sessions" /\ Next /\ UNCHANGED accessVars
       \/ subject = "access" /\ AccessNext /\ UNCHANGED vars

MCSpec == MCInit /\ [][MCNext]_<<vars, accessVars, subject>>

\* No property is temporal beyond one step.
Symmetry == Permutations(SessionIds) \cup Permutations(Requests)

Signed(alg, by, kid, sound) ==
    [alg |-> alg, signedBy |-> by, kid |-> kid, sub |-> "ann", sound |-> sound]
Ask(route, token) ==
    [route |-> route, token |-> token, header |-> Nil, adminKey |-> FALSE,
     case |-> "c1", resume |-> Nil]

\* A token that names its key, one that does not, one under the shared secret,
\* one that is expired; no token but a user id in a header; the administrators'
\* key; and the free tool's resumption.
SampleAsks ==
    {Ask("case", Signed("RS256", "k1", "k1", TRUE)),
     Ask("signin", Signed("RS256", "k1", Nil, TRUE)),
     Ask("case", Signed("HS256", Secret, Nil, TRUE)),
     Ask("case", Signed("RS256", "k1", Nil, FALSE)),
     [Ask("case", Nil) EXCEPT !.header = "bob"],
     [Ask("debug", Nil) EXCEPT !.adminKey = TRUE],
     [Ask("full", Signed("HS256", Secret, Nil, TRUE)) EXCEPT !.resume = "t1"]}

\* Two production set-ups, one the server refuses to start in, and three of
\* development.
Environment(deployment, mode, verifier, adminKey) ==
    [deployment |-> deployment, mode |-> mode, verifier |-> verifier, adminKey |-> adminKey]
SampleConfigs ==
    {Environment("production", "jwt", "jwks", TRUE),
     Environment("production", "jwt", "secret", TRUE),
     Environment("production", "mock", "neither", TRUE),
     Environment("development", "none", "neither", FALSE),
     Environment("development", "mock", "neither", TRUE),
     Environment("development", "jwt", "neither", FALSE)}

OneTick == [s \in {"own", "provider"} |-> 1]
=============================================================================
