------------------------------ MODULE Sessions ------------------------------
(***************************************************************************)
(* Accounts, refresh-token sessions and single-use tokens                  *)
(* (backend/core/auth/service.py behind backend/api/auth_routes.py, and    *)
(* the older /auth/register of backend/api/main.py).                       *)
(*                                                                         *)
(* One row of `sessions` is one refresh token; one row of `authTokens` is  *)
(* one e-mailed link.  Every operation is one database transaction, but    *)
(* password login and refresh decide on a SELECT that takes no lock and    *)
(* write later (hashing a password takes a while), so each is two steps    *)
(* with the values it read kept in `requests`.  All the other operations   *)
(* are decided by a conditional UPDATE or a unique index and are atomic.   *)
(***************************************************************************)
EXTENDS Naturals, FiniteSets

CONSTANTS Users,            \* e-mail addresses; one account each
          Passwords,
          SessionIds,       \* supply of auth_sessions rows
          TokenIds,         \* supply of auth_tokens rows
          Subjects,         \* accounts at an identity provider
          Requests,         \* requests being served at a time
          RequireVerified,  \* AUTH_REQUIRE_VERIFIED_EMAIL
          None

VARIABLES users, sessions, authTokens, identities, requests

vars == <<users, sessions, authTokens, identities, requests>>


Purposes == {"magic_link", "email_verify", "password_reset"}

Reasons == {"live", "logout", "logout_all", "rotated", "expired",
            "reuse_detected", "password_reset"}

SignIns == {"register", "password", "oauth"}

\* format says which of the two hash formats stores the password: "legacy" is
\* main.py's salt:hash, which login_password replaces (needs_rehash).
User == [exists : BOOLEAN, password : Passwords \cup {None},
         format : {"current", "legacy"}, verified : BOOLEAN, mfa : BOOLEAN]

\* reason = "live" stands for revoked_at IS NULL.  `via`, what the session was
\* issued for, is recorded for the properties; no action reads it.
Session == [user : Users, reason : Reasons, expired : BOOLEAN,
            rotatedTo : SessionIds \cup {None},
            via : SignIns \cup TokenIds \cup SessionIds]

Token == [user : Users, purpose : Purposes, consumed : BOOLEAN, expired : BOOLEAN]

\* What a login or a refresh holds between its SELECT and its COMMIT.
Request == [op : {"login"}, user : Users, password : Passwords,
            rehash : BOOLEAN, mfa : BOOLEAN]
           \cup [op : {"refresh"}, user : Users, sid : SessionIds]

ASSUME SessionsAssumption ==
    /\ RequireVerified \in BOOLEAN
    /\ None \notin Users \cup Passwords \cup SessionIds \cup Session \cup Token \cup Request
    \* What a session was issued for can be told from `via`.
    /\ SessionIds \cap TokenIds = {}
    /\ (SessionIds \cup TokenIds) \cap SignIns = {}

TypeOK ==
    /\ users \in [Users -> User]
    /\ sessions \in [SessionIds -> Session \cup {None}]
    /\ authTokens \in [TokenIds -> Token \cup {None}]
    /\ identities \in [Subjects -> Users \cup {None}]
    /\ requests \in [Requests -> Request \cup {None}]

Issued == {s \in SessionIds : sessions[s] # None}
Live(s) == s \in Issued /\ sessions[s].reason = "live"
Idle(r) == requests[r] = None

(***************************************************************************)
(* Shared steps                                                            *)
(***************************************************************************)

\* A new auth_sessions row.
NewSession(u, via) ==
    [user |-> u, reason |-> "live", expired |-> FALSE, rotatedTo |-> None,
     via |-> via]

_issue_session(n, u, via) ==
    /\ sessions[n] = None
    /\ sessions' = [sessions EXCEPT ![n] = NewSession(u, via)]

\* Revoke every live session of the user, recording why.
Revoked(rows, u, why) ==
    [s \in SessionIds |->
        IF rows[s] # None /\ rows[s].user = u /\ rows[s].reason = "live"
        THEN [rows[s] EXCEPT !.reason = why] ELSE rows[s]]

_issue_single_use_token(t, u, purpose) ==
    /\ authTokens[t] = None
    /\ authTokens' = [authTokens EXCEPT ![t] =
          [user |-> u, purpose |-> purpose, consumed |-> FALSE, expired |-> FALSE]]

\* Mutant: the UPDATE does not test that the link is unspent.
ConsumeSpent(t, purpose) ==
    /\ authTokens[t] # None
    /\ authTokens[t].purpose = purpose
    /\ ~authTokens[t].expired
    /\ authTokens' = [authTokens EXCEPT ![t].consumed = TRUE]

\* One conditional UPDATE: the token exists, is for this purpose, and is
\* neither consumed nor expired.
_consume_single_use_token(t, purpose) ==
    /\ authTokens[t] # None
    /\ authTokens[t].purpose = purpose
    /\ ~authTokens[t].consumed
    /\ ~authTokens[t].expired
    /\ authTokens' = [authTokens EXCEPT ![t].consumed = TRUE]

(***************************************************************************)
(* Operations                                                              *)
(***************************************************************************)

\* Account, verification link and first session in one transaction; an
\* address already taken hits the unique index and nothing is written.
register(u, p, t, n) ==
    /\ ~users[u].exists
    /\ users' = [users EXCEPT ![u] =
          [exists |-> TRUE, password |-> p, format |-> "current",
           verified |-> FALSE, mfa |-> FALSE]]
    /\ _issue_single_use_token(t, u, "email_verify")
    /\ _issue_session(n, u, "register")
    /\ UNCHANGED <<identities, requests>>

\* POST /auth/register of main.py: the account only, in the legacy format.
legacy_register(u, p) ==
    /\ ~users[u].exists
    /\ users' = [users EXCEPT ![u] =
          [exists |-> TRUE, password |-> p, format |-> "legacy",
           verified |-> FALSE, mfa |-> FALSE]]
    /\ UNCHANGED <<sessions, authTokens, identities, requests>>

\* Password login, first half: read the account and check the password.
login_check(r, u, p) ==
    /\ Idle(r)
    /\ users[u].exists
    /\ users[u].password = p
    /\ RequireVerified => users[u].verified
    /\ requests' = [requests EXCEPT ![r] =
          [op |-> "login", user |-> u, password |-> p,
           rehash |-> users[u].format = "legacy", mfa |-> users[u].mfa]]
    /\ UNCHANGED <<users, sessions, authTokens, identities>>

\* Second half: store the password again if its hash was legacy, then either
\* withhold the tokens (MFA) or issue the session.
login_commit(r) ==
    /\ ~Idle(r)
    /\ requests[r].op = "login"
    /\ LET q == requests[r] IN
       /\ users' = IF q.rehash
                   THEN [users EXCEPT ![q.user].password = q.password,
                                      ![q.user].format = "current"]
                   ELSE users
       /\ \/ q.mfa /\ UNCHANGED sessions
          \/ ~q.mfa /\ \E n \in SessionIds : _issue_session(n, q.user, "password")
    /\ requests' = [requests EXCEPT ![r] = None]
    /\ UNCHANGED <<authTokens, identities>>

\* Log out the session of one refresh token.
logout(s) ==
    /\ Live(s)
    /\ sessions' = [sessions EXCEPT ![s].reason = "logout"]
    /\ UNCHANGED <<users, authTokens, identities, requests>>

\* Log out everywhere.  The access token that authorises it names the user and
\* outlives its session, so any session ever issued will do.
logout_all(u) ==
    /\ \E s \in Issued : sessions[s].user = u
    /\ sessions' = Revoked(sessions, u, "logout_all")
    /\ UNCHANGED <<users, authTokens, identities, requests>>

\* Refresh, first half: read the row without locking it.  A revoked token is a
\* replay and revokes every live session of the user; an expired one is marked;
\* a live one goes on to be rotated.
refresh_check(r, s) ==
    /\ Idle(r)
    /\ s \in Issued
    /\ \/ /\ sessions[s].reason # "live"
          /\ sessions' = Revoked(sessions, sessions[s].user, "reuse_detected")
          /\ UNCHANGED requests
       \/ /\ Live(s) /\ sessions[s].expired
          /\ sessions' = [sessions EXCEPT ![s].reason = "expired"]
          /\ UNCHANGED requests
       \/ /\ Live(s) /\ ~sessions[s].expired
          /\ requests' = [requests EXCEPT ![r] =
                [op |-> "refresh", user |-> sessions[s].user, sid |-> s]]
          /\ UNCHANGED sessions
    /\ UNCHANGED <<users, authTokens, identities>>

\* Mutant: a row revoked meanwhile is written back as it was read.
RotatedWritesBack(q, n) ==
    [sessions EXCEPT ![n] = NewSession(q.user, q.sid),
                     ![q.sid].reason = IF @ = "live" THEN "rotated" ELSE "live",
                     ![q.sid].rotatedTo = n]

\* The rows after the old session s is rotated to the new session n: the UPDATE
\* of the old row does not look at whether it is still live.
Rotated(q, n) ==
    [sessions EXCEPT ![n] = NewSession(q.user, q.sid),
                     ![q.sid].reason = "rotated", ![q.sid].rotatedTo = n]

\* Second half: insert the new session and mark the old one rotated.
refresh_commit(r) ==
    /\ ~Idle(r)
    /\ requests[r].op = "refresh"
    /\ \E n \in SessionIds :
          /\ sessions[n] = None
          /\ sessions' = Rotated(requests[r], n)
    /\ requests' = [requests EXCEPT ![r] = None]
    /\ UNCHANGED <<users, authTokens, identities>>

\* An exception or a lost connection between the two halves: rolled back.
request_fails(r) ==
    /\ ~Idle(r)
    /\ requests' = [requests EXCEPT ![r] = None]
    /\ UNCHANGED <<users, sessions, authTokens, identities>>

\* Magic link: an unknown address gets an account without a password.
request_magic_link(u, t) ==
    /\ users' = IF users[u].exists THEN users
                ELSE [users EXCEPT ![u].exists = TRUE]
    /\ _issue_single_use_token(t, u, "magic_link")
    /\ UNCHANGED <<sessions, identities, requests>>

consume_magic_link(t, n) ==
    /\ _consume_single_use_token(t, "magic_link")
    /\ users' = [users EXCEPT ![authTokens[t].user].verified = TRUE]
    /\ _issue_session(n, authTokens[t].user, t)
    /\ UNCHANGED <<identities, requests>>

request_email_verification(u, t) ==
    /\ users[u].exists
    /\ _issue_single_use_token(t, u, "email_verify")
    /\ UNCHANGED <<users, sessions, identities, requests>>

verify_email(t) ==
    /\ _consume_single_use_token(t, "email_verify")
    /\ users' = [users EXCEPT ![authTokens[t].user].verified = TRUE]
    /\ UNCHANGED <<sessions, identities, requests>>

request_password_reset(u, t) ==
    /\ users[u].exists
    /\ _issue_single_use_token(t, u, "password_reset")
    /\ UNCHANGED <<users, sessions, identities, requests>>

\* Spend the link, store the new password and revoke every live session, in one
\* transaction; requests under way go on with what they read before.
confirm_password_reset(t, p) ==
    /\ _consume_single_use_token(t, "password_reset")
    /\ LET u == authTokens[t].user IN
       /\ users' = [users EXCEPT ![u].password = p, ![u].format = "current"]
       /\ sessions' = Revoked(sessions, u, "password_reset")
    /\ UNCHANGED <<identities, requests>>

\* Sign-in with an identity provider: a known subject signs in to its account;
\* an unknown one is linked to the account with its address, created if need be.
oauth_login(x, u, emailVerified, n) ==
    /\ identities[x] \in {None, u}
    /\ identities' = [identities EXCEPT ![x] = u]
    /\ users' = [users EXCEPT ![u].exists = TRUE,
                              ![u].verified = @ \/ emailVerified]
    /\ _issue_session(n, u, "oauth")
    /\ UNCHANGED <<authTokens, requests>>

\* The clock passes a row's expires_at (of a spent row it is never read).
session_expires(s) ==
    /\ Live(s)
    /\ ~sessions[s].expired
    /\ sessions' = [sessions EXCEPT ![s].expired = TRUE]
    /\ UNCHANGED <<users, authTokens, identities, requests>>

token_expires(t) ==
    /\ authTokens[t] # None
    /\ ~authTokens[t].consumed
    /\ ~authTokens[t].expired
    /\ authTokens' = [authTokens EXCEPT ![t].expired = TRUE]
    /\ UNCHANGED <<users, sessions, identities, requests>>

\* Nothing in the code enables MFA: an account that has it was provisioned so.
Absent == [exists |-> FALSE, password |-> None, format |-> "current",
           verified |-> FALSE, mfa |-> FALSE]
Provisioned == [exists : {TRUE}, password : Passwords, format : {"legacy"},
                verified : {FALSE}, mfa : {TRUE}]

Init ==
    /\ users \in [Users -> {Absent} \cup Provisioned]
    /\ sessions = [s \in SessionIds |-> None]
    /\ authTokens = [t \in TokenIds |-> None]
    /\ identities = [x \in Subjects |-> None]
    /\ requests = [r \in Requests |-> None]

Next ==
    \/ \E u \in Users, p \in Passwords :
          \/ \E t \in TokenIds, n \in SessionIds : register(u, p, t, n)
          \/ legacy_register(u, p)
          \/ \E r \in Requests : login_check(r, u, p)
    \/ \E r \in Requests :
          \/ login_commit(r)
          \/ \E s \in SessionIds : refresh_check(r, s)
          \/ refresh_commit(r)
          \/ request_fails(r)
    \/ \E s \in SessionIds : logout(s) \/ session_expires(s)
    \/ \E u \in Users : logout_all(u)
    \/ \E t \in TokenIds :
          \/ \E u \in Users :
                \/ request_magic_link(u, t)
                \/ request_email_verification(u, t)
                \/ request_password_reset(u, t)
          \/ \E n \in SessionIds : consume_magic_link(t, n)
          \/ verify_email(t)
          \/ \E p \in Passwords : confirm_password_reset(t, p)
          \/ token_expires(t)
    \/ \E x \in Subjects, u \in Users, v \in BOOLEAN, n \in SessionIds :
          oauth_login(x, u, v, n)

Spec == Init /\ [][Next]_vars

(***************************************************************************)
(* Properties                                                              *)
(***************************************************************************)

\* Refresh retires the token it was called with, however many refreshes of it
\* are under way and whatever was done to the row between the SELECT and the
\* UPDATE: a session some other session was refreshed from is not live.
RotationRetires ==
    \A s \in Issued : sessions[s].via \in SessionIds => ~Live(sessions[s].via)

\* An e-mailed sign-in link is good for one session, even if it is redeemed by
\* two requests at once (the conditional UPDATE of _consume_single_use_token).
OneSessionPerLink ==
    \A s1, s2 \in Issued :
        sessions[s1].via \in TokenIds /\ sessions[s1].via = sessions[s2].via => s1 = s2

\* Both: what was exchanged for a session is spent.
TokensSpentOnce == RotationRetires /\ OneSessionPerLink

\* No step revives a revoked session, the unconditional UPDATEs of refresh
\* included.
RevocationIsPermanent ==
    [][\A s \in Issued : ~Live(s) => ~Live(s)']_vars
=============================================================================
