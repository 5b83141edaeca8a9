--------------------------- MODULE AccountsProofs ---------------------------
(***************************************************************************)
(* Sessions and access, for any accounts, sessions, links, signing keys    *)
(* and requests under way.                                                 *)
(***************************************************************************)
EXTENDS Sessions, Access, TLAPS

(***************************************************************************)
(* What was exchanged for a session is spent, and revocation is final, for *)
(* any accounts, any number of sessions, links and requests under way.     *)
(***************************************************************************)

\* As much of a request's type as the sessions depend on.
Sane(q) ==
    \/ q = None
    \/ /\ q.user \in Users
       /\ q.op \in {"login", "refresh"}
       /\ (q.op = "refresh" => q.sid \in SessionIds)

RequestsSane == DOMAIN requests = Requests /\ \A r \in Requests : Sane(requests[r])

Tables ==
    /\ sessions \in [SessionIds -> Session \cup {None}]
    /\ authTokens \in [TokenIds -> Token \cup {None}]
    /\ RequestsSane

\* A refresh under way read a row that exists; rows are never deleted.
RefreshesRead ==
    \A r \in Requests : requests[r] # None /\ requests[r].op = "refresh"
        => sessions[requests[r].sid] # None

\* A session refreshed from another one: that one existed and is spent.
OriginSpent ==
    \A s \in Issued : sessions[s].via \in SessionIds =>
        sessions[s].via \in Issued /\ ~Live(sessions[s].via)

\* A session from a link: the link is spent.
LinkSpent ==
    \A s \in Issued : sessions[s].via \in TokenIds =>
        authTokens[sessions[s].via] # None /\ authTokens[sessions[s].via].consumed

SessionsInv == Tables /\ RefreshesRead /\ OriginSpent /\ LinkSpent /\ OneSessionPerLink

(***************************************************************************)
(* What a step does to the rows, as far as the properties can tell.        *)
(***************************************************************************)

\* Rows stay, with what they were issued for, and stay revoked.
KeepsSessions ==
    \A s \in SessionIds : sessions[s] # None =>
        /\ sessions'[s] # None
        /\ sessions'[s].via = sessions[s].via
        /\ sessions[s].reason # "live" => sessions'[s].reason # "live"

\* Links stay, and stay spent.
KeepsTokens ==
    \A t \in TokenIds : authTokens[t] # None /\ authTokens[t].consumed =>
        authTokens'[t] # None /\ authTokens'[t].consumed

Fresh(n) == sessions[n] = None /\ sessions'[n] # None

\* At most one session is new, and what it was issued for is spent by the step.
NewIsPaidFor ==
    /\ \A n, m \in SessionIds : Fresh(n) /\ Fresh(m) => n = m
    /\ \A n \in SessionIds : Fresh(n) =>
          \/ sessions'[n].via \in SignIns
          \/ /\ sessions'[n].via \in TokenIds
             /\ ~authTokens[sessions'[n].via].consumed
             /\ authTokens'[sessions'[n].via] # None
             /\ authTokens'[sessions'[n].via].consumed
          \/ /\ sessions'[n].via \in SessionIds
             /\ sessions[sessions'[n].via] # None
             /\ sessions'[sessions'[n].via].reason # "live"

Effect == Tables' /\ RefreshesRead' /\ KeepsSessions /\ KeepsTokens /\ NewIsPaidFor

(***************************************************************************)
(* The shared steps.                                                       *)
(***************************************************************************)

\* Issuing a session takes a free id and changes no other session.
LEMMA IssueEffect ==
    ASSUME Tables, NEW n \in SessionIds, NEW u \in Users,
           NEW v \in SignIns \cup TokenIds, _issue_session(n, u, v)
    PROVE  /\ sessions' \in [SessionIds -> Session \cup {None}]
           /\ KeepsSessions
           /\ sessions[n] = None /\ sessions'[n] # None /\ sessions'[n].via = v
           /\ \A m \in SessionIds : m # n => sessions'[m] = sessions[m]
<1> DEFINE row == NewSession(u, v)
<1>1. row \in Session /\ row.via = v
    BY DEF NewSession, Session, Reasons, SignIns
<1>2. row # None
    BY <1>1, SessionsAssumption
<1>3. /\ sessions \in [SessionIds -> Session \cup {None}]
      /\ sessions[n] = None /\ sessions' = [sessions EXCEPT ![n] = row]
    BY DEF Tables, _issue_session
<1> HIDE DEF row
<1>4. sessions'[n] = row /\ \A m \in SessionIds : m # n => sessions'[m] = sessions[m]
    BY <1>3
<1> QED  BY <1>1, <1>2, <1>3, <1>4 DEF KeepsSessions

\* Revoking leaves sessions with what they were issued for.
LEMMA RevokedEffect ==
    ASSUME Tables, NEW u, NEW why \in Reasons, why # "live",
           sessions' = Revoked(sessions, u, why)
    PROVE  /\ sessions' \in [SessionIds -> Session \cup {None}]
           /\ KeepsSessions
           /\ \A s \in SessionIds : sessions[s] = None => sessions'[s] = None
<1>1. sessions \in [SessionIds -> Session \cup {None}]
    BY DEF Tables
<1>2. ASSUME NEW s \in SessionIds, sessions[s] # None
      PROVE  /\ sessions'[s] \in Session /\ sessions'[s] # None
             /\ sessions'[s].via = sessions[s].via
             /\ sessions[s].reason # "live" => sessions'[s].reason # "live"
    <2>1. sessions[s] \in Session
        BY <1>1, <1>2
    <2>2. CASE sessions'[s] = sessions[s]
        BY <1>2, <2>1, <2>2
    <2>3. CASE sessions'[s] = [sessions[s] EXCEPT !.reason = why]
        <3>1. sessions'[s] \in Session /\ sessions'[s].via = sessions[s].via
              /\ sessions'[s].reason = why
            BY <2>1, <2>3 DEF Session
        <3> QED  BY <3>1, SessionsAssumption
    <2> QED  BY <1>2, <2>2, <2>3 DEF Revoked
<1>3. \A s \in SessionIds : sessions[s] = None => sessions'[s] = None
    BY DEF Revoked
<1>4. sessions' \in [SessionIds -> Session \cup {None}]
    BY <1>2, <1>3 DEF Revoked
<1> QED  BY <1>2, <1>3, <1>4 DEF KeepsSessions

\* Consuming a link spends one that was not spent.
LEMMA ConsumeEffect ==
    ASSUME Tables, NEW t \in TokenIds, NEW purpose, _consume_single_use_token(t, purpose)
    PROVE  /\ authTokens' \in [TokenIds -> Token \cup {None}]
           /\ KeepsTokens
           /\ authTokens[t] \in Token /\ ~authTokens[t].consumed
           /\ authTokens'[t] # None /\ authTokens'[t].consumed
<1>1. /\ authTokens \in [TokenIds -> Token \cup {None}]
      /\ authTokens[t] \in Token /\ ~authTokens[t].consumed
      /\ authTokens' = [authTokens EXCEPT ![t].consumed = TRUE]
    BY DEF Tables, _consume_single_use_token
<1>2. /\ authTokens'[t] = [authTokens[t] EXCEPT !.consumed = TRUE]
      /\ \A k \in TokenIds : k # t => authTokens'[k] = authTokens[k]
    BY <1>1
<1>3. authTokens'[t] \in Token /\ authTokens'[t].consumed
    BY <1>1, <1>2 DEF Token
<1>4. authTokens'[t] # None
    BY <1>3, SessionsAssumption
<1>5. authTokens' \in [TokenIds -> Token \cup {None}]
    BY <1>1, <1>2, <1>3
<1> QED  BY <1>1, <1>2, <1>3, <1>4, <1>5 DEF KeepsTokens

\* Issuing a link adds one that is not spent.
LEMMA LinkEffect ==
    ASSUME Tables, NEW t \in TokenIds, NEW u \in Users, NEW purpose \in Purposes,
           _issue_single_use_token(t, u, purpose)
    PROVE  authTokens' \in [TokenIds -> Token \cup {None}] /\ KeepsTokens
<1> DEFINE row == [user |-> u, purpose |-> purpose, consumed |-> FALSE, expired |-> FALSE]
<1>1. row \in Token
    BY DEF Token
<1>2. /\ authTokens \in [TokenIds -> Token \cup {None}] /\ authTokens[t] = None
      /\ authTokens' = [authTokens EXCEPT ![t] = row]
    BY DEF Tables, _issue_single_use_token
<1> HIDE DEF row
<1> QED  BY <1>1, <1>2 DEF KeepsTokens

\* Refreshes under way stay sound when sessions keep and no refresh begins.
LEMMA RefreshesStay ==
    ASSUME Tables, RefreshesRead, KeepsSessions,
           \A r \in Requests : requests'[r] = requests[r] \/ requests'[r] = None
    PROVE  RefreshesRead'
<1>1. \A r \in Requests : requests[r] # None /\ requests[r].op = "refresh"
          => requests[r].sid \in SessionIds
    BY DEF Tables, RequestsSane, Sane
<1> QED  BY <1>1 DEF RefreshesRead, KeepsSessions

(***************************************************************************)
(* The operations.                                                         *)
(***************************************************************************)

LEMMA RegisterStep ==
    ASSUME SessionsInv, NEW u \in Users, NEW p, NEW t \in TokenIds, NEW n \in SessionIds,
           register(u, p, t, n)
    PROVE  Effect
<1>1. Tables /\ RefreshesRead /\ requests' = requests
    BY DEF SessionsInv, register
<1>2. authTokens' \in [TokenIds -> Token \cup {None}] /\ KeepsTokens
    BY <1>1, LinkEffect DEF register, Purposes
<1>3. /\ sessions' \in [SessionIds -> Session \cup {None}] /\ KeepsSessions
      /\ sessions'[n].via = "register"
      /\ \A m \in SessionIds : m # n => sessions'[m] = sessions[m]
    BY <1>1, IssueEffect DEF register, SignIns
<1>4. NewIsPaidFor
    BY <1>3 DEF NewIsPaidFor, Fresh, SignIns
<1> QED  BY <1>1, <1>2, <1>3, <1>4, RefreshesStay DEF Effect, Tables, RequestsSane

LEMMA LoginStep ==
    ASSUME SessionsInv, NEW r \in Requests, login_commit(r)
    PROVE  Effect
<1>1. /\ Tables /\ RefreshesRead /\ authTokens' = authTokens
      /\ requests' = [requests EXCEPT ![r] = None]
      /\ requests[r] # None /\ requests[r].op = "login"
    BY DEF SessionsInv, login_commit, Idle
<1>2. requests[r].user \in Users
    BY <1>1 DEF Tables, RequestsSane, Sane
<1>3. RequestsSane'
      /\ \A q \in Requests : requests'[q] = requests[q] \/ requests'[q] = None
    BY <1>1 DEF Tables, RequestsSane, Sane
<1>4. KeepsTokens
    BY <1>1 DEF KeepsTokens
<1>5. CASE sessions' = sessions
    <2>1. KeepsSessions /\ NewIsPaidFor
        BY <1>5 DEF KeepsSessions, NewIsPaidFor, Fresh
    <2> QED  BY <1>1, <1>3, <1>4, <1>5, <2>1, RefreshesStay DEF Effect, Tables
<1>6. ASSUME NEW n \in SessionIds, _issue_session(n, requests[r].user, "password")
      PROVE  Effect
    <2>1. /\ sessions' \in [SessionIds -> Session \cup {None}] /\ KeepsSessions
          /\ sessions'[n].via = "password"
          /\ \A m \in SessionIds : m # n => sessions'[m] = sessions[m]
        BY <1>1, <1>2, <1>6, IssueEffect DEF SignIns
    <2>2. NewIsPaidFor
        BY <2>1 DEF NewIsPaidFor, Fresh, SignIns
    <2> QED  BY <1>1, <1>3, <1>4, <2>1, <2>2, RefreshesStay DEF Effect, Tables
<1> QED  BY <1>5, <1>6 DEF login_commit

\* The rows that refresh writes: the new one, paid for with the old one.
LEMMA RotatedEffect ==
    ASSUME Tables, NEW u \in Users, NEW n \in SessionIds, NEW old \in SessionIds,
           sessions[n] = None, sessions[old] # None,
           sessions' = [sessions EXCEPT ![n] = NewSession(u, old),
                            ![old].reason = "rotated", ![old].rotatedTo = n]
    PROVE  sessions' \in [SessionIds -> Session \cup {None}] /\ KeepsSessions /\ NewIsPaidFor
<1> DEFINE row == NewSession(u, old)
<1>1. row \in Session /\ row.via = old
    BY DEF NewSession, Session, Reasons, SignIns
<1>2. row # None
    BY <1>1, SessionsAssumption
<1> HIDE DEF row
<1>3. sessions \in [SessionIds -> Session \cup {None}] /\ sessions[old] \in Session /\ n # old
    BY DEF Tables
<1>4. /\ sessions'[n] = row
      /\ sessions'[old] = [[sessions[old] EXCEPT !.reason = "rotated"] EXCEPT !.rotatedTo = n]
      /\ \A m \in SessionIds : m # n /\ m # old => sessions'[m] = sessions[m]
      /\ sessions' = [m \in SessionIds |-> sessions'[m]]
    BY <1>3 DEF row
<1>5. /\ sessions'[old] \in Session /\ sessions'[old].via = sessions[old].via
      /\ sessions'[old].reason = "rotated"
    <2>1. sessions[old] = [user |-> sessions[old].user, reason |-> sessions[old].reason,
                           expired |-> sessions[old].expired, rotatedTo |-> sessions[old].rotatedTo,
                           via |-> sessions[old].via]
        BY <1>3 DEF Session
    <2>2. sessions'[old] = [user |-> sessions[old].user, reason |-> "rotated",
                            expired |-> sessions[old].expired, rotatedTo |-> n,
                            via |-> sessions[old].via]
        BY <1>4, <2>1
    <2> QED  BY <1>3, <2>2 DEF Session, Reasons
<1>6. sessions'[old] # None
    BY <1>5, SessionsAssumption
<1>7. sessions' \in [SessionIds -> Session \cup {None}]
    BY <1>1, <1>3, <1>4, <1>5
<1>8. KeepsSessions
    BY <1>4, <1>5, <1>6 DEF KeepsSessions
<1>9. \A m \in SessionIds : Fresh(m) => m = n
    BY <1>4 DEF Fresh
<1>10. /\ sessions'[n].via = old /\ sessions[old] # None
       /\ sessions'[old].reason # "live"
    BY <1>1, <1>4, <1>5
<1>11. NewIsPaidFor
    BY <1>9, <1>10 DEF NewIsPaidFor
<1> QED  BY <1>7, <1>8, <1>11

LEMMA RefreshStep ==
    ASSUME SessionsInv, NEW r \in Requests, refresh_commit(r)
    PROVE  Effect
<1>1. /\ Tables /\ RefreshesRead /\ authTokens' = authTokens
      /\ requests' = [requests EXCEPT ![r] = None]
      /\ requests[r] # None /\ requests[r].op = "refresh"
    BY DEF SessionsInv, refresh_commit, Idle
<1>2. /\ requests[r].user \in Users /\ requests[r].sid \in SessionIds
      /\ sessions[requests[r].sid] # None
    BY <1>1 DEF Tables, RequestsSane, Sane, RefreshesRead
<1>3. PICK n \in SessionIds : sessions[n] = None /\ sessions' = Rotated(requests[r], n)
    BY DEF refresh_commit
<1>4. sessions' \in [SessionIds -> Session \cup {None}] /\ KeepsSessions /\ NewIsPaidFor
    BY <1>1, <1>2, <1>3, RotatedEffect DEF Rotated
<1>5. RequestsSane'
      /\ \A q \in Requests : requests'[q] = requests[q] \/ requests'[q] = None
    BY <1>1 DEF Tables, RequestsSane, Sane
<1>6. KeepsTokens
    BY <1>1 DEF KeepsTokens
<1> QED  BY <1>1, <1>4, <1>5, <1>6, RefreshesStay DEF Effect, Tables

\* One row gets another reason or expires.
LEMMA MarkedEffect ==
    ASSUME Tables, NEW s \in SessionIds, sessions[s] # None,
           \/ \E why \in Reasons \ {"live"} : sessions' = [sessions EXCEPT ![s].reason = why]
           \/ sessions' = [sessions EXCEPT ![s].expired = TRUE]
    PROVE  sessions' \in [SessionIds -> Session \cup {None}] /\ KeepsSessions /\ NewIsPaidFor
<1> DEFINE old == sessions[s]
<1>1. /\ sessions \in [SessionIds -> Session \cup {None}] /\ old \in Session
      /\ \A m \in SessionIds : m # s => sessions'[m] = sessions[m]
      /\ sessions' = [m \in SessionIds |-> sessions'[m]]
    BY DEF Tables
<1>2. old = [user |-> old.user, reason |-> old.reason, expired |-> old.expired,
             rotatedTo |-> old.rotatedTo, via |-> old.via]
    BY <1>1 DEF Session
<1>3. /\ sessions'[s] \in Session /\ sessions'[s].via = old.via
      /\ old.reason # "live" => sessions'[s].reason # "live"
    <2>1. CASE \E why \in Reasons \ {"live"} : sessions' = [sessions EXCEPT ![s].reason = why]
        <3>1. PICK why \in Reasons \ {"live"} : sessions' = [sessions EXCEPT ![s].reason = why]
            BY <2>1
        <3>2. sessions'[s] = [user |-> old.user, reason |-> why, expired |-> old.expired,
                              rotatedTo |-> old.rotatedTo, via |-> old.via]
            BY <1>1, <1>2, <3>1
        <3> QED  BY <1>1, <3>2 DEF Session
    <2>2. CASE sessions' = [sessions EXCEPT ![s].expired = TRUE]
        <3>1. sessions'[s] = [user |-> old.user, reason |-> old.reason, expired |-> TRUE,
                              rotatedTo |-> old.rotatedTo, via |-> old.via]
            BY <1>1, <1>2, <2>2
        <3> QED  BY <1>1, <3>1 DEF Session
    <2> QED  BY <2>1, <2>2
<1>4. sessions'[s] # None
    BY <1>3, SessionsAssumption
<1>5. sessions' \in [SessionIds -> Session \cup {None}]
    BY <1>1, <1>3
<1> QED  BY <1>1, <1>3, <1>4, <1>5 DEF KeepsSessions, NewIsPaidFor, Fresh

\* A step that leaves the sessions alone.
LEMMA OthersStep ==
    ASSUME Tables, RefreshesRead, UNCHANGED sessions, KeepsTokens,
           authTokens' \in [TokenIds -> Token \cup {None}],
           RequestsSane',
           \A r \in Requests : \/ requests'[r] = requests[r] \/ requests'[r] = None
                               \/ requests'[r].op = "login"
                               \/ sessions[requests'[r].sid] # None
    PROVE  Effect
BY DEF Tables, RefreshesRead, KeepsSessions, NewIsPaidFor, Fresh, Effect

\* A step that changes the sessions alone.
LEMMA SessionsOnly ==
    ASSUME Tables, RefreshesRead, UNCHANGED <<authTokens, requests>>,
           sessions' \in [SessionIds -> Session \cup {None}], KeepsSessions, NewIsPaidFor
    PROVE  Effect
BY RefreshesStay DEF Tables, RequestsSane, KeepsTokens, Effect

LEMMA RevokingStep ==
    ASSUME Tables, RefreshesRead, UNCHANGED <<authTokens, requests>>,
           NEW u, NEW why \in Reasons, why # "live", sessions' = Revoked(sessions, u, why)
    PROVE  Effect
BY RevokedEffect, SessionsOnly DEF NewIsPaidFor, Fresh

LEMMA RefreshCheckStep ==
    ASSUME SessionsInv, NEW r \in Requests, NEW s \in SessionIds, refresh_check(r, s)
    PROVE  Effect
<1>1. /\ Tables /\ RefreshesRead /\ authTokens' = authTokens
      /\ s \in Issued /\ sessions[s] # None /\ sessions[s] \in Session
    BY DEF SessionsInv, refresh_check, Issued, Tables
<1>2. CASE sessions' = Revoked(sessions, sessions[s].user, "reuse_detected") /\ UNCHANGED requests
    BY <1>1, <1>2, RevokingStep DEF Reasons
<1>3. CASE sessions' = [sessions EXCEPT ![s].reason = "expired"] /\ UNCHANGED requests
    <2>1. \E why \in Reasons \ {"live"} : sessions' = [sessions EXCEPT ![s].reason = why]
        BY <1>3 DEF Reasons
    <2> QED  BY <1>1, <1>3, <2>1, MarkedEffect, SessionsOnly
<1>4. CASE /\ requests' = [requests EXCEPT ![r] =
                  [op |-> "refresh", user |-> sessions[s].user, sid |-> s]]
           /\ UNCHANGED sessions
    <2> DEFINE new == [op |-> "refresh", user |-> sessions[s].user, sid |-> s]
    <2>1. Sane(new) /\ new.sid = s
        BY <1>1 DEF Session, Sane
    <2>2. RequestsSane /\ requests' = [requests EXCEPT ![r] = new]
        BY <1>1, <1>4 DEF Tables
    <2> HIDE DEF new
    <2>3. RequestsSane'
          /\ \A q \in Requests : \/ requests'[q] = requests[q] \/ requests'[q] = None
                                 \/ requests'[q].op = "login"
                                 \/ sessions[requests'[q].sid] # None
        BY <1>1, <2>1, <2>2 DEF RequestsSane
    <2>4. KeepsTokens /\ authTokens' \in [TokenIds -> Token \cup {None}]
        BY <1>1 DEF KeepsTokens, Tables
    <2> QED  BY <1>1, <1>4, <2>3, <2>4, OthersStep
<1> QED  BY <1>2, <1>3, <1>4 DEF refresh_check

LEMMA LoginCheckStep ==
    ASSUME SessionsInv, NEW r \in Requests, NEW u \in Users, NEW p, login_check(r, u, p)
    PROVE  Effect
<1> DEFINE new == [op |-> "login", user |-> u, password |-> p,
                   rehash |-> users[u].format = "legacy", mfa |-> users[u].mfa]
<1>1. /\ Tables /\ RefreshesRead /\ authTokens' = authTokens /\ UNCHANGED sessions
      /\ requests' = [requests EXCEPT ![r] = new]
    BY DEF SessionsInv, login_check
<1>2. Sane(new) /\ new.op = "login"
    BY DEF Sane
<1> HIDE DEF new
<1>3. RequestsSane'
      /\ \A q \in Requests : \/ requests'[q] = requests[q] \/ requests'[q] = None
                             \/ requests'[q].op = "login"
                             \/ sessions[requests'[q].sid] # None
    BY <1>1, <1>2 DEF Tables, RequestsSane
<1>4. KeepsTokens /\ authTokens' \in [TokenIds -> Token \cup {None}]
    BY <1>1 DEF KeepsTokens, Tables
<1> QED  BY <1>1, <1>3, <1>4, OthersStep

LEMMA MagicLinkStep ==
    ASSUME SessionsInv, NEW t \in TokenIds, NEW n \in SessionIds, consume_magic_link(t, n)
    PROVE  Effect
<1>1. Tables /\ RefreshesRead /\ requests' = requests
    BY DEF SessionsInv, consume_magic_link
<1>2. /\ authTokens' \in [TokenIds -> Token \cup {None}] /\ KeepsTokens
      /\ authTokens[t] \in Token /\ ~authTokens[t].consumed
      /\ authTokens'[t] # None /\ authTokens'[t].consumed
    BY <1>1, ConsumeEffect DEF consume_magic_link
<1>3. authTokens[t].user \in Users
    BY <1>2 DEF Token
<1>4. /\ sessions' \in [SessionIds -> Session \cup {None}] /\ KeepsSessions
      /\ sessions'[n].via = t
      /\ \A m \in SessionIds : m # n => sessions'[m] = sessions[m]
    BY <1>1, <1>3, IssueEffect DEF consume_magic_link
<1>5. NewIsPaidFor
    BY <1>2, <1>4 DEF NewIsPaidFor, Fresh
<1> QED  BY <1>1, <1>2, <1>4, <1>5, RefreshesStay DEF Effect, Tables, RequestsSane

LEMMA ResetStep ==
    ASSUME SessionsInv, NEW t \in TokenIds, NEW p, confirm_password_reset(t, p)
    PROVE  Effect
<1>1. /\ Tables /\ RefreshesRead /\ requests' = requests
      /\ sessions' = Revoked(sessions, authTokens[t].user, "password_reset")
    BY DEF SessionsInv, confirm_password_reset
<1>2. authTokens' \in [TokenIds -> Token \cup {None}] /\ KeepsTokens
    BY <1>1, ConsumeEffect DEF confirm_password_reset
<1>3. /\ sessions' \in [SessionIds -> Session \cup {None}] /\ KeepsSessions
      /\ \A s \in SessionIds : sessions[s] = None => sessions'[s] = None
    BY <1>1, RevokedEffect DEF Reasons
<1>4. NewIsPaidFor
    BY <1>3 DEF NewIsPaidFor, Fresh
<1> QED  BY <1>1, <1>2, <1>3, <1>4, RefreshesStay DEF Effect, Tables, RequestsSane

LEMMA OAuthStep ==
    ASSUME SessionsInv, NEW x, NEW u \in Users, NEW v, NEW n \in SessionIds,
           oauth_login(x, u, v, n)
    PROVE  Effect
<1>1. Tables /\ RefreshesRead /\ UNCHANGED <<authTokens, requests>>
    BY DEF SessionsInv, oauth_login
<1>2. /\ sessions' \in [SessionIds -> Session \cup {None}] /\ KeepsSessions
      /\ sessions'[n].via = "oauth"
      /\ \A m \in SessionIds : m # n => sessions'[m] = sessions[m]
    BY <1>1, IssueEffect DEF oauth_login, SignIns
<1>3. NewIsPaidFor
    BY <1>2 DEF NewIsPaidFor, Fresh, SignIns
<1> QED  BY <1>1, <1>2, <1>3, SessionsOnly

\* Links are issued, redeemed without a session, and expire.
LEMMA LinkStep ==
    ASSUME SessionsInv, NEW t \in TokenIds, UNCHANGED <<sessions, requests>>,
           \/ \E u \in Users, purpose \in Purposes : _issue_single_use_token(t, u, purpose)
           \/ _consume_single_use_token(t, "email_verify")
           \/ token_expires(t)
    PROVE  Effect
<1>1. /\ Tables /\ RefreshesRead /\ RequestsSane'
    BY DEF SessionsInv, Tables, RequestsSane
<1>2. CASE \E u \in Users, purpose \in Purposes : _issue_single_use_token(t, u, purpose)
    BY <1>1, <1>2, LinkEffect, OthersStep
<1>3. CASE _consume_single_use_token(t, "email_verify")
    BY <1>1, <1>3, ConsumeEffect, OthersStep
<1>4. CASE token_expires(t)
    <2>1. /\ authTokens \in [TokenIds -> Token \cup {None}] /\ authTokens[t] \in Token
          /\ ~authTokens[t].consumed
          /\ authTokens' = [authTokens EXCEPT ![t].expired = TRUE]
        BY <1>1, <1>4 DEF Tables, token_expires
    <2>2. [authTokens[t] EXCEPT !.expired = TRUE] \in Token
        BY <2>1 DEF Token
    <2>3. authTokens' \in [TokenIds -> Token \cup {None}]
        BY <2>1, <2>2
    <2>4. KeepsTokens
        BY <2>1 DEF KeepsTokens
    <2> QED  BY <1>1, <2>3, <2>4, OthersStep
<1> QED  BY <1>2, <1>3, <1>4


(***************************************************************************)
(* The invariant and the theorems.                                         *)
(***************************************************************************)

\* Every step has an effect of the kinds above.
LEMMA NextEffect ==
    ASSUME SessionsInv, [Next]_vars
    PROVE  Effect
<1>1. Tables /\ RefreshesRead
    BY DEF SessionsInv
<1>2. ASSUME NEW u \in Users, NEW p \in Passwords,
             \/ \E t \in TokenIds, n \in SessionIds : register(u, p, t, n)
             \/ legacy_register(u, p)
             \/ \E r \in Requests : login_check(r, u, p)
      PROVE  Effect
    <2>1. CASE legacy_register(u, p)
        BY <1>1, <2>1, OthersStep DEF legacy_register, KeepsTokens, Tables, RequestsSane
    <2> QED  BY <1>2, <2>1, RegisterStep, LoginCheckStep
<1>3. ASSUME NEW r \in Requests,
             \/ login_commit(r)
             \/ \E s \in SessionIds : refresh_check(r, s)
             \/ refresh_commit(r)
             \/ request_fails(r)
      PROVE  Effect
    <2>1. CASE request_fails(r)
        <3>1. UNCHANGED <<sessions, authTokens>> /\ requests' = [requests EXCEPT ![r] = None]
            BY <2>1 DEF request_fails
        <3>2. RequestsSane' /\ \A q \in Requests : requests'[q] = requests[q] \/ requests'[q] = None
            BY <1>1, <3>1 DEF Tables, RequestsSane, Sane
        <3>3. KeepsTokens /\ authTokens' \in [TokenIds -> Token \cup {None}]
            BY <1>1, <3>1 DEF KeepsTokens, Tables
        <3> QED  BY <1>1, <3>1, <3>2, <3>3, OthersStep
    <2> QED  BY <1>3, <2>1, LoginStep, RefreshCheckStep, RefreshStep
<1>4. ASSUME NEW s \in SessionIds, logout(s) \/ session_expires(s)
      PROVE  Effect
    <2>1. /\ sessions[s] # None /\ UNCHANGED <<authTokens, requests>>
          /\ \/ \E why \in Reasons \ {"live"} : sessions' = [sessions EXCEPT ![s].reason = why]
             \/ sessions' = [sessions EXCEPT ![s].expired = TRUE]
        BY <1>4 DEF logout, session_expires, Live, Issued, Reasons
    <2> QED  BY <1>1, <2>1, MarkedEffect, SessionsOnly
<1>5. ASSUME NEW u \in Users, logout_all(u)
      PROVE  Effect
    BY <1>1, <1>5, RevokingStep DEF logout_all, Reasons
<1>6. ASSUME NEW t \in TokenIds, NEW u \in Users,
             \/ request_magic_link(u, t)
             \/ request_email_verification(u, t)
             \/ request_password_reset(u, t)
      PROVE  Effect
    <2>1. UNCHANGED <<sessions, requests>>
          /\ \E purpose \in Purposes : _issue_single_use_token(t, u, purpose)
        BY <1>6 DEF request_magic_link, request_email_verification,
                    request_password_reset, Purposes
    <2> QED  BY <2>1, LinkStep
<1>7. ASSUME NEW t \in TokenIds,
             \/ \E n \in SessionIds : consume_magic_link(t, n)
             \/ verify_email(t)
             \/ \E p \in Passwords : confirm_password_reset(t, p)
             \/ token_expires(t)
      PROVE  Effect
    <2>1. CASE verify_email(t)
        BY <2>1, LinkStep DEF verify_email
    <2>2. CASE token_expires(t)
        BY <2>2, LinkStep DEF token_expires
    <2> QED  BY <1>7, <2>1, <2>2, MagicLinkStep, ResetStep
<1>8. ASSUME UNCHANGED vars
      PROVE  Effect
    BY <1>1, <1>8, OthersStep DEF vars, KeepsTokens, Tables, RequestsSane
<1> QED  BY <1>2, <1>3, <1>4, <1>5, <1>6, <1>7, <1>8, OAuthStep DEF Next

\* Every effect keeps the invariant.
LEMMA InvStep ==
    ASSUME SessionsInv, [Next]_vars
    PROVE  SessionsInv'
<1>1. /\ Tables /\ OriginSpent /\ LinkSpent /\ OneSessionPerLink
      /\ Tables' /\ RefreshesRead' /\ KeepsSessions /\ KeepsTokens /\ NewIsPaidFor
    BY NextEffect DEF SessionsInv, Effect
<1>2. \A s \in SessionIds : sessions'[s] # None =>
          sessions[s] # None \/ Fresh(s)
    BY DEF Fresh
<1>3. OriginSpent'
    <2>1. ASSUME NEW s \in SessionIds, sessions[s] # None, sessions'[s].via \in SessionIds
          PROVE  sessions'[sessions'[s].via] # None /\ sessions'[sessions'[s].via].reason # "live"
        BY <1>1, <2>1 DEF OriginSpent, KeepsSessions, Issued, Live
    <2>2. ASSUME NEW s \in SessionIds, Fresh(s), sessions'[s].via \in SessionIds
          PROVE  sessions'[sessions'[s].via] # None /\ sessions'[sessions'[s].via].reason # "live"
        BY <1>1, <2>2, SessionsAssumption DEF NewIsPaidFor, KeepsSessions
    <2> QED  BY <1>2, <2>1, <2>2 DEF OriginSpent, Issued, Live
<1>4. LinkSpent'
    <2>1. ASSUME NEW s \in SessionIds, sessions[s] # None, sessions'[s].via \in TokenIds
          PROVE  authTokens'[sessions'[s].via] # None /\ authTokens'[sessions'[s].via].consumed
        BY <1>1, <2>1 DEF LinkSpent, KeepsSessions, KeepsTokens, Issued
    <2>2. ASSUME NEW s \in SessionIds, Fresh(s), sessions'[s].via \in TokenIds
          PROVE  authTokens'[sessions'[s].via] # None /\ authTokens'[sessions'[s].via].consumed
        BY <1>1, <2>2, SessionsAssumption DEF NewIsPaidFor
    <2> QED  BY <1>2, <2>1, <2>2 DEF LinkSpent, Issued
<1>5. OneSessionPerLink'
    <2>1. ASSUME NEW s \in SessionIds, NEW n \in SessionIds, sessions[s] # None, Fresh(n),
                 sessions'[n].via \in TokenIds, sessions'[n].via = sessions'[s].via
          PROVE  FALSE
        <3>1. ~authTokens[sessions'[n].via].consumed
            BY <1>1, <2>1, SessionsAssumption DEF NewIsPaidFor
        <3>2. authTokens[sessions[s].via].consumed /\ sessions'[s].via = sessions[s].via
            BY <1>1, <2>1 DEF LinkSpent, KeepsSessions, Issued
        <3> QED  BY <2>1, <3>1, <3>2
    <2>2. ASSUME NEW s \in SessionIds, NEW m \in SessionIds,
                 sessions[s] # None, sessions[m] # None,
                 sessions'[s].via \in TokenIds, sessions'[s].via = sessions'[m].via
          PROVE  s = m
        BY <1>1, <2>2 DEF OneSessionPerLink, KeepsSessions, Issued
    <2>3. \A n, m \in SessionIds : Fresh(n) /\ Fresh(m) => n = m
        BY <1>1 DEF NewIsPaidFor
    <2> QED  BY <1>2, <2>1, <2>2, <2>3 DEF OneSessionPerLink, Issued
<1> QED  BY <1>1, <1>3, <1>4, <1>5 DEF SessionsInv

LEMMA InitInv == Init => SessionsInv
BY SessionsAssumption DEF Init, SessionsInv, Tables, RequestsSane, Sane, RefreshesRead,
   OriginSpent, LinkSpent, OneSessionPerLink, Issued

LEMMA Invariance == Spec => []SessionsInv
<1>1. SessionsInv /\ [Next]_vars => SessionsInv'
    BY InvStep
<1> QED  BY InitInv, <1>1, PTL DEF Spec

(***************************************************************************)
(* A refresh token and an e-mailed link are exchanged for one session and  *)
(* are spent by it, however many requests race: refresh decides on a row   *)
(* it has not locked (auth/service.py:400), links are consumed by a        *)
(* conditional UPDATE.                                                     *)
(***************************************************************************)
THEOREM SpentOnce == Spec => []TokensSpentOnce
<1>1. SessionsInv => TokensSpentOnce
    BY DEF SessionsInv, OriginSpent, TokensSpentOnce, RotationRetires, OneSessionPerLink, Issued
<1> QED  BY Invariance, <1>1, PTL

(***************************************************************************)
(* No request revives a revoked session: not a refresh that read it while  *)
(* it was live, nor a log-out, reset or replay that meets another one.     *)
(***************************************************************************)
THEOREM RevokedForGood == Spec => RevocationIsPermanent
<1>1. SessionsInv /\ [Next]_vars => [\A s \in Issued : ~Live(s) => ~Live(s)']_vars
    BY NextEffect DEF Effect, KeepsSessions, Issued, Live
<1> QED  BY Invariance, <1>1, PTL DEF Spec, RevocationIsPermanent

-----------------------------------------------------------------------------

(***************************************************************************)
(* A key that its provider has withdrawn is trusted for no longer than the *)
(* key cache keeps it, and nobody is let into a case that is not theirs.   *)
(***************************************************************************)

CallerSteps == {"idle", "fetching", "fetched", "identified", "refused", "admitted"}

CallerState == [at : CallerSteps, ask : Asks, since : Nat, keys : SUBSET SigningKeys,
                user : People \cup {Nil}]

Services == {"own", "provider"}

AccessTypes ==
    /\ clock \in Nat /\ config \in Configs
    /\ published \subseteq SigningKeys
    /\ withdrawn \in [SigningKeys -> Int]
    /\ jwks \in [Services -> {Nil} \cup [keys : SUBSET SigningKeys, at : Nat]]
    /\ callers \in [Callers -> {Nil} \cup CallerState]

\* The server runs in production only with verified tokens.
StartedSafely == validate_startup_config(config)

\* Keys read at time t: those still published and those withdrawn since.
KeysAsOf(keys, t) == \A k \in keys : k \in published \/ withdrawn[k] >= t

\* An ask whose token is verified with published keys.
KeyedAsk(a) ==
    /\ a.token # Nil /\ a.token.alg = "RS256"
    /\ a.route = "signin" \/ (config.mode = "jwt" /\ config.verifier = "jwks")

\* A fetch in flight is younger than its limit, and its answer than the fetch.
FetchInv(q) ==
    q.at \in {"fetching", "fetched"} =>
        /\ KeyedAsk(q.ask)
        /\ q.since <= clock /\ clock - q.since <= FetchLimit
        /\ q.at = "fetched" => KeysAsOf(q.keys, q.since)

\* Where tokens are required, an identity is the subject of a sound token.
IdentityInv(q) ==
    q.at = "identified" /\ config.mode = "jwt" /\ q.ask.route # "signin" /\ q.user # Nil =>
        q.ask.token # Nil /\ q.ask.token.sound /\ q.user = q.ask.token.sub

CacheInv ==
    \A s \in Services : jwks[s] # Nil =>
        /\ jwks[s].at <= clock
        /\ KeysAsOf(jwks[s].keys, jwks[s].at - FetchLimit)

CallersInv ==
    \A r \in Callers : callers[r] # Nil => FetchInv(callers[r]) /\ IdentityInv(callers[r])

AccessInv == AccessTypes /\ StartedSafely /\ CacheInv /\ CallersInv

\* Nothing is cached and nobody asks.
LEMMA AccessInitInv == AccessInit => AccessInv
BY DEF AccessInit, AccessInv, AccessTypes, StartedSafely, CacheInv, CallersInv, Services

\* What a token or an ask holds.
LEMMA AskTypes ==
    ASSUME NEW a \in Asks
    PROVE  /\ a.token # Nil => a.token.sub \in People /\ a.token.signedBy \in SigningKeys \cup {Secret}
           /\ a.header \in People \cup {Nil}
<1>1. a.token \in {Nil} \cup [alg : {"RS256", "HS256"}, signedBy : SigningKeys \cup {Secret},
                              kid : SigningKeys \cup {Nil}, sub : People, sound : BOOLEAN]
  BY AccessAssumption
<1>2. a.header \in People \cup {Nil}
  BY AccessAssumption
<1> QED BY <1>1, <1>2

\* One caller moves on.
LEMMA OneCallerMoves ==
    ASSUME AccessInv, NEW r \in Callers, NEW q \in CallerState,
           callers' = [callers EXCEPT ![r] = q],
           UNCHANGED <<clock, config, published, withdrawn>>,
           jwks' \in [Services -> {Nil} \cup [keys : SUBSET SigningKeys, at : Nat]], CacheInv',
           FetchInv(q), IdentityInv(q)
    PROVE  AccessInv'
<1> USE DEF AccessInv
<1>1. /\ callers' \in [Callers -> {Nil} \cup CallerState] /\ callers'[r] = q
      /\ \A o \in Callers : o # r => callers'[o] = callers[o]
  BY DEF AccessTypes
<1>2. AccessTypes' /\ StartedSafely' /\ CacheInv'
  BY <1>1 DEF AccessTypes, StartedSafely
<1>3. \A p : FetchInv(p) /\ IdentityInv(p) => FetchInv(p)' /\ IdentityInv(p)'
  BY DEF FetchInv, IdentityInv, KeysAsOf, KeyedAsk
<1>4. CallersInv'
  <2> SUFFICES ASSUME NEW o \in Callers, callers'[o] # Nil
               PROVE  FetchInv(callers[o])' /\ IdentityInv(callers[o])'
    BY DEF CallersInv
  <2>1. PICK p : p = callers'[o] /\ FetchInv(p) /\ IdentityInv(p)
    BY <1>1 DEF CallersInv
  <2> QED BY <1>3, <2>1 DEF FetchInv, IdentityInv, KeysAsOf, KeyedAsk
<1> QED BY <1>2, <1>4

\* A step that neither fetches, withdraws nor ticks leaves the cache as honest as it was.
LEMMA CacheKept ==
    ASSUME AccessInv, UNCHANGED <<clock, published, withdrawn, jwks>>
    PROVE  jwks' \in [Services -> {Nil} \cup [keys : SUBSET SigningKeys, at : Nat]] /\ CacheInv'
BY DEF AccessInv, AccessTypes, CacheInv, KeysAsOf

\* A request moves on with the ask it came with.
LEMMA TurnMoves ==
    ASSUME NEW r \in Callers, callers[r] \in CallerState, NEW user \in People \cup {Nil},
           NEW step \in {"identified", "refused", "admitted"}, Turn(r, step, user)
    PROVE  \E q \in CallerState : /\ callers' = [callers EXCEPT ![r] = q]
                                  /\ q.at = step /\ q.ask = callers[r].ask /\ q.user = user
<1>1. PICK a \in Asks : a = callers[r].ask
  BY DEF CallerState
<1>2. PICK w : w = Waiting(a)
  OBVIOUS
<1>3. PICK q : q = [w EXCEPT !.at = step, !.user = user]
  OBVIOUS
<1>4. /\ q.at = step /\ q.user = user /\ q.ask = a /\ q.since = 0 /\ q.keys = {}
      /\ q \in [at : {step}, ask : {a}, since : {0}, keys : {{}}, user : {user}]
  BY <1>2, <1>3 DEF Waiting
<1>5. q \in CallerState
  BY <1>4 DEF CallerState, CallerSteps
<1>6. callers' = [callers EXCEPT ![r] = q]
  BY <1>1, <1>2, <1>3 DEF Turn
<1> QED BY <1>1, <1>4, <1>5, <1>6

\* Only a key among those at hand identifies, whichever service verifies.
LEMMA VerifiedMoves ==
    ASSUME NEW r \in Callers, callers[r] \in CallerState, NeedsKeys(r),
           NEW keys \in SUBSET SigningKeys, Verified(r, keys)
    PROVE  \E q \in CallerState :
              /\ callers' = [callers EXCEPT ![r] = q]
              /\ q.at \in {"identified", "refused"} /\ q.ask = callers[r].ask
              /\ q.at = "identified" => q.ask.token.signedBy \in keys
              /\ IdentityInv(q)
<1>1. PICK tok : tok = callers[r].ask.token
  OBVIOUS
<1>2. callers[r].ask \in Asks
  BY DEF CallerState
<1>3. tok # Nil /\ tok.sub \in People
  BY <1>1, <1>2, AskTypes DEF NeedsKeys
<1>4. ASSUME NEW step \in {"identified", "refused"}, NEW user \in People \cup {Nil},
             Turn(r, step, user),
             step = "identified" => tok.signedBy \in keys /\ tok.sound /\ user = tok.sub
      PROVE  \E q \in CallerState :
                /\ callers' = [callers EXCEPT ![r] = q]
                /\ q.at \in {"identified", "refused"} /\ q.ask = callers[r].ask
                /\ q.at = "identified" => q.ask.token.signedBy \in keys
                /\ IdentityInv(q)
  BY <1>1, <1>3, <1>4, TurnMoves DEF IdentityInv
<1>5. CASE Service(r) = "own"
  <2>1. CASE _verify_jwt_rs256(tok, keys)
    <3>1. tok.signedBy \in keys /\ tok.sound
      BY <2>1 DEF _verify_jwt_rs256, _find_jwks_key
    <3>2. Turn(r, "identified", tok.sub)
      BY <1>1, <1>5, <2>1 DEF Verified
    <3> QED BY <1>3, <1>4, <3>1, <3>2
  <2>2. CASE ~ _verify_jwt_rs256(tok, keys)
    <3>1. Turn(r, "refused", Nil)
      BY <1>1, <1>5, <2>2 DEF Verified
    <3> QED BY <1>4, <3>1
  <2> QED BY <2>1, <2>2
<1>6. CASE Service(r) # "own"
  <2>1. CASE \E k \in FirstMatching(keys, tok.kid) :
                 Turn(r, IF verify_id_token(tok, k) THEN "identified" ELSE "refused",
                         IF verify_id_token(tok, k) THEN tok.sub ELSE Nil)
    <3>1. PICK k \in keys : Turn(r, IF verify_id_token(tok, k) THEN "identified" ELSE "refused",
                                    IF verify_id_token(tok, k) THEN tok.sub ELSE Nil)
      BY <2>1 DEF FirstMatching
    <3>2. CASE verify_id_token(tok, k)
      <4>1. tok.signedBy \in keys /\ tok.sound /\ Turn(r, "identified", tok.sub)
        BY <3>1, <3>2 DEF verify_id_token
      <4> QED BY <1>3, <1>4, <4>1
    <3>3. CASE ~ verify_id_token(tok, k)
      <4>1. Turn(r, "refused", Nil)
        BY <3>1, <3>3
      <4> QED BY <1>4, <4>1
    <3> QED BY <3>2, <3>3
  <2>2. CASE Turn(r, "refused", Nil)
    BY <1>4, <2>2
  <2> QED BY <1>1, <1>6, <2>1, <2>2 DEF Verified
<1> QED BY <1>5, <1>6

\* With cached keys: the key was withdrawn less than a lifetime and a fetch ago.
LEMMA UseCachedStep ==
    ASSUME AccessInv, NEW r \in Callers, UseCachedKeys(r)
    PROVE  /\ AccessInv'
           /\ At(r, "identified")' =>
                 LET k == callers[r].ask.token.signedBy
                 IN  k \in published \/ clock - withdrawn[k] < KeyTTL[Service(r)] + FetchLimit
<1>1. /\ callers[r] # Nil /\ callers[r] \in CallerState /\ NeedsKeys(r) /\ CachedKeys(Service(r))
      /\ UNCHANGED <<clock, config, published, withdrawn, jwks>>
  BY DEF UseCachedKeys, At, AccessInv, AccessTypes
<1>2. PICK s \in Services : s = Service(r)
  BY DEF Services, Service
<1>3. /\ jwks[s] # Nil /\ clock - jwks[s].at < KeyTTL[s]
      /\ jwks[s] \in [keys : SUBSET SigningKeys, at : Nat]
      /\ KeysAsOf(jwks[s].keys, jwks[s].at - FetchLimit)
  BY <1>1, <1>2 DEF CachedKeys, AccessInv, AccessTypes, CacheInv
<1>4. PICK keys \in SUBSET SigningKeys, at \in Nat : keys = jwks[s].keys /\ at = jwks[s].at
  BY <1>3
<1>5. Verified(r, keys)
  BY <1>2, <1>4 DEF UseCachedKeys
<1>6. PICK q \in CallerState :
              /\ callers' = [callers EXCEPT ![r] = q]
              /\ q.at \in {"identified", "refused"} /\ q.ask = callers[r].ask
              /\ q.at = "identified" => q.ask.token.signedBy \in keys
              /\ IdentityInv(q)
  BY <1>1, <1>5, VerifiedMoves
<1>7. AccessInv'
  BY <1>1, <1>6, CacheKept, OneCallerMoves DEF FetchInv
<1>8. ASSUME At(r, "identified")'
      PROVE  LET k == callers[r].ask.token.signedBy
             IN  k \in published \/ clock - withdrawn[k] < KeyTTL[Service(r)] + FetchLimit
  <2>1. PICK k \in keys : k = callers[r].ask.token.signedBy
    BY <1>6, <1>8 DEF At, AccessInv, AccessTypes
  <2>2. k \in published \/ withdrawn[k] >= at - FetchLimit
    BY <1>3, <1>4 DEF KeysAsOf
  <2>3. clock \in Nat /\ withdrawn[k] \in Int /\ KeyTTL[s] \in Nat /\ FetchLimit \in Nat
    BY AccessAssumption DEF AccessInv, AccessTypes, Services
  <2> QED BY <1>2, <1>3, <1>4, <2>1, <2>2, <2>3
<1> QED BY <1>7, <1>8

\* With keys just fetched, which are cached from now on.
LEMMA StoreStep ==
    ASSUME AccessInv, NEW r \in Callers, StoreKeys(r)
    PROVE  /\ AccessInv'
           /\ At(r, "identified")' =>
                 LET k == callers[r].ask.token.signedBy
                 IN  k \in published \/ clock - withdrawn[k] < KeyTTL[Service(r)] + FetchLimit
<1>1. /\ callers[r] # Nil /\ callers[r] \in CallerState /\ callers[r].at = "fetched"
      /\ UNCHANGED <<clock, config, published, withdrawn>>
      /\ FetchInv(callers[r]) /\ NeedsKeys(r)
  BY DEF StoreKeys, At, AccessInv, AccessTypes, CallersInv, FetchInv, KeyedAsk, NeedsKeys
<1>2. PICK keys \in SUBSET SigningKeys, since \in Nat :
         keys = callers[r].keys /\ since = callers[r].since
  BY <1>1 DEF CallerState
<1>3. since <= clock /\ clock - since <= FetchLimit /\ KeysAsOf(keys, since) /\ clock \in Nat
  BY <1>1, <1>2 DEF FetchInv, AccessInv, AccessTypes
<1>4. CASE Turn(r, "refused", Nil) /\ UNCHANGED jwks
  <2>1. PICK q \in CallerState : callers' = [callers EXCEPT ![r] = q] /\ q.at = "refused"
    BY <1>1, <1>4, TurnMoves
  <2>2. AccessInv'
    BY <1>1, <1>4, <2>1, CacheKept, OneCallerMoves DEF FetchInv, IdentityInv
  <2>3. ~ At(r, "identified")'
    BY <2>1 DEF At, AccessInv, AccessTypes
  <2> QED BY <2>2, <2>3
<1>5. CASE /\ jwks' = [jwks EXCEPT ![Service(r)] = [keys |-> keys, at |-> clock]]
           /\ Verified(r, keys)
  <2>1. PICK s \in Services : s = Service(r)
    BY DEF Services, Service
  <2>2. PICK e \in [keys : SUBSET SigningKeys, at : Nat] : e = [keys |-> keys, at |-> clock]
    BY <1>3
  <2>3. jwks' \in [Services -> {Nil} \cup [keys : SUBSET SigningKeys, at : Nat]]
    BY <1>5, <2>1, <2>2 DEF AccessInv, AccessTypes
  <2>4. KeysAsOf(keys, clock - FetchLimit)
    <3> SUFFICES ASSUME NEW k \in keys PROVE k \in published \/ withdrawn[k] >= clock - FetchLimit
      BY DEF KeysAsOf
    <3>1. withdrawn[k] \in Int /\ FetchLimit \in Nat
      BY AccessAssumption DEF AccessInv, AccessTypes
    <3> QED BY <1>3, <3>1 DEF KeysAsOf
  <2>5. CacheInv'
    <3> SUFFICES ASSUME NEW t \in Services, jwks'[t] # Nil
                 PROVE  jwks'[t].at <= clock /\ KeysAsOf(jwks'[t].keys, jwks'[t].at - FetchLimit)
      BY <1>1 DEF CacheInv, KeysAsOf
    <3>1. CASE t = s
      <4>1. jwks'[t] = e /\ e.at = clock /\ e.keys = keys
        BY <1>5, <2>1, <2>2, <3>1 DEF AccessInv, AccessTypes
      <4> QED BY <1>3, <2>4, <4>1
    <3>2. CASE t # s
      <4>1. jwks'[t] = jwks[t]
        BY <1>5, <2>1, <3>2 DEF AccessInv, AccessTypes
      <4> QED BY <4>1 DEF AccessInv, CacheInv
    <3> QED BY <3>1, <3>2
  <2>6. ASSUME NEW q \in CallerState, callers' = [callers EXCEPT ![r] = q],
               q.at \in {"identified", "refused"}, IdentityInv(q)
        PROVE  AccessInv'
    BY <1>1, <2>3, <2>5, <2>6, OneCallerMoves DEF FetchInv
  <2>7. PICK q \in CallerState :
            /\ callers' = [callers EXCEPT ![r] = q]
            /\ q.at \in {"identified", "refused"} /\ q.ask = callers[r].ask
            /\ q.at = "identified" => q.ask.token.signedBy \in keys
            /\ IdentityInv(q)
    BY <1>1, <1>5, VerifiedMoves
  <2>8. ASSUME At(r, "identified")'
        PROVE  LET k == callers[r].ask.token.signedBy
               IN  k \in published \/ clock - withdrawn[k] < KeyTTL[Service(r)] + FetchLimit
    <3>1. PICK k \in keys : k = callers[r].ask.token.signedBy
      BY <2>7, <2>8 DEF At, AccessInv, AccessTypes
    <3>2. k \in published \/ withdrawn[k] >= since
      BY <1>3 DEF KeysAsOf
    <3>3. withdrawn[k] \in Int /\ KeyTTL[s] \in Nat \ {0} /\ FetchLimit \in Nat
      BY AccessAssumption DEF AccessInv, AccessTypes, Services
    <3> QED BY <1>2, <1>3, <2>1, <3>1, <3>2, <3>3
  <2> QED BY <2>6, <2>7, <2>8
<1> QED BY <1>2, <1>4, <1>5 DEF StoreKeys


\* The steps that only move a caller on, away from the keys.
LEMMA FetchStep ==
    ASSUME AccessInv, NEW r \in Callers, FetchKeys(r)
    PROVE  AccessInv' /\ ~ At(r, "identified")'
<1>1. /\ callers[r] # Nil /\ callers[r] \in CallerState /\ NeedsKeys(r) /\ IdentityInv(callers[r])
      /\ UNCHANGED <<clock, config, published, withdrawn, jwks>> /\ clock \in Nat
  BY DEF FetchKeys, At, AccessInv, AccessTypes, CallersInv
<1>2. PICK p \in CallerState : p = callers[r]
  BY <1>1
<1>3. PICK q : q = [p EXCEPT !.at = "fetching", !.since = clock]
  OBVIOUS
<1>4. q.at = "fetching" /\ q.ask = p.ask /\ q.since = clock
  BY <1>2, <1>3 DEF CallerState
<1>5. q \in CallerState
  BY <1>1, <1>2, <1>3 DEF CallerState, CallerSteps
<1>6. callers' = [callers EXCEPT ![r] = q]
  BY <1>2, <1>3 DEF FetchKeys, AccessInv, AccessTypes
<1>7. KeyedAsk(q.ask)
  BY <1>1, <1>2, <1>4 DEF NeedsKeys, KeyedAsk
<1>8. FetchInv(q) /\ IdentityInv(q)
  BY <1>1, <1>4, <1>7, AccessAssumption DEF FetchInv, IdentityInv
<1>9. AccessInv'
  BY <1>1, <1>5, <1>6, <1>8, CacheKept, OneCallerMoves
<1>10. ~ At(r, "identified")'
  BY <1>4, <1>6 DEF At, AccessInv, AccessTypes
<1> QED BY <1>9, <1>10

\* The issuer answers with what it publishes, or fails.
LEMMA AnswerStep ==
    ASSUME AccessInv, NEW r \in Callers, IssuerAnswers(r)
    PROVE  AccessInv' /\ ~ At(r, "identified")'
<1>1. /\ callers[r] # Nil /\ callers[r] \in CallerState /\ callers[r].at = "fetching"
      /\ FetchInv(callers[r]) /\ published \in SUBSET SigningKeys
      /\ UNCHANGED <<clock, config, published, withdrawn, jwks>>
  BY DEF IssuerAnswers, At, AccessInv, AccessTypes, CallersInv
<1>2. CASE callers' = [callers EXCEPT ![r].at = "fetched", ![r].keys = published]
  <2>1. PICK p \in CallerState : p = callers[r]
    BY <1>1
  <2>2. PICK q : q = [p EXCEPT !.at = "fetched", !.keys = published]
    OBVIOUS
  <2>3. q.at = "fetched" /\ q.ask = p.ask /\ q.since = p.since /\ q.keys = published
    BY <2>1, <2>2 DEF CallerState
  <2>4. q \in CallerState
    BY <1>1, <2>1, <2>2 DEF CallerState, CallerSteps
  <2>5. callers' = [callers EXCEPT ![r] = q]
    BY <1>2, <2>1, <2>2 DEF AccessInv, AccessTypes
  <2>6. FetchInv(q) /\ IdentityInv(q)
    BY <1>1, <2>1, <2>3 DEF FetchInv, IdentityInv, KeysAsOf
  <2>7. AccessInv'
    BY <1>1, <2>4, <2>5, <2>6, CacheKept, OneCallerMoves
  <2>8. ~ At(r, "identified")'
    BY <2>3, <2>5 DEF At, AccessInv, AccessTypes
  <2> QED BY <2>7, <2>8
<1>3. CASE Turn(r, "refused", Nil)
  <2>1. PICK q \in CallerState : callers' = [callers EXCEPT ![r] = q] /\ q.at = "refused"
    BY <1>1, <1>3, TurnMoves
  <2>2. AccessInv'
    BY <1>1, <2>1, CacheKept, OneCallerMoves DEF FetchInv, IdentityInv
  <2>3. ~ At(r, "identified")'
    BY <2>1 DEF At, AccessInv, AccessTypes
  <2> QED BY <2>2, <2>3
<1> QED BY <1>2, <1>3 DEF IssuerAnswers

\* Identification that needs no keys.
LEMMA CurrentUserStep ==
    ASSUME AccessInv, NEW r \in Callers, get_current_user(r)
    PROVE  AccessInv' /\ ~ NeedsKeys(r)
<1>1. /\ callers[r] # Nil /\ callers[r] \in CallerState /\ ~ NeedsKeys(r)
      /\ UNCHANGED <<clock, config, published, withdrawn, jwks>>
  BY DEF get_current_user, At, AccessInv, AccessTypes
<1>2. PICK a \in Asks : a = callers[r].ask
  BY <1>1 DEF CallerState
<1>3. ASSUME NEW step \in {"identified", "refused"}, NEW user \in People \cup {Nil},
             Turn(r, step, user),
             step = "identified" /\ config.mode = "jwt" /\ user # Nil =>
                 a.token # Nil /\ a.token.sound /\ user = a.token.sub
      PROVE  AccessInv'
  <2>1. PICK q \in CallerState : /\ callers' = [callers EXCEPT ![r] = q]
                                 /\ q.at = step /\ q.ask = a /\ q.user = user
    BY <1>1, <1>2, <1>3, TurnMoves
  <2>2. FetchInv(q) /\ IdentityInv(q)
    BY <1>3, <2>1 DEF FetchInv, IdentityInv
  <2> QED BY <1>1, <2>1, <2>2, CacheKept, OneCallerMoves
<1>4. CASE Turn(r, "refused", Nil)
  BY <1>1, <1>3, <1>4
<1>5. CASE Turn(r, "identified", Nil)
  BY <1>1, <1>3, <1>5
<1>6. CASE config.mode = "mock" /\ Turn(r, "identified", a.header)
  <2>1. a.header \in People \cup {Nil}
    BY <1>2, AskTypes
  <2> QED BY <1>1, <1>3, <1>6, <2>1
<1>7. CASE a.token # Nil /\ _verify_jwt_hs256(a.token) /\ Turn(r, "identified", a.token.sub)
  <2>1. a.token.sub \in People /\ a.token.sound
    BY <1>2, <1>7, AskTypes DEF _verify_jwt_hs256
  <2> QED BY <1>1, <1>3, <1>7, <2>1
<1>8. config.mode \in {"none", "mock", "jwt"}
  BY AccessAssumption DEF AccessInv, AccessTypes
<1>9. \/ Turn(r, "refused", Nil)
      \/ Turn(r, "identified", Nil)
      \/ config.mode = "mock" /\ Turn(r, "identified", a.header)
      \/ a.token # Nil /\ _verify_jwt_hs256(a.token) /\ Turn(r, "identified", a.token.sub)
  BY <1>2, <1>8 DEF get_current_user
<1> QED BY <1>1, <1>4, <1>5, <1>6, <1>7, <1>9

\* The guard of the route ends the request.
LEMMA AuthoriseStep ==
    ASSUME AccessInv, NEW r \in Callers, Authorise(r)
    PROVE  AccessInv' /\ ~ At(r, "identified")'
<1>1. /\ callers[r] # Nil /\ callers[r] \in CallerState /\ callers[r].user \in People \cup {Nil}
      /\ UNCHANGED <<clock, config, published, withdrawn, jwks>>
  BY DEF Authorise, At, AccessInv, AccessTypes, CallerState
<1>2. PICK step \in {"admitted", "refused"} :
          step = (IF Admits(callers[r].ask, callers[r].user) THEN "admitted" ELSE "refused")
  OBVIOUS
<1>3. Turn(r, step, callers[r].user)
  BY <1>2 DEF Authorise
<1>4. PICK q \in CallerState : callers' = [callers EXCEPT ![r] = q] /\ q.at = step
  BY <1>1, <1>3, TurnMoves
<1>5. AccessInv'
  BY <1>1, <1>4, CacheKept, OneCallerMoves DEF FetchInv, IdentityInv
<1>6. ~ At(r, "identified")'
  BY <1>4 DEF At, AccessInv, AccessTypes
<1> QED BY <1>5, <1>6
\* Requests come and go; keys are published and withdrawn; time passes.
LEMMA SurroundingsSteps ==
    ASSUME AccessInv,
           \/ ClockTicks
           \/ \E k \in SigningKeys : Publish(k) \/ Withdraw(k)
           \/ \E c \in CaseIds : EraseCase(c)
           \/ \E t \in ResumeTokens, tool \in Tools : save_teaser_state(t, tool)
           \/ UNCHANGED accessVars
    PROVE  AccessInv' /\ UNCHANGED callers
<1> USE DEF AccessInv
<1>1. FetchLimit \in Nat /\ UNCHANGED <<config, jwks, callers>>
  BY AccessAssumption DEF ClockTicks, Publish, Withdraw, EraseCase, save_teaser_state, accessVars
<1>2. CASE UNCHANGED <<clock, published, withdrawn>>
  <2>1. AccessTypes' /\ StartedSafely' /\ CacheInv'
    BY <1>1, <1>2 DEF AccessTypes, StartedSafely, CacheInv, KeysAsOf
  <2>2. CallersInv'
    BY <1>1, <1>2 DEF CallersInv, FetchInv, IdentityInv, KeysAsOf, KeyedAsk
  <2> QED BY <1>1, <2>1, <2>2
<1>3. ASSUME UNCHANGED clock,
             published' \in SUBSET SigningKeys, withdrawn' \in [SigningKeys -> Int],
             \A k \in SigningKeys : \/ k \in published' \/ withdrawn'[k] >= clock
                                    \/ k \notin published /\ withdrawn'[k] = withdrawn[k]
      PROVE  AccessInv' /\ UNCHANGED callers
  <2>1. ASSUME NEW keys \in SUBSET SigningKeys, NEW t \in Int, t <= clock, KeysAsOf(keys, t)
        PROVE  KeysAsOf(keys, t)'
    <3> SUFFICES ASSUME NEW k \in keys PROVE k \in published' \/ withdrawn'[k] >= t
      BY DEF KeysAsOf
    <3>1. k \in SigningKeys /\ withdrawn'[k] \in Int /\ clock \in Int
      BY <1>3 DEF AccessTypes
    <3>2. k \in published \/ withdrawn[k] >= t
      BY <2>1 DEF KeysAsOf
    <3> QED BY <1>3, <2>1, <3>1, <3>2
  <2>2. AccessTypes' /\ StartedSafely'
    BY <1>1, <1>3 DEF AccessTypes, StartedSafely
  <2>3. CacheInv'
    <3> SUFFICES ASSUME NEW s \in Services, jwks[s] # Nil
                 PROVE  jwks[s].at <= clock /\ KeysAsOf(jwks[s].keys, jwks[s].at - FetchLimit)'
      BY <1>1, <1>3 DEF CacheInv, KeysAsOf
    <3>1. PICK keys \in SUBSET SigningKeys, at \in Nat :
             /\ keys = jwks[s].keys /\ at = jwks[s].at /\ at <= clock
             /\ KeysAsOf(keys, at - FetchLimit)
      BY DEF AccessTypes, CacheInv
    <3>2. at - FetchLimit \in Int /\ at - FetchLimit <= clock
      BY <1>1, <3>1 DEF AccessTypes
    <3>3. KeysAsOf(keys, at - FetchLimit)'
      BY <2>1, <3>1, <3>2
    <3> QED BY <1>1, <3>1, <3>3 DEF KeysAsOf
  <2>4. CallersInv'
    <3> SUFFICES ASSUME NEW r \in Callers, callers[r] # Nil
                 PROVE  FetchInv(callers[r])' /\ IdentityInv(callers[r])'
      BY <1>1 DEF CallersInv
    <3>1. PICK p \in CallerState : p = callers[r] /\ FetchInv(p) /\ IdentityInv(p)
      BY DEF CallersInv, AccessTypes
    <3>2. p.keys \in SUBSET SigningKeys /\ p.since \in Int
      BY DEF CallerState
    <3>3. FetchInv(p)'
      BY <1>1, <1>3, <2>1, <3>1, <3>2 DEF FetchInv, KeyedAsk
    <3>4. IdentityInv(p)'
      BY <1>1, <3>1 DEF IdentityInv
    <3> QED BY <1>1, <1>3, <3>1, <3>3, <3>4 DEF FetchInv, IdentityInv, KeyedAsk, KeysAsOf
  <2> QED BY <1>1, <2>2, <2>3, <2>4
<1>4. ASSUME NEW k \in SigningKeys, Publish(k) PROVE AccessInv' /\ UNCHANGED callers
  BY <1>3, <1>4 DEF Publish, AccessTypes
<1>5. ASSUME NEW k \in SigningKeys, Withdraw(k) PROVE AccessInv' /\ UNCHANGED callers
  BY <1>3, <1>5 DEF Withdraw, AccessTypes
<1>6. CASE ClockTicks
  <2>1. /\ UNCHANGED <<published, withdrawn>> /\ clock' = clock + 1 /\ clock \in Nat
        /\ \A r \in Callers : At(r, "fetching") \/ At(r, "fetched") =>
              clock - callers[r].since < FetchLimit
    BY <1>6 DEF ClockTicks, AccessTypes
  <2>2. AccessTypes' /\ StartedSafely'
    BY <1>1, <2>1 DEF AccessTypes, StartedSafely
  <2>3. CacheInv'
    BY <1>1, <2>1 DEF CacheInv, KeysAsOf, AccessTypes
  <2>4. CallersInv'
    <3> SUFFICES ASSUME NEW r \in Callers, callers[r] # Nil
                 PROVE  FetchInv(callers[r])' /\ IdentityInv(callers[r])'
      BY <1>1 DEF CallersInv
    <3>1. PICK p \in CallerState : p = callers[r] /\ FetchInv(p) /\ IdentityInv(p)
      BY DEF CallersInv, AccessTypes
    <3>2. p.since \in Nat
      BY DEF CallerState
    <3>3. p.at \in {"fetching", "fetched"} => clock - p.since < FetchLimit
      BY <2>1, <3>1 DEF At
    <3>4. FetchInv(p)' /\ IdentityInv(p)'
      BY <1>1, <2>1, <3>1, <3>2, <3>3 DEF FetchInv, IdentityInv, KeyedAsk, KeysAsOf
    <3> QED BY <1>1, <2>1, <3>1, <3>4 DEF FetchInv, IdentityInv, KeyedAsk, KeysAsOf
  <2> QED BY <1>1, <2>2, <2>3, <2>4
<1> QED BY <1>2, <1>4, <1>5, <1>6 DEF EraseCase, save_teaser_state, accessVars

\* A request comes in or is done with.
LEMMA NextCallStep ==
    ASSUME AccessInv, NEW r \in Callers, NextCall(r)
    PROVE  AccessInv' /\ ~ At(r, "identified")'
<1>1. UNCHANGED <<clock, config, published, withdrawn, jwks>>
  BY DEF NextCall
<1>2. CASE callers' = [callers EXCEPT ![r] = Nil]
  <2>1. callers'[r] = Nil /\ \A o \in Callers : o # r => callers'[o] = callers[o]
    BY <1>2 DEF AccessInv, AccessTypes
  <2>2. AccessTypes' /\ StartedSafely' /\ CacheInv'
    BY <1>1, <1>2 DEF AccessInv, AccessTypes, StartedSafely, CacheInv, KeysAsOf
  <2>3. CallersInv'
    <3> SUFFICES ASSUME NEW o \in Callers, callers'[o] # Nil
                 PROVE  FetchInv(callers[o])' /\ IdentityInv(callers[o])'
      BY DEF CallersInv
    <3>1. callers'[o] = callers[o] /\ callers[o] # Nil
      BY <2>1
    <3> QED BY <1>1, <3>1 DEF AccessInv, CallersInv, FetchInv, IdentityInv, KeysAsOf, KeyedAsk
  <2> QED BY <2>1, <2>2, <2>3 DEF AccessInv, At
<1>3. ASSUME NEW a \in Asks, callers' = [callers EXCEPT ![r] = Waiting(a)]
      PROVE  AccessInv' /\ ~ At(r, "identified")'
  <2>1. PICK q : q = Waiting(a)
    OBVIOUS
  <2>2. q \in CallerState /\ q.at = "idle"
    BY <2>1 DEF Waiting, CallerState, CallerSteps
  <2>3. AccessInv'
    BY <1>1, <1>3, <2>1, <2>2, CacheKept, OneCallerMoves DEF FetchInv, IdentityInv
  <2> QED BY <1>3, <2>1, <2>2, <2>3 DEF At, AccessInv, AccessTypes
<1> QED BY <1>2, <1>3 DEF NextCall

\* A step of one caller leaves the others where they are.
LEMMA OnlyOneMoves ==
    ASSUME AccessInv, NEW r \in Callers, NEW o \in Callers, o # r,
           \/ UseCachedKeys(r) \/ FetchKeys(r) \/ IssuerAnswers(r) \/ StoreKeys(r)
           \/ get_current_user(r) \/ Authorise(r) \/ NextCall(r)
    PROVE  callers'[o] = callers[o]
<1>1. CASE FetchKeys(r) \/ IssuerAnswers(r) \/ NextCall(r)
  BY <1>1 DEF FetchKeys, IssuerAnswers, NextCall, Turn, AccessInv, AccessTypes
<1>2. ASSUME NEW step, NEW user, Turn(r, step, user) PROVE callers'[o] = callers[o]
  BY <1>2 DEF Turn, AccessInv, AccessTypes
<1>3. ASSUME NEW keys, Verified(r, keys) PROVE callers'[o] = callers[o]
  BY <1>2, <1>3 DEF Verified
<1>4. CASE UseCachedKeys(r) \/ StoreKeys(r)
  BY <1>2, <1>3, <1>4 DEF UseCachedKeys, StoreKeys
<1>5. CASE get_current_user(r) \/ Authorise(r)
  <2>1. config.mode \in {"none", "mock", "jwt"}
    BY AccessAssumption DEF AccessInv, AccessTypes
  <2> QED BY <1>2, <1>5, <2>1 DEF get_current_user, Authorise
<1> QED BY <1>1, <1>4, <1>5

\* Every step keeps the invariant; withdrawal dates what it withdraws.
LEMMA AccessNextInv ==
    AccessInv /\ [AccessNext]_accessVars => AccessInv'
<1> SUFFICES ASSUME AccessInv, [AccessNext]_accessVars PROVE AccessInv'
  OBVIOUS
<1>1. CASE \E r \in Callers :
              \/ UseCachedKeys(r) \/ FetchKeys(r) \/ IssuerAnswers(r) \/ StoreKeys(r)
              \/ get_current_user(r) \/ Authorise(r) \/ NextCall(r)
  BY <1>1, UseCachedStep, FetchStep, AnswerStep, StoreStep, CurrentUserStep, AuthoriseStep,
     NextCallStep
<1> QED BY <1>1, SurroundingsSteps DEF AccessNext

\* However many key fetches overlap, nobody is identified by a key that its issuer
\* withdrew longer ago than the cache's lifetime and one fetch, for every lifetime
\* and limit and any number of requests.
THEOREM WithdrawnKeysDieOut == AccessSpec => WithdrawnKeysDie
<1> DEFINE Recent(r) == LET k == callers[r].ask.token.signedBy
                       IN  k \in published \/ clock - withdrawn[k] < KeyTTL[Service(r)] + FetchLimit
           Identified(r) == /\ At(r, "idle") \/ At(r, "fetched")
                            /\ NeedsKeys(r) /\ At(r, "identified")'
<1>1. ASSUME AccessInv, [AccessNext]_accessVars, NEW o \in Callers, Identified(o)
      PROVE  Recent(o)
  <2>1. ~ At(o, "identified")
    BY <1>1 DEF At
  <2>2. callers'[o] # callers[o]
    BY <1>1, <2>1 DEF At
  <2>3. PICK r \in Callers :
             \/ UseCachedKeys(r) \/ FetchKeys(r) \/ IssuerAnswers(r) \/ StoreKeys(r)
             \/ get_current_user(r) \/ Authorise(r) \/ NextCall(r)
    <3>1. ~ UNCHANGED callers
      BY <2>2
    <3> QED BY <1>1, <3>1, SurroundingsSteps DEF AccessNext
  <2>4. r = o
    BY <1>1, <2>2, <2>3, OnlyOneMoves
  <2>5. UseCachedKeys(o) \/ StoreKeys(o)
    BY <1>1, <2>3, <2>4, FetchStep, AnswerStep, CurrentUserStep, AuthoriseStep, NextCallStep
  <2> QED BY <1>1, <2>5, UseCachedStep, StoreStep
<1>2. AccessInv /\ [AccessNext]_accessVars =>
        [\A r \in Callers : Identified(r) => Recent(r)]_accessVars
  BY <1>1
<1>3. AccessInv /\ [AccessNext]_accessVars =>
        [\A r \in Callers :
          (At(r, "idle") \/ At(r, "fetched")) /\ NeedsKeys(r) /\ At(r, "identified")' =>
          LET k == callers[r].ask.token.signedBy
          IN  k \in published \/ clock - withdrawn[k] < KeyTTL[Service(r)] + FetchLimit]_accessVars
  BY <1>2
<1> QED BY <1>3, AccessInitInv, AccessNextInv, PTL DEF AccessSpec, WithdrawnKeysDie

\* In production nobody reaches a case but its owner, a holder of the administrators'
\* key or, for a case without an owner, somebody signed in; for any people and cases.
THEOREM CasesStayGuarded == AccessSpec => CasesGuarded
<1> DEFINE Let(r) == /\ At(r, "identified") /\ At(r, "admitted")'
                     /\ config.deployment = "production" /\ callers[r].ask.route = "case"
           Right(r) == LET a == callers[r].ask
                       IN  \/ a.adminKey
                           \/ /\ a.token # Nil /\ a.token.sound
                              /\ a.case \notin erased
                              /\ owner[a.case] \in {Nil, a.token.sub}
<1>1. ASSUME AccessInv, [AccessNext]_accessVars, NEW o \in Callers, Let(o)
      PROVE  Right(o)
  <2>1. callers'[o] # callers[o]
    BY <1>1 DEF At
  <2>2. PICK r \in Callers :
             \/ UseCachedKeys(r) \/ FetchKeys(r) \/ IssuerAnswers(r) \/ StoreKeys(r)
             \/ get_current_user(r) \/ Authorise(r) \/ NextCall(r)
    <3>1. ~ UNCHANGED callers
      BY <2>1
    <3> QED BY <1>1, <3>1, SurroundingsSteps DEF AccessNext
  <2>3. r = o
    BY <1>1, <2>1, <2>2, OnlyOneMoves
  <2>4. Authorise(o) \/ NextCall(o)
    BY <1>1, <2>2, <2>3 DEF UseCachedKeys, FetchKeys, IssuerAnswers, StoreKeys,
       get_current_user, At
  <2>5. Authorise(o)
    BY <1>1, <2>4 DEF NextCall, At
  <2>6. Admits(callers[o].ask, callers[o].user)
    <3> SUFFICES ASSUME ~ Admits(callers[o].ask, callers[o].user) PROVE FALSE
      OBVIOUS
    <3>1. Turn(o, "refused", callers[o].user)
      BY <2>5 DEF Authorise
    <3>2. PICK q \in CallerState : callers' = [callers EXCEPT ![o] = q] /\ q.at = "refused"
      BY <1>1, <3>1, TurnMoves DEF At, AccessInv, AccessTypes, CallerState
    <3> QED BY <1>1, <3>2 DEF At, AccessInv, AccessTypes
  <2>7. check_case_ownership(callers[o].ask, callers[o].user)
    BY <1>1, <2>6 DEF Admits
  <2>8. config.mode = "jwt"
    BY <1>1 DEF AccessInv, StartedSafely, validate_startup_config
  <2>9. IdentityInv(callers[o]) /\ callers[o].at = "identified"
    BY <1>1 DEF AccessInv, CallersInv, At
  <2> QED BY <1>1, <2>7, <2>8, <2>9 DEF check_case_ownership, AdminKeyShown, IdentityInv
<1>2. AccessInv /\ [AccessNext]_accessVars =>
        [\A r \in Callers : Let(r) => Right(r)]_accessVars
  BY <1>1
<1>3. AccessInv /\ [AccessNext]_accessVars =>
        [\A r \in Callers :
          At(r, "identified") /\ At(r, "admitted")'
             /\ config.deployment = "production" /\ callers[r].ask.route = "case" =>
          LET a == callers[r].ask
          IN  \/ a.adminKey
              \/ /\ a.token # Nil /\ a.token.sound
                 /\ a.case \notin erased
                 /\ owner[a.case] \in {Nil, a.token.sub}]_accessVars
  BY <1>2
<1> QED BY <1>3, AccessInitInv, AccessNextInv, PTL DEF AccessSpec, CasesGuarded
=============================================================================
