--------------------------- MODULE CaseworkProofs ---------------------------
(***************************************************************************)
(* What happens to a case, its money, its documents and its leads, for any *)
(* number of cases, people, documents and requests under way.              *)
(***************************************************************************)
EXTENDS Payments, Leads, Matters, Evidence, WellFoundedInduction, TLAPS

(***************************************************************************)
(* Money, onboarding and documents: the properties of Payments for any     *)
(* number of cases, checkouts, documents and requests under way.           *)
(***************************************************************************)

Tables ==
    /\ cases \in [Cases -> Case \cup {None}]
    /\ checkouts \in [Checkouts -> Checkout \cup {None}]
    /\ stripe \in [Checkouts -> {"none", "open", "paid", "expired"}]
    /\ requests \in [Requests -> Request \cup {None}]

Paid(c) == cases[c] # None /\ cases[c].payment = "paid"
Settled(c) == \E s \in Checkouts : Charged(s) /\ checkouts[s].case = c
Delivered == {d.case : d \in {x \in documents : x.kind = "generated"}} \cup bundled
Onboarded(c) == Open(c) /\ cases[c].origin = "onboarding"
NoOnboarding == \A c \in Cases : ~Onboarded(c)

\* What a paid case refers to: its checkout was charged, and the audit says so.
PaidBy(c) ==
    /\ cases[c].session \in Checkouts
    /\ Charged(cases[c].session)
    /\ checkouts[cases[c].session].case = c
    /\ [session |-> cases[c].session, status |-> "paid"] \in paymentEvents

\* A row that a download can be asked for has its file.
Stored(d) == d.kind \in {"generated", "uploaded"} => d.id \in files

RowsShape ==
    /\ \A s \in Checkouts : checkouts[s] # None => cases[checkouts[s].case] # None
    /\ \A s \in Checkouts : stripe[s] = "paid" => checkouts[s] # None
    /\ \A c \in Cases : Paid(c) => PaidBy(c)
    /\ \A c \in Delivered : Settled(c)
    /\ \A d \in documents : Stored(d)

\* What request r carries over from one of its steps to the next still holds.
Holds(r) ==
    /\ Serving(r, "onboard") =>
          userLock = r /\ (requests[r].found = "no" => NoOnboarding)
    /\ Serving(r, "checkout") =>
          /\ cases[requests[r].case] # None
          /\ (requests[r].session # None => checkouts[requests[r].session] = None)
    /\ Serving(r, "document") =>
          /\ Settled(requests[r].case)
          /\ (requests[r].doc # None => requests[r].doc \in files)

RequestsHold == \A r \in Requests : Holds(r)

DistinctSessions ==
    \A q, r \in Requests :
        /\ Serving(q, "checkout") /\ Serving(r, "checkout")
        /\ requests[q].session # None /\ requests[q].session = requests[r].session
        => q = r

PaymentsInv ==
    Tables /\ RowsShape /\ RequestsHold /\ DistinctSessions /\ OnboardedOnce

(***************************************************************************)
(* Every step keeps what is there.                                         *)
(***************************************************************************)

Keeps ==
    /\ \A c \in Cases : cases[c] # None => cases'[c] # None /\ (Paid(c) => Paid(c)')
    /\ \A s \in Checkouts : checkouts[s] # None =>
          /\ checkouts'[s] # None /\ checkouts'[s].case = checkouts[s].case
          /\ (checkouts[s].status = "paid" => checkouts'[s].status = "paid")
    /\ \A s \in Checkouts : stripe[s] = "paid" => stripe'[s] = "paid"
    /\ paymentEvents \subseteq paymentEvents'
    /\ files \subseteq files'

LEMMA SettledStays ==
    ASSUME Keeps
    PROVE  /\ \A s \in Checkouts : Charged(s) => Charged(s)' /\ checkouts'[s].case = checkouts[s].case
           /\ \A c : Settled(c) => Settled(c)'
<1>1. \A s \in Checkouts : Charged(s) => Charged(s)' /\ checkouts'[s].case = checkouts[s].case
    BY DEF Keeps, Charged
<1> QED  BY <1>1 DEF Settled

\* What is new has to be accounted for, what is old stays so.
LEMMA RowsStay ==
    ASSUME Tables, RowsShape, Keeps,
           \A s \in Checkouts : \/ checkouts[s] # None \/ checkouts'[s] = None
                                \/ cases'[checkouts'[s].case] # None,
           \A s \in Checkouts : stripe'[s] = "paid" => stripe[s] = "paid" \/ checkouts'[s] # None,
           \A c \in Cases : Paid(c)' =>
              (Paid(c) /\ cases'[c].session = cases[c].session) \/ PaidBy(c)',
           \A c \in Delivered' : c \in Delivered \/ Settled(c),
           \A d \in documents' : d \in documents \/ Stored(d)'
    PROVE  RowsShape'
<1>1. \A s \in Checkouts : checkouts'[s] # None => cases'[checkouts'[s].case] # None
    <2>1. ASSUME NEW s \in Checkouts, checkouts[s] # None
          PROVE  cases'[checkouts'[s].case] # None
        <3>1. checkouts[s].case \in Cases /\ cases[checkouts[s].case] # None
            BY <2>1 DEF Tables, Checkout, RowsShape
        <3> QED  BY <2>1, <3>1 DEF Keeps
    <2> QED  BY <2>1
<1>2. \A s \in Checkouts : stripe'[s] = "paid" => checkouts'[s] # None
    BY DEF RowsShape, Keeps
<1>3. ASSUME NEW c \in Cases, Paid(c)'
      PROVE  PaidBy(c)'
    BY <1>3, SettledStays DEF RowsShape, PaidBy, Keeps
<1>4. \A c \in Delivered' : Settled(c)'
    BY SettledStays DEF RowsShape
<1>5. \A d \in documents' : Stored(d)'
    BY DEF RowsShape, Keeps, Stored
<1> QED  BY <1>1, <1>2, <1>3, <1>4, <1>5 DEF RowsShape

\* The requests in S are not touched by a step that leaves alone what they
\* depend on.
LEMMA OthersHold ==
    ASSUME PaymentsInv, Keeps, NEW S \in SUBSET Requests,
           \A q \in S : requests'[q] = requests[q],
           \A q \in S : Serving(q, "onboard") =>
              userLock' = userLock /\ (NoOnboarding => NoOnboarding'),
           \A q \in S : Serving(q, "checkout") /\ requests[q].session # None =>
              checkouts'[requests[q].session] = checkouts[requests[q].session]
    PROVE  \A q \in S : Holds(q)'
<1> SUFFICES ASSUME NEW q \in S
    PROVE  Holds(q)'
    OBVIOUS
<1>0. requests'[q] = requests[q] /\ Holds(q)
    BY DEF PaymentsInv, RequestsHold
<1>1. Serving(q, "onboard") => userLock' = q /\ (requests[q].found = "no" => NoOnboarding')
    BY <1>0 DEF Holds
<1>2. Serving(q, "checkout") =>
          /\ cases'[requests[q].case] # None
          /\ (requests[q].session # None => checkouts'[requests[q].session] = None)
    <2>1. Serving(q, "checkout") => requests[q].case \in Cases
        BY DEF PaymentsInv, Tables, Request, Serving, Idle
    <2> QED  BY <1>0, <2>1 DEF Holds, Keeps
<1>3. Serving(q, "document") =>
          /\ \E s \in Checkouts : Charged(s)' /\ checkouts'[s].case = requests[q].case
          /\ (requests[q].doc # None => requests[q].doc \in files')
    BY <1>0, SettledStays DEF Holds, Keeps, Settled
<1>4. \A op : Serving(q, op)' <=> Serving(q, op)
    BY <1>0 DEF Serving, Idle
<1> QED  BY <1>0, <1>1, <1>2, <1>3, <1>4 DEF Holds, Settled

LEMMA DistinctStay ==
    ASSUME DistinctSessions, NEW r \in Requests,
           \A q \in Requests \ {r} : requests'[q] = requests[q],
           Serving(r, "checkout")' =>
              \/ requests'[r].session = None
              \/ \A q \in Requests \ {r} :
                    Serving(q, "checkout") => requests[q].session # requests'[r].session
    PROVE  DistinctSessions'
BY DEF DistinctSessions, Serving, Idle

\* A step that changes no row.
LEMMA RowsUntouched ==
    ASSUME PaymentsInv, requests' \in [Requests -> Request \cup {None}],
           UNCHANGED <<cases, checkouts, paymentEvents, stripe, documents, files, bundled>>
    PROVE  /\ Tables' /\ RowsShape' /\ OnboardedOnce' /\ Keeps
           /\ NoOnboarding => NoOnboarding'
<1>1. Tables' /\ Keeps
    BY DEF PaymentsInv, Tables, Keeps, Paid
<1>2. RowsShape'
    BY DEF PaymentsInv, RowsShape, Paid, PaidBy, Charged, Delivered, Settled, Stored
<1>3. OnboardedOnce' /\ (NoOnboarding => NoOnboarding')
    BY DEF PaymentsInv, OnboardedOnce, NoOnboarding, Onboarded, Open
<1> QED  BY <1>1, <1>2, <1>3

\* A request ends without a trace.
LEMMA EndsQuietly ==
    ASSUME PaymentsInv, NEW r \in Requests, Finish(r),
           UNCHANGED <<cases, checkouts, paymentEvents, stripe, documents, files, bundled>>,
           userLock' = (IF userLock = r THEN None ELSE userLock) \/ userLock' = userLock
    PROVE  PaymentsInv' /\ Keeps
<1>1. /\ requests' \in [Requests -> Request \cup {None}]
      /\ requests'[r] = None /\ \A q \in Requests \ {r} : requests'[q] = requests[q]
    BY DEF PaymentsInv, Tables, Finish
<1>2. Tables' /\ RowsShape' /\ OnboardedOnce' /\ Keeps /\ (NoOnboarding => NoOnboarding')
    BY <1>1, RowsUntouched
<1>3. \A q \in Requests \ {r} : Serving(q, "onboard") => userLock' = userLock
    BY DEF PaymentsInv, RequestsHold, Holds
<1>4. \A q \in Requests \ {r} : Holds(q)'
    BY <1>1, <1>2, <1>3, OthersHold
<1>5. Holds(r)'
    BY <1>1 DEF Holds, Serving, Idle
<1>6. DistinctSessions'
    BY <1>1, DistinctStay DEF PaymentsInv, Serving, Idle
<1> QED  BY <1>2, <1>4, <1>5, <1>6 DEF PaymentsInv, RequestsHold

(***************************************************************************)
(* What the steps do to one row.                                           *)
(***************************************************************************)

LEMMA NewCaseEffect ==
    ASSUME Tables, NEW c \in Cases, NEW o \in {"saved", "onboarding"},
           cases[c] = None, cases' = [cases EXCEPT ![c] = NewCase(o)]
    PROVE  /\ cases' \in [Cases -> Case \cup {None}]
           /\ cases'[c] # None /\ ~Paid(c)' /\ cases'[c].origin = o
           /\ \A d \in Cases \ {c} : cases'[d] = cases[d]
<1> DEFINE row == NewCase(o)
<1>1. row \in Case /\ row.payment = "unpaid" /\ row.origin = o
    BY DEF NewCase, Case
<1>2. row # None
    BY <1>1, PaymentsAssumption
<1> HIDE DEF row
<1>3. cases'[c] = row /\ \A d \in Cases \ {c} : cases'[d] = cases[d]
    BY DEF Tables, row
<1> QED  BY <1>1, <1>2, <1>3 DEF Tables, Paid, row

LEMMA DeletedEffect ==
    ASSUME Tables, NEW c \in Cases, cases[c] # None,
           cases' = [cases EXCEPT ![c].deleted = TRUE]
    PROVE  /\ cases' \in [Cases -> Case \cup {None}]
           /\ cases'[c] # None /\ cases'[c].deleted
           /\ cases'[c].payment = cases[c].payment /\ cases'[c].session = cases[c].session
           /\ \A d \in Cases \ {c} : cases'[d] = cases[d]
<1> DEFINE old == cases[c]
<1>1. /\ old \in Case /\ \A d \in Cases \ {c} : cases'[d] = cases[d]
      /\ cases' = [d \in Cases |-> cases'[d]]
    BY DEF Tables
<1>2. old = [origin |-> old.origin, deleted |-> old.deleted,
             payment |-> old.payment, session |-> old.session]
    BY <1>1 DEF Case
<1>3. cases'[c] = [origin |-> old.origin, deleted |-> TRUE,
                   payment |-> old.payment, session |-> old.session]
    BY <1>2 DEF Tables
<1>4. cases'[c] \in Case
    BY <1>1, <1>3 DEF Case
<1>5. cases'[c] # None
    BY <1>4, PaymentsAssumption
<1>6. cases' \in [Cases -> Case \cup {None}]
    BY <1>1, <1>4 DEF Tables
<1> QED  BY <1>1, <1>3, <1>5, <1>6

LEMMA PaidEffect ==
    ASSUME Tables, NEW c \in Cases, cases[c] # None, NEW s \in Checkouts,
           cases' = [cases EXCEPT ![c].payment = "paid", ![c].session = s]
    PROVE  /\ cases' \in [Cases -> Case \cup {None}]
           /\ cases'[c] # None /\ cases'[c].payment = "paid" /\ cases'[c].session = s
           /\ cases'[c].origin = cases[c].origin /\ cases'[c].deleted = cases[c].deleted
           /\ \A d \in Cases \ {c} : cases'[d] = cases[d]
<1> DEFINE old == cases[c]
<1>1. /\ old \in Case /\ \A d \in Cases \ {c} : cases'[d] = cases[d]
      /\ cases' = [d \in Cases |-> cases'[d]]
    BY DEF Tables
<1>2. old = [origin |-> old.origin, deleted |-> old.deleted,
             payment |-> old.payment, session |-> old.session]
    BY <1>1 DEF Case
<1>3. cases'[c] = [origin |-> old.origin, deleted |-> old.deleted,
                   payment |-> "paid", session |-> s]
    BY <1>2 DEF Tables
<1>4. cases'[c] \in Case
    BY <1>1, <1>3 DEF Case
<1>5. cases'[c] # None
    BY <1>4, PaymentsAssumption
<1>6. cases' \in [Cases -> Case \cup {None}]
    BY <1>1, <1>4 DEF Tables
<1> QED  BY <1>1, <1>3, <1>5, <1>6

LEMMA StoredEffect ==
    ASSUME Tables, NEW s \in Checkouts, NEW c \in Cases,
           checkouts' = [checkouts EXCEPT ![s] = [case |-> c, status |-> "pending"]]
    PROVE  /\ checkouts' \in [Checkouts -> Checkout \cup {None}]
           /\ checkouts'[s] # None /\ checkouts'[s].case = c
           /\ \A t \in Checkouts \ {s} : checkouts'[t] = checkouts[t]
<1> DEFINE row == [case |-> c, status |-> "pending"]
<1>1. row \in Checkout
    BY DEF Checkout
<1>2. row # None
    BY <1>1, PaymentsAssumption
<1>3. checkouts'[s] = row /\ \A t \in Checkouts \ {s} : checkouts'[t] = checkouts[t]
    BY DEF Tables
<1> QED  BY <1>1, <1>2, <1>3 DEF Tables

LEMMA ConfirmedEffect ==
    ASSUME Tables, NEW s \in Checkouts, checkouts[s] # None,
           checkouts' = [checkouts EXCEPT ![s].status = "paid"]
    PROVE  /\ checkouts' \in [Checkouts -> Checkout \cup {None}]
           /\ checkouts'[s] # None /\ checkouts'[s].case = checkouts[s].case
           /\ checkouts'[s].status = "paid"
           /\ \A t \in Checkouts \ {s} : checkouts'[t] = checkouts[t]
<1> DEFINE old == checkouts[s]
<1>1. /\ old \in Checkout /\ \A t \in Checkouts \ {s} : checkouts'[t] = checkouts[t]
      /\ checkouts' = [t \in Checkouts |-> checkouts'[t]]
    BY DEF Tables
<1>2. old = [case |-> old.case, status |-> old.status]
    BY <1>1 DEF Checkout
<1>3. checkouts'[s] = [case |-> old.case, status |-> "paid"]
    BY <1>2 DEF Tables
<1>4. checkouts'[s] \in Checkout
    BY <1>1, <1>3 DEF Checkout
<1>5. checkouts'[s] # None
    BY <1>4, PaymentsAssumption
<1>6. checkouts' \in [Checkouts -> Checkout \cup {None}]
    BY <1>1, <1>4 DEF Tables
<1> QED  BY <1>1, <1>3, <1>5, <1>6

\* A request begins, with what it has found out so far.
LEMMA BeginEffect ==
    ASSUME Tables, NEW r \in Requests, NEW q \in Request, requests' = [requests EXCEPT ![r] = q]
    PROVE  /\ requests' \in [Requests -> Request \cup {None}]
           /\ requests'[r] = q /\ requests'[r] # None
           /\ \A p \in Requests \ {r} : requests'[p] = requests[p]
<1>1. q # None
    BY PaymentsAssumption
<1> QED  BY <1>1 DEF Tables

(***************************************************************************)
(* The steps of requests that change no row.                               *)
(***************************************************************************)

\* Request r goes on to something that it may rely on.
LEMMA GoesOn ==
    ASSUME PaymentsInv, NEW r \in Requests, NEW q \in Request,
           requests' = [requests EXCEPT ![r] = q],
           UNCHANGED <<cases, checkouts, paymentEvents, stripe, documents, files, bundled>>,
           userLock' = userLock \/ userLock = None,
           Holds(r)',
           q.op = "checkout" => q.session = None
    PROVE  PaymentsInv' /\ Keeps
<1>1. /\ requests' \in [Requests -> Request \cup {None}]
      /\ requests'[r] = q /\ \A p \in Requests \ {r} : requests'[p] = requests[p]
    BY BeginEffect DEF PaymentsInv
<1>2. Tables' /\ RowsShape' /\ OnboardedOnce' /\ Keeps /\ (NoOnboarding => NoOnboarding')
    BY <1>1, RowsUntouched
<1>3. \A p \in Requests \ {r} : Serving(p, "onboard") => userLock' = userLock
    BY PaymentsAssumption DEF PaymentsInv, RequestsHold, Holds
<1>4. \A p \in Requests \ {r} : Holds(p)'
    BY <1>1, <1>2, <1>3, OthersHold
<1>5. DistinctSessions'
    BY <1>1, DistinctStay DEF PaymentsInv, Serving, Idle
<1> QED  BY <1>2, <1>4, <1>5 DEF PaymentsInv, RequestsHold

LEMMA OnboardingLockStep ==
    ASSUME PaymentsInv, NEW r \in Requests, onboarding_lock(r)
    PROVE  PaymentsInv' /\ Keeps
<1> DEFINE q == [op |-> "onboard", found |-> "unknown"]
<1>1. q \in Request
    BY DEF Request
<1>2. requests' = [requests EXCEPT ![r] = q] /\ requests'[r] = q
    BY DEF onboarding_lock, PaymentsInv, Tables
<1>3. Holds(r)'
    BY <1>2 DEF onboarding_lock, Holds, Serving, Idle
<1> QED  BY <1>1, <1>2, <1>3, GoesOn DEF onboarding_lock

LEMMA OnboardingCheckStep ==
    ASSUME PaymentsInv, NEW r \in Requests, onboarding_check(r)
    PROVE  PaymentsInv' /\ Keeps
<1> DEFINE found == IF \E c \in Cases : Open(c) /\ cases[c].origin = "onboarding"
                    THEN "yes" ELSE "no"
           q == [op |-> "onboard", found |-> found]
<1>1. q \in Request
    BY DEF Request
<1>2. requests[r] = [op |-> "onboard", found |-> requests[r].found]
    BY DEF onboarding_check, PaymentsInv, Tables, Request, Serving, Idle
<1>3. requests' = [requests EXCEPT ![r] = q] /\ requests'[r] = q
    <2>1. [requests[r] EXCEPT !.found = found] = q
        BY <1>2
    <2>2. requests' = [requests EXCEPT ![r] = [requests[r] EXCEPT !.found = found]]
        BY DEF onboarding_check
    <2> QED  BY <2>1, <2>2 DEF PaymentsInv, Tables
<1>4. found = "no" => NoOnboarding'
    <2>1. NoOnboarding' <=> NoOnboarding
        BY DEF onboarding_check, NoOnboarding, Onboarded, Open
    <2> QED  BY <2>1 DEF NoOnboarding, Onboarded
<1>5. userLock' = userLock /\ userLock = r
    BY DEF onboarding_check, PaymentsInv, RequestsHold, Holds
<1> HIDE DEF found
<1>6. Holds(r)'
    BY <1>3, <1>4, <1>5 DEF Holds, Serving, Idle
<1> QED  BY <1>1, <1>3, <1>6, GoesOn DEF onboarding_check

LEMMA SessionCheckStep ==
    ASSUME PaymentsInv, NEW r \in Requests, NEW c \in Cases, create_session_check(r, c)
    PROVE  PaymentsInv' /\ Keeps
<1> DEFINE q == [op |-> "checkout", case |-> c, session |-> None]
<1>1. q \in Request
    BY DEF Request
<1>2. requests' = [requests EXCEPT ![r] = q] /\ requests'[r] = q
    BY DEF create_session_check, PaymentsInv, Tables
<1>3. Holds(r)'
    BY <1>2 DEF create_session_check, Open, Holds, Serving, Idle
<1> QED  BY <1>1, <1>2, <1>3, GoesOn DEF create_session_check

LEMMA WebhookCheckStep ==
    ASSUME PaymentsInv, NEW r \in Requests, NEW s \in Checkouts, stripe_webhook_check(r, s)
    PROVE  PaymentsInv' /\ Keeps
<1> DEFINE q == [op |-> "webhook", session |-> s]
<1>1. q \in Request
    BY DEF Request
<1>2. requests' = [requests EXCEPT ![r] = q] /\ requests'[r] = q
    BY DEF stripe_webhook_check, PaymentsInv, Tables
<1>3. Holds(r)'
    BY <1>2 DEF Holds, Serving, Idle
<1> QED  BY <1>1, <1>2, <1>3, GoesOn DEF stripe_webhook_check

\* Only a paid case gets this far, and what made it paid was charged.
LEMMA DocumentCheckStep ==
    ASSUME PaymentsInv, NEW r \in Requests, NEW c \in Cases, NEW t \in DocTypes,
           generate_document_check(r, c, t)
    PROVE  PaymentsInv' /\ Keeps
<1> DEFINE q == [op |-> "document", case |-> c, type |-> t, doc |-> None]
<1>1. q \in Request
    BY DEF Request
<1>2. requests' = [requests EXCEPT ![r] = q] /\ requests'[r] = q
    BY DEF generate_document_check, PaymentsInv, Tables
<1>3. PaidBy(c)
    BY DEF generate_document_check, Open, Paid, PaymentsInv, RowsShape
<1>4. Settled(c)
    BY <1>3 DEF PaidBy, Settled
<1>5. \E s \in Checkouts : Charged(s)' /\ checkouts'[s].case = c
    BY <1>4 DEF generate_document_check, Settled, Charged
<1>6. Holds(r)'
    BY <1>2, <1>5 DEF Holds, Serving, Idle, Settled
<1> QED  BY <1>1, <1>2, <1>6, GoesOn DEF generate_document_check

(***************************************************************************)
(* The steps that change a row.                                            *)
(***************************************************************************)

\* Nobody becomes onboarded, and the requests stand still.
LEMMA RequestsIdle ==
    ASSUME PaymentsInv, Keeps, UNCHANGED <<requests, userLock>>,
           \A c \in Cases : Onboarded(c)' => Onboarded(c),
           \A s \in Checkouts : checkouts[s] = None => checkouts'[s] = None
    PROVE  RequestsHold' /\ DistinctSessions' /\ OnboardedOnce'
<1>1. NoOnboarding => NoOnboarding'
    BY DEF NoOnboarding
<1>2. \A q \in Requests : Serving(q, "checkout") /\ requests[q].session # None =>
          checkouts'[requests[q].session] = checkouts[requests[q].session]
    <2>1. \A q \in Requests : Serving(q, "checkout") /\ requests[q].session # None =>
              requests[q].session \in Checkouts /\ checkouts[requests[q].session] = None
        BY DEF PaymentsInv, Tables, Request, Serving, Idle, RequestsHold, Holds
    <2> QED  BY <2>1
<1>3. \A q \in Requests : Holds(q)'
    BY <1>1, <1>2, OthersHold
<1>4. DistinctSessions'
    BY DEF PaymentsInv, DistinctSessions, Serving, Idle
<1>5. OnboardedOnce'
    BY DEF PaymentsInv, OnboardedOnce, Onboarded
<1> QED  BY <1>3, <1>4, <1>5 DEF RequestsHold

LEMMA SaveStep ==
    ASSUME PaymentsInv, NEW c \in Cases, save_case(c)
    PROVE  PaymentsInv' /\ Keeps
<1>1. /\ cases' \in [Cases -> Case \cup {None}]
      /\ cases[c] = None /\ ~Paid(c)' /\ cases'[c].origin = "saved"
      /\ \A d \in Cases \ {c} : cases'[d] = cases[d]
    BY NewCaseEffect DEF PaymentsInv, save_case
<1>2. UNCHANGED <<checkouts, paymentEvents, stripe, documents, files, bundled, userLock, requests>>
    BY DEF save_case
<1>3. Keeps
    BY <1>1, <1>2 DEF Keeps, Paid
<1>4. \A d \in Cases : Paid(d)' => Paid(d) /\ cases'[d].session = cases[d].session
    BY <1>1 DEF Paid
<1>5. RowsShape'
    BY <1>2, <1>3, <1>4, RowsStay DEF PaymentsInv, RowsShape, Delivered
<1>6. \A d \in Cases : Onboarded(d)' => Onboarded(d)
    BY <1>1 DEF Onboarded, Open
<1>7. RequestsHold' /\ DistinctSessions' /\ OnboardedOnce'
    BY <1>2, <1>3, <1>6, RequestsIdle
<1> QED  BY <1>1, <1>2, <1>3, <1>5, <1>7 DEF PaymentsInv, Tables

LEMMA DeleteStep ==
    ASSUME PaymentsInv, NEW c \in Cases, delete_case(c)
    PROVE  PaymentsInv' /\ Keeps
<1>1. /\ cases' \in [Cases -> Case \cup {None}]
      /\ cases[c] # None /\ cases'[c] # None /\ cases'[c].deleted
      /\ cases'[c].payment = cases[c].payment /\ cases'[c].session = cases[c].session
      /\ \A d \in Cases \ {c} : cases'[d] = cases[d]
    BY DeletedEffect DEF PaymentsInv, delete_case, Open
<1>2. UNCHANGED <<checkouts, paymentEvents, stripe, documents, files, bundled, userLock, requests>>
    BY DEF delete_case
<1>3. Keeps
    BY <1>1, <1>2 DEF Keeps, Paid
<1>4. \A d \in Cases : Paid(d)' => Paid(d) /\ cases'[d].session = cases[d].session
    BY <1>1 DEF Paid
<1>5. RowsShape'
    BY <1>2, <1>3, <1>4, RowsStay DEF PaymentsInv, RowsShape, Delivered
<1>6. \A d \in Cases : Onboarded(d)' => Onboarded(d)
    BY <1>1 DEF Onboarded, Open
<1>7. RequestsHold' /\ DistinctSessions' /\ OnboardedOnce'
    BY <1>2, <1>3, <1>6, RequestsIdle
<1> QED  BY <1>1, <1>2, <1>3, <1>5, <1>7 DEF PaymentsInv, Tables

\* An upload unlocks nothing: its row is not of a generated document.
LEMMA UploadStep ==
    ASSUME PaymentsInv, NEW c \in Cases, NEW d \in DocIds,
           attach_upload(c, d) \/ api_upload(c, d)
    PROVE  PaymentsInv' /\ Keeps
<1>1. /\ UNCHANGED <<cases, checkouts, paymentEvents, stripe, bundled, userLock, requests>>
      /\ files \subseteq files'
    BY DEF attach_upload, api_upload
<1>2. Keeps
    BY <1>1 DEF Keeps, Paid
<1>3. \A x \in documents' : x \in documents \/ (x.kind # "generated" /\ Stored(x)')
    BY DEF attach_upload, api_upload, NewRow, Stored
<1>4. \A e \in Delivered' : e \in Delivered
    BY <1>1, <1>3 DEF Delivered
<1>5. RowsShape'
    BY <1>1, <1>2, <1>3, <1>4, RowsStay DEF PaymentsInv, RowsShape, Paid
<1>6. RequestsHold' /\ DistinctSessions' /\ OnboardedOnce'
    BY <1>1, <1>2, RequestsIdle DEF Onboarded, Open
<1> QED  BY <1>1, <1>2, <1>5, <1>6 DEF PaymentsInv, Tables

\* A bundle needs a paid case or a paid checkout of it.
LEMMA BundleStep ==
    ASSUME PaymentsInv, NEW c \in Cases, generate_bundle(c)
    PROVE  PaymentsInv' /\ Keeps
<1>1. /\ UNCHANGED <<cases, checkouts, paymentEvents, stripe, documents, files, userLock, requests>>
      /\ bundled' = bundled \cup {c}
    BY DEF generate_bundle
<1>2. Keeps
    BY <1>1 DEF Keeps, Paid
<1>3. Settled(c)
    <2>1. CASE Open(c) /\ cases[c].payment = "paid"
        BY <2>1 DEF Open, Paid, PaymentsInv, RowsShape, PaidBy, Settled
    <2>2. ASSUME NEW s \in Checkouts, checkouts[s] # None, checkouts[s].case = c,
                 checkouts[s].status = "paid"
          PROVE  Settled(c)
        BY <2>2 DEF Settled, Charged
    <2> QED  BY <2>1, <2>2 DEF generate_bundle, is_case_paid
<1>4. RowsShape'
    BY <1>1, <1>2, <1>3, RowsStay DEF PaymentsInv, RowsShape, Delivered, Paid
<1>5. RequestsHold' /\ DistinctSessions' /\ OnboardedOnce'
    BY <1>1, <1>2, RequestsIdle DEF Onboarded, Open
<1> QED  BY <1>1, <1>2, <1>4, <1>5 DEF PaymentsInv, Tables

LEMMA SettlesStep ==
    ASSUME PaymentsInv, NEW s \in Checkouts, stripe_settles(s)
    PROVE  PaymentsInv' /\ Keeps
<1>1. /\ UNCHANGED <<cases, checkouts, paymentEvents, documents, files, bundled, userLock, requests>>
      /\ stripe' \in [Checkouts -> {"none", "open", "paid", "expired"}]
      /\ stripe[s] = "open" /\ (stripe'[s] = "paid" => checkouts[s] # None)
      /\ \A t \in Checkouts \ {s} : stripe'[t] = stripe[t]
    BY DEF stripe_settles, PaymentsInv, Tables
<1>2. Keeps
    BY <1>1 DEF Keeps, Paid
<1>3. RowsShape'
    BY <1>1, <1>2, RowsStay DEF PaymentsInv, RowsShape, Delivered, Paid
<1>4. RequestsHold' /\ DistinctSessions' /\ OnboardedOnce'
    BY <1>1, <1>2, RequestsIdle DEF Onboarded, Open
<1> QED  BY <1>1, <1>2, <1>3, <1>4 DEF PaymentsInv, Tables

LEMMA ConfirmStep ==
    ASSUME PaymentsInv, NEW s \in Checkouts, confirm_test_payment_session(s)
    PROVE  PaymentsInv' /\ Keeps
<1>1. /\ UNCHANGED <<stripe, documents, files, bundled, userLock, requests>>
      /\ checkouts[s] # None
      /\ paymentEvents' = paymentEvents \cup {[session |-> s, status |-> "paid"]}
      /\ Tables /\ RowsShape
    BY DEF confirm_test_payment_session, _record_payment_event, PaymentsInv
<1>2. PICK c \in Cases : c = checkouts[s].case /\ cases[c] # None
    BY <1>1 DEF Tables, Checkout, RowsShape
<1>3. /\ checkouts' \in [Checkouts -> Checkout \cup {None}]
      /\ checkouts'[s] # None /\ checkouts'[s].case = c /\ checkouts'[s].status = "paid"
      /\ \A t \in Checkouts \ {s} : checkouts'[t] = checkouts[t]
    BY <1>1, <1>2, ConfirmedEffect DEF confirm_test_payment_session
<1>4. /\ cases' \in [Cases -> Case \cup {None}]
      /\ cases'[c] # None /\ cases'[c].payment = "paid" /\ cases'[c].session = s
      /\ cases'[c].origin = cases[c].origin /\ cases'[c].deleted = cases[c].deleted
      /\ \A d \in Cases \ {c} : cases'[d] = cases[d]
    BY <1>1, <1>2, PaidEffect DEF confirm_test_payment_session
<1>5. Keeps
    <2>1. \A d \in Cases : cases[d] # None => cases'[d] # None /\ (Paid(d) => Paid(d)')
        BY <1>2, <1>4 DEF Paid
    <2>2. \A t \in Checkouts : checkouts[t] # None =>
              /\ checkouts'[t] # None /\ checkouts'[t].case = checkouts[t].case
              /\ (checkouts[t].status = "paid" => checkouts'[t].status = "paid")
        BY <1>2, <1>3
    <2> QED  BY <1>1, <2>1, <2>2 DEF Keeps
<1>6. PaidBy(c)'
    BY <1>1, <1>3, <1>4 DEF PaidBy, Charged
<1>7. \A d \in Cases : Paid(d)' => (Paid(d) /\ cases'[d].session = cases[d].session) \/ PaidBy(d)'
    BY <1>4, <1>6 DEF Paid
<1>8. RowsShape'
    <2>1. \A t \in Checkouts : checkouts[t] # None \/ checkouts'[t] = None
        BY <1>1, <1>3
    <2> QED  BY <1>1, <1>5, <1>7, <2>1, RowsStay DEF Delivered
<1>9. RequestsHold' /\ DistinctSessions' /\ OnboardedOnce'
    <2>1. \A d \in Cases : Onboarded(d)' => Onboarded(d)
        BY <1>2, <1>4 DEF Onboarded, Open
    <2> QED  BY <1>1, <1>3, <1>5, <2>1, RequestsIdle
<1> QED  BY <1>1, <1>3, <1>4, <1>5, <1>8, <1>9 DEF PaymentsInv, Tables

\* An event that is booked as paid is of a checkout that Stripe charged.
LEMMA WebhookStep ==
    ASSUME PaymentsInv, NEW s \in Checkouts, api_payment_webhook(s)
    PROVE  PaymentsInv' /\ Keeps
<1>1. /\ UNCHANGED <<checkouts, stripe, documents, files, bundled, userLock, requests>>
      /\ paymentEvents' = paymentEvents \cup {[session |-> s, status |-> BookedAs(s)]}
      /\ Tables /\ RowsShape
    BY DEF api_payment_webhook, _process_stripe_webhook_event, PaymentsInv
<1>2. CASE BookedAs(s) = "paid" /\ Open(checkouts[s].case)
    <2>1. stripe[s] = "paid" /\ checkouts[s] # None
        BY <1>1, <1>2 DEF BookedAs, RowsShape
    <2>2. PICK c \in Cases : c = checkouts[s].case /\ cases[c] # None
        BY <1>1, <2>1 DEF Tables, Checkout, RowsShape
    <2>3. /\ cases' \in [Cases -> Case \cup {None}]
          /\ cases'[c] # None /\ cases'[c].payment = "paid" /\ cases'[c].session = s
          /\ cases'[c].origin = cases[c].origin /\ cases'[c].deleted = cases[c].deleted
          /\ \A d \in Cases \ {c} : cases'[d] = cases[d]
        BY <1>1, <1>2, <2>2, PaidEffect
           DEF api_payment_webhook, _process_stripe_webhook_event
    <2>4. PaidBy(c)'
        BY <1>1, <1>2, <2>1, <2>2, <2>3 DEF PaidBy, Charged
    <2>5. Keeps
        BY <1>1, <2>2, <2>3 DEF Keeps, Paid
    <2>6. \A d \in Cases : Paid(d)' => (Paid(d) /\ cases'[d].session = cases[d].session) \/ PaidBy(d)'
        BY <2>3, <2>4 DEF Paid
    <2>7. RowsShape'
        BY <1>1, <2>5, <2>6, RowsStay DEF RowsShape, Delivered
    <2>8. RequestsHold' /\ DistinctSessions' /\ OnboardedOnce'
        <3>1. \A d \in Cases : Onboarded(d)' => Onboarded(d)
            BY <2>2, <2>3 DEF Onboarded, Open
        <3> QED  BY <1>1, <2>5, <3>1, RequestsIdle
    <2> QED  BY <1>1, <2>3, <2>5, <2>7, <2>8 DEF PaymentsInv, Tables
<1>3. CASE ~(BookedAs(s) = "paid" /\ Open(checkouts[s].case))
    <2>1. cases' = cases
        BY <1>3 DEF api_payment_webhook, _process_stripe_webhook_event
    <2>2. Keeps
        BY <1>1, <2>1 DEF Keeps, Paid
    <2>3. RowsShape'
        BY <1>1, <2>1, <2>2, RowsStay DEF RowsShape, Delivered, Paid
    <2>4. RequestsHold' /\ DistinctSessions' /\ OnboardedOnce'
        BY <1>1, <2>1, <2>2, RequestsIdle DEF Onboarded, Open
    <2> QED  BY <1>1, <2>1, <2>2, <2>3, <2>4 DEF PaymentsInv, Tables
<1> QED  BY <1>2, <1>3

(***************************************************************************)
(* The steps of requests that change a row.                                *)
(***************************************************************************)

\* The holder of the lock on the users row has seen that there is no case, and
\* nobody else has been at the same point since.
LEMMA OnboardingCommitStep ==
    ASSUME PaymentsInv, NEW r \in Requests, onboarding_commit(r)
    PROVE  PaymentsInv' /\ Keeps
<1>1. /\ UNCHANGED <<checkouts, paymentEvents, stripe, documents, files, bundled>>
      /\ userLock' = IF userLock = r THEN None ELSE userLock
      /\ Finish(r)
    BY DEF onboarding_commit
<1>2. userLock = r /\ (requests[r].found = "no" => NoOnboarding)
    BY DEF onboarding_commit, PaymentsInv, RequestsHold, Holds
<1>3. CASE cases' = cases
    BY <1>1, <1>3, EndsQuietly
<1>4. ASSUME NEW c \in Cases, requests[r].found = "no", cases[c] = None,
             cases' = [cases EXCEPT ![c] = NewCase("onboarding")]
      PROVE  PaymentsInv' /\ Keeps
    <2>1. /\ cases' \in [Cases -> Case \cup {None}]
          /\ ~Paid(c)' /\ \A d \in Cases \ {c} : cases'[d] = cases[d]
        BY <1>4, NewCaseEffect DEF PaymentsInv
    <2>2. /\ requests' \in [Requests -> Request \cup {None}]
          /\ requests'[r] = None /\ \A q \in Requests \ {r} : requests'[q] = requests[q]
        BY <1>1 DEF Finish, PaymentsInv, Tables
    <2>3. Keeps
        BY <1>1, <1>4, <2>1 DEF Keeps, Paid
    <2>4. \A d \in Cases : Paid(d)' => Paid(d) /\ cases'[d].session = cases[d].session
        BY <2>1 DEF Paid
    <2>5. RowsShape'
        BY <1>1, <2>3, <2>4, RowsStay DEF PaymentsInv, RowsShape, Delivered
    <2>6. OnboardedOnce'
        <3>1. \A d \in Cases : Onboarded(d)' => d = c
            BY <1>2, <1>4, <2>1 DEF NoOnboarding, Onboarded, Open
        <3> QED  BY <3>1 DEF OnboardedOnce, Onboarded
    <2>7. \A q \in Requests \ {r} : ~Serving(q, "onboard")
        BY <1>2 DEF PaymentsInv, RequestsHold, Holds
    <2>8. \A q \in Requests \ {r} : Holds(q)'
        BY <1>1, <2>2, <2>3, <2>7, OthersHold
    <2>9. Holds(r)'
        BY <2>2 DEF Holds, Serving, Idle
    <2>10. DistinctSessions'
        BY <2>2, DistinctStay DEF PaymentsInv, Serving, Idle
    <2> QED  BY <1>1, <2>1, <2>2, <2>3, <2>5, <2>6, <2>8, <2>9, <2>10
             DEF PaymentsInv, Tables, RequestsHold
<1> QED  BY <1>3, <1>4 DEF onboarding_commit

\* What a request for a checkout or a document looks like.
LEMMA RequestShape ==
    ASSUME Tables, NEW r \in Requests
    PROVE  /\ Serving(r, "checkout") =>
                 /\ requests[r] = [op |-> "checkout", case |-> requests[r].case,
                                   session |-> requests[r].session]
                 /\ requests[r].case \in Cases
                 /\ requests[r].session \in Checkouts \cup {None}
           /\ Serving(r, "document") =>
                 /\ requests[r] = [op |-> "document", case |-> requests[r].case,
                                   type |-> requests[r].type, doc |-> requests[r].doc]
                 /\ requests[r].case \in Cases /\ requests[r].type \in DocTypes
                 /\ requests[r].doc \in DocIds \cup {None}
<1>1. requests[r] \in Request \/ requests[r] = None
    BY DEF Tables
<1>2. ASSUME Serving(r, "checkout")
      PROVE  requests[r] \in [op : {"checkout"}, case : Cases, session : Checkouts \cup {None}]
    BY <1>1, <1>2 DEF Serving, Idle, Request
<1>3. ASSUME Serving(r, "document")
      PROVE  requests[r] \in [op : {"document"}, case : Cases, type : DocTypes,
                              doc : DocIds \cup {None}]
    BY <1>1, <1>3 DEF Serving, Idle, Request
<1> QED  BY <1>2, <1>3

LEMMA SessionOpenStep ==
    ASSUME PaymentsInv, NEW r \in Requests, NEW s \in Checkouts, create_session_open(r, s)
    PROVE  PaymentsInv' /\ Keeps
<1>1. /\ UNCHANGED <<cases, checkouts, paymentEvents, documents, files, bundled, userLock>>
      /\ stripe[s] = "none" /\ checkouts[s] = None /\ Serving(r, "checkout")
      /\ Tables /\ RowsShape
    BY DEF create_session_open, PaymentsInv
<1>2. /\ stripe' \in [Checkouts -> {"none", "open", "paid", "expired"}]
      /\ stripe'[s] # "paid" /\ \A t \in Checkouts \ {s} : stripe'[t] = stripe[t]
    BY <1>1 DEF create_session_open, Tables
<1>3. PICK c \in Cases :
          requests[r] = [op |-> "checkout", case |-> c, session |-> requests[r].session]
    BY <1>1, RequestShape
<1> DEFINE q == [op |-> "checkout", case |-> c, session |-> s]
<1>4. q \in Request
    BY DEF Request
<1>5. requests' = [requests EXCEPT ![r] = q]
    <2>1. [requests[r] EXCEPT !.session = s] = q
        BY <1>3
    <2>2. requests' = [requests EXCEPT ![r] = [requests[r] EXCEPT !.session = s]]
        BY DEF create_session_open
    <2> QED  BY <2>1, <2>2
<1>6. /\ requests' \in [Requests -> Request \cup {None}]
      /\ requests'[r] = q /\ \A p \in Requests \ {r} : requests'[p] = requests[p]
    BY <1>1, <1>4, <1>5, BeginEffect
<1>7. Keeps
    BY <1>1, <1>2 DEF Keeps, Paid
<1>8. RowsShape'
    BY <1>1, <1>2, <1>7, RowsStay DEF RowsShape, Delivered, Paid
<1>9. OnboardedOnce' /\ (NoOnboarding => NoOnboarding')
    BY <1>1 DEF PaymentsInv, OnboardedOnce, NoOnboarding, Onboarded, Open
<1>10. \A p \in Requests \ {r} : Holds(p)'
    BY <1>1, <1>6, <1>7, <1>9, OthersHold
<1>11. Holds(r)'
    <2>1. cases[c] # None
        BY <1>1, <1>3 DEF PaymentsInv, RequestsHold, Holds
    <2> QED  BY <1>1, <1>6, <2>1 DEF Holds, Serving, Idle
<1>12. DistinctSessions'
    BY <1>6, DistinctStay DEF create_session_open, PaymentsInv
<1> QED  BY <1>1, <1>2, <1>6, <1>7, <1>8, <1>9, <1>10, <1>11, <1>12
         DEF PaymentsInv, Tables, RequestsHold

LEMMA StoreStep ==
    ASSUME PaymentsInv, NEW r \in Requests, _store_payment_session(r)
    PROVE  PaymentsInv' /\ Keeps
<1>1. /\ UNCHANGED <<cases, stripe, documents, files, bundled, userLock>>
      /\ Serving(r, "checkout") /\ requests[r].session # None /\ Finish(r)
      /\ Tables /\ RowsShape
    BY DEF _store_payment_session, PaymentsInv
<1>2. PICK s \in Checkouts, c \in Cases : s = requests[r].session /\ c = requests[r].case
    BY <1>1, RequestShape
<1>3. cases[c] # None /\ checkouts[s] = None
    BY <1>1, <1>2 DEF PaymentsInv, RequestsHold, Holds
<1>4. /\ checkouts' = [checkouts EXCEPT ![s] = [case |-> c, status |-> "pending"]]
      /\ paymentEvents \subseteq paymentEvents'
    BY <1>2 DEF _store_payment_session, _record_payment_event
<1>5. /\ checkouts' \in [Checkouts -> Checkout \cup {None}]
      /\ checkouts'[s] # None /\ checkouts'[s].case = c
      /\ \A t \in Checkouts \ {s} : checkouts'[t] = checkouts[t]
    BY <1>1, <1>4, StoredEffect
<1>6. /\ requests' \in [Requests -> Request \cup {None}]
      /\ requests'[r] = None /\ \A p \in Requests \ {r} : requests'[p] = requests[p]
    BY <1>1 DEF Finish, Tables
<1>7. Keeps
    BY <1>1, <1>3, <1>4, <1>5 DEF Keeps, Paid
<1>8. RowsShape'
    BY <1>1, <1>3, <1>5, <1>7, RowsStay DEF RowsShape, Delivered, Paid
<1>9. OnboardedOnce' /\ (NoOnboarding => NoOnboarding')
    BY <1>1 DEF PaymentsInv, OnboardedOnce, NoOnboarding, Onboarded, Open
<1>10. \A p \in Requests \ {r} : Holds(p)'
    <2>1. \A p \in Requests \ {r} : Serving(p, "checkout") /\ requests[p].session # None =>
              requests[p].session \in Checkouts \ {s}
        BY <1>1, <1>2, RequestShape DEF PaymentsInv, DistinctSessions
    <2> QED  BY <1>1, <1>5, <1>6, <1>7, <1>9, <2>1, OthersHold
<1>11. Holds(r)'
    BY <1>6 DEF Holds, Serving, Idle
<1>12. DistinctSessions'
    BY <1>6, DistinctStay DEF PaymentsInv, Serving, Idle
<1> QED  BY <1>1, <1>5, <1>6, <1>7, <1>8, <1>9, <1>10, <1>11, <1>12
         DEF PaymentsInv, Tables, RequestsHold

LEMMA WriteStep ==
    ASSUME PaymentsInv, NEW r \in Requests, NEW d \in DocIds, generate_document_write(r, d)
    PROVE  PaymentsInv' /\ Keeps
<1>1. /\ UNCHANGED <<cases, checkouts, paymentEvents, stripe, documents, bundled, userLock>>
      /\ files' = files \cup {d} /\ Serving(r, "document")
      /\ Tables /\ RowsShape
    BY DEF generate_document_write, PaymentsInv
<1>2. PICK c \in Cases, t \in DocTypes :
          requests[r] = [op |-> "document", case |-> c, type |-> t, doc |-> requests[r].doc]
    BY <1>1, RequestShape
<1> DEFINE q == [op |-> "document", case |-> c, type |-> t, doc |-> d]
<1>3. q \in Request
    BY DEF Request
<1>4. requests' = [requests EXCEPT ![r] = q]
    <2>1. [requests[r] EXCEPT !.doc = d] = q
        BY <1>2
    <2>2. requests' = [requests EXCEPT ![r] = [requests[r] EXCEPT !.doc = d]]
        BY DEF generate_document_write
    <2> QED  BY <2>1, <2>2
<1>5. /\ requests' \in [Requests -> Request \cup {None}]
      /\ requests'[r] = q /\ \A p \in Requests \ {r} : requests'[p] = requests[p]
    BY <1>1, <1>3, <1>4, BeginEffect
<1>6. Keeps
    BY <1>1 DEF Keeps, Paid
<1>7. RowsShape'
    BY <1>1, <1>6, RowsStay DEF RowsShape, Delivered, Paid
<1>8. OnboardedOnce' /\ (NoOnboarding => NoOnboarding')
    BY <1>1 DEF PaymentsInv, OnboardedOnce, NoOnboarding, Onboarded, Open
<1>9. \A p \in Requests \ {r} : Holds(p)'
    BY <1>1, <1>5, <1>6, <1>8, OthersHold
<1>10. Holds(r)'
    <2>1. Settled(c)
        BY <1>1, <1>2 DEF PaymentsInv, RequestsHold, Holds
    <2>2. \E s \in Checkouts : Charged(s)' /\ checkouts'[s].case = c
        BY <1>1, <2>1 DEF Settled, Charged
    <2> QED  BY <1>1, <1>5, <2>2 DEF Holds, Serving, Idle, Settled
<1>11. DistinctSessions'
    BY <1>5, DistinctStay DEF PaymentsInv, Serving, Idle
<1> QED  BY <1>1, <1>5, <1>6, <1>7, <1>8, <1>9, <1>10, <1>11
         DEF PaymentsInv, Tables, RequestsHold

LEMMA RecordStep ==
    ASSUME PaymentsInv, NEW r \in Requests, generate_document_record(r)
    PROVE  PaymentsInv' /\ Keeps
<1> DEFINE new == [id |-> requests[r].doc, case |-> requests[r].case,
                   kind |-> "generated", type |-> requests[r].type]
<1>1. /\ UNCHANGED <<cases, checkouts, paymentEvents, stripe, files, bundled, userLock>>
      /\ documents' \subseteq documents \cup {new}
      /\ Serving(r, "document") /\ requests[r].doc # None /\ Finish(r)
      /\ Tables /\ RowsShape
    BY DEF generate_document_record, PaymentsInv
<1>2. Settled(new.case) /\ new.id \in files
    BY <1>1 DEF PaymentsInv, RequestsHold, Holds
<1>3. /\ requests' \in [Requests -> Request \cup {None}]
      /\ requests'[r] = None /\ \A p \in Requests \ {r} : requests'[p] = requests[p]
    BY <1>1 DEF Finish, Tables
<1>4. Keeps
    BY <1>1 DEF Keeps, Paid
<1>6. RowsShape'
    <2>1. \A d \in documents' : d \in documents \/ Stored(d)'
        BY <1>1, <1>2 DEF Stored
    <2>2. \A c \in Delivered' : c \in Delivered \/ Settled(c)
        BY <1>1, <1>2 DEF Delivered
    <2> QED  BY <1>1, <1>4, <2>1, <2>2, RowsStay DEF RowsShape, Paid
<1>7. OnboardedOnce' /\ (NoOnboarding => NoOnboarding')
    BY <1>1 DEF PaymentsInv, OnboardedOnce, NoOnboarding, Onboarded, Open
<1>8. \A p \in Requests \ {r} : Holds(p)'
    BY <1>1, <1>3, <1>4, <1>7, OthersHold
<1>9. Holds(r)'
    BY <1>3 DEF Holds, Serving, Idle
<1>10. DistinctSessions'
    BY <1>3, DistinctStay DEF PaymentsInv, Serving, Idle
<1> QED  BY <1>1, <1>3, <1>4, <1>6, <1>7, <1>8, <1>9, <1>10
         DEF PaymentsInv, Tables, RequestsHold

(***************************************************************************)
(* All steps                                                               *)
(***************************************************************************)

LEMMA InvStep ==
    ASSUME PaymentsInv, [Next]_vars
    PROVE  PaymentsInv' /\ Keeps
<1>1. CASE UNCHANGED vars
    <2>1. /\ UNCHANGED <<cases, checkouts, paymentEvents, stripe, documents, files, bundled>>
          /\ UNCHANGED <<requests, userLock>>
        BY <1>1 DEF vars
    <2>2. Tables' /\ RowsShape' /\ OnboardedOnce' /\ Keeps
        BY <2>1, RowsUntouched DEF PaymentsInv, Tables
    <2>3. RequestsHold' /\ DistinctSessions'
        BY <2>1, <2>2, RequestsIdle DEF Onboarded, Open
    <2> QED  BY <2>2, <2>3 DEF PaymentsInv
<1>2. ASSUME NEW c \in Cases, save_case(c) \/ delete_case(c) \/ generate_bundle(c)
      PROVE  PaymentsInv' /\ Keeps
    BY <1>2, SaveStep, DeleteStep, BundleStep
<1>2a. ASSUME NEW c \in Cases, NEW d \in DocIds, attach_upload(c, d) \/ api_upload(c, d)
       PROVE  PaymentsInv' /\ Keeps
    BY <1>2a, UploadStep
<1>3. ASSUME NEW s \in Checkouts,
             \/ stripe_settles(s)
             \/ confirm_test_payment_session(s)
             \/ api_payment_webhook(s)
      PROVE  PaymentsInv' /\ Keeps
    BY <1>3, SettlesStep, ConfirmStep, WebhookStep
<1>4. ASSUME NEW r \in Requests,
             onboarding_lock(r) \/ onboarding_check(r) \/ onboarding_commit(r)
      PROVE  PaymentsInv' /\ Keeps
    BY <1>4, OnboardingLockStep, OnboardingCheckStep, OnboardingCommitStep
<1>5. ASSUME NEW r \in Requests, NEW c \in Cases, create_session_check(r, c)
      PROVE  PaymentsInv' /\ Keeps
    BY <1>5, SessionCheckStep
<1>6. ASSUME NEW r \in Requests, NEW s \in Checkouts,
             create_session_open(r, s) \/ stripe_webhook_check(r, s)
      PROVE  PaymentsInv' /\ Keeps
    BY <1>6, SessionOpenStep, WebhookCheckStep
<1>7. ASSUME NEW r \in Requests, _store_payment_session(r)
      PROVE  PaymentsInv' /\ Keeps
    BY <1>7, StoreStep
<1>8. ASSUME NEW r \in Requests, stripe_webhook_apply(r) \/ request_fails(r)
      PROVE  PaymentsInv' /\ Keeps
    <2>1. /\ Finish(r)
          /\ UNCHANGED <<cases, checkouts, paymentEvents, stripe, documents, files, bundled>>
        BY <1>8 DEF stripe_webhook_apply, request_fails
    <2>2. CASE stripe_webhook_apply(r)
        <3>1. userLock' = userLock
            BY <2>2 DEF stripe_webhook_apply
        <3> QED  BY <2>1, <3>1, EndsQuietly
    <2>3. CASE request_fails(r)
        BY <2>1, <2>3, EndsQuietly DEF request_fails
    <2> QED  BY <1>8, <2>2, <2>3
<1>9. ASSUME NEW r \in Requests, NEW c \in Cases, NEW t \in DocTypes,
             generate_document_check(r, c, t)
      PROVE  PaymentsInv' /\ Keeps
    BY <1>9, DocumentCheckStep
<1>10. ASSUME NEW r \in Requests, NEW d \in DocIds, generate_document_write(r, d)
       PROVE  PaymentsInv' /\ Keeps
    BY <1>10, WriteStep
<1>11. ASSUME NEW r \in Requests, generate_document_record(r)
       PROVE  PaymentsInv' /\ Keeps
    BY <1>11, RecordStep
<1> QED  BY <1>1, <1>2, <1>2a, <1>3, <1>4, <1>5, <1>6, <1>7, <1>8, <1>9, <1>10, <1>11 DEF Next

LEMMA InitInv == Init => PaymentsInv
<1> SUFFICES ASSUME Init
    PROVE  PaymentsInv
    OBVIOUS
<1>1. Tables
    BY DEF Init, Tables
<1>2. RowsShape
    BY DEF Init, RowsShape, Paid, Delivered
<1>3. RequestsHold /\ DistinctSessions
    BY DEF Init, RequestsHold, Holds, DistinctSessions, Serving, Idle
<1>4. OnboardedOnce
    BY DEF Init, OnboardedOnce, Open
<1> QED  BY <1>1, <1>2, <1>3, <1>4 DEF PaymentsInv

LEMMA Invariance == Spec => []PaymentsInv
<1>1. PaymentsInv /\ [Next]_vars => PaymentsInv'
    BY InvStep
<1> QED  BY InitInv, <1>1, PTL DEF Spec

(***************************************************************************)
(* Nothing is delivered for a case no checkout of which was charged, and   *)
(* no case is paid without its entry in the audit table, however many      *)
(* checkouts, events, deletions and documents are under way                *)
(* (payment_routes.py, document_routes.py).                                *)
(***************************************************************************)
THEOREM MoneyIsAccountedFor == Spec => []MoneyAccounted
<1>1. PaymentsInv => MoneyAccounted
    <2> SUFFICES ASSUME PaymentsInv
        PROVE  MoneyAccounted
        OBVIOUS
    <2>1. DeliveredMeansCharged
        BY DEF PaymentsInv, RowsShape, Delivered, Settled, DeliveredMeansCharged
    <2>2. PaidMeansLogged
        BY PaymentsAssumption DEF PaymentsInv, RowsShape, Paid, PaidBy, PaidMeansLogged
    <2> QED  BY <2>1, <2>2 DEF MoneyAccounted
<1> QED  BY <1>1, Invariance, PTL

(***************************************************************************)
(* However many onboarding calls of an account run at a time, it has at    *)
(* most one onboarding case: the lock on its users row is held from the    *)
(* look-up to the insert (main.py, complete_onboarding).                   *)
(***************************************************************************)
THEOREM OneOnboardingCase == Spec => []OnboardedOnce
<1>1. PaymentsInv => OnboardedOnce
    BY DEF PaymentsInv
<1> QED  BY <1>1, Invariance, PTL

(***************************************************************************)
(* Every generated document listed for a paid case, and every upload of    *)
(* the uploads API, can be downloaded by both routes: its row is only      *)
(* inserted when its file is written.  Attached files and the components   *)
(* of a bundle are listed and can be downloaded by neither.                *)
(***************************************************************************)
THEOREM PaidAndDownloadable == Spec => []PaidCanDownload
<1>1. PaymentsInv => PaidCanDownload
    BY DEF PaymentsInv, RowsShape, PaidCanDownload, get_payment_status,
           api_list_case_documents, BundleRow, download_document, api_document_download,
           HasOwner, FileFound, Stored, is_case_paid
<1> QED  BY <1>1, Invariance, PTL

(***************************************************************************)
(* A paid case stays paid, whatever events arrive late or twice.           *)
(***************************************************************************)
THEOREM PaidForGood == Spec => PaidIsPermanent
<1>1. PaymentsInv /\ [Next]_vars =>
          [\A c \in Cases : cases[c] # None /\ cases[c].payment = "paid" =>
              cases'[c] # None /\ cases'[c].payment = "paid"]_vars
    BY InvStep DEF Keeps, Paid
<1> QED  BY <1>1, Invariance, PTL DEF Spec, PaidIsPermanent

-----------------------------------------------------------------------------

(***************************************************************************)
(* Leads are readable exactly where their key is, for any number of leads, *)
(* changes of mode and outages of the key service.                         *)
(***************************************************************************)

\* What a row that lead l has written looks like: either under a data key of
\* its own with the bundle that recovers it, or under the configured key, which
\* is then among the settings.  Mode, KMS and age have no part in it.
Written(l) ==
    /\ leads[l] \in Lead
    /\ \/ leads[l].key = l /\ leads[l].bundle = TRUE
       \/ /\ leads[l].key = "env" /\ leads[l].bundle = FALSE
          /\ "ENCRYPTION_KEY" \in settings

LeadsInv ==
    /\ kmMode \in Modes
    /\ kmsUp \in BOOLEAN
    /\ DOMAIN leads = LeadIds /\ leads = [l \in LeadIds |-> leads[l]]
    /\ \A l \in LeadIds : leads[l] = NoLead \/ Written(l)

\* A row as it is once l has aged or been erased: its key and bundle stay.
Kept(l, row) == row \in Lead /\ row.key = leads[l].key /\ row.bundle = leads[l].bundle

\* Ageing and erasing a row leave the key and its bundle alone.
LEMMA RowsKeepTheirKey ==
    ASSUME NEW l \in LeadIds, leads[l] \in Lead
    PROVE  Kept(l, [leads[l] EXCEPT !.old = TRUE]) /\ Kept(l, [leads[l] EXCEPT !.erased = TRUE])
  BY DEF Lead, Kept

\* What a step that only ages or erases rows does to the invariant: nothing.
LEMMA KeptRowsKeepInv ==
    ASSUME LeadsInv, UNCHANGED <<settings, kmMode, kmsUp>>,
           DOMAIN leads' = LeadIds /\ leads' = [l \in LeadIds |-> leads'[l]],
           \A l \in LeadIds : \/ leads'[l] = leads[l]
                              \/ leads[l] # NoLead /\ Kept(l, leads'[l])
    PROVE  LeadsInv'
<1>1. ASSUME NEW l \in LeadIds
      PROVE  leads'[l] = NoLead \/ Written(l)'
  <2>1. CASE leads'[l] = leads[l]
    BY <2>1 DEF LeadsInv, Written
  <2>2. CASE leads[l] # NoLead /\ Kept(l, leads'[l])
    BY <2>2 DEF LeadsInv, Written, Kept
  <2> QED BY <2>1, <2>2
<1> QED BY <1>1 DEF LeadsInv

LEMMA LeadsInitInv == LeadsInit => LeadsInv
  BY DEF LeadsInit, LeadsInv

LEMMA LeadsNextInv == LeadsInv /\ [LeadsNext]_leadVars => LeadsInv'
<1> SUFFICES ASSUME LeadsInv, [LeadsNext]_leadVars
             PROVE  LeadsInv'
  OBVIOUS
<1> USE DEF LeadsInv
<1>1. ASSUME NEW l \in LeadIds, capture_handoff_lead(l)
      PROVE  LeadsInv'
  <2>1. PICK row :
          /\ row \in Lead
          /\ \/ row.key = l /\ row.bundle = TRUE
             \/ /\ row.key = "env" /\ row.bundle = FALSE
                /\ "ENCRYPTION_KEY" \in settings
          /\ leads' = [leads EXCEPT ![l] = row]
    <3> DEFINE own == [key |-> l, bundle |-> TRUE, old |-> FALSE, erased |-> FALSE]
               env == [key |-> "env", bundle |-> FALSE, old |-> FALSE, erased |-> FALSE]
    <3>1. own \in Lead /\ own.key = l /\ own.bundle = TRUE
      BY DEF Lead
    <3>2. env \in Lead /\ env.key = "env" /\ env.bundle = FALSE
      BY DEF Lead
    <3>3. \/ leads' = [leads EXCEPT ![l] = own]
          \/ encrypt_str /\ leads' = [leads EXCEPT ![l] = env]
      BY <1>1 DEF capture_handoff_lead
    <3> HIDE DEF own, env
    <3> QED BY <3>1, <3>2, <3>3 DEF encrypt_str
  <2>2. UNCHANGED <<kmMode, settings, kmsUp>>
    BY <1>1 DEF capture_handoff_lead
  <2> QED BY <2>1, <2>2 DEF Written
<1>2. ASSUME NEW l \in LeadIds, delete_handoff_lead(l)
      PROVE  LeadsInv'
  <2>1. leads[l] \in Lead /\ leads[l] # NoLead
    BY <1>2 DEF delete_handoff_lead, Live, Written
  <2>2. Kept(l, [leads[l] EXCEPT !.erased = TRUE])
    BY <2>1, RowsKeepTheirKey
  <2> QED BY <1>2, <2>1, <2>2, KeptRowsKeepInv DEF delete_handoff_lead
<1>3. ASSUME NEW l \in LeadIds, Age(l)
      PROVE  LeadsInv'
  <2>1. leads[l] \in Lead /\ leads[l] # NoLead
    BY <1>3 DEF Age, Live, Written
  <2>2. Kept(l, [leads[l] EXCEPT !.old = TRUE])
    BY <2>1, RowsKeepTheirKey
  <2> QED BY <1>3, <2>1, <2>2, KeptRowsKeepInv DEF Age
<1>4. CASE run_retention
  <2>1. ASSUME NEW l \in LeadIds
        PROVE  leads'[l] = leads[l] \/ (leads[l] # NoLead /\ Kept(l, leads'[l]))
    <3>1. CASE leads'[l] = [leads[l] EXCEPT !.erased = TRUE] /\ Live(l)
      BY <3>1, RowsKeepTheirKey DEF Live, Written
    <3>2. leads'[l] = leads[l] \/ (leads'[l] = [leads[l] EXCEPT !.erased = TRUE] /\ Live(l))
      BY <1>4 DEF run_retention
    <3> QED BY <3>1, <3>2
  <2>2. DOMAIN leads' = LeadIds /\ leads' = [l \in LeadIds |-> leads'[l]]
    BY <1>4 DEF run_retention
  <2>3. UNCHANGED <<settings, kmMode, kmsUp>>
    BY <1>4 DEF run_retention
  <2> QED BY <2>1, <2>2, <2>3, KeptRowsKeepInv
<1>5. CASE KmsFails
  BY <1>5 DEF KmsFails, Written
<1>6. ASSUME NEW chosen \in Modes, Redeploy(chosen)
      PROVE  LeadsInv'
  BY <1>6 DEF Redeploy, Written
<1>7. CASE UNCHANGED leadVars
  BY <1>7 DEF leadVars, Written
<1> QED BY <1>1, <1>2, <1>3, <1>4, <1>5, <1>6, <1>7 DEF LeadsNext

\* AWS opens its bundles, the configured key what it closed, and nothing else does.
LEMMA ReadableFromInv == LeadsInv => ReadableWithItsKey
<1> DEFINE envKey == \/ kmMode = "env"
                     \/ kmMode = "kms_stub" /\ "KMS_KEY_ID" \in settings
<1> SUFFICES ASSUME LeadsInv, NEW l \in LeadIds, leads[l] # NoLead
             PROVE  (decrypt_pii_field(l) <=>
                        /\ ~leads[l].erased
                        /\ IF leads[l].bundle THEN kmMode = "aws_kms" /\ kmsUp ELSE envKey)
  BY DEF ReadableWithItsKey
<1>1. Written(l) /\ kmMode \in Modes
  BY DEF LeadsInv
<1>2. decrypt_pii_field(l) <=> ~leads[l].erased /\ envelope_decrypt_str(l)
  BY DEF decrypt_pii_field, Live
<1>3. CASE leads[l].bundle = TRUE
  <2>1. leads[l].key = l /\ l # "no"
    BY <1>1, <1>3, LeadsAssumption DEF Written
  <2>2. get_key_provider.opensAws <=> (kmMode = "aws_kms" /\ kmsUp)
    <3>1. CASE kmMode = "aws_kms"
      BY <3>1 DEF get_key_provider, AwsKmsProvider
    <3>2. CASE kmMode = "kms_stub"
      BY <3>2 DEF get_key_provider, KmsStubProvider, KeyProvider
    <3>3. CASE kmMode = "disabled"
      BY <3>3 DEF get_key_provider, KeyProvider
    <3>4. CASE kmMode = "env"
      BY <3>4 DEF get_key_provider, EnvKeyProvider, KeyProvider
    <3> QED BY <1>1, <3>1, <3>2, <3>3, <3>4 DEF Modes
  <2>3. envelope_decrypt_str(l) <=> get_key_provider.opensAws
    BY <1>3, <2>1 DEF envelope_decrypt_str, decrypt_data_key
  <2> QED BY <1>2, <1>3, <2>2, <2>3
<1>4. CASE leads[l].bundle = FALSE
  <2>1. leads[l].key = "env" /\ "ENCRYPTION_KEY" \in settings
    BY <1>1, <1>4 DEF Written
  <2>2. get_encryption_key = "env" <=> envKey
    <3>1. CASE kmMode = "aws_kms"
      BY <3>1 DEF get_encryption_key, get_key_provider, AwsKmsProvider
    <3>2. CASE kmMode = "kms_stub"
      BY <2>1, <3>2 DEF get_encryption_key, get_key_provider, KmsStubProvider,
                        EnvKeyProvider, KeyProvider
    <3>3. CASE kmMode = "disabled"
      BY <3>3 DEF get_encryption_key, get_key_provider, KeyProvider
    <3>4. CASE kmMode = "env"
      BY <2>1, <3>4 DEF get_encryption_key, get_key_provider, EnvKeyProvider, KeyProvider
    <3> QED BY <1>1, <3>1, <3>2, <3>3, <3>4 DEF Modes
  <2>3. envelope_decrypt_str(l) <=> get_encryption_key = "env"
    BY <1>4, <2>1 DEF envelope_decrypt_str
  <2> QED BY <1>2, <1>4, <2>2, <2>3
<1> QED BY <1>1, <1>3, <1>4 DEF Written

(***************************************************************************)
(* A lead is read exactly when the running mode reaches its key: that of   *)
(* its bundle in aws_kms mode, the configured one in env mode or in        *)
(* kms_stub mode with its key id, whatever mode wrote it; an erased one    *)
(* never (main.py:1834-1843, envelope_encryption.py, kms.py).              *)
(***************************************************************************)
THEOREM LeadsReadable == LeadsSpec => []ReadableWithItsKey
<1>1. LeadsSpec => []LeadsInv
  BY LeadsInitInv, LeadsNextInv, PTL DEF LeadsSpec
<1> QED BY <1>1, ReadableFromInv, PTL

-----------------------------------------------------------------------------

(***************************************************************************)
(* Matters, notes and reminders stay sound, for any users and any matters. *)
(***************************************************************************)

\* A nonempty set of numbers has a least one.
LEMMA LeastNumber ==
    ASSUME NEW S \in SUBSET Nat, S # {}
    PROVE  \E x \in S : \A y \in S : x <= y
<1>1. PICK x \in S : \A y \in S : ~ (<<y, x>> \in OpToRel(<, Nat))
  BY NatLessThanWellFounded, WFMin
<1>2. ASSUME NEW y \in S PROVE x <= y
  <2> SUFFICES ASSUME ~ (x <= y) PROVE FALSE
    OBVIOUS
  <2>1. x \in Nat /\ y \in Nat /\ y < x
    OBVIOUS
  <2>2. PICK p : p = <<y, x>>
    OBVIOUS
  <2>3. p \in Nat \X Nat /\ p[1] < p[2]
    BY <2>1, <2>2
  <2>4. p \in OpToRel(<, Nat)
    BY <2>3 DEF OpToRel
  <2> QED BY <1>1, <2>2, <2>4
<1> QED BY <1>2

DeadlineRow == [event : EventDates, due : Nat, status : {"open"}]
HubView == [next : Nat, seen : Nat]
Job == [type : {"email"}, id : NoteIds] \cup [type : {"partner_referral"}, id : MatterIds]

MattersTypes ==
    /\ deadlines \in [MatterIds -> Seq(DeadlineRow)]
    /\ hub \in [MatterIds -> {Absent} \cup HubView]
    /\ notes \in [NoteIds -> {Absent} \cup Note]
    /\ emailQueue \in Seq(Job)

\* A deadline is due when the rule in force at its event says.
DueByRule ==
    \A m \in MatterIds : \A i \in 1..Len(deadlines[m]) :
        deadlines[m][i].due = deadlines[m][i].event + MonthsOf[deadlines[m][i].event]

\* What the hub named is not later than any deadline it had seen.
HubSaw ==
    \A m \in MatterIds : hub[m] # Absent =>
        /\ hub[m].seen <= Len(deadlines[m])
        /\ \A i \in 1..hub[m].seen : hub[m].next <= deadlines[m][i].due

\* An e-mail on its way has a row, and one still to be pushed no job.
NotesInv ==
    /\ \A i \in 1..Len(emailQueue) : emailQueue[i].type = "email" =>
          notes[emailQueue[i].id] # Absent /\ emailQueue[i].id \notin sending
    /\ \A i, j \in 1..Len(emailQueue) :
          emailQueue[i].type = "email" /\ emailQueue[i] = emailQueue[j] => i = j
    /\ \A n \in sending : n \in NoteIds /\ notes[n] # Absent

MattersInv == MattersTypes /\ DueByRule /\ HubSaw /\ NotesInv

\* No deadline, no note, no job.
LEMMA MattersInitInv == MattersInit => MattersInv
BY DEF MattersInit, MattersInv, MattersTypes, DueByRule, HubSaw, NotesInv

\* A deadline is appended: what the hub named is about the earlier ones.
LEMMA SaveDeadlineStep ==
    ASSUME MattersInv, NEW m \in MatterIds, NEW u \in Clients, NEW d \in EventDates,
           save_matter_deadlines(m, u, d)
    PROVE  MattersInv'
<1> USE DEF MattersInv
<1>1. MonthsOf[d] \in Nat /\ d \in Nat /\ calculate_deadline(d) = d + MonthsOf[d]
  BY MattersAssumption DEF save_matter_deadlines, calculate_deadline
<1>2. PICK e : e = [event |-> d, due |-> d + MonthsOf[d], status |-> "open"]
  OBVIOUS
<1>3. e \in DeadlineRow /\ e.due = e.event + MonthsOf[e.event]
  <2>1. d + MonthsOf[d] \in Nat
    BY <1>1
  <2> QED BY <1>2, <2>1 DEF DeadlineRow
<1>4. PICK rows \in Seq(DeadlineRow) : rows = deadlines[m]
  BY DEF MattersTypes
<1>5. deadlines' = [deadlines EXCEPT ![m] = Append(rows, e)]
  BY <1>1, <1>2, <1>4 DEF save_matter_deadlines
<1>6. /\ deadlines' \in [MatterIds -> Seq(DeadlineRow)]
      /\ deadlines'[m] = Append(rows, e)
      /\ \A o \in MatterIds : o # m => deadlines'[o] = deadlines[o]
  BY <1>3, <1>4, <1>5 DEF MattersTypes
<1>7. /\ Len(Append(rows, e)) = Len(rows) + 1 /\ Len(rows) \in Nat
      /\ \A i \in 1..Len(rows) : Append(rows, e)[i] = rows[i]
      /\ Append(rows, e)[Len(rows) + 1] = e
  BY <1>3, <1>4
<1>8. UNCHANGED <<hub, notes, sending, emailQueue>>
  BY DEF save_matter_deadlines, messages
<1>9. MattersTypes' /\ NotesInv'
  BY <1>6, <1>8 DEF MattersTypes, NotesInv
<1>10. DueByRule'
  <2> SUFFICES ASSUME NEW o \in MatterIds, NEW i \in 1..Len(deadlines'[o])
               PROVE  deadlines'[o][i].due
                        = deadlines'[o][i].event + MonthsOf[deadlines'[o][i].event]
    BY DEF DueByRule
  <2>1. CASE o # m
    BY <1>6, <2>1 DEF DueByRule
  <2>2. CASE o = m
    <3>1. i \in 1..Len(rows) \/ i = Len(rows) + 1
      BY <1>6, <1>7, <2>2
    <3> QED BY <1>3, <1>4, <1>6, <1>7, <2>2, <3>1 DEF DueByRule
  <2> QED BY <2>1, <2>2
<1>11. HubSaw'
  <2> SUFFICES ASSUME NEW o \in MatterIds, hub[o] # Absent
               PROVE  /\ hub[o].seen <= Len(deadlines'[o])
                      /\ \A i \in 1..hub[o].seen : hub[o].next <= deadlines'[o][i].due
    BY <1>8 DEF HubSaw
  <2>1. /\ hub[o].seen \in Nat /\ hub[o].seen <= Len(deadlines[o])
        /\ \A i \in 1..hub[o].seen : hub[o].next <= deadlines[o][i].due
    BY DEF MattersTypes, HubSaw, HubView
  <2>2. CASE o = m
    <3>1. PICK seen \in Nat : seen = hub[o].seen
      BY <2>1
    <3>2. deadlines[o] = rows /\ deadlines'[o] = Append(rows, e)
      BY <1>4, <1>6, <2>2
    <3>3. seen <= Len(rows) + 1 /\ \A i \in 1..seen : i \in 1..Len(rows)
      BY <1>7, <2>1, <3>1, <3>2
    <3>4. \A i \in 1..seen : Append(rows, e)[i].due = rows[i].due
      BY <1>7, <3>3
    <3>5. \A i \in 1..seen : hub[o].next <= rows[i].due
      BY <2>1, <3>1, <3>2
    <3>6. \A i \in 1..seen : hub[o].next <= Append(rows, e)[i].due
      BY <3>4, <3>5
    <3> QED BY <1>7, <3>1, <3>2, <3>3, <3>6
  <2>3. CASE o # m
    BY <1>6, <2>1, <2>3
  <2> QED BY <2>2, <2>3
<1> QED BY <1>9, <1>10, <1>11

\* The hub names the nearest of all deadlines there are.
LEMMA HubStep ==
    ASSUME MattersInv, NEW m \in MatterIds, NEW u \in Clients, matter_hub(m, u)
    PROVE  MattersInv'
<1> USE DEF MattersInv
<1>1. UNCHANGED <<deadlines, notes, sending, emailQueue>>
  BY DEF matter_hub, messages
<1>2. PICK rows \in Seq(DeadlineRow) : rows = deadlines[m]
  BY DEF MattersTypes
<1>3. CASE rows = << >>
  <2>1. hub' = [hub EXCEPT ![m] = Absent]
    BY <1>2, <1>3 DEF matter_hub
  <2> QED BY <1>1, <2>1 DEF MattersTypes, DueByRule, HubSaw, NotesInv
<1>4. CASE rows # << >>
  <2>1. PICK x : x = Nearest(rows)
    OBVIOUS
  <2>2. x \in Nat /\ \A i \in 1..Len(rows) : x <= rows[i].due
    <3> DEFINE S == {rows[i].due : i \in {j \in DOMAIN rows : rows[j].status = "open"}}
    <3>1. \A i \in 1..Len(rows) : rows[i].status = "open" /\ rows[i].due \in Nat
      <4>1. \A i \in 1..Len(rows) : rows[i] \in DeadlineRow
        OBVIOUS
      <4> QED BY <4>1 DEF DeadlineRow
    <3>2. S \in SUBSET Nat /\ \A i \in 1..Len(rows) : rows[i].due \in S
      BY <3>1
    <3>3. 1 \in 1..Len(rows)
      BY <1>4
    <3>4. S # {}
      BY <3>2, <3>3
    <3> HIDE DEF S
    <3>5. \E y \in S : \A z \in S : y <= z
      BY <3>2, <3>4, LeastNumber
    <3>6. Min(S) \in S /\ \A z \in S : Min(S) <= z
      BY <3>5 DEF Min
    <3>7. x = Min(S)
      BY <2>1 DEF Nearest, S
    <3> QED BY <3>2, <3>6, <3>7
  <2>3. PICK v : v = [next |-> x, seen |-> Len(rows)]
    OBVIOUS
  <2>4. hub' = [hub EXCEPT ![m] = v]
    BY <1>2, <1>4, <2>1, <2>3 DEF matter_hub
  <2>5. v \in HubView /\ v.next = x /\ v.seen = Len(rows) /\ Len(rows) \in Nat
    <3>1. Len(rows) \in Nat
      BY <1>2
    <3> QED BY <2>2, <2>3, <3>1 DEF HubView
  <2>6. hub' \in [MatterIds -> {Absent} \cup HubView] /\ hub'[m] = v
        /\ \A o \in MatterIds : o # m => hub'[o] = hub[o]
    BY <2>4, <2>5 DEF MattersTypes
  <2>7. HubSaw'
    <3> SUFFICES ASSUME NEW o \in MatterIds, hub'[o] # Absent
                 PROVE  /\ hub'[o].seen <= Len(deadlines[o])
                        /\ \A i \in 1..hub'[o].seen : hub'[o].next <= deadlines[o][i].due
      BY <1>1 DEF HubSaw
    <3>1. CASE o = m
      BY <1>2, <2>2, <2>5, <2>6, <3>1
    <3>2. CASE o # m
      BY <2>6, <3>2 DEF HubSaw
    <3> QED BY <3>1, <3>2
  <2> QED BY <1>1, <2>6, <2>7 DEF MattersTypes, DueByRule, NotesInv
<1> QED BY <1>3, <1>4

\* What the messages do not touch.
LEMMA MatterRowsKept ==
    ASSUME MattersInv, UNCHANGED matterRows,
           notes' \in [NoteIds -> {Absent} \cup Note], emailQueue' \in Seq(Job), NotesInv'
    PROVE  MattersInv'
BY DEF MattersInv, MattersTypes, DueByRule, HubSaw, matterRows

\* A note gets its row before it is sent.
LEMMA NoteStep ==
    ASSUME MattersInv, NEW n \in NoteIds, NEW u \in Clients,
           NEW c \in ClientCases \cup {Absent},
           create_notification(n, u, c) \/ send_email_commit(n, u, c)
    PROVE  MattersInv'
<1> USE DEF MattersInv
<1>1. PICK kind \in {"in_app", "queued"} :
         /\ notes' = [notes EXCEPT ![n] = NewNote(u, kind)]
         /\ sending' \in {sending, sending \cup {n}}
         /\ notes[n] = Absent /\ UNCHANGED <<matterRows, emailQueue>>
  BY DEF create_notification, send_email_commit
<1>2. NewNote(u, kind) \in Note
  BY DEF NewNote, Note
<1>3. PICK e \in Note : e = NewNote(u, kind)
  BY <1>2
<1>4. e # Absent
  BY MattersAssumption
<1>5. /\ notes' \in [NoteIds -> {Absent} \cup Note] /\ notes'[n] # Absent
      /\ \A o \in NoteIds : o # n => notes'[o] = notes[o]
  BY <1>1, <1>3, <1>4 DEF MattersTypes
<1>6. \A i \in 1..Len(emailQueue) : emailQueue[i].type = "email" => emailQueue[i].id \in NoteIds
  BY DEF MattersTypes, Job
<1>7. NotesInv'
  BY <1>1, <1>5, <1>6 DEF NotesInv
<1> QED BY <1>1, <1>5, <1>7, MatterRowsKept DEF MattersTypes

\* Reading a notification touches neither deadlines nor jobs.
LEMMA ReadStep ==
    ASSUME MattersInv, NEW n \in NoteIds, NEW u \in Clients, mark_notification_read(n, u)
    PROVE  MattersInv'
<1> USE DEF MattersInv
<1>1. notes[n] # Absent /\ notes[n] \in Note
      /\ UNCHANGED <<matterRows, sending, emailQueue>>
  BY DEF mark_notification_read, MattersTypes
<1>2. PICK p \in Note : p = notes[n]
  BY <1>1
<1>3. PICK q : q = [p EXCEPT !.read = TRUE]
  OBVIOUS
<1>4. q \in Note
  BY <1>3 DEF Note
<1>5. notes' = [notes EXCEPT ![n] = q] /\ q # Absent
  BY <1>2, <1>3, <1>4, MattersAssumption DEF mark_notification_read, MattersTypes
<1>6. /\ notes' \in [NoteIds -> {Absent} \cup Note] /\ notes'[n] # Absent
      /\ \A o \in NoteIds : o # n => notes'[o] = notes[o]
  BY <1>4, <1>5 DEF MattersTypes
<1>7. \A i \in 1..Len(emailQueue) : emailQueue[i].type = "email" => emailQueue[i].id \in NoteIds
  BY DEF MattersTypes, Job
<1>8. NotesInv'
  BY <1>1, <1>6, <1>7 DEF NotesInv
<1> QED BY <1>1, <1>6, <1>8, MatterRowsKept DEF MattersTypes

\* A job joins the queue.
LEMMA PushStep ==
    ASSUME MattersInv, NEW j \in Job, UNCHANGED <<matterRows, notes>>,
           sending' \subseteq sending, emailQueue' = Append(emailQueue, j),
           j.type = "email" => j.id \in sending /\ j.id \notin sending'
    PROVE  MattersInv'
<1> USE DEF MattersInv
<1>1. /\ emailQueue' \in Seq(Job) /\ Len(emailQueue) \in Nat
      /\ Len(emailQueue') = Len(emailQueue) + 1
      /\ emailQueue'[Len(emailQueue) + 1] = j
      /\ \A i \in 1..Len(emailQueue) : emailQueue'[i] = emailQueue[i]
  BY DEF MattersTypes
<1>2. \A i \in 1..Len(emailQueue') : i \in 1..Len(emailQueue) \/ i = Len(emailQueue) + 1
  BY <1>1
<1>3. \A i \in 1..Len(emailQueue) : emailQueue[i].type = "email" => emailQueue[i] # j
  BY DEF NotesInv
<1>4. ASSUME NEW i \in 1..Len(emailQueue'), emailQueue'[i].type = "email"
      PROVE  notes'[emailQueue'[i].id] # Absent /\ emailQueue'[i].id \notin sending'
  BY <1>1, <1>2, <1>4 DEF NotesInv
<1>5. ASSUME NEW i \in 1..Len(emailQueue'), NEW k \in 1..Len(emailQueue'),
             emailQueue'[i].type = "email", emailQueue'[i] = emailQueue'[k]
      PROVE  i = k
  BY <1>1, <1>2, <1>3, <1>5 DEF NotesInv
<1>6. \A n \in sending' : n \in NoteIds /\ notes'[n] # Absent
  BY DEF NotesInv
<1>7. NotesInv'
  BY <1>4, <1>5, <1>6 DEF NotesInv
<1> QED BY <1>1, <1>7, MatterRowsKept DEF MattersTypes

\* Every step keeps the invariant; a deadline is only ever appended.
LEMMA MattersNextInv == MattersInv /\ [MattersNext]_mattersVars => MattersInv'
<1> SUFFICES ASSUME MattersInv, [MattersNext]_mattersVars PROVE MattersInv'
  OBVIOUS
<1>1. ASSUME UNCHANGED <<deadlines, hub, messages>> PROVE MattersInv'
  BY <1>1 DEF MattersInv, MattersTypes, DueByRule, HubSaw, NotesInv, messages
<1>2. ASSUME NEW n \in NoteIds, send_email_push(n) PROVE MattersInv'
  <2>1. /\ n \in sending /\ sending' = sending \ {n} /\ UNCHANGED <<matterRows, notes>>
        /\ emailQueue' \in {Append(emailQueue, [type |-> "email", id |-> n]), emailQueue}
    BY <1>2 DEF send_email_push
  <2>2. CASE emailQueue' = emailQueue
    <3>1. NotesInv'
      BY <2>1, <2>2 DEF MattersInv, NotesInv
    <3> QED BY <2>1, <2>2, <3>1, MatterRowsKept DEF MattersInv, MattersTypes
  <2>3. CASE emailQueue' = Append(emailQueue, [type |-> "email", id |-> n])
    <3>1. PICK j \in Job : j = [type |-> "email", id |-> n]
      BY DEF Job
    <3> QED BY <2>1, <2>3, <3>1, PushStep
  <2> QED BY <2>1, <2>2, <2>3
<1>3. ASSUME NEW m \in MatterIds, notify_partner_referral(m) PROVE MattersInv'
  <2>1. PICK j \in Job : j = [type |-> "partner_referral", id |-> m]
    BY DEF Job
  <2> QED BY <1>3, <2>1, PushStep DEF notify_partner_referral
<1>4. ASSUME NEW m \in MatterIds, NEW u \in Clients,
             \/ \E c \in ClientCases \cup {Absent} : create_matter(m, u, c)
             \/ run_claim_assessment(m, u) \/ save_valuation(m, u) \/ create_referral(m, u)
      PROVE  MattersInv'
  BY <1>1, <1>4 DEF create_matter, run_claim_assessment, save_valuation, create_referral
<1>5. CASE UNCHANGED mattersVars
  BY <1>1, <1>5 DEF mattersVars, messages
<1> QED BY <1>2, <1>3, <1>4, <1>5, SaveDeadlineStep, HubStep, NoteStep, ReadStep DEF MattersNext

\* However events are corrected and e-mails fail between their two systems, the
\* hub never names a deadline later than one it knew of, and every e-mail job has
\* its row and is the only one for it; for every table of rules and any volume.
THEOREM MattersStaySound == MattersSpec => []MattersSound
<1>1. MattersInv => MattersSound
  <2> SUFFICES ASSUME MattersInv PROVE HubNeverLate /\ JobsHaveRows
    BY DEF MattersSound
  <2>1. HubNeverLate
    <3> SUFFICES ASSUME NEW m \in MatterIds, hub[m] # Absent, NEW i \in 1..hub[m].seen
                 PROVE  hub[m].next <= deadlines[m][i].event + MonthsOf[deadlines[m][i].event]
      BY DEF HubNeverLate
    <3>1. hub[m].seen \in Nat /\ hub[m].seen <= Len(deadlines[m]) /\ Len(deadlines[m]) \in Nat
          /\ hub[m].next <= deadlines[m][i].due
      BY DEF MattersInv, MattersTypes, HubSaw, HubView
    <3>2. i \in 1..Len(deadlines[m])
      BY <3>1
    <3> QED BY <3>1, <3>2 DEF MattersInv, DueByRule
  <2>2. JobsHaveRows
    <3>1. DOMAIN emailQueue = 1..Len(emailQueue)
      BY DEF MattersInv, MattersTypes
    <3> QED BY <3>1 DEF MattersInv, NotesInv, JobsHaveRows
  <2> QED BY <2>1, <2>2
<1> QED BY <1>1, MattersInitInv, MattersNextInv, PTL DEF MattersSpec

-----------------------------------------------------------------------------

(***************************************************************************)
(* Uploads, facts and key dates.                                           *)
(***************************************************************************)

\* Facts and key dates are functions on some of the fields.
LEMMA FactsAre ==
    ASSUME NEW facts
    PROVE  facts \in Facts <=> DOMAIN facts \subseteq Fields /\ facts \in [DOMAIN facts -> Fact]
BY DEF Facts

\* Dates are facts of the date fields.
LEMMA DatesAre ==
    ASSUME NEW dates
    PROVE  dates \in Dates <=> DOMAIN dates \subseteq Fields /\ dates \in [DOMAIN dates -> AllValues]
BY DEF Dates

\* The empty set of facts.
LEMMA NoFactsAre == NoFacts \in Facts /\ NoFacts \in Dates /\ DOMAIN NoFacts = {}
<1>1. DOMAIN NoFacts = {} /\ NoFacts \in [{} -> Fact] /\ NoFacts \in [{} -> AllValues]
  BY DEF NoFacts
<1> QED BY <1>1 DEF Facts, Dates

\* What a user accepted among some facts, and key dates all of which are.
FactsIn(facts, seen) ==
    \A f \in DOMAIN facts : facts[f].status \in Accepted => <<f, facts[f].value>> \in seen

DatesIn(dates, seen) ==
    \A f \in DOMAIN dates : f \in SAFE_TO_APPLY_FIELDS /\ <<f, dates[f]>> \in seen

\* What is read from a document is unconfirmed.
LEMMA ExtractedFacts ==
    ASSUME NEW found \in extract_facts_from_document, NEW seen
    PROVE  _facts_list_to_map(found) \in Facts /\ FactsIn(_facts_list_to_map(found), seen)
<1>1. PICK g : g = _facts_list_to_map(found)
  OBVIOUS
<1>2. PICK e : e = [status |-> "extracted_unconfirmed", value |-> ReadValue]
  OBVIOUS
<1>3. e \in Fact /\ e.status \notin Accepted
  BY <1>2 DEF Fact, Statuses, AllValues, Accepted
<1>4. g = [f \in {field_map(name) : name \in found} |-> e]
  BY <1>1, <1>2 DEF _facts_list_to_map
<1>5. {field_map(name) : name \in found} \subseteq Fields
  BY DEF Fields, extract_facts_from_document
<1>6. g \in Facts
  BY <1>3, <1>4, <1>5, FactsAre
<1>7. FactsIn(g, seen)
  BY <1>3, <1>4 DEF FactsIn
<1> QED BY <1>1, <1>6, <1>7

\* A review keeps the fields of a document and accepts only what the user accepted.
LEMMA ReviewedFacts ==
    ASSUME NEW facts \in Facts, NEW updates, NEW replaces, NEW seen, FactsIn(facts, seen),
           \A f \in DOMAIN updates : updates[f] \in Update,
           NEW g, g = Reviewed(facts, updates, replaces)
    PROVE  /\ g \in Facts
           /\ FactsIn(g, seen \cup {<<f, g[f].value>> : f \in {h \in DOMAIN g \cap DOMAIN updates :
                                                               g[h].status \in Accepted}})
<1>1. DOMAIN facts \subseteq Fields /\ facts \in [DOMAIN facts -> Fact]
  BY FactsAre
<1>2. DOMAIN g = DOMAIN facts
  BY DEF Reviewed
<1>3. ASSUME NEW f \in DOMAIN facts, f \notin DOMAIN updates PROVE g[f] = facts[f]
  BY <1>3 DEF Reviewed
<1>4. ASSUME NEW f \in DOMAIN facts, f \in DOMAIN updates PROVE g[f] \in Fact
  <2>1. PICK v : v = (IF updates[f].value # NoValue /\ updates[f].status \in replaces
                      THEN updates[f].value ELSE facts[f].value)
    OBVIOUS
  <2>2. v \in AllValues
    <3>1. updates[f].value \in Values \cup {NoValue} /\ facts[f].value \in AllValues
      BY <1>1, <1>4 DEF Update, Fact
    <3> QED BY <2>1, <3>1 DEF AllValues
  <2>3. updates[f].status \in Statuses
    BY <1>4 DEF Update
  <2>4. g[f] = [status |-> updates[f].status, value |-> v]
    BY <1>4, <2>1 DEF Reviewed
  <2> QED BY <2>2, <2>3, <2>4 DEF Fact
<1>5. \A f \in DOMAIN facts : g[f] \in Fact
  BY <1>1, <1>3, <1>4
<1>6. g = [f \in DOMAIN facts |-> g[f]]
  BY DEF Reviewed
<1>7. g \in Facts
  BY <1>1, <1>2, <1>5, <1>6, FactsAre
<1>8. FactsIn(g, seen \cup {<<f, g[f].value>> : f \in {h \in DOMAIN g \cap DOMAIN updates :
                                                       g[h].status \in Accepted}})
  BY <1>2, <1>3 DEF FactsIn
<1> QED BY <1>7, <1>8

\* Only accepted facts of safe fields enter the key dates.
LEMMA AppliedDates ==
    ASSUME NEW facts \in Facts, NEW dates \in Dates, NEW seen,
           FactsIn(facts, seen), DatesIn(dates, seen)
    PROVE  /\ apply_confirmed_to_key_dates(facts, dates) \in Dates
           /\ DatesIn(apply_confirmed_to_key_dates(facts, dates), seen)
<1> DEFINE applied == {f \in DOMAIN facts \cap SAFE_TO_APPLY_FIELDS : facts[f].status \in Accepted}
<1>1. PICK g : g = apply_confirmed_to_key_dates(facts, dates)
  OBVIOUS
<1>2. g = [f \in DOMAIN dates \cup applied |-> IF f \in applied THEN facts[f].value ELSE dates[f]]
  BY <1>1 DEF apply_confirmed_to_key_dates
<1>3. /\ DOMAIN facts \subseteq Fields /\ DOMAIN dates \subseteq Fields
      /\ \A f \in DOMAIN facts : facts[f].value \in AllValues
      /\ \A f \in DOMAIN dates : dates[f] \in AllValues
  BY FactsAre, DatesAre DEF Fact
<1>4. g \in Dates
  <2>1. g \in [DOMAIN dates \cup applied -> AllValues]
    BY <1>2, <1>3
  <2>2. DOMAIN g = DOMAIN dates \cup applied /\ DOMAIN g \subseteq Fields
    BY <1>2, <1>3
  <2> QED BY <2>1, <2>2, DatesAre
<1>5. DatesIn(g, seen)
  BY <1>2 DEF DatesIn, FactsIn
<1> QED BY <1>1, <1>4, <1>5

(***************************************************************************)
(* The invariant                                                           *)
(***************************************************************************)

Storing == {"store", "store_direct"}

Rows == {u \in Uploads : uploads[u] # NoValue}

\* What a request in progress may rely on: a document being stored has its file and
\* no row yet, any other has its row; what it read was accepted.
HandlerOK(h, rows, stored, saved, seen) ==
    /\ h.op \in Storing => h.upload \in stored /\ h.upload \notin rows
    /\ h.op \notin Storing => h.upload \in rows
    /\ h.op \in {"mark", "publish"} => h.upload \in saved
    /\ h.op \in {"review", "apply", "confirm"} => FactsIn(h.facts, seen)
    /\ h.op \in {"apply_dates", "confirm"} => DatesIn(h.dates, seen)

\* A document is stored by one request, which alone deals with it.
HandlersInv ==
    /\ \A r \in Handlers : ~ Free(r) =>
          HandlerOK(handling[r], Rows, uploadFiles, documentFacts, approved)
    /\ \A r, o \in Handlers : r # o /\ ~ Free(r) /\ ~ Free(o) /\ handling[r].op \in Storing =>
          handling[o].upload # handling[r].upload

RowsInv ==
    /\ \A u \in Rows : FactsIn(uploads[u].facts, approved)
    /\ DatesIn(keyDates, approved)
    /\ parsedEvents \subseteq documentFacts \cap Rows
    /\ \A i \in 1..Len(order) : order[i] \in Rows /\ order[i] \in uploadFiles \cup lost

EvidenceInv == EvidenceTypeOK /\ HandlersInv /\ RowsInv

\* No upload, no request.
LEMMA EvidenceInitInv == EvidenceInit => EvidenceInv
<1> SUFFICES ASSUME EvidenceInit PROVE EvidenceInv
  OBVIOUS
<1>1. EvidenceTypeOK
  <2>1. uploads \in [Uploads -> {NoValue} \cup UploadRow]
        /\ handling \in [Handlers -> Handling \cup {NoValue}]
    BY DEF EvidenceInit
  <2>2. order \in Seq(Uploads) /\ keyDates \in Dates
    BY NoFactsAre DEF EvidenceInit
  <2> QED BY <2>1, <2>2 DEF EvidenceInit, EvidenceTypeOK
<1>2. HandlersInv
  BY DEF EvidenceInit, HandlersInv, Free
<1>3. RowsInv
  BY NoFactsAre DEF EvidenceInit, RowsInv, Rows, DatesIn
<1> QED BY <1>1, <1>2, <1>3 DEF EvidenceInv

\* One request moves on, the state it shares with the others only growing.
LEMMA HandlersKept ==
    ASSUME EvidenceInv, NEW r \in Handlers, NEW h \in Handling \cup {NoValue}, Goto(r, h),
           Rows \subseteq Rows', documentFacts \subseteq documentFacts', approved \subseteq approved',
           \A u \in Uploads : u \in uploadFiles /\ u \notin Rows /\ (Free(r) \/ handling[r].upload # u)
                                => u \in uploadFiles' /\ u \notin Rows',
           h # NoValue =>
              /\ HandlerOK(h, Rows', uploadFiles', documentFacts', approved')
              /\ \A o \in Handlers : o # r /\ ~ Free(o)
                    /\ (h.op \in Storing \/ handling[o].op \in Storing) => handling[o].upload # h.upload
    PROVE  handling' \in [Handlers -> Handling \cup {NoValue}] /\ HandlersInv'
<1>1. /\ handling' \in [Handlers -> Handling \cup {NoValue}] /\ handling'[r] = h
      /\ \A o \in Handlers : o # r => handling'[o] = handling[o]
      /\ \A o \in Handlers : ~ Free(o) => handling[o].upload \in Uploads
  BY DEF EvidenceInv, EvidenceTypeOK, Goto, Free, Handling
<1>2. ASSUME NEW o \in Handlers, handling'[o] # NoValue
      PROVE  HandlerOK(handling'[o], Rows', uploadFiles', documentFacts', approved')
  <2>1. CASE o = r
    BY <1>1, <1>2, <2>1
  <2>2. CASE o # r
    <3>1. PICK p : p = handling[o] /\ p = handling'[o] /\ ~ Free(o) /\ p.upload \in Uploads
      BY <1>1, <1>2, <2>2 DEF Free
    <3>2. HandlerOK(p, Rows, uploadFiles, documentFacts, approved)
      BY <3>1 DEF EvidenceInv, HandlersInv
    <3>3. p.op \in Storing => Free(r) \/ handling[r].upload # p.upload
      BY <2>2, <3>1 DEF EvidenceInv, HandlersInv
    <3>4. p.op \in Storing => p.upload \in uploadFiles' /\ p.upload \notin Rows'
      BY <3>1, <3>2, <3>3 DEF HandlerOK
    <3>5. HandlerOK(p, Rows', uploadFiles', documentFacts', approved')
      BY <3>2, <3>4 DEF HandlerOK, FactsIn, DatesIn
    <3> QED BY <3>1, <3>5
  <2> QED BY <2>1, <2>2
<1>3. ASSUME NEW p \in Handlers, NEW o \in Handlers, p # o,
             handling'[p] # NoValue, handling'[o] # NoValue, handling'[p].op \in Storing
      PROVE  handling'[o].upload # handling'[p].upload
  <2>1. CASE p = r
    BY <1>1, <1>3, <2>1 DEF Free
  <2>2. CASE o = r
    BY <1>1, <1>3, <2>2 DEF Free
  <2>3. CASE p # r /\ o # r
    BY <1>1, <1>3, <2>3 DEF EvidenceInv, HandlersInv, Free
  <2> QED BY <2>1, <2>2, <2>3
<1> QED BY <1>1, <1>2, <1>3 DEF HandlersInv, Free

\* A stored row is no missing one.
LEMMA RowsAre ==
    /\ NoValue \notin UploadRow
    /\ EvidenceTypeOK => \A u \in Rows : uploads[u] \in UploadRow
    /\ EvidenceTypeOK => \A r \in Handlers : ~ Free(r) => handling[r] \in Handling
                                                       /\ handling[r].upload \in Uploads
BY EvidenceAssumption DEF Rows, EvidenceTypeOK, Free, Handling

\* Requests that leave the documents and the key dates as they are.
LEMMA RowsKept ==
    ASSUME EvidenceInv, UNCHANGED <<docTypeNullable, uploads, order, keyDates, lost>>,
           uploadFiles' \subseteq Uploads, uploadFiles \subseteq uploadFiles',
           documentFacts' \subseteq Uploads, documentFacts \subseteq documentFacts',
           parsedEvents' \subseteq documentFacts' \cap Rows,
           deleted' \in BOOLEAN,
           approved' \subseteq Fields \X AllValues, approved \subseteq approved',
           handling' \in [Handlers -> Handling \cup {NoValue}], HandlersInv'
    PROVE  EvidenceInv'
<1>1. Rows' = Rows /\ Rows \subseteq Uploads
  BY DEF Rows
<1>2. EvidenceTypeOK'
  BY <1>1 DEF EvidenceInv, EvidenceTypeOK
<1>3. RowsInv'
  BY <1>1 DEF EvidenceInv, RowsInv, FactsIn, DatesIn
<1> QED BY <1>2, <1>3 DEF EvidenceInv

\* Requests that rewrite one row and perhaps the key dates.
LEMMA RowRewritten ==
    ASSUME EvidenceInv, NEW u \in Rows, NEW q \in UploadRow, FactsIn(q.facts, approved),
           uploads' = [uploads EXCEPT ![u] = q],
           UNCHANGED <<docTypeNullable, order, uploadFiles, documentFacts, deleted, approved, lost>>,
           parsedEvents' = parsedEvents,
           keyDates' \in Dates, DatesIn(keyDates', approved),
           handling' \in [Handlers -> Handling \cup {NoValue}], HandlersInv'
    PROVE  EvidenceInv'
<1>1. /\ u \in Uploads /\ uploads' \in [Uploads -> {NoValue} \cup UploadRow] /\ uploads'[u] = q
      /\ \A o \in Uploads : o # u => uploads'[o] = uploads[o]
  BY DEF EvidenceInv, EvidenceTypeOK, Rows
<1>2. Rows' = Rows
  BY <1>1, RowsAre DEF Rows
<1>3. EvidenceTypeOK'
  BY <1>1 DEF EvidenceInv, EvidenceTypeOK
<1>4. ASSUME NEW o \in Rows PROVE FactsIn(uploads'[o].facts, approved)
  <2>1. CASE o = u
    BY <1>1, <2>1
  <2>2. CASE o # u
    BY <1>1, <2>2 DEF EvidenceInv, RowsInv, Rows
  <2> QED BY <2>1, <2>2
<1>5. RowsInv'
  BY <1>2, <1>4 DEF EvidenceInv, RowsInv, FactsIn, DatesIn
<1> QED BY <1>3, <1>5 DEF EvidenceInv

\* ... of which only the status changes.
LEMMA StatusRow ==
    ASSUME EvidenceInv, NEW u \in Rows,
           NEW status \in {"pending", "extracted", "no_facts", "ocr_failed", "reviewed"},
           SetStatus(u, status)
    PROVE  \E q \in UploadRow : FactsIn(q.facts, approved) /\ uploads' = [uploads EXCEPT ![u] = q]
<1>1. PICK p \in UploadRow : p = uploads[u] /\ FactsIn(p.facts, approved)
  BY RowsAre DEF EvidenceInv, RowsInv
<1>2. PICK q : q = [p EXCEPT !.status = status]
  OBVIOUS
<1>3. q \in UploadRow /\ q.facts = p.facts
  BY <1>2 DEF UploadRow
<1>4. uploads' = [uploads EXCEPT ![u] = q]
  BY <1>1, <1>2 DEF SetStatus, EvidenceInv, EvidenceTypeOK, Rows
<1> QED BY <1>1, <1>3, <1>4

\* A new row, whose file is there unless the reply to its commit was lost.
LEMMA InsertedRow ==
    ASSUME EvidenceInv, NEW u \in Uploads, u \notin Rows, Insert(u)
    PROVE  /\ Rows' = Rows \cup {u} /\ Rows \subseteq Uploads
           /\ uploads' \in [Uploads -> {NoValue} \cup UploadRow]
           /\ order' \in Seq(Uploads) /\ order' = Append(order, u)
           /\ uploads'[u].facts = NoFacts
           /\ \A o \in Uploads : o # u => uploads'[o] = uploads[o]
<1>1. PICK e : e = [status |-> "pending", facts |-> NoFacts]
  OBVIOUS
<1>2. e \in UploadRow /\ e.facts = NoFacts /\ e # NoValue
  BY <1>1, NoFactsAre, RowsAre DEF UploadRow
<1>3. uploads' = [uploads EXCEPT ![u] = e] /\ order' = Append(order, u)
  BY <1>1 DEF Insert
<1>4. /\ uploads' \in [Uploads -> {NoValue} \cup UploadRow] /\ uploads'[u] = e
      /\ \A o \in Uploads : o # u => uploads'[o] = uploads[o]
  BY <1>2, <1>3 DEF EvidenceInv, EvidenceTypeOK
<1>5. Rows' = Rows \cup {u}
  BY <1>2, <1>4 DEF Rows
<1> QED BY <1>2, <1>3, <1>4, <1>5 DEF Rows, EvidenceInv, EvidenceTypeOK

\* A new row has its file, or the file is among the lost ones.
LEMMA RowInserted ==
    ASSUME EvidenceInv, NEW u \in Uploads, u \notin Rows, Insert(u),
           uploadFiles' \subseteq Uploads, lost' \subseteq Uploads,
           uploadFiles \cup lost \subseteq uploadFiles' \cup lost', u \in uploadFiles' \cup lost',
           UNCHANGED <<docTypeNullable, documentFacts, parsedEvents, keyDates, deleted, approved>>,
           handling' \in [Handlers -> Handling \cup {NoValue}], HandlersInv'
    PROVE  EvidenceInv'
<1>1. /\ Rows' = Rows \cup {u} /\ Rows \subseteq Uploads
      /\ uploads' \in [Uploads -> {NoValue} \cup UploadRow]
      /\ order' \in Seq(Uploads) /\ order' = Append(order, u)
      /\ uploads'[u].facts = NoFacts
      /\ \A o \in Uploads : o # u => uploads'[o] = uploads[o]
  BY InsertedRow
<1>2. EvidenceTypeOK'
  BY <1>1 DEF EvidenceInv, EvidenceTypeOK
<1>3. ASSUME NEW o \in Rows \cup {u} PROVE FactsIn(uploads'[o].facts, approved)
  <2>1. CASE o = u
    BY <1>1, <2>1, NoFactsAre DEF FactsIn
  <2>2. CASE o # u
    BY <1>1, <2>2 DEF EvidenceInv, RowsInv
  <2> QED BY <2>1, <2>2
<1>4. ASSUME NEW i \in 1..Len(order')
      PROVE  order'[i] \in Rows \cup {u} /\ order'[i] \in uploadFiles' \cup lost'
  <2>1. order \in Seq(Uploads)
    BY DEF EvidenceInv, EvidenceTypeOK
  <2>2. /\ i \in 1..Len(order) \/ i = Len(order) + 1
        /\ i \in 1..Len(order) => order'[i] = order[i]
        /\ i = Len(order) + 1 => order'[i] = u
    BY <1>1, <2>1
  <2> QED BY <2>2 DEF EvidenceInv, RowsInv
<1>5. RowsInv'
  <2>1. \A o \in Rows' : FactsIn(uploads'[o].facts, approved')
    BY <1>1, <1>3
  <2>2. DatesIn(keyDates', approved') /\ parsedEvents' \subseteq documentFacts' \cap Rows'
    BY <1>1 DEF EvidenceInv, RowsInv
  <2> QED BY <1>1, <1>4, <2>1, <2>2 DEF RowsInv, FactsIn
<1> QED BY <1>2, <1>5 DEF EvidenceInv

(***************************************************************************)
(* Every step                                                              *)
(***************************************************************************)

\* A document comes in by one of the two routes.
LEMMA ArrivalStep ==
    ASSUME EvidenceInv, NEW r \in Handlers, NEW u \in Uploads,
           upload_document(r, u) \/ upload_document_direct(r, u)
    PROVE  EvidenceInv'
<1>1. PICK op \in Storing :
         /\ Free(r) /\ Fresh(u) /\ uploadFiles' = uploadFiles \cup {u}
         /\ Goto(r, [op |-> op, upload |-> u])
         /\ UNCHANGED <<docTypeNullable, uploads, order, documentFacts,
                        parsedEvents, keyDates, deleted, approved, lost>>
  BY DEF upload_document, upload_document_direct, Storing, Admitted
<1>2. PICK h : h = [op |-> op, upload |-> u]
  OBVIOUS
<1>3. h \in Handling /\ h.op = op /\ h.upload = u
  BY <1>2 DEF Handling, Storing
<1>4. Rows' = Rows /\ u \notin Rows /\ \A o \in Handlers : ~ Free(o) => handling[o].upload # u
  BY <1>1 DEF Rows, Fresh
<1>5. HandlerOK(h, Rows', uploadFiles', documentFacts', approved')
  BY <1>1, <1>3, <1>4 DEF HandlerOK, Storing
<1>6. handling' \in [Handlers -> Handling \cup {NoValue}] /\ HandlersInv'
  BY <1>1, <1>2, <1>3, <1>4, <1>5, HandlersKept
<1> QED BY <1>1, <1>6, RowsKept DEF EvidenceInv, EvidenceTypeOK, RowsInv

\* The row of a stored document is committed, or not, or nobody knows.
LEMMA StoreUploadStep ==
    ASSUME EvidenceInv, NEW r \in Handlers, store_upload(r)
    PROVE  EvidenceInv'
<1>1. PICK u \in Uploads : u = handling[r].upload /\ u \in uploadFiles /\ u \notin Rows
  BY RowsAre DEF store_upload, Doing, EvidenceInv, HandlersInv, HandlerOK, Storing
<1>2. Goto(r, NoValue) /\ UNCHANGED <<docTypeNullable, documentFacts, parsedEvents, keyDates,
                                      deleted, approved>>
  BY DEF store_upload, Done
<1>3. ~ Free(r)
  BY DEF store_upload, Doing
<1>4. CASE Insert(u) /\ UNCHANGED <<uploadFiles, lost>>
  <2>1. Rows' = Rows \cup {u}
    BY <1>1, <1>4, InsertedRow
  <2>2. handling' \in [Handlers -> Handling \cup {NoValue}] /\ HandlersInv'
    BY <1>1, <1>2, <1>3, <1>4, <2>1, HandlersKept
  <2> QED BY <1>1, <1>2, <1>4, <2>2, RowInserted DEF EvidenceInv, EvidenceTypeOK
<1>5. CASE uploadFiles' = uploadFiles \ {u} /\ UNCHANGED <<uploads, order, lost>>
  <2>1. Rows' = Rows
    BY <1>5 DEF Rows
  <2>2. handling' \in [Handlers -> Handling \cup {NoValue}] /\ HandlersInv'
    BY <1>1, <1>2, <1>3, <1>5, <2>1, HandlersKept
  <2>3. EvidenceTypeOK'
    BY <1>2, <1>5, <2>2 DEF EvidenceInv, EvidenceTypeOK
  <2>4. RowsInv'
    BY <1>1, <1>2, <1>5, <2>1 DEF EvidenceInv, RowsInv, FactsIn, DatesIn
  <2> QED BY <2>2, <2>3, <2>4 DEF EvidenceInv
<1>6. CASE Insert(u) /\ uploadFiles' = uploadFiles \ {u} /\ lost' = lost \cup {u}
  <2>1. Rows' = Rows \cup {u}
    BY <1>1, <1>6, InsertedRow
  <2>2. handling' \in [Handlers -> Handling \cup {NoValue}] /\ HandlersInv'
    BY <1>1, <1>2, <1>3, <1>6, <2>1, HandlersKept
  <2> QED BY <1>1, <1>2, <1>6, <2>2, RowInserted DEF EvidenceInv, EvidenceTypeOK
<1> QED BY <1>1, <1>4, <1>5, <1>6 DEF store_upload

\* The direct upload writes its file first.
LEMMA StoreDirectStep ==
    ASSUME EvidenceInv, NEW r \in Handlers, store_direct(r)
    PROVE  EvidenceInv'
<1>1. PICK u \in Uploads : /\ u = handling[r].upload /\ u \in uploadFiles /\ u \notin Rows
                           /\ \A o \in Handlers : o # r /\ ~ Free(o) => handling[o].upload # u
  BY RowsAre DEF store_direct, Doing, EvidenceInv, HandlersInv, HandlerOK, Storing
<1>2. ~ Free(r) /\ UNCHANGED <<docTypeNullable, uploadFiles, documentFacts, parsedEvents,
                               keyDates, deleted, approved, lost>>
  BY DEF store_direct, Doing
<1>3. CASE Insert(u) /\ Goto(r, [op |-> "read_direct", upload |-> u])
  <2>1. Rows' = Rows \cup {u}
    BY <1>1, <1>3, InsertedRow
  <2>2. PICK h : h = [op |-> "read_direct", upload |-> u]
    OBVIOUS
  <2>3. h \in Handling /\ h.op = "read_direct" /\ h.upload = u
    BY <2>2 DEF Handling
  <2>4. HandlerOK(h, Rows', uploadFiles', documentFacts', approved')
    BY <2>1, <2>3 DEF HandlerOK, Storing
  <2>5. handling' \in [Handlers -> Handling \cup {NoValue}] /\ HandlersInv'
    BY <1>1, <1>2, <1>3, <2>1, <2>2, <2>3, <2>4, HandlersKept
  <2> QED BY <1>1, <1>2, <1>3, <2>5, RowInserted DEF EvidenceInv, EvidenceTypeOK
<1>4. CASE Goto(r, NoValue) /\ UNCHANGED <<uploads, order>>
  <2>1. Rows' = Rows
    BY <1>4 DEF Rows
  <2>2. handling' \in [Handlers -> Handling \cup {NoValue}] /\ HandlersInv'
    BY <1>2, <1>4, <2>1, HandlersKept
  <2> QED BY <1>2, <1>4, <2>2, RowsKept DEF EvidenceInv, EvidenceTypeOK, RowsInv
<1> QED BY <1>1, <1>3, <1>4 DEF store_direct, Done

\* A request that moves on to h without touching the rows.
LEMMA OnlyMoves ==
    ASSUME EvidenceInv, NEW r \in Handlers, NEW h \in Handling, Goto(r, h), h.upload \in Rows,
           h.op \notin Storing, HandlerOK(h, Rows, uploadFiles, documentFacts', approved'),
           UNCHANGED <<docTypeNullable, uploads, order, uploadFiles, parsedEvents, keyDates,
                       deleted, lost>>,
           documentFacts' \subseteq Uploads, documentFacts \subseteq documentFacts',
           approved' \subseteq Fields \X AllValues, approved \subseteq approved'
    PROVE  EvidenceInv'
<1>1. Rows' = Rows
  BY DEF Rows
<1>2. \A o \in Handlers : o # r /\ ~ Free(o) /\ handling[o].op \in Storing =>
                              handling[o].upload # h.upload
  BY DEF EvidenceInv, HandlersInv, HandlerOK
<1>3. handling' \in [Handlers -> Handling \cup {NoValue}] /\ HandlersInv'
  BY <1>1, <1>2, HandlersKept
<1> QED BY <1>3, RowsKept DEF EvidenceInv, EvidenceTypeOK, RowsInv

\* A request that is done, or one that had not begun, with one row rewritten.
LEMMA DoneRewriting ==
    ASSUME EvidenceInv, NEW r \in Handlers, Goto(r, NoValue) \/ UNCHANGED handling,
           \/ UNCHANGED uploads
           \/ \E u \in Rows, q \in UploadRow : /\ FactsIn(q.facts, approved)
                                               /\ uploads' = [uploads EXCEPT ![u] = q],
           UNCHANGED <<docTypeNullable, order, uploadFiles, documentFacts, deleted, approved, lost>>,
           parsedEvents' = parsedEvents,
           keyDates' \in Dates, DatesIn(keyDates', approved)
    PROVE  EvidenceInv'
<1>1. PICK h \in Handling \cup {NoValue} : Goto(r, h) /\ h \in {NoValue, handling[r]}
  BY DEF Goto, EvidenceInv, EvidenceTypeOK
<1>2. Rows' = Rows
  BY RowsAre DEF Rows, EvidenceInv, EvidenceTypeOK
<1>3. h # NoValue => /\ HandlerOK(h, Rows', uploadFiles', documentFacts', approved')
                     /\ \A o \in Handlers : o # r /\ ~ Free(o)
                          /\ (h.op \in Storing \/ handling[o].op \in Storing) =>
                             handling[o].upload # h.upload
  BY <1>1, <1>2 DEF EvidenceInv, HandlersInv, Free
<1>4. handling' \in [Handlers -> Handling \cup {NoValue}] /\ HandlersInv'
  BY <1>1, <1>2, <1>3, HandlersKept
<1>5. CASE UNCHANGED uploads
  <2>1. EvidenceTypeOK'
    BY <1>4, <1>5 DEF EvidenceInv, EvidenceTypeOK
  <2>2. RowsInv'
    BY <1>2, <1>5 DEF EvidenceInv, RowsInv, FactsIn, DatesIn
  <2> QED BY <1>4, <2>1, <2>2 DEF EvidenceInv
<1> QED BY <1>4, <1>5, RowRewritten

\* What a request in progress on a stored document holds.
LEMMA Working ==
    ASSUME EvidenceInv, NEW r \in Handlers, ~ Free(r), handling[r].op \notin Storing
    PROVE  /\ handling[r] \in Handling /\ handling[r].upload \in Rows
           /\ HandlerOK(handling[r], Rows, uploadFiles, documentFacts, approved)
           /\ handling[r].op \in {"review", "apply", "confirm"} => handling[r].facts \in Facts
           /\ handling[r].op \in {"apply_dates", "confirm"} => handling[r].dates \in Dates
<1>1. handling[r] \in Handling /\ HandlerOK(handling[r], Rows, uploadFiles, documentFacts, approved)
  BY RowsAre DEF EvidenceInv, HandlersInv
<1>2. handling[r].upload \in Rows
  BY <1>1 DEF HandlerOK
<1>3. handling[r].op \in {"review", "apply", "confirm"} => handling[r].facts \in Facts
  BY <1>1 DEF Handling
<1>4. handling[r].op \in {"apply_dates", "confirm"} => handling[r].dates \in Dates
  BY <1>1 DEF Handling
<1> QED BY <1>1, <1>2, <1>3, <1>4

\* A request that has stored its document goes on with its row.
LEMMA ReadDirectStep ==
    ASSUME EvidenceInv, NEW r \in Handlers, read_direct(r)
    PROVE  EvidenceInv'
<1>1. PICK u \in Rows : u = handling[r].upload
  BY Working DEF read_direct, Doing, Storing
<1>2. /\ Goto(r, NoValue)
      /\ UNCHANGED <<docTypeNullable, order, uploadFiles, documentFacts, parsedEvents, keyDates,
                     deleted, approved, lost>>
  BY DEF read_direct, Done
<1>3. keyDates' \in Dates /\ DatesIn(keyDates', approved)
  BY <1>2 DEF EvidenceInv, EvidenceTypeOK, RowsInv
<1>4. ASSUME NEW found \in extract_facts_from_document,
             uploads' = [uploads EXCEPT ![u] =
                    [status |-> "extracted", facts |-> _facts_list_to_map(found)]]
      PROVE  EvidenceInv'
  <2>1. PICK facts \in Facts : facts = _facts_list_to_map(found) /\ FactsIn(facts, approved)
    BY ExtractedFacts
  <2>2. PICK q : q = [status |-> "extracted", facts |-> facts]
    OBVIOUS
  <2>3. q \in UploadRow /\ q.facts = facts
    BY <2>2 DEF UploadRow
  <2>4. \E v \in Rows, p \in UploadRow : /\ FactsIn(p.facts, approved)
                                       /\ uploads' = [uploads EXCEPT ![v] = p]
    BY <1>4, <2>1, <2>2, <2>3
  <2> QED BY <1>2, <1>3, <2>4, DoneRewriting
<1>5. CASE UNCHANGED uploads
  BY <1>2, <1>3, <1>5, DoneRewriting
<1>6. CASE SetStatus(u, "ocr_failed")
  BY <1>2, <1>3, <1>6, StatusRow, DoneRewriting
<1> QED BY <1>1, <1>4, <1>5, <1>6 DEF read_direct

\* Extraction works on what is stored.
LEMMA ExtractStep ==
    ASSUME EvidenceInv, NEW r \in Handlers, NEW u \in Uploads, extract_document(r, u)
    PROVE  EvidenceInv'
<1>1. /\ u \in Rows
      /\ UNCHANGED <<docTypeNullable, order, uploadFiles, documentFacts, parsedEvents, keyDates,
                     deleted, approved, lost>>
  BY DEF extract_document, Rows
<1>2. CASE SetStatus(u, "no_facts") /\ UNCHANGED handling
  <2>1. keyDates' \in Dates /\ DatesIn(keyDates', approved)
    BY <1>1 DEF EvidenceInv, EvidenceTypeOK, RowsInv
  <2> QED BY <1>1, <1>2, <2>1, StatusRow, DoneRewriting
<1>3. CASE Goto(r, [op |-> "save", upload |-> u]) /\ UNCHANGED uploads
  <2>1. PICK h : h = [op |-> "save", upload |-> u]
    OBVIOUS
  <2>2. h \in Handling /\ h.op = "save" /\ h.upload = u
    BY <2>1 DEF Handling
  <2>3. HandlerOK(h, Rows, uploadFiles, documentFacts', approved')
    BY <1>1, <2>2 DEF HandlerOK, Storing
  <2> QED BY <1>1, <1>3, <2>1, <2>2, <2>3, OnlyMoves DEF EvidenceInv, EvidenceTypeOK, Storing
<1> QED BY <1>2, <1>3 DEF extract_document

\* Saved facts are not accepted by anybody yet.
LEMMA SaveFactsStep ==
    ASSUME EvidenceInv, NEW r \in Handlers, save_extracted_facts(r)
    PROVE  EvidenceInv'
<1>1. PICK u \in Rows : u = handling[r].upload
  BY Working DEF save_extracted_facts, Doing, Storing
<1>2. UNCHANGED <<docTypeNullable, uploads, order, uploadFiles, parsedEvents, keyDates,
                  deleted, approved, lost>>
  BY DEF save_extracted_facts
<1>3. CASE documentFacts' = documentFacts \cup {u} /\ Goto(r, [op |-> "mark", upload |-> u])
  <2>1. PICK h : h = [op |-> "mark", upload |-> u]
    OBVIOUS
  <2>2. h \in Handling /\ h.op = "mark" /\ h.upload = u
    BY <2>1 DEF Handling, Rows
  <2>3. HandlerOK(h, Rows, uploadFiles, documentFacts', approved')
    BY <1>3, <2>2 DEF HandlerOK, Storing
  <2>4. documentFacts' \subseteq Uploads
    BY <1>3 DEF EvidenceInv, EvidenceTypeOK, Rows
  <2> QED BY <1>2, <1>3, <2>1, <2>2, <2>3, <2>4, OnlyMoves DEF EvidenceInv, EvidenceTypeOK, Storing
<1>4. CASE Goto(r, NoValue) /\ UNCHANGED documentFacts
  BY <1>2, <1>4, DoneRewriting DEF EvidenceInv, EvidenceTypeOK, RowsInv
<1> QED BY <1>1, <1>3, <1>4 DEF save_extracted_facts, Done

\* The event is marked only after the facts are saved.
LEMMA MarkStep ==
    ASSUME EvidenceInv, NEW r \in Handlers, extract_mark(r)
    PROVE  EvidenceInv'
<1>1. PICK u \in Rows : u = handling[r].upload /\ u \in documentFacts
  BY Working DEF extract_mark, Doing, Storing, HandlerOK
<1>2. /\ SetStatus(u, "extracted") /\ Goto(r, [op |-> "publish", upload |-> u])
      /\ UNCHANGED <<docTypeNullable, order, uploadFiles, documentFacts, parsedEvents, keyDates,
                     deleted, approved, lost>>
  BY <1>1 DEF extract_mark
<1>3. PICK q \in UploadRow : FactsIn(q.facts, approved) /\ uploads' = [uploads EXCEPT ![u] = q]
  BY <1>2, StatusRow
<1>4. Rows' = Rows
  BY <1>3, RowsAre DEF Rows, EvidenceInv, EvidenceTypeOK
<1>5. PICK h : h = [op |-> "publish", upload |-> u]
  OBVIOUS
<1>6. h \in Handling /\ h.op = "publish" /\ h.upload = u
  BY <1>5 DEF Handling, Rows
<1>7. HandlerOK(h, Rows', uploadFiles', documentFacts', approved')
  BY <1>1, <1>2, <1>4, <1>6 DEF HandlerOK, Storing
<1>8. \A o \in Handlers : o # r /\ ~ Free(o) /\ (h.op \in Storing \/ handling[o].op \in Storing) =>
                              handling[o].upload # h.upload
  BY <1>6 DEF EvidenceInv, HandlersInv, HandlerOK, Storing
<1>9. handling' \in [Handlers -> Handling \cup {NoValue}] /\ HandlersInv'
  BY <1>2, <1>4, <1>5, <1>6, <1>7, <1>8, HandlersKept
<1> QED BY <1>2, <1>3, <1>9, RowRewritten DEF EvidenceInv, EvidenceTypeOK, RowsInv

\* An event follows the facts it announces.
LEMMA PublishStep ==
    ASSUME EvidenceInv, NEW r \in Handlers, extract_publish(r)
    PROVE  EvidenceInv'
<1>1. PICK u \in Rows : u = handling[r].upload /\ u \in documentFacts
  BY Working DEF extract_publish, Doing, Storing, HandlerOK
<1>2. /\ Goto(r, NoValue) /\ parsedEvents' \in {parsedEvents, parsedEvents \cup {u}}
      /\ UNCHANGED <<docTypeNullable, uploads, order, uploadFiles, documentFacts, keyDates,
                     deleted, approved, lost>>
  BY <1>1 DEF extract_publish, Done
<1>3. Rows' = Rows
  BY <1>2 DEF Rows
<1>4. handling' \in [Handlers -> Handling \cup {NoValue}] /\ HandlersInv'
  BY <1>2, <1>3, HandlersKept
<1> QED BY <1>1, <1>2, <1>4, RowsKept DEF EvidenceInv, EvidenceTypeOK, RowsInv

\* What a review will write back is accepted by it or was before.
LEMMA ReviewReadStep ==
    ASSUME EvidenceInv, NEW r \in Handlers, NEW u \in Uploads, NEW updates \in Forms,
           update_extracted_facts(r, u, updates)
    PROVE  EvidenceInv'
<1>1. PICK old \in Facts : u \in Rows /\ old = uploads[u].facts /\ FactsIn(old, approved)
  BY RowsAre DEF update_extracted_facts, Rows, EvidenceInv, RowsInv, UploadRow
<1>2. \A f \in DOMAIN updates : updates[f] \in Update
  BY EvidenceAssumption
<1>3. PICK facts, replaces : replaces = {"user_corrected"} /\ facts = Reviewed(old, updates, replaces)
  OBVIOUS
<1>4. /\ Goto(r, [op |-> "review", upload |-> u, facts |-> facts]) /\ Accepting(facts, updates)
      /\ UNCHANGED <<docTypeNullable, uploads, order, uploadFiles, documentFacts, parsedEvents,
                     keyDates, deleted, lost>>
  BY <1>1, <1>3 DEF update_extracted_facts
<1>5. facts \in Facts /\ FactsIn(facts, approved')
  BY <1>1, <1>2, <1>3, <1>4, ReviewedFacts DEF Accepting
<1>6. PICK h : h = [op |-> "review", upload |-> u, facts |-> facts]
  OBVIOUS
<1>7. h \in Handling /\ h.op = "review" /\ h.upload = u /\ h.facts = facts
  BY <1>5, <1>6 DEF Handling
<1>8. HandlerOK(h, Rows, uploadFiles, documentFacts', approved')
  BY <1>1, <1>5, <1>7 DEF HandlerOK, Storing
<1>9. approved \subseteq approved' /\ approved' \subseteq Fields \X AllValues
  <2>1. \A f \in DOMAIN facts : f \in Fields /\ facts[f].value \in AllValues
    BY <1>5, FactsAre DEF Fact
  <2> QED BY <1>4, <2>1 DEF Accepting, EvidenceInv, EvidenceTypeOK
<1> QED BY <1>1, <1>4, <1>6, <1>7, <1>8, <1>9, OnlyMoves DEF EvidenceInv, EvidenceTypeOK, Storing

\* What a review or a confirmation writes was accepted when it read.
LEMMA CommitStep ==
    ASSUME EvidenceInv, NEW r \in Handlers, review_commit(r) \/ confirm_commit(r)
    PROVE  EvidenceInv'
<1>1. PICK u \in Rows, facts \in Facts :
         u = handling[r].upload /\ facts = handling[r].facts /\ FactsIn(facts, approved)
  BY Working DEF review_commit, confirm_commit, Doing, Storing, HandlerOK
<1>2. PICK q : q = [status |-> "reviewed", facts |-> facts]
  OBVIOUS
<1>3. q \in UploadRow /\ q.facts = facts
  BY <1>2 DEF UploadRow
<1>4. /\ uploads' = [uploads EXCEPT ![u] = q] /\ Goto(r, NoValue)
      /\ UNCHANGED <<docTypeNullable, order, uploadFiles, documentFacts, parsedEvents,
                     deleted, approved, lost>>
  BY <1>1, <1>2 DEF review_commit, confirm_commit, Done
<1>5. keyDates' \in Dates /\ DatesIn(keyDates', approved)
  <2>1. CASE review_commit(r)
    BY <2>1 DEF review_commit, EvidenceInv, EvidenceTypeOK, RowsInv
  <2>2. CASE confirm_commit(r)
    BY <2>2, Working DEF confirm_commit, Doing, Storing, HandlerOK
  <2> QED BY <2>1, <2>2
<1>6. \E v \in Rows, p \in UploadRow : /\ FactsIn(p.facts, approved)
                                     /\ uploads' = [uploads EXCEPT ![v] = p]
  BY <1>1, <1>3, <1>4
<1> QED BY <1>4, <1>5, <1>6, DoneRewriting

\* What is applied was accepted, now or when it was read.
LEMMA ApplyStep ==
    ASSUME EvidenceInv, NEW r \in Handlers,
           \/ \E u \in Uploads : apply_confirmed_facts(r, u)
           \/ apply_read_dates(r) \/ apply_commit(r)
    PROVE  EvidenceInv'
<1>1. ASSUME NEW u \in Uploads, apply_confirmed_facts(r, u) PROVE EvidenceInv'
  <2>1. PICK facts \in Facts : u \in Rows /\ facts = uploads[u].facts /\ FactsIn(facts, approved)
    BY <1>1, RowsAre DEF apply_confirmed_facts, Rows, EvidenceInv, RowsInv, UploadRow
  <2>2. PICK h : h = [op |-> "apply", upload |-> u, facts |-> facts]
    OBVIOUS
  <2>3. h \in Handling /\ h.op = "apply" /\ h.upload = u /\ h.facts = facts
    BY <2>2 DEF Handling
  <2>4. /\ Goto(r, h)
        /\ UNCHANGED <<docTypeNullable, uploads, order, uploadFiles, documentFacts, parsedEvents,
                       keyDates, deleted, approved, lost>>
    BY <1>1, <2>1, <2>2 DEF apply_confirmed_facts
  <2>5. HandlerOK(h, Rows, uploadFiles, documentFacts', approved')
    BY <2>1, <2>3, <2>4 DEF HandlerOK, Storing
  <2> QED BY <2>1, <2>3, <2>4, <2>5, OnlyMoves DEF EvidenceInv, EvidenceTypeOK, Storing
<1>2. CASE apply_read_dates(r)
  <2>1. PICK u \in Rows, facts \in Facts :
           u = handling[r].upload /\ facts = handling[r].facts /\ FactsIn(facts, approved)
    BY <1>2, Working DEF apply_read_dates, Doing, Storing, HandlerOK
  <2>2. PICK dates \in Dates : /\ dates = apply_confirmed_to_key_dates(facts, keyDates)
                               /\ DatesIn(dates, approved)
    <3>1. keyDates \in Dates /\ DatesIn(keyDates, approved)
      BY DEF EvidenceInv, EvidenceTypeOK, RowsInv
    <3> QED BY <2>1, <3>1, AppliedDates
  <2>3. PICK h : h = [op |-> "apply_dates", upload |-> u, dates |-> dates]
    OBVIOUS
  <2>4. h \in Handling /\ h.op = "apply_dates" /\ h.upload = u /\ h.dates = dates
    BY <2>3 DEF Handling, Rows
  <2>5. /\ Goto(r, h)
        /\ UNCHANGED <<docTypeNullable, uploads, order, uploadFiles, documentFacts, parsedEvents,
                       keyDates, deleted, approved, lost>>
    BY <1>2, <2>1, <2>2, <2>3 DEF apply_read_dates
  <2>6. HandlerOK(h, Rows, uploadFiles, documentFacts', approved')
    BY <2>2, <2>4, <2>5 DEF HandlerOK, Storing
  <2> QED BY <2>4, <2>5, <2>6, OnlyMoves DEF EvidenceInv, EvidenceTypeOK, Storing
<1>3. CASE apply_commit(r)
  <2>1. keyDates' \in Dates /\ DatesIn(keyDates', approved)
    BY <1>3, Working DEF apply_commit, Doing, Storing, HandlerOK
  <2> QED BY <1>3, <2>1, DoneRewriting DEF apply_commit, Done
<1> QED BY <1>1, <1>2, <1>3

\* A confirmed fact is accepted from here on.
LEMMA ConfirmFactStep ==
    ASSUME EvidenceInv, NEW r \in Handlers, NEW u \in Uploads, NEW updates \in Forms,
           confirm_upload_facts(r, u, updates)
    PROVE  EvidenceInv'
<1>1. PICK old \in Facts : u \in Rows /\ old = uploads[u].facts /\ FactsIn(old, approved)
  BY RowsAre DEF confirm_upload_facts, Rows, EvidenceInv, RowsInv, UploadRow
<1>2. PICK all : all = [f \in DOMAIN old |-> [status |-> "user_confirmed", value |-> NoValue]]
  OBVIOUS
<1>3. PICK sent : sent = IF DOMAIN updates = {} THEN all ELSE updates
  OBVIOUS
<1>4. \A f \in DOMAIN sent : sent[f] \in Update
  <2>1. \A f \in DOMAIN updates : updates[f] \in Update
    BY EvidenceAssumption
  <2>2. [status |-> "user_confirmed", value |-> NoValue] \in Update
    BY DEF Update, Statuses
  <2>3. \A f \in DOMAIN all : all[f] \in Update
    BY <1>2, <2>2
  <2> QED BY <1>3, <2>1, <2>3
<1>5. PICK facts : facts = Reviewed(old, sent, Statuses)
  OBVIOUS
<1>6. PICK dates : dates = apply_confirmed_to_key_dates(facts, keyDates)
  OBVIOUS
<1>7. PICK h : h = [op |-> "confirm", upload |-> u, facts |-> facts, dates |-> dates]
  OBVIOUS
<1>8. /\ Goto(r, h) /\ Accepting(facts, sent)
      /\ UNCHANGED <<docTypeNullable, uploads, order, uploadFiles, documentFacts, parsedEvents,
                     keyDates, deleted, lost>>
  BY <1>1, <1>2, <1>3, <1>5, <1>6, <1>7 DEF confirm_upload_facts
<1>9. facts \in Facts /\ FactsIn(facts, approved')
  BY <1>1, <1>4, <1>5, <1>8, ReviewedFacts DEF Accepting
<1>10. approved \subseteq approved' /\ approved' \subseteq Fields \X AllValues
  <2>1. \A f \in DOMAIN facts : f \in Fields /\ facts[f].value \in AllValues
    BY <1>9, FactsAre DEF Fact
  <2> QED BY <1>8, <2>1 DEF Accepting, EvidenceInv, EvidenceTypeOK
<1>11. dates \in Dates /\ DatesIn(dates, approved')
  <2>1. keyDates \in Dates /\ DatesIn(keyDates, approved')
    BY <1>10 DEF EvidenceInv, EvidenceTypeOK, RowsInv, DatesIn
  <2> QED BY <1>6, <1>9, <2>1, AppliedDates
<1>12. h \in Handling /\ h.op = "confirm" /\ h.upload = u /\ h.facts = facts /\ h.dates = dates
  BY <1>7, <1>9, <1>11 DEF Handling
<1>13. HandlerOK(h, Rows, uploadFiles, documentFacts', approved')
  BY <1>1, <1>9, <1>11, <1>12 DEF HandlerOK, Storing
<1> QED BY <1>1, <1>8, <1>10, <1>12, <1>13, OnlyMoves DEF EvidenceInv, EvidenceTypeOK, Storing

\* Every step keeps the invariant.
LEMMA EvidenceNextInv == EvidenceInv /\ [EvidenceNext]_evidenceVars => EvidenceInv'
<1> SUFFICES ASSUME EvidenceInv, [EvidenceNext]_evidenceVars PROVE EvidenceInv'
  OBVIOUS
<1>1. CASE Crash
  <2>1. /\ handling' = [r \in Handlers |-> NoValue]
        /\ UNCHANGED <<docTypeNullable, uploads, order, uploadFiles, documentFacts,
                       parsedEvents, keyDates, deleted, approved, lost>>
    BY <1>1 DEF Crash
  <2>2. handling' \in [Handlers -> Handling \cup {NoValue}] /\ HandlersInv'
    BY <2>1 DEF HandlersInv, Free
  <2> QED BY <2>1, <2>2, RowsKept DEF EvidenceInv, EvidenceTypeOK, RowsInv
<1>2. ASSUME deleted' \in BOOLEAN,
             UNCHANGED <<docTypeNullable, uploads, order, uploadFiles, documentFacts, parsedEvents,
                         keyDates, handling, approved, lost>>
      PROVE  EvidenceInv'
  <2>1. Rows' = Rows
    BY <1>2 DEF Rows
  <2>2. handling' \in [Handlers -> Handling \cup {NoValue}] /\ HandlersInv'
    BY <1>2, <2>1 DEF EvidenceInv, EvidenceTypeOK, HandlersInv, Free, HandlerOK, FactsIn, DatesIn
  <2> QED BY <1>2, <2>2, RowsKept DEF EvidenceInv, EvidenceTypeOK, RowsInv
<1>3. CASE case_deleted
  BY <1>2, <1>3 DEF case_deleted
<1>4. CASE UNCHANGED evidenceVars
  BY <1>2, <1>4 DEF evidenceVars, EvidenceInv, EvidenceTypeOK
<1> QED BY <1>1, <1>3, <1>4, ArrivalStep, StoreUploadStep, StoreDirectStep, ReadDirectStep, ExtractStep,
           SaveFactsStep, MarkStep, PublishStep, ReviewReadStep, CommitStep, ApplyStep, ConfirmFactStep
        DEF EvidenceNext

\* ... and one of the first n has a greatest.
LEMMA GreatestNumber ==
    ASSUME NEW n \in Nat, NEW S \in SUBSET (1..n), S # {}
    PROVE  \E x \in S : \A y \in S : y <= x
<1> DEFINE T == {n - i : i \in S}
<1>1. T \in SUBSET Nat /\ T # {}
  <2>1. \A i \in S : i \in 1..n /\ n - i \in Nat
    OBVIOUS
  <2>2. T \subseteq Nat
    BY <2>1
  <2>3. PICK i : i \in S
    OBVIOUS
  <2>4. n - i \in T
    BY <2>3
  <2> QED BY <2>2, <2>4
<1>2. PICK t \in T : \A v \in T : t <= v
  BY <1>1, LeastNumber
<1>3. PICK x \in S : t = n - x
  OBVIOUS
<1>4. ASSUME NEW y \in S PROVE y <= x
  <2>1. n - y \in T /\ x \in 1..n /\ y \in 1..n
    OBVIOUS
  <2>2. n - x <= n - y
    BY <1>2, <1>3, <2>1
  <2> QED BY <2>1, <2>2
<1> QED BY <1>4

\* A confirmed fact is the accepted one of some document.
LEMMA ConfirmedFacts ==
    ASSUME EvidenceInv, NEW confirmed, confirmed = get_confirmed_facts(_fetch_case_and_uploads)
    PROVE  \A f \in DOMAIN confirmed : <<f, confirmed[f]>> \in approved
<1>1. PICK n \in Nat : DOMAIN order = 1..n /\ n = Len(order)
  BY DEF EvidenceInv, EvidenceTypeOK
<1>2. PICK rows : rows = _fetch_case_and_uploads
  OBVIOUS
<1>3. DOMAIN rows = 1..n /\ \A i \in 1..n : rows[i].facts = uploads[order[i]].facts
  BY <1>1, <1>2 DEF _fetch_case_and_uploads
<1>4. \A i \in 1..n : FactsIn(rows[i].facts, approved)
  BY <1>1, <1>3 DEF EvidenceInv, RowsInv
<1> DEFINE by(f) == {i \in DOMAIN rows : f \in DOMAIN rows[i].facts
                                         /\ rows[i].facts[f].status \in Accepted}
           last(f) == CHOOSE i \in by(f) : \A j \in by(f) : j <= i
<1>5. confirmed = [f \in {g \in Fields : by(g) # {}} |-> rows[last(f)].facts[f].value]
  BY <1>2 DEF get_confirmed_facts
<1>6. ASSUME NEW f \in DOMAIN confirmed PROVE <<f, confirmed[f]>> \in approved
  <2>1. by(f) \in SUBSET (1..n) /\ by(f) # {}
    BY <1>3, <1>5
  <2> HIDE DEF by
  <2>2. last(f) \in by(f)
    BY <2>1, GreatestNumber
  <2> HIDE DEF last
  <2>3. PICK i \in by(f) : i = last(f)
    BY <2>2
  <2>4. confirmed[f] = rows[i].facts[f].value
    BY <1>5, <2>3
  <2> QED BY <1>3, <1>4, <2>4 DEF by, FactsIn
<1> QED BY <1>6

\* A part of a document quotes nothing but confirmed facts.
LEMMA PartSound ==
    ASSUME NEW confirmed, NEW seen, \A f \in DOMAIN confirmed : <<f, confirmed[f]>> \in seen,
           NEW fields, NEW listed, NEW part, part = Part(confirmed, fields, listed)
    PROVE  Pairs(part.quotes) \subseteq seen /\ part.lists = listed
<1>1. /\ part.quotes = [f \in DOMAIN confirmed \cap fields |-> confirmed[f]]
      /\ part.lists = listed
  BY DEF Part, Restrict
<1> QED BY <1>1 DEF Pairs

\* What the bundle and the timeline show.
LEMMA PartsSound ==
    ASSUME EvidenceInv, NEW part \in preview_bundle \cup {get_timeline}
    PROVE  Pairs(part.quotes) \subseteq approved /\ part.lists \subseteq Ids(_fetch_case_and_uploads)
<1>1. PICK rows : rows = _fetch_case_and_uploads
  OBVIOUS
<1>2. PICK confirmed : confirmed = get_confirmed_facts(rows)
  OBVIOUS
<1>3. /\ \A f \in DOMAIN confirmed : <<f, confirmed[f]>> \in approved
      /\ \A f \in DOMAIN NoFacts : <<f, NoFacts[f]>> \in approved
  BY <1>1, <1>2, ConfirmedFacts, NoFactsAre
<1>4. part \in generate_full_bundle(confirmed, rows) \/ part = build_timeline(confirmed, rows)
  BY <1>1, <1>2 DEF preview_bundle, get_timeline, _fetch_timeline_data
<1>5. ASSUME NEW from \in {confirmed, NoFacts}, NEW fields, NEW listed \in {Ids(rows), {}},
             part = Part(from, fields, listed)
      PROVE  Pairs(part.quotes) \subseteq approved /\ part.lists \subseteq Ids(rows)
  <2>1. \A f \in DOMAIN from : <<f, from[f]>> \in approved
    BY <1>3
  <2> QED BY <1>5, <2>1, PartSound
<1>6. CASE part = generate_witness_statement(confirmed, rows) \/ part = build_timeline(confirmed, rows)
  BY <1>1, <1>5, <1>6 DEF generate_witness_statement, build_timeline
<1>7. CASE part = generate_chronology(confirmed) \/ part = generate_et1_support_notes(confirmed)
  BY <1>1, <1>5, <1>7 DEF generate_chronology, generate_et1_support_notes
<1>8. CASE part = generate_evidence_checklist(rows)
  BY <1>1, <1>5, <1>8 DEF generate_evidence_checklist
<1> QED BY <1>4, <1>6, <1>7, <1>8 DEF generate_full_bundle

\* The list shows the same documents, the latest first, and each has its file.
LEMMA ListedUploads ==
    ASSUME EvidenceInv
    PROVE  Ids(_fetch_case_and_uploads) \subseteq Ids(list_uploads) \cap (uploadFiles \cup lost)
<1>1. PICK n \in Nat : DOMAIN order = 1..n /\ n = Len(order)
  BY DEF EvidenceInv, EvidenceTypeOK
<1>2. PICK rows : rows = _fetch_case_and_uploads
  OBVIOUS
<1>3. DOMAIN rows = 1..n /\ \A i \in 1..n : rows[i].id = order[i]
  BY <1>1, <1>2 DEF _fetch_case_and_uploads
<1>4. Len(rows) = n
  BY <1>3
<1>5. list_uploads = [i \in 1..n |-> rows[(n - i) + 1]]
  BY <1>2, <1>4 DEF list_uploads, Reverse
<1>6. SUFFICES ASSUME NEW i \in 1..n
               PROVE  order[i] \in Ids(list_uploads) /\ order[i] \in uploadFiles \cup lost
  BY <1>2, <1>3 DEF Ids
<1>7. order[i] \in uploadFiles \cup lost
  BY <1>1 DEF EvidenceInv, RowsInv
<1>8. order[i] \in Ids(list_uploads)
  <2>1. PICK k \in 1..n : (n - k) + 1 = i
    <3>1. (n - i) + 1 \in 1..n /\ (n - ((n - i) + 1)) + 1 = i
      OBVIOUS
    <3> QED BY <3>1
  <2>2. list_uploads[k].id = order[i] /\ DOMAIN list_uploads = 1..n
    BY <1>3, <1>5, <2>1
  <2> QED BY <2>2 DEF Ids
<1> QED BY <1>7, <1>8

\* Whatever uploads, extractions, reviews and applications overlap, fail or are cut
\* short by a crash, nothing a user did not accept is applied or quoted, and nothing
\* is listed or announced without its row and its file; for any documents, fields and
\* number of requests.
THEOREM EvidenceStaysSound == EvidenceSpec => []EvidenceSound
<1>1. EvidenceInv => EvidenceSound
  <2> SUFFICES ASSUME EvidenceInv PROVE NothingUnapproved /\ NothingDangling
    BY DEF EvidenceSound
  <2>1. NothingUnapproved
    <3>1. Pairs(keyDates) \subseteq approved /\ DOMAIN keyDates \subseteq SAFE_TO_APPLY_FIELDS
      BY DEF EvidenceInv, RowsInv, DatesIn, Pairs
    <3> QED BY <3>1, PartsSound DEF NothingUnapproved
  <2>2. NothingDangling
    <3>1. \A u \in parsedEvents : u \in documentFacts /\ uploads[u] # NoValue
      BY DEF EvidenceInv, RowsInv, Rows
    <3> QED BY <3>1, PartsSound, ListedUploads DEF NothingDangling
  <2> QED BY <2>1, <2>2
<1> QED BY <1>1, EvidenceInitInv, EvidenceNextInv, PTL DEF EvidenceSpec
=============================================================================
