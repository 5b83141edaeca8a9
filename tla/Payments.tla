------------------------------ MODULE Payments ------------------------------
(***************************************************************************)
(* Cases, checkouts, Stripe webhooks and the documents a payment unlocks   *)
(* (backend/api/payment_routes.py, backend/api/document_routes.py,         *)
(* backend/core/payment.py and the case, onboarding, bundle and deprecated *)
(* payment routes of backend/api/main.py).                                 *)
(*                                                                         *)
(* The state is the rows of one account: every route first rejects a       *)
(* caller who does not own the case (check_case_ownership), with nothing   *)
(* written.  A handler that closes one transaction and decides in another  *)
(* is two or three steps, with what it carries over in `requests`.         *)
(***************************************************************************)
EXTENDS Naturals, FiniteSets

CONSTANTS Cases,        \* supply of rows of cases
          Checkouts,    \* supply of checkout session ids
          DocIds,       \* supply of generated document ids
          DocTypes,     \* VALID_DOCUMENT_TYPES
          Requests,     \* requests being served at a time
          None

VARIABLES mode,             \* PAYMENT_MODE
          cases, checkouts, paymentEvents,
          stripe,           \* the checkout as Stripe sees it (external)
          documents, files, \* rows of documents; files stored under their id
          bundled,          \* cases with bundle rows in documents
          userLock,         \* who holds the lock on the account's users row
          requests

vars == <<mode, cases, checkouts, paymentEvents, stripe, documents, files,
          bundled, userLock, requests>>

Case == [origin : {"saved", "onboarding"}, deleted : BOOLEAN,
         payment : {"unpaid", "paid"}, session : Checkouts \cup {None}]
Checkout == [case : Cases, status : {"pending", "paid"}]
Document == [id : DocIds, case : Cases, kind : {"generated"}, type : DocTypes]
            \cup [id : DocIds, case : Cases, kind : {"attached", "uploaded"}, type : {None}]
Event == [session : Checkouts, status : {"created", "pending", "paid"}]
Request == [op : {"onboard"}, found : {"unknown", "yes", "no"}]
           \cup [op : {"checkout"}, case : Cases, session : Checkouts \cup {None}]
           \cup [op : {"webhook"}, session : Checkouts]
           \cup [op : {"document"}, case : Cases, type : DocTypes,
                 doc : DocIds \cup {None}]

ASSUME PaymentsAssumption ==
    None \notin Cases \cup Checkouts \cup DocIds \cup DocTypes \cup Requests
             \cup Case \cup Checkout \cup Request

TypeOK ==
    /\ mode \in {"disabled", "test", "stripe"}
    /\ cases \in [Cases -> Case \cup {None}]
    /\ checkouts \in [Checkouts -> Checkout \cup {None}]
    /\ paymentEvents \subseteq Event
    /\ stripe \in [Checkouts -> {"none", "open", "paid", "expired"}]
    /\ documents \subseteq Document
    /\ files \subseteq DocIds
    /\ bundled \subseteq Cases
    /\ userLock \in Requests \cup {None}
    /\ requests \in [Requests -> Request \cup {None}]

Open(c) == cases[c] # None /\ ~cases[c].deleted
Idle(r) == requests[r] = None
Serving(r, op) == ~Idle(r) /\ requests[r].op = op
Finish(r) == requests' = [requests EXCEPT ![r] = None]

(***************************************************************************)
(* Cases and onboarding                                                    *)
(***************************************************************************)

NewCase(origin) == [origin |-> origin, deleted |-> FALSE,
                    payment |-> "unpaid", session |-> None]

save_case(c) ==
    /\ cases[c] = None
    /\ cases' = [cases EXCEPT ![c] = NewCase("saved")]
    /\ UNCHANGED <<mode, checkouts, paymentEvents, stripe, documents, files,
                   bundled, userLock, requests>>

delete_case(c) ==
    /\ Open(c)
    /\ cases' = [cases EXCEPT ![c].deleted = TRUE]
    /\ UNCHANGED <<mode, checkouts, paymentEvents, stripe, documents, files,
                   bundled, userLock, requests>>

\* Mutant: the handler looks for the case without having updated the users row.
OnboardWithoutLock(r) ==
    /\ Idle(r)
    /\ requests' = [requests EXCEPT ![r] = [op |-> "onboard", found |-> "unknown"]]
    /\ UNCHANGED <<mode, cases, checkouts, paymentEvents, stripe, documents,
                   files, bundled, userLock>>

\* complete_onboarding updates the users row first: the row lock is held until
\* the transaction ends, so a second call waits here.
onboarding_lock(r) ==
    /\ Idle(r)
    /\ userLock = None
    /\ userLock' = r
    /\ requests' = [requests EXCEPT ![r] = [op |-> "onboard", found |-> "unknown"]]
    /\ UNCHANGED <<mode, cases, checkouts, paymentEvents, stripe, documents,
                   files, bundled>>

\* ... then looks for an onboarding case that is not deleted ...
onboarding_check(r) ==
    /\ Serving(r, "onboard")
    /\ requests[r].found = "unknown"
    /\ requests' = [requests EXCEPT ![r].found =
          IF \E c \in Cases : Open(c) /\ cases[c].origin = "onboarding"
          THEN "yes" ELSE "no"]
    /\ UNCHANGED <<mode, cases, checkouts, paymentEvents, stripe, documents,
                   files, bundled, userLock>>

\* ... and inserts one if there is none, and commits.
onboarding_commit(r) ==
    /\ Serving(r, "onboard")
    /\ \/ /\ requests[r].found = "no"
          /\ \E c \in Cases :
                /\ cases[c] = None
                /\ cases' = [cases EXCEPT ![c] = NewCase("onboarding")]
       \/ /\ requests[r].found = "yes"
          /\ UNCHANGED cases
    /\ userLock' = IF userLock = r THEN None ELSE userLock
    /\ Finish(r)
    /\ UNCHANGED <<mode, checkouts, paymentEvents, stripe, documents, files, bundled>>

(***************************************************************************)
(* Checkout                                                                *)
(***************************************************************************)

\* create_payment_session reads the case and closes the connection before it
\* talks to Stripe; the deprecated alias calls it.
create_session_check(r, c) ==
    /\ Idle(r)
    /\ mode # "disabled"
    /\ Open(c)
    /\ cases[c].payment # "paid"
    /\ requests' = [requests EXCEPT ![r] = [op |-> "checkout", case |-> c, session |-> None]]
    /\ UNCHANGED <<mode, cases, checkouts, paymentEvents, stripe, documents,
                   files, bundled, userLock>>

\* Stripe opens the checkout; in test mode only an id is drawn.
create_session_open(r, s) ==
    /\ Serving(r, "checkout") /\ requests[r].session = None
    /\ stripe[s] = "none" /\ checkouts[s] = None
    /\ \A q \in Requests : Serving(q, "checkout") => requests[q].session # s
    /\ stripe' = [stripe EXCEPT ![s] = IF mode = "stripe" THEN "open" ELSE @]
    /\ requests' = [requests EXCEPT ![r].session = s]
    /\ UNCHANGED <<mode, cases, checkouts, paymentEvents, documents, files,
                   bundled, userLock>>

\* Inserted unless its event id is there already.
_record_payment_event(s, status) == paymentEvents \cup {[session |-> s, status |-> status]}

\* The checkout is stored with its audit row; nothing is read again.  Only now
\* does the customer get the address of the checkout.
_store_payment_session(r) ==
    /\ Serving(r, "checkout") /\ requests[r].session # None
    /\ LET s == requests[r].session IN
       /\ checkouts' = [checkouts EXCEPT ![s] = [case |-> requests[r].case, status |-> "pending"]]
       /\ paymentEvents' = _record_payment_event(s, "created")
    /\ Finish(r)
    /\ UNCHANGED <<mode, cases, stripe, documents, files, bundled, userLock>>

\* External: the customer pays, or lets the checkout run out.
stripe_settles(s) ==
    /\ stripe[s] = "open"
    /\ \/ checkouts[s] # None /\ stripe' = [stripe EXCEPT ![s] = "paid"]
       \/ stripe' = [stripe EXCEPT ![s] = "expired"]
    /\ UNCHANGED <<mode, cases, checkouts, paymentEvents, documents, files,
                   bundled, userLock, requests>>

\* Test mode: one transaction that locks the checkout, then marks it and the
\* case (deleted or not) paid and logs the confirmation.
confirm_test_payment_session(s) ==
    /\ mode = "test"
    /\ checkouts[s] # None
    /\ checkouts[s].status # "paid"
    /\ checkouts' = [checkouts EXCEPT ![s].status = "paid"]
    /\ cases' = [cases EXCEPT ![checkouts[s].case].payment = "paid",
                              ![checkouts[s].case].session = s]
    /\ paymentEvents' = _record_payment_event(s, "paid")
    /\ UNCHANGED <<mode, stripe, documents, files, bundled, userLock, requests>>

(***************************************************************************)
(* Webhooks.  Stripe delivers an event at least once, in any order.        *)
(***************************************************************************)

\* POST /api/payments/webhook, up to the confirmation by Stripe: other events
\* than a completed checkout and events already logged are acknowledged.
stripe_webhook_check(r, s) ==
    /\ Idle(r)
    /\ mode = "stripe"
    /\ stripe[s] = "paid"
    /\ [session |-> s, status |-> "paid"] \notin paymentEvents
    /\ requests' = [requests EXCEPT ![r] = [op |-> "webhook", session |-> s]]
    /\ UNCHANGED <<mode, cases, checkouts, paymentEvents, stripe, documents,
                   files, bundled, userLock>>

\* The rest: a deleted case is acknowledged; otherwise the case is updated and
\* the event inserted with str(event), which is not JSON, into the JSONB column
\* raw_event, so the transaction is rolled back and Stripe gets a 500.  Either
\* way no row changes.
stripe_webhook_apply(r) ==
    /\ Serving(r, "webhook")
    /\ Finish(r)
    /\ UNCHANGED <<mode, cases, checkouts, paymentEvents, stripe, documents,
                   files, bundled, userLock>>

\* What an event is booked as, from its type alone.
BookedAs(s) == IF stripe[s] = "paid" THEN "paid" ELSE "pending"

\* Mutant: the case gets whatever status the event was booked as.
LegacyBooksEveryEvent(s) ==
    /\ paymentEvents' = paymentEvents \cup {[session |-> s, status |-> BookedAs(s)]}
    /\ cases' = IF checkouts[s] # None /\ Open(checkouts[s].case)
                THEN [cases EXCEPT
                        ![checkouts[s].case].payment = IF BookedAs(s) = "paid" THEN "paid" ELSE "unpaid",
                        ![checkouts[s].case].session = s]
                ELSE cases

\* Every event is logged unless its id already is, and a completed checkout
\* updates the case unless it is deleted, in one transaction.
_process_stripe_webhook_event(s) ==
    /\ paymentEvents' = paymentEvents \cup {[session |-> s, status |-> BookedAs(s)]}
    /\ cases' = IF BookedAs(s) = "paid" /\ Open(checkouts[s].case)
                THEN [cases EXCEPT ![checkouts[s].case].payment = "paid",
                                   ![checkouts[s].case].session = s]
                ELSE cases

\* POST /api/payment/webhook (deprecated; the hand-over notes tell the owner to
\* point Stripe at it): a signed event is processed.  An exception while it is
\* processed is swallowed and the event acknowledged: nothing changes.
api_payment_webhook(s) ==
    /\ mode = "stripe"
    /\ stripe[s] \in {"paid", "expired"}
    /\ _process_stripe_webhook_event(s)
    /\ UNCHANGED <<mode, checkouts, stripe, documents, files, bundled, userLock, requests>>

(***************************************************************************)
(* Uploads, as far as the list of documents shows them: Evidence has the   *)
(* steps of these handlers.                                                *)
(***************************************************************************)

\* A fresh uuid.
Unused(d) == d \notin files /\ \A x \in documents : x.id # d

NewRow(d, c, kind) == [id |-> d, case |-> c, kind |-> kind, type |-> None]

\* POST /cases/{id}/uploads: the row names no owner and its storage_ref is the
\* path with "local:" before it, where there is no file.
attach_upload(c, d) ==
    /\ cases[c] # None
    /\ Unused(d)
    /\ documents' = documents \cup {NewRow(d, c, "attached")}
    /\ UNCHANGED <<mode, cases, checkouts, paymentEvents, stripe, files,
                   bundled, userLock, requests>>

\* POST /api/uploads/upload: owner and path are those of the file, which stays
\* behind when the insert fails.
api_upload(c, d) ==
    /\ Open(c)
    /\ Unused(d)
    /\ files' = files \cup {d}
    /\ \/ documents' = documents \cup {NewRow(d, c, "uploaded")}
       \/ UNCHANGED documents
    /\ UNCHANGED <<mode, cases, checkouts, paymentEvents, stripe,
                   bundled, userLock, requests>>

(***************************************************************************)
(* What a payment unlocks                                                  *)
(***************************************************************************)

\* Mutant: any checkout of the case will do.
PaidByAnyCheckout(c) ==
    \/ Open(c) /\ cases[c].payment = "paid"
    \/ \E s \in Checkouts : checkouts[s] # None /\ checkouts[s].case = c

\* The case is paid, or a checkout of it is (also of a deleted case).
is_case_paid(c) ==
    \/ Open(c) /\ cases[c].payment = "paid"
    \/ \E s \in Checkouts :
          checkouts[s] # None /\ checkouts[s].case = c /\ checkouts[s].status = "paid"

\* generate_document, in three steps.  The SELECT ... FOR UPDATE lets go of the
\* case when its connection is closed, before the document is rendered.
generate_document_check(r, c, t) ==
    /\ Idle(r)
    /\ Open(c)
    /\ cases[c].payment = "paid"
    /\ requests' = [requests EXCEPT ![r] =
          [op |-> "document", case |-> c, type |-> t, doc |-> None]]
    /\ UNCHANGED <<mode, cases, checkouts, paymentEvents, stripe, documents,
                   files, bundled, userLock>>

\* Mutant: the name of the file is chosen here, and written by someone else later.
NameTheFile(r, d) ==
    /\ Serving(r, "document")
    /\ requests[r].doc = None
    /\ d \notin files
    /\ requests' = [requests EXCEPT ![r].doc = d]
    /\ UNCHANGED <<mode, cases, checkouts, paymentEvents, stripe, documents,
                   files, bundled, userLock>>

generate_document_write(r, d) ==
    /\ Serving(r, "document")
    /\ requests[r].doc = None
    /\ Unused(d)
    /\ files' = files \cup {d}
    /\ requests' = [requests EXCEPT ![r].doc = d]
    /\ UNCHANGED <<mode, cases, checkouts, paymentEvents, stripe, documents,
                   bundled, userLock>>

\* A row for this case and type may exist already: then none is added (and the
\* id answered to the caller is that of the file just written, which has none).
generate_document_record(r) ==
    /\ Serving(r, "document")
    /\ requests[r].doc # None
    /\ LET q == requests[r] IN
       documents' = IF \E d \in documents : d.case = q.case /\ d.type = q.type
                    THEN documents
                    ELSE documents \cup {[id |-> q.doc, case |-> q.case,
                                          kind |-> "generated", type |-> q.type]}
    /\ Finish(r)
    /\ UNCHANGED <<mode, cases, checkouts, paymentEvents, stripe, files,
                   bundled, userLock>>

\* generate_bundle: full components, and rows for them, only if paid.  The rows
\* have no owner, and "bundle:generated" for a storage_ref.
generate_bundle(c) ==
    /\ Open(c)
    /\ is_case_paid(c)
    /\ bundled' = bundled \cup {c}
    /\ UNCHANGED <<mode, cases, checkouts, paymentEvents, stripe, documents,
                   files, userLock, requests>>

\* What the routes that only read answer.  The page offers the documents of a paid
\* case; the list has every row of the case, one standing for those of a bundle.
get_payment_status(c) == Open(c) /\ cases[c].payment = "paid"
BundleRow(c) == [id |-> None, case |-> c, kind |-> "bundle", type |-> None]
api_list_case_documents(c) ==
    {d \in documents : d.case = c} \cup {BundleRow(x) : x \in bundled \cap {c}}

\* One route asks for the owner of the row (403), the other for that of the case;
\* both for the payment (402) and for a file where storage_ref says (404).
HasOwner(d) == d.kind \in {"generated", "uploaded"}
FileFound(d) == d.kind \in {"generated", "uploaded"} /\ d.id \in files
download_document(d) == HasOwner(d) /\ is_case_paid(d.case) /\ FileFound(d)
api_document_download(d) == Open(d.case) /\ is_case_paid(d.case) /\ FileFound(d)

\* An exception (Stripe unreachable, a failed safety check, a lost connection)
\* ends a request between two of its steps; its transaction is rolled back and
\* a file it wrote stays behind.
request_fails(r) ==
    /\ ~Idle(r)
    /\ userLock' = IF userLock = r THEN None ELSE userLock
    /\ Finish(r)
    /\ UNCHANGED <<mode, cases, checkouts, paymentEvents, stripe, documents, files, bundled>>

Init ==
    /\ mode \in {"disabled", "test", "stripe"}
    /\ cases = [c \in Cases |-> None]
    /\ checkouts = [s \in Checkouts |-> None]
    /\ paymentEvents = {}
    /\ stripe = [s \in Checkouts |-> "none"]
    /\ documents = {} /\ files = {} /\ bundled = {}
    /\ userLock = None
    /\ requests = [r \in Requests |-> None]

Next ==
    \/ \E c \in Cases : save_case(c) \/ delete_case(c) \/ generate_bundle(c)
    \/ \E c \in Cases, d \in DocIds : attach_upload(c, d) \/ api_upload(c, d)
    \/ \E s \in Checkouts :
          \/ stripe_settles(s)
          \/ confirm_test_payment_session(s)
          \/ api_payment_webhook(s)
    \/ \E r \in Requests :
          \/ onboarding_lock(r) \/ onboarding_check(r) \/ onboarding_commit(r)
          \/ \E c \in Cases : create_session_check(r, c)
          \/ \E s \in Checkouts : create_session_open(r, s) \/ stripe_webhook_check(r, s)
          \/ _store_payment_session(r) \/ stripe_webhook_apply(r)
          \/ \E c \in Cases, t \in DocTypes : generate_document_check(r, c, t)
          \/ \E d \in DocIds : generate_document_write(r, d)
          \/ generate_document_record(r)
          \/ request_fails(r)

Spec == Init /\ [][Next]_vars

(***************************************************************************)
(* Properties                                                              *)
(***************************************************************************)

\* Money was really taken for checkout s: Stripe charged it, or in test mode
\* the test confirmation went through.
Charged(s) == checkouts[s] # None /\ (stripe[s] = "paid" \/ checkouts[s].status = "paid")

\* Whatever order events, retries, deletions and documents come in, a full
\* document or bundle is only ever recorded for a case some checkout of which
\* was charged (two checkouts of one case, fallback to payment_sessions).
DeliveredMeansCharged ==
    \A c \in {d.case : d \in {x \in documents : x.kind = "generated"}} \cup bundled :
        \E s \in Checkouts : Charged(s) /\ checkouts[s].case = c

\* A case is never shown as paid by a checkout whose payment is missing from
\* the audit table, or that belongs to another case.
PaidMeansLogged ==
    \A c \in Cases : cases[c] # None /\ cases[c].payment = "paid" =>
        /\ cases[c].session # None
        /\ [session |-> cases[c].session, status |-> "paid"] \in paymentEvents
        /\ checkouts[cases[c].session].case = c

\* Both: no delivery without a charge, no paid case without its entry.
MoneyAccounted == DeliveredMeansCharged /\ PaidMeansLogged

\* "create the user's first case exactly once": however many onboarding calls
\* are under way, the account has at most one undeleted onboarding case.
OnboardedOnce ==
    \A c, d \in Cases :
        /\ Open(c) /\ cases[c].origin = "onboarding"
        /\ Open(d) /\ cases[d].origin = "onboarding"
        => c = d

\* Whatever requests raced or died half-way, of a case whose page offers its
\* documents every generated one that is listed, and every upload of the uploads
\* API, can be downloaded by either route.  Files attached to the case and the
\* components of a bundle are on the list as well and by neither: the list has
\* more than the payment unlocks (document_routes.py:450-530, main.py:4636-4762).
PaidCanDownload ==
    \A c \in Cases : get_payment_status(c) =>
        \A d \in api_list_case_documents(c) :
            IF d.kind \in {"generated", "uploaded"}
            THEN download_document(d) /\ api_document_download(d)
            ELSE ~ download_document(d) /\ ~ api_document_download(d)

\* A paid case stays paid: a late expiry event of a second checkout, delivered
\* after the first one was paid, does not take the documents away again.
PaidIsPermanent ==
    [][\A c \in Cases : cases[c] # None /\ cases[c].payment = "paid" =>
          cases'[c] # None /\ cases'[c].payment = "paid"]_vars
=============================================================================
