------------------------------ MODULE Evidence ------------------------------
(***************************************************************************)
(* Uploaded documents and the facts read from them: the upload, extraction *)
(* and review routes of backend/api/main.py, backend/api/upload_routes.py, *)
(* backend/core/extraction.py and document_extractor.py, and the bundle    *)
(* and timeline (backend/core/bundle.py, domains/employment/timeline.py)   *)
(* that quote those facts.                                                 *)
(*                                                                         *)
(* The state is the rows of one case.  A handler that reads in one         *)
(* statement and writes in another holds no lock in between (except where  *)
(* noted): it is several steps, with what it read in `handling`.           *)
(***************************************************************************)
EXTENDS Naturals, Functions, SequencesExt, FiniteSets

CONSTANTS Uploads,     \* supply of rows of documents
          Stated,      \* what a document may state, of what the extractors look for
          Values,      \* values a user may type in
          Forms,       \* the reviews users send: an update for some fields
          ReadValue,   \* what extraction reads in any field
          Handlers,    \* requests being served at a time
          NoValue


VARIABLES docTypeNullable, \* whether documents.doc_type accepts NULL
          uploads,         \* rows of documents with is_user_upload
          order,           \* ... in the order of created_at
          uploadFiles,     \* stored files
          documentFacts,   \* uploads with rows in document_facts
          parsedEvents,    \* idempotency keys of evidence_parsed in the outbox
          keyDates,        \* the extracted_* entries of cases.key_dates
          deleted,         \* cases.deleted_at IS NOT NULL
          handling,
          approved,        \* history: <<field, value>> a user ever accepted
          lost             \* history: uploads whose commit was not confirmed

evidenceVars == <<docTypeNullable, uploads, order, uploadFiles, documentFacts,
          parsedEvents, keyDates, deleted, handling, approved, lost>>

Statuses == {"extracted_unconfirmed", "user_confirmed", "user_corrected", "rejected"}
Accepted == {"user_confirmed", "user_corrected"}
SAFE_TO_APPLY_FIELDS == {"edt_candidate", "employment_start_date", "gross_pay",
                         "dismissal_reason", "notice_period",
                         "key_procedure_concerns"}
\* The field extractors, and the names under which the direct route keeps what
\* they found.
Extractors == {"dismissal_date", "reason_for_dismissal", "employer_name",
               "salary", "appeal_deadline"}
field_map(name) ==
    CASE name = "dismissal_date" -> "edt_candidate"
      [] name = "salary" -> "gross_pay"
      [] name = "reason_for_dismissal" -> "dismissal_reason"
      [] OTHER -> name
Fields == {field_map(name) : name \in Stated}
AllValues == Values \cup {ReadValue}
Fact == [status : Statuses, value : AllValues]
\* The extracted_facts object of a document, and the extracted_* key dates.
Facts == UNION {[S -> Fact] : S \in SUBSET Fields}
Dates == UNION {[S -> AllValues] : S \in SUBSET Fields}
UploadRow ==
    [status : {"pending", "extracted", "no_facts", "ocr_failed", "reviewed"}, facts : Facts]
Update == [status : Statuses \ {"extracted_unconfirmed"}, value : Values \cup {NoValue}]

ASSUME EvidenceAssumption ==
    /\ Stated \subseteq Extractors
    /\ NoValue \notin Uploads \cup Handlers \cup Values \cup UploadRow
    /\ \A form \in Forms : \E S \in SUBSET Fields : form \in [S -> Update]

NoFacts == [f \in {} |-> NoValue]

Handling ==
    [op : {"store", "store_direct", "read_direct", "save", "mark", "publish"},
     upload : Uploads]
    \cup [op : {"review", "apply"}, upload : Uploads, facts : Facts]
    \cup [op : {"apply_dates"}, upload : Uploads, dates : Dates]
    \cup [op : {"confirm"}, upload : Uploads, facts : Facts, dates : Dates]

EvidenceTypeOK ==
    /\ docTypeNullable \in BOOLEAN
    /\ uploads \in [Uploads -> {NoValue} \cup UploadRow]
    /\ order \in Seq(Uploads)
    /\ uploadFiles \subseteq Uploads
    /\ documentFacts \subseteq Uploads
    /\ parsedEvents \subseteq Uploads
    /\ keyDates \in Dates
    /\ deleted \in BOOLEAN
    /\ handling \in [Handlers -> Handling \cup {NoValue}]
    /\ approved \subseteq Fields \X AllValues
    /\ lost \subseteq Uploads

EvidenceInit ==
    /\ docTypeNullable \in BOOLEAN
    /\ uploads = [u \in Uploads |-> NoValue]
    /\ order = <<>>
    /\ uploadFiles = {}
    /\ documentFacts = {}
    /\ parsedEvents = {}
    /\ keyDates = NoFacts
    /\ deleted = FALSE
    /\ handling = [r \in Handlers |-> NoValue]
    /\ approved = {}
    /\ lost = {}

Free(r) == handling[r] = NoValue
Doing(r, op) == ~Free(r) /\ handling[r].op = op
Goto(r, s) == handling' = [handling EXCEPT ![r] = s]
Done(r) == Goto(r, NoValue)
Fresh(u) == u \notin uploadFiles /\ uploads[u] = NoValue
            /\ \A r \in Handlers : ~Free(r) => handling[r].upload # u
\* check_case_ownership: the case must not be deleted when the request arrives.
Admitted(r) == Free(r) /\ ~deleted
Insert(u) ==
    /\ uploads' = [uploads EXCEPT ![u] = [status |-> "pending", facts |-> NoFacts]]
    /\ order' = Append(order, u)
SetStatus(u, status) == uploads' = [uploads EXCEPT ![u].status = status]
\* confirm_upload_facts holds the row of its document until it commits.
Locked(u) == \E r \in Handlers : Doing(r, "confirm") /\ handling[r].upload = u

(***************************************************************************)
(* Uploading                                                               *)
(***************************************************************************)

\* POST /cases/{id}/uploads: the file is written before the row.
upload_document(r, u) ==
    /\ Admitted(r) /\ Fresh(u)
    /\ uploadFiles' = uploadFiles \cup {u}
    /\ Goto(r, [op |-> "store", upload |-> u])
    /\ UNCHANGED <<docTypeNullable, uploads, order, documentFacts,
                   parsedEvents, keyDates, deleted, approved, lost>>

\* The row is committed, or an error removes the file; an error raised by a
\* commit that did happen removes the file of a row that stays.
store_upload(r) ==
    /\ Doing(r, "store")
    /\ LET u == handling[r].upload IN
       \/ Insert(u) /\ UNCHANGED <<uploadFiles, lost>>
       \/ uploadFiles' = uploadFiles \ {u} /\ UNCHANGED <<uploads, order, lost>>
       \/ Insert(u) /\ uploadFiles' = uploadFiles \ {u} /\ lost' = lost \cup {u}
    /\ Done(r)
    /\ UNCHANGED <<docTypeNullable, documentFacts, parsedEvents, keyDates,
                   deleted, approved>>

\* POST /api/uploads/upload: a second upload route with its own storage.
upload_document_direct(r, u) ==
    /\ Admitted(r) /\ Fresh(u)
    /\ uploadFiles' = uploadFiles \cup {u}
    /\ Goto(r, [op |-> "store_direct", upload |-> u])
    /\ UNCHANGED <<docTypeNullable, uploads, order, documentFacts,
                   parsedEvents, keyDates, deleted, approved, lost>>

\* Its INSERT names no doc_type, which migration 001 declares NOT NULL; an
\* error leaves the file.
store_direct(r) ==
    /\ Doing(r, "store_direct")
    /\ LET u == handling[r].upload IN
       \/ /\ docTypeNullable
          /\ Insert(u)
          /\ Goto(r, [op |-> "read_direct", upload |-> u])
       \/ Done(r) /\ UNCHANGED <<uploads, order>>
    /\ UNCHANGED <<docTypeNullable, uploadFiles, documentFacts, parsedEvents,
                   keyDates, deleted, approved, lost>>

\* Each extractor finds its field in the text or it does not.
extract_facts_from_document == SUBSET Stated

\* Every fact enters unconfirmed.
_facts_list_to_map(found) ==
    [f \in {field_map(name) : name \in found} |->
        [status |-> "extracted_unconfirmed", value |-> ReadValue]]

\* With text the facts found are stored; without text the row stays pending
\* although the response says ocr_failed; an exception stores ocr_failed.
read_direct(r) ==
    /\ Doing(r, "read_direct")
    /\ LET u == handling[r].upload IN
       /\ ~Locked(u)
       /\ \/ \E found \in extract_facts_from_document :
                uploads' = [uploads EXCEPT ![u] =
                    [status |-> "extracted", facts |-> _facts_list_to_map(found)]]
          \/ UNCHANGED uploads
          \/ SetStatus(u, "ocr_failed")
    /\ Done(r)
    /\ UNCHANGED <<docTypeNullable, order, uploadFiles, documentFacts, parsedEvents,
                   keyDates, deleted, approved, lost>>

(***************************************************************************)
(* Extraction of a stored upload                                           *)
(***************************************************************************)

\* POST /cases/{id}/uploads/{upload}/extract reads the stored file; if no fact
\* is found the row says so and nothing else is written.
extract_document(r, u) ==
    /\ Admitted(r)
    /\ uploads[u] # NoValue /\ u \in uploadFiles /\ ~Locked(u)
    /\ \E found \in extract_facts_from_document :
          \/ found = {} /\ SetStatus(u, "no_facts") /\ UNCHANGED handling
          \/ found # {} /\ Goto(r, [op |-> "save", upload |-> u]) /\ UNCHANGED uploads
    /\ UNCHANGED <<docTypeNullable, order, uploadFiles, documentFacts, parsedEvents,
                   keyDates, deleted, approved, lost>>

\* save_extracted_facts commits in a connection of its own; an error ends the
\* request.
save_extracted_facts(r) ==
    /\ Doing(r, "save")
    /\ LET u == handling[r].upload IN
       \/ /\ documentFacts' = documentFacts \cup {u}
          /\ Goto(r, [op |-> "mark", upload |-> u])
       \/ Done(r) /\ UNCHANGED documentFacts
    /\ UNCHANGED <<docTypeNullable, uploads, order, uploadFiles, parsedEvents,
                   keyDates, deleted, approved, lost>>

extract_mark(r) ==
    /\ Doing(r, "mark")
    /\ LET u == handling[r].upload IN
       /\ ~Locked(u)
       /\ SetStatus(u, "extracted")
       /\ Goto(r, [op |-> "publish", upload |-> u])
    /\ UNCHANGED <<docTypeNullable, order, uploadFiles, documentFacts, parsedEvents,
                   keyDates, deleted, approved, lost>>

\* The evidence_parsed event, once per upload; a failure is swallowed.
extract_publish(r) ==
    /\ Doing(r, "publish")
    /\ \/ parsedEvents' = parsedEvents \cup {handling[r].upload}
       \/ UNCHANGED parsedEvents
    /\ Done(r)
    /\ UNCHANGED <<docTypeNullable, uploads, order, uploadFiles, documentFacts,
                   keyDates, deleted, approved, lost>>

(***************************************************************************)
(* Review                                                                  *)
(***************************************************************************)

\* Fields the document does not state are ignored.  The case route replaces a
\* value only with user_corrected, the direct route with any status.
Reviewed(facts, updates, replaces) ==
    [f \in DOMAIN facts |->
        IF f \notin DOMAIN updates THEN facts[f]
        ELSE [status |-> updates[f].status,
              value |-> IF /\ updates[f].value # NoValue
                           /\ updates[f].status \in replaces
                        THEN updates[f].value ELSE facts[f].value]]

\* History: what the user of this request accepts.
Accepting(facts, updates) ==
    approved' = approved \cup
        {<<f, facts[f].value>> : f \in {g \in DOMAIN facts \cap DOMAIN updates :
                                        facts[g].status \in Accepted}}

\* Mutant: facts are applied whether or not the user accepted them.
ApplyAnyStatus(facts, dates) ==
    [f \in DOMAIN dates \cup (DOMAIN facts \cap SAFE_TO_APPLY_FIELDS) |->
        IF f \in DOMAIN facts \cap SAFE_TO_APPLY_FIELDS
        THEN facts[f].value ELSE dates[f]]

\* Accepted facts of the safe fields enter the key dates as extracted_<field>.
apply_confirmed_to_key_dates(facts, dates) ==
    LET applied == {f \in DOMAIN facts \cap SAFE_TO_APPLY_FIELDS :
                        facts[f].status \in Accepted}
    IN  [f \in DOMAIN dates \cup applied |->
            IF f \in applied THEN facts[f].value ELSE dates[f]]

\* PATCH .../facts: reads the facts ...
update_extracted_facts(r, u, updates) ==
    /\ Admitted(r)
    /\ uploads[u] # NoValue
    /\ LET facts == Reviewed(uploads[u].facts, updates, {"user_corrected"}) IN
       /\ Goto(r, [op |-> "review", upload |-> u, facts |-> facts])
       /\ Accepting(facts, updates)
    /\ UNCHANGED <<docTypeNullable, uploads, order, uploadFiles, documentFacts,
                   parsedEvents, keyDates, deleted, lost>>

\* ... and writes them all back, without a lock since the read.
review_commit(r) ==
    /\ Doing(r, "review")
    /\ ~Locked(handling[r].upload)
    /\ uploads' = [uploads EXCEPT ![handling[r].upload] =
                        [status |-> "reviewed", facts |-> handling[r].facts]]
    /\ Done(r)
    /\ UNCHANGED <<docTypeNullable, order, uploadFiles, documentFacts, parsedEvents,
                   keyDates, deleted, approved, lost>>

\* POST .../apply-confirmed reads the facts, then the key dates, then writes
\* the key dates.
apply_confirmed_facts(r, u) ==
    /\ Admitted(r)
    /\ uploads[u] # NoValue
    /\ Goto(r, [op |-> "apply", upload |-> u, facts |-> uploads[u].facts])
    /\ UNCHANGED <<docTypeNullable, uploads, order, uploadFiles, documentFacts,
                   parsedEvents, keyDates, deleted, approved, lost>>

apply_read_dates(r) ==
    /\ Doing(r, "apply")
    /\ Goto(r, [op |-> "apply_dates", upload |-> handling[r].upload,
                dates |-> apply_confirmed_to_key_dates(handling[r].facts, keyDates)])
    /\ UNCHANGED <<docTypeNullable, uploads, order, uploadFiles, documentFacts,
                   parsedEvents, keyDates, deleted, approved, lost>>

apply_commit(r) ==
    /\ Doing(r, "apply_dates")
    /\ keyDates' = handling[r].dates
    /\ Done(r)
    /\ UNCHANGED <<docTypeNullable, uploads, order, uploadFiles, documentFacts,
                   parsedEvents, deleted, approved, lost>>

\* POST /api/uploads/{id}/confirm-facts: owner check on the document, which it
\* locks, but none on the case; no update means that everything is confirmed.
confirm_upload_facts(r, u, updates) ==
    /\ Free(r)
    /\ uploads[u] # NoValue /\ ~Locked(u)
    /\ LET old == uploads[u].facts
           all == [f \in DOMAIN old |-> [status |-> "user_confirmed", value |-> NoValue]]
           sent == IF DOMAIN updates = {} THEN all ELSE updates
           facts == Reviewed(old, sent, Statuses)
       IN  /\ Goto(r, [op |-> "confirm", upload |-> u, facts |-> facts,
                       dates |-> apply_confirmed_to_key_dates(facts, keyDates)])
           /\ Accepting(facts, sent)
    /\ UNCHANGED <<docTypeNullable, uploads, order, uploadFiles, documentFacts,
                   parsedEvents, keyDates, deleted, lost>>

confirm_commit(r) ==
    /\ Doing(r, "confirm")
    /\ uploads' = [uploads EXCEPT ![handling[r].upload] =
                        [status |-> "reviewed", facts |-> handling[r].facts]]
    /\ keyDates' = handling[r].dates
    /\ Done(r)
    /\ UNCHANGED <<docTypeNullable, order, uploadFiles, documentFacts, parsedEvents,
                   deleted, approved, lost>>

(***************************************************************************)
(* Deletion and crashes                                                    *)
(***************************************************************************)

case_deleted ==
    /\ ~deleted
    /\ deleted' = TRUE
    /\ UNCHANGED <<docTypeNullable, uploads, order, uploadFiles, documentFacts,
                   parsedEvents, keyDates, handling, approved, lost>>

\* The process dies: open transactions roll back, files stay.
Crash ==
    /\ \E r \in Handlers : ~Free(r)
    /\ handling' = [r \in Handlers |-> NoValue]
    /\ UNCHANGED <<docTypeNullable, uploads, order, uploadFiles, documentFacts,
                   parsedEvents, keyDates, deleted, approved, lost>>

EvidenceNext ==
    \/ \E r \in Handlers :
          \/ \E u \in Uploads :
                \/ upload_document(r, u)
                \/ upload_document_direct(r, u)
                \/ extract_document(r, u)
                \/ apply_confirmed_facts(r, u)
                \/ \E updates \in Forms :
                      \/ update_extracted_facts(r, u, updates)
                      \/ confirm_upload_facts(r, u, updates)
          \/ store_upload(r)
          \/ store_direct(r)
          \/ read_direct(r)
          \/ save_extracted_facts(r)
          \/ extract_mark(r)
          \/ extract_publish(r)
          \/ review_commit(r)
          \/ apply_read_dates(r)
          \/ apply_commit(r)
          \/ confirm_commit(r)
    \/ case_deleted
    \/ Crash

EvidenceSpec == EvidenceInit /\ [][EvidenceNext]_evidenceVars

(***************************************************************************)
(* What the bundle and the timeline quote                                  *)
(***************************************************************************)

\* The rows a bundle or the timeline is made from, in the order of created_at;
\* none of these readers looks at deleted_at.
_fetch_case_and_uploads ==
    [i \in DOMAIN order |->
        [id |-> order[i], status |-> uploads[order[i]].status,
         facts |-> uploads[order[i]].facts]]
_fetch_timeline_data == _fetch_case_and_uploads

\* GET /cases/{id}/uploads: the latest first.
list_uploads == Reverse(_fetch_case_and_uploads)

\* The accepted fact of the last upload that has one, per field.
get_confirmed_facts(rows) ==
    LET has(i, f) == /\ f \in DOMAIN rows[i].facts
                     /\ rows[i].facts[f].status \in Accepted
        by(f) == {i \in DOMAIN rows : has(i, f)}
    IN  [f \in {g \in Fields : by(g) # {}} |->
            rows[CHOOSE i \in by(f) : \A j \in by(f) : j <= i].facts[f].value]

\* The fields each component takes from the confirmed facts, and the uploads it
\* lists as evidence on record.
Part(confirmed, fields, listed) ==
    [quotes |-> Restrict(confirmed, DOMAIN confirmed \cap fields), lists |-> listed]
Ids(rows) == {rows[i].id : i \in DOMAIN rows}

generate_witness_statement(confirmed, rows) ==
    Part(confirmed, {"edt_candidate", "employment_start_date", "employer_name",
                     "employee_name", "dismissal_reason", "key_procedure_concerns"},
         Ids(rows))
generate_chronology(confirmed) == Part(confirmed, {"employment_start_date"}, {})
generate_evidence_checklist(rows) == Part(NoFacts, {}, Ids(rows))
generate_et1_support_notes(confirmed) ==
    Part(confirmed, {"employment_start_date", "employer_name", "employee_name"}, {})
build_timeline(confirmed, rows) ==
    Part(confirmed, {"edt_candidate", "employment_start_date"}, Ids(rows))

generate_full_bundle(confirmed, rows) ==
    {generate_witness_statement(confirmed, rows), generate_chronology(confirmed),
     generate_evidence_checklist(rows), generate_et1_support_notes(confirmed)}

\* What POST .../bundle/preview (cut short) and .../bundle/generate (whole once
\* paid for) show, and GET .../timeline.
preview_bundle ==
    LET rows == _fetch_case_and_uploads IN
    generate_full_bundle(get_confirmed_facts(rows), rows)
get_timeline ==
    LET rows == _fetch_timeline_data IN
    build_timeline(get_confirmed_facts(rows), rows)

(***************************************************************************)
(* Properties                                                              *)
(***************************************************************************)

Pairs(fn) == {<<f, fn[f]>> : f \in DOMAIN fn}

(***************************************************************************)
(* Whatever reviews, confirmations and applications overlap, overwrite     *)
(* each other or are cut short, a value that entered the key dates or that *)
(* a bundle component or the timeline would quote is one a user accepted   *)
(* for that very field, and no field outside the safe list (the names      *)
(* above all) enters the key dates.                                        *)
(***************************************************************************)
NothingUnapproved ==
    /\ Pairs(keyDates) \subseteq approved
    /\ DOMAIN keyDates \subseteq SAFE_TO_APPLY_FIELDS
    /\ \A part \in preview_bundle \cup {get_timeline} :
          Pairs(part.quotes) \subseteq approved

(***************************************************************************)
(* An evidence_parsed event in the outbox tells the truth about an upload  *)
(* that exists and whose facts were saved; and every upload that the list, *)
(* the bundle or the timeline presents as evidence on record still has its *)
(* file unless the reply to its commit was lost: no order of errors and    *)
(* crashes between the file system, the two connections and the outbox     *)
(* gives an event or an exhibit without what it refers to.                 *)
(***************************************************************************)
NothingDangling ==
    /\ \A u \in parsedEvents : u \in documentFacts /\ uploads[u] # NoValue
    /\ \A part \in preview_bundle \cup {get_timeline} :
          part.lists \subseteq Ids(list_uploads) \cap (uploadFiles \cup lost)

\* Both: what a case shows of its evidence was accepted and is there
\* (backend/core/extraction.py, bundle.py and the upload routes).
EvidenceSound == NothingUnapproved /\ NothingDangling

=============================================================================
