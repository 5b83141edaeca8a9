------------------------------- MODULE Matters -------------------------------
(***************************************************************************)
(* Matters, their deadlines and the messages sent about them               *)
(* (backend/core/feature_spec_service.py behind                            *)
(* backend/api/features_routes.py, backend/core/tools.py, and              *)
(* backend/services/lawapp-notification-service/main.py).                  *)
(*                                                                         *)
(* Saving a deadline adds rows and closes none: a corrected event leaves   *)
(* the deadline of the old one open, and the case hub names one of them.   *)
(* An e-mail is a committed row and then a job pushed to Redis, two        *)
(* systems with a crash or a failure possible in between.                  *)
(***************************************************************************)
EXTENDS Naturals, Sequences, FiniteSets, FiniteSetsExt

CONSTANTS MatterIds, Clients, ClientCases,
          CaseOwner,     \* who owns each case
          EventDates,    \* dates of events, as numbers
          MonthsOf,      \* the limitation period in force at each date, or 0: no rule
          NoteIds,       \* supply of notifications
          MaxEvents,     \* bound: events saved per matter
          MaxSaves,      \* bound: other rows saved per matter
          Absent

Note == [user : Clients, kind : {"in_app", "queued"}, read : BOOLEAN]

ASSUME MattersAssumption ==
    /\ EventDates \subseteq Nat /\ MonthsOf \in [EventDates -> Nat]
    /\ CaseOwner \in [ClientCases -> Clients]
    /\ Absent \notin Note

VARIABLES matters,       \* rows of matter
          deadlines,     \* rows of deadline with the key_event they come from
          assessments,   \* rows of claim_assessment per matter
          valuations,    \* rows of valuation per matter
          referrals,     \* rows of referral per matter
          hub,           \* what the case hub last named, per matter
          noteTable,     \* whether somebody created the notifications table
          notes,         \* rows of notifications
          sending,       \* notifications whose job is not pushed yet
          emailQueue,    \* lawapp:email_queue
          partnerActive  \* partner_registry.active

mattersVars == <<matters, deadlines, assessments, valuations, referrals, hub,
                 noteTable, notes, sending, emailQueue, partnerActive>>

MattersInit ==
    /\ matters = [m \in MatterIds |-> Absent]
    /\ deadlines = [m \in MatterIds |-> << >>]
    /\ assessments = [m \in MatterIds |-> 0]
    /\ valuations = [m \in MatterIds |-> 0]
    /\ referrals = [m \in MatterIds |-> 0]
    /\ hub = [m \in MatterIds |-> Absent]
    /\ noteTable \in BOOLEAN
    /\ notes = [n \in NoteIds |-> Absent]
    /\ sending = {} /\ emailQueue = << >>
    /\ partnerActive \in BOOLEAN

messages == <<noteTable, notes, sending, emailQueue, partnerActive>>

-----------------------------------------------------------------------------
(* Matters                                                                 *)

\* A case becomes the subject of one matter, of its owner (unique index on
\* case_id; the case may be deleted).
create_matter(m, u, c) ==
    /\ matters[m] = Absent
    /\ c # Absent => /\ CaseOwner[c] = u
                     /\ \A o \in MatterIds : matters[o] # Absent => matters[o].case # c
    /\ matters' = [matters EXCEPT ![m] = [owner |-> u, case |-> c]]
    /\ UNCHANGED <<deadlines, assessments, valuations, referrals, hub, messages>>

\* Every save first looks for the matter under the caller's own id.
Owned(m, u) == matters[m] # Absent /\ matters[m].owner = u

\* run_claim_assessment: a preview, saved only for a matter of the caller's.
run_claim_assessment(m, u) ==
    /\ Owned(m, u) /\ assessments[m] < MaxSaves
    /\ assessments' = [assessments EXCEPT ![m] = @ + 1]
    /\ UNCHANGED <<matters, deadlines, valuations, referrals, hub, messages>>

\* calculate_deadline: the base limitation date under the rule in force at the
\* event (conciliation is not applied), or nothing when there is no such rule.
calculate_deadline(d) == IF MonthsOf[d] = 0 THEN Absent ELSE d + MonthsOf[d]

\* key_event and deadline in one transaction; older deadlines stay open.
save_matter_deadlines(m, u, d) ==
    /\ Owned(m, u) /\ Len(deadlines[m]) < MaxEvents
    /\ calculate_deadline(d) # Absent
    /\ deadlines' = [deadlines EXCEPT ![m] =
          Append(@, [event |-> d, due |-> calculate_deadline(d), status |-> "open"])]
    /\ UNCHANGED <<matters, assessments, valuations, referrals, hub, messages>>

\* estimate_compensation needs the cap in force today; without it nothing is saved.
save_valuation(m, u) ==
    /\ Owned(m, u) /\ valuations[m] < MaxSaves
    /\ valuations' = [valuations EXCEPT ![m] = @ + 1]
    /\ UNCHANGED <<matters, deadlines, assessments, referrals, hub, messages>>

create_referral(m, u) ==
    /\ Owned(m, u) /\ referrals[m] < MaxSaves
    /\ referrals' = [referrals EXCEPT ![m] = @ + 1]
    /\ UNCHANGED <<matters, deadlines, assessments, valuations, hub, messages>>

\* The hub names the nearest open deadline.
Nearest(rows) == Min({rows[i].due : i \in {j \in DOMAIN rows : rows[j].status = "open"}})

\* ... and what else it shows is read in the same transaction.
matter_hub(m, u) ==
    /\ Owned(m, u)
    /\ hub' = [hub EXCEPT ![m] =
          IF deadlines[m] = << >> THEN Absent
          ELSE [next |-> Nearest(deadlines[m]), seen |-> Len(deadlines[m])]]
    /\ UNCHANGED <<matters, deadlines, assessments, valuations, referrals, messages>>

-----------------------------------------------------------------------------
(* Notifications                                                           *)

matterRows == <<matters, deadlines, assessments, valuations, referrals, hub>>

NewNote(u, kind) == [user |-> u, kind |-> kind, read |-> FALSE]

\* create_notification: one row, for a case of the user's if any is named.
create_notification(n, u, c) ==
    /\ noteTable /\ notes[n] = Absent
    /\ c # Absent => CaseOwner[c] = u
    /\ notes' = [notes EXCEPT ![n] = NewNote(u, "in_app")]
    /\ UNCHANGED <<matterRows, noteTable, sending, emailQueue, partnerActive>>

\* Mutant: the job is pushed before the row is committed, and the commit may fail.
PushFirst(n, u, c) ==
    /\ noteTable /\ notes[n] = Absent
    /\ c # Absent => CaseOwner[c] = u
    /\ emailQueue' = Append(emailQueue, [type |-> "email", id |-> n])
    /\ UNCHANGED <<matterRows, noteTable, notes, sending, partnerActive>>

\* send_email_notification, first half: the row is committed as queued.
send_email_commit(n, u, c) ==
    /\ noteTable /\ notes[n] = Absent
    /\ c # Absent => CaseOwner[c] = u
    /\ notes' = [notes EXCEPT ![n] = NewNote(u, "queued")]
    /\ sending' = sending \cup {n}
    /\ UNCHANGED <<matterRows, noteTable, emailQueue, partnerActive>>

\* Second half: the job is pushed, or Redis fails or the process dies and the row
\* stays behind (the rollback comes after the commit).
send_email_push(n) ==
    /\ n \in sending
    /\ sending' = sending \ {n}
    /\ emailQueue' \in {Append(emailQueue, [type |-> "email", id |-> n]), emailQueue}
    /\ UNCHANGED <<matterRows, noteTable, notes, partnerActive>>

\* mark_notification_read, for a row of the caller's own.
mark_notification_read(n, u) ==
    /\ notes[n] # Absent /\ notes[n].user = u
    /\ notes' = [notes EXCEPT ![n].read = TRUE]
    /\ UNCHANGED <<matterRows, noteTable, sending, emailQueue, partnerActive>>

\* notify_partner_referral: a job for an active partner; the referral it names is
\* not looked up.
notify_partner_referral(m) ==
    /\ partnerActive
    /\ \A i \in DOMAIN emailQueue : emailQueue[i] # [type |-> "partner_referral", id |-> m]
    /\ emailQueue' = Append(emailQueue, [type |-> "partner_referral", id |-> m])
    /\ UNCHANGED <<matterRows, noteTable, notes, sending, partnerActive>>

MattersNext ==
    \/ \E m \in MatterIds, u \in Clients :
          \/ \E c \in ClientCases \cup {Absent} : create_matter(m, u, c)
          \/ run_claim_assessment(m, u) \/ save_valuation(m, u) \/ create_referral(m, u)
          \/ \E d \in EventDates : save_matter_deadlines(m, u, d)
          \/ matter_hub(m, u)
    \/ \E n \in NoteIds :
          \/ \E u \in Clients, c \in ClientCases \cup {Absent} :
                create_notification(n, u, c) \/ send_email_commit(n, u, c)
          \/ send_email_push(n)
          \/ \E u \in Clients : mark_notification_read(n, u)
    \/ \E m \in MatterIds : notify_partner_referral(m)

MattersSpec == MattersInit /\ [][MattersNext]_mattersVars

-----------------------------------------------------------------------------
(* Properties                                                              *)

\* Events are corrected by adding new ones, in any order of dates: the deadline
\* the hub names is never later than that of any event it had been told of, the
\* rule that gave it having been the one in force at that event
\* (feature_spec_service.py:356-436).
HubNeverLate ==
    \A m \in MatterIds : hub[m] # Absent =>
        \A i \in 1..hub[m].seen :
            hub[m].next <= deadlines[m][i].event + MonthsOf[deadlines[m][i].event]

\* An e-mail job always finds its row, and a row has at most one job, though the
\* row and the job live in two systems (lawapp-notification-service/main.py:266-345).
JobsHaveRows ==
    \A i, j \in DOMAIN emailQueue : emailQueue[i].type = "email" =>
        /\ notes[emailQueue[i].id] # Absent
        /\ emailQueue[i] = emailQueue[j] => i = j

\* Both: what a client is told about a matter, and the messages sent about it.
MattersSound == HubNeverLate /\ JobsHaveRows
=============================================================================
