----------------------------- MODULE Deadlines ------------------------------
(***************************************************************************)
(* The time limit of a tribunal claim: the arithmetic of                   *)
(* backend/domains/employment/deadline.py and of the handlers of           *)
(* core/employment_assessment.py, and the life of a deadline from the      *)
(* assessment that computes it (core/pipeline.py) through the case that    *)
(* stores it (api/main.py) to the urgency and the escalation state that    *)
(* are read from it (domains/employment/reminders.py, timeline.py).        *)
(*                                                                         *)
(* A date is its proleptic Gregorian ordinal, as in Python's datetime.     *)
(***************************************************************************)
EXTENDS Integers, Sequences

CONSTANTS Edts,         \* effective dates of termination, as <<y, m, d>>
          Limits,       \* values of the time_limit_months rule
          Before, After,\* the user acts from Before days before the primary
                        \* limit to After days after it
          Offsets,      \* when conciliation may have begun or ended before that,
                        \* in days from the termination
          Assessments,  \* outcomes the case may have been assessed with
          Undated

VARIABLES edt, months,
          today,
          ec_day_a, ec_day_b,
          deadline_info,   \* what the last assessment returned
          deadline_date,   \* key_dates.deadline_date of the saved case
          assessment,
          handoff          \* whether a handoff lead exists

deadlineVars == <<edt, months, today, ec_day_a, ec_day_b, deadline_info,
                  deadline_date, assessment, handoff>>

Earlier(a, b) == IF a < b THEN a ELSE b
Later(a, b) == IF a > b THEN a ELSE b

(***************************************************************************)
(* External: the calendar of Python's datetime and calendar modules        *)
(***************************************************************************)

Leap(y) == y % 4 = 0 /\ (y % 100 # 0 \/ y % 400 = 0)
monthrange(y, m) == IF m = 2 THEN IF Leap(y) THEN 29 ELSE 28
                    ELSE IF m \in {4, 6, 9, 11} THEN 30 ELSE 31
DaysBeforeYear(y) == 365 * (y - 1) + (y - 1) \div 4 - (y - 1) \div 100 + (y - 1) \div 400
DaysBeforeMonth(y, m) ==
    <<0, 31, 59, 90, 120, 151, 181, 212, 243, 273, 304, 334>>[m]
    + IF m > 2 /\ Leap(y) THEN 1 ELSE 0
toordinal(y, m, d) == DaysBeforeYear(y) + DaysBeforeMonth(y, m) + d
fromordinal(o) ==
    LET y == CHOOSE z \in o \div 366 .. o \div 365 + 1 :
                DaysBeforeYear(z) < o /\ o <= DaysBeforeYear(z + 1)
        n == o - DaysBeforeYear(y)
        m == CHOOSE k \in 1 .. 12 : /\ DaysBeforeMonth(y, k) < n
                                    /\ n <= DaysBeforeMonth(y, k) + monthrange(y, k)
    IN  [year |-> y, month |-> m, day |-> n - DaysBeforeMonth(y, m)]

\* Terminations are dates, limits whole months and a date that is missing no date.
ASSUME DeadlinesAssumption ==
    /\ \A d \in Edts : /\ d[1] \in Nat \ {0} /\ d[2] \in 1 .. 12
                       /\ d[3] \in 1 .. monthrange(d[1], d[2])
    /\ Limits \subseteq Nat \ {0}
    /\ Before \in Nat /\ After \in Nat /\ Offsets \subseteq Int
    /\ Undated \notin Int

(***************************************************************************)
(* deadline.py                                                             *)
(***************************************************************************)

\* A day the target month does not have becomes its last day.
_add_months(o, n) ==
    LET d == fromordinal(o)
        total == d.month + n
        year == d.year + (total - 1) \div 12
        month == ((total - 1) % 12) + 1
    IN  toordinal(year, month, Earlier(d.day, monthrange(year, month)))

\* Mutant: day A itself is excluded too.
CountsDayA(e, n, a, b) ==
    LET base == _add_months(e, n) - 1
        applied == a # Undated /\ b # Undated
    IN  [limitation_date |-> IF applied THEN Later(base + (b - a) + 1, _add_months(b, 1))
                             ELSE base,
         base_limit |-> base, ec_applied |-> applied]

\* N months beginning with the termination, less one day; with both dates of
\* early conciliation the clock stops between them and the limit is at least
\* one month after the certificate.  Nothing relates day A to the limit or to
\* the termination.
compute_limitation_date(e, n, a, b) ==
    LET base == _add_months(e, n) - 1
        applied == a # Undated /\ b # Undated
    IN  [limitation_date |-> IF applied THEN Later(base + (b - a), _add_months(b, 1))
                             ELSE base,
         base_limit |-> base, ec_applied |-> applied]

\* The handlers of employment_assessment.py use relativedelta (external),
\* which clamps the same way, and know nothing of conciliation.
relativedelta_deadline(e, n) == _add_months(e, n) - 1

(***************************************************************************)
(* Urgency: two scales of the same number of days                          *)
(***************************************************************************)

Urgencies == <<"safe", "due_within_30", "due_within_14", "due_within_7", "expired">>
UrgencyRank(u) == CHOOSE i \in DOMAIN Urgencies : Urgencies[i] = u

compute_urgency(limit, day) ==
    LET days == limit - day IN
    CASE days < 0 -> "expired"
      [] days \in 0 .. 7 -> "due_within_7"
      [] days \in 8 .. 14 -> "due_within_14"
      [] days \in 15 .. 30 -> "due_within_30"
      [] OTHER -> "safe"

\* The urgency_level of deadline_info.
urgency_level(limit, day) ==
    LET days == limit - day IN
    CASE days < 0 -> "expired"
      [] days \in 0 .. 14 -> "critical"
      [] days \in 15 .. 42 -> "urgent"
      [] OTHER -> "normal"

auto_reminder_types(urgency) ==
    IF urgency = "expired" THEN {"deadline_expired"}
    ELSE IF urgency = "safe" THEN {} ELSE {"deadline_approaching"}

ESCALATION_STATES == <<"solicitor_recommended", "handoff_started", "urgent_deadline",
                       "needs_review", "watch", "none">>
EscalationRank(s) == CHOOSE i \in DOMAIN ESCALATION_STATES : ESCALATION_STATES[i] = s

\* The first state, in order of priority, that the case triggers.
compute_escalation(a, urgency, has_handoff) ==
    LET triggered ==
            {"none"}
            \cup {s \in {"handoff_started"} : has_handoff}
            \cup {s \in {"solicitor_recommended"} :
                    \/ a.next_step = "seek_solicitor"
                    \/ a.insufficient /\ a.strength \notin {"medium", "high"}}
            \cup {s \in {"urgent_deadline"} :
                    urgency \in {"expired", "due_within_7", "due_within_14"}}
            \cup {s \in {"watch"} : urgency = "due_within_30"}
            \cup {s \in {"needs_review"} : a.insufficient \/ a.strength = "low"}
    IN  CHOOSE s \in triggered : \A t \in triggered : EscalationRank(s) <= EscalationRank(t)

(***************************************************************************)
(* A claim and the case that stores its deadline                           *)
(***************************************************************************)

Base == _add_months(edt, months) - 1
Ordinals == Nat

DeadlinesTypeOK ==
    /\ edt \in Ordinals /\ today \in Ordinals /\ months \in Limits
    /\ ec_day_a \in Ordinals \cup {Undated}
    /\ ec_day_b \in Ordinals \cup {Undated}
    /\ deadline_date \in Ordinals \cup {Undated}
    /\ handoff \in BOOLEAN
    /\ assessment \in Assessments

DeadlinesInit ==
    /\ edt \in {toordinal(d[1], d[2], d[3]) : d \in Edts}
    /\ months \in Limits
    /\ today = Later(edt, Base - Before)
    /\ LET past == 1 .. today \cap {edt + k : k \in Offsets}
       IN  ec_day_a \in past \cup {Undated} /\ ec_day_b \in past \cup {Undated}
    /\ ec_day_b # Undated => ec_day_a # Undated /\ ec_day_a <= ec_day_b
    /\ deadline_info = Undated
    /\ deadline_date = Undated
    /\ assessment \in Assessments
    /\ handoff = FALSE

\* External: a day passes; the user contacts ACAS; the certificate arrives.
Midnight ==
    /\ today < Base + After
    /\ today' = today + 1
    /\ UNCHANGED <<edt, months, ec_day_a, ec_day_b, deadline_info, deadline_date,
                   assessment, handoff>>

contact_acas ==
    /\ ec_day_a = Undated
    /\ ec_day_a' = today
    /\ UNCHANGED <<edt, months, today, ec_day_b, deadline_info, deadline_date,
                   assessment, handoff>>

receive_certificate ==
    /\ ec_day_a # Undated /\ ec_day_b = Undated
    /\ ec_day_b' = today
    /\ UNCHANGED <<edt, months, today, ec_day_a, deadline_info, deadline_date,
                   assessment, handoff>>

\* Stage 2 of assess; POST /api/deadline/calculate does the same.  A
\* termination in the future is refused.
assess ==
    /\ edt <= today
    /\ deadline_info' = compute_limitation_date(edt, months, ec_day_a, ec_day_b)
    /\ UNCHANGED <<edt, months, today, ec_day_a, ec_day_b, deadline_date,
                   assessment, handoff>>

\* POST /cases: the client sends the date of its last assessment; no route
\* changes it afterwards.
save_case ==
    /\ deadline_date = Undated /\ deadline_info # Undated
    /\ deadline_date' = deadline_info.limitation_date
    /\ UNCHANGED <<edt, months, today, ec_day_a, ec_day_b, deadline_info,
                   assessment, handoff>>

capture_handoff_lead ==
    /\ deadline_date # Undated /\ ~handoff
    /\ handoff' = TRUE
    /\ UNCHANGED <<edt, months, today, ec_day_a, ec_day_b, deadline_info,
                   deadline_date, assessment>>

\* What GET .../deadline and GET .../escalation answer for the saved case.
get_case_deadline == IF deadline_date = Undated THEN "unavailable"
                     ELSE compute_urgency(deadline_date, today)
get_escalation == compute_escalation(assessment, get_case_deadline, handoff)

DeadlinesNext ==
    \/ Midnight
    \/ contact_acas
    \/ receive_certificate
    \/ assess
    \/ save_case
    \/ capture_handoff_lead

DeadlinesSpec == DeadlinesInit /\ [][DeadlinesNext]_deadlineVars

(***************************************************************************)
(* Properties                                                              *)
(***************************************************************************)

\* Whether day o belongs to the period of n months beginning with e: fewer
\* than n months have passed, or n and the day of the month is not reached.
InPeriod(o, e, n) ==
    LET p == fromordinal(o)
        q == fromordinal(e)
        passed == 12 * (p.year - q.year) + p.month - q.month
    IN  o >= e /\ (passed < n \/ (passed = n /\ p.day < q.day))

\* The days after e and up to o that conciliation from day A to day B does not
\* exclude: day A counts, the days after it up to day B do not.
counted(o, e, a, b) == o - e - Later(0, Earlier(b, o) - Later(a, e))

(***************************************************************************)
(* compute_limitation_date names one day and it is the right one, no       *)
(* earlier and no later, however conciliation falls around month ends, the *)
(* termination and the limit.  The primary limit is the last day of the    *)
(* statutory period, or the day before it when the month has no such day   *)
(* (31 January gives 29 April); the handlers that use relativedelta name   *)
(* the same.  With both dates of conciliation the claimant has as many     *)
(* countable days as without it; more only when the limit is one month     *)
(* after the certificate to the day, and for the days of conciliation that *)
(* fall before the termination, which the code adds although they are in   *)
(* no period.  That month is given even to conciliation that starts after  *)
(* the primary limit (NoExtensionAfterLimit).  The date a case stored      *)
(* earlier is never after the one that today's facts give.                 *)
(***************************************************************************)
DeadlineExact ==
    LET now == compute_limitation_date(edt, months, ec_day_a, ec_day_b)
        limit == now.limitation_date
        q == fromordinal(edt)
        t == fromordinal(now.base_limit + 1)
        early == Earlier(ec_day_b, edt) - Earlier(ec_day_a, edt)
        extra == counted(limit, edt, ec_day_a, ec_day_b) - (now.base_limit - edt)
    IN  /\ InPeriod(now.base_limit, edt, months)
        /\ InPeriod(now.base_limit + 1, edt, months) <=> t.day # q.day
        /\ ~InPeriod(now.base_limit + 2, edt, months)
        /\ relativedelta_deadline(edt, months) = now.base_limit
        /\ ~now.ec_applied => limit = now.base_limit
        /\ now.ec_applied =>
              /\ extra >= early /\ ~InPeriod(limit + 1, ec_day_b, 1)
              /\ extra > early => InPeriod(limit - 1, ec_day_b, 1)
        /\ deadline_date # Undated => deadline_date <= limit

(***************************************************************************)
(* As days pass a saved case only becomes more urgent and its escalation   *)
(* never falls back, whatever the user does meanwhile; and the two scales  *)
(* of urgency, and the reminders, never contradict each other about it.    *)
(***************************************************************************)
UrgencyTightens ==
    deadline_date # Undated =>
        LET level == urgency_level(deadline_date, today') IN
        /\ UrgencyRank(get_case_deadline') >= UrgencyRank(get_case_deadline)
        /\ EscalationRank(get_escalation') <= EscalationRank(get_escalation)
        /\ get_case_deadline' = "expired" <=> level = "expired"
        /\ get_case_deadline' \in {"due_within_7", "due_within_14"} <=> level = "critical"
        /\ level = "normal" => get_case_deadline' = "safe"
        /\ auto_reminder_types(get_case_deadline') = {"deadline_expired"}
              <=> deadline_date < today'

(***************************************************************************)
(* docs/08a_DEADLINE_AND_VALUE_LOGIC.md, lines 51 to 54: conciliation that *)
(* starts after the primary limit has passed extends nothing.              *)
(***************************************************************************)
NoExtensionAfterLimit ==
    ec_day_a # Undated /\ ec_day_a > Base =>
        compute_limitation_date(edt, months, ec_day_a, ec_day_b).limitation_date = Base

\* Both: the dates whenever an assessment answers something new (possible after
\* every event of conciliation) or a saved case is handed over, and at every
\* step how urgent the case is said to be.
DeadlinesSound ==
    [][/\ deadline_info' # deadline_info \/ handoff' # handoff => DeadlineExact
       /\ UrgencyTightens]_deadlineVars
=============================================================================
