------------------------------ MODULE Verdicts ------------------------------
(***************************************************************************)
(* What the deterministic engines say of a claim: the handlers of          *)
(* backend/core/employment_assessment.py, the pre-assessment of            *)
(* domains/employment/assess_logic.py, the constructive dismissal triage   *)
(* (domains/employment/constructive_dismissal.py) and the diagnosis route  *)
(* of api/main.py.  The user states facts one at a time and asks again;    *)
(* rows of the rules table come and go.                                    *)
(*                                                                         *)
(* Money is in whole units and awards are counted in half weeks, so that   *)
(* the multipliers 0.5, 1 and 1.5 are 1, 2 and 3.                          *)
(***************************************************************************)
EXTENDS Deadlines, FiniteSets

CONSTANTS Domains,       \* per claim type, the values each fact may take
          Rule,          \* the values of the rules table
          MaxMissing,    \* bound on rules missing at a time
          Unstated

VARIABLES claim_type, facts, rules

verdictVars == <<claim_type, facts, rules>>

ClaimTypes == DOMAIN Domains
Get(f, default) == IF facts[f] = Unstated THEN default ELSE facts[f]
Stated(f) == facts[f] # Unstated
True(f) == facts[f] = TRUE

\* What each engine reads of the facts.
Reads ==
    [unfair_dismissal |-> {"dated", "service_days", "age", "weekly_pay", "day_one",
                           "procedure", "hearing", "reason"},
     redundancy |-> {"dated", "service_days", "age", "weekly_pay"},
     unpaid_wages |-> {"dated", "amount", "series", "status", "authorized", "explanation"},
     wrongful_dismissal |-> {"dated", "service_days", "weekly_pay", "contractual_notice",
                             "notice_given"},
     working_time |-> {"weekly_hours", "opted_out", "daily_rest", "weekly_rest",
                       "shift_hours", "break_minutes"},
     holiday_pay |-> {"leave_taken", "weekly_pay", "untaken", "ended"},
     flexible_working |-> {"refused", "consulted", "request_date", "decision_date"},
     employment_contracts |-> {"received", "days_after_start"},
     fixed_term_workers |-> {"less_favourable", "justified", "successive_years"},
     part_time_workers |-> {"less_favourable", "justified", "comparator"},
     agency_workers |-> {"weeks", "less_favourable"},
     constructive_dismissal |-> {"acts", "express", "delay", "grievance", "letter_cites"}]

\* Facts whose larger value speaks for the claimant, and those against.
For == {"service_days", "age", "weekly_pay", "amount", "weekly_hours", "untaken",
        "contractual_notice", "decision_date", "days_after_start", "successive_years",
        "weeks", "shift_hours", "acts"}
Against == {"notice_given", "daily_rest", "weekly_rest", "break_minutes", "leave_taken",
            "delay"}

\* Quantities are not negative, except a delay when the resignation came first, and
\* days are days; the notice of long service is at least the week of short service.
ASSUME VerdictsAssumption ==
    /\ ClaimTypes \subseteq DOMAIN Reads
    /\ \A c \in ClaimTypes :
          /\ DOMAIN Domains[c] = Reads[c]
          /\ \A f \in Reads[c] \cap (For \cup Against) :
                Domains[c][f] \subseteq IF f = "delay" THEN Int ELSE Nat
          /\ "request_date" \in Reads[c] => Domains[c].request_date \subseteq Nat \ {0}
    /\ Rule \in [{"qualifying_period", "weeks_pay_cap", "basic_award_min", "compensatory_cap",
                  "notice_qualifying_period", "max_notice", "max_weekly_hours", "daily_rest",
                  "weekly_rest", "rest_break", "break_trigger", "total_leave",
                  "decision_period", "day_one_anchor", "successive_years",
                  "qualifying_weeks"} -> Nat]
    /\ Rule.max_notice > 0
    /\ Unstated \notin Int

(***************************************************************************)
(* Verdicts                                                                *)
(***************************************************************************)

Answer(viable, estimate) == [viable |-> viable, grounded |-> TRUE, estimate |-> estimate]
YesIf(cond, estimate) == Answer(IF cond THEN "yes" ELSE "no", estimate)
Invalid == [viable |-> "no", grounded |-> FALSE, estimate |-> 0]
_missing_rules == [viable |-> "unknown", grounded |-> FALSE, estimate |-> 0]

\* The rules each handler requires.
Required ==
    [unfair_dismissal |-> {"qualifying_period", "time_limit", "weeks_pay_cap",
                           "basic_award_min", "compensatory_cap"},
     unpaid_wages |-> {"time_limit"},
     wrongful_dismissal |-> {"notice_qualifying_period", "max_notice", "time_limit"},
     redundancy |-> {"qualifying_period", "time_limit", "weeks_pay_cap", "max_years",
                     "multipliers"},
     working_time |-> {"max_weekly_hours", "daily_rest", "weekly_rest", "rest_break",
                      "break_trigger"},
     holiday_pay |-> {"annual_leave", "additional_leave", "total_leave"},
     flexible_working |-> {"day_one_right", "max_requests", "decision_period"},
     employment_contracts |-> {"day_one_anchor", "particulars_right", "reference_route",
                               "section_38"},
     fixed_term_workers |-> {"successive_years", "treatment_right", "justification"},
     part_time_workers |-> {"treatment_right", "justification", "complaint_route"},
     agency_workers |-> {"qualifying_weeks", "equal_treatment", "complaint_route"}]
_require_rules(c) == Required[c] \subseteq rules

\* Completed years of service, and whether n years or months are reached (a year
\* has 365.2425 days).
YearsServed == (10000 * Get("service_days", 0)) \div 3652425
_years_service(n) == 10000 * Get("service_days", 0) >= n * 3652425
service_months(n) == 12 * 10000 * Get("service_days", 0) >= n * 3652425

\* One band per completed year, counted back from the present age: a half week, one
\* half more if 22 had been reached in it and another if 41 had.
redundancy_weeks(age, years) ==
    LET reached(a) == {k \in 0 .. years - 1 : age - k >= a}
    IN  years + Cardinality(reached(22)) + Cardinality(reached(41))

BasicAward ==
    LET age == Get("age", 0)
        multiplier == IF age >= 41 THEN 3 ELSE IF age >= 22 THEN 2 ELSE 1
    IN  Later(Earlier(YearsServed, 20) * multiplier
                * Earlier(Get("weekly_pay", 0), Rule.weeks_pay_cap),
              2 * Rule.basic_award_min)

\* Short service is a grounded no; this handler knows no day-one exception.
assess_unfair_dismissal ==
    IF ~True("dated") \/ ~Stated("service_days") THEN Invalid
    ELSE IF ~_years_service(Rule.qualifying_period) THEN Answer("no", 0)
    ELSE Answer("yes", BasicAward + 2 * Earlier(52 * Get("weekly_pay", 0), Rule.compensatory_cap))

assess_redundancy ==
    IF ~True("dated") \/ ~Stated("service_days") THEN Invalid
    ELSE IF ~_years_service(Rule.qualifying_period) THEN Answer("no", 0)
    ELSE LET pay == redundancy_weeks(Get("age", 0), Earlier(YearsServed, 20))
                    * Earlier(Get("weekly_pay", 0), Rule.weeks_pay_cap)
         IN  YesIf(pay > 0, pay)

assess_unpaid_wages ==
    IF ~True("dated") THEN Invalid
    ELSE YesIf(Get("amount", 0) > 0, Get("amount", 0))

\* Mutant: service beyond the counted years restarts the notice.
NoticeWraps ==
    LET statutory == IF ~_years_service(2) THEN 1 ELSE YearsServed % Rule.max_notice
        notice == Later(statutory, Get("contractual_notice", 0))
        shortfall == Later(0, notice - Get("notice_given", 0))
    IN  IF ~True("dated") \/ ~Stated("service_days") THEN Invalid
        ELSE YesIf(shortfall > 0, shortfall * Get("weekly_pay", 0))

assess_wrongful_dismissal ==
    LET statutory == IF ~service_months(Rule.notice_qualifying_period) THEN 0
                     ELSE IF ~_years_service(2) THEN 1
                     ELSE Earlier(YearsServed, Rule.max_notice)
        notice == Later(statutory, Get("contractual_notice", 0))
        shortfall == Later(0, notice - Get("notice_given", 0))
    IN  IF ~True("dated") \/ ~Stated("service_days") THEN Invalid
        ELSE YesIf(shortfall > 0, shortfall * Get("weekly_pay", 0))

\* What it measures is the number of violations.
assess_working_time ==
    LET violations ==
            {v \in {"weekly_hours"} : Get("weekly_hours", 0) > Rule.max_weekly_hours
                                      /\ ~True("opted_out")}
            \cup {v \in {"daily_rest"} : Get("daily_rest", Rule.daily_rest) < Rule.daily_rest}
            \cup {v \in {"weekly_rest"} : Get("weekly_rest", Rule.weekly_rest) < Rule.weekly_rest}
            \cup {v \in {"rest_break"} : /\ Get("shift_hours", 0) > Rule.break_trigger
                                         /\ Get("break_minutes", Rule.rest_break) < Rule.rest_break}
    IN  YesIf(violations # {}, Cardinality(violations))

\* In tenths of a week.
assess_holiday_pay ==
    LET shortfall == Later(0, Rule.total_leave - Get("leave_taken", 0))
        untaken == Get("untaken", shortfall)
    IN  YesIf(shortfall > 0 \/ (True("ended") /\ untaken > 0), untaken * Get("weekly_pay", 0))

\* The decision is due before the end of the period beginning with the request.
assess_flexible_working ==
    LET overdue == /\ Stated("request_date") /\ Stated("decision_date")
                   /\ facts.decision_date
                        > relativedelta_deadline(facts.request_date, Rule.decision_period)
        consulted == Get("consulted", TRUE)
    IN  YesIf((True("refused") /\ ~consulted) \/ overdue, 0)

assess_employment_contracts ==
    YesIf(~True("received") \/ Get("days_after_start", 0) > Rule.day_one_anchor, 0)

assess_fixed_term_workers ==
    YesIf(\/ True("less_favourable") /\ ~True("justified")
          \/ Get("successive_years", 0) >= Rule.successive_years, 0)

assess_part_time_workers ==
    YesIf(True("less_favourable") /\ True("comparator") /\ ~True("justified"), 0)

assess_agency_workers ==
    YesIf(Get("weeks", 0) >= Rule.qualifying_weeks /\ True("less_favourable"), 0)

Handler(c) ==
    CASE c = "unfair_dismissal" -> assess_unfair_dismissal
      [] c = "unpaid_wages" -> assess_unpaid_wages
      [] c = "wrongful_dismissal" -> assess_wrongful_dismissal
      [] c = "redundancy" -> assess_redundancy
      [] c = "working_time" -> assess_working_time
      [] c = "holiday_pay" -> assess_holiday_pay
      [] c = "flexible_working" -> assess_flexible_working
      [] c = "employment_contracts" -> assess_employment_contracts
      [] c = "fixed_term_workers" -> assess_fixed_term_workers
      [] c = "part_time_workers" -> assess_part_time_workers
      [] c = "agency_workers" -> assess_agency_workers

\* No facts, or a required rule without a row: no verdict.
assess_case(c) ==
    IF (\A f \in DOMAIN facts : ~Stated(f)) \/ ~_require_rules(c)
    THEN _missing_rules ELSE Handler(c)

(***************************************************************************)
(* The pipeline's own pre-assessment                                       *)
(***************************************************************************)

\* Whether the service reaches the period of the rule (365.25 or 30.44 days).
check_qualifying_period(days, value, unit) ==
    IF unit = "years" THEN 100 * days >= value * 36525
    ELSE IF unit = "months" THEN 100 * days >= value * 3044
    ELSE TRUE

detect_day_one_exception == True("day_one")

\* Low and high end; raises without the caps (here: not an answer).
compute_value_range ==
    LET pay == Get("weekly_pay", 0)
        low == (Earlier(100 * Get("service_days", 0), 20 * 36525)
                  * Earlier(pay, Rule.weeks_pay_cap) + 18262) \div 36525
        ceiling == IF pay > 0 THEN Earlier(Rule.compensatory_cap, 52 * pay)
                   ELSE Rule.compensatory_cap
    IN  [low |-> low, high |-> low + ceiling]

build_deterministic_context ==
    LET short == Stated("service_days") /\ "qualifying_period" \in rules
                 /\ ~check_qualifying_period(Get("service_days", 0), Rule.qualifying_period, "years")
        unfair == facts.procedure = FALSE \/ facts.hearing = FALSE
        fair == True("procedure") /\ facts.reason \in {"conduct", "capability"}
        as(viable, strength, next) == [viable |-> viable, strength |-> strength,
                                       next_step |-> next]
    IN  IF short /\ detect_day_one_exception THEN as("uncertain", "uncertain", "seek_solicitor")
        ELSE IF short THEN as("no", "low", "free_diagnosis_only")
        ELSE IF unfair THEN as("uncertain", "medium", "prepare_documents")
        ELSE IF fair THEN as("uncertain", "low", "seek_solicitor")
        ELSE as("uncertain", "uncertain", "seek_solicitor")

\* A self-employed claimant has no claim; a series, an unclear status or an
\* explanation of the employer that mentions either word keeps it open.
build_deterministic_context_wages ==
    LET self == facts.status = "self_employed"
        complex == True("series") \/ facts.status = "unknown"
        owed == Get("amount", 0) > 0
        clear == owed /\ ~True("authorized")
        viable == IF self THEN "no"
                  ELSE IF clear /\ ~complex /\ facts.explanation # "mentions" THEN "yes"
                  ELSE "uncertain"
    IN  [viable |-> viable,
         strength |-> IF self \/ True("authorized") THEN "low"
                      ELSE IF ~owed THEN "uncertain"
                      ELSE IF complex \/ Stated("explanation") THEN "low" ELSE "medium",
         next_step |-> IF self \/ complex THEN "seek_solicitor"
                       ELSE IF viable = "yes" THEN "prepare_documents"
                       ELSE "free_diagnosis_only"]

\* assess: without its rules the claim is not assessed.
pipeline_assess ==
    LET none == [viable |-> "none", strength |-> "uncertain", next_step |-> "human_review"] IN
    IF ~True("dated") \/ "time_limit" \notin rules THEN none
    ELSE IF claim_type = "unpaid_wages" THEN build_deterministic_context_wages
    ELSE IF {"compensatory_cap", "weeks_pay_cap"} \subseteq rules
    THEN build_deterministic_context ELSE none

\* POST /api/workflow/diagnosis: the two claims of the pipeline come back
\* without a viable_claim, so only the others ever ask for a payment.
workflow_diagnosis ==
    LET viable == IF claim_type \in {"unfair_dismissal", "unpaid_wages"} THEN "unknown"
                  ELSE assess_case(claim_type).viable
    IN  [next_step |-> CASE viable = "yes" -> "unlock" [] viable = "no" -> "seek_advice"
                         [] viable = "unknown" -> "unable",
         payment_required |-> viable = "yes"]

(***************************************************************************)
(* Constructive dismissal                                                  *)
(***************************************************************************)

\* Delay between the last act and the resignation; a grievance lowers a high risk.
AffirmationRisk ==
    IF facts.delay <= 7 THEN "low"
    ELSE IF facts.delay <= 28 \/ True("grievance") THEN "medium" ELSE "high"

assess_constructive_dismissal ==
    LET closed == [viability |-> "zero", action |-> "human_review"]
        risk == AffirmationRisk
        causation == True("letter_cites") /\ risk # "high"
        serious == Get("acts", 0) >= 2 \/ True("express")
        viability == IF risk = "high" THEN "low"
                     ELSE IF serious /\ risk = "low" /\ causation THEN "high"
                     ELSE IF serious THEN "medium" ELSE "low"
    IN  IF "section_95" \notin rules \/ Get("acts", 0) = 0 \/ ~Stated("delay") THEN closed
        ELSE IF facts.delay < 0 THEN closed
        ELSE [viability |-> viability,
              action |-> IF ~Stated("letter_cites") /\ viability # "low"
                         THEN "request_more_evidence"
                         ELSE IF risk = "high" THEN "human_review"
                         ELSE IF viability # "low" THEN "draft_et1_particulars"
                         ELSE "do_not_proceed"]

(***************************************************************************)
(* Facts and rules                                                         *)
(***************************************************************************)

Relevant == IF claim_type \in DOMAIN Required THEN Required[claim_type] ELSE {"section_95"}
AllRules == UNION {Required[c] : c \in DOMAIN Required} \cup {"section_95"}

VerdictsInit ==
    /\ claim_type \in ClaimTypes
    /\ facts = [f \in DOMAIN Domains[claim_type] |-> Unstated]
    /\ rules = AllRules

\* External: the user states or changes a fact; a rule loses its current row
\* (superseded, or not yet verified), or gets it back.
state_fact(f, v) ==
    /\ facts' = [facts EXCEPT ![f] = v]
    /\ UNCHANGED <<claim_type, rules>>

set_rules(missing) ==
    /\ rules' = AllRules \ missing
    /\ UNCHANGED <<claim_type, facts>>

VerdictsNext ==
    \/ \E f \in DOMAIN facts : \E v \in Domains[claim_type][f] : state_fact(f, v)
    \/ \E k \in SUBSET Relevant : Cardinality(k) <= MaxMissing /\ set_rules(k)

VerdictsSpec == VerdictsInit /\ [][VerdictsNext]_verdictVars

(***************************************************************************)
(* Properties                                                              *)
(***************************************************************************)

(***************************************************************************)
(* No engine gives a verdict that its rules do not carry: a grounded yes   *)
(* or no, an estimate, a request for payment or the advice to draft a      *)
(* claim needs every rule its computation reads.  Short service never      *)
(* defeats a claim with a day-one reason in the pipeline; the engines that *)
(* count service in different units agree on who qualifies; and the        *)
(* redundancy payment, counted year by year, never exceeds the basic award *)
(* of the same facts, counted at the present age.                          *)
(***************************************************************************)
VerdictsCarried ==
    IF claim_type = "constructive_dismissal"
    THEN assess_constructive_dismissal.action = "draft_et1_particulars"
            => "section_95" \in rules /\ Stated("letter_cites") /\ AffirmationRisk # "high"
    ELSE LET v == assess_case(claim_type) IN
         /\ v.grounded \/ v.estimate > 0 => Required[claim_type] \subseteq rules
         /\ workflow_diagnosis.payment_required => v.grounded /\ v.viable = "yes"
         /\ claim_type = "unfair_dismissal" =>
               /\ Stated("service_days") =>
                     (_years_service(2) <=> check_qualifying_period(facts.service_days, 2, "years"))
                     /\ (_years_service(2) <=> check_qualifying_period(facts.service_days, 24, "months"))
               /\ detect_day_one_exception => pipeline_assess.viable # "no"
               /\ pipeline_assess.viable # "none" => compute_value_range.low <= compute_value_range.high
               /\ assess_redundancy.estimate <= BasicAward

Rank(viable) == CASE viable = "no" -> 0 [] viable = "unknown" -> 0 [] viable = "yes" -> 1

(***************************************************************************)
(* A fact that speaks more strongly for the claimant (longer service,      *)
(* higher pay, less notice given, a later decision, a shorter delay) never *)
(* turns a yes into a no and never lowers an estimate, across all the      *)
(* thresholds, caps and bands of the eleven handlers and the triage.       *)
(***************************************************************************)
StrongerFactsNeverHurt ==
    [][\A f \in DOMAIN facts :
        LET stronger == /\ Stated(f) /\ facts'[f] # Unstated
                        /\ \/ f \in For /\ facts'[f] > facts[f]
                           \/ f \in Against /\ facts'[f] < facts[f]
        IN  rules' = rules /\ f \in For \cup Against /\ stronger =>
            IF claim_type = "constructive_dismissal"
            THEN assess_constructive_dismissal.viability \in {"high", "medium"}
                    /\ (f = "delay" => facts'[f] >= 0)
                    => assess_constructive_dismissal.viability' \in {"high", "medium"}
            ELSE LET v == assess_case(claim_type) IN
                 v.grounded => /\ Rank(v'.viable) >= Rank(v.viable)
                               /\ v'.estimate >= v.estimate]_verdictVars

\* Both: the verdicts of the handlers, and how they move with the facts.
VerdictsSound == []VerdictsCarried /\ StrongerFactsNeverHurt
=============================================================================
