------------------------------ MODULE MCRules -------------------------------
(***************************************************************************)
(* The services that answer from the law and share no state, of which a    *)
(* behaviour exercises one (`subject`): a deadline over terminations around *)
(* month ends and leap days, the verdicts on each type of claim with facts *)
(* on both sides of every threshold, the rules table with the dates on     *)
(* which a figure changes, the Swedish pack with an act that gains a       *)
(* section and loses two, and the breaker in front of the model, which     *)
(* opens after two failures, with three threads.                           *)
(***************************************************************************)
EXTENDS Verdicts, RuleTable, SwedishPack, Breaker

VARIABLE subject

MCEdts == {<<2023, 11, 30>>, <<2024, 1, 31>>, <<2024, 2, 29>>, <<2024, 3, 14>>}
MCOffsets == {-20, 0}
MCAssessments == {[next_step |-> "seek_solicitor", insufficient |-> FALSE, strength |-> "uncertain"],
                  [next_step |-> "prepare_documents", insufficient |-> FALSE, strength |-> "medium"],
                  [next_step |-> "free_diagnosis_only", insufficient |-> FALSE, strength |-> "low"]}
MCRule ==
    [qualifying_period |-> 2, weeks_pay_cap |-> 7, basic_award_min |-> 60,
     compensatory_cap |-> 300, notice_qualifying_period |-> 1, max_notice |-> 12,
     max_weekly_hours |-> 48, daily_rest |-> 11, weekly_rest |-> 24, rest_break |-> 20,
     break_trigger |-> 6, total_leave |-> 56, decision_period |-> 2, day_one_anchor |-> 0,
     successive_years |-> 4, qualifying_weeks |-> 12]
YN == {TRUE, FALSE}
MCService == {1, 30, 31, 729, 730, 731, 5000, 9000}
MCYears == MCService \ {30, 31}
MCDomains ==
    [unfair_dismissal |-> [dated |-> {TRUE}, service_days |-> MCYears,
        age |-> {21, 22, 41, 44}, weekly_pay |-> {5, 9}, day_one |-> {TRUE},
        procedure |-> YN, hearing |-> {FALSE}, reason |-> {"conduct", "redundancy"}],
     redundancy |-> [dated |-> {TRUE}, service_days |-> MCYears,
        age |-> {16, 21, 22, 30, 40, 41, 44, 60}, weekly_pay |-> {0, 5, 7, 9}],
     unpaid_wages |-> [dated |-> {TRUE}, amount |-> {0, 1, 5}, series |-> YN,
        status |-> {"employee", "self_employed", "unknown"}, authorized |-> YN,
        explanation |-> {"plain", "mentions"}],
     wrongful_dismissal |-> [dated |-> {TRUE}, service_days |-> MCService,
        weekly_pay |-> {0, 5}, contractual_notice |-> {0, 1, 4, 13},
        notice_given |-> {0, 1, 2, 12}],
     working_time |-> [weekly_hours |-> {48, 49}, opted_out |-> YN, daily_rest |-> {10, 11},
        weekly_rest |-> {23, 24}, shift_hours |-> {6, 7}, break_minutes |-> {19, 20}],
     holiday_pay |-> [leave_taken |-> {0, 55, 56, 60}, weekly_pay |-> {0, 5},
        untaken |-> {0, 10}, ended |-> YN],
     flexible_working |-> [refused |-> YN, consulted |-> YN,
        request_date |-> {toordinal(2024, 12, 31), toordinal(2024, 1, 15)},
        decision_date |-> {toordinal(2025, 2, 27), toordinal(2025, 2, 28), toordinal(2024, 3, 14)}],
     employment_contracts |-> [received |-> YN, days_after_start |-> {0, 1}],
     fixed_term_workers |-> [less_favourable |-> YN, justified |-> YN, successive_years |-> {3, 4}],
     part_time_workers |-> [less_favourable |-> YN, justified |-> YN, comparator |-> YN],
     agency_workers |-> [weeks |-> {11, 12}, less_favourable |-> YN],
     constructive_dismissal |-> [acts |-> {0, 1, 2}, express |-> YN,
        delay |-> {-1, 0, 7, 8, 28, 29}, grievance |-> YN, letter_cites |-> YN]]

MCVersions == {"first", "inserted", "repealed"}
Par(ref, body) == [ref |-> ref, body |-> body]
MCSections ==
    [first |-> <<Par("5", "five"), Par("7", "seven")>>,
     inserted |-> <<Par("5", "five"), Par("5a", "five a"), Par("7", "seven")>>,
     repealed |-> <<Par("7", "seven anew")>>]
MCLiteral == [probation |-> {"first", "inserted"}]
MCActOf == [probation |-> "LAS"]

\* What rests does so in one initial state.
MCInit ==
    /\ DeadlinesInit /\ VerdictsInit /\ RuleTableInit /\ PackInit /\ Init
    /\ subject \in {"deadline", "verdict", "table", "sweden", "breaker"}
    /\ subject # "deadline" =>
          edt = toordinal(2024, 3, 14) /\ ec_day_a = Undated /\ assessment.strength = "low"
    /\ subject # "verdict" => claim_type = "unfair_dismissal"
    /\ subject # "sweden" => published["LAS"] = "first"

BreakerAlone(A) ==
    /\ subject = "breaker" /\ A
    /\ UNCHANGED <<subject, deadlineVars, verdictVars, ruleTableVars, packVars>>

MCNext ==
    \/ /\ UNCHANGED <<subject, vars>>
       /\ \/ subject = "deadline" /\ DeadlinesNext /\ UNCHANGED <<verdictVars, ruleTableVars, packVars>>
          \/ subject = "verdict" /\ VerdictsNext /\ UNCHANGED <<deadlineVars, ruleTableVars, packVars>>
          \/ subject = "table" /\ RuleTableNext /\ UNCHANGED <<deadlineVars, verdictVars, packVars>>
          \/ subject = "sweden" /\ PackNext /\ UNCHANGED <<deadlineVars, verdictVars, ruleTableVars>>
    \/ BreakerAlone(Next)

\* The fairness of FairSpec.
MCSpec ==
    /\ MCInit
    /\ [][MCNext]_<<deadlineVars, verdictVars, ruleTableVars, packVars, vars, subject>>
    /\ WF_vars(BreakerAlone(Tick))
    /\ \A c \in Callers : WF_vars(BreakerAlone(admit(c))) /\ WF_vars(BreakerAlone(settle(c)))
=============================================================================
