------------------------------ MODULE RuleTable ------------------------------
(***************************************************************************)
(* The rules table: the statutory figures every assessment reads, by the   *)
(* date of termination.  Five programs write it, in any order and as often *)
(* as somebody runs them: the SQL migrations (every deployment applies     *)
(* them again), ingestion/rules/seed.py, seed_unfair_dismissal.py,         *)
(* seed_unpaid_wages.py and seed_limits_orders.py.  Each knows its own     *)
(* rows, dates and verification statuses; each is one transaction.         *)
(*                                                                         *)
(* The rows are the real ones, except that a date is the number yyyymmdd   *)
(* and a value a word for its text.  Rows of the same key and              *)
(* effective_from are one row: the table is unique in them.                *)
(***************************************************************************)
EXTENDS Integers, Sequences

CONSTANTS Days       \* the dates at which the clock and the questions stand

Open == 99999999     \* effective_to IS NULL

\* A date has eight digits.
ASSUME RuleTableAssumption == Days # {} /\ Days \subseteq 0..Open

VARIABLES ruleRows, ruleDay

ruleTableVars == <<ruleRows, ruleDay>>

Row(key, from, to, value) ==
    [key |-> key, from |-> from, to |-> to, value |-> value, prospective |-> FALSE]
Prospective(key, from, value) ==
    [Row(key, from, Open, value) EXCEPT !.prospective = TRUE]

-----------------------------------------------------------------------------
(* ingestion/rules/seed.py                                                 *)

SeedLimits ==
    {Row("qualifying_period", 20120406, Open, "two_years"),
     Prospective("qualifying_period", 20270101, "six_months"),
     Row("time_limit_months", 19960822, Open, "3"),
     Prospective("time_limit_months", 20261001, "6"),
     Row("early_conciliation_required", 20140506, Open, "true")}
SeedCaps ==
    {Row("compensatory_cap_amount", 20250406, 20260405, "118223"),
     Row("compensatory_cap_amount", 20260406, Open, "123543"),
     Prospective("compensatory_cap_amount", 20270101, "uncapped"),
     Row("compensatory_cap_weeks_pay", 20130729, Open, "52")}
SeedAwards ==
    {Row("weeks_pay_cap_amount", 20250406, 20260405, "719"),
     Row("weeks_pay_cap_amount", 20260406, Open, "751"),
     Row("basic_award_min_automatic", 20260406, Open, "9157"),
     Row("basic_award_formula", 19960822, Open, "s.119"),
     Row("ec_max_duration_weeks", 20251201, Open, "12")}

(* ingestion/rules/seed_unfair_dismissal.py                                *)

CanonicalLimits ==
    {Row("time_limit_months", 19960822, Open, "3"),
     Prospective("time_limit_months", 20261001, "6"),
     Row("early_conciliation_required", 20140406, Open, "true"),
     Row("qualifying_period", 20120406, Open, "two_years"),
     Prospective("qualifying_period", 20270101, "six_months")}
CanonicalCaps ==
    {Row("weeks_pay_cap_amount", 20240406, 20250405, "700"),
     Row("weeks_pay_cap_amount", 20250406, 20260405, "719"),
     Row("weeks_pay_cap_amount", 20260406, Open, "751"),
     Row("compensatory_cap_amount", 20240406, 20250405, "115115"),
     Row("compensatory_cap_amount", 20250406, 20260405, "118223"),
     Row("compensatory_cap_amount", 20260406, Open, "123543")}
CanonicalAwards ==
    {Prospective("compensatory_cap_amount", 20270101, "omitted"),
     Row("compensatory_cap_weeks_pay", 20130729, Open, "52"),
     Row("basic_award_formula", 19960822, Open, "s.119"),
     Row("basic_award_min_automatic", 20260406, Open, "9157"),
     Row("ec_max_duration_weeks", 20251201, Open, "12")}

(* ingestion/rules/seed_unpaid_wages.py                                    *)

WagesRows ==
    {Row("wages.time_limit_months", 19960822, Open, "3"),
     Row("wages.qualifying_period_years", 19960822, Open, "none"),
     Row("wages.worker_status", 19960822, Open, "worker"),
     Row("wages.series_deductions_note", 20150130, Open, "last_deduction"),
     Row("wages.remedy_basis", 19960822, Open, "gross")}
CaseLaw == {"wages.series_deductions_note", "wages.remedy_basis"}

(* ingestion/rules/seed_limits_orders.py: an order ends the day before the *)
(* next one, the latest is open.                                           *)

LIMITS_ORDERS ==
    <<[year |-> 2021, pay |-> "544", award |-> "89493", min |-> "6634"],
      [year |-> 2022, pay |-> "571", award |-> "93878", min |-> "6959"],
      [year |-> 2023, pay |-> "643", award |-> "105707", min |-> "7836"],
      [year |-> 2024, pay |-> "700", award |-> "115115", min |-> "8533"],
      [year |-> 2025, pay |-> "719", award |-> "118223", min |-> "8533"],
      [year |-> 2026, pay |-> "751", award |-> "123543", min |-> "9157"]>>

\* Mutant: an order ends on the day the next one begins.
EndsWithNext(i) ==
    IF i = Len(LIMITS_ORDERS) THEN Open ELSE LIMITS_ORDERS[i + 1].year * 10000 + 406

OrderEnds(i) ==
    IF i = Len(LIMITS_ORDERS) THEN Open ELSE LIMITS_ORDERS[i + 1].year * 10000 + 405

OrderRows ==
    UNION {LET from == LIMITS_ORDERS[i].year * 10000 + 406 IN
           {Row("weeks_pay_cap_amount", from, OrderEnds(i), LIMITS_ORDERS[i].pay),
            Row("compensatory_cap_amount", from, OrderEnds(i), LIMITS_ORDERS[i].award),
            Row("basic_award_min_automatic", from, OrderEnds(i), LIMITS_ORDERS[i].min)}
             : i \in DOMAIN LIMITS_ORDERS}

(* db/migrations/020 and 057                                               *)

MigrationRows ==
    CanonicalLimits \cup CanonicalAwards \cup WagesRows
    \cup {r \in CanonicalCaps : r.from >= 20250406}
BackfillRows ==
    {r \in CanonicalCaps : r.from = 20240406}
    \cup {Row("acas_code_adjustment_percent", 20090406, Open, "25"),
          Row("not_reasonably_practicable_extension", 19960822, Open, "reasonable_period")}

-----------------------------------------------------------------------------
(* Writing.                                                                *)

With(rows, status(_)) == {[row |-> r, status |-> status(r)] : r \in rows}
Clash(t, u) == t.row.key = u.row.key /\ t.row.from = u.row.from

\* ON CONFLICT DO UPDATE of every column that matters here.
upsert_rule(table, new) == {t \in table : ~ \E u \in new : Clash(t, u)} \cup new

\* ON CONFLICT DO NOTHING.
InsertMissing(table, new) == table \cup {u \in new : ~ \E t \in table : Clash(t, u)}

Unverified(r) == "none"
Listed(r) == IF r.prospective THEN "prospective"
             ELSE IF r.key \in CaseLaw THEN "case_law_verified" ELSE "verified"
Official(r) == "verified_against_official_source"
NeedsCheck(r) == IF r.prospective THEN "verification_required" ELSE "verified"

RuleTableInit ==
    /\ ruleRows = {}
    /\ ruleDay = CHOOSE d \in Days : \A e \in Days : d <= e

NextDay ==
    /\ \E d \in Days : d > ruleDay /\ ruleDay' = d
    /\ UNCHANGED ruleRows

seed ==
    /\ ruleRows' = upsert_rule(ruleRows, With(SeedLimits \cup SeedCaps \cup SeedAwards, Unverified))
    /\ UNCHANGED ruleDay

\* Its own UPSERT, then VERIFICATION_STATUSES, which lists every row.
seed_unfair_dismissal ==
    /\ ruleRows' = upsert_rule(ruleRows,
                    With(CanonicalLimits \cup CanonicalCaps \cup CanonicalAwards, Listed))
    /\ UNCHANGED ruleDay

seed_unpaid_wages ==
    /\ ruleRows' = upsert_rule(ruleRows, With(WagesRows, Listed))
    /\ UNCHANGED ruleDay

ingest_limits_orders ==
    /\ ruleRows' = upsert_rule(ruleRows, With(OrderRows, Official))
    /\ UNCHANGED ruleDay

\* 034: rows without a status that name legislation.gov.uk, as all do, count as
\* verified; what is not in the vocabulary becomes unverified.
Canonical(status) ==
    IF status \in {"none", "verified_against_official_source"} THEN "verified"
    ELSE IF status \in {"verified", "case_law_verified", "prospective"} THEN status
    ELSE "unverified"

\* 011, 020, 034 and 057 in the order of their numbers.
migrate ==
    LET marked == {IF t.row.prospective /\ t.status = "verification_required"
                   THEN [t EXCEPT !.status = "prospective"] ELSE t : t \in ruleRows}
        inserted == InsertMissing(marked, With(MigrationRows, NeedsCheck))
        normal == {[t EXCEPT !.status = Canonical(t.status)] : t \in inserted}
    IN  /\ ruleRows' = upsert_rule(normal, With(BackfillRows, Listed))
        /\ UNCHANGED ruleDay

RuleTableNext ==
    \/ NextDay \/ seed \/ seed_unfair_dismissal \/ seed_unpaid_wages
    \/ ingest_limits_orders \/ migrate

RuleTableSpec == RuleTableInit /\ [][RuleTableNext]_ruleTableVars

-----------------------------------------------------------------------------
(* Reading.                                                                *)

InForce(r, day) == ~ r.prospective /\ r.from <= day /\ day <= r.to

\* DISTINCT ON (rule_key) ... ORDER BY effective_from DESC.  Whether a row is
\* verified is not asked.
retrieve_rules(edt) ==
    {t.row : t \in {u \in ruleRows : /\ InForce(u.row, edt)
                                  /\ \A w \in ruleRows : InForce(w.row, edt) /\ w.row.key = u.row.key
                                        => w.row.from <= u.row.from}}

jurisdiction_supported ==
    \E t \in ruleRows : InForce(t.row, ruleDay) /\ t.status \in {"verified", "case_law_verified"}

\* check_verification, behind /admin/rules-verification and the readiness gate.
check_verification ==
    \A t \in ruleRows : t.row.prospective
                     \/ t.status \in {"verified", "case_law_verified", "prospective"}

RuleKeys == {t.row.key : t \in ruleRows}
Deployed == "acas_code_adjustment_percent" \in RuleKeys
Figures(edt) == {<<r.key, r.value>> : r \in retrieve_rules(edt)}
KeysOf(edt) == {r.key : r \in retrieve_rules(edt)}

-----------------------------------------------------------------------------
(* Properties.                                                             *)

(***************************************************************************)
(* Whatever mixture of the five writers has run, the law of a day is       *)
(* unambiguous: the rows of a key that are in force on it agree, so the    *)
(* newest one that retrieve_rules takes hides no other figure, prospective *)
(* law is never among them, and between two days with a figure for a key   *)
(* there is no day without one (retrieve.py:106-147, seed*.py).            *)
(***************************************************************************)
RulesUnambiguous ==
    /\ \A t, u \in ruleRows :
          t.row.key = u.row.key /\ t.row.value # u.row.value
          => \A d \in Days : ~ (InForce(t.row, d) /\ InForce(u.row, d))
    /\ ruleRows # {} =>
          LET keys == [d \in Days |-> KeysOf(d)] IN
          \A d, e, f \in Days : d < e /\ e < f => keys[d] \cap keys[f] \subseteq keys[e]

(***************************************************************************)
(* A question answered once keeps its answer: no seed, order or deployment *)
(* run later, in any order, changes the figure of a key for a date of      *)
(* termination that already had one, a system that was deployed once never *)
(* stops supporting its jurisdiction although seed.py strips verification  *)
(* statuses, and the next deployment passes the verification gate again.   *)
(***************************************************************************)
RulesStable ==
    /\ ruleRows' # ruleRows => \A d \in Days : Figures(d) \subseteq Figures(d)'
    /\ Deployed /\ jurisdiction_supported => jurisdiction_supported'
    /\ migrate => check_verification'

\* Both, of every step: the figures of a day, and what later writers do to them.
RuleTableSound == [][(ruleRows' # ruleRows => RulesUnambiguous') /\ RulesStable]_ruleTableVars
=============================================================================
