------------------------------ MODULE Breaker ------------------------------
(***************************************************************************)
(* The circuit breaker of backend/core/circuit_breaker.py, as the LLM      *)
(* gateway (services/lawapp_llm_gateway/app.py) uses it: one breaker per   *)
(* process, shared by the threads that serve /v1/generate.  call takes the *)
(* lock twice, once to admit the call and once to book its result; between *)
(* the two the thread waits for the model without the lock.                *)
(*                                                                         *)
(* Only the age of the opening matters to the code, and only up to         *)
(* reset_timeout_s; only a failure count below fail_max is told from one   *)
(* at it.  Both saturate here, so the model has every behaviour of the     *)
(* code and needs no bound on time.                                        *)
(***************************************************************************)
EXTENDS Naturals

CONSTANTS
    Callers,       \* the gateway's worker threads
    FailMax,       \* LLM_BREAKER_FAIL_MAX
    ResetTimeout   \* LLM_BREAKER_RESET_S, in ticks

ASSUME BreakerAssumption == FailMax \in Nat \ {0} /\ ResetTimeout \in Nat \ {0}

VARIABLES
    state,       \* _state
    fail_count,  \* _fail_count, saturating at FailMax
    open_age,    \* clock() - _opened_at, saturating at ResetTimeout
    up,          \* whether the model answers at the moment
    met,         \* met[c]: what the call of c has met of the model so far; {} when idle
    reply        \* reply[c]: what generate answered c last

vars == <<state, fail_count, open_age, up, met, reply>>

States == {"closed", "open", "half_open"}
Replies == {"none", "ok", "pii_rejected", "fail_fast", "unavailable"}

Smaller(a, b) == IF a < b THEN a ELSE b

Init ==
    /\ state = "closed"
    /\ fail_count = 0
    /\ open_age = 0
    /\ up = TRUE
    /\ met = [c \in Callers |-> {}]
    /\ reply = [c \in Callers |-> "none"]

-----------------------------------------------------------------------------
(* The state after a due OPEN -> HALF_OPEN transition has been resolved.   *)
_state_locked == IF state = "open" /\ open_age >= ResetTimeout THEN "half_open" ELSE state

(* Reading the state property also resolves the transition.                *)
ReadState ==
    /\ state # _state_locked
    /\ state' = _state_locked
    /\ UNCHANGED <<fail_count, open_age, up, met, reply>>

(* Personal data in the request: 422 before the breaker is asked.          *)
RejectPii(c) ==
    /\ met[c] = {}
    /\ reply' = [reply EXCEPT ![c] = "pii_rejected"]
    /\ UNCHANGED <<state, fail_count, open_age, up, met>>

(* call, first critical section: an open breaker refuses, any other state  *)
(* lets the call through, however many trials are already under way.       *)
admit(c) ==
    /\ met[c] = {}
    /\ state' = _state_locked
    /\ IF state' = "open"
       THEN reply' = [reply EXCEPT ![c] = "fail_fast"] /\ UNCHANGED met
       ELSE met' = [met EXCEPT ![c] = {up}] /\ UNCHANGED reply
    /\ UNCHANGED <<fail_count, open_age, up>>

(* Ways to get the booking of a result wrong that a test with one caller   *)
(* would hardly notice.                                                    *)
_on_success_keeps_trial ==
    /\ fail_count' = 0
    /\ state' = IF state = "open" THEN "closed" ELSE state
    /\ UNCHANGED open_age

_on_failure_late_trip ==
    /\ fail_count' = Smaller(fail_count + 1, FailMax)
    /\ IF state = "half_open" \/ fail_count >= FailMax
       THEN state' = "open" /\ open_age' = 0
       ELSE UNCHANGED <<state, open_age>>

_on_success ==
    /\ fail_count' = 0
    /\ state' = "closed"
    /\ UNCHANGED open_age

(* A failure counts; it opens the breaker when it was a trial or when the  *)
(* count is full, and the open period starts again even if it was open.    *)
_on_failure ==
    /\ fail_count' = Smaller(fail_count + 1, FailMax)
    /\ IF state = "half_open" \/ fail_count' >= FailMax
       THEN state' = "open" /\ open_age' = 0
       ELSE UNCHANGED <<state, open_age>>

(* call, second critical section: the model gave a usable text, or an      *)
(* exception, an empty text or the unavailable marker.  Which of the two   *)
(* depends on what the model was at some moment of the call.               *)
settle(c) ==
    /\ \/ /\ TRUE \in met[c]
          /\ _on_success
          /\ reply' = [reply EXCEPT ![c] = "ok"]
       \/ /\ FALSE \in met[c]
          /\ _on_failure
          /\ reply' = [reply EXCEPT ![c] = "unavailable"]
    /\ met' = [met EXCEPT ![c] = {}]
    /\ UNCHANGED up

(* Environment: the model goes down or comes back; time passes.            *)
ModelChanges ==
    /\ up' = ~up
    /\ met' = [c \in Callers |-> IF met[c] = {} THEN {} ELSE met[c] \union {up'}]
    /\ UNCHANGED <<state, fail_count, open_age, reply>>

Tick ==
    /\ open_age < ResetTimeout
    /\ open_age' = open_age + 1
    /\ UNCHANGED <<state, fail_count, up, met, reply>>

Next ==
    \/ ReadState
    \/ \E c \in Callers : RejectPii(c) \/ admit(c) \/ settle(c)
    \/ ModelChanges
    \/ Tick

Spec == Init /\ [][Next]_vars

(* Time passes, a call ends (stream_chat has a timeout), and clients keep  *)
(* asking: an idle thread gets a clean request sooner or later.            *)
FairSpec ==
    /\ Spec
    /\ WF_vars(Tick)
    /\ \A c \in Callers : WF_vars(admit(c)) /\ WF_vars(settle(c))

-----------------------------------------------------------------------------
TypeOK ==
    /\ state \in States
    /\ fail_count \in 0..FailMax
    /\ open_age \in 0..ResetTimeout
    /\ up \in BOOLEAN
    /\ met \in [Callers -> SUBSET BOOLEAN]
    /\ reply \in [Callers -> Replies]

(* The count and the state agree although they are read and written by     *)
(* threads whose results arrive in any order: a closed breaker has counted *)
(* fewer than fail_max failures, and one that is open or on trial has      *)
(* counted at least one since the last success.                            *)
CountMatchesState ==
    /\ state = "closed" => fail_count < FailMax
    /\ state # "closed" => fail_count > 0

(* A model that stays down trips the breaker for good: whatever late       *)
(* successes of old calls and trials in parallel do, from some time on the *)
(* breaker is not closed any more.                                         *)
TripsForGood == <>[]~up => <>[](state # "closed")

(* A model that stays up is used again: whatever late failures of old      *)
(* calls do, the breaker closes in the end and stays closed.               *)
Recovers == <>[]up => <>[](state = "closed")

\* Both: in the end the breaker follows the model.
FollowsTheModel == TripsForGood /\ Recovers
=============================================================================
