--------------------------- MODULE OutboxLifecycle ---------------------------
(***************************************************************************)
(* What the outbox promises about one table of events, without workers,    *)
(* batches or failures: a key gets one row, a row is handed out only while *)
(* it is pending, only a row that is handed out can be settled, a failed   *)
(* delivery is counted, the delivery that reaches the limit is the last,   *)
(* and a settled row never changes again (lifecycle in the docstring of    *)
(* backend/core/outbox_worker.py).                                         *)
(***************************************************************************)
EXTENDS Naturals

CONSTANTS Events, MaxRetries

VARIABLES state, failures

lifecycle == <<state, failures>>

Init ==
    /\ state = [e \in Events |-> "absent"]
    /\ failures = [e \in Events |-> 0]

Accept(e) ==
    /\ state[e] = "absent"
    /\ state' = [state EXCEPT ![e] = "pending"]
    /\ UNCHANGED failures

HandOut(S) ==
    /\ \A e \in S : state[e] = "pending" /\ failures[e] < MaxRetries
    /\ state' = [e \in Events |-> IF e \in S THEN "processing" ELSE state[e]]
    /\ UNCHANGED failures

Complete(e) ==
    /\ state[e] = "processing"
    /\ state' = [state EXCEPT ![e] = "processed"]
    /\ UNCHANGED failures

GiveBack(e) ==
    /\ state[e] = "processing"
    /\ failures[e] + 1 < MaxRetries
    /\ state' = [state EXCEPT ![e] = "pending"]
    /\ failures' = [failures EXCEPT ![e] = @ + 1]

GiveUp(e) ==
    /\ state[e] = "processing"
    /\ failures[e] + 1 = MaxRetries
    /\ state' = [state EXCEPT ![e] = "dead_letter"]
    /\ failures' = [failures EXCEPT ![e] = @ + 1]

Next ==
    \/ \E e \in Events : Accept(e) \/ Complete(e) \/ GiveBack(e) \/ GiveUp(e)
    \/ \E S \in SUBSET Events : HandOut(S)

Spec == Init /\ [][Next]_lifecycle
=============================================================================
