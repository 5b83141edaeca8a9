------------------------------ MODULE MCOutbox ------------------------------
(***************************************************************************)
(* Small instances of Outbox for TLC: three keys that get rows (a flaky    *)
(* registered handler, a plain acknowledgement, a valid type with no       *)
(* handler), one that publish refuses, two workers and a batch of two, so  *)
(* that a batch can be interrupted half-way and rows can be left behind    *)
(* for the other worker.                                                   *)
(***************************************************************************)
EXTENDS Outbox, TLC

CONSTANTS e1, e2, e3, e4

KindsOfKeys ==
    e1 :> "assessment" @@ e2 :> "ack" @@ e3 :> "no_handler" @@ e4 :> "unknown_type"

\* In two containers both workers are process 1.
SamePid == [w \in Workers |-> "worker-1"]
==============================================================================
