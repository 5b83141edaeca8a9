----------------------------- MODULE MCProposals -----------------------------
(***************************************************************************)
(* The outbox with the approvals that publish into it, for TLC: one        *)
(* proposal, whose event type has no handler; a key with a flaky           *)
(* registered handler; one that is only acknowledged; one that publish     *)
(* refuses; two workers and a batch of two, so that a batch can be         *)
(* interrupted half-way and rows be left behind for the other worker.      *)
(***************************************************************************)
EXTENDS Proposals, TLC

CONSTANTS p1, e1, e2, e3

KindsOfKeys ==
    p1 :> "no_handler" @@ e1 :> "assessment" @@ e2 :> "ack" @@ e3 :> "unknown_type"

\* In two containers both workers are process 1.
SamePid == [w \in Workers |-> "worker-1"]
==============================================================================
