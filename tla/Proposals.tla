----------------------------- MODULE Proposals -----------------------------
(***************************************************************************)
(* Ingestion proposals (backend/core/knowledge_proposer.py) composed with  *)
(* the outbox.  The language model may only propose: a proposal waits for  *)
(* an administrator, whose approval marks it, inserts an ingestion job and *)
(* publishes an event, all in one transaction on one connection.           *)
(*                                                                         *)
(* The event key of an approval is derived from the proposal id, so a      *)
(* proposal is identified with its key.                                    *)
(***************************************************************************)
EXTENDS Outbox

CONSTANTS
    ProposalIds,  \* ids, and keys ingestion_proposal_approved:<id>
    MaxErrors     \* bound: database errors during approvals in one behaviour

ASSUME ProposalsAssumption ==
    /\ ProposalIds \subseteq Events
    /\ \A p \in ProposalIds : KindOf[p] = "no_handler"
    /\ MaxErrors \in Nat

VARIABLES
    approval,   \* ingestion_proposals.approval_status, "absent" before the row
    jobs,       \* how many rows of ingestion_jobs the proposal has
    oks,        \* history: how often an administrator was told ok
    errors      \* database errors during approvals so far

proposalVars == <<approval, jobs, oks, errors>>
allVars == <<vars, proposalVars>>

ProposalsTypeOK ==
    /\ approval \in [ProposalIds -> {"absent", "pending", "approved"}]
    /\ jobs \in [ProposalIds -> Nat]
    /\ oks \in [ProposalIds -> Nat]
    /\ errors \in Nat

ProposalsInit ==
    /\ Init
    /\ approval = [p \in ProposalIds |-> "absent"]
    /\ jobs = [p \in ProposalIds |-> 0]
    /\ oks = [p \in ProposalIds |-> 0]
    /\ errors = 0

\* propose_knowledge_gap and propose_ingestion: a new id each time, status
\* pending; a payload that fails validation, or a database error, leaves nothing.
Propose(p) ==
    /\ approval[p] = "absent"
    /\ approval' = [approval EXCEPT ![p] = "pending"]
    /\ UNCHANGED <<vars, jobs, oks, errors>>

\* Mutants: the event is left to a later step; the UPDATE is unconditional.
CommitUnpublished(p) ==
    /\ approval[p] = "pending"
    /\ approval' = [approval EXCEPT ![p] = "approved"]
    /\ jobs' = [jobs EXCEPT ![p] = @ + 1]
    /\ UNCHANGED vars
CommitUnguarded(p) ==
    /\ approval[p] # "absent"
    /\ approval' = [approval EXCEPT ![p] = "approved"]
    /\ jobs' = [jobs EXCEPT ![p] = @ + 1]
    /\ Publish(p)

\* What the transaction of approve_proposal commits.  The conditional UPDATE
\* locks the row, so a concurrent approval finds it no longer pending.
Commit(p) ==
    /\ approval[p] = "pending"
    /\ approval' = [approval EXCEPT ![p] = "approved"]
    /\ jobs' = [jobs EXCEPT ![p] = @ + 1]
    /\ Publish(p)

TellOk(p) == oks' = [oks EXCEPT ![p] = @ + 1]

ErrorOccurs == errors < MaxErrors /\ errors' = errors + 1

Approve(p) == Commit(p) /\ TellOk(p) /\ UNCHANGED errors

\* The commit is applied but its reply is lost: the administrator sees an error.
ApproveReplyLost(p) == Commit(p) /\ ErrorOccurs /\ UNCHANGED oks

\* publish swallows its own database error, so approve_proposal goes on to
\* commit a transaction the server has already aborted: nothing is stored and
\* the administrator is told ok.
ApprovePublishFails(p) ==
    /\ approval[p] = "pending"
    /\ ErrorOccurs
    /\ TellOk(p)
    /\ UNCHANGED <<vars, approval, jobs>>

ProposalStep(p) ==
    Propose(p) \/ Approve(p) \/ ApproveReplyLost(p) \/ ApprovePublishFails(p)

OutboxStep ==
    /\ \/ \E e \in Events \ ProposalIds : Publish(e)
       \/ \E w \in Workers :
             \/ WorkerStep(w)
             \/ SkipLocked(w) \/ LoseClaim(w) \/ StatusWriteLost(w)
             \/ Crash(w) \/ Stop(w) \/ Start(w)
    /\ UNCHANGED proposalVars

ProposalsNext == OutboxStep \/ \E p \in ProposalIds : ProposalStep(p)

ProposalsSpec == ProposalsInit /\ [][ProposalsNext]_allVars

FairProposalsSpec == ProposalsSpec /\ Fairness

-----------------------------------------------------------------------------
(* Properties.                                                             *)

\* Approving is all or nothing, whatever fails and however often it is asked
\* for: a proposal is approved exactly when it has its one ingestion job and
\* exactly when its event is in the outbox (knowledge_proposer.py:231-284).
ApprovalAtomic ==
    \A p \in ProposalIds :
        /\ approval[p] = "approved" => jobs[p] = 1 /\ status[p] # "absent"
        /\ approval[p] # "approved" => jobs[p] = 0 /\ status[p] = "absent"

\* An administrator is told ok at most once for a proposal, and then it is
\* approved; each database error can add one ok for which nothing was stored,
\* because the error of publish is swallowed (outbox.py:62).
OkMeansApproved ==
    \A p \in ProposalIds :
        /\ oks[p] <= 1 + errors
        /\ oks[p] > 0 /\ errors = 0 => approval[p] = "approved"

\* The outbox keeps its lifecycle when rows come from the transactions of
\* approvals as well as from publishers.
ComposedLifecycle == ImplementsLifecycle

\* Nothing consumes an approval: HANDLERS has no entry for its event type, so
\* without faults the event of every approved proposal ends as a dead letter and
\* no handler was ever started for it (outbox_worker.py:65-74).
ApprovalDeadLetters ==
    [](faults = 0) => \A p \in ProposalIds :
        approval[p] = "approved" ~> status[p] = "dead_letter" /\ attempts[p] = 0
=============================================================================
