----------------------------- MODULE MCCasework -----------------------------
(***************************************************************************)
(* Instances of Payments, Evidence, Leads and Matters for TLC.  They are   *)
(* the tables of one case, but no operation of one reads what another      *)
(* writes: deleting a case leaves the uploads, the leads and the matters   *)
(* as they are, and the uploads in the list of documents are rows of       *)
(* Payments itself.  So a behaviour exercises one of them, `subject`,      *)
(* while the others rest in an initial state.                              *)
(*                                                                         *)
(* Two cases, checkouts, documents and requests: a checkout can be paid    *)
(* twice, two requests can write the same document, and one can be         *)
(* overtaken by a deletion.  One upload with a field that may be applied   *)
(* and one that may not, reviewed by two requests.  Two leads, of which    *)
(* one can be due and the other not.  One matter with two events, one of   *)
(* whose dates has no rule and the others different limits.                *)
(***************************************************************************)
EXTENDS Payments, Evidence, Leads, Matters, TLC

VARIABLE subject

allVars == <<vars, evidenceVars, leadVars, mattersVars, subject>>

MCInit ==
    /\ subject \in {"payments", "evidence", "leads", "matters"}
    /\ Init /\ EvidenceInit /\ LeadsInit /\ MattersInit
    /\ subject # "payments" => mode = "disabled"
    /\ subject # "evidence" => ~docTypeNullable
    /\ subject # "leads" => kmMode = "env" /\ settings = {}
    /\ subject # "matters" => ~noteTable /\ ~partnerActive

MCNext ==
    /\ UNCHANGED subject
    /\ \/ subject = "payments" /\ Next /\ UNCHANGED <<evidenceVars, leadVars, mattersVars>>
       \/ subject = "evidence" /\ EvidenceNext /\ UNCHANGED <<vars, leadVars, mattersVars>>
       \/ subject = "leads" /\ LeadsNext /\ UNCHANGED <<vars, evidenceVars, mattersVars>>
       \/ subject = "matters" /\ MattersNext /\ UNCHANGED <<vars, evidenceVars, leadVars>>

MCSpec == MCInit /\ [][MCNext]_allVars

\* No property is temporal beyond one step.
Symmetry == Permutations(Cases) \cup Permutations(Checkouts)
            \cup Permutations(DocIds) \cup Permutations(Requests)

\* Accept all, accept one field, correct it, reject it with a value.
MCForms ==
    LET of(f, s, v) == [g \in {f} |-> [status |-> s, value |-> v]] IN
    {[g \in {} |-> NoValue], of("edt_candidate", "user_corrected", "typed"),
     of("edt_candidate", "rejected", "typed"), of("employer_name", "user_confirmed", NoValue)}

OwnedByAnn == [c \in ClientCases |-> "ann"]
PeriodOf == 1 :> 0 @@ 4 :> 3 @@ 8 :> 6
=============================================================================
