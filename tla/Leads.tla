------------------------------- MODULE Leads --------------------------------
(***************************************************************************)
(* Referral leads: personal data that is encrypted when a user asks for a  *)
(* solicitor, read back under whatever key management mode the deployment  *)
(* has by then, and erased on request or by the retention job              *)
(* (capture_handoff_lead and delete_handoff_lead of backend/api/main.py,   *)
(* backend/core/kms.py, envelope_encryption.py, encryption.py and          *)
(* scripts/run_retention.py).                                              *)
(***************************************************************************)
EXTENDS Naturals, FiniteSets

CONSTANTS LeadIds,      \* supply of rows of handoff_leads
          NoLead

VARIABLES kmMode,       \* KEY_MANAGEMENT_MODE of the running process
          settings,     \* which of ENCRYPTION_KEY, AWS_KMS_KEY_ARN and
                        \* KMS_KEY_ID the deployment sets
          kmsUp,        \* whether AWS KMS answers
          leads,
          retentionRuns \* counts of the last row of retention_runs

leadVars == <<kmMode, settings, kmsUp, leads, retentionRuns>>

Modes == {"env", "aws_kms", "kms_stub", "disabled"}
Settings == {"ENCRYPTION_KEY", "AWS_KMS_KEY_ARN", "KMS_KEY_ID"}
\* The key a lead was encrypted with: the configured key, or a data key drawn
\* for this very lead; and the EncryptedKeyBundle that lets KMS recover it.
Lead == [key : {"env"} \cup LeadIds, bundle : BOOLEAN,
         old : BOOLEAN, erased : BOOLEAN]

\* No row is not a row, and no lead is called like a key that is not its own.
ASSUME LeadsAssumption ==
    NoLead \notin LeadIds \cup Lead /\ \A k \in {"env", "fresh", "no"} : k \notin LeadIds

LeadsTypeOK ==
    /\ kmMode \in Modes
    /\ settings \subseteq Settings
    /\ kmsUp \in BOOLEAN
    /\ leads \in [LeadIds -> Lead \cup {NoLead}]
    /\ retentionRuns \in 0 .. Cardinality(LeadIds)

LeadsInit ==
    /\ kmMode \in Modes
    /\ settings \in SUBSET Settings
    /\ kmsUp = TRUE
    /\ leads = [l \in LeadIds |-> NoLead]
    /\ retentionRuns = 0

Live(l) == leads[l] # NoLead /\ ~leads[l].erased

(***************************************************************************)
(* Key providers.  A key is named by what it can decrypt; "no" is None.    *)
(* A provider has a key to encrypt with, a data key with which it makes an *)
(* envelope, and may open the envelopes AWS made.                          *)
(***************************************************************************)

\* The defaults: no key, no envelopes.
KeyProvider == [encryptionKey |-> "no", dataKey |-> "no", opensAws |-> FALSE]

\* Its envelopes have an empty ciphertext: the configured key opens them.
EnvKeyProvider ==
    LET key == IF "ENCRYPTION_KEY" \in settings THEN "env" ELSE "no"
    IN  [KeyProvider EXCEPT !.encryptionKey = key, !.dataKey = key]

KmsStubProvider ==
    [KeyProvider EXCEPT !.encryptionKey =
        IF "KMS_KEY_ID" \in settings THEN EnvKeyProvider.encryptionKey ELSE "no"]

\* Every key it gives out is drawn anew and decrypts nothing that exists; to open
\* an envelope it needs no ARN.
AwsKmsProvider ==
    LET key == IF "AWS_KMS_KEY_ARN" \in settings /\ kmsUp THEN "fresh" ELSE "no"
    IN  [encryptionKey |-> key, dataKey |-> key, opensAws |-> kmsUp]

get_key_provider ==
    CASE kmMode = "aws_kms"  -> AwsKmsProvider
      [] kmMode = "kms_stub" -> KmsStubProvider
      [] kmMode = "disabled" -> KeyProvider
      [] kmMode = "env"      -> EnvKeyProvider

get_encryption_key == get_key_provider.encryptionKey

\* For the bundle of lead l, which AWS made.
decrypt_data_key(l) == IF get_key_provider.opensAws THEN l ELSE "no"

\* The key of encryption.py, whatever the mode.
encrypt_str == "ENCRYPTION_KEY" \in settings

\* Mutant: a bundle is opened with the configured key.
IgnoreBundle(l) == leads[l].key = get_encryption_key

\* envelope_decrypt_str: whether the lead's fields can be read again.
envelope_decrypt_str(l) ==
    leads[l].key = IF leads[l].bundle THEN decrypt_data_key(l) ELSE get_encryption_key

\* decrypt_pii_field: erased fields are NULL and read as nothing.
decrypt_pii_field(l) == Live(l) /\ envelope_decrypt_str(l)

(***************************************************************************)
(* Routes and jobs                                                         *)
(***************************************************************************)

\* The AWS path needs the mode and the ARN, every other case the configured
\* key; a lead that cannot be encrypted is refused with 503.
capture_handoff_lead(l) ==
    /\ leads[l] = NoLead
    /\ LET aws == kmMode = "aws_kms" /\ "AWS_KMS_KEY_ARN" \in settings IN
       \/ /\ aws /\ get_key_provider.dataKey # "no"
          /\ leads' = [leads EXCEPT ![l] =
                [key |-> l, bundle |-> TRUE, old |-> FALSE, erased |-> FALSE]]
       \/ /\ ~aws /\ encrypt_str
          /\ leads' = [leads EXCEPT ![l] =
                [key |-> "env", bundle |-> FALSE, old |-> FALSE, erased |-> FALSE]]
    /\ UNCHANGED <<kmMode, settings, kmsUp, retentionRuns>>

delete_handoff_lead(l) ==
    /\ Live(l)
    /\ leads' = [leads EXCEPT ![l].erased = TRUE]
    /\ UNCHANGED <<kmMode, settings, kmsUp, retentionRuns>>

\* Leads past their retention period are erased in one transaction.
run_retention ==
    LET due == {l \in LeadIds : Live(l) /\ leads[l].old} IN
    /\ leads' = [l \in LeadIds |-> IF l \in due
                                   THEN [leads[l] EXCEPT !.erased = TRUE] ELSE leads[l]]
    /\ retentionRuns' = Cardinality(due)
    /\ UNCHANGED <<kmMode, settings, kmsUp>>

\* External: time passes, KMS fails and recovers, the deployment is restarted
\* in another mode with the same keys.
Age(l) ==
    /\ Live(l)
    /\ leads' = [leads EXCEPT ![l].old = TRUE]
    /\ UNCHANGED <<kmMode, settings, kmsUp, retentionRuns>>

KmsFails ==
    /\ kmsUp' = ~kmsUp
    /\ UNCHANGED <<kmMode, settings, leads, retentionRuns>>

Redeploy(mode) ==
    /\ kmMode' = mode
    /\ UNCHANGED <<settings, kmsUp, leads, retentionRuns>>

LeadsNext ==
    \/ \E l \in LeadIds : capture_handoff_lead(l) \/ delete_handoff_lead(l) \/ Age(l)
    \/ run_retention
    \/ KmsFails
    \/ \E mode \in Modes : Redeploy(mode)

LeadsSpec == LeadsInit /\ [][LeadsNext]_leadVars

(***************************************************************************)
(* Properties                                                              *)
(***************************************************************************)

(***************************************************************************)
(* Whatever mode changes, missing settings and KMS outages come between, a *)
(* lead is readable exactly when the running mode reaches the key it was   *)
(* written with.  A lead of the AWS path was written with a data key that  *)
(* is discarded, so the stored bundle and a KMS that answers are the only  *)
(* way back, with or without the ARN.  Every other lead was written with   *)
(* the configured key, in whatever mode (main.py:1834-1843), and is read   *)
(* in env mode, or in kms_stub mode with its key id, and nowhere else: one *)
(* captured in disabled mode, in aws_kms mode without an ARN or in         *)
(* kms_stub mode without KMS_KEY_ID cannot be read in the mode that wrote  *)
(* it (kms.py:233-235, 308-311, 417-422), whatever                         *)
(* envelope_encryption.py:18-20 says of records without a bundle.  An      *)
(* erased lead is read in no mode.                                         *)
(***************************************************************************)
ReadableWithItsKey ==
    \A l \in LeadIds : leads[l] # NoLead =>
        (decrypt_pii_field(l) <=>
            /\ ~leads[l].erased
            /\ IF leads[l].bundle THEN kmMode = "aws_kms" /\ kmsUp
               ELSE \/ kmMode = "env"
                    \/ kmMode = "kms_stub" /\ "KMS_KEY_ID" \in settings)

=============================================================================
