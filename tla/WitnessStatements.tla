------------------------- MODULE WitnessStatements -------------------------
(***************************************************************************)
(* The statements of the witness protocol: requests and the action they    *)
(* ask for, approvals, decisions, checkpoints, receipts, what an approver  *)
(* is shown, a witness's own state, and witness policies.                  *)
(*                                                                         *)
(* A statement under "part/" is a record that is only ever encoded inside  *)
(* another one, as one bytes field or list item: it has no domain in the   *)
(* code, its place in the outer layout stands for it.                      *)
(***************************************************************************)
EXTENDS CanonicalEncoding

-----------------------------------------------------------------------------
(* Requests: the action manifest, the request and what they are made of.   *)

WitnessTarget == Plain("part/target", Fixed(<<"item_id">>) \o Optional("field_id"))

ManifestArgument ==
    Variant("part/argument", 1, Bytes("bytes")) \cup
    Variant("part/argument", 2, Fixed(<<"item_id">>) \o Optional("field_id"))

EnvironmentInjection ==
    Plain("part/environment",
        Bytes("name") \o Fixed(<<"item_id">>) \o Optional("field_id"))

ContextDomains ==
    {"jury-witness-v1/operation-context/read-stdout",
     "jury-witness-v1/operation-context/write-private-file",
     "jury-witness-v1/operation-context/template-injection",
     "jury-witness-v1/operation-context/child-environment",
     "jury-witness-v1/operation-context/child-stdin"}

OperationContext ==
    UNION {Plain(domain, Literal(1)) : domain \in ContextDomains} \cup
    Plain("jury-witness-v1/operation-context/item-mutation",
        Literal(1) \o Fixed(<<"mutation_kind">>) \o ListFixed("affected_field_ids") \o
        Fixed(<<"proposed_public_revision_digest">>)) \cup
    Plain("jury-witness-v1/operation-context/backup",
        Literal(1) \o Fixed(<<"scope", "archive_format", "destination_commitment">>)) \cup
    Plain("jury-witness-v1/operation-context/recovery",
        Literal(1) \o
        Fixed(<<"mode", "destination_commitment", "next_item_access_mode">>)) \cup
    Plain("jury-witness-v1/operation-context/owner-change",
        Literal(1) \o
        Fixed(<<"change", "target_principal_id", "next_vault_policy_sequence">>)) \cup
    Plain("jury-witness-v1/operation-context/administrative-rekey",
        Literal(1) \o
        Fixed(<<"next_vault_policy_sequence", "next_vault_policy_hash",
                "next_witness_policy_id", "next_witness_policy_revision",
                "next_witness_policy_digest", "rotation_record_digest">>))

ApprovalTarget ==
    Plain("part/approval-target-entry",
        Fixed(<<"item_id">>) \o Optional("field_id") \o
        Fixed(<<"presentation_commitment">>)) \cup
    Hashed("jury-witness-v1/approval-target/hash", {"entries", "presentation_digest"},
        ListBytes("entries") \o Fixed(<<"presentation_digest">>))

ManifestFields ==
    {"schema", "request_id", "vault_id", "genesis_fingerprint", "item_id",
     "key_epoch", "item_access_mode", "slot_id", "content_role", "revision",
     "revision_seal_id", "vault_policy_sequence", "vault_policy_hash",
     "witness_policy_id", "witness_policy_revision", "witness_policy_digest",
     "requester_principal_id", "requested_access_role", "operation",
     "operation_context", "approval_target", "approval_target_digest",
     "executable_identity", "arguments", "working_directory_commitment",
     "environment_injections", "stdin_target", "stdin_mode", "output_sink",
     "output_sink_commitment", "platform_assurance", "timeout_ms",
     "output_limit_bytes", "issued_at_ms", "not_before_ms", "expires_at_ms",
     "presentation_digest"}

ActionManifest ==
    Hashed("jury-witness-v1/action-manifest/hash", ManifestFields,
        Fixed(<<"schema", "request_id", "vault_id", "genesis_fingerprint",
                "item_id", "key_epoch", "item_access_mode", "slot_id",
                "content_role", "revision", "revision_seal_id",
                "vault_policy_sequence", "vault_policy_hash",
                "witness_policy_id", "witness_policy_revision",
                "witness_policy_digest", "requester_principal_id",
                "requested_access_role", "operation">>) \o
        Bytes("operation_context") \o Bytes("approval_target") \o
        Fixed(<<"approval_target_digest">>) \o
        OptionalBytes("executable_identity") \o ListBytes("arguments") \o
        Optional("working_directory_commitment") \o
        ListBytes("environment_injections") \o
        OptionalBytes("stdin_target") \o
        Fixed(<<"stdin_mode", "output_sink">>) \o
        Optional("output_sink_commitment") \o
        Fixed(<<"platform_assurance", "timeout_ms", "output_limit_bytes",
                "issued_at_ms">>) \o
        Optional("not_before_ms") \o
        Fixed(<<"expires_at_ms", "presentation_digest">>))

Workload ==
    Plain("jury-witness-v1/workload/hash",
        Fixed(<<"operation">>) \o Bytes("operation_context") \o
        OptionalBytes("executable_identity") \o ListBytes("arguments") \o
        Optional("working_directory_commitment") \o
        ListBytes("environment_injections") \o
        OptionalBytes("stdin_target") \o
        Fixed(<<"stdin_mode", "output_sink">>) \o
        Optional("output_sink_commitment") \o
        Fixed(<<"platform_assurance", "timeout_ms", "output_limit_bytes">>))

IntendedWitness ==
    Plain("part/intended-witness",
        Fixed(<<"witness_id", "share_index", "signing_key_fingerprint",
                "contribution_key_fingerprint">>)) \cup
    Plain("jury-witness-v1/intended-witness-set/hash", ListFixed("intended_witness_set"))

RequestFields ==
    {"schema", "protocol_version", "construction", "request_id",
     "client_nonce", "vault_id", "genesis_fingerprint", "item_id",
     "key_epoch", "item_access_mode", "slot_id", "content_role", "revision",
     "revision_seal_id", "vault_policy_sequence", "vault_policy_hash",
     "policy_checkpoint_digest", "witness_policy_id",
     "witness_policy_revision", "witness_policy_digest",
     "requester_principal_id", "requester_signing_key_fingerprint",
     "requester_signing_key_epoch", "requested_access_role", "operation",
     "approval_target_digest", "action_manifest_digest", "workload_digest",
     "issued_at_ms", "not_before_ms", "expires_at_ms",
     "request_session_public_key", "request_session_key_fingerprint",
     "intended_witness_set", "client_signature"}

WitnessRequest ==
    Signed("jury-witness-v1/request/signature", "jury-witness-v1/request/hash",
        RequestFields \ {"client_signature"},
        Fixed(<<"schema", "protocol_version", "construction", "request_id",
                "client_nonce", "vault_id", "genesis_fingerprint", "item_id",
                "key_epoch", "item_access_mode", "slot_id", "content_role",
                "revision", "revision_seal_id", "vault_policy_sequence",
                "vault_policy_hash", "policy_checkpoint_digest",
                "witness_policy_id", "witness_policy_revision",
                "witness_policy_digest", "requester_principal_id",
                "requester_signing_key_fingerprint",
                "requester_signing_key_epoch", "requested_access_role",
                "operation", "approval_target_digest",
                "action_manifest_digest", "workload_digest", "issued_at_ms">>) \o
        Optional("not_before_ms") \o
        Fixed(<<"expires_at_ms", "request_session_public_key",
                "request_session_key_fingerprint">>) \o
        ListFixed("intended_witness_set"))

-----------------------------------------------------------------------------
(* Decisions: approvals, cancellations, checkpoints and witness answers.    *)

ApprovalFields ==
    {"schema", "approval_id", "request_id", "request_digest",
     "action_manifest_digest", "presentation_digest", "witness_policy_id",
     "witness_policy_revision", "witness_policy_digest", "approver_id",
     "approver_key_fingerprint", "approver_key_epoch", "approval_mode",
     "decision", "reason", "issued_at_ms", "not_before_ms", "expires_at_ms",
     "nonce", "intended_witness_set_digest", "signature"}

ApprovalDecision ==
    Signed("jury-witness-v1/approval-decision/signature",
        "jury-witness-v1/approval-decision/hash", ApprovalFields \ {"signature"},
        Fixed(<<"schema", "approval_id", "request_id", "request_digest",
                "action_manifest_digest", "presentation_digest",
                "witness_policy_id", "witness_policy_revision",
                "witness_policy_digest", "approver_id",
                "approver_key_fingerprint", "approver_key_epoch",
                "approval_mode", "decision", "reason", "issued_at_ms">>) \o
        Optional("not_before_ms") \o
        Fixed(<<"expires_at_ms", "nonce", "intended_witness_set_digest">>))

CancellationFields ==
    {"schema", "cancellation_id", "request_signature_preimage",
     "client_signature", "request_id", "request_digest", "canceller_id",
     "canceller_key_fingerprint", "canceller_key_epoch", "canceller_role",
     "issued_at_ms", "reason", "nonce", "signature"}

RequestCancellation ==
    Signed("jury-witness-v1/cancellation/signature",
        "jury-witness-v1/cancellation/hash", CancellationFields \ {"signature"},
        Fixed(<<"schema", "cancellation_id">>) \o
        Bytes("request_signature_preimage") \o
        Fixed(<<"client_signature", "request_id", "request_digest",
                "canceller_id", "canceller_key_fingerprint",
                "canceller_key_epoch", "canceller_role", "issued_at_ms",
                "reason", "nonce">>))

CheckpointFields ==
    {"schema", "vault_id", "genesis_fingerprint", "vault_policy_sequence",
     "vault_policy_hash", "active_witness_policy_set_digest",
     "predecessor_checkpoint_digest", "issued_at_ms", "issuer_owner_id",
     "issuer_key_fingerprint", "issuer_key_epoch", "signature"}

PolicyCheckpoint ==
    Signed("jury-witness-v1/checkpoint/signature",
        "jury-witness-v1/checkpoint/hash", CheckpointFields \ {"signature"},
        Fixed(<<"schema", "vault_id", "genesis_fingerprint",
                "vault_policy_sequence", "vault_policy_hash",
                "active_witness_policy_set_digest",
                "predecessor_checkpoint_digest", "issued_at_ms",
                "issuer_owner_id", "issuer_key_fingerprint",
                "issuer_key_epoch">>))

ContributionFields ==
    {"schema", "response_id", "share_index", "share_commitment",
     "capsule_context_digest", "capsule_set_digest",
     "request_session_key_fingerprint", "encapsulation", "ciphertext"}

Contribution ==
    Hashed("jury-witness-v1/contribution/hash", ContributionFields,
        Fixed(<<"schema", "response_id", "share_index", "share_commitment",
                "capsule_context_digest", "capsule_set_digest",
                "request_session_key_fingerprint", "encapsulation",
                "ciphertext">>))

DecisionFields ==
    {"schema", "response_id", "request_id", "request_digest",
     "action_manifest_digest", "witness_id",
     "witness_signing_key_fingerprint", "witness_signing_key_epoch",
     "witness_policy_id", "witness_policy_revision", "witness_policy_digest",
     "policy_checkpoint_digest", "state_generation", "decision", "reason",
     "issued_at_ms", "expires_at_ms", "contribution_digest", "share_index",
     "share_commitment", "signature"}

WitnessDecision ==
    Signed("jury-witness-v1/decision/signature", "jury-witness-v1/decision/hash",
        DecisionFields \ {"signature"},
        Fixed(<<"schema", "response_id", "request_id", "request_digest",
                "action_manifest_digest", "witness_id",
                "witness_signing_key_fingerprint",
                "witness_signing_key_epoch", "witness_policy_id",
                "witness_policy_revision", "witness_policy_digest",
                "policy_checkpoint_digest", "state_generation", "decision",
                "reason", "issued_at_ms", "expires_at_ms">>) \o
        Optional("contribution_digest") \o Optional("share_index") \o
        Optional("share_commitment"))

ActivePolicySet ==
    Plain("jury-witness-v1/active-policy-set/hash", ListFixed("policies"))

-----------------------------------------------------------------------------
(* What an approver is shown.  A label inside an entry has no length of its *)
(* own: its fields follow the tag, then its signature.                      *)

ReviewLabelFields ==
    {"schema", "label_id", "label_revision", "subject_kind", "vault_id",
     "genesis_fingerprint", "item_id", "field_id", "subject_commitment",
     "public_label", "vault_policy_sequence", "issued_at_ms", "expires_at_ms",
     "issuer_owner_id", "issuer_key_fingerprint", "issuer_key_epoch",
     "signature"}

ReviewLabelLayout ==
    Fixed(<<"schema", "label_id", "label_revision", "subject_kind",
            "vault_id", "genesis_fingerprint">>) \o
    Optional("item_id") \o Optional("field_id") \o
    Optional("subject_commitment") \o Bytes("public_label") \o
    Fixed(<<"vault_policy_sequence", "issued_at_ms">>) \o
    Optional("expires_at_ms") \o
    Fixed(<<"issuer_owner_id", "issuer_key_fingerprint", "issuer_key_epoch">>)

ReviewLabel ==
    Signed("jury-witness-v1/review-label/signature",
        "jury-witness-v1/review-label/hash", ReviewLabelFields \ {"signature"},
        ReviewLabelLayout)

ReviewLabelSet ==
    Plain("jury-witness-v1/review-label-set/hash", ListFixed("labels"))

EntryFields ==
    {"subject_kind", "item_id", "field_id", "subject_commitment",
     "presentation_kind", "display_bytes", "source_revision",
     "source_revision_seal_id", "blinding_nonce"}

LabelOf(name) == "owner_review_label." \o name

\* An entry with and without its owner's label.
PresentationEntry ==
    LET domain == "jury-witness-v1/approval-presentation/commitment"
        subject ==
            Fixed(<<"subject_kind">>) \o Optional("item_id") \o
            Optional("field_id") \o Optional("subject_commitment") \o
            Fixed(<<"presentation_kind">>) \o Bytes("display_bytes") \o
            Optional("source_revision") \o Optional("source_revision_seal_id")
        nonce == Fixed(<<"blinding_nonce">>)
        signed == ReviewLabelLayout \o Fixed(<<"signature">>)
        label == [i \in DOMAIN signed |-> <<signed[i][1], LabelOf(signed[i][2])>>]
    IN  Hashed(domain, EntryFields, subject \o Literal(0) \o nonce) \cup
        Hashed(domain, EntryFields \cup {LabelOf(name) : name \in ReviewLabelFields},
               subject \o Literal(1) \o label \o nonce)

Presentation ==
    Plain("jury-witness-v1/approval-presentation/hash", ListBytes("entries"))

NormalizedSubject ==
    Plain("jury-witness-v1/normalized-subject/commitment",
        Fixed(<<"subject_kind", "blinding_nonce">>) \o Bytes("normalized_descriptor"))

-----------------------------------------------------------------------------
(* Receipts.                                                               *)

ScopeFields ==
    {"schema", "request_id", "vault_id", "genesis_fingerprint", "item_id",
     "key_epoch", "item_access_mode", "slot_id", "content_role", "revision",
     "revision_seal_id", "vault_policy_sequence", "vault_policy_hash",
     "witness_policy_id", "witness_policy_revision", "witness_policy_digest",
     "requester_principal_id", "requested_access_role", "operation",
     "approval_target_digest", "action_manifest_digest", "workload_digest",
     "issued_at_ms", "not_before_ms", "expires_at_ms"}

PublicScope ==
    Of("part/public-scope", ScopeFields,
        Fixed(<<"schema", "request_id", "vault_id", "genesis_fingerprint",
                "item_id", "key_epoch", "item_access_mode", "slot_id",
                "content_role", "revision", "revision_seal_id",
                "vault_policy_sequence", "vault_policy_hash",
                "witness_policy_id", "witness_policy_revision",
                "witness_policy_digest", "requester_principal_id",
                "requested_access_role", "operation",
                "approval_target_digest", "action_manifest_digest",
                "workload_digest", "issued_at_ms">>) \o
        Optional("not_before_ms") \o Fixed(<<"expires_at_ms">>))

AcknowledgementFields ==
    {"schema", "receipt_id", "receipt_core_digest", "request_digest",
     "endpoint_principal_id", "endpoint_key_fingerprint",
     "endpoint_key_epoch", "started_at_ms", "signature"}

ReceiptAcknowledgement ==
    Signed("jury-witness-v1/receipt/acknowledgement",
        "jury-witness-v1/receipt/acknowledgement/hash",
        AcknowledgementFields \ {"signature"},
        Fixed(<<"schema", "receipt_id", "receipt_core_digest",
                "request_digest", "endpoint_principal_id",
                "endpoint_key_fingerprint", "endpoint_key_epoch",
                "started_at_ms">>))

CompletionFields ==
    {"schema", "receipt_id", "receipt_core_digest", "acknowledgement_digest",
     "endpoint_principal_id", "endpoint_key_fingerprint",
     "endpoint_key_epoch", "outcome", "reason", "completed_at_ms", "signature"}

ReceiptCompletion ==
    Signed("jury-witness-v1/receipt/completion",
        "jury-witness-v1/receipt/completion/hash",
        CompletionFields \ {"signature"},
        Fixed(<<"schema", "receipt_id", "receipt_core_digest">>) \o
        Optional("acknowledgement_digest") \o
        Fixed(<<"endpoint_principal_id", "endpoint_key_fingerprint",
                "endpoint_key_epoch", "outcome", "reason", "completed_at_ms">>))

ReceiptFields ==
    {"schema", "receipt_id", "request_signature_preimage", "client_signature",
     "request_digest", "action_manifest_digest", "presentation_digest",
     "public_scope", "approval_decisions", "witness_decisions",
     "policy_checkpoint", "witness_policy_material", "approval_threshold",
     "witness_threshold", "counted_approver_ids", "counted_witness_ids",
     "outcome", "reason", "issued_at_ms", "expires_at_ms",
     "endpoint_acknowledgement", "endpoint_completion"}

ReceiptCoreLayout ==
    Fixed(<<"schema", "receipt_id">>) \o
        Bytes("request_signature_preimage") \o
        Fixed(<<"client_signature", "request_digest",
                "action_manifest_digest", "presentation_digest">>) \o
        Bytes("public_scope") \o ListBytes("approval_decisions") \o
        ListBytes("witness_decisions") \o Bytes("policy_checkpoint") \o
        Bytes("witness_policy_material") \o
        Fixed(<<"approval_threshold", "witness_threshold">>) \o
        ListFixed("counted_approver_ids") \o
        ListFixed("counted_witness_ids") \o
        Fixed(<<"outcome", "reason", "issued_at_ms", "expires_at_ms">>)

WitnessReceipt ==
    Hashed("jury-witness-v1/receipt/core-hash",
        ReceiptFields \ {"endpoint_acknowledgement", "endpoint_completion"},
        ReceiptCoreLayout) \cup
    Hashed("jury-witness-v1/receipt/hash", ReceiptFields,
        ReceiptCoreLayout \o OptionalBytes("endpoint_acknowledgement") \o
        OptionalBytes("endpoint_completion"))

-----------------------------------------------------------------------------
(* A witness's durable state and its anchor.                               *)

AnchorFields ==
    {"schema", "witness_id", "witness_signing_key_fingerprint",
     "witness_signing_key_epoch", "state_generation", "database_state_digest",
     "vault_high_watermarks", "replay_retain_through_ms",
     "last_accepted_wall_time_ms", "predecessor_anchor_digest",
     "issued_at_ms", "signature"}

HighWatermark ==
    Plain("part/high-watermark",
        Fixed(<<"vault_id", "genesis_fingerprint", "policy_sequence",
                "checkpoint_digest", "highest_retained_request_expiry_ms">>))

StateAnchor ==
    Signed("jury-witness-v1/state-anchor/signature",
        "jury-witness-v1/state-anchor/hash", AnchorFields \ {"signature"},
        Fixed(<<"schema", "witness_id", "witness_signing_key_fingerprint",
                "witness_signing_key_epoch", "state_generation",
                "database_state_digest">>) \o
        ListFixed("vault_high_watermarks") \o
        Fixed(<<"replay_retain_through_ms", "last_accepted_wall_time_ms",
                "predecessor_anchor_digest", "issued_at_ms">>))

ReplayRecordFields ==
    {"schema", "vault_id", "request_id", "request_digest", "request_message",
     "action_manifest_digest", "state", "expires_at_ms", "retain_through_ms",
     "approval_decisions", "cancellation", "witness_response"}

ReplayRecord ==
    Of("part/replay-record", ReplayRecordFields,
        Fixed(<<"schema", "vault_id", "request_id", "request_digest">>) \o
        Bytes("request_message") \o
        Fixed(<<"action_manifest_digest", "state", "expires_at_ms",
                "retain_through_ms">>) \o
        ListBytes("approval_decisions") \o OptionalBytes("cancellation") \o
        OptionalBytes("witness_response"))

VaultStateFields ==
    {"schema", "vault_id", "genesis_fingerprint", "accepted_registration",
     "current_checkpoint", "current_policy_material"}

VaultState ==
    Of("part/vault-state", VaultStateFields,
        Fixed(<<"schema", "vault_id", "genesis_fingerprint">>) \o
        Bytes("accepted_registration") \o Bytes("current_checkpoint") \o
        Bytes("current_policy_material"))

DatabaseFields ==
    {"schema", "witness_id", "state_generation", "vault_states",
     "replay_records", "last_accepted_wall_time_ms"}

DatabaseState ==
    Hashed("jury-witness-v1/database-state/hash", DatabaseFields,
        Fixed(<<"schema", "witness_id", "state_generation">>) \o
        ListBytes("vault_states") \o ListBytes("replay_records") \o
        Fixed(<<"last_accepted_wall_time_ms">>))

-----------------------------------------------------------------------------
(* Rotation and recovery of witnesses.                                     *)

RotationItemFields ==
    {"item_id", "prior_key_epoch", "next_key_epoch",
     "next_descriptor_revision", "next_descriptor_revision_seal_id",
     "next_descriptor_capsule_set_digest", "next_body_revision",
     "next_body_revision_seal_id", "next_body_capsule_set_digest"}

RotationItem ==
    Of("part/rotation-item", RotationItemFields,
        Fixed(<<"item_id", "prior_key_epoch", "next_key_epoch",
                "next_descriptor_revision",
                "next_descriptor_revision_seal_id",
                "next_descriptor_capsule_set_digest", "next_body_revision",
                "next_body_revision_seal_id", "next_body_capsule_set_digest">>))

RotationFields ==
    {"schema", "rotation_id", "vault_id", "genesis_fingerprint",
     "prior_vault_policy_sequence", "prior_vault_policy_hash",
     "next_vault_policy_sequence", "next_vault_policy_hash",
     "prior_witness_policy_id", "prior_witness_policy_revision",
     "prior_witness_policy_digest", "next_witness_policy_id",
     "next_witness_policy_revision", "next_witness_policy_digest", "reason",
     "affected_items", "issued_at_ms", "owner_id", "owner_key_fingerprint",
     "owner_key_epoch", "signature"}

PolicyRotation ==
    Signed("jury-witness-v1/rotation/signature", "jury-witness-v1/rotation/hash",
        RotationFields \ {"signature"},
        Fixed(<<"schema", "rotation_id", "vault_id", "genesis_fingerprint",
                "prior_vault_policy_sequence", "prior_vault_policy_hash",
                "next_vault_policy_sequence", "next_vault_policy_hash",
                "prior_witness_policy_id", "prior_witness_policy_revision",
                "prior_witness_policy_digest", "next_witness_policy_id",
                "next_witness_policy_revision", "next_witness_policy_digest",
                "reason">>) \o
        ListBytes("affected_items") \o
        Fixed(<<"issued_at_ms", "owner_id", "owner_key_fingerprint",
                "owner_key_epoch">>))

RecoveryFields ==
    {"schema", "recovery_id", "vault_id", "genesis_fingerprint",
     "unavailable_prior_witness_id", "new_witness_descriptor",
     "new_registration_digest", "prior_checkpoint_digest",
     "next_checkpoint_digest", "rotation_record_digest", "statement",
     "issued_at_ms", "owner_id", "owner_key_fingerprint", "owner_key_epoch",
     "signature"}

WitnessRecovery ==
    Signed("jury-witness-v1/recovery/signature", "jury-witness-v1/recovery/hash",
        RecoveryFields \ {"signature"},
        Fixed(<<"schema", "recovery_id", "vault_id", "genesis_fingerprint">>) \o
        Optional("unavailable_prior_witness_id") \o
        Bytes("new_witness_descriptor") \o
        Fixed(<<"new_registration_digest", "prior_checkpoint_digest",
                "next_checkpoint_digest", "rotation_record_digest",
                "statement", "issued_at_ms", "owner_id",
                "owner_key_fingerprint", "owner_key_epoch">>))

-----------------------------------------------------------------------------
(* Witness policies.                                                       *)

ApproverDescriptorFields ==
    {"schema", "approver_id", "signing_public_key", "signing_key_fingerprint",
     "signing_key_epoch", "status", "approval_mode", "allowed_operations",
     "created_at_ms", "self_signature"}

ApproverDescriptorLayout ==
    Fixed(<<"schema", "approver_id", "signing_public_key",
                "signing_key_fingerprint", "signing_key_epoch", "status",
                "approval_mode">>) \o
        ListFixed("allowed_operations") \o Fixed(<<"created_at_ms">>)

ApproverDescriptor ==
    Hashed("jury-witness-v1/approver-descriptor/fingerprint",
        ApproverDescriptorFields \ {"self_signature"}, ApproverDescriptorLayout) \cup
    Hashed("jury-witness-v1/approver-descriptor/self-signature",
        ApproverDescriptorFields \ {"self_signature"}, ApproverDescriptorLayout)

WitnessDescriptorFields ==
    {"schema", "witness_id", "share_index", "signing_public_key",
     "signing_key_fingerprint", "signing_key_epoch",
     "contribution_public_key", "contribution_key_fingerprint",
     "contribution_key_epoch", "status", "created_at_ms", "self_signature"}

WitnessDescriptorLayout ==
    Fixed(<<"schema", "witness_id", "share_index", "signing_public_key",
                "signing_key_fingerprint", "signing_key_epoch",
                "contribution_public_key", "contribution_key_fingerprint",
                "contribution_key_epoch", "status", "created_at_ms">>)

WitnessDescriptor ==
    Hashed("jury-witness-v1/witness-descriptor/fingerprint",
        WitnessDescriptorFields \ {"self_signature"}, WitnessDescriptorLayout) \cup
    Hashed("jury-witness-v1/witness-descriptor/self-signature",
        WitnessDescriptorFields \ {"self_signature"}, WitnessDescriptorLayout)

OperationRuleFields ==
    {"operation", "eligible_approver_ids", "approval_threshold",
     "allowed_request_lifetime_ms", "max_timeout_ms", "max_output_bytes",
     "max_target_count", "required_platform_assurance",
     "automatic_read_targets"}

OperationRule ==
    Of("part/operation-rule", OperationRuleFields,
        Fixed(<<"operation">>) \o ListFixed("eligible_approver_ids") \o
        Fixed(<<"approval_threshold", "allowed_request_lifetime_ms",
                "max_timeout_ms", "max_output_bytes", "max_target_count",
                "required_platform_assurance">>) \o
        ListBytes("automatic_read_targets"))

WitnessPolicyFields ==
    {"schema", "witness_policy_id", "revision", "predecessor_policy_digest",
     "vault_id", "genesis_fingerprint", "vault_policy_sequence",
     "vault_policy_hash", "construction", "suite", "approver_descriptors",
     "witness_descriptors", "witness_threshold", "operation_rules",
     "review_label_set_digest", "direct_fallback"}

WitnessPolicy ==
    Hashed("jury-witness-v1/policy/hash", WitnessPolicyFields,
        Fixed(<<"schema", "witness_policy_id", "revision",
                "predecessor_policy_digest", "vault_id",
                "genesis_fingerprint", "vault_policy_sequence",
                "vault_policy_hash", "construction", "suite">>) \o
        ListBytes("approver_descriptors") \o
        ListBytes("witness_descriptors") \o Fixed(<<"witness_threshold">>) \o
        ListBytes("operation_rules") \o
        Fixed(<<"review_label_set_digest", "direct_fallback">>))

SigningKeyFingerprint ==
    Plain("jury-witness-v1/signing-key/fingerprint",
        Fixed(<<"role_tag", "subject_id", "key_epoch", "public_key">>))

ContributionContext ==
    Plain("jury-witness-v1/contribution/info",
        Fixed(<<"suite", "request_digest", "action_manifest_digest", "response_id",
                "witness_id", "witness_policy_digest", "checkpoint_digest",
                "share_commitment", "share_index">>)) \cup
    Plain("jury-witness-v1/contribution/aad",
        Fixed(<<"suite", "capsule_set_digest", "capsule_context_digest",
                "session_fingerprint", "expires_at_ms">>))

ShareCommitment ==
    Plain("jury-witness-v1/share/commitment", Fixed(<<"context_digest", "share">>))

RegistrationDigest ==
    Plain("jury-witness-v1/registration/hash", Bytes("registration"))

-----------------------------------------------------------------------------
(* The tags of the enumerated fields.                                      *)

WitnessOperationTags ==
    Enumeration("part/witness-operation",
        [ReadStdout |-> 1, WritePrivateFile |-> 2,
         TemplateInjection |-> 3, ChildEnvironment |-> 4, ChildStdin |-> 5,
         ItemMutation |-> 6, Backup |-> 7, Recovery |-> 8,
         AdministrativeRekey |-> 9])

ApprovalModeTags ==
    Enumeration("part/approval-mode",
        [Human |-> 1, Automatic |-> 2])

ApprovalDecisionTags ==
    Enumeration("part/approval-decision-kind",
        [Approve |-> 1, Deny |-> 2])

WitnessDecisionTags ==
    Enumeration("part/witness-decision-kind",
        [Approve |-> 1, Deny |-> 2, Error |-> 3])

WitnessReasonTags ==
    Enumeration("part/witness-reason",
        [None |-> 0, PolicyDenied |-> 1, MissingApproval |-> 2,
         ApprovalDenied |-> 3, ApprovalConflict |-> 4, StalePolicy |-> 5,
         WitnessBehind |-> 6, CheckpointFork |-> 7, ReplayConflict |-> 8,
         Expired |-> 9, NotYetValid |-> 10, Cancelled |-> 11,
         WrongScope |-> 12, WrongOperation |-> 13, WorkloadExceeded |-> 14,
         DirectDowngrade |-> 15, Invalid |-> 16, UnsupportedVersion |-> 17,
         InvalidSignature |-> 18, InvalidContribution |-> 19,
         InsufficientQuorum |-> 20, Unavailable |-> 21, UnsafeClock |-> 22,
         AnchorConflict |-> 23, CapacityExhausted |-> 24,
         RestoredStateUnsafe |-> 25, InternalFailure |-> 26,
         CancellationTooLate |-> 27])

PlatformAssuranceTags ==
    Enumeration("part/platform-assurance",
        [NormalizedPathOnly |-> 1, StableExecutableIdentity |-> 2])

StdinModeTags ==
    Enumeration("part/stdin-mode",
        [None |-> 1, SecretBytes |-> 2, PublicBytes |-> 3])

OutputSinkTags ==
    Enumeration("part/output-sink",
        [Stdout |-> 1, PrivateFile |-> 2, ChildStdin |-> 3,
         ChildEnvironment |-> 4, None |-> 5])

OwnerChangeTags ==
    Enumeration("part/owner-change",
        [Grant |-> 1, Revoke |-> 2])

CancellerRoleTags ==
    Enumeration("part/canceller-role",
        [OriginalRequester |-> 1, CurrentOwner |-> 2])

ReceiptOutcomeTags ==
    Enumeration("part/receipt-outcome",
        [Approved |-> 1, Denied |-> 2])

PresentationSubjectTags ==
    Enumeration("part/presentation-subject",
        [Item |-> 1, Field |-> 2, WorkingDirectory |-> 3,
         OutputSink |-> 4])

PresentationKindTags ==
    Enumeration("part/presentation-kind",
        [EntitledPrivateName |-> 1, OwnerReviewLabel |-> 2,
         ExactNormalizedDisplay |-> 3])

ReplayStateTags ==
    Enumeration("part/replay-state",
        [Reserved |-> 1, Approved |-> 2, Denied |-> 3, Cancelled |-> 4])

RotationReasonTags ==
    Enumeration("part/rotation-reason",
        [WitnessMembership |-> 1, WitnessThreshold |-> 2,
         ShareIndex |-> 3, ContributionKey |-> 4, Construction |-> 5,
         Suite |-> 6, WitnessSigningKey |-> 7, ApproverRuleOrLabel |-> 8,
         DirectMode |-> 9])

DescriptorStatusTags ==
    Enumeration("part/descriptor-status",
        [Active |-> 1, Revoked |-> 2])

WitnessStatementSet ==
    UNION {WitnessOperationTags, ApprovalModeTags, ApprovalDecisionTags,
           WitnessDecisionTags, WitnessReasonTags, PlatformAssuranceTags,
           StdinModeTags, OutputSinkTags, OwnerChangeTags, CancellerRoleTags,
           ReceiptOutcomeTags, PresentationSubjectTags, PresentationKindTags,
           ReplayStateTags, RotationReasonTags, DescriptorStatusTags,
           WitnessTarget, ManifestArgument, EnvironmentInjection,
           OperationContext, ApprovalTarget, ActionManifest, Workload,
           IntendedWitness, WitnessRequest, ApprovalDecision,
           RequestCancellation, PolicyCheckpoint, Contribution, WitnessDecision,
           ActivePolicySet, ReviewLabel, ReviewLabelSet, PresentationEntry,
           Presentation, NormalizedSubject, PublicScope, ReceiptAcknowledgement,
           ReceiptCompletion, WitnessReceipt, HighWatermark, StateAnchor,
           ReplayRecord, VaultState, DatabaseState, RotationItem, PolicyRotation,
           WitnessRecovery, ApproverDescriptor, WitnessDescriptor, OperationRule,
           WitnessPolicy, SigningKeyFingerprint, ContributionContext,
           ShareCommitment, RegistrationDigest}
=============================================================================
