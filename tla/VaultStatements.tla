-------------------------- MODULE VaultStatements --------------------------
(***************************************************************************)
(* The statements of the vault format: what a principal, an owner or an    *)
(* item's author signs, what the policy and item chains hash, and what     *)
(* binds each sealed secret to its place (the preimages of vault_v1).      *)
(* The field sets are the records of vault_v1/types.rs; a statement's      *)
(* signature is not part of what it signs.                                 *)
(***************************************************************************)
EXTENDS CanonicalEncoding

-----------------------------------------------------------------------------
(* Principals, sealed slots and capsules.                                  *)

DescriptorFields ==
    {"descriptor_version", "principal_id", "principal_kind",
     "recipient_public_key", "verification_public_key", "self_signature"}

PrincipalDescriptor ==
    Both("jury-v1/principal-descriptor/fingerprint",
         "jury-v1/principal-descriptor/self-signature",
        DescriptorFields \ {"self_signature"},
        Fixed(<<"descriptor_version", "principal_id", "principal_kind",
                "recipient_public_key", "verification_public_key">>))

RecipientFingerprint ==
    Plain("jury-v1/recipient-public-bundle/fingerprint", Fixed(<<"key">>))

MetadataFields ==
    {"revision", "revision_seal_id", "nonce", "ciphertext_length",
     "ciphertext_digest", "plaintext_schema", "key_epoch"}

DescriptorMetadata ==
    Of("part/descriptor-metadata", MetadataFields,
        Fixed(<<"revision", "revision_seal_id", "nonce", "ciphertext_length",
                "ciphertext_digest", "plaintext_schema", "key_epoch">>))

DirectSlotFields ==
    {"slot_schema", "slot_algorithm", "suite", "kem", "kdf", "aead",
     "vault_id", "item_id", "key_epoch", "content_role", "revision",
     "revision_seal_id", "recipient_principal_id", "policy_sequence",
     "recipient_public_key_fingerprint", "access_role", "item_access_mode",
     "encapsulation", "ciphertext"}

DirectSlotInfo ==
    Plain("jury-vault-v1-direct-revision-secret-slot",
        Fixed(<<"suite", "slot_schema", "vault_id", "item_id", "key_epoch",
                "content_role", "revision", "revision_seal_id",
                "recipient_principal_id">>))

DirectSlotAad ==
    Plain("jury-vault-v1-direct-revision-secret-slot-aad",
        Fixed(<<"suite", "policy_sequence",
                "recipient_public_key_fingerprint", "access_role",
                "slot_algorithm", "item_access_mode">>))

DirectSlot ==
    Of("part/direct-slot", DirectSlotFields,
        Fixed(<<"slot_schema", "slot_algorithm", "suite", "kem", "kdf",
                "aead", "vault_id", "item_id", "key_epoch", "content_role",
                "revision", "revision_seal_id", "recipient_principal_id",
                "policy_sequence", "recipient_public_key_fingerprint",
                "access_role", "item_access_mode", "encapsulation",
                "ciphertext">>))

CapsuleFields ==
    {"capsule_schema", "protocol", "construction", "vault_id",
     "genesis_fingerprint", "item_id", "key_epoch", "item_access_mode",
     "slot_id", "content_role", "revision", "revision_seal_id",
     "vault_policy_sequence", "witness_policy_id", "witness_policy_revision",
     "witness_policy_digest", "threshold", "member_count", "witness_id",
     "contribution_key_fingerprint", "share_index", "context_digest",
     "share_commitment", "encapsulation", "ciphertext"}

CapsuleContextLayout ==
    Fixed(<<"capsule_schema", "protocol", "construction", "vault_id",
                "genesis_fingerprint", "item_id", "key_epoch",
                "item_access_mode", "slot_id", "content_role", "revision",
                "revision_seal_id", "vault_policy_sequence",
                "witness_policy_id", "witness_policy_revision",
                "witness_policy_digest", "threshold", "member_count",
                "witness_id", "contribution_key_fingerprint", "share_index">>)

CapsuleContext ==
    Of("jury-witness-v1/capsule/context",
        (CapsuleFields \ {"context_digest", "share_commitment",
                          "encapsulation", "ciphertext"}) \cup {"suite"},
        Fixed(<<"suite">>) \o CapsuleContextLayout)

CapsuleInfo ==
    Plain("jury-witness-v1/capsule/info",
        Fixed(<<"suite", "context_digest", "witness_id",
                "contribution_key_fingerprint", "share_index">>))

CapsuleAad ==
    Plain("jury-witness-v1/capsule/aad",
        Fixed(<<"suite", "context_digest", "share_commitment",
                "witness_policy_digest", "vault_policy_sequence">>))

Capsule ==
    Of("part/capsule", CapsuleFields, CapsuleContextLayout \o
        Fixed(<<"context_digest", "share_commitment", "encapsulation", "ciphertext">>))

WitnessedSlotFields ==
    {"slot_schema", "slot_algorithm", "suite", "protocol", "construction",
     "vault_id", "genesis_fingerprint", "item_id", "key_epoch",
     "item_access_mode", "slot_id", "content_role", "revision",
     "revision_seal_id", "vault_policy_sequence", "witness_policy_id",
     "witness_policy_revision", "witness_policy_digest", "threshold",
     "member_count", "capsules", "capsule_set_digest"}

WitnessedSlot ==
    Hashed("jury-witness-v1/slot/hash", WitnessedSlotFields,
        Fixed(<<"slot_schema", "slot_algorithm", "suite", "protocol",
                "construction", "vault_id", "genesis_fingerprint", "item_id",
                "key_epoch", "item_access_mode", "slot_id", "content_role",
                "revision", "revision_seal_id", "vault_policy_sequence",
                "witness_policy_id", "witness_policy_revision",
                "witness_policy_digest", "threshold", "member_count">>) \o
        ListBytes("capsules") \o Fixed(<<"capsule_set_digest">>))

SlotSets ==
    Plain("jury-witness-v1/capsule-set/hash", ListBytes("capsules")) \cup
    Plain("jury-witness-v1/slot-set/hash", ListBytes("slots"))

-----------------------------------------------------------------------------
(* The records of a lineage: its genesis, its revisions, and the vaults it *)
(* came from or went to.  A genesis leaves its suite out (the state hash   *)
(* of every revision has it) and its two inventories, which are empty.  A  *)
(* rollover's manifest is bound by its digest.                             *)

RolloverFields ==
    {"rollover_format", "rollover_id", "source_vault_id",
     "source_genesis_fingerprint", "terminal_source_revision_hash",
     "destination_vault_id", "destination_suite", "bootstrap_manifest_digest",
     "bootstrap_manifest", "acting_owner_principal_id", "signature"}

SignedRollover ==
    Of("jury-v1/rollover/signature",
        RolloverFields \ {"bootstrap_manifest", "signature"},
        Fixed(<<"rollover_format", "rollover_id", "source_vault_id",
                "source_genesis_fingerprint", "terminal_source_revision_hash",
                "destination_vault_id", "destination_suite",
                "bootstrap_manifest_digest", "acting_owner_principal_id">>))

SourceAttestation ==
    Variant("source-attestation", 1,
        Fixed(<<"source_format", "migration_id",
                "final_legacy_audit_digest", "terminal_legacy_audit_mac">>)) \cup
    Variant("source-attestation", 2,
        Bytes("statement") \o Fixed(<<"signature">>))

MigrationFields ==
    {"migration_format", "migration_id", "old_vault_id",
     "old_genesis_fingerprint", "old_terminal_revision_hash", "old_suite",
     "new_vault_id", "new_genesis_fingerprint", "new_suite",
     "migrated_item_manifest_digest", "signature"}

SuiteMigration ==
    Of("jury-v1/suite-migration/signature",
        MigrationFields \ {"signature"},
        Fixed(<<"migration_format", "migration_id", "old_vault_id",
                "old_genesis_fingerprint", "old_terminal_revision_hash",
                "old_suite", "new_vault_id", "new_genesis_fingerprint",
                "new_suite", "migrated_item_manifest_digest">>))

GenesisFields ==
    {"vault_id", "policy_sequence", "previous_policy_hash", "created_at_ms",
     "suite", "owner", "source_attestation", "item_inventory",
     "direct_grants", "owner_signature"}

PolicyGenesis ==
    Signed("jury-v1/policy-genesis/signature", "jury-v1/policy-genesis/fingerprint",
        GenesisFields \ {"suite", "item_inventory", "direct_grants", "owner_signature"},
        Fixed(<<"vault_id", "policy_sequence", "previous_policy_hash",
                "created_at_ms">>) \o
        Bytes("owner") \o OptionalBytes("source_attestation") \o Literal(0) \o Literal(0))

PolicyRevisionFields ==
    {"vault_id", "sequence", "previous_revision_hash", "timestamp_ms",
     "author_principal_id", "operations", "resulting_policy_state_hash",
     "signature"}

PolicyRevision ==
    Signed("jury-v1/policy-revision/signature", "jury-v1/policy-revision/hash",
        PolicyRevisionFields \ {"signature"},
        Fixed(<<"vault_id", "sequence", "previous_revision_hash",
                "timestamp_ms", "author_principal_id">>) \o
        ListBytes("operations") \o Fixed(<<"resulting_policy_state_hash">>))

ItemRevisionFields ==
    {"vault_id", "item_id", "item_revision", "previous_item_revision_hash",
     "key_epoch", "policy_sequence", "author_principal_id", "timestamp_ms",
     "revision_seal_id", "nonce", "ciphertext_length", "ciphertext_digest",
     "plaintext_schema", "bucket_id", "signature"}

ItemRevision ==
    Signed("jury-v1/item-revision/signature", "jury-v1/item-revision/hash",
        ItemRevisionFields \ {"signature"},
        Fixed(<<"vault_id", "item_id", "item_revision",
                "previous_item_revision_hash", "key_epoch", "policy_sequence",
                "author_principal_id", "timestamp_ms", "revision_seal_id",
                "nonce", "ciphertext_length", "ciphertext_digest",
                "plaintext_schema", "bucket_id">>))

ItemSeal == <<"vault_id", "item_id", "key_epoch", "revision", "revision_seal_id">>

ItemSealAad ==
    Plain("jury-vault-v1-item-descriptor",
        Literal(1) \o Fixed(ItemSeal)) \cup
    Plain("jury-vault-v1-item-body",
        Literal(1) \o Fixed(ItemSeal \o <<"bucket_id">>))

-----------------------------------------------------------------------------
(* The operations of a policy revision: a tag, then the operation's        *)
(* fields.  Witnessed slots are bound by the digest of their set.          *)

PrincipalOperations ==
    Variant("policy-operation", 1,
        Bytes("descriptor") \o Bytes("display_label") \o
        Fixed(<<"registration_proof_digest">>)) \cup
    Variant("policy-operation", 2,
        Fixed(<<"principal_id">>) \o Bytes("prior_label") \o
        Bytes("next_label")) \cup
    Variant("policy-operation", 3,
        Fixed(<<"principal_id", "removal_reason">>)) \cup
    Variant("policy-operation", 4,
        Fixed(<<"principal_id">>)) \cup
    Variant("policy-operation", 5,
        Fixed(<<"principal_id">>))

ItemOperations ==
    Variant("policy-operation", 6,
        Fixed(<<"item_id", "item_kind", "key_epoch", "descriptor",
                "current_item_revision_hash">>) \o
        ListFixed("direct_slots") \o Optional("witnessed_state")) \cup
    Variant("policy-operation", 7,
        Fixed(<<"item_id", "prior_descriptor_revision", "next_descriptor">>)) \cup
    Variant("policy-operation", 8,
        Fixed(<<"item_id", "final_descriptor_digest",
                "final_item_revision_hash", "deletion_policy_sequence">>)) \cup
    Variant("policy-operation", 9,
        Fixed(<<"item_id", "principal_id">>) \o Optional("prior_role") \o
        Optional("next_role")) \cup
    Variant("policy-operation", 10,
        Fixed(<<"item_id", "prior_epoch", "next_epoch">>) \o
        ListFixed("prior_reader_ids") \o ListFixed("next_reader_ids") \o
        Fixed(<<"replacement_descriptor",
                "replacement_current_item_revision_hash">>)) \cup
    Variant("policy-operation", 11,
        Fixed(<<"item_id", "next_epoch">>) \o ListFixed("direct_slots") \o
        Optional("witnessed_state"))

ReplaceOperation ==
    Variant("policy-operation", 12,
        Fixed(<<"prior_principal_id">>) \o Bytes("next_descriptor") \o
        Fixed(<<"registration_proof_digest">>))

-----------------------------------------------------------------------------
(* The policy state a revision promises as its result.                     *)

PolicyStateHash ==
    Plain("jury-v1/policy-state/hash",
        Fixed(<<"suite", "vault_id", "sequence">>) \o ListBytes("principals") \o
        ListFixed("owners") \o ListFixed("items") \o ListFixed("tombstones") \o
        ListFixed("grants") \o ListFixed("direct_slots") \o
        Optional("witnessed_slots") \o ListFixed("current_revisions"))

-----------------------------------------------------------------------------
(* The tags of the enumerated fields.                                      *)

PrincipalKindTags ==
    Enumeration("part/principal-kind",
        [Human |-> 1, Machine |-> 2, Approver |-> 3, Witness |-> 4])

ItemKindTags ==
    Enumeration("part/item-kind",
        [Canonical |-> 1, Legacy |-> 2])

ContentRoleTags ==
    Enumeration("part/content-role",
        [Descriptor |-> 1, Body |-> 2])

AccessRoleTags ==
    Enumeration("part/access-role",
        [Reader |-> 1, Writer |-> 2, Owner |-> 3])

ItemAccessModeTags ==
    Enumeration("part/item-access-mode",
        [DirectOnly |-> 1, WitnessedOnly |-> 2, Mixed |-> 3])

RemovalReasonTags ==
    Enumeration("part/removal-reason",
        [OperatorRemoval |-> 1, Replacement |-> 2,
         SuspectedCompromise |-> 3, Retirement |-> 4])

VaultStatementSet ==
    UNION {PrincipalKindTags, ItemKindTags, ContentRoleTags, AccessRoleTags,
           ItemAccessModeTags, RemovalReasonTags,
           PrincipalDescriptor, RecipientFingerprint, DescriptorMetadata,
           DirectSlotInfo, DirectSlotAad, DirectSlot, CapsuleContext, CapsuleInfo,
           CapsuleAad, Capsule, WitnessedSlot, SlotSets, SignedRollover, SourceAttestation,
           SuiteMigration, PolicyGenesis, PolicyRevision, ItemRevision, ItemSealAad, PrincipalOperations,
           ItemOperations, ReplaceOperation, PolicyStateHash}
=============================================================================
