-------------------------- MODULE RecordStatements --------------------------
(***************************************************************************)
(* The statements about what leaves a vault or is kept beside it: identity *)
(* files, backups, transfers, rollovers, registrations, and the local      *)
(* audit, checkpoint and receipt files.                                    *)
(***************************************************************************)
EXTENDS CanonicalEncoding

-----------------------------------------------------------------------------
(* Identity files: the header's digest is the associated data of both its  *)
(* sealed parts, which a role byte tells apart.                            *)

IdentityHeaderFields ==
    {"identity_format", "principal_id", "principal_kind",
     "recipient_public_key", "verification_public_key",
     "descriptor_fingerprint", "created_at_ms", "kdf_profile",
     "argon2_version", "memory_kib", "passes", "lanes", "salt",
     "protection_mode", "provider_kind", "provider_metadata",
     "root_wrap_algorithm", "root_wrap_nonce", "payload_algorithm",
     "payload_nonce"}

IdentityHeader ==
    Hashed("jury-v1/identity-header/hash", IdentityHeaderFields,
        Fixed(<<"identity_format", "principal_id", "principal_kind",
                "recipient_public_key", "verification_public_key",
                "descriptor_fingerprint", "created_at_ms", "kdf_profile",
                "argon2_version", "memory_kib", "passes", "lanes", "salt",
                "protection_mode">>) \o
        Bytes("provider_kind") \o Bytes("provider_metadata") \o
        Fixed(<<"root_wrap_algorithm", "root_wrap_nonce", "payload_algorithm",
                "payload_nonce">>))

IdentityKeys ==
    Plain("jury-v1/kdf/identity-root-wrap",
        Fixed(<<"identity_format", "principal_id", "protection_mode">>)) \cup
    Plain("jury-v1/kdf/identity-payload", Fixed(<<"identity_format", "principal_id">>))

IdentityAads ==
    Plain("jury-v1/identity-root-wrap/aad",
        Fixed(<<"identity_format", "header_digest">>) \o Literal(1)) \cup
    Plain("jury-v1/identity-payload/aad",
        Fixed(<<"identity_format", "header_digest">>) \o Literal(2))

-----------------------------------------------------------------------------
(* Backups and transfers.  A transfer's two embedded files are bound by    *)
(* their digests.                                                          *)

BackupHeaderFields ==
    {"backup_format", "backup_id", "created_at_ms", "vault_id",
     "genesis_fingerprint", "source_public_revision_hash",
     "owner_principal_id", "owner_descriptor_fingerprint", "kdf_profile",
     "argon2_version", "memory_kib", "passes", "lanes", "salt",
     "storage_algorithm", "nonce", "target_bucket_id",
     "payload_ciphertext_length", "payload_digest"}

BackupHeader ==
    Hashed("jury-v1/backup-header/hash", BackupHeaderFields,
        Fixed(<<"backup_format", "backup_id", "created_at_ms", "vault_id",
                "genesis_fingerprint", "source_public_revision_hash",
                "owner_principal_id", "owner_descriptor_fingerprint",
                "kdf_profile", "argon2_version", "memory_kib", "passes",
                "lanes", "salt", "storage_algorithm", "nonce",
                "target_bucket_id", "payload_ciphertext_length",
                "payload_digest">>))

BackupKeys ==
    Plain("jury-v1/kdf/backup",
        Fixed(<<"backup_format", "vault_id", "backup_id", "target_bucket_id">>)) \cup
    Plain("jury-v1/backup/aad",
        Fixed(<<"backup_format", "header_digest", "target_bucket_id">>))

TransferFields ==
    {"magic", "version", "transfer_id", "created_at_ms", "source_vault_id",
     "source_genesis_fingerprint", "source_public_revision_hash",
     "vault_digest", "catalog_digest", "exporting_principal_id", "vault_json",
     "public_catalog_json", "exporter_signature"}

TransferEnvelope ==
    Of("jury-transfer-v1/envelope/signature",
        TransferFields \ {"magic", "vault_json", "public_catalog_json", "exporter_signature"},
        Fixed(<<"version", "transfer_id", "created_at_ms", "source_vault_id",
                "source_genesis_fingerprint", "source_public_revision_hash",
                "vault_digest", "catalog_digest", "exporting_principal_id">>))

-----------------------------------------------------------------------------
(* Rollover manifests.  Version 2 names the suite of the source and the    *)
(* revisions of its witness policies: the version says which are there.    *)

BootstrapPrincipal ==
    Plain("part/bootstrap-principal",
        Fixed(<<"principal_id", "unsigned_descriptor_digest">>) \o
        Bytes("display_label") \o Fixed(<<"owner">>))

BootstrapItem ==
    Plain("part/bootstrap-grant", Fixed(<<"principal_id", "role", "direct">>)) \cup
    Plain("part/bootstrap-item",
        Fixed(<<"source_item_id", "destination_item_id", "item_kind">>) \o
        Bytes("descriptor") \o
        Fixed(<<"initial_item_revision_hash", "direct_slot_set_digest">>) \o
        ListBytes("grants") \o Optional("witnessed"))

BootstrapWitnessPolicy ==
    Plain("part/bootstrap-policy/1",
        Fixed(<<"source_policy_id", "destination_policy_id", "intent_digest">>)) \cup
    Plain("part/bootstrap-policy/2",
        Fixed(<<"source_policy_id", "source_policy_revision",
                "destination_policy_id", "intent_digest">>))

ManifestTail ==
    Fixed(<<"destination_suite", "destination_vault_id", "created_at_ms",
            "acting_owner_principal_id">>) \o
    ListBytes("principals") \o ListBytes("items") \o ListBytes("witness_policies")

BootstrapManifest ==
    Variant("jury-v1/rollover/bootstrap", 1, ManifestTail) \cup
    Variant("jury-v1/rollover/bootstrap", 2, Fixed(<<"source_suite">>) \o ManifestTail)

WitnessIntent ==
    Plain("jury-v1/rollover/witness-intent", Bytes("policy") \o ListBytes("labels"))

-----------------------------------------------------------------------------
(* Registration.  The role a candidate is to have is a JSON text behind    *)
(* its length; a proof binds its challenge by digest.                      *)

ChallengeFields ==
    {"version", "vault_id", "genesis_fingerprint", "owner_principal_id",
     "candidate_descriptor", "role_profile", "challenge_id", "issued_at_ms",
     "expires_at_ms", "candidate_encapsulation", "candidate_ciphertext",
     "owner_encapsulation", "owner_ciphertext", "owner_signature"}

ChallengeLayout ==
    Fixed(<<"version", "vault_id", "genesis_fingerprint", "owner_principal_id",
            "candidate_descriptor">>) \o
    Bytes("role_profile") \o
    Fixed(<<"challenge_id", "issued_at_ms", "expires_at_ms",
            "candidate_encapsulation", "candidate_ciphertext",
            "owner_encapsulation", "owner_ciphertext">>)

RegistrationChallenge ==
    Of("jury-v1/registration-challenge/signature", ChallengeFields \ {"owner_signature"},
        ChallengeLayout) \cup
    Of("jury-v1/registration-challenge/digest", ChallengeFields,
        ChallengeLayout \o Fixed(<<"owner_signature">>))

ProofFields ==
    {"version", "challenge", "challenge_digest", "candidate_principal_id",
     "role_descriptor", "response_mac", "created_at_ms", "candidate_signature"}

ProofLayout ==
    Fixed(<<"version", "challenge_digest", "candidate_principal_id">>) \o
    Bytes("role_descriptor") \o Fixed(<<"response_mac", "created_at_ms">>)

RegistrationProof ==
    Of("jury-v1/registration-proof/signature",
        ProofFields \ {"challenge", "candidate_signature"}, ProofLayout) \cup
    Of("jury-v1/registration-proof/digest", ProofFields \ {"challenge"},
        ProofLayout \o Fixed(<<"candidate_signature">>))

RegistrationCapsule ==
    Plain("jury-v1/registration-challenge/capsule-info",
        Fixed(<<"vault_id", "genesis_fingerprint", "owner_principal_id",
                "candidate_principal_id">>) \o
        Bytes("role_profile") \o Fixed(<<"challenge_id", "recipient">>)) \cup
    Plain("jury-v1/registration-challenge/capsule-aad",
        Fixed(<<"candidate_descriptor", "issued_at_ms", "expires_at_ms", "recipient">>))

ResponseMac == Plain("jury-v1/registration-proof/response-mac", Fixed(<<"challenge_digest">>))

-----------------------------------------------------------------------------
(* Local state.  The entries of a receipt file are sorted before they are  *)
(* encoded, so a file means the set of its entries.                        *)

LocalKeyDomains ==
    {"jury-v1/kdf/audit-mac", "jury-v1/kdf/checkpoint-mac", "jury-v1/kdf/receipt-mac"}

LocalKeyInfo ==
    UNION {Plain(domain, Fixed(<<"vault_id", "genesis_fingerprint", "principal_id">>)) :
               domain \in LocalKeyDomains}

WitnessLinkFields ==
    {"request_digest", "decision_digest", "receipt_digest",
     "policy_revision_hash", "revision_seal_id"}

WitnessLink ==
    Of("jury-v1/audit/witness-link", WitnessLinkFields,
        Fixed(<<"request_digest">>) \o Optional("decision_digest") \o
        Optional("receipt_digest") \o
        Fixed(<<"policy_revision_hash", "revision_seal_id">>))

AuditEventMac ==
    Plain("jury-v1/audit/event-mac",
        Fixed(<<"version", "principal_id", "vault_id", "genesis_fingerprint",
                "policy_sequence", "operation_id", "action">>) \o
        Optional("item_id") \o OptionalBytes("permitted_item_name") \o
        Fixed(<<"outcome", "failure_stage", "previous_mac">>))

CheckpointGenesis ==
    Plain("jury-v1/checkpoint/genesis-digest",
        Fixed(<<"version", "principal_id", "vault_id", "genesis_fingerprint",
                "accepted_public_revision_hash", "updated_at_ms">>))

CheckpointMac ==
    Plain("jury-v1/checkpoint/file-mac",
        Fixed(<<"version", "principal_id", "vault_id", "genesis_fingerprint",
                "accepted_public_revision_hash", "latest_audit_mac",
                "audit_genesis_digest", "updated_at_ms">>))

BackupCoverage ==
    Plain("jury-v1/receipt/backup-coverage",
        Fixed(<<"payload_digest", "owner_descriptor_fingerprint", "identity_role_mask",
                "checkpoints_current", "external_witness_recovery_required">>) \o
        ListFixed("direct_item_ids") \o ListFixed("witnessed_item_ids") \o
        ListFixed("unavailable_witnessed_item_ids"))

ReceiptFileMac ==
    Plain("jury-v1/receipt/file-mac",
        Fixed(<<"version", "principal_id", "vault_id", "genesis_fingerprint">>) \o
        ListFixed("entries"))

-----------------------------------------------------------------------------
(* The tags of the enumerated fields.                                      *)

KdfProfileTags ==
    Enumeration("part/kdf-profile",
        [PortableV1 |-> 1, HardenedV1 |-> 2])

ProtectionModeTags ==
    Enumeration("part/protection-mode",
        [Portable |-> 1, DeviceBound |-> 2])

RecoveryRoleTags ==
    Enumeration("part/recovery-role",
        [VaultPrincipal |-> 1, Approver |-> 2, WitnessClient |-> 3])

AuditActionTags ==
    Enumeration("part/audit-action",
        [VaultCreateOrImport |-> 1, IdentityAction |-> 2,
         PolicyMutation |-> 3, ItemMutation |-> 4, ItemRead |-> 5,
         Transfer |-> 6, Backup |-> 7, Restore |-> 8,
         ExecuteOrInject |-> 9, WitnessRequest |-> 10, Verification |-> 11,
         PrivacyCover |-> 12])

AuditOutcomeTags ==
    UNION {Variant("part/audit-outcome", outcome, Literal(0)) : outcome \in 1..3} \cup
    Variant("part/audit-outcome", 4,
        Tagged([PublicSyntax |-> 1, Authorization |-> 2, PrivateAuthentication |-> 3,
                Mutation |-> 4, DurableCommit |-> 5, Execution |-> 6]))

RecordStatementSet ==
    UNION {KdfProfileTags, ProtectionModeTags, RecoveryRoleTags,
           AuditActionTags, AuditOutcomeTags,
           IdentityHeader, IdentityKeys, IdentityAads, BackupHeader, BackupKeys,
           TransferEnvelope, BootstrapPrincipal, BootstrapItem, BootstrapWitnessPolicy,
           BootstrapManifest, WitnessIntent, RegistrationChallenge, RegistrationProof,
           RegistrationCapsule, ResponseMac, LocalKeyInfo, WitnessLink, AuditEventMac,
           CheckpointGenesis, CheckpointMac, BackupCoverage, ReceiptFileMac}
=============================================================================
