------------------------------- MODULE Schema -------------------------------
(***************************************************************************)
(* The node's database schema and the migrations that bring it about       *)
(* (tinycloud-core/src/migrations, models, relationships).                 *)
(*                                                                         *)
(* A schema is a function from the tables and indexes there are to their   *)
(* columns.  A migration is the sequence of its statements.  The columns   *)
(* an entity reads and the columns a migration creates are both written    *)
(* out, except where the migration creates the table from the entity.      *)
(***************************************************************************)
EXTENDS Naturals, Sequences, FiniteSets, TLC

-----------------------------------------------------------------------------
(* The entities.                                                           *)

SpaceModel == {"id"}
ActorModel == {"id"}
EpochModel == {"seq", "id", "space"}
DelegationModel ==
    {"id", "delegator", "delegatee", "expiry", "issued_at", "not_before", "facts", "serialization"}
InvocationModel == {"id", "invoker", "issued_at", "facts", "serialization"}
RevocationModel == {"id", "revoker", "revoked", "serialization", "revoked_at"}
EventOrderModel == {"seq", "epoch", "epoch_seq", "event", "space"}
ParentDelegationsModel == {"parent", "child"}
AbilitiesModel == {"resource", "ability", "delegation", "caveats"}
KvWriteModel == {"space", "key", "invocation", "seq", "epoch", "epoch_seq", "value", "metadata"}
KvDeleteModel == {"invocation_id", "space", "key", "deleted_invocation_id"}
EpochOrderModel == {"parent", "child", "space"}
InvokedAbilitiesModel == {"invocation", "resource", "ability"}
HookSubscriptionModel ==
    {"id", "subscriber_did", "space_id", "target_service", "path_prefix", "abilities_json",
     "callback_url", "encrypted_secret", "secret_key_id", "active", "created_at"}
HookDeliveryModel ==
    {"id", "subscription_id", "event_id", "payload_json", "status", "attempts",
     "next_attempt_at", "last_error", "created_at", "delivered_at"}
SignedKvTicketModel ==
    {"id", "issuer_did", "subject_did", "space_id", "path", "service", "ability", "created_at",
     "expires_at", "invocation_expires_at", "parent_expires_at", "content_hash", "etag",
     "parent_cids_json"}
DatabaseArtifactModel ==
    {"service", "space", "name", "revision", "content_hash", "payload", "size_bytes", "backend",
     "storage_mode", "created_at", "updated_at"}
EncryptionNetworkModel ==
    {"network_id", "owner_did", "name", "alg", "key_version", "public_key", "state", "threshold_n",
     "threshold_t", "key_backend", "sealed_private_key", "created_at", "updated_at"}
EncryptionMemberModel == {"network_id", "node_id", "role", "share_index", "joined_at"}
EncryptionCeremonyModel ==
    {"ceremony_id", "network_id", "kind", "state", "transcript_hash", "started_at",
     "completed_at", "failure"}
EncryptionNonceModel == {"requester_did", "nonce", "expires_at"}
EncryptionAuditModel ==
    {"request_hash", "requester", "network_id", "node_id", "outcome", "decided_at"}
PolicyDelegationModel ==
    {"delegation_cid", "role", "delegation_mode", "artifact_json", "not_before", "expires_at",
     "status_checked_at", "status_fresh_until", "status_sequence", "revoked_at"}
PolicyChallengeModel ==
    {"challenge_id", "challenge_json", "nonce_hash_hex", "issued_at", "expires_at", "consumed_at"}
PolicyIssuanceAuditModel == {"issuance_id", "session_delegation_cid", "audit_json"}
PolicyEdgeModel == {"child_cid", "position", "parent_cid", "edge_kind"}
InvitationJtiModel ==
    {"jti", "authorization_digest", "binding_json", "issued_at", "expires_at", "consumed_at"}
AnonymousChallengeModel ==
    {"challenge_id", "request_digest", "binding_json", "origin_digest", "ip_digest",
     "share_digest", "nonce_hash", "issued_at", "expires_at", "consumed_at"}
SessionHandleModel ==
    {"session_handle", "authority_session_cid", "binding_json", "holder_digest", "issued_at",
     "expires_at", "revoked_at"}
HolderReadJtiModel ==
    {"jti", "session_handle", "invocation_digest", "binding_json", "issued_at", "expires_at",
     "consumed_at"}
ShareEmailAuditModel ==
    {"audit_id", "event_kind", "outcome", "share_digest", "origin_digest", "holder_digest",
     "request_digest", "created_at"}
ShareEmailQuotaModel == {"bucket_kind", "bucket_start", "scope_digest", "uses", "expires_at"}
PresentationJtiModel ==
    {"presentation_jti", "nonce", "policy_cid", "session_handle", "issued_at", "expires_at"}

-----------------------------------------------------------------------------
(* Statements.                                                             *)

\* CREATE TABLE IF NOT EXISTS; refs are the tables its foreign keys name.
Ensure(table, cols, refs) ==
    [op |-> "create", table |-> table, cols |-> cols, refs |-> refs, again |-> TRUE]

\* CREATE TABLE.
Create(table, cols, refs) ==
    [op |-> "create", table |-> table, cols |-> cols, refs |-> refs, again |-> FALSE]

UniqueIndex(name, table, cols) == [op |-> "index", name |-> name, table |-> table, cols |-> cols]
AddColumn(table, col) == [op |-> "add", table |-> table, col |-> col]
RenameColumn(table, old, new) == [op |-> "rename", table |-> table, old |-> old, new |-> new]

-----------------------------------------------------------------------------
(* The migrations.                                                         *)

InitTables ==
    <<Create("space", SpaceModel, {}),
      Create("actor", ActorModel, {}),
      Create("epoch", EpochModel, {"space"}),
      Create("delegation", DelegationModel, {"actor"}),
      Create("invocation", InvocationModel, {"actor"}),
      Create("revocation", {"id", "revoker", "revoked", "serialization"}, {"actor", "delegation"}),
      Create("event_order", EventOrderModel, {"epoch", "space"}),
      Create("parent_delegations", ParentDelegationsModel, {"delegation"}),
      Create("abilities", AbilitiesModel, {"delegation"}),
      Create("kv_write", KvWriteModel, {"invocation", "event_order"}),
      Create("kv_delete", KvDeleteModel, {"invocation", "kv_write"}),
      Create("epoch_order", EpochOrderModel, {"epoch", "space"}),
      Create("invoked_abilities", InvokedAbilitiesModel, {"invocation"})>>

\* No entity reads this table.
SqlDatabase ==
    <<Ensure("sql_database", {"space", "name", "created_at", "size_bytes", "storage_mode"}, {})>>

HookTables ==
    <<Ensure("hook_subscription",
             {"id", "subscriber_did", "space_id", "target_service", "path_prefix", "abilities_json",
              "callback_url", "encrypted_secret", "secret_key_id", "active", "created_at"}, {}),
      Ensure("hook_delivery",
             {"id", "subscription_id", "event_id", "payload_json", "status", "attempts",
              "next_attempt_at", "last_error", "created_at", "delivered_at"}, {"hook_subscription"})>>

SignedKvTickets ==
    <<Ensure("signed_kv_ticket",
             {"id", "issuer_did", "subject_did", "space_id", "path", "service", "ability",
              "created_at", "expires_at", "invocation_expires_at", "parent_expires_at",
              "content_hash", "etag", "parent_cids_json"}, {})>>

DatabaseArtifacts ==
    <<Ensure("database_artifact",
             {"service", "space", "name", "revision", "content_hash", "payload", "size_bytes",
              "backend", "storage_mode", "created_at", "updated_at"}, {})>>

NetworkTables ==
    <<Ensure("encryption_network",
             {"network_id", "principal", "name", "alg", "key_version", "public_key", "state",
              "threshold_n", "threshold_t", "key_backend", "sealed_private_key", "created_at",
              "updated_at"}, {}),
      Ensure("encryption_network_member",
             {"network_id", "node_id", "role", "share_index", "joined_at"}, {})>>

NetworkLogTables ==
    <<Ensure("encryption_ceremony",
             {"ceremony_id", "network_id", "kind", "state", "transcript_hash", "started_at",
              "completed_at", "failure"}, {}),
      Ensure("encryption_nonce", {"requester_did", "nonce", "expires_at"}, {}),
      Ensure("encryption_audit",
             {"request_hash", "requester", "network_id", "node_id", "outcome", "decided_at"}, {})>>

EncryptionNetworks == NetworkTables \o NetworkLogTables

RenameOwnerDid == <<RenameColumn("encryption_network", "principal", "owner_did")>>

RevocationTimestamp == <<AddColumn("revocation", "revoked_at")>>

PolicyStateTables ==
    <<Ensure("policy_delegation",
             {"delegation_cid", "role", "delegation_mode", "artifact_json", "not_before",
              "expires_at", "status_checked_at", "status_sequence", "revoked_at"}, {}),
      Ensure("policy_challenge",
             {"challenge_id", "challenge_json", "nonce_hash_hex", "issued_at", "expires_at",
              "consumed_at"}, {})>>

PolicyTraceTables ==
    <<Ensure("policy_issuance_audit", {"issuance_id", "session_delegation_cid", "audit_json"},
             {"policy_delegation"}),
      Ensure("policy_edge", {"child_cid", "position", "parent_cid", "edge_kind"},
             {"policy_delegation"})>>

PolicyTables == PolicyStateTables \o PolicyTraceTables

ShareAdmissionTables ==
    <<Ensure("share_invitation_authorization_jti",
             {"jti", "authorization_digest", "binding_json", "issued_at", "expires_at",
              "consumed_at"}, {}),
      Ensure("share_anonymous_challenge",
             {"challenge_id", "request_digest", "binding_json", "origin_digest", "ip_digest",
              "share_digest", "nonce_hash", "issued_at", "expires_at", "consumed_at"}, {})>>

ShareSessionTables ==
    <<Ensure("share_session_handle",
             {"session_handle", "authority_session_cid", "binding_json", "holder_digest",
              "issued_at", "expires_at", "revoked_at"}, {}),
      Ensure("share_holder_read_jti",
             {"jti", "session_handle", "invocation_digest", "binding_json", "issued_at",
              "expires_at", "consumed_at"}, {})>>

ShareLogTables ==
    <<Ensure("share_email_audit",
             {"audit_id", "event_kind", "outcome", "share_digest", "origin_digest",
              "holder_digest", "request_digest", "created_at"}, {}),
      Ensure("share_email_quota",
             {"bucket_kind", "bucket_start", "scope_digest", "uses", "expires_at"}, {})>>

ShareEmailProtocol == ShareAdmissionTables \o ShareSessionTables \o ShareLogTables

PresentationJti ==
    <<Ensure("share_policy_presentation_jti",
             {"presentation_jti", "nonce", "policy_cid", "session_handle", "issued_at",
              "expires_at"}, {}),
      UniqueIndex("idx_share_policy_presentation_jti_nonce", "share_policy_presentation_jti",
                  {"nonce"})>>

StatusFreshness == <<AddColumn("policy_delegation", "status_fresh_until")>>

\* Migrator::migrations.
Migrations ==
    <<InitTables, SqlDatabase, HookTables, SignedKvTickets, DatabaseArtifacts, EncryptionNetworks,
      RenameOwnerDid, RevocationTimestamp, PolicyTables, ShareEmailProtocol, PresentationJti,
      StatusFreshness>>

Versions == DOMAIN Migrations

\* What the entities read.
Entities ==
    [space |-> SpaceModel, actor |-> ActorModel, epoch |-> EpochModel,
     delegation |-> DelegationModel, invocation |-> InvocationModel,
     revocation |-> RevocationModel, event_order |-> EventOrderModel,
     parent_delegations |-> ParentDelegationsModel, abilities |-> AbilitiesModel,
     kv_write |-> KvWriteModel, kv_delete |-> KvDeleteModel, epoch_order |-> EpochOrderModel,
     invoked_abilities |-> InvokedAbilitiesModel,
     hook_subscription |-> HookSubscriptionModel, hook_delivery |-> HookDeliveryModel,
     signed_kv_ticket |-> SignedKvTicketModel, database_artifact |-> DatabaseArtifactModel,
     encryption_network |-> EncryptionNetworkModel,
     encryption_network_member |-> EncryptionMemberModel,
     encryption_ceremony |-> EncryptionCeremonyModel, encryption_nonce |-> EncryptionNonceModel,
     encryption_audit |-> EncryptionAuditModel,
     policy_delegation |-> PolicyDelegationModel, policy_challenge |-> PolicyChallengeModel,
     policy_issuance_audit |-> PolicyIssuanceAuditModel, policy_edge |-> PolicyEdgeModel,
     share_invitation_authorization_jti |-> InvitationJtiModel,
     share_anonymous_challenge |-> AnonymousChallengeModel,
     share_session_handle |-> SessionHandleModel, share_holder_read_jti |-> HolderReadJtiModel,
     share_email_audit |-> ShareEmailAuditModel, share_email_quota |-> ShareEmailQuotaModel,
     share_policy_presentation_jti |-> PresentationJtiModel]

-----------------------------------------------------------------------------
(* What a statement does.                                                  *)

NoTables == << >>

\* Postgres looks for the tables a foreign key names when the table is created,
\* SQLite when a row is inserted.
Fails(engine, stmt, s) ==
    CASE stmt.op = "create" ->
            \/ stmt.table \in DOMAIN s /\ ~stmt.again
            \/ engine = "postgres" /\ ~(stmt.refs \subseteq DOMAIN s)
      [] stmt.op = "index" -> stmt.name \in DOMAIN s \/ stmt.table \notin DOMAIN s
      [] stmt.op = "add" -> stmt.table \notin DOMAIN s \/ stmt.col \in s[stmt.table]
      [] stmt.op = "rename" -> stmt.table \notin DOMAIN s \/ stmt.old \notin s[stmt.table]

Effect(stmt, s) ==
    CASE stmt.op = "create" -> s @@ (stmt.table :> stmt.cols)
      [] stmt.op = "index" -> s @@ (stmt.name :> stmt.cols)
      [] stmt.op = "add" -> [s EXCEPT ![stmt.table] = @ \union {stmt.col}]
      [] stmt.op = "rename" -> [s EXCEPT ![stmt.table] = (@ \ {stmt.old}) \union {stmt.new}]

\* The statements of the first n migrations, and the schema they make of no
\* schema: what a release with n migrations left behind.
Statements(n) ==
    LET join[i \in 0..n] == IF i = 0 THEN << >> ELSE join[i - 1] \o Migrations[i]
    IN  join[n]

SchemaAfter(stmts) ==
    LET made[i \in 0..Len(stmts)] == IF i = 0 THEN NoTables ELSE Effect(stmts[i], made[i - 1])
    IN  made[Len(stmts)]

ReleaseTable == [n \in 0..Len(Migrations) |-> SchemaAfter(Statements(n))]

LeftBy(n) == ReleaseTable[n]

\* Every table an entity reads is there with the columns it reads.
Complete(s) ==
    /\ DOMAIN Entities \subseteq DOMAIN s
    /\ \A t \in DOMAIN Entities : Entities[t] = s[t]
=============================================================================
