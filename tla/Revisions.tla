------------------------------- MODULE Revisions -------------------------------
(***************************************************************************)
(* The chain of src/alembic/versions, revision by revision, as statements  *)
(* of module Migrations.  An object is a table <<t>>, or a column or index *)
(* <<t, name>> of one; columns made with their table are part of it.       *)
(***************************************************************************)
EXTENDS Sequences

LOCAL Plain == [adds |-> {}, drops |-> {}, needs |-> {}, rows |-> "none"]

\* op.create_table, with foreign keys to the tables refs.
create_table(t, refs) == [Plain EXCEPT !.adds = {<<t>>}, !.needs = {<<r>> : r \in refs}]

add_column(t, c) == [Plain EXCEPT !.adds = {<<t, c>>}, !.needs = {<<t>>}]

drop_column(t, c) == [Plain EXCEPT !.drops = {<<t, c>>}]

\* Changing a column may be repeated; so may the updates of rows before it,
\* which it commits.
alter_column(t, c) == [Plain EXCEPT !.needs = {<<t, c>>}]

\* op.create_index and op.create_unique_constraint; cols are those added to an
\* existing table.
create_index(t, name, cols) ==
    [Plain EXCEPT !.adds = {<<t, name>>}, !.needs = {<<t>>} \cup {<<t, c>> : c \in cols}]

-----------------------------------------------------------------------------
initial_schema ==
    <<create_table("billings", {}), create_table("billing_items", {"billings"}),
      create_table("bills", {"billings"}), create_table("bill_line_items", {"bills"})>>

add_pix_key_to_billings == <<add_column("billings", "pix_key")>>

\* The backfills are committed by the first alter_column.
add_uuid_to_billings_and_bills ==
    <<add_column("billings", "uuid"), add_column("bills", "uuid"),
      alter_column("billings", "uuid"), create_index("billings", "uq_billings_uuid", {"uuid"}),
      alter_column("bills", "uuid"), create_index("bills", "uq_bills_uuid", {"uuid"})>>

add_deleted_at_to_billings == <<add_column("billings", "deleted_at")>>

add_due_date_to_bills == <<add_column("bills", "due_date")>>

create_users == <<create_table("users", {})>>

add_paid_at_to_bills == <<add_column("bills", "paid_at")>>

add_deleted_at_and_fix_uuid_type ==
    <<add_column("bills", "deleted_at"), alter_column("billings", "uuid"),
      alter_column("bills", "uuid")>>

replace_uuid4_with_ulid ==
    <<[Plain EXCEPT !.rows = "collect", !.needs = {<<"billings", "uuid">>, <<"bills", "uuid">>}],
      [alter_column("billings", "uuid") EXCEPT !.rows = "replace"],
      alter_column("bills", "uuid")>>

add_email_to_users == <<add_column("users", "email")>>

add_ownership_to_billings ==
    <<add_column("billings", "owner_type"), add_column("billings", "owner_id"),
      alter_column("billings", "owner_type"), alter_column("billings", "owner_id"),
      create_index("billings", "ix_billings_owner", {"owner_type", "owner_id"})>>

create_organizations ==
    <<create_table("organizations", {"users"}),
      create_table("organization_members", {"organizations", "users"}),
      create_index("organization_members", "ix_org_members_user", {})>>

create_invites ==
    <<create_table("invites", {"organizations", "users"}),
      create_index("invites", "ix_invites_user_status", {})>>

create_audit_logs ==
    <<create_table("audit_logs", {}),
      create_index("audit_logs", "ix_audit_logs_event_type", {}),
      create_index("audit_logs", "ix_audit_logs_actor_id", {}),
      create_index("audit_logs", "ix_audit_logs_entity", {}),
      create_index("audit_logs", "ix_audit_logs_created_at", {})>>

create_receipts ==
    <<create_table("receipts", {"bills"}), create_index("receipts", "ix_receipts_bill_id", {})>>

add_mfa_tables ==
    <<create_table("user_totp", {"users"}),
      create_index("user_totp", "ix_user_totp_user_id", {}),
      create_table("user_recovery_codes", {"users"}),
      create_index("user_recovery_codes", "ix_user_recovery_codes_user_id", {}),
      create_table("user_passkeys", {"users"}),
      create_index("user_passkeys", "ix_user_passkeys_user_id", {}),
      add_column("organizations", "enforce_mfa")>>

\* The backfills, which need paid_at, are committed by drop_column.
add_bill_status ==
    <<add_column("bills", "status"), add_column("bills", "status_updated_at"),
      drop_column("bills", "paid_at"), create_index("bills", "ix_bills_status", {"status"})>>

create_themes ==
    <<create_table("themes", {}), create_index("themes", "ix_themes_owner", {})>>

-----------------------------------------------------------------------------
\* The revisions, each down_revision before its revision.
chain ==
    <<initial_schema, add_pix_key_to_billings, add_uuid_to_billings_and_bills,
      add_deleted_at_to_billings, add_due_date_to_bills, create_users, add_paid_at_to_bills,
      add_deleted_at_and_fix_uuid_type, replace_uuid4_with_ulid, add_email_to_users,
      add_ownership_to_billings, create_organizations, create_invites, create_audit_logs,
      create_receipts, add_mfa_tables, add_bill_status, create_themes>>

replace_uuid4 == 9
=============================================================================
