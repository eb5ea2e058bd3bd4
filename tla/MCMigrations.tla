----------------------------- MODULE MCMigrations -----------------------------
(* The chain of Revisions, migrated by a few processes. *)
EXTENDS Migrations

R == INSTANCE Revisions

program == R!chain
repeatable == R!replace_uuid4

=============================================================================
