------------------------ MODULE MCIdentityMigration ------------------------
(* Instances of IdentityMigration for TLC. *)
EXTENDS IdentityMigration

NoDevice == {}
SameRules == {{}}
=============================================================================
