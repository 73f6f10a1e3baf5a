---- MODULE MCMigration ----
(* Instances of SchemaMigration for TLC; its cfgs give all the values. *)
EXTENDS SchemaMigration
====
