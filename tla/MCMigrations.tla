---------------------------- MODULE MCMigrations ----------------------------
(* Three invocations over one database; schema.sql cut down to three statements. *)
EXTENDS Migrations

CONSTANTS i1, i2, i3

ThreeProcs == {i1, i2, i3}
=============================================================================
