---------------------------- MODULE MCMigrations ----------------------------
(* Migrations for TLC: the databases of all three services.                *)
EXTENDS Migrations

AllServices == {"booking", "flight", "payment"}
=============================================================================
