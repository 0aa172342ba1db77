------------------------- MODULE MCSqliteMigration -------------------------
(***************************************************************************)
(* SqliteMigration for TLC.                                                *)
(***************************************************************************)
EXTENDS SqliteMigration
=============================================================================
