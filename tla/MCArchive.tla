------------------------------ MODULE MCArchive ------------------------------
(* Archive for TLC: a path that is a bare file name. *)
EXTENDS Archive
=============================================================================
