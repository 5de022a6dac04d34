------------------------------ MODULE MCStore ------------------------------
(* Small instances of Store for TLC. *)
EXTENDS Store

CONSTANTS c1, c2, k1, v1, v2
=============================================================================
