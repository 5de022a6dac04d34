----------------------------- MODULE MCSnapshot -----------------------------
(* Small instances of Snapshot for TLC. *)
EXTENDS Snapshot

ClockSteps == {-1, 1}
=============================================================================
