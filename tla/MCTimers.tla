------------------------------ MODULE MCTimers ------------------------------
(* Small instances of Timers for TLC; the bounds are in the cfg files. *)
EXTENDS Timers
=============================================================================
