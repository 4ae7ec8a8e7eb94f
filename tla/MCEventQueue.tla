--------------------------- MODULE MCEventQueue ---------------------------
(* Small instances of EventQueue for TLC: two drivers and the main task. *)
EXTENDS EventQueue

CONSTANTS usb, timers
============================================================================
