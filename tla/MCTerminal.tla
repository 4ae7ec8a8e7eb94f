---------------------------- MODULE MCTerminal ----------------------------
(* Small instances of Terminal for TLC; the bounds are in the cfg files. *)
EXTENDS Terminal
============================================================================
