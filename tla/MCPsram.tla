------------------------------ MODULE MCPsram ------------------------------
(* A small instance of Psram for TLC: its constants are in Psram.cfg.       *)
EXTENDS Psram
=============================================================================
