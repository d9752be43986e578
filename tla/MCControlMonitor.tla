------------------------- MODULE MCControlMonitor -------------------------
(* An instance of ControlMonitor for TLC. *)
EXTENDS ControlMonitor
=============================================================================
