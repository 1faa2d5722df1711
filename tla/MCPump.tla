------------------------------- MODULE MCPump -------------------------------
(* The instances of Pump that TLC checks; the configurations give the bounds. *)
EXTENDS Pump
=============================================================================
