------------------------------- MODULE MCPacing -------------------------------
(***************************************************************************)
(* The instance of Pacing that TLC checks: frames of 5/4 and 5/2 units.     *)
(***************************************************************************)
EXTENDS Pacing

MCNums == {1, 2}
=============================================================================
