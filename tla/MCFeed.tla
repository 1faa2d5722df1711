-------------------------------- MODULE MCFeed --------------------------------
(***************************************************************************)
(* The instance of Feed that TLC checks.                                    *)
(***************************************************************************)
EXTENDS Feed
=============================================================================
