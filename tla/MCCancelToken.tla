--------------------------- MODULE MCCancelToken ---------------------------
(* CancelToken with the tasks of one run of the program: a video pump, an     *)
(* audio pump and the token-renewal task.                                     *)
EXTENDS CancelToken

CONSTANTS video, audio, renew

MCWaiters == {video, audio, renew}
=============================================================================
