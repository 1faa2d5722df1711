------------------------------ MODULE MCSession ------------------------------
(* Session with every combination of tracks, codec mode and renewal command,    *)
(* and SDK callbacks in any order while fewer than two events were sent.        *)
EXTENDS Session
=============================================================================
