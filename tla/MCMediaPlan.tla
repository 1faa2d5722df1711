----------------------------- MODULE MCMediaPlan -----------------------------
(* Every codec the code names, and for each track one that it does not name. *)
EXTENDS MediaPlan

MCVideoCodecs == {"h264", "hevc", "vp8", "vp9", "av1", "mpeg2video"}
MCAudioCodecs == {"aac", "opus", "pcm_mulaw", "pcm_alaw", "mp3"}
=============================================================================
