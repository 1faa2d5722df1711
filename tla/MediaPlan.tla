----------------------------- MODULE MediaPlan -----------------------------
(***************************************************************************)
(* How the program decides what becomes of an input: ffprobe's list of      *)
(* streams, the --audio-only and --video-only flags and STA_FORCE_MODE go   *)
(* in; out come, per track, the codec id the SDK is told, the muxer ffmpeg   *)
(* is run with, and the pump that reads it.  The four are looked up by codec *)
(* name in four places of the code (src/src/agora/publisher.rs, video.rs,   *)
(* audio.rs, src/src/ffmpeg/pipeline.rs and main() of src/src/main.rs); the  *)
(* properties say that they agree.                                         *)
(***************************************************************************)
EXTENDS Naturals

CONSTANTS VideoCodecs,  \* codec names ffprobe may report for a video stream
          AudioCodecs,  \* ... for an audio stream
          MaxStreams    \* bound: streams in an input

Tracks == {"video", "audio"}

\* A codec_name of "" is one that ffprobe left out.
Profiles == {"none", "LC", "HE-AAC", "HE-AACv2"}
Stream == {s \in [type : {"video"}, codec : VideoCodecs \cup {""}, profile : Profiles]
            \cup [type : {"audio"}, codec : AudioCodecs \cup {""}, profile : Profiles]
            \cup [type : {"other"}, codec : {"other", ""}, profile : Profiles] :
             s.codec # "aac" => s.profile = "none"}

Absent == [type |-> "absent", codec |-> "", profile |-> "none"]

VARIABLES streams,  \* the input's streams, in ffprobe's order
          flags,    \* of {"audio_only", "video_only"}, those given
          force,    \* STA_FORCE_MODE: "raw", "encoded", or anything else
          step,     \* main's next step
          info,     \* MediaInfo
          mode,     \* CodecMode
          told,     \* per track: the codec id its publisher was created with
          muxer,    \* per track: -f of its ffmpeg child
          pump      \* per track: the pump reading that child

input == <<streams, flags, force>>
plan  == <<told, muxer, pump>>
vars  == <<input, step, info, mode, plan>>

Init == /\ streams \in UNION {[1 .. n -> Stream] : n \in 0 .. MaxStreams}
        /\ flags \in SUBSET {"audio_only", "video_only"}
        /\ force \in {"raw", "encoded", "unset"}
        /\ step = "gate"
        /\ info = [t \in Tracks |-> Absent]
        /\ mode = "undecided"
        /\ told  = [t \in Tracks |-> "none"]
        /\ muxer = [t \in Tracks |-> "none"]
        /\ pump  = [t \in Tracks |-> "none"]

Goto(from, to) == step = from /\ step' = to

-----------------------------------------------------------------------------
(* The lookups, one per place in the code *)

VIDEO_ENCODED_OK == {"h264", "hevc", "vp8", "vp9", "av1"}
AUDIO_ENCODED_OK == {"aac", "opus", "pcm_mulaw", "pcm_alaw"}

ENCODED_OK == [video |-> VIDEO_ENCODED_OK, audio |-> AUDIO_ENCODED_OK]

Present(t) == info[t] # Absent

Verdict == IF \A t \in Tracks : Present(t) => info[t].codec \in ENCODED_OK[t]
             THEN "Encoded" ELSE "Raw"

\* A codec_type of 0 makes the shim send H264.
video_codec_type(codec) ==
  IF codec = "hevc" THEN "H265"
  ELSE IF codec \in {"vp8", "vp9", "av1"} THEN codec
  ELSE "H264"

audio_codec(s) ==
  IF s.codec = "opus" THEN "OPUS"
  ELSE IF s.codec = "pcm_mulaw" THEN "PCMU"
  ELSE IF s.codec = "pcm_alaw" THEN "PCMA"
  ELSE IF s.codec = "aac" /\ s.profile \in {"HE-AAC", "HE-AACv2"} THEN s.profile
  ELSE "AACLC"

VideoMuxer(codec) ==
  IF mode = "Raw" THEN "rawvideo"
  ELSE IF codec = "hevc" THEN "hevc"
  ELSE IF codec \in {"vp8", "vp9", "av1"} THEN "ivf"
  ELSE "h264"

\* Mutant: the muxer is named after the codec.
AudioMuxerMutant(codec) ==
  IF mode = "Raw" THEN "s16le" ELSE IF codec = "opus" THEN "ogg" ELSE codec

AudioMuxer(codec) ==
  IF mode = "Raw" THEN "s16le"
  ELSE IF codec = "opus" THEN "ogg"
  ELSE IF codec = "pcm_mulaw" THEN "mulaw"
  ELSE IF codec = "pcm_alaw" THEN "alaw"
  ELSE "adts"

VideoPump(codec) ==
  IF mode = "Raw" THEN "yuv"
  ELSE IF codec \in {"vp8", "vp9", "av1"} THEN "ivf"
  ELSE IF codec = "hevc" THEN "hevc"
  ELSE "h264"

AudioPump(codec) ==
  IF mode = "Raw" THEN "pcm"
  ELSE IF codec = "opus" THEN "opus"
  ELSE IF codec \in {"pcm_mulaw", "pcm_alaw"} THEN "g711"
  ELSE "aac"

-----------------------------------------------------------------------------
(* main(), from the flags to the pumps *)

Reject(at) == Goto(at, "rejected") /\ UNCHANGED <<input, info, mode, plan>>

Gate ==
  \/ flags = {"audio_only", "video_only"} /\ Reject("gate")
  \/ /\ flags # {"audio_only", "video_only"}
     /\ Goto("gate", "probe")
     /\ UNCHANGED <<input, info, mode, plan>>

First(t) == LET of == {i \in DOMAIN streams : streams[i].type = t} IN
            IF of = {} THEN Absent
            ELSE streams[CHOOSE i \in of : \A j \in of : i <= j]

Nameless == \E i \in DOMAIN streams : streams[i].codec = ""

\* Mutant: a later stream of a type replaces the first.
ProbeMutant ==
  /\ ~Nameless
  /\ Goto("probe", "check")
  /\ info' = [t \in Tracks |->
                LET of == {i \in DOMAIN streams : streams[i].type = t} IN
                IF of = {} THEN Absent
                ELSE streams[CHOOSE i \in of : \A j \in of : j <= i]]
  /\ UNCHANGED <<input, mode, plan>>

\* The first stream of each type is kept.
Probe ==
  /\ ~Nameless
  /\ Goto("probe", "check")
  /\ info' = [t \in Tracks |-> First(t)]
  /\ UNCHANGED <<input, mode, plan>>

ProbeFails == Nameless /\ Reject("probe")

Unusable == \/ "audio_only" \in flags /\ ~Present("audio")
            \/ "audio_only" \notin flags /\ ~Present("video")

\* Mutant: --audio-only is not checked against the input.
CheckMutant ==
  /\ ~("audio_only" \notin flags /\ ~Present("video"))
  /\ Goto("check", "decide")
  /\ UNCHANGED <<input, info, mode, plan>>

\* "--video-only but no video" is a case of "no video and not --audio-only".
Check ==
  /\ ~Unusable
  /\ Goto("check", "decide")
  /\ UNCHANGED <<input, info, mode, plan>>

CheckFails == Unusable /\ Reject("check")

\* decide(): on the streams of the input, those not published included.
Decide ==
  /\ Goto("decide", "create")
  /\ mode' = IF force = "raw" THEN "Raw"
             ELSE IF force = "encoded" THEN "Encoded" ELSE Verdict
  /\ UNCHANGED <<input, info, plan>>

Wanted == {t \in Tracks : /\ Present(t)
                          /\ t = "audio" => "video_only" \notin flags
                          /\ t = "video" => "audio_only" \notin flags}

\* A raw publisher is told no codec.
Told(t) == IF t \notin Wanted THEN "none"
           ELSE IF mode = "Raw" THEN "raw"
           ELSE IF t = "video" THEN video_codec_type(info[t].codec)
           ELSE audio_codec(info[t])

CreatePublishers ==
  /\ Goto("create", "spawn")
  /\ told' = [t \in Tracks |-> Told(t)]
  /\ UNCHANGED <<input, info, mode, muxer, pump>>

Muxer(t) == IF t = "video" THEN VideoMuxer(info[t].codec) ELSE AudioMuxer(info[t].codec)

\* Mutant: ffmpeg is run for every stream of the input.
SpawnMutant ==
  /\ Goto("spawn", "pumps")
  /\ muxer' = [t \in Tracks |-> IF Present(t) THEN Muxer(t) ELSE "none"]
  /\ UNCHANGED <<input, info, mode, told, pump>>

\* pipeline_info is info without the tracks that are not published.
Spawn ==
  /\ Goto("spawn", "pumps")
  /\ muxer' = [t \in Tracks |-> IF t \in Wanted THEN Muxer(t) ELSE "none"]
  /\ UNCHANGED <<input, info, mode, told, pump>>

\* A pump needs a publisher and a child.
Pump(t) == IF told[t] = "none" \/ muxer[t] = "none" THEN "none"
           ELSE IF t = "video" THEN VideoPump(info[t].codec)
           ELSE AudioPump(info[t].codec)

StartPumps ==
  /\ Goto("pumps", "running")
  /\ pump' = [t \in Tracks |-> Pump(t)]
  /\ UNCHANGED <<input, info, mode, told, muxer>>

Decided == step \in {"running", "rejected"} /\ UNCHANGED vars

Next == \/ Gate \/ Probe \/ ProbeFails \/ Check \/ CheckFails \/ Decide
        \/ CreatePublishers \/ Spawn \/ StartPumps \/ Decided

Spec == Init /\ [][Next]_vars

-----------------------------------------------------------------------------
(* Properties *)

Ids == {"none", "raw", "H264", "H265", "vp8", "vp9", "av1",
        "OPUS", "PCMU", "PCMA", "HE-AAC", "HE-AACv2", "AACLC"}
Muxers == {"none", "rawvideo", "h264", "hevc", "ivf",
           "s16le", "adts", "ogg", "mulaw", "alaw"}
PumpNames == {"none", "yuv", "h264", "hevc", "ivf", "pcm", "aac", "opus", "g711"}

TypeOK == /\ step \in {"gate", "probe", "check", "decide", "create", "spawn",
                       "pumps", "running", "rejected"}
          /\ info \in [Tracks -> Stream \cup {Absent}]
          /\ mode \in {"undecided", "Encoded", "Raw"}
          /\ told \in [Tracks -> Ids]
          /\ muxer \in [Tracks -> Muxers]
          /\ pump \in [Tracks -> PumpNames]

\* What an ffmpeg muxer writes with -c copy: the codecs it can carry.  What a
\* pump reads: the muxers whose output its framer understands.  What a codec id
\* means to the SDK.
Carries == [h264 |-> {"h264"}, hevc |-> {"hevc"}, ivf |-> {"vp8", "vp9", "av1"},
            adts |-> {"aac"}, ogg |-> {"opus"}, mulaw |-> {"pcm_mulaw"},
            alaw |-> {"pcm_alaw"}]
Reads == [h264 |-> {"h264"}, hevc |-> {"hevc"}, ivf |-> {"ivf"}, aac |-> {"adts"},
          opus |-> {"ogg"}, g711 |-> {"mulaw", "alaw"}, yuv |-> {"rawvideo"},
          pcm |-> {"s16le"}]
Means == [H264 |-> "h264", H265 |-> "hevc", vp8 |-> "vp8", vp9 |-> "vp9",
          av1 |-> "av1", OPUS |-> "opus", PCMU |-> "pcm_mulaw", PCMA |-> "pcm_alaw",
          AACLC |-> "aac"]

\* ffmpeg copies the stream that `-map 0:v:0` or `0:a:0` selects, the first of
\* its type, whatever the probe kept.  STA_FORCE_MODE=encoded may send it
\* through a muxer that cannot carry it; nothing else may.
CopiesWhatItNames(t) ==
  muxer[t] \in DOMAIN Carries =>
    /\ First(t).codec \in Carries[muxer[t]]
    /\ IF told[t] \in {"HE-AAC", "HE-AACv2"}
         THEN First(t).codec = "aac" /\ First(t).profile = told[t]
         ELSE Means[told[t]] = First(t).codec

\* video.rs:229-234 (the SDK was told that VP8 was H.264): for each track the
\* SDK's codec id, ffmpeg's muxer and the pump's framer name the codec of the
\* stream that is copied.
FormatsAgree ==
  step = "running" =>
    \A t \in Tracks : pump[t] # "none" =>
      /\ muxer[t] \in Reads[pump[t]]
      /\ (told[t] = "raw") <=> (mode = "Raw")
      /\ CopiesWhatItNames(t) \/ force = "encoded"

\* A child that nobody reads fills its pipe and stops; a publisher without one
\* is silent: at the end every track has all three or none.
EveryChildIsRead ==
  step = "running" =>
    \A t \in Tracks : (muxer[t] = "none") = (pump[t] = "none")
                      /\ (told[t] = "none") = (pump[t] = "none")

\* What Session.tla assumes of the probe: something is published, and what the
\* flags ask for.
SomethingIsPublished ==
  step = "running" =>
    /\ "audio_only" \in flags => pump["audio"] # "none" /\ pump["video"] = "none"
    /\ "audio_only" \notin flags => pump["video"] # "none"
    /\ "video_only" \in flags => pump["audio"] = "none"
=============================================================================
