-------------------------- MODULE MediaPlanProofs --------------------------
(***************************************************************************)
(* For every set of codec names and every number of streams: what the SDK   *)
(* is told, the muxer ffmpeg is run with and the pump that reads it agree.  *)
(***************************************************************************)
EXTENDS MediaPlan, NaturalsInduction, WellFoundedInduction, TLAPS

Probed  == {"check", "decide", "create", "spawn", "pumps", "running"}
Settled == {"create", "spawn", "pumps", "running"}
Created == {"spawn", "pumps", "running"}
Spawned == {"pumps", "running"}

\* Each choice is made once, from what was chosen before it, and stands.
ProbeInv  == step \in Probed => info = [t \in Tracks |-> First(t)]
ModeInv   == step \in Settled =>
               /\ mode \in {"Encoded", "Raw"}
               /\ mode = "Encoded" => force = "encoded" \/ Verdict = "Encoded"
UsableInv == step \in Settled \cup {"decide"} => ~Unusable
FlagsInv  == flags \subseteq {"audio_only", "video_only"}
GateInv   == step \in {"probe"} \cup Probed => flags # {"audio_only", "video_only"}
ToldInv   == step \in Created => told = [t \in Tracks |-> Told(t)]
MuxerInv  == step \in Spawned =>
               muxer = [t \in Tracks |-> IF t \in Wanted THEN Muxer(t) ELSE "none"]
PumpInv   == step = "running" => pump = [t \in Tracks |-> Pump(t)]

IInv == /\ ProbeInv /\ ModeInv /\ UsableInv /\ FlagsInv /\ GateInv
        /\ ToldInv /\ MuxerInv /\ PumpInv

LEMMA InitIInv == Init => IInv
  BY DEF Init, IInv, ProbeInv, ModeInv, UsableInv, FlagsInv, GateInv, ToldInv,
         MuxerInv, PumpInv, Probed, Settled, Created, Spawned

\* The operators the plan is made of depend on nothing that a later step changes.
LEMMA Frame == ASSUME UNCHANGED <<streams, flags, info, mode>>
               PROVE  /\ \A t \in Tracks : First(t)' = First(t) /\ Told(t)' = Told(t)
                                           /\ Muxer(t)' = Muxer(t)
                      /\ Verdict' = Verdict /\ Wanted' = Wanted
                      /\ Unusable' = Unusable
  BY DEF First, Told, Muxer, Verdict, Wanted, Unusable, Present, VideoMuxer,
         AudioMuxer, video_codec_type, audio_codec

LEMMA StepIInv == IInv /\ [Next]_vars => IInv'
  <1> SUFFICES ASSUME IInv, [Next]_vars PROVE IInv'
    OBVIOUS
  <1> USE DEF Probed, Settled, Created, Spawned, Goto, IInv, ProbeInv, ModeInv,
              UsableInv, FlagsInv, GateInv, ToldInv, MuxerInv, PumpInv,
              input, plan
  <1>1. CASE Gate
    BY <1>1 DEF Gate, Reject
  <1>2. CASE Probe
    <2>1. step' = "check" /\ info' = [t \in Tracks |-> First(t)]
          /\ UNCHANGED <<streams, flags>> /\ step = "probe"
      BY <1>2 DEF Probe
    <2>2. \A t \in Tracks : First(t)' = First(t)
      BY <2>1 DEF First
    <2> QED BY <2>1, <2>2
  <1>3. CASE ProbeFails
    BY <1>3 DEF ProbeFails, Reject
  <1>4. CASE Check
    BY <1>4, Frame DEF Check
  <1>5. CASE CheckFails
    BY <1>5 DEF CheckFails, Reject
  <1>6. CASE Decide
    <2>1. /\ step = "decide" /\ step' = "create"
          /\ UNCHANGED <<streams, flags, force, info, told, muxer, pump>>
          /\ mode' = IF force = "raw" THEN "Raw"
                     ELSE IF force = "encoded" THEN "Encoded" ELSE Verdict
      BY <1>6 DEF Decide
    <2>2. /\ \A t \in Tracks : First(t)' = First(t)
          /\ Verdict' = Verdict /\ Unusable' = Unusable
      BY <2>1 DEF First, Verdict, Unusable, Present
    <2>3. Verdict \in {"Encoded", "Raw"}
      BY DEF Verdict
    <2> QED BY <2>1, <2>2, <2>3
  <1>7. CASE CreatePublishers
    BY <1>7, Frame DEF CreatePublishers
  <1>8. CASE Spawn
    BY <1>8, Frame DEF Spawn
  <1>9. CASE StartPumps
    <2>1. /\ step = "pumps" /\ step' = "running"
          /\ UNCHANGED <<streams, flags, force, info, mode, told, muxer>>
          /\ pump' = [t \in Tracks |-> Pump(t)]
      BY <1>9 DEF StartPumps
    <2>2. \A t \in Tracks : Pump(t)' = Pump(t)
      BY <2>1 DEF Pump, VideoPump, AudioPump
    <2> QED BY <2>1, <2>2, Frame
  <1>10. CASE UNCHANGED vars
    <2>1. UNCHANGED <<streams, flags, force, info, mode, told, muxer, pump, step>>
      BY <1>10 DEF vars
    <2>2. \A t \in Tracks : Pump(t)' = Pump(t)
      BY <2>1 DEF Pump, VideoPump, AudioPump
    <2> QED BY <2>1, <2>2, Frame
  <1> QED BY <1>1, <1>2, <1>3, <1>4, <1>5, <1>6, <1>7, <1>8, <1>9, <1>10
          DEF Next, Decided

LEMMA PlanInvariant == Spec => []IInv
  BY InitIInv, StepIInv, PTL DEF Spec

-----------------------------------------------------------------------------
\* At the end the plan is the composition of the lookups.
LEMMA Final == ASSUME IInv, step = "running", NEW t \in Tracks
               PROVE  /\ info[t] = First(t)
                      /\ told[t] = Told(t)
                      /\ muxer[t] = IF t \in Wanted THEN Muxer(t) ELSE "none"
                      /\ pump[t] = Pump(t)
                      /\ mode \in {"Encoded", "Raw"}
  BY DEF IInv, ProbeInv, ModeInv, ToldInv, MuxerInv, PumpInv, Probed, Settled,
         Created, Spawned

LEMMA TrackWanted == ASSUME IInv, step = "running", NEW t \in Tracks
                     PROVE  /\ (told[t] = "none") <=> t \notin Wanted
                            /\ (muxer[t] = "none") <=> t \notin Wanted
                            /\ (pump[t] = "none") <=> t \notin Wanted
  <1>1. Told(t) = "none" <=> t \notin Wanted
    <2>1. video_codec_type(info[t].codec) # "none"
      BY DEF video_codec_type
    <2>2. audio_codec(info[t]) # "none"
      BY DEF audio_codec
    <2> QED BY <2>1, <2>2 DEF Told
  <1>2. Muxer(t) # "none"
    BY DEF Muxer, VideoMuxer, AudioMuxer
  <1>3. VideoPump(info[t].codec) # "none" /\ AudioPump(info[t].codec) # "none"
    BY DEF VideoPump, AudioPump
  <1> QED BY <1>1, <1>2, <1>3, Final DEF Pump

\* Whatever the input, a track has a publisher, a child and a pump, or none.
THEOREM ChildrenAreRead == Spec => []EveryChildIsRead
  <1>1. IInv => EveryChildIsRead
    BY TrackWanted DEF EveryChildIsRead
  <1> QED BY <1>1, PlanInvariant, PTL

\* Past the checks of main, the flags and the probe leave a track to publish.
LEMMA FlagsObeyed ==
  ASSUME IInv, step = "running"
  PROVE  /\ "audio_only" \in flags => "audio" \in Wanted /\ "video" \notin Wanted
         /\ "audio_only" \notin flags => "video" \in Wanted
         /\ "video_only" \in flags => "audio" \notin Wanted
  <1>1. ~Unusable
    BY DEF IInv, UsableInv, Settled
  <1>2. ~("audio_only" \in flags /\ "video_only" \in flags)
    BY DEF IInv, FlagsInv, GateInv, Probed
  <1> QED BY <1>1, <1>2 DEF Unusable, Wanted, Tracks

\* What Session.tla takes for granted: main never goes on with nothing to publish.
THEOREM PublishesSomething == Spec => []SomethingIsPublished
  <1>1. IInv => SomethingIsPublished
    BY FlagsObeyed, TrackWanted DEF SomethingIsPublished, Tracks
  <1> QED BY <1>1, PlanInvariant, PTL

\* The muxers and pumps of a raw input fit, and copy nothing.
LEMMA RawAgrees == ASSUME mode = "Raw", NEW t \in Tracks, t \in Wanted
                   PROVE  /\ Told(t) = "raw"
                          /\ Muxer(t) \notin DOMAIN Carries
                          /\ t = "video" => Muxer(t) \in Reads[VideoPump(info[t].codec)]
                          /\ t = "audio" => Muxer(t) \in Reads[AudioPump(info[t].codec)]
  BY DEF Told, Muxer, VideoMuxer, AudioMuxer, VideoPump, AudioPump, Reads, Carries, Tracks

\* The same for codecs that are copied.
LEMMA EncodedAgrees == ASSUME mode = "Encoded", NEW t \in Tracks, t \in Wanted
                       PROVE  /\ Told(t) # "raw"
                              /\ t = "video" => Muxer(t) \in Reads[VideoPump(info[t].codec)]
                              /\ t = "audio" => Muxer(t) \in Reads[AudioPump(info[t].codec)]
  <1>1. Told(t) # "raw"
    BY DEF Told, video_codec_type, audio_codec
  <1>2. t = "video" => Muxer(t) \in Reads[VideoPump(info[t].codec)]
    BY DEF Muxer, VideoMuxer, VideoPump, Reads
  <1>3. t = "audio" => Muxer(t) \in Reads[AudioPump(info[t].codec)]
    BY DEF Muxer, AudioMuxer, AudioPump, Reads
  <1> QED BY <1>1, <1>2, <1>3

\* An allowlisted video codec is carried by its muxer and named by its id.
LEMMA VideoNamed == ASSUME mode = "Encoded", NEW c \in VIDEO_ENCODED_OK
                    PROVE  /\ c \in Carries[VideoMuxer(c)]
                           /\ Means[video_codec_type(c)] = c
                           /\ video_codec_type(c) \notin {"HE-AAC", "HE-AACv2"}
  BY DEF VIDEO_ENCODED_OK, VideoMuxer, video_codec_type, Carries, Means

LEMMA AudioNamed == ASSUME mode = "Encoded", NEW s, s.codec \in AUDIO_ENCODED_OK
                    PROVE  /\ s.codec \in Carries[AudioMuxer(s.codec)]
                           /\ IF audio_codec(s) \in {"HE-AAC", "HE-AACv2"}
                                THEN s.codec = "aac" /\ s.profile = audio_codec(s)
                                ELSE Means[audio_codec(s)] = s.codec
  BY DEF AUDIO_ENCODED_OK, AudioMuxer, audio_codec, Carries, Means

\* Mode by mode and track by track, the lookups of a running plan agree.
LEMMA PlanAgrees == IInv => FormatsAgree
  <1> SUFFICES ASSUME IInv, step = "running", NEW t \in Tracks, pump[t] # "none"
               PROVE  /\ muxer[t] \in Reads[pump[t]]
                      /\ (told[t] = "raw") <=> (mode = "Raw")
                      /\ CopiesWhatItNames(t) \/ force = "encoded"
    BY DEF FormatsAgree
  <1>1. /\ t \in Wanted /\ info[t] = First(t)
        /\ told[t] = Told(t) /\ muxer[t] = Muxer(t)
        /\ t = "video" => pump[t] = VideoPump(info[t].codec)
        /\ t = "audio" => pump[t] = AudioPump(info[t].codec)
    BY TrackWanted, Final DEF Pump, Tracks
  <1>2. CASE mode = "Raw"
    BY <1>1, <1>2, RawAgrees DEF CopiesWhatItNames, Tracks
  <1>3. CASE mode = "Encoded"
    <2>1. muxer[t] \in Reads[pump[t]] /\ told[t] # "raw"
      BY <1>1, <1>3, EncodedAgrees DEF Tracks
    <2>2. ASSUME force # "encoded" PROVE CopiesWhatItNames(t)
      <3>1. info[t].codec \in ENCODED_OK[t]
        BY <1>1, <1>3, <2>2 DEF IInv, ModeInv, Settled, Verdict, Wanted
      <3>2. CASE t = "video"
        <4>1. info[t].codec \in VIDEO_ENCODED_OK
          BY <3>1, <3>2 DEF ENCODED_OK
        <4>2. told[t] = video_codec_type(info[t].codec) /\ muxer[t] = VideoMuxer(info[t].codec)
          BY <1>1, <1>3, <3>2 DEF Told, Muxer
        <4> QED BY <1>1, <1>3, <4>1, <4>2, VideoNamed DEF CopiesWhatItNames
      <3>3. CASE t = "audio"
        <4>1. info[t].codec \in AUDIO_ENCODED_OK
          BY <3>1, <3>3 DEF ENCODED_OK
        <4>2. told[t] = audio_codec(info[t]) /\ muxer[t] = AudioMuxer(info[t].codec)
          BY <1>1, <1>3, <3>3 DEF Told, Muxer
        <4> QED BY <1>1, <1>3, <4>1, <4>2, AudioNamed DEF CopiesWhatItNames
      <3> QED BY <3>2, <3>3 DEF Tracks
    <2> QED BY <1>3, <2>1, <2>2
  <1> QED BY <1>2, <1>3, Final

\* The four lookups by codec name agree, for every input.
THEOREM LookupsAgree == Spec => []FormatsAgree
BY PlanAgrees, PlanInvariant, PTL

-----------------------------------------------------------------------------
\* A set of indices that is not empty has a first one.
LEMMA FirstIndex == ASSUME NEW S \in SUBSET Nat, S # {}
                    PROVE  \E i \in S : \A j \in S : i <= j
  <1>1. PICK i \in S : \A j \in S : ~(<<j, i>> \in OpToRel(<, Nat))
    BY NatLessThanWellFounded, WFMin, Zenon
  <1>2. \A j \in S : ~(j < i)
    BY <1>1 DEF OpToRel
  <1> QED BY <1>2

Input == streams \in UNION {[1 .. n -> Stream] : n \in 0 .. MaxStreams}

\* ffprobe's first stream of a type is one of the input's, or there is none.
LEMMA FirstIs == ASSUME Input, NEW t \in Tracks
                 PROVE  First(t) \in Stream \cup {Absent}
  <1> DEFINE of == {i \in DOMAIN streams : streams[i].type = t}
             first == CHOOSE i \in of : \A j \in of : i <= j
  <1>1. PICK n \in 0 .. MaxStreams : streams \in [1 .. n -> Stream]
    BY DEF Input
  <1>2. ASSUME of # {} PROVE streams[first] \in Stream
    <2>1. of \in SUBSET Nat /\ of \in SUBSET (1 .. n)
      BY <1>1
    <2>2. first \in of
      <3> HIDE DEF of
      <3> QED BY <1>2, <2>1, FirstIndex
    <2> HIDE DEF first, of
    <2> QED BY <1>1, <2>1, <2>2
  <1>3. First(t) = IF of = {} THEN Absent ELSE streams[first]
    BY DEF First
  <1> HIDE DEF of, first
  <1> QED BY <1>2, <1>3

\* Whatever the codec names, the lookups answer one of the names they know.
LEMMA LookupsAreTyped == ASSUME NEW t \in Tracks
                         PROVE  /\ Told(t) \in Ids
                                /\ Muxer(t) \in Muxers
                                /\ Pump(t) \in PumpNames
  <1>1. Told(t) \in Ids
    <2>1. video_codec_type(info[t].codec) \in Ids
      BY DEF video_codec_type, Ids
    <2>2. audio_codec(info[t]) \in Ids
      BY DEF audio_codec, Ids
    <2> QED BY <2>1, <2>2 DEF Told, Ids
  <1>2. Muxer(t) \in Muxers
    BY DEF Muxer, VideoMuxer, AudioMuxer, Muxers
  <1>3. Pump(t) \in PumpNames
    BY DEF Pump, VideoPump, AudioPump, PumpNames
  <1> QED BY <1>1, <1>2, <1>3

LEMMA InitTypes == Init => TypeOK /\ Input
  BY DEF Init, TypeOK, Input, Ids, Muxers, PumpNames

LEMMA StepTypes == TypeOK /\ Input /\ [Next]_vars => TypeOK' /\ Input'
  <1> SUFFICES ASSUME TypeOK, Input, [Next]_vars PROVE TypeOK' /\ Input'
    OBVIOUS
  <1> USE DEF Goto, Reject, input, plan
  <1>1. CASE Gate \/ ProbeFails \/ Check \/ CheckFails \/ UNCHANGED vars
    BY <1>1 DEF Gate, ProbeFails, Check, CheckFails, vars, TypeOK, Input
  <1>2. CASE Probe
    <2>1. info' \in [Tracks -> Stream \cup {Absent}]
      BY <1>2, FirstIs DEF Probe
    <2> QED BY <1>2, <2>1 DEF Probe, TypeOK, Input
  <1>3. CASE Decide
    <2>1. mode' \in {"Encoded", "Raw"}
      BY <1>3 DEF Decide, Verdict
    <2> QED BY <1>3, <2>1 DEF Decide, TypeOK, Input
  <1>4. CASE CreatePublishers
    <2>1. told' \in [Tracks -> Ids]
      BY <1>4, LookupsAreTyped DEF CreatePublishers
    <2> QED BY <1>4, <2>1 DEF CreatePublishers, TypeOK, Input
  <1>5. CASE Spawn
    <2>1. muxer' \in [Tracks -> Muxers]
      BY <1>5, LookupsAreTyped DEF Spawn, Muxers
    <2> QED BY <1>5, <2>1 DEF Spawn, TypeOK, Input
  <1>6. CASE StartPumps
    <2>1. pump' \in [Tracks -> PumpNames]
      BY <1>6, LookupsAreTyped DEF StartPumps
    <2> QED BY <1>6, <2>1 DEF StartPumps, TypeOK, Input
  <1> QED BY <1>1, <1>2, <1>3, <1>4, <1>5, <1>6 DEF Next, Decided

\* No input takes a lookup to a name that its match does not list, and the probe
\* keeps streams of the input, in ffprobe's order, and nothing else.
THEOREM TypeCorrect == Spec => []TypeOK
  BY InitTypes, StepTypes, PTL DEF Spec
=============================================================================
