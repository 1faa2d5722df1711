----------------------------- MODULE FeedProofs -----------------------------
(***************************************************************************)
(* For every size of the pipes and any number of respawns: nothing is used   *)
(* after it was destroyed, a track has one ffmpeg at most, and the process   *)
(* ends with everything released but on the two ways out that are named.     *)
(***************************************************************************)
EXTENDS Feed, TLAPS

Full == {"sender", "track"}

Starting == Stages \cup {"signals", "run", "join"}

\* The part of the type invariant that has neither truth values nor chunks.
Types ==
  /\ mpc \in Starting \cup {"unwind", "exited"}
  /\ todo \in SUBSET tracks
  /\ exit \in {"no", "early", "ctrlc", "fatal", "ok"}
  /\ tracks \in SUBSET Tracks
  /\ objs \in [Tracks -> SUBSET Full]
  /\ published \in SUBSET Tracks
  /\ holder \in [Tracks -> {"none", "main", "pump"}]
  /\ pump \in [Tracks -> {"absent", "read", "push", "return", "done"}]
  /\ stream \in SUBSET Tracks
  /\ spawned \in [Tracks -> Nat]
  /\ running \in [Tracks -> SUBSET Nat]

\* What exists needs what is below it: child, publication, track, sender.
Layered(t) ==
  /\ objs[t] \in {{}, {"sender"}, Full}
  /\ t \in published => objs[t] = Full
  /\ t \in stream => t \in published
  /\ mpc # "exited" => running[t] \subseteq (IF t \in stream THEN {spawned[t]} ELSE {})

\* Who holds a track, and that nobody else does.
Held(t) ==
  /\ holder[t] = "none" =>
       /\ t \notin published
       /\ objs[t] = {} \/ (At("create", t) /\ objs[t] = {"sender"})
  /\ holder[t] = "main" => pump[t] = "absent" /\ t \in tracks
  /\ holder[t] = "pump" <=> pump[t] \in {"read", "push", "return"}
  /\ pump[t] \in {"read", "push"} => t \in stream
  /\ pump[t] # "absent" => t \in tracks

\* How far main has come with a track, stage by stage.
Staged(t) ==
  /\ mpc = "create" =>
       /\ published = {} /\ stream = {} /\ pump[t] = "absent"
       /\ t \in todo => holder[t] = "none"
       /\ t \in tracks \ todo => holder[t] = "main" /\ objs[t] = Full
  /\ mpc \in {"publish", "connect", "spawn"} =>
       /\ pump[t] = "absent"
       /\ t \in tracks => holder[t] = "main" /\ objs[t] = Full
  /\ mpc = "publish" => published = tracks \ todo /\ stream = {}
  /\ mpc = "connect" => published = tracks /\ stream = {}
  /\ mpc = "spawn" => published = tracks /\ stream = tracks \ todo
  /\ mpc = "start" =>
       /\ t \in todo => holder[t] = "main" /\ t \in stream
       /\ t \in tracks \ todo => holder[t] \in {"pump", "none"} /\ pump[t] # "absent"
  /\ mpc \in {"signals", "run", "join"} /\ t \in tracks =>
       holder[t] \in {"pump", "none"} /\ pump[t] # "absent"

\* The reason to leave, and which pumps there can still be.
Leaving(t) ==
  /\ mpc \in Starting \ {"join"} => exit = "no"
  /\ mpc = "join" => exit \in {"fatal", "ok"}
  /\ mpc = "unwind" =>
       /\ exit # "no"
       /\ exit = "early" => pump[t] = "absent"
       /\ exit \in {"fatal", "ok"} /\ t \in tracks =>
            pump[t] = "done" \/ (exit = "fatal" /\ OnOsThread(t))

Gone(t) ==
  mpc = "exited" =>
    /\ objs[t] = {} /\ t \notin published /\ t \notin stream
    /\ pump[t] \in {"absent", "done"} /\ holder[t] = "none"
    /\ running[t] # {} => OnOsThread(t) /\ exit \in {"fatal", "ctrlc"}

IInv == /\ Types
        /\ \A t \in Tracks : Layered(t) /\ Held(t) /\ Staged(t) /\ Leaving(t) /\ Gone(t)

-----------------------------------------------------------------------------
USE DEF Stages, Starting, mainVars, planVars, sdkVars, childVars

\* It holds at the start.
LEMMA InitIInv == Init => IInv
  BY DEF Init, IInv, Types, Layered, Held, Staged, Leaving, Gone, Tracks, Full,
         OnOsThread, At

\* The sender comes first.
LEMMA CreateSenderKeeps ==
  ASSUME IInv, NEW t \in Tracks, CreateSender(t)
  PROVE  IInv'
<1>1. Types'
  <2>1. objs' \in [Tracks -> SUBSET Full]
    BY DEF IInv, Types, Full, CreateSender, At, Done, Leave
  <2> QED BY <2>1 DEF IInv, Types, Tracks, CreateSender, At, Done, Leave
<1>2. ASSUME NEW u \in Tracks
      PROVE  (Layered(u) /\ Held(u) /\ Staged(u) /\ Leaving(u) /\ Gone(u))'
  <2>1. Layered(u)'
    BY DEF IInv, Types, Layered, Held, Staged, Leaving, Gone, Tracks, Full,
           First, OnOsThread, CreateSender, At, Done, Leave
  <2>2. Held(u)'
    <3>1. mpc = "create" /\ t \in todo /\ holder[t] = "none" /\ published = {}
          /\ pump[t] = "absent"
      BY DEF IInv, Staged, CreateSender, At
    <3>2. holder' = holder /\ published' = published /\ pump' = pump /\ tracks' = tracks
      BY DEF CreateSender
    <3>3. objs'[t] = {} \/ (objs'[t] = {"sender"} /\ mpc' = mpc /\ todo' = todo)
      BY DEF IInv, Types, CreateSender, Leave
    <3>4. CASE u = t
      BY <3>1, <3>2, <3>3, <3>4 DEF IInv, Held, CreateSender, At
    <3>5. CASE u # t
      BY <3>5 DEF IInv, Types, Layered, Held, Staged, Leaving, Gone, Tracks,
             Full, First, CreateSender, At, Done, Leave
    <3> QED BY <3>4, <3>5
  <2>3. Staged(u)'
    BY DEF IInv, Types, Layered, Held, Staged, Leaving, Gone, Tracks, Full,
           First, OnOsThread, CreateSender, At, Done, Leave
  <2>4. Leaving(u)'
    BY DEF IInv, Types, Layered, Held, Staged, Leaving, Gone, Tracks, Full,
           First, OnOsThread, CreateSender, At, Done, Leave
  <2>5. Gone(u)'
    BY DEF IInv, Types, Layered, Held, Staged, Leaving, Gone, Tracks, Full,
           First, OnOsThread, CreateSender, At, Done, Leave
  <2> QED BY <2>1, <2>2, <2>3, <2>4, <2>5
<1> QED BY <1>1, <1>2 DEF IInv

\* A track that comes to be is main's; one that does not takes its sender along.
LEMMA CreateTrackKeeps ==
  ASSUME IInv, NEW t \in Tracks, CreateTrack(t)
  PROVE  IInv'
<1>1. Types'
  <2>1. objs' \in [Tracks -> SUBSET Full]
    BY DEF IInv, Types, Full, CreateTrack, At, Done, Leave
  <2>2. holder' \in [Tracks -> {"none", "main", "pump"}]
    BY DEF IInv, Types, CreateTrack, At, Done, Leave
  <2> QED BY <2>1, <2>2 DEF IInv, Types, Tracks, CreateTrack, At, Done, Leave
<1>2. ASSUME NEW u \in Tracks
      PROVE  (Layered(u) /\ Held(u) /\ Staged(u) /\ Leaving(u) /\ Gone(u))'
  <2>1. Layered(u)'
    BY DEF IInv, Types, Layered, Held, Staged, Leaving, Gone, Tracks, Full,
           First, OnOsThread, CreateTrack, At, Done, Leave
  <2>2. Held(u)'
    <3>1. mpc = "create" /\ t \in todo /\ holder[t] = "none" /\ published = {}
          /\ pump[t] = "absent"
      BY DEF IInv, Staged, CreateTrack, At
    <3>2. published' = published /\ pump' = pump /\ tracks' = tracks /\ todo \subseteq tracks
      BY DEF IInv, Types, CreateTrack
    <3>3. holder'[t] = "main" \/ (objs'[t] = {} /\ holder' = holder)
      BY DEF IInv, Types, CreateTrack
    <3>4. CASE u = t
      BY <3>1, <3>2, <3>3, <3>4 DEF IInv, Held, CreateTrack, At
    <3>5. CASE u # t
      BY <3>5 DEF IInv, Types, Layered, Held, Staged, Leaving, Gone, Tracks,
             Full, First, CreateTrack, At, Done, Leave
    <3> QED BY <3>4, <3>5
  <2>3. Staged(u)'
    BY DEF IInv, Types, Layered, Held, Staged, Leaving, Gone, Tracks, Full,
           First, OnOsThread, CreateTrack, At, Done, Leave
  <2>4. Leaving(u)'
    BY DEF IInv, Types, Layered, Held, Staged, Leaving, Gone, Tracks, Full,
           First, OnOsThread, CreateTrack, At, Done, Leave
  <2>5. Gone(u)'
    BY DEF IInv, Types, Layered, Held, Staged, Leaving, Gone, Tracks, Full,
           First, OnOsThread, CreateTrack, At, Done, Leave
  <2> QED BY <2>1, <2>2, <2>3, <2>4, <2>5
<1> QED BY <1>1, <1>2 DEF IInv

\* The SDK sends a track that exists.
LEMMA PublishKeeps ==
  ASSUME IInv, NEW t \in Tracks, Publish(t)
  PROVE  IInv'
<1>1. Types'
  BY DEF IInv, Types, Tracks, Full, Publish, At, Done, Leave
<1>2. ASSUME NEW u \in Tracks
      PROVE  (Layered(u) /\ Held(u) /\ Staged(u) /\ Leaving(u) /\ Gone(u))'
  <2>1. Layered(u)'
    BY DEF IInv, Types, Layered, Held, Staged, Leaving, Gone, Tracks, Full,
           First, OnOsThread, Publish, At, Done, Leave
  <2>2. Held(u)'
    BY DEF IInv, Types, Layered, Held, Staged, Leaving, Gone, Tracks, Full,
           First, OnOsThread, Publish, At, Done, Leave
  <2>3. Staged(u)'
    BY DEF IInv, Types, Layered, Held, Staged, Leaving, Gone, Tracks, Full,
           First, OnOsThread, Publish, At, Done, Leave
  <2>4. Leaving(u)'
    BY DEF IInv, Types, Layered, Held, Staged, Leaving, Gone, Tracks, Full,
           First, OnOsThread, Publish, At, Done, Leave
  <2>5. Gone(u)'
    BY DEF IInv, Types, Layered, Held, Staged, Leaving, Gone, Tracks, Full,
           First, OnOsThread, Publish, At, Done, Leave
  <2> QED BY <2>1, <2>2, <2>3, <2>4, <2>5
<1> QED BY <1>1, <1>2 DEF IInv

\* The first child of a track, or none of either track.
LEMMA SpawnKeeps ==
  ASSUME IInv, NEW t \in Tracks, Spawn(t)
  PROVE  IInv'
<1>1. Types'
  <2>1. spawned' \in [Tracks -> Nat]
    BY DEF IInv, Types, Spawn, At, Done, Leave, NewChild, NoChild
  <2>2. running' \in [Tracks -> SUBSET Nat]
    BY DEF IInv, Types, Spawn, At, Done, Leave, NewChild, NoChild
  <2> QED BY <2>1, <2>2 DEF IInv, Types, Tracks, Spawn, At, Done, Leave,
             NewChild, NoChild
<1>2. ASSUME NEW u \in Tracks
      PROVE  (Layered(u) /\ Held(u) /\ Staged(u) /\ Leaving(u) /\ Gone(u))'
  <2>1. Layered(u)'
    BY DEF IInv, Types, Layered, Held, Staged, Leaving, Gone, Tracks, Full,
           First, OnOsThread, Spawn, At, Done, Leave, NewChild, NoChild
  <2>2. Held(u)'
    BY DEF IInv, Types, Layered, Held, Staged, Leaving, Gone, Tracks, Full,
           First, OnOsThread, Spawn, At, Done, Leave, NewChild, NoChild
  <2>3. Staged(u)'
    BY DEF IInv, Types, Layered, Held, Staged, Leaving, Gone, Tracks, Full,
           First, OnOsThread, Spawn, At, Done, Leave, NewChild, NoChild
  <2>4. Leaving(u)'
    BY DEF IInv, Types, Layered, Held, Staged, Leaving, Gone, Tracks, Full,
           First, OnOsThread, Spawn, At, Done, Leave, NewChild, NoChild
  <2>5. Gone(u)'
    BY DEF IInv, Types, Layered, Held, Staged, Leaving, Gone, Tracks, Full,
           First, OnOsThread, Spawn, At, Done, Leave, NewChild, NoChild
  <2> QED BY <2>1, <2>2, <2>3, <2>4, <2>5
<1> QED BY <1>1, <1>2 DEF IInv

\* From main to the pump, nothing else changes.
LEMMA StartPumpKeeps ==
  ASSUME IInv, NEW t \in Tracks, StartPump(t)
  PROVE  IInv'
<1>1. Types'
  BY DEF IInv, Types, Tracks, Full, StartPump, At, Done, Leave
<1>2. ASSUME NEW u \in Tracks
      PROVE  (Layered(u) /\ Held(u) /\ Staged(u) /\ Leaving(u) /\ Gone(u))'
  <2>1. Layered(u)'
    BY DEF IInv, Types, Layered, Held, Staged, Leaving, Gone, Tracks, Full,
           First, OnOsThread, StartPump, At, Done, Leave
  <2>2. Held(u)'
    BY DEF IInv, Types, Layered, Held, Staged, Leaving, Gone, Tracks, Full,
           First, OnOsThread, StartPump, At, Done, Leave
  <2>3. Staged(u)'
    BY DEF IInv, Types, Layered, Held, Staged, Leaving, Gone, Tracks, Full,
           First, OnOsThread, StartPump, At, Done, Leave
  <2>4. Leaving(u)'
    BY DEF IInv, Types, Layered, Held, Staged, Leaving, Gone, Tracks, Full,
           First, OnOsThread, StartPump, At, Done, Leave
  <2>5. Gone(u)'
    BY DEF IInv, Types, Layered, Held, Staged, Leaving, Gone, Tracks, Full,
           First, OnOsThread, StartPump, At, Done, Leave
  <2> QED BY <2>1, <2>2, <2>3, <2>4, <2>5
<1> QED BY <1>1, <1>2 DEF IInv

\* Main goes on when it has done the stage for every track.
LEMMA NextStageKeeps ==
  ASSUME IInv, NextStage
  PROVE  IInv'
<1>1. Types'
  BY DEF IInv, Types, Tracks, Full, NextStage, After, ForTracks, Leave, At
<1>2. ASSUME NEW u \in Tracks
      PROVE  (Layered(u) /\ Held(u) /\ Staged(u) /\ Leaving(u) /\ Gone(u))'
  <2>1. Layered(u)'
    BY DEF IInv, Types, Layered, Held, Staged, Leaving, Gone, Tracks, Full,
           First, OnOsThread, NextStage, After, ForTracks, Leave, At
  <2>2. Held(u)'
    BY DEF IInv, Types, Layered, Held, Staged, Leaving, Gone, Tracks, Full,
           First, OnOsThread, NextStage, After, ForTracks, Leave, At
  <2>3. Staged(u)'
    BY DEF IInv, Types, Layered, Held, Staged, Leaving, Gone, Tracks, Full,
           First, OnOsThread, NextStage, After, ForTracks, Leave, At
  <2>4. Leaving(u)'
    BY DEF IInv, Types, Layered, Held, Staged, Leaving, Gone, Tracks, Full,
           First, OnOsThread, NextStage, After, ForTracks, Leave, At
  <2>5. Gone(u)'
    BY DEF IInv, Types, Layered, Held, Staged, Leaving, Gone, Tracks, Full,
           First, OnOsThread, NextStage, After, ForTracks, Leave, At
  <2> QED BY <2>1, <2>2, <2>3, <2>4, <2>5
<1> QED BY <1>1, <1>2 DEF IInv

\* No stage is left when the run ends.
LEMMA RunEndsKeeps ==
  ASSUME IInv, RunEnds
  PROVE  IInv'
<1>1. Types'
  BY DEF IInv, Types, Tracks, Full, RunEnds, At
<1>2. ASSUME NEW u \in Tracks
      PROVE  (Layered(u) /\ Held(u) /\ Staged(u) /\ Leaving(u) /\ Gone(u))'
  <2>1. Layered(u)'
    BY DEF IInv, Types, Layered, Held, Staged, Leaving, Gone, Tracks, Full,
           First, OnOsThread, RunEnds, At
  <2>2. Held(u)'
    BY DEF IInv, Types, Layered, Held, Staged, Leaving, Gone, Tracks, Full,
           First, OnOsThread, RunEnds, At
  <2>3. Staged(u)'
    BY DEF IInv, Types, Layered, Held, Staged, Leaving, Gone, Tracks, Full,
           First, OnOsThread, RunEnds, At
  <2>4. Leaving(u)'
    BY DEF IInv, Types, Layered, Held, Staged, Leaving, Gone, Tracks, Full,
           First, OnOsThread, RunEnds, At
  <2>5. Gone(u)'
    BY DEF IInv, Types, Layered, Held, Staged, Leaving, Gone, Tracks, Full,
           First, OnOsThread, RunEnds, At
  <2> QED BY <2>1, <2>2, <2>3, <2>4, <2>5
<1> QED BY <1>1, <1>2 DEF IInv

\* Main waits for all pumps but a video thread it will not join.
LEMMA JoinKeeps ==
  ASSUME IInv, Join
  PROVE  IInv'
<1>1. Types'
  BY DEF IInv, Types, Tracks, Full, Join, Joined, At
<1>2. ASSUME NEW u \in Tracks
      PROVE  (Layered(u) /\ Held(u) /\ Staged(u) /\ Leaving(u) /\ Gone(u))'
  <2>1. Layered(u)'
    BY DEF IInv, Types, Layered, Held, Staged, Leaving, Gone, Tracks, Full,
           First, OnOsThread, Join, Joined, At
  <2>2. Held(u)'
    BY DEF IInv, Types, Layered, Held, Staged, Leaving, Gone, Tracks, Full,
           First, OnOsThread, Join, Joined, At
  <2>3. Staged(u)'
    BY DEF IInv, Types, Layered, Held, Staged, Leaving, Gone, Tracks, Full,
           First, OnOsThread, Join, Joined, At
  <2>4. Leaving(u)'
    BY DEF IInv, Types, Layered, Held, Staged, Leaving, Gone, Tracks, Full,
           First, OnOsThread, Join, Joined, At
  <2>5. Gone(u)'
    BY DEF IInv, Types, Layered, Held, Staged, Leaving, Gone, Tracks, Full,
           First, OnOsThread, Join, Joined, At
  <2> QED BY <2>1, <2>2, <2>3, <2>4, <2>5
<1> QED BY <1>1, <1>2 DEF IInv

\* Only the video thread's child is left.
LEMMA ProcessExitKeeps ==
  ASSUME IInv, ProcessExit
  PROVE  IInv'
<1>1. Types'
  BY DEF IInv, Types, Tracks, Full, ProcessExit, At
<1>2. ASSUME NEW u \in Tracks
      PROVE  (Layered(u) /\ Held(u) /\ Staged(u) /\ Leaving(u) /\ Gone(u))'
  <2>1. Layered(u)'
    BY DEF IInv, Types, Layered, Held, Staged, Leaving, Gone, Tracks, Full,
           First, OnOsThread, ProcessExit, At
  <2>2. Held(u)'
    BY DEF IInv, Types, Layered, Held, Staged, Leaving, Gone, Tracks, Full,
           First, OnOsThread, ProcessExit, At
  <2>3. Staged(u)'
    BY DEF IInv, Types, Layered, Held, Staged, Leaving, Gone, Tracks, Full,
           First, OnOsThread, ProcessExit, At
  <2>4. Leaving(u)'
    BY DEF IInv, Types, Layered, Held, Staged, Leaving, Gone, Tracks, Full,
           First, OnOsThread, ProcessExit, At
  <2>5. Gone(u)'
    BY DEF IInv, Types, Layered, Held, Staged, Leaving, Gone, Tracks, Full,
           First, OnOsThread, ProcessExit, At
  <2> QED BY <2>1, <2>2, <2>3, <2>4, <2>5
<1> QED BY <1>1, <1>2 DEF IInv

\* The child goes first.
LEMMA DropStreamKeeps ==
  ASSUME IInv, NEW t \in Tracks, DropStream(t)
  PROVE  IInv'
<1>1. Types'
  BY DEF IInv, Types, Tracks, Full, DropStream, Releasing, NoChild, At
<1>2. ASSUME NEW u \in Tracks
      PROVE  (Layered(u) /\ Held(u) /\ Staged(u) /\ Leaving(u) /\ Gone(u))'
  <2>1. Layered(u)'
    BY DEF IInv, Types, Layered, Held, Staged, Leaving, Gone, Tracks, Full,
           First, OnOsThread, DropStream, Releasing, NoChild, At
  <2>2. Held(u)'
    BY DEF IInv, Types, Layered, Held, Staged, Leaving, Gone, Tracks, Full,
           First, OnOsThread, DropStream, Releasing, NoChild, At
  <2>3. Staged(u)'
    BY DEF IInv, Types, Layered, Held, Staged, Leaving, Gone, Tracks, Full,
           First, OnOsThread, DropStream, Releasing, NoChild, At
  <2>4. Leaving(u)'
    BY DEF IInv, Types, Layered, Held, Staged, Leaving, Gone, Tracks, Full,
           First, OnOsThread, DropStream, Releasing, NoChild, At
  <2>5. Gone(u)'
    BY DEF IInv, Types, Layered, Held, Staged, Leaving, Gone, Tracks, Full,
           First, OnOsThread, DropStream, Releasing, NoChild, At
  <2> QED BY <2>1, <2>2, <2>3, <2>4, <2>5
<1> QED BY <1>1, <1>2 DEF IInv

\* Then the publication.
LEMMA UnpublishKeeps ==
  ASSUME IInv, NEW t \in Tracks, Unpublish(t)
  PROVE  IInv'
<1>1. Types'
  BY DEF IInv, Types, Tracks, Full, Unpublish, Releasing, At
<1>2. ASSUME NEW u \in Tracks
      PROVE  (Layered(u) /\ Held(u) /\ Staged(u) /\ Leaving(u) /\ Gone(u))'
  <2>1. Layered(u)'
    BY DEF IInv, Types, Layered, Held, Staged, Leaving, Gone, Tracks, Full,
           First, OnOsThread, Unpublish, Releasing, At
  <2>2. Held(u)'
    BY DEF IInv, Types, Layered, Held, Staged, Leaving, Gone, Tracks, Full,
           First, OnOsThread, Unpublish, Releasing, At
  <2>3. Staged(u)'
    BY DEF IInv, Types, Layered, Held, Staged, Leaving, Gone, Tracks, Full,
           First, OnOsThread, Unpublish, Releasing, At
  <2>4. Leaving(u)'
    BY DEF IInv, Types, Layered, Held, Staged, Leaving, Gone, Tracks, Full,
           First, OnOsThread, Unpublish, Releasing, At
  <2>5. Gone(u)'
    BY DEF IInv, Types, Layered, Held, Staged, Leaving, Gone, Tracks, Full,
           First, OnOsThread, Unpublish, Releasing, At
  <2> QED BY <2>1, <2>2, <2>3, <2>4, <2>5
<1> QED BY <1>1, <1>2 DEF IInv

\* Then the track.
LEMMA DestroyTrackKeeps ==
  ASSUME IInv, NEW t \in Tracks, DestroyTrack(t)
  PROVE  IInv'
<1>1. Types'
  BY DEF IInv, Types, Tracks, Full, DestroyTrack, Releasing, At
<1>2. ASSUME NEW u \in Tracks
      PROVE  (Layered(u) /\ Held(u) /\ Staged(u) /\ Leaving(u) /\ Gone(u))'
  <2>1. Layered(u)'
    BY DEF IInv, Types, Layered, Held, Staged, Leaving, Gone, Tracks, Full,
           First, OnOsThread, DestroyTrack, Releasing, At
  <2>2. Held(u)'
    BY DEF IInv, Types, Layered, Held, Staged, Leaving, Gone, Tracks, Full,
           First, OnOsThread, DestroyTrack, Releasing, At
  <2>3. Staged(u)'
    BY DEF IInv, Types, Layered, Held, Staged, Leaving, Gone, Tracks, Full,
           First, OnOsThread, DestroyTrack, Releasing, At
  <2>4. Leaving(u)'
    BY DEF IInv, Types, Layered, Held, Staged, Leaving, Gone, Tracks, Full,
           First, OnOsThread, DestroyTrack, Releasing, At
  <2>5. Gone(u)'
    BY DEF IInv, Types, Layered, Held, Staged, Leaving, Gone, Tracks, Full,
           First, OnOsThread, DestroyTrack, Releasing, At
  <2> QED BY <2>1, <2>2, <2>3, <2>4, <2>5
<1> QED BY <1>1, <1>2 DEF IInv

\* And the sender, after which nobody holds anything.
LEMMA DestroySenderKeeps ==
  ASSUME IInv, NEW t \in Tracks, DestroySender(t)
  PROVE  IInv'
<1>1. Types'
  BY DEF IInv, Types, Tracks, Full, DestroySender, Releasing, At
<1>2. ASSUME NEW u \in Tracks
      PROVE  (Layered(u) /\ Held(u) /\ Staged(u) /\ Leaving(u) /\ Gone(u))'
  <2>1. Layered(u)'
    BY DEF IInv, Types, Layered, Held, Staged, Leaving, Gone, Tracks, Full,
           First, OnOsThread, DestroySender, Releasing, At
  <2>2. Held(u)'
    BY DEF IInv, Types, Layered, Held, Staged, Leaving, Gone, Tracks, Full,
           First, OnOsThread, DestroySender, Releasing, At
  <2>3. Staged(u)'
    BY DEF IInv, Types, Layered, Held, Staged, Leaving, Gone, Tracks, Full,
           First, OnOsThread, DestroySender, Releasing, At
  <2>4. Leaving(u)'
    BY DEF IInv, Types, Layered, Held, Staged, Leaving, Gone, Tracks, Full,
           First, OnOsThread, DestroySender, Releasing, At
  <2>5. Gone(u)'
    BY DEF IInv, Types, Layered, Held, Staged, Leaving, Gone, Tracks, Full,
           First, OnOsThread, DestroySender, Releasing, At
  <2> QED BY <2>1, <2>2, <2>3, <2>4, <2>5
<1> QED BY <1>1, <1>2 DEF IInv

\* A pump that works has its stream; a respawn replaces the child it had.
LEMMA PumpStepKeeps ==
  ASSUME IInv, NEW t \in Tracks, PumpStep(t)
  PROVE  IInv'
<1>1. Types'
  <2>1. spawned' \in [Tracks -> Nat]
    BY DEF IInv, Types, PumpStep, Stop, Read, Push, Respawn, GiveUp, Eof,
           PumpGoes, NewChild, pumpFrame, At
  <2>2. running' \in [Tracks -> SUBSET Nat]
    BY DEF IInv, Types, PumpStep, Stop, Read, Push, Respawn, GiveUp, Eof,
           PumpGoes, NewChild, pumpFrame, At
  <2>3. pump' \in [Tracks -> {"absent", "read", "push", "return", "done"}]
    BY DEF IInv, Types, PumpStep, Stop, Read, Push, Respawn, GiveUp, Eof,
           PumpGoes, NewChild, pumpFrame, At
  <2> QED BY <2>1, <2>2, <2>3 DEF IInv, Types, Tracks, PumpStep, Stop, Read,
             Push, Respawn, GiveUp, Eof, PumpGoes, NewChild, pumpFrame, At
<1>2. ASSUME NEW u \in Tracks
      PROVE  (Layered(u) /\ Held(u) /\ Staged(u) /\ Leaving(u) /\ Gone(u))'
  <2>1. Layered(u)'
    BY DEF IInv, Types, Layered, Held, Staged, Leaving, Gone, Tracks, Full,
           First, OnOsThread, PumpStep, Stop, Read, Push, Respawn, GiveUp, Eof,
           PumpGoes, NewChild, pumpFrame, At
  <2>2. Held(u)'
    BY DEF IInv, Types, Layered, Held, Staged, Leaving, Gone, Tracks, Full,
           First, OnOsThread, PumpStep, Stop, Read, Push, Respawn, GiveUp, Eof,
           PumpGoes, NewChild, pumpFrame, At
  <2>3. Staged(u)'
    BY DEF IInv, Types, Layered, Held, Staged, Leaving, Gone, Tracks, Full,
           First, OnOsThread, PumpStep, Stop, Read, Push, Respawn, GiveUp, Eof,
           PumpGoes, NewChild, pumpFrame, At
  <2>4. Leaving(u)'
    BY DEF IInv, Types, Layered, Held, Staged, Leaving, Gone, Tracks, Full,
           First, OnOsThread, PumpStep, Stop, Read, Push, Respawn, GiveUp, Eof,
           PumpGoes, NewChild, pumpFrame, At
  <2>5. Gone(u)'
    BY DEF IInv, Types, Layered, Held, Staged, Leaving, Gone, Tracks, Full,
           First, OnOsThread, PumpStep, Stop, Read, Push, Respawn, GiveUp, Eof,
           PumpGoes, NewChild, pumpFrame, At
  <2> QED BY <2>1, <2>2, <2>3, <2>4, <2>5
<1> QED BY <1>1, <1>2 DEF IInv

\* A child takes nothing from its track.
LEMMA ChildStepKeeps ==
  ASSUME IInv, NEW t \in Tracks, ChildStep(t)
  PROVE  IInv'
<1>1. Types'
  <2>1. running' \in [Tracks -> SUBSET Nat]
    BY DEF IInv, Types, ChildStep, ChildWrites, ChildLogs, ChildCloses,
           ChildExits, childFrame, At
  <2> QED BY <2>1 DEF IInv, Types, Tracks, ChildStep, ChildWrites, ChildLogs,
             ChildCloses, ChildExits, childFrame, At
<1>2. ASSUME NEW u \in Tracks
      PROVE  (Layered(u) /\ Held(u) /\ Staged(u) /\ Leaving(u) /\ Gone(u))'
  <2>1. Layered(u)'
    BY DEF IInv, Types, Layered, Held, Staged, Leaving, Gone, Tracks, Full,
           First, OnOsThread, ChildStep, ChildWrites, ChildLogs, ChildCloses,
           ChildExits, childFrame, At
  <2>2. Held(u)'
    BY DEF IInv, Types, Layered, Held, Staged, Leaving, Gone, Tracks, Full,
           First, OnOsThread, ChildStep, ChildWrites, ChildLogs, ChildCloses,
           ChildExits, childFrame, At
  <2>3. Staged(u)'
    BY DEF IInv, Types, Layered, Held, Staged, Leaving, Gone, Tracks, Full,
           First, OnOsThread, ChildStep, ChildWrites, ChildLogs, ChildCloses,
           ChildExits, childFrame, At
  <2>4. Leaving(u)'
    BY DEF IInv, Types, Layered, Held, Staged, Leaving, Gone, Tracks, Full,
           First, OnOsThread, ChildStep, ChildWrites, ChildLogs, ChildCloses,
           ChildExits, childFrame, At
  <2>5. Gone(u)'
    BY DEF IInv, Types, Layered, Held, Staged, Leaving, Gone, Tracks, Full,
           First, OnOsThread, ChildStep, ChildWrites, ChildLogs, ChildCloses,
           ChildExits, childFrame, At
  <2> QED BY <2>1, <2>2, <2>3, <2>4, <2>5
<1> QED BY <1>1, <1>2 DEF IInv

-----------------------------------------------------------------------------
\* Every step keeps it, and so does a step of none of the processes.
LEMMA Invariance == IInv /\ [Next]_vars => IInv'
<1> SUFFICES ASSUME IInv, [Next]_vars PROVE IInv'
    OBVIOUS
<1>1. CASE \E t \in Tracks : CreateSender(t) \/ CreateTrack(t) \/ Publish(t)
                               \/ Spawn(t) \/ StartPump(t)
  BY <1>1, CreateSenderKeeps, CreateTrackKeeps, PublishKeeps, SpawnKeeps, StartPumpKeeps
<1>2. CASE NextStage \/ RunEnds \/ Join \/ ProcessExit
  BY <1>2, NextStageKeeps, RunEndsKeeps, JoinKeeps, ProcessExitKeeps
<1>3. CASE \E t \in Tracks : Release(t)
  BY <1>3, DropStreamKeeps, UnpublishKeeps, DestroyTrackKeeps, DestroySenderKeeps
     DEF Release
<1>4. CASE \E t \in Tracks : PumpStep(t) \/ ChildStep(t)
  BY <1>4, PumpStepKeeps, ChildStepKeeps
<1>5. CASE UNCHANGED vars
  BY <1>5 DEF vars, IInv, Types, Layered, Held, Staged, Leaving, Gone, At, OnOsThread
<1> QED
  BY <1>1, <1>2, <1>3, <1>4, <1>5 DEF Next, Main, Prepare, Threads, Exited

-----------------------------------------------------------------------------
\* What is there has what is below it.
LEMMA LayersAreAlive == IInv => UsedIsAlive
  BY DEF IInv, Layered, Held, UsedIsAlive, Full

\* A child that runs is its stream's, or was left behind at the exit.
LEMMA ChildIsTheStreams == IInv => NoStrayChild
  BY DEF IInv, Layered, Gone, NoStrayChild

\* The step that ends the process.
LEMMA ExitStep ==
  ASSUME IInv, Next, mpc # "exited", mpc' = "exited"
  PROVE  ProcessExit
<1>1. ~Join /\ ~NextStage
  BY DEF Join, NextStage, After, Leave
<1> QED
  BY <1>1 DEF IInv, Types, Next, Main, Prepare, Threads, Exited, CreateSender, CreateTrack,
         Publish, Spawn, StartPump, RunEnds, Done, At, Leave,
         Release, DropStream, Unpublish, DestroyTrack, DestroySender, PumpStep, Stop,
         Read, Push, Respawn, GiveUp, pumpFrame, ChildStep, ChildWrites, ChildLogs,
         ChildCloses, ChildExits, childFrame

\* Before it main has let go of all it held, and the pumps that are left are
\* those main does not wait for.
LEMMA NothingIsLeft ==
  ASSUME IInv, ProcessExit, NEW t \in Tracks
  PROVE  \/ objs[t] = {} /\ t \notin published /\ running[t] = {}
         \/ exit = "fatal" /\ OnOsThread(t)
         \/ exit = "ctrlc"
<1>1. holder[t] = "none" \/ holder[t] = "pump"
  BY DEF IInv, Types, ProcessExit
<1>2. holder[t] = "none" => objs[t] = {} /\ t \notin published /\ running[t] = {}
  BY DEF IInv, Types, Held, Layered, ProcessExit, At
<1>3. holder[t] = "pump" => (exit = "fatal" /\ OnOsThread(t)) \/ exit = "ctrlc"
  BY DEF IInv, Types, Held, Leaving, ProcessExit
<1> QED BY <1>1, <1>2, <1>3

-----------------------------------------------------------------------------
\* The objects of a track are made in one order and destroyed in the opposite
\* one, by whoever holds them, on every way out: main.rs:202-339, the Drop of
\* the publishers in audio.rs and video.rs.
THEOREM Alive == Spec => []UsedIsAlive
  BY InitIInv, Invariance, LayersAreAlive, PTL DEF Spec

\* A respawn and a drop leave no second ffmpeg behind: pipeline.rs:88-120.
THEOREM OneChild == Spec => []NoStrayChild
  BY InitIInv, Invariance, ChildIsTheStreams, PTL DEF Spec

\* However start-up fails and however the run ends, the process leaves nothing
\* behind but on the two ways the property names: main.rs:182-430.
THEOREM CleanExit == Spec => ExitIsClean
<1>1. IInv /\ [Next]_vars =>
        [mpc # "exited" /\ mpc' = "exited" =>
           \A t \in Tracks :
             \/ objs[t] = {} /\ t \notin published /\ running[t] = {}
             \/ exit = "fatal" /\ OnOsThread(t)
             \/ exit = "ctrlc"]_vars
  BY ExitStep, NothingIsLeft
<1> QED BY <1>1, InitIInv, Invariance, PTL DEF Spec, ExitIsClean

-----------------------------------------------------------------------------
(* The types that IInv leaves out: chunks, children, truth values *)

Chunks == /\ mode \in {"Encoded", "Raw"}
          /\ spawned \in [Tracks -> 0 .. MaxSpawns]
          /\ running \in [Tracks -> SUBSET (1 .. MaxSpawns)]
          /\ child \in [Tracks -> {"none", "runs", "stuck", "closed"}]
          /\ stdout \in [Tracks -> 0 .. PipeSize]

\* Main spawns a track's child once; the others are respawns.
FirstSpawn == mpc \in {"create", "publish", "connect", "spawn"} =>
                \A t \in Tracks : t \notin stream => spawned[t] = 0

Truths == remote \in BOOLEAN /\ cancelled \in BOOLEAN

LEMMA TruthsKept == Truths /\ [Next]_vars => Truths'
  <1>1. Truths /\ (remote' = remote) /\ (cancelled' = cancelled \/ cancelled' = TRUE) => Truths'
    BY Zenon DEF Truths
  <1>2. [Next]_vars => remote' = remote /\ (cancelled' = cancelled \/ cancelled' = TRUE)
    BY DEF Next, vars, Main, Prepare, NextStage, CreateSender, CreateTrack, Publish, Spawn,
           StartPump, RunEnds, Join, ProcessExit, Threads, Release, DropStream, Unpublish,
           DestroyTrack, DestroySender, PumpStep, Stop, Read, Push, Respawn, GiveUp,
           pumpFrame, ChildStep, ChildWrites, ChildLogs, ChildCloses, ChildExits,
           childFrame, Exited
  <1> QED BY <1>1, <1>2

\* What main and the drops do to the children.
LEMMA MainChunks ==
  ASSUME IInv, Chunks, FirstSpawn, Main
  PROVE  Chunks' /\ FirstSpawn'
<1>1. ASSUME NEW t \in Tracks, Spawn(t) PROVE Chunks' /\ FirstSpawn'
  <2>1. mpc = "spawn" /\ t \in todo /\ t \notin stream /\ spawned[t] = 0
    BY <1>1 DEF IInv, Types, Staged, Spawn, At, FirstSpawn
  <2>2. 0 + 1 \in 0 .. MaxSpawns /\ 0 + 1 \in 1 .. MaxSpawns /\ 0 \in 0 .. PipeSize
    BY FeedAssumption
  <2>3. CASE NewChild(t) /\ running' = [running EXCEPT ![t] = {spawned[t] + 1}]
             /\ stream' = stream \cup {t} /\ Done(t)
    <3>1. spawned' \in [Tracks -> 0 .. MaxSpawns] /\ stdout' \in [Tracks -> 0 .. PipeSize]
          /\ child' \in [Tracks -> {"none", "runs", "stuck", "closed"}]
      BY <2>1, <2>2, <2>3 DEF Chunks, NewChild
    <3>2. running' \in [Tracks -> SUBSET (1 .. MaxSpawns)]
      BY <2>1, <2>2, <2>3 DEF Chunks
    <3>3. mode' = mode
      BY <1>1 DEF Spawn
    <3>4. FirstSpawn'
      BY <2>1, <2>3 DEF FirstSpawn, NewChild, Chunks, Done
    <3> QED BY <3>1, <3>2, <3>3, <3>4 DEF Chunks
  <2>4. CASE Leave("early") /\ running' = [u \in Tracks |-> {}] /\ stream' = {}
             /\ (\E u \in Tracks : stream \subseteq {u} /\ NoChild(u)) /\ UNCHANGED spawned
    <3>1. mode' = mode
      BY <1>1 DEF Spawn
    <3> QED BY <2>2, <2>4, <3>1 DEF Chunks, FirstSpawn, NoChild, Leave
  <2> QED BY <1>1, <2>3, <2>4 DEF Spawn
<1>2. CASE (\E t \in Tracks : CreateSender(t) \/ CreateTrack(t) \/ Publish(t) \/ StartPump(t))
           \/ RunEnds \/ Join
  BY <1>2 DEF CreateSender, CreateTrack, Publish, StartPump, RunEnds, Join, Done, Leave,
              Chunks, FirstSpawn, At
<1>3. CASE NextStage
  BY <1>3 DEF NextStage, After, Leave, Chunks, FirstSpawn
<1>4. CASE ProcessExit
  <2>1. 0 \in 0 .. PipeSize
    BY FeedAssumption
  <2> QED BY <1>4, <2>1 DEF ProcessExit, Chunks, FirstSpawn
<1> QED BY <1>1, <1>2, <1>3, <1>4 DEF Main, Prepare

LEMMA ReleaseChunks ==
  ASSUME IInv, Chunks, FirstSpawn, NEW t \in Tracks, Release(t)
  PROVE  Chunks' /\ FirstSpawn'
<1>1. 0 \in 0 .. PipeSize
  BY FeedAssumption
<1>2. mpc \notin {"create", "publish", "connect", "spawn"}
  BY DEF IInv, Types, Held, Staged, Release, DropStream, Unpublish, DestroyTrack,
         DestroySender, Releasing
<1>3. mpc' = mpc
  BY DEF Release, DropStream, Unpublish, DestroyTrack, DestroySender
<1>4. Chunks'
  BY <1>1 DEF Release, DropStream, Unpublish, DestroyTrack, DestroySender, NoChild, Chunks
<1> QED BY <1>2, <1>3, <1>4 DEF FirstSpawn

\* A pump respawns as long as the history is not full, and reads what is there.
LEMMA PumpChunks ==
  ASSUME IInv, Chunks, FirstSpawn, NEW t \in Tracks, PumpStep(t)
  PROVE  Chunks' /\ FirstSpawn'
<1>1. mpc \notin {"create", "publish", "connect", "spawn"} /\ mpc' = mpc
  BY DEF IInv, Types, Held, Staged, PumpStep, Stop, Read, Push, Respawn, GiveUp,
         PumpGoes, pumpFrame
<1>2. mode' = mode
  BY DEF PumpStep, Stop, Read, Push, Respawn, GiveUp, pumpFrame
<1>3. CASE Stop(t) \/ Push(t) \/ GiveUp(t)
  BY <1>1, <1>2, <1>3 DEF Stop, Push, GiveUp, Chunks, FirstSpawn
<1>4. CASE Read(t)
  <2>1. stdout[t] \in 0 .. PipeSize /\ stdout[t] > 0 /\ stdout' = [stdout EXCEPT ![t] = @ - 1]
    BY <1>4 DEF Read, Chunks
  <2>2. stdout[t] - 1 \in 0 .. PipeSize
    BY <2>1, FeedAssumption
  <2>3. stdout' \in [Tracks -> 0 .. PipeSize]
    BY <2>1, <2>2 DEF Chunks
  <2> QED BY <1>1, <1>2, <1>4, <2>3 DEF Read, Chunks, FirstSpawn
<1>5. CASE Respawn(t)
  <2>1. spawned[t] + 1 \in 1 .. MaxSpawns /\ 0 \in 0 .. PipeSize
    BY <1>5, FeedAssumption DEF Respawn, Chunks
  <2>2. spawned' \in [Tracks -> 0 .. MaxSpawns]
    BY <1>5, <2>1, FeedAssumption DEF Respawn, NewChild, Chunks
  <2>3. stdout' \in [Tracks -> 0 .. PipeSize]
        /\ child' \in [Tracks -> {"none", "runs", "stuck", "closed"}]
    BY <1>5, <2>1 DEF Respawn, NewChild, Chunks
  <2>4. running' \in [Tracks -> SUBSET (1 .. MaxSpawns)]
    BY <1>5, <2>1 DEF Respawn, Chunks
  <2> QED BY <1>1, <1>2, <2>2, <2>3, <2>4 DEF Chunks, FirstSpawn
<1> QED BY <1>3, <1>4, <1>5 DEF PumpStep

LEMMA ChildChunks ==
  ASSUME Chunks, FirstSpawn, NEW t \in Tracks, ChildStep(t)
  PROVE  Chunks' /\ FirstSpawn'
<1>1. mode' = mode /\ spawned' = spawned /\ mpc' = mpc /\ stream' = stream
  BY DEF ChildStep, ChildWrites, ChildLogs, ChildCloses, ChildExits, childFrame
<1>2. stdout' \in [Tracks -> 0 .. PipeSize]
  <2>1. stdout[t] \in 0 .. PipeSize
    BY DEF Chunks
  <2>2. stdout[t] < PipeSize => stdout[t] + 1 \in 0 .. PipeSize
    BY <2>1, FeedAssumption
  <2> QED BY <2>2 DEF ChildStep, ChildWrites, ChildLogs, ChildCloses, ChildExits, Chunks
<1>3. child' \in [Tracks -> {"none", "runs", "stuck", "closed"}]
      /\ running' \in [Tracks -> SUBSET (1 .. MaxSpawns)]
  BY DEF ChildStep, ChildWrites, ChildLogs, ChildCloses, ChildExits, Chunks
<1> QED BY <1>1, <1>2, <1>3 DEF Chunks, FirstSpawn

LEMMA ChunksKept == IInv /\ Chunks /\ FirstSpawn /\ [Next]_vars => Chunks' /\ FirstSpawn'
<1> SUFFICES ASSUME IInv, Chunks, FirstSpawn, [Next]_vars PROVE Chunks' /\ FirstSpawn'
  OBVIOUS
<1>1. CASE Main
  BY <1>1, MainChunks
<1>2. CASE \E t \in Tracks : Release(t) \/ PumpStep(t) \/ ChildStep(t)
  BY <1>2, ReleaseChunks, PumpChunks, ChildChunks
<1>3. CASE UNCHANGED vars
  BY <1>3 DEF vars, Chunks, FirstSpawn
<1> QED BY <1>1, <1>2, <1>3 DEF Next, Threads, Exited

\* The two tracks' books stay in order: no pipe holds more than it can, a child
\* that runs is one that was spawned, and main's lists are lists of tracks.
THEOREM TypeCorrect == Spec => []TypeOK
<1>1. Init => Chunks /\ FirstSpawn
  BY FeedAssumption DEF Init, Chunks, FirstSpawn
<1>2. Init => Truths
  BY Zenon DEF Init, Truths
<1>3. IInv /\ Chunks /\ Truths => TypeOK
  BY Zenon DEF IInv, Types, Full, Chunks, Truths, TypeOK
<1> QED BY <1>1, <1>2, <1>3, InitIInv, Invariance, ChunksKept, TruthsKept, PTL DEF Spec
=============================================================================
