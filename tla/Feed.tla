--------------------------------- MODULE Feed ---------------------------------
(***************************************************************************)
(* What the two tracks own, and who lets go of it: the SDK's sender and      *)
(* track objects behind a publisher (src/src/agora/audio.rs, video.rs and    *)
(* src/cpp/agora_shim.cpp), the ffmpeg children and their two pipes          *)
(* (src/src/ffmpeg/pipeline.rs).  Main creates, publishes, spawns and hands   *)
(* them to the pumps; pumps respawn children and drop everything on return.  *)
(*                                                                         *)
(* Session.tla has the order of the SDK's other objects, Pump.tla and         *)
(* Framing.tla what is read, Pump.tla the arithmetic of the respawn budget.  *)
(* A child writes any number of chunks.                                     *)
(***************************************************************************)
EXTENDS Naturals

CONSTANTS PipeSize,   \* chunks that fit into a stdout pipe
          MaxSpawns   \* bound: children of one track

ASSUME FeedAssumption == /\ PipeSize \in Nat \ {0}
                         /\ MaxSpawns \in Nat \ {0}

Tracks == {"audio", "video"}

VARIABLES
  mpc,       \* what main is at
  todo,      \* the tracks it is still to do that for
  exit,      \* why it leaves
  tracks,    \* the tracks to publish
  mode,      \* CodecMode
  objs,      \* per track: the SDK objects that exist
  published, \* the tracks the SDK sends
  holder,    \* per track: who drops its publisher and its child
  pump,      \* per track: the pump
  stream,    \* the tracks that have a PipelineStream
  spawned,   \* per track: how many children it has had
  running,   \* per track: those that run and were not told to die
  child,     \* per track: what the last one does
  stdout,    \* per track: chunks in its stdout pipe
  remote,    \* does the input reconnect
  cancelled  \* the CancelToken

mainVars  == <<mpc, todo, exit>>
planVars  == <<tracks, mode, remote>>
sdkVars   == <<objs, published>>
childVars == <<stream, spawned, running, child, stdout>>
vars == <<mainVars, planVars, sdkVars, holder, pump, childVars, cancelled>>

Stages == {"create", "publish", "connect", "spawn", "start"}

TypeOK ==
  /\ mpc \in Stages \cup {"signals", "run", "join", "unwind", "exited"}
  /\ todo \in SUBSET tracks
  /\ exit \in {"no", "early", "ctrlc", "fatal", "ok"}
  /\ tracks \in SUBSET Tracks
  /\ mode \in {"Encoded", "Raw"}
  /\ remote \in BOOLEAN
  /\ objs \in [Tracks -> SUBSET {"sender", "track"}]
  /\ published \in SUBSET Tracks
  /\ holder \in [Tracks -> {"none", "main", "pump"}]
  /\ pump \in [Tracks -> {"absent", "read", "push", "return", "done"}]
  /\ stream \in SUBSET Tracks
  /\ spawned \in [Tracks -> 0 .. MaxSpawns]
  /\ running \in [Tracks -> SUBSET (1 .. MaxSpawns)]
  /\ child \in [Tracks -> {"none", "runs", "stuck", "closed"}]
  /\ stdout \in [Tracks -> 0 .. PipeSize]
  /\ cancelled \in BOOLEAN

\* Audio goes first, then video; with the children and the pumps video does.
First(stage) == IF stage \in {"create", "publish"} THEN "audio" ELSE "video"

\* What a stage is done for.
ForTracks(stage) == IF stage \in {"create", "publish", "spawn", "start"} THEN tracks ELSE {}

Init == /\ tracks \in SUBSET Tracks \ {{}}
        /\ mode \in {"Encoded", "Raw"}
        /\ remote \in BOOLEAN
        /\ mpc = "create" /\ todo = tracks /\ exit = "no"
        /\ objs = [t \in Tracks |-> {}] /\ published = {}
        /\ holder = [t \in Tracks |-> "none"]
        /\ pump = [t \in Tracks |-> "absent"]
        /\ stream = {}
        /\ spawned = [t \in Tracks |-> 0]
        /\ running = [t \in Tracks |-> {}]
        /\ child = [t \in Tracks |-> "none"]
        /\ stdout = [t \in Tracks |-> 0]
        /\ cancelled = FALSE

OnOsThread(t) == t = "video" /\ mode = "Encoded"

-----------------------------------------------------------------------------
(* main(), up to run() *)

\* Main does something for the next track of the stage, or `?` takes it out.
At(stage, t) == mpc = stage /\ t \in todo /\ (First(stage) \in todo => t = First(stage))
Done(t)      == todo' = todo \ {t} /\ UNCHANGED <<mpc, exit>>
Leave(why)   == mpc' = "unwind" /\ todo' = {} /\ exit' = why

\* create_raw, cppshim_*_encoded_create: the sender, then the track on it.
CreateSender(t) ==
  /\ At("create", t)
  /\ objs[t] = {}
  /\ \/ objs' = [objs EXCEPT ![t] = {"sender"}] /\ UNCHANGED mainVars
     \/ Leave("early") /\ UNCHANGED objs
  /\ UNCHANGED <<planVars, published, holder, pump, childVars, cancelled>>

\* Mutant: a null track leaves the sender behind.
CreateTrackMutant(t) ==
  /\ At("create", t)
  /\ objs[t] = {"sender"}
  /\ \/ /\ objs' = [objs EXCEPT ![t] = {"sender", "track"}]
        /\ holder' = [holder EXCEPT ![t] = "main"]
        /\ Done(t)
     \/ Leave("early") /\ UNCHANGED <<objs, holder>>
  /\ UNCHANGED <<planVars, published, pump, childVars, cancelled>>

\* A null track destroys the sender.
CreateTrack(t) ==
  /\ At("create", t)
  /\ objs[t] = {"sender"}
  /\ \/ /\ objs' = [objs EXCEPT ![t] = {"sender", "track"}]
        /\ holder' = [holder EXCEPT ![t] = "main"]
        /\ Done(t)
     \/ /\ objs' = [objs EXCEPT ![t] = {}]
        /\ Leave("early")
        /\ UNCHANGED holder
  /\ UNCHANGED <<planVars, published, pump, childVars, cancelled>>

Publish(t) ==
  /\ At("publish", t)
  /\ \/ published' = published \cup {t} /\ Done(t)
     \/ Leave("early") /\ UNCHANGED published
  /\ UNCHANGED <<planVars, objs, holder, pump, childVars, cancelled>>

\* The pipes go with the stream that has them.
NoChild(t) ==
  /\ child' = [child EXCEPT ![t] = "none"]
  /\ stdout' = [stdout EXCEPT ![t] = 0]

\* spawn_one: a child with empty pipes.
NewChild(t) ==
  /\ spawned' = [spawned EXCEPT ![t] = @ + 1]
  /\ child' = [child EXCEPT ![t] = "runs"]
  /\ stdout' = [stdout EXCEPT ![t] = 0]

\* Pipeline::spawn: when the second spawn fails the first child, not yet in a
\* Pipeline, drops with it.
Spawn(t) ==
  /\ At("spawn", t)
  /\ \/ /\ NewChild(t)
        /\ running' = [running EXCEPT ![t] = {spawned[t] + 1}]
        /\ stream' = stream \cup {t}
        /\ Done(t)
     \/ /\ Leave("early")
        /\ running' = [u \in Tracks |-> {}]
        /\ stream' = {}
        /\ \E u \in Tracks : stream \subseteq {u} /\ NoChild(u)
        /\ UNCHANGED spawned
  /\ UNCHANGED <<planVars, sdkVars, holder, pump, cancelled>>

\* The pump takes the publisher and the stream.
StartPump(t) ==
  /\ At("start", t)
  /\ holder' = [holder EXCEPT ![t] = "pump"]
  /\ pump' = [pump EXCEPT ![t] = "read"]
  /\ Done(t)
  /\ UNCHANGED <<planVars, sdkVars, childVars, cancelled>>

\* On to the next stage.  wait_connected and ctrlc::set_handler may fail.
After == [create |-> "publish", publish |-> "connect", connect |-> "spawn",
          spawn |-> "start", start |-> "signals", signals |-> "run"]

NextStage ==
  /\ mpc \in DOMAIN After
  /\ todo = {}
  /\ \/ mpc' = After[mpc] /\ todo' = ForTracks(After[mpc]) /\ UNCHANGED exit
     \/ mpc = "connect" /\ Leave("early")
     \/ mpc = "signals" /\ Leave("ctrlc")
  /\ UNCHANGED <<planVars, sdkVars, holder, pump, childVars, cancelled>>

Prepare == \/ \E t \in Tracks : \/ CreateSender(t) \/ CreateTrack(t) \/ Publish(t)
                                \/ Spawn(t) \/ StartPump(t)
           \/ NextStage

-----------------------------------------------------------------------------
(* The end of run(), and of main *)

\* A decisive event: Ctrl-C, --duration, the SDK's or a pump's Failed.
RunEnds == /\ mpc = "run"
           /\ mpc' = "join"
           /\ exit' \in {"ok", "fatal"}
           /\ cancelled' = TRUE
           /\ UNCHANGED <<todo, planVars, sdkVars, holder, pump, childVars>>

\* run() joins the tokio pumps; main joins the video thread unless run() failed.
Joined == \A t \in tracks : \/ pump[t] = "done"
                            \/ OnOsThread(t) /\ exit = "fatal"

Join == /\ mpc = "join"
        /\ Joined
        /\ mpc' = "unwind"
        /\ UNCHANGED <<todo, exit, planVars, sdkVars, holder, pump, childVars, cancelled>>

\* The runtime drops the pumps that are left, and what they hold.  A thread that
\* is left ends with the process; nothing drops, and its child runs on.
ProcessExit ==
  /\ mpc = "unwind"
  /\ \A t \in Tracks : holder[t] # "main"
  /\ mpc' = "exited"
  /\ running' = [t \in Tracks |-> IF OnOsThread(t) THEN running[t] ELSE {}]
  /\ stream' = {}
  /\ objs' = [t \in Tracks |-> {}]
  /\ published' = {}
  /\ holder' = [t \in Tracks |-> "none"]
  /\ pump' = [t \in Tracks |-> IF pump[t] = "absent" THEN "absent" ELSE "done"]
  /\ child' = [t \in Tracks |-> "none"]
  /\ stdout' = [t \in Tracks |-> 0]
  /\ UNCHANGED <<todo, exit, planVars, spawned, cancelled>>

-----------------------------------------------------------------------------
(* Drop: of the PipelineStream, then of the publisher *)

\* Main unwinds what it did not hand over; a pump that returns drops its own.
Releasing(t) == \/ holder[t] = "main" /\ mpc = "unwind"
                \/ holder[t] = "pump" /\ pump[t] = "return"

\* kill_on_drop.
DropStream(t) ==
  /\ Releasing(t)
  /\ t \in stream
  /\ stream' = stream \ {t}
  /\ running' = [running EXCEPT ![t] = {}]
  /\ NoChild(t)
  /\ UNCHANGED <<mainVars, planVars, sdkVars, holder, pump, spawned, cancelled>>

Unpublish(t) ==
  /\ Releasing(t)
  /\ t \notin stream
  /\ t \in published
  /\ published' = published \ {t}
  /\ UNCHANGED <<mainVars, planVars, objs, holder, pump, childVars, cancelled>>

\* Mutant: the objects are destroyed in the order of their creation.
DestroyTrackMutant(t) ==
  /\ Releasing(t)
  /\ t \notin stream \cup published
  /\ "sender" \in objs[t]
  /\ objs' = [objs EXCEPT ![t] = @ \ {"sender"}]
  /\ UNCHANGED <<mainVars, planVars, published, holder, pump, childVars, cancelled>>

DestroyTrack(t) ==
  /\ Releasing(t)
  /\ t \notin stream \cup published
  /\ "track" \in objs[t]
  /\ objs' = [objs EXCEPT ![t] = @ \ {"track"}]
  /\ UNCHANGED <<mainVars, planVars, published, holder, pump, childVars, cancelled>>

DestroySender(t) ==
  /\ Releasing(t)
  /\ t \notin stream \cup published
  /\ objs[t] = {"sender"}
  /\ objs' = [objs EXCEPT ![t] = {}]
  /\ holder' = [holder EXCEPT ![t] = "none"]
  /\ pump' = [pump EXCEPT ![t] = IF @ = "return" THEN "done" ELSE @]
  /\ UNCHANGED <<mainVars, planVars, published, childVars, cancelled>>

Release(t) == DropStream(t) \/ Unpublish(t) \/ DestroyTrack(t) \/ DestroySender(t)

-----------------------------------------------------------------------------
(* The pumps *)

PumpGoes(t, from, to) == pump[t] = from /\ pump' = [pump EXCEPT ![t] = to]

pumpFrame == <<mainVars, planVars, sdkVars, holder, cancelled>>

\* Mutant: without anything to read a pump that sees the token polls again.
StopMutant(t) ==
  /\ cancelled
  /\ IF stdout[t] > 0 THEN PumpGoes(t, "read", "return")
                      ELSE pump[t] = "read" /\ UNCHANGED pump
  /\ UNCHANGED <<childVars, pumpFrame>>

Stop(t) ==
  /\ cancelled
  /\ PumpGoes(t, "read", "return")
  /\ UNCHANGED <<childVars, pumpFrame>>

\* Mutant: an empty pipe is read too.
ReadMutant(t) ==
  /\ ~cancelled
  /\ PumpGoes(t, "read", "push")
  /\ stdout' = [stdout EXCEPT ![t] = @ - 1]
  /\ UNCHANGED <<stream, spawned, running, child, pumpFrame>>

Read(t) ==
  /\ ~cancelled
  /\ stdout[t] > 0
  /\ PumpGoes(t, "read", "push")
  /\ stdout' = [stdout EXCEPT ![t] = @ - 1]
  /\ UNCHANGED <<stream, spawned, running, child, pumpFrame>>

\* Sleep until the frames are due and push them; the SDK, or the parser, may
\* refuse.
Push(t) ==
  /\ PumpGoes(t, "push", "read") \/ PumpGoes(t, "push", "return")
  /\ UNCHANGED <<childVars, pumpFrame>>

\* read() returns 0: the pipe is empty and the child has closed it.
Eof(t) == ~cancelled /\ stdout[t] = 0 /\ child[t] = "closed"

\* Mutant: the old child is forgotten, neither killed nor dropped.
RespawnMutant(t) ==
  /\ Eof(t)
  /\ pump[t] = "read"
  /\ remote /\ spawned[t] < MaxSpawns
  /\ NewChild(t)
  /\ running' = [running EXCEPT ![t] = @ \cup {spawned[t] + 1}]
  /\ UNCHANGED <<pump, stream, pumpFrame>>

\* start_kill on the old child, spawn_one; on Err the stream keeps the old one.
Respawn(t) ==
  /\ Eof(t)
  /\ remote /\ spawned[t] < MaxSpawns
  /\ \/ /\ pump[t] = "read"
        /\ NewChild(t)
        /\ running' = [running EXCEPT ![t] = {spawned[t] + 1}]
        /\ UNCHANGED pump
     \/ /\ PumpGoes(t, "read", "return")
        /\ running' = [running EXCEPT ![t] = {}]
        /\ UNCHANGED <<spawned, child, stdout>>
  /\ UNCHANGED <<stream, pumpFrame>>

\* Mutant: an exhausted budget is not a reason to return.
GiveUpMutant(t) ==
  /\ Eof(t)
  /\ ~remote
  /\ PumpGoes(t, "read", "return")
  /\ UNCHANGED <<childVars, pumpFrame>>

GiveUp(t) ==
  /\ Eof(t)
  /\ ~remote \/ spawned[t] = MaxSpawns
  /\ PumpGoes(t, "read", "return")
  /\ UNCHANGED <<childVars, pumpFrame>>

PumpStep(t) == Stop(t) \/ Read(t) \/ Push(t) \/ Respawn(t) \/ GiveUp(t)

-----------------------------------------------------------------------------
(* ffmpeg: external *)

childFrame == <<mainVars, planVars, sdkVars, holder, pump, stream, spawned, cancelled>>

\* It waits while its stdout is full.
ChildWrites(t) ==
  /\ running[t] # {} /\ child[t] = "runs"
  /\ stdout[t] < PipeSize
  /\ stdout' = [stdout EXCEPT ![t] = @ + 1]
  /\ UNCHANGED <<running, child, childFrame>>

\* Nobody reads its stderr: the error that does not fit stops it for good.
ChildLogs(t) ==
  /\ running[t] # {} /\ child[t] = "runs"
  /\ child' = [child EXCEPT ![t] = "stuck"]
  /\ UNCHANGED <<running, stdout, childFrame>>

\* It has written all, or lost its source.  The process may linger.
ChildCloses(t) ==
  /\ running[t] # {} /\ child[t] = "runs"
  /\ child' = [child EXCEPT ![t] = "closed"]
  /\ UNCHANGED <<running, stdout, childFrame>>

ChildExits(t) ==
  /\ spawned[t] \in running[t] /\ child[t] = "closed"
  /\ running' = [running EXCEPT ![t] = @ \ {spawned[t]}]
  /\ UNCHANGED <<child, stdout, childFrame>>

ChildStep(t) == ChildWrites(t) \/ ChildLogs(t) \/ ChildCloses(t) \/ ChildExits(t)

-----------------------------------------------------------------------------
Exited == mpc = "exited" /\ UNCHANGED vars

Main == Prepare \/ RunEnds \/ Join \/ ProcessExit

Threads == /\ mpc # "exited"
           /\ \E t \in Tracks : Release(t) \/ PumpStep(t)

Next == Main \/ Threads \/ (\E t \in Tracks : ChildStep(t)) \/ Exited

\* Main and the pumps are scheduled; nobody need end the run, and a child may
\* be silent for ever.
Spec == /\ Init /\ [][Next]_vars
        /\ WF_vars(Prepare \/ Join \/ ProcessExit)
        /\ \A t \in Tracks : /\ WF_vars(mpc # "exited" /\ Release(t))
                             /\ WF_vars(mpc # "exited" /\ PumpStep(t))

-----------------------------------------------------------------------------
(* Properties *)

\* Nothing is used after it was destroyed: the SDK sends only tracks that exist,
\* a track exists only with its sender, and who may still push holds both.
\* audio.rs:202-211, video.rs:227-236 are to undo what create_raw and publish
\* did in the opposite order, on every way out.
UsedIsAlive ==
  \A t \in Tracks :
    /\ t \in published => "track" \in objs[t]
    /\ "track" \in objs[t] => "sender" \in objs[t]
    /\ pump[t] \in {"read", "push"} => objs[t] = {"sender", "track"} /\ t \in published

\* pipeline.rs:88-93: a track has one ffmpeg at most, its stream's, and none
\* once the stream is dropped; except after a fatal event, when the process
\* ends under the video thread and its child is left to itself.
NoStrayChild ==
  \A t \in Tracks :
    \/ running[t] \subseteq (IF t \in stream THEN {spawned[t]} ELSE {})
    \/ mpc = "exited" /\ OnOsThread(t) /\ exit \in {"fatal", "ctrlc"}

\* When the process ends everything was released by its owner, unless the video
\* thread was not waited for or installing the Ctrl-C handler failed.
ExitIsClean ==
  [][mpc # "exited" /\ mpc' = "exited" =>
       \A t \in Tracks :
         \/ objs[t] = {} /\ t \notin published /\ running[t] = {}
         \/ exit = "fatal" /\ OnOsThread(t)
         \/ exit = "ctrlc"]_vars

\* A stopped run lets go of both tracks, though a child may be stuck for ever.
StopFreesTheTracks == cancelled ~> \A t \in Tracks : pump[t] \in {"absent", "done"}

\* A child that waits for room in its pipe, or whose end is to be noticed, is
\* attended to, whatever the other track's child does: it may be stuck on the
\* stderr that nobody reads, pipeline.rs:237-238.
ChildIsAttended ==
  \A t \in Tracks :
    stdout[t] = PipeSize \/ child[t] = "closed" ~>
      stdout[t] < PipeSize /\ child[t] # "closed"
=============================================================================
