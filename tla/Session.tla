------------------------------- MODULE Session -------------------------------
(***************************************************************************)
(* The life of one run of the program: Session of src/src/agora/session.rs,   *)
(* driven by main() of src/src/main.rs, with the SDK's callback thread        *)
(* (src/src/agora/observer.rs), the pumps and the token-renewal task that     *)
(* main starts, and the order in which everything is acquired and released.  *)
(*                                                                         *)
(* Main is sequential; mpc names its next step.  The pumps, the renewal      *)
(* task, the SDK and the user's Ctrl-C interleave with it.  The loop inside  *)
(* a pump is Pump.tla's; here a pump reads, drains, may report Failed, and   *)
(* returns.  CancelToken is the one-shot latch of Latch.tla.                 *)
(***************************************************************************)
EXTENDS Naturals, Sequences

CONSTANT MaxEvents  \* bound: the SDK calls back while the channel's history is shorter
ASSUME MaxEventsAssumption == MaxEvents \in Nat

Tracks == {"audio", "video"}
Tasks  == Tracks \cup {"renew"}

\* What exists in the SDK, and what each of these needs while it exists.
Handles == {"svc", "factory", "conn", "observer", "userObs", "link"}
Needs == [svc      |-> {},
          factory  |-> {"svc"},
          conn     |-> {"svc"},
          observer |-> {"conn"},
          userObs  |-> {"conn"},   \* it borrows conn's local user
          link     |-> {"conn"}]

Callbacks   == {"Connected", "Disconnected", "ConnectionLost", "Failed"}
ConnEvents  == Callbacks \cup {"Shutdown"}
FatalEvents == {"Disconnected", "ConnectionLost", "Failed"}

\* TokenWillExpire is never sent on this channel, so Continue never arises.
outcome_for(ev) == IF ev = "Connected" THEN "Ready"
                   ELSE IF ev = "Shutdown" THEN "Stop" ELSE "Fatal"

VARIABLES
  mpc,       \* main's next step
  exit,      \* why main is leaving; "no" while it is not
  live,      \* the SDK objects and registrations that exist
  eventTx,   \* EVENT_TX is set
  renewTx,   \* RENEW_TX is set
  chan,      \* the event channel: every event sent while somebody reads it ...
  head,      \* ... and how many of them were received
  renewQ,    \* TokenWillExpire events waiting for the renewal task
  renewCmd,  \* --token-renew-cmd was given
  tracks,    \* the tracks to publish (from the probe and the CLI)
  mode,      \* the CodecMode
  pub,       \* per track: "none", "created", "published"
  task,      \* per pump and for the renewal task: what it is doing
  handles,   \* the tasks whose JoinHandle is in pump_handles
  cancelled, \* the CancelToken
  stoppers   \* the sources of Shutdown that are armed

vars == <<mpc, exit, live, eventTx, renewTx, chan, head, renewQ, renewCmd,
          tracks, mode, pub, task, handles, cancelled, stoppers>>

sdkVars  == <<live, eventTx, renewTx>>
planVars == <<renewCmd, tracks, mode>>
taskVars == <<task, handles, cancelled, renewQ>>

Connecting == {"service", "initialize", "factory", "conn", "observer",
               "userObs", "connect"}
Undoing    == {"undoObserver", "undoConn", "undoFactory", "undoService"}
Starting   == {"renewTx", "probe", "createAudio", "createVideo",
               "publishAudio", "publishVideo"}
Launching  == {"spawn", "startVideo", "startAudio", "startRenew", "signals"}
Stopping   == {"cancel", "join", "joinThread"}
Dropping   == {"dropUserObs", "disconnect", "unregister", "dropConn",
               "dropFactory", "release", "clear"}
MainSteps  == Connecting \cup Undoing \cup Starting \cup Launching \cup Stopping \cup Dropping
              \cup {"wait", "run", "unwind", "returned", "exited"}

Exits == {"no", "connect", "early", "ctrlc", "fatal", "ok"}

TypeOK ==
  /\ mpc \in MainSteps
  /\ exit \in Exits
  /\ live \in SUBSET Handles
  /\ eventTx \in BOOLEAN
  /\ renewTx \in BOOLEAN
  /\ chan \in Seq(ConnEvents)
  /\ head \in 0..Len(chan)
  /\ renewQ \in 0..1
  /\ renewCmd \in BOOLEAN
  /\ tracks \in SUBSET Tracks
  /\ mode \in {"Encoded", "Raw"}
  /\ pub \in [Tracks -> {"none", "created", "published"}]
  /\ task \in [Tasks -> {"absent", "select", "drain", "command", "apply",
                         "return", "done"}]
  /\ handles \in SUBSET Tasks
  /\ cancelled \in BOOLEAN
  /\ stoppers \in SUBSET {"sigint", "timer"}

Init == /\ mpc = "service"
        /\ exit = "no"
        /\ live = {}
        /\ eventTx = FALSE
        /\ renewTx = FALSE
        /\ chan = <<>>
        /\ head = 0
        /\ renewQ = 0
        /\ renewCmd \in BOOLEAN
        /\ tracks = {}
        /\ mode = "Encoded"
        /\ pub = [t \in Tracks |-> "none"]
        /\ task = [t \in Tasks |-> "absent"]
        /\ handles = {}
        /\ cancelled = FALSE
        /\ stoppers = {}

-----------------------------------------------------------------------------
(* Helpers *)

Goto(from, to) == mpc = from /\ mpc' = to

\* Once main is leaving nobody receives: what is sent then has no effect.
Send(ev) == chan' = IF exit = "no" THEN Append(chan, ev) ELSE chan

\* The encoded-video pump runs on its own OS thread and has no JoinHandle<()>
\* in the session; every other pump and the renewal task are tokio tasks.
OnOsThread(t) == t = "video" /\ mode = "Encoded"

\* `?` in main once the session exists: the locals are dropped.
Leave(from, why) == Goto(from, "unwind") /\ exit' = why

-----------------------------------------------------------------------------
(* Session::connect: staged acquisition *)

Acquire(at, h, to) ==
  /\ Goto(at, to)
  /\ live' = live \cup {h}
  /\ UNCHANGED <<exit, renewTx, chan, head, planVars, pub, taskVars, stoppers>>

\* Mutant: the stage that was added last forgets the observer.
UndoFromMutant == [service    |-> "returned",
                   initialize |-> "undoService",
                   factory    |-> "undoService",
                   conn       |-> "undoFactory",
                   observer   |-> "undoConn",
                   userObs    |-> "undoConn",
                   connect    |-> "undoObserver"]

\* Where the failure of a stage begins to undo those before it: each has a copy
\* of the same calls, in the same order, from its own first one on.
UndoFrom == [service    |-> "returned",
             initialize |-> "undoService",
             factory    |-> "undoService",
             conn       |-> "undoFactory",
             observer   |-> "undoConn",
             userObs    |-> "undoObserver",
             connect    |-> "undoObserver"]

\* clear_event_sender comes before the rest; EVENT_TX is not set before the
\* observer stage.
ConnectFails(at) ==
  /\ Goto(at, UndoFrom[at])
  /\ exit' = "connect"
  /\ eventTx' = FALSE
  /\ UNCHANGED <<live, renewTx, chan, head, planVars, pub, taskVars, stoppers>>

Destroy(at, h, to) ==
  /\ Goto(at, to)
  /\ live' = live \ {h}
  /\ UNCHANGED <<exit, eventTx, renewTx, chan, head, planVars, pub, taskVars, stoppers>>

UndoObserver == Destroy("undoObserver", "observer", "undoConn")
UndoConn     == Destroy("undoConn", "conn", "undoFactory")
UndoFactory  == Destroy("undoFactory", "factory", "undoService")
UndoService  == Destroy("undoService", "svc", "returned")

CreateService == Acquire("service", "svc", "initialize") /\ UNCHANGED eventTx

InitializeService ==
  /\ Goto("initialize", "factory")
  /\ UNCHANGED <<exit, sdkVars, chan, head, planVars, pub, taskVars, stoppers>>

CreateFactory == Acquire("factory", "factory", "conn") /\ UNCHANGED eventTx

CreateConn == Acquire("conn", "conn", "observer") /\ UNCHANGED eventTx

\* set_event_sender, then agora_rtc_conn_register_observer.
RegisterObserver == Acquire("observer", "observer", "userObs") /\ eventTx' = TRUE

RegisterUserObserver == Acquire("userObs", "userObs", "connect") /\ UNCHANGED eventTx

StartConnect == Acquire("connect", "link", "renewTx") /\ UNCHANGED eventTx

Connect == \/ CreateService \/ InitializeService \/ CreateFactory \/ CreateConn
           \/ RegisterObserver \/ RegisterUserObserver \/ StartConnect
           \/ \E at \in Connecting : ConnectFails(at)
           \/ UndoObserver \/ UndoConn \/ UndoFactory \/ UndoService

-----------------------------------------------------------------------------
(* main(): from connect() to run() *)

\* Mutant: the Ctrl-C handler is installed as soon as the session exists.
SetRenewSenderMutant ==
  /\ Goto("renewTx", "probe")
  /\ renewTx' = renewCmd
  /\ stoppers' = {"sigint"}
  /\ UNCHANGED <<exit, live, eventTx, chan, head, planVars, pub, taskVars>>

SetRenewSender ==
  /\ Goto("renewTx", "probe")
  /\ renewTx' = renewCmd
  /\ UNCHANGED <<exit, live, eventTx, chan, head, planVars, pub, taskVars, stoppers>>

\* ffprobe, the checks on its answer, and decide(); any non-empty set of
\* tracks may be left by --audio-only / --video-only and the input.
Probe ==
  /\ \/ /\ Goto("probe", "createAudio")
        /\ \E ts \in SUBSET Tracks \ {{}}, m \in {"Encoded", "Raw"} :
             tracks' = ts /\ mode' = m
        /\ UNCHANGED exit
     \/ /\ Leave("probe", "early")
        /\ UNCHANGED <<tracks, mode>>
  /\ UNCHANGED <<sdkVars, chan, head, renewCmd, pub, taskVars, stoppers>>

\* One step of main for one track: skipped when the track is not published.
TrackStep(at, to, t, state) ==
  /\ \/ /\ Goto(at, to)
        /\ pub' = IF t \in tracks THEN [pub EXCEPT ![t] = state] ELSE pub
        /\ UNCHANGED exit
     \/ /\ t \in tracks
        /\ Leave(at, "early")
        /\ UNCHANGED pub
  /\ UNCHANGED <<sdkVars, chan, head, planVars, taskVars, stoppers>>

CreateAudioPublisher == TrackStep("createAudio", "createVideo", "audio", "created")
CreateVideoPublisher == TrackStep("createVideo", "publishAudio", "video", "created")
PublishAudio == TrackStep("publishAudio", "publishVideo", "audio", "published")
PublishVideo == TrackStep("publishVideo", "wait", "video", "published")

Received == chan[head + 1]

\* wait_connected: Ready ends the wait, Fatal fails it, the rest is noise.
AfterWait == [Ready |-> "spawn", Fatal |-> "unwind", Stop |-> "wait"]

WaitConnected ==
  /\ mpc = "wait"
  /\ head < Len(chan)
  /\ head' = head + 1
  /\ mpc' = AfterWait[outcome_for(Received)]
  /\ exit' = IF outcome_for(Received) = "Fatal" THEN "early" ELSE exit
  /\ UNCHANGED <<sdkVars, chan, planVars, pub, taskVars, stoppers>>

\* Mutant: the deadline is looked at only when an event has arrived.
ConnectTimeoutMutant ==
  /\ head < Len(chan)
  /\ Leave("wait", "early")
  /\ UNCHANGED <<sdkVars, chan, head, planVars, pub, taskVars, stoppers>>

ConnectTimeout ==
  /\ Leave("wait", "early")
  /\ UNCHANGED <<sdkVars, chan, head, planVars, pub, taskVars, stoppers>>

SpawnPipeline ==
  /\ \/ Goto("spawn", "startVideo") /\ UNCHANGED exit
     \/ Leave("spawn", "early")
  /\ UNCHANGED <<sdkVars, chan, head, planVars, pub, taskVars, stoppers>>

\* Spawn one task if it is wanted and register its JoinHandle when it has one;
\* a pump takes its publisher with it.
StartTask(at, to, t, wanted) ==
  /\ Goto(at, to)
  /\ task' = IF wanted THEN [task EXCEPT ![t] = "select"] ELSE task
  /\ handles' = IF wanted /\ ~OnOsThread(t) THEN handles \cup {t} ELSE handles
  /\ UNCHANGED <<exit, sdkVars, chan, head, planVars, pub, cancelled, renewQ, stoppers>>

StartVideoPump == StartTask("startVideo", "startAudio", "video", "video" \in tracks)

\* Mutant: the audio pump's JoinHandle is not registered.
StartAudioPumpMutant ==
  /\ Goto("startAudio", "startRenew")
  /\ task' = IF "audio" \in tracks THEN [task EXCEPT !["audio"] = "select"] ELSE task
  /\ UNCHANGED <<exit, sdkVars, chan, head, planVars, pub, handles, cancelled,
                 renewQ, stoppers>>

StartAudioPump == StartTask("startAudio", "startRenew", "audio", "audio" \in tracks)
StartRenewTask == StartTask("startRenew", "signals", "renew", renewCmd)

\* ctrlc::set_handler, then the --duration timer if one was asked for.
InstallSignals ==
  /\ \/ /\ Goto("signals", "run")
        /\ stoppers' \in {{"sigint"}, {"sigint", "timer"}}
        /\ UNCHANGED exit
     \/ /\ Leave("signals", "ctrlc")
        /\ UNCHANGED stoppers
  /\ UNCHANGED <<sdkVars, chan, head, planVars, pub, taskVars>>

Start == \/ SetRenewSender \/ Probe
         \/ CreateAudioPublisher \/ CreateVideoPublisher
         \/ PublishAudio \/ PublishVideo
         \/ WaitConnected \/ ConnectTimeout
         \/ SpawnPipeline \/ StartVideoPump \/ StartAudioPump \/ StartRenewTask
         \/ InstallSignals

-----------------------------------------------------------------------------
(* Session::run, main's exit path and Session::drop *)

\* Mutant: skips to the newest event instead of taking the oldest.
RunEventMutant ==
  /\ mpc = "run"
  /\ head < Len(chan)
  /\ head' = Len(chan)
  /\ LET out == outcome_for(chan[Len(chan)])
     IN  /\ mpc' = IF out = "Ready" THEN "run" ELSE "cancel"
         /\ exit' = IF out = "Ready" THEN exit ELSE IF out = "Stop" THEN "ok" ELSE "fatal"
  /\ UNCHANGED <<sdkVars, chan, planVars, pub, taskVars, stoppers>>

RunEvent ==
  /\ mpc = "run"
  /\ head < Len(chan)
  /\ head' = head + 1
  /\ \/ /\ outcome_for(Received) = "Ready"
        /\ UNCHANGED <<mpc, exit>>
     \/ /\ outcome_for(Received) = "Stop"
        /\ Goto("run", "cancel")
        /\ exit' = "ok"
     \/ /\ outcome_for(Received) = "Fatal"
        /\ Goto("run", "cancel")
        /\ exit' = "fatal"
  /\ UNCHANGED <<sdkVars, chan, planVars, pub, taskVars, stoppers>>

\* Mutant: run() joins the pumps without firing the token first.
CancelTasksMutant ==
  /\ Goto("cancel", "join")
  /\ UNCHANGED <<exit, sdkVars, chan, head, planVars, pub, taskVars, stoppers>>

CancelTasks ==
  /\ Goto("cancel", "join")
  /\ cancelled' = TRUE
  /\ UNCHANGED <<exit, sdkVars, chan, head, planVars, pub, task, handles, renewQ, stoppers>>

\* The handles are awaited one after the other; their order changes nothing.
JoinTask ==
  /\ mpc = "join"
  /\ \E t \in handles : task[t] = "done" /\ handles' = handles \ {t}
  /\ UNCHANGED <<mpc, exit, sdkVars, chan, head, planVars, pub, task, cancelled,
                 renewQ, stoppers>>

\* run() returns; `?` takes a fatal outcome past the join of the video thread.
RunReturns ==
  /\ handles = {}
  /\ Goto("join", IF exit = "ok" THEN "joinThread" ELSE "unwind")
  /\ UNCHANGED <<exit, sdkVars, chan, head, planVars, pub, taskVars, stoppers>>

JoinVideoThread ==
  /\ OnOsThread("video") => task["video"] \in {"absent", "done"}
  /\ Goto("joinThread", "dropUserObs")
  /\ UNCHANGED <<exit, sdkVars, chan, head, planVars, pub, taskVars, stoppers>>

\* The publishers main still owns drop before the session, which was declared
\* first; those moved into a pump belong to that pump.
Unwind ==
  /\ Goto("unwind", "dropUserObs")
  /\ pub' = [t \in Tracks |-> IF task[t] = "absent" THEN "none" ELSE pub[t]]
  /\ UNCHANGED <<exit, sdkVars, chan, head, planVars, taskVars, stoppers>>

DestroyUserObserver == Destroy("dropUserObs", "userObs", "disconnect")
Disconnect          == Destroy("disconnect", "link", "unregister")

UnregisterObserver  == Destroy("unregister", "observer", "dropConn")
DestroyConn         == Destroy("dropConn", "conn", "dropFactory")
DestroyFactory      == Destroy("dropFactory", "factory", "release")

\* Mutant: the service is not released.
ReleaseServiceMutant == Destroy("release", "factory", "clear")

ReleaseService      == Destroy("release", "svc", "clear")

ClearSenders ==
  /\ Goto("clear", "returned")
  /\ eventTx' = FALSE
  /\ renewTx' = FALSE
  /\ UNCHANGED <<exit, live, chan, head, planVars, pub, taskVars, stoppers>>

\* main's future is done: the runtime drops the tasks that are left, and the
\* process ends with the threads that are left.
ProcessExit ==
  /\ Goto("returned", "exited")
  /\ task' = [t \in Tasks |-> IF task[t] = "absent" THEN "absent" ELSE "done"]
  /\ pub' = [t \in Tracks |-> "none"]
  /\ UNCHANGED <<exit, sdkVars, chan, head, planVars, handles, cancelled, renewQ, stoppers>>

Stop == \/ RunEvent \/ CancelTasks \/ JoinTask \/ RunReturns \/ JoinVideoThread
        \/ Unwind \/ DestroyUserObserver \/ Disconnect \/ UnregisterObserver
        \/ DestroyConn \/ DestroyFactory \/ ReleaseService \/ ClearSenders
        \/ ProcessExit

-----------------------------------------------------------------------------
(* The pumps *)

Pump(t, from, to) == task[t] = from /\ task' = [task EXCEPT ![t] = to]

\* select! is biased: a task that finds the token fired returns.  Its two polls are
\* one step here: what a task takes when the token fires between them, it could
\* have taken before (TokenRenewal has them apart).
PumpStop(t) ==
  /\ cancelled
  /\ Pump(t, "select", "return")
  /\ UNCHANGED <<mpc, exit, sdkVars, chan, head, planVars, pub, handles, cancelled,
                 renewQ, stoppers>>

PumpRead(t) ==
  /\ ~cancelled
  /\ Pump(t, "select", "drain")
  /\ UNCHANGED <<mpc, exit, sdkVars, chan, head, planVars, pub, handles, cancelled,
                 renewQ, stoppers>>

\* End of the input: silent for a local file, Failed when a remote source is
\* given up, ffmpeg cannot be respawned or the pipe fails.
PumpEnd(t) ==
  /\ ~cancelled
  /\ Pump(t, "select", "return")
  /\ Send("Failed") \/ UNCHANGED chan
  /\ UNCHANGED <<mpc, exit, sdkVars, head, planVars, pub, handles, cancelled,
                 renewQ, stoppers>>

\* The buffered frames are pushed; the token is not looked at meanwhile.
PumpDrain(t) ==
  /\ \/ Pump(t, "drain", "select") /\ UNCHANGED chan
     \/ Pump(t, "drain", "return") /\ Send("Failed")
  /\ UNCHANGED <<mpc, exit, sdkVars, head, planVars, pub, handles, cancelled,
                 renewQ, stoppers>>

\* The pump's publisher drops: unpublish on conn, then destroy.
PumpReturn(t) ==
  /\ Pump(t, "return", "done")
  /\ pub' = [pub EXCEPT ![t] = "none"]
  /\ UNCHANGED <<mpc, exit, sdkVars, chan, head, planVars, handles, cancelled,
                 renewQ, stoppers>>

PumpStep(t) == \/ PumpStop(t) \/ PumpRead(t) \/ PumpEnd(t)
               \/ PumpDrain(t) \/ PumpReturn(t)

-----------------------------------------------------------------------------
(* The token-renewal task *)

renewFrame == <<mpc, exit, sdkVars, chan, head, planVars, pub, handles, cancelled,
                stoppers>>

RenewStop == cancelled /\ Pump("renew", "select", "done") /\ UNCHANGED <<renewQ, renewFrame>>

\* Mutant: takes an event without waiting for one.
RenewTakeMutant ==
  /\ ~cancelled
  /\ renewQ' = renewQ - 1
  /\ Pump("renew", "select", "command")
  /\ UNCHANGED renewFrame

RenewTake ==
  /\ ~cancelled
  /\ renewQ > 0
  /\ renewQ' = renewQ - 1
  /\ Pump("renew", "select", "command")
  /\ UNCHANGED renewFrame

\* recv() returns None: the only sender was RENEW_TX.
RenewClosed ==
  /\ ~cancelled
  /\ renewQ = 0 /\ ~renewTx
  /\ Pump("renew", "select", "done")
  /\ UNCHANGED <<renewQ, renewFrame>>

\* `sh -c` ends: with a token, or with an error that is only logged.
RenewCommandEnds ==
  /\ Pump("renew", "command", "apply") \/ Pump("renew", "command", "select")
  /\ UNCHANGED <<renewQ, renewFrame>>

\* RenewHandle::renew on conn.
RenewApply == Pump("renew", "apply", "select") /\ UNCHANGED <<renewQ, renewFrame>>

RenewStep == \/ RenewStop \/ RenewTake \/ RenewClosed \/ RenewCommandEnds
             \/ RenewApply

-----------------------------------------------------------------------------
(* The SDK's callback thread, and whoever asks for a shutdown *)

callbackFrame == <<mpc, exit, sdkVars, head, planVars, pub, task, handles,
                   cancelled, stoppers>>

\* on_connected, on_disconnected, on_connection_lost, and the three callbacks
\* that emit Failed.  A trampoline emits to EVENT_TX while it is set.
Callback(ev) ==
  /\ {"observer", "link"} \subseteq live
  /\ eventTx
  /\ Len(chan) < MaxEvents
  /\ Send(ev)
  /\ UNCHANGED <<renewQ, callbackFrame>>

\* on_token_privilege_will_expire: dropped unless RENEW_TX is set.
TokenWillExpire ==
  /\ {"observer", "link"} \subseteq live
  /\ renewTx
  /\ renewQ' = 1      \* bound: a second warning waiting behind one changes nothing
  /\ UNCHANGED <<chan, callbackFrame>>

\* Ctrl-C, or the end of --duration; a second Ctrl-C changes nothing.
AskToStop(s) ==
  /\ s \in stoppers
  /\ stoppers' = stoppers \ {s}
  /\ Send("Shutdown")
  /\ UNCHANGED <<mpc, exit, sdkVars, head, planVars, pub, taskVars>>

Environment == \/ \E ev \in Callbacks : Callback(ev)
               \/ TokenWillExpire
               \/ \E s \in {"sigint", "timer"} : AskToStop(s)

-----------------------------------------------------------------------------
Exited == mpc = "exited" /\ UNCHANGED vars

Main == Connect \/ Start \/ Stop

\* ProcessExit ends every thread.
Threads == /\ mpc # "exited"
           /\ \/ \E t \in Tracks : PumpStep(t)
              \/ RenewStep
              \/ Environment

Next == Main \/ Threads \/ Exited

\* Main never waits but where its guards say so; a spawned thread or task is
\* scheduled; a read of ffmpeg's pipe, an SDK call and the renewal command
\* return.  The SDK need not call back and nobody need press Ctrl-C.
Fairness == /\ WF_vars(Main)
            /\ \A t \in Tracks : WF_vars(mpc # "exited" /\ PumpStep(t))
            /\ WF_vars(mpc # "exited" /\ RenewStep)

Spec == Init /\ [][Next]_vars /\ Fairness

\* The same, except that the renewal command may hang.
SpecHangingCommand ==
  /\ Init /\ [][Next]_vars
  /\ WF_vars(Main)
  /\ \A t \in Tracks : WF_vars(mpc # "exited" /\ PumpStep(t))
  /\ WF_vars(/\ mpc # "exited"
             /\ RenewStop \/ RenewTake \/ RenewClosed \/ RenewApply)

-----------------------------------------------------------------------------
(* Properties *)

\* Session::drop, the staged connect() and each call of its undo: whatever exists
\* has what it needs.  The one exception is what the undo forgets, the user
\* observer: UserObserverBeforeConn is about it.
NoOrphans ==
  \A h \in live : Needs[h] \subseteq live \/ (h = "userObs" /\ exit = "connect")

\* Whoever will still call the SDK through conn: an undropped publisher
\* (its Drop unpublishes), a renewal task (it renews the token).
UsesConn(t) == IF t \in Tracks THEN pub[t] # "none"
                               ELSE task[t] \in {"select", "command", "apply"}

\* session.rs:138-146: every task run() joins has let go of conn before conn is
\* destroyed, whatever ends the run.  Two ways out go past a join and are the
\* only ones that may leave a user behind: the encoded-video thread after a
\* fatal event, and any task after a failed ctrlc::set_handler.
ConnOutlivesItsUsers ==
  \A t \in Tasks : UsesConn(t) /\ "conn" \notin live =>
                     \/ exit = "ctrlc"
                     \/ exit = "fatal" /\ OnOsThread(t)

\* The first decisive event sent ends the run and decides its exit code: run()
\* takes the events in order, and skips none.
FirstDecisiveEventWins ==
  exit \in {"ok", "fatal"} =>
    /\ \A i \in 1 .. head - 1 : chan[i] = "Connected"
    /\ chan[head] \in IF exit = "ok" THEN {"Shutdown"} ELSE FatalEvents

\* session.rs:311: while wait_connected may run, no Shutdown can be queued.
NoStopWhileWaiting ==
  mpc \in Connecting \cup Starting \cup {"wait"} =>
    \A i \in 1 .. Len(chan) : chan[i] # "Shutdown"

\* Every way out releases everything; a failing connect() may leave the user
\* observer behind, and nothing else.
AllReleased ==
  mpc = "exited" =>
    /\ live \subseteq IF exit = "connect" THEN {"userObs"} ELSE {}
    /\ ~eventTx /\ ~renewTx

\* A decisive event ends the program: nothing main waits for on its way out
\* (run's joins, the video thread) fails to come.
DecisiveEventExits ==
  (\E i \in 1 .. Len(chan) : chan[i] # "Connected") ~> mpc = "exited"

\* wait_connected does not hold main for ever, whatever the SDK reports.
WaitEnds == mpc = "wait" ~> mpc # "wait"

-----------------------------------------------------------------------------
(* What comments of the code say and the code does not do *)

\* main.rs:411-413: the video thread is joined before Session teardown so that
\* the encoded publisher drops while conn is alive.
EncodedVideoDropsOnLiveConn ==
  exit # "ctrlc" /\ OnOsThread("video") /\ pub["video"] # "none" => "conn" \in live

\* session.rs:417: the C++ observer goes before conn does, it borrows its user.
UserObserverBeforeConn == "userObs" \in live => "conn" \in live

\* main.rs:341-344, session.rs:353-356: a Shutdown makes run() fire the token and
\* join the renewal task, and the program ends; whatever the command does.
StopExits == (\E i \in 1 .. Len(chan) : chan[i] = "Shutdown") ~> mpc = "exited"
=============================================================================
