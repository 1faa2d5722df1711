---------------------------- MODULE SessionProofs ----------------------------
(***************************************************************************)
(* Session for any number of SDK callbacks: its type, that the SDK objects    *)
(* are released in an order that never leaves one without what it needs, and *)
(* that conn outlives everybody who calls through it but for the two exits    *)
(* the property names.                                                       *)
(***************************************************************************)
EXTENDS Session, TLAPS

USE DEF Goto, Leave, Acquire, Destroy, TrackStep, StartTask, Pump,
        sdkVars, planVars, taskVars, renewFrame, callbackFrame

-----------------------------------------------------------------------------
(* Types *)

LEMMA SendTyped ==
  ASSUME TypeOK, NEW ev \in ConnEvents, Send(ev)
  PROVE  /\ chan' \in Seq(ConnEvents)
         /\ head \in 0..Len(chan')
BY DEF TypeOK, Send

LEMMA TypeInit == Init => TypeOK
<1> SUFFICES ASSUME Init PROVE TypeOK
  OBVIOUS
<1>1. chan \in Seq(ConnEvents) /\ head \in 0..Len(chan) /\ renewQ \in 0..1
  BY DEF Init
<1>2. mpc \in MainSteps /\ exit \in Exits
  BY DEF Init, MainSteps, Connecting, Exits
<1>3. /\ pub \in [Tracks -> {"none", "created", "published"}]
      /\ task \in [Tasks -> {"absent", "select", "drain", "command", "apply",
                             "return", "done"}]
  BY DEF Init
<1>4. live \in SUBSET Handles /\ handles \in SUBSET Tasks /\ tracks \in SUBSET Tracks
      /\ stoppers \in SUBSET {"sigint", "timer"}
  BY DEF Init
<1>5. eventTx \in BOOLEAN /\ renewTx \in BOOLEAN /\ renewCmd \in BOOLEAN
      /\ cancelled \in BOOLEAN /\ mode \in {"Encoded", "Raw"}
  BY DEF Init
<1> QED
  BY <1>1, <1>2, <1>3, <1>4, <1>5 DEF TypeOK

LEMMA TypeConnect == TypeOK /\ Connect => TypeOK'
<1> SUFFICES ASSUME TypeOK, Connect PROVE TypeOK'
  OBVIOUS
<1> USE DEF TypeOK, MainSteps, Connecting, Undoing, Starting, Exits, Handles
<1>1. ASSUME NEW at \in Connecting, ConnectFails(at) PROVE TypeOK'
  <2>1. UndoFrom[at] \in Undoing \cup {"returned"}
    BY DEF UndoFrom
  <2>2. mpc' \in MainSteps /\ exit' \in Exits /\ eventTx' \in BOOLEAN
    BY <1>1, <2>1 DEF ConnectFails
  <2> QED
    BY <1>1, <2>2 DEF ConnectFails
<1>2. CASE CreateService
  BY <1>2 DEF CreateService
<1>3. CASE InitializeService
  BY <1>3 DEF InitializeService
<1>4. CASE CreateFactory
  BY <1>4 DEF CreateFactory
<1>5. CASE CreateConn
  BY <1>5 DEF CreateConn
<1>6. CASE RegisterObserver
  BY <1>6 DEF RegisterObserver
<1>7. CASE RegisterUserObserver
  BY <1>7 DEF RegisterUserObserver
<1>8. CASE StartConnect
  BY <1>8 DEF StartConnect
<1>9. CASE UndoObserver
  BY <1>9 DEF UndoObserver
<1>10. CASE UndoConn
  BY <1>10 DEF UndoConn
<1>11. CASE UndoFactory
  BY <1>11 DEF UndoFactory
<1>12. CASE UndoService
  BY <1>12 DEF UndoService
<1> QED
  BY <1>1, <1>2, <1>3, <1>4, <1>5, <1>6, <1>7, <1>8, <1>9, <1>10,
     <1>11, <1>12 DEF Connect

LEMMA TypeStart == TypeOK /\ Start => TypeOK'
<1> SUFFICES ASSUME TypeOK, Start PROVE TypeOK'
  OBVIOUS
<1> USE DEF TypeOK, MainSteps, Starting, Launching, Exits
<1>1. CASE SetRenewSender
  BY <1>1 DEF SetRenewSender
<1>2. CASE Probe
  BY <1>2 DEF Probe
<1>3. CASE CreateAudioPublisher
  BY <1>3 DEF CreateAudioPublisher, Tracks
<1>4. CASE CreateVideoPublisher
  BY <1>4 DEF CreateVideoPublisher, Tracks
<1>5. CASE PublishAudio
  BY <1>5 DEF PublishAudio, Tracks
<1>6. CASE PublishVideo
  BY <1>6 DEF PublishVideo, Tracks
<1>7. CASE WaitConnected
  BY <1>7 DEF WaitConnected, AfterWait, outcome_for
<1>8. CASE ConnectTimeout
  BY <1>8 DEF ConnectTimeout
<1>9. CASE SpawnPipeline
  BY <1>9 DEF SpawnPipeline
<1>10. CASE StartVideoPump
  BY <1>10 DEF StartVideoPump, Tasks, Tracks
<1>11. CASE StartAudioPump
  BY <1>11 DEF StartAudioPump, Tasks, Tracks
<1>12. CASE StartRenewTask
  BY <1>12 DEF StartRenewTask, Tasks
<1>13. CASE InstallSignals
  BY <1>13 DEF InstallSignals
<1> QED
  BY <1>1, <1>2, <1>3, <1>4, <1>5, <1>6, <1>7, <1>8, <1>9, <1>10, <1>11, <1>12, <1>13 DEF Start

LEMMA TypeStop == TypeOK /\ Stop => TypeOK'
<1> SUFFICES ASSUME TypeOK, Stop PROVE TypeOK'
  OBVIOUS
<1> USE DEF TypeOK, MainSteps, Stopping, Dropping, Exits
<1>1. CASE RunEvent
  BY <1>1 DEF RunEvent
<1>2. CASE CancelTasks
  BY <1>2 DEF CancelTasks
<1>3. CASE JoinTask
  BY <1>3 DEF JoinTask
<1>4. CASE RunReturns
  BY <1>4 DEF RunReturns
<1>5. CASE JoinVideoThread
  BY <1>5 DEF JoinVideoThread
<1>6. CASE Unwind
  BY <1>6 DEF Unwind
<1>7. CASE DestroyUserObserver
  BY <1>7 DEF DestroyUserObserver
<1>8. CASE Disconnect
  BY <1>8 DEF Disconnect
<1>9. CASE UnregisterObserver
  BY <1>9 DEF UnregisterObserver
<1>10. CASE DestroyConn
  BY <1>10 DEF DestroyConn
<1>11. CASE DestroyFactory
  BY <1>11 DEF DestroyFactory
<1>12. CASE ReleaseService
  BY <1>12 DEF ReleaseService
<1>13. CASE ClearSenders
  BY <1>13 DEF ClearSenders
<1>14. CASE ProcessExit
  BY <1>14 DEF ProcessExit
<1> QED
  BY <1>1, <1>2, <1>3, <1>4, <1>5, <1>6, <1>7, <1>8, <1>9, <1>10, <1>11, <1>12, <1>13, <1>14 DEF Stop

LEMMA TypeThreads == TypeOK /\ Threads => TypeOK'
<1> SUFFICES ASSUME TypeOK, Threads PROVE TypeOK'
  OBVIOUS
<1>1. ASSUME NEW t \in Tracks, PumpStep(t) PROVE TypeOK'
  <2>1. CASE PumpStop(t) \/ PumpRead(t)
    BY <2>1 DEF PumpStop, PumpRead, TypeOK
  <2>2. CASE PumpEnd(t)
    BY <2>2, SendTyped DEF PumpEnd, TypeOK, ConnEvents, Callbacks
  <2>3. CASE PumpDrain(t)
    BY <2>3, SendTyped DEF PumpDrain, TypeOK, ConnEvents, Callbacks
  <2>4. CASE PumpReturn(t)
    BY <2>4 DEF PumpReturn, TypeOK
  <2> QED BY <1>1, <2>1, <2>2, <2>3, <2>4 DEF PumpStep
<1>2. CASE RenewStep
  <2>1. CASE RenewStop \/ RenewClosed
    BY <2>1 DEF RenewStop, RenewClosed, TypeOK
  <2>3. CASE RenewTake
    <3>1. renewQ' \in 0..1
      BY <2>3 DEF RenewTake, TypeOK
    <3>2. task' \in [Tasks -> {"absent", "select", "drain", "command", "apply",
                               "return", "done"}]
      BY <2>3 DEF RenewTake, TypeOK
    <3> QED
      BY <2>3, <3>1, <3>2 DEF RenewTake, TypeOK
  <2>2. CASE RenewCommandEnds \/ RenewApply
    BY <2>2 DEF RenewCommandEnds, RenewApply, TypeOK
  <2> QED BY <1>2, <2>1, <2>2, <2>3 DEF RenewStep
<1>3. ASSUME NEW ev \in Callbacks, Callback(ev) PROVE TypeOK'
  BY <1>3, SendTyped DEF Callback, TypeOK, ConnEvents
<1>4. CASE TokenWillExpire
  BY <1>4 DEF TokenWillExpire, TypeOK
<1>5. ASSUME NEW s \in {"sigint", "timer"}, AskToStop(s) PROVE TypeOK'
  BY <1>5, SendTyped DEF AskToStop, TypeOK, ConnEvents
<1> QED
  BY <1>1, <1>2, <1>3, <1>4, <1>5 DEF Threads, Environment

LEMMA TypeStep == TypeOK /\ [Next]_vars => TypeOK'
<1> SUFFICES ASSUME TypeOK, [Next]_vars PROVE TypeOK'
  OBVIOUS
<1>1. CASE UNCHANGED vars \/ Exited
  BY <1>1 DEF vars, Exited, TypeOK
<1> QED
  BY <1>1, TypeConnect, TypeStart, TypeStop, TypeThreads DEF Next, Main

\* session.rs, main.rs, observer.rs: the type invariant, for any MaxEvents.
THEOREM TypeCorrect == Spec => []TypeOK
BY TypeInit, TypeStep, PTL DEF Spec

-----------------------------------------------------------------------------
(* What exists at each step of main *)

ConnLives == {"observer", "userObs", "connect", "undoObserver", "undoConn"}
             \cup Starting \cup Launching \cup Stopping \cup {"wait", "run", "unwind", "dropUserObs",
                                 "disconnect", "unregister", "dropConn"}

\* The stage of main determines which SDK objects exist.
LiveAt ==
  /\ "svc" \in live <=>
       mpc \in ConnLives \cup {"initialize", "factory", "conn", "dropFactory", "release",
                              "undoFactory", "undoService"}
  /\ "factory" \in live <=> mpc \in ConnLives \cup {"conn", "dropFactory", "undoFactory"}
  /\ "conn" \in live <=> mpc \in ConnLives
  /\ "observer" \in live => mpc \in ConnLives \ {"observer", "dropConn", "undoConn"}
  /\ "link" \in live =>
       mpc \in ConnLives \ {"observer", "userObs", "connect", "unregister", "dropConn",
                            "undoObserver", "undoConn"}
  /\ exit # "connect" /\ "userObs" \in live =>
       mpc \in ConnLives \ {"observer", "disconnect", "unregister", "dropConn"}

ExitAt ==
  /\ exit = "no" <=> mpc \in Connecting \cup Starting \cup Launching \cup {"wait", "run"}
  /\ exit = "connect" => mpc \in Undoing \cup {"returned", "exited"}
  /\ mpc \in Undoing => exit = "connect"
  /\ mpc \in {"cancel", "join"} => exit \in {"ok", "fatal"}
  /\ mpc = "joinThread" => exit = "ok"

SendersAt ==
  /\ mpc \in Connecting => ~renewTx
  /\ mpc \in Undoing \cup {"returned", "exited"} => ~eventTx /\ ~renewTx

StageInv == LiveAt /\ ExitAt /\ SendersAt

(* Who holds each publisher, and which tasks run *)

\* A track is published by main until its pump starts, then by the pump.
Ownership ==
  \A t \in Tracks :
    /\ pub[t] # "none" => t \in tracks /\ task[t] # "done"
    /\ mpc \in Connecting \cup {"renewTx", "probe"} \/ exit = "connect" => pub[t] = "none"
    /\ mpc \in Dropping \cup {"returned", "exited"} /\ task[t] = "absent" => pub[t] = "none"

\* Tasks start one after the other, and not before their step.
NotStarted ==
  /\ mpc \in Connecting \cup Starting \cup {"wait", "spawn", "startVideo"}
       \/ exit \in {"connect", "early"} => \A t \in Tasks : task[t] = "absent"
  /\ mpc = "startAudio" => task["audio"] = "absent" /\ task["renew"] = "absent"
  /\ mpc = "startRenew" => task["renew"] = "absent"

\* Every wanted pump is running, or has run, once main has passed its step.
Launched ==
  /\ mpc \in {"startAudio", "startRenew"} /\ "video" \in tracks => task["video"] # "absent"
  /\ mpc = "startRenew" /\ "audio" \in tracks => task["audio"] # "absent"
  /\ mpc \in {"signals", "run"} \/ exit \in {"ok", "fatal"} =>
       \A t \in Tracks : t \in tracks => task[t] # "absent"

\* run() holds the JoinHandle of every tokio task until that task is done.
Registered ==
  /\ \A t \in Tasks : task[t] \notin {"absent", "done"} /\ ~OnOsThread(t) => t \in handles
  /\ exit \in {"ok", "fatal"} /\ mpc \notin {"cancel", "join"} => handles = {}
  /\ exit = "ok" /\ mpc \notin {"cancel", "join", "joinThread"} /\ OnOsThread("video") =>
       task["video"] \in {"absent", "done"}

TaskInv == Ownership /\ NotStarted /\ Launched /\ Registered

IInv == TypeOK /\ StageInv /\ TaskInv
-----------------------------------------------------------------------------
(* Proof that the stage of main determines what exists *)

LEMMA StageInit == Init => StageInv
BY DEF Init, StageInv, LiveAt, ExitAt, SendersAt, ConnLives, Connecting, Undoing,
       Starting, Launching, Stopping

LEMMA StageConnect == StageInv /\ Connect => StageInv'
<1> SUFFICES ASSUME StageInv, Connect PROVE StageInv'
  OBVIOUS
<1> USE DEF StageInv, LiveAt, ExitAt, SendersAt, ConnLives, Connecting, Undoing,
            Starting, Launching, Stopping
<1>1. ASSUME NEW at \in Connecting, ConnectFails(at) PROVE StageInv'
  <2>1. CASE at = "service"
    BY <1>1, <2>1 DEF ConnectFails, UndoFrom
  <2>2. CASE at = "initialize"
    BY <1>1, <2>2 DEF ConnectFails, UndoFrom
  <2>3. CASE at = "factory"
    BY <1>1, <2>3 DEF ConnectFails, UndoFrom
  <2>4. CASE at = "conn"
    BY <1>1, <2>4 DEF ConnectFails, UndoFrom
  <2>5. CASE at = "observer"
    BY <1>1, <2>5 DEF ConnectFails, UndoFrom
  <2>6. CASE at = "userObs"
    BY <1>1, <2>6 DEF ConnectFails, UndoFrom
  <2>7. CASE at = "connect"
    BY <1>1, <2>7 DEF ConnectFails, UndoFrom
  <2> QED
    BY <2>1, <2>2, <2>3, <2>4, <2>5, <2>6, <2>7
<1>2. CASE CreateService
  BY <1>2 DEF CreateService
<1>3. CASE InitializeService
  BY <1>3 DEF InitializeService
<1>4. CASE CreateFactory
  BY <1>4 DEF CreateFactory
<1>5. CASE CreateConn
  BY <1>5 DEF CreateConn
<1>6. CASE RegisterObserver
  BY <1>6 DEF RegisterObserver
<1>7. CASE RegisterUserObserver
  BY <1>7 DEF RegisterUserObserver
<1>8. CASE StartConnect
  BY <1>8 DEF StartConnect
<1>9. CASE UndoObserver
  BY <1>9 DEF UndoObserver
<1>10. CASE UndoConn
  BY <1>10 DEF UndoConn
<1>11. CASE UndoFactory
  BY <1>11 DEF UndoFactory
<1>12. CASE UndoService
  BY <1>12 DEF UndoService
<1> QED
  BY <1>1, <1>2, <1>3, <1>4, <1>5, <1>6, <1>7, <1>8, <1>9, <1>10,
     <1>11, <1>12 DEF Connect

LEMMA StageStart == StageInv /\ Start => StageInv'
<1> SUFFICES ASSUME StageInv, Start PROVE StageInv'
  OBVIOUS
<1> USE DEF StageInv, LiveAt, ExitAt, SendersAt, ConnLives, Connecting, Undoing,
            Starting, Launching, Stopping
<1>1. CASE SetRenewSender
  BY <1>1 DEF SetRenewSender
<1>2. CASE Probe
  BY <1>2 DEF Probe
<1>3. CASE CreateAudioPublisher
  BY <1>3 DEF CreateAudioPublisher
<1>4. CASE CreateVideoPublisher
  BY <1>4 DEF CreateVideoPublisher
<1>5. CASE PublishAudio
  BY <1>5 DEF PublishAudio
<1>6. CASE PublishVideo
  BY <1>6 DEF PublishVideo
<1>7. CASE WaitConnected
  BY <1>7 DEF WaitConnected, AfterWait, outcome_for
<1>8. CASE ConnectTimeout
  BY <1>8 DEF ConnectTimeout
<1>9. CASE SpawnPipeline
  BY <1>9 DEF SpawnPipeline
<1>10. CASE StartVideoPump
  BY <1>10 DEF StartVideoPump
<1>11. CASE StartAudioPump
  BY <1>11 DEF StartAudioPump
<1>12. CASE StartRenewTask
  BY <1>12 DEF StartRenewTask
<1>13. CASE InstallSignals
  BY <1>13 DEF InstallSignals
<1> QED
  BY <1>1, <1>2, <1>3, <1>4, <1>5, <1>6, <1>7, <1>8, <1>9, <1>10, <1>11,
     <1>12, <1>13 DEF Start

LEMMA StageStop == StageInv /\ Stop => StageInv'
<1> SUFFICES ASSUME StageInv, Stop PROVE StageInv'
  OBVIOUS
<1> USE DEF StageInv, LiveAt, ExitAt, SendersAt, ConnLives, Connecting, Undoing,
            Starting, Launching, Stopping
<1>1. CASE RunEvent
  BY <1>1 DEF RunEvent
<1>2. CASE CancelTasks
  BY <1>2 DEF CancelTasks
<1>3. CASE JoinTask
  BY <1>3 DEF JoinTask
<1>4. CASE RunReturns
  BY <1>4 DEF RunReturns
<1>5. CASE JoinVideoThread
  BY <1>5 DEF JoinVideoThread
<1>6. CASE Unwind
  BY <1>6 DEF Unwind
<1>7. CASE DestroyUserObserver
  BY <1>7 DEF DestroyUserObserver
<1>8. CASE Disconnect
  BY <1>8 DEF Disconnect
<1>9. CASE UnregisterObserver
  BY <1>9 DEF UnregisterObserver
<1>10. CASE DestroyConn
  BY <1>10 DEF DestroyConn
<1>11. CASE DestroyFactory
  BY <1>11 DEF DestroyFactory
<1>12. CASE ReleaseService
  BY <1>12 DEF ReleaseService
<1>13. CASE ClearSenders
  BY <1>13 DEF ClearSenders
<1>14. CASE ProcessExit
  BY <1>14 DEF ProcessExit
<1> QED
  BY <1>1, <1>2, <1>3, <1>4, <1>5, <1>6, <1>7, <1>8, <1>9, <1>10, <1>11,
     <1>12, <1>13, <1>14 DEF Stop

\* Only main acquires, releases and moves on.
LEMMA ThreadsFrame ==
  Threads => UNCHANGED <<mpc, exit, live, eventTx, renewTx, tracks, mode, handles, cancelled>>
<1> SUFFICES ASSUME Threads
             PROVE  UNCHANGED <<mpc, exit, live, eventTx, renewTx, tracks, mode,
                                handles, cancelled>>
  OBVIOUS
<1>1. ASSUME NEW t \in Tracks, PumpStep(t)
      PROVE  UNCHANGED <<mpc, exit, live, eventTx, renewTx, tracks, mode, handles, cancelled>>
  BY <1>1 DEF PumpStep, PumpStop, PumpRead, PumpEnd, PumpDrain, PumpReturn
<1>2. CASE RenewStep
  BY <1>2 DEF RenewStep, RenewStop, RenewTake, RenewClosed, RenewCommandEnds, RenewApply
<1>3. CASE Environment
  BY <1>3 DEF Environment, Callback, TokenWillExpire, AskToStop
<1> QED
  BY <1>1, <1>2, <1>3 DEF Threads

LEMMA StageStep == StageInv /\ [Next]_vars => StageInv'
<1> SUFFICES ASSUME StageInv, [Next]_vars PROVE StageInv'
  OBVIOUS
<1>1. CASE Threads
  BY <1>1, ThreadsFrame DEF StageInv, LiveAt, ExitAt, SendersAt
<1>2. CASE UNCHANGED vars \/ Exited
  BY <1>2 DEF vars, Exited, StageInv, LiveAt, ExitAt, SendersAt
<1> QED
  BY <1>1, <1>2, StageConnect, StageStart, StageStop DEF Next, Main

-----------------------------------------------------------------------------
(* Proof of who holds what *)

LEMMA TaskInit == Init => TaskInv
BY DEF Init, TaskInv, Ownership, NotStarted, Launched, Registered, OnOsThread,
       Connecting, Starting, Dropping, Tracks, Tasks

LEMMA TaskConnect == TypeOK /\ ExitAt /\ TaskInv /\ Connect => TaskInv'
<1> SUFFICES ASSUME TypeOK, ExitAt, TaskInv, Connect PROVE TaskInv'
  OBVIOUS
<1> USE DEF TypeOK, ExitAt, TaskInv, Ownership, NotStarted, Launched, Registered,
            OnOsThread, Connecting, Undoing, Starting, Launching, Stopping, Dropping, Tracks, Tasks
<1>1. ASSUME NEW at \in Connecting, ConnectFails(at) PROVE TaskInv'
  BY <1>1 DEF ConnectFails, UndoFrom
<1>2. CASE CreateService
  BY <1>2 DEF CreateService
<1>3. CASE InitializeService
  BY <1>3 DEF InitializeService
<1>4. CASE CreateFactory
  BY <1>4 DEF CreateFactory
<1>5. CASE CreateConn
  BY <1>5 DEF CreateConn
<1>6. CASE RegisterObserver
  BY <1>6 DEF RegisterObserver
<1>7. CASE RegisterUserObserver
  BY <1>7 DEF RegisterUserObserver
<1>8. CASE StartConnect
  BY <1>8 DEF StartConnect
<1>9. CASE UndoObserver
  BY <1>9 DEF UndoObserver
<1>10. CASE UndoConn
  BY <1>10 DEF UndoConn
<1>11. CASE UndoFactory
  BY <1>11 DEF UndoFactory
<1>12. CASE UndoService
  BY <1>12 DEF UndoService
<1> QED
  BY <1>1, <1>2, <1>3, <1>4, <1>5, <1>6, <1>7, <1>8, <1>9, <1>10,
     <1>11, <1>12 DEF Connect

LEMMA TaskStart == TypeOK /\ ExitAt /\ TaskInv /\ Start => TaskInv'
<1> SUFFICES ASSUME TypeOK, ExitAt, TaskInv, Start PROVE TaskInv'
  OBVIOUS
<1> USE DEF TypeOK, ExitAt, TaskInv, Ownership, NotStarted, Launched, Registered,
            OnOsThread, Connecting, Starting, Launching, Stopping, Dropping, Tracks, Tasks
<1>1. CASE SetRenewSender
  BY <1>1 DEF SetRenewSender
<1>2. CASE Probe
  BY <1>2 DEF Probe
<1>3. CASE CreateAudioPublisher
  BY <1>3 DEF CreateAudioPublisher
<1>4. CASE CreateVideoPublisher
  BY <1>4 DEF CreateVideoPublisher
<1>5. CASE PublishAudio
  BY <1>5 DEF PublishAudio
<1>6. CASE PublishVideo
  BY <1>6 DEF PublishVideo
<1>7. CASE WaitConnected
  BY <1>7 DEF WaitConnected, AfterWait, outcome_for
<1>8. CASE ConnectTimeout
  BY <1>8 DEF ConnectTimeout
<1>9. CASE SpawnPipeline
  BY <1>9 DEF SpawnPipeline
<1>10. CASE StartVideoPump
  BY <1>10 DEF StartVideoPump
<1>11. CASE StartAudioPump
  BY <1>11 DEF StartAudioPump
<1>12. CASE StartRenewTask
  BY <1>12 DEF StartRenewTask
<1>13. CASE InstallSignals
  BY <1>13 DEF InstallSignals
<1> QED
  BY <1>1, <1>2, <1>3, <1>4, <1>5, <1>6, <1>7, <1>8, <1>9, <1>10, <1>11,
     <1>12, <1>13 DEF Start

LEMMA TaskStop == TypeOK /\ ExitAt /\ TaskInv /\ Stop => TaskInv'
<1> SUFFICES ASSUME TypeOK, ExitAt, TaskInv, Stop PROVE TaskInv'
  OBVIOUS
<1> USE DEF TypeOK, ExitAt, TaskInv, Ownership, NotStarted, Launched, Registered,
            OnOsThread, Connecting, Starting, Launching, Stopping, Dropping, Tracks, Tasks
<1>1. CASE RunEvent
  BY <1>1 DEF RunEvent
<1>2. CASE CancelTasks
  BY <1>2 DEF CancelTasks
<1>3. CASE JoinTask
  BY <1>3 DEF JoinTask
<1>4. CASE RunReturns
  BY <1>4 DEF RunReturns
<1>5. CASE JoinVideoThread
  BY <1>5 DEF JoinVideoThread
<1>6. CASE Unwind
  BY <1>6 DEF Unwind
<1>7. CASE DestroyUserObserver
  BY <1>7 DEF DestroyUserObserver
<1>8. CASE Disconnect
  BY <1>8 DEF Disconnect
<1>9. CASE UnregisterObserver
  BY <1>9 DEF UnregisterObserver
<1>10. CASE DestroyConn
  BY <1>10 DEF DestroyConn
<1>11. CASE DestroyFactory
  BY <1>11 DEF DestroyFactory
<1>12. CASE ReleaseService
  BY <1>12 DEF ReleaseService
<1>13. CASE ClearSenders
  BY <1>13 DEF ClearSenders
<1>14. CASE ProcessExit
  BY <1>14 DEF ProcessExit
<1> QED
  BY <1>1, <1>2, <1>3, <1>4, <1>5, <1>6, <1>7, <1>8, <1>9, <1>10, <1>11,
     <1>12, <1>13, <1>14 DEF Stop

LEMMA TaskThreads == TypeOK /\ TaskInv /\ Threads => TaskInv'
<1> SUFFICES ASSUME TypeOK, TaskInv, Threads PROVE TaskInv'
  OBVIOUS
<1>0. UNCHANGED <<mpc, exit, tracks, mode, handles>>
  BY ThreadsFrame
<1> USE <1>0
    DEF TypeOK, TaskInv, Ownership, NotStarted, Launched, Registered, OnOsThread,
        Tracks, Tasks
<1>1. ASSUME NEW t \in Tracks, PumpStep(t) PROVE TaskInv'
  <2>1. CASE PumpStop(t)
    BY <2>1 DEF PumpStop
  <2>2. CASE PumpRead(t)
    BY <2>2 DEF PumpRead
  <2>3. CASE PumpEnd(t)
    BY <2>3 DEF PumpEnd
  <2>4. CASE PumpDrain(t)
    BY <2>4 DEF PumpDrain
  <2>5. CASE PumpReturn(t)
    BY <2>5 DEF PumpReturn
  <2> QED
    BY <1>1, <2>1, <2>2, <2>3, <2>4, <2>5 DEF PumpStep
<1>2. CASE RenewStep
  BY <1>2 DEF RenewStep, RenewStop, RenewTake, RenewClosed, RenewCommandEnds, RenewApply
<1>3. CASE Environment
  <2>1. UNCHANGED <<pub, task>>
    BY <1>3 DEF Environment, Callback, TokenWillExpire, AskToStop
  <2>2. Ownership' /\ NotStarted'
    BY <2>1
  <2>3. Launched' /\ Registered'
    BY <2>1
  <2> QED
    BY <2>2, <2>3
<1> QED
  BY <1>1, <1>2, <1>3 DEF Threads

LEMMA InvInit == Init => IInv
BY TypeInit, StageInit, TaskInit DEF IInv

LEMMA InvStep == IInv /\ [Next]_vars => IInv'
<1> SUFFICES ASSUME IInv, [Next]_vars PROVE IInv'
  OBVIOUS
<1>1. TypeOK'
  BY TypeStep DEF IInv
<1>2. StageInv'
  BY StageStep DEF IInv
<1>3. TaskInv'
  <2>1. CASE Threads
    BY <2>1, TaskThreads DEF IInv
  <2>2. CASE UNCHANGED vars \/ Exited
    BY <2>2 DEF vars, Exited, IInv, TaskInv, Ownership, NotStarted, Launched,
                Registered, OnOsThread
  <2> QED
    BY <2>1, <2>2, TaskConnect, TaskStart, TaskStop DEF IInv, StageInv, Next, Main
<1> QED
  BY <1>1, <1>2, <1>3 DEF IInv

LEMMA Inductive == Spec => []IInv
BY InvInit, InvStep, PTL DEF Spec

-----------------------------------------------------------------------------
(* The properties *)

\* session.rs:138-146: no joined task still holds conn when conn is destroyed;
\* the two exits that go past a join are the only exceptions.
THEOREM ConnOutlives == Spec => []ConnOutlivesItsUsers
<1>1. IInv => ConnOutlivesItsUsers
  <2> SUFFICES ASSUME IInv, NEW t \in Tasks, UsesConn(t), "conn" \notin live
               PROVE  exit = "ctrlc" \/ (exit = "fatal" /\ OnOsThread(t))
    BY DEF ConnOutlivesItsUsers
  <2>1. mpc \in {"service", "initialize", "factory", "conn", "dropFactory", "release",
                "clear", "returned", "exited", "undoFactory", "undoService"}
    BY DEF IInv, TypeOK, MainSteps, Undoing, StageInv, LiveAt, ConnLives, Connecting, Starting,
           Launching, Stopping, Dropping
  <2>2. exit \in {"early", "ok", "fatal", "ctrlc"}
    BY <2>1 DEF IInv, TypeOK, Exits, StageInv, ExitAt, TaskInv, Ownership, NotStarted,
                UsesConn, Connecting, Undoing, Starting, Launching, Tracks, Tasks
  <2>3. task[t] \notin {"absent", "done"}
    BY <2>1, <2>2 DEF IInv, TypeOK, StageInv, ExitAt, TaskInv, Ownership, UsesConn,
                Connecting, Undoing, Starting, Launching, Dropping, Tracks, Tasks
  <2>4. exit # "early"
    BY <2>3 DEF IInv, TaskInv, NotStarted
  <2>5. CASE exit \in {"ok", "fatal"}
    BY <2>1, <2>3, <2>5 DEF IInv, TaskInv, Registered, OnOsThread
  <2> QED
    BY <2>2, <2>4, <2>5
<1> QED
  BY <1>1, Inductive, PTL

\* Session::drop and connect(): after each call that acquires, undoes or releases,
\* on every way out, no SDK object is without what it needs.  The user observer
\* that a failing connect() forgets is the only exception.
THEOREM NothingOrphaned == Spec => []NoOrphans
<1>1. IInv => NoOrphans
  BY DEF IInv, TypeOK, StageInv, LiveAt, ConnLives, NoOrphans, Needs, Handles
<1> QED
  BY <1>1, Inductive, PTL

\* Session::drop: when the process ends nothing of the SDK is left but the user
\* observer a failing connect() forgets, and no sender is installed.
THEOREM EverythingReleased == Spec => []AllReleased
<1>1. IInv => AllReleased
  BY DEF IInv, TypeOK, StageInv, LiveAt, SendersAt, ConnLives, AllReleased, Handles,
         Starting, Launching, Stopping
<1> QED
  BY <1>1, Inductive, PTL

-----------------------------------------------------------------------------
(* The order of events *)

\* Main before the connection is up: nobody can have asked it to stop.
Waiting == Connecting \cup Starting \cup {"wait"}

\* What was received while main was not leaving was noise; nobody is armed to
\* ask for a stop before the signals are installed.
EventInv ==
  /\ exit = "no" => \A i \in 1 .. head : chan[i] = "Connected"
  /\ FirstDecisiveEventWins
  /\ NoStopWhileWaiting
  /\ mpc \in Waiting \cup Launching => stoppers = {}

\* A step of main that receives nothing and sends nothing.
Quiet ==
  /\ UNCHANGED <<chan, head>>
  /\ exit' = exit \/ exit' \in {"connect", "early", "ctrlc"}
  /\ mpc' \in Waiting => mpc \in Waiting
  /\ mpc' \in Waiting \cup Launching =>
       mpc \in Waiting \cup Launching /\ UNCHANGED stoppers

LEMMA EventInit == Init => EventInv
BY DEF Init, EventInv, FirstDecisiveEventWins, NoStopWhileWaiting

LEMMA QuietKeeps == EventInv /\ Quiet => EventInv'
BY DEF EventInv, Quiet, FirstDecisiveEventWins, NoStopWhileWaiting, Waiting

LEMMA MainIsQuiet == Connect \/ (Start /\ ~WaitConnected) \/ (Stop /\ ~RunEvent) => Quiet
<1> USE DEF Quiet, Waiting, Connecting, Starting, Launching
<1>1. ASSUME Connect PROVE Quiet
  BY <1>1 DEF Connect, CreateService, InitializeService, CreateFactory, CreateConn,
              RegisterObserver, RegisterUserObserver, StartConnect, ConnectFails,
              UndoFrom, UndoObserver, UndoConn, UndoFactory, UndoService
<1>2. ASSUME Start, ~WaitConnected PROVE Quiet
  <2>1. CASE SetRenewSender \/ Probe \/ ConnectTimeout \/ SpawnPipeline \/ InstallSignals
    BY <2>1 DEF SetRenewSender, Probe, ConnectTimeout, SpawnPipeline, InstallSignals
  <2>2. CASE CreateAudioPublisher \/ CreateVideoPublisher \/ PublishAudio \/ PublishVideo
    BY <2>2 DEF CreateAudioPublisher, CreateVideoPublisher, PublishAudio, PublishVideo
  <2>3. CASE StartVideoPump \/ StartAudioPump \/ StartRenewTask
    BY <2>3 DEF StartVideoPump, StartAudioPump, StartRenewTask
  <2> QED
    BY <1>2, <2>1, <2>2, <2>3 DEF Start
<1>3. ASSUME Stop, ~RunEvent PROVE Quiet
  <2>1. CASE CancelTasks \/ JoinTask \/ RunReturns \/ JoinVideoThread \/ Unwind
    BY <2>1 DEF CancelTasks, JoinTask, RunReturns, JoinVideoThread, Unwind
  <2>2. CASE \/ DestroyUserObserver \/ Disconnect \/ UnregisterObserver
             \/ DestroyConn \/ DestroyFactory \/ ReleaseService
    BY <2>2 DEF DestroyUserObserver, Disconnect, UnregisterObserver,
                DestroyConn, DestroyFactory, ReleaseService
  <2>3. CASE ClearSenders \/ ProcessExit
    BY <2>3 DEF ClearSenders, ProcessExit
  <2> QED
    BY <1>3, <2>1, <2>2, <2>3 DEF Stop
<1> QED
  BY <1>1, <1>2, <1>3

\* wait_connected takes one event: noise, or the one that ends the wait.
LEMMA WaitKeeps == TypeOK /\ ExitAt /\ EventInv /\ WaitConnected => EventInv'
<1> SUFFICES ASSUME TypeOK, ExitAt, EventInv, WaitConnected PROVE EventInv'
  OBVIOUS
<1>1. head \in Nat /\ head + 1 \in 1 .. Len(chan) /\ head' = head + 1 /\ chan' = chan
  BY DEF TypeOK, WaitConnected
<1>2. exit = "no" /\ mpc = "wait" /\ UNCHANGED stoppers /\ stoppers = {}
  BY DEF ExitAt, WaitConnected, EventInv, Waiting
<1>3. chan[head + 1] # "Shutdown"
  BY <1>1, <1>2 DEF EventInv, NoStopWhileWaiting
<1>4. \/ chan[head + 1] = "Connected" /\ exit' = "no" /\ mpc' = "spawn"
      \/ exit' = "early" /\ mpc' = "unwind"
  BY <1>2, <1>3 DEF WaitConnected, AfterWait, outcome_for, Received
<1>5. exit' = "no" => \A i \in 1 .. head' : chan'[i] = "Connected"
  BY <1>1, <1>2, <1>4 DEF EventInv
<1> QED
  BY <1>1, <1>2, <1>4, <1>5
     DEF EventInv, FirstDecisiveEventWins, NoStopWhileWaiting, Waiting, Connecting, Starting

\* run() takes one event: noise, or the first decisive one.
LEMMA RunKeeps == TypeOK /\ ExitAt /\ EventInv /\ RunEvent => EventInv'
<1> SUFFICES ASSUME TypeOK, ExitAt, EventInv, RunEvent PROVE EventInv'
  OBVIOUS
<1>1. head \in Nat /\ head + 1 \in 1 .. Len(chan) /\ head' = head + 1 /\ chan' = chan
  BY DEF TypeOK, RunEvent
<1>2. exit = "no" /\ mpc = "run" /\ chan[head + 1] \in ConnEvents
  BY <1>1 DEF ExitAt, RunEvent, TypeOK
<1>3. \A i \in 1 .. head : chan[i] = "Connected"
  BY <1>2 DEF EventInv
<1>4. \/ chan[head + 1] = "Connected" /\ exit' = "no"
      \/ chan[head + 1] = "Shutdown" /\ exit' = "ok"
      \/ chan[head + 1] \in FatalEvents /\ exit' = "fatal"
  BY <1>2 DEF RunEvent, outcome_for, Received, ConnEvents, Callbacks, FatalEvents
<1>5. mpc' \in {"run", "cancel"}
  BY <1>2 DEF RunEvent
<1>6. head' - 1 = head
  BY <1>1
<1>7. FirstDecisiveEventWins'
  BY <1>1, <1>3, <1>4, <1>6 DEF FirstDecisiveEventWins
<1>8. exit' = "no" => \A i \in 1 .. head' : chan'[i] = "Connected"
  BY <1>1, <1>3, <1>4
<1> QED
  BY <1>5, <1>7, <1>8
     DEF EventInv, NoStopWhileWaiting, Waiting, Connecting, Starting, Launching

\* Whoever sends an event puts it behind those received.
LEMMA ThreadsSend ==
  ASSUME TypeOK, Threads
  PROVE  /\ UNCHANGED head
         /\ \/ UNCHANGED chan
            \/ \E ev \in ConnEvents :
                 /\ exit = "no" /\ chan' = Append(chan, ev)
                 /\ ev = "Shutdown" => stoppers # {}
         /\ stoppers = {} => stoppers' = {}
<1> USE DEF Send, ConnEvents, Callbacks
<1>1. CASE \E t \in Tracks : PumpStep(t)
  BY <1>1 DEF PumpStep, PumpStop, PumpRead, PumpEnd, PumpDrain, PumpReturn
<1>2. CASE RenewStep
  BY <1>2 DEF RenewStep, RenewStop, RenewTake, RenewClosed, RenewCommandEnds, RenewApply
<1>3. CASE \E ev \in Callbacks : Callback(ev)
  BY <1>3 DEF Callback
<1>4. CASE TokenWillExpire
  BY <1>4 DEF TokenWillExpire
<1>5. CASE \E s \in {"sigint", "timer"} : AskToStop(s)
  BY <1>5 DEF AskToStop
<1> QED
  BY <1>1, <1>2, <1>3, <1>4, <1>5 DEF Threads, Environment

LEMMA ThreadsKeep == TypeOK /\ EventInv /\ Threads => EventInv'
<1> SUFFICES ASSUME TypeOK, EventInv, Threads PROVE EventInv'
  OBVIOUS
<1>1. UNCHANGED <<mpc, exit, head>> /\ (stoppers = {} => stoppers' = {})
  BY ThreadsFrame, ThreadsSend
<1>2. CASE UNCHANGED chan
  BY <1>1, <1>2 DEF EventInv, FirstDecisiveEventWins, NoStopWhileWaiting
<1>3. ASSUME NEW ev \in ConnEvents, exit = "no", chan' = Append(chan, ev),
             ev = "Shutdown" => stoppers # {}
      PROVE  EventInv'
  <2>1. /\ chan \in Seq(ConnEvents) /\ Len(chan') = Len(chan) + 1
        /\ \A i \in 1 .. Len(chan) : chan'[i] = chan[i]
        /\ chan'[Len(chan) + 1] = ev
    BY <1>3 DEF TypeOK
  <2>2. head \in 0 .. Len(chan) /\ Len(chan) \in Nat
    BY <2>1 DEF TypeOK
  <2>3. \A i \in 1 .. head' : chan'[i] = "Connected"
    BY <1>1, <1>3, <2>1, <2>2 DEF EventInv
  <2>4. NoStopWhileWaiting'
    BY <1>1, <1>3, <2>1, <2>2 DEF EventInv, NoStopWhileWaiting, Waiting
  <2> QED
    BY <1>1, <1>3, <2>3, <2>4 DEF EventInv, FirstDecisiveEventWins
<1> QED
  BY <1>2, <1>3, ThreadsSend

LEMMA EventStep == IInv /\ EventInv /\ [Next]_vars => EventInv'
<1> SUFFICES ASSUME IInv, EventInv, [Next]_vars PROVE EventInv'
  OBVIOUS
<1>1. CASE Threads
  BY <1>1, ThreadsKeep DEF IInv
<1>2. CASE WaitConnected \/ RunEvent
  BY <1>2, WaitKeeps, RunKeeps DEF IInv, StageInv
<1>3. CASE UNCHANGED vars \/ Exited
  BY <1>3 DEF vars, Exited, EventInv, FirstDecisiveEventWins, NoStopWhileWaiting
<1> QED
  BY <1>1, <1>2, <1>3, MainIsQuiet, QuietKeeps DEF Next, Main

LEMMA EventsInOrder == Spec => []EventInv
BY EventInit, EventStep, Inductive, PTL DEF Spec

\* session.rs:357-370: for any number of callbacks the exit code is that of the
\* first decisive event sent, whatever was sent after it.
THEOREM FirstDecisiveWins == Spec => []FirstDecisiveEventWins
<1>1. EventInv => FirstDecisiveEventWins
  BY DEF EventInv
<1> QED
  BY <1>1, EventsInOrder, PTL

\* session.rs:303-313: the Shutdown that wait_connected would swallow cannot be
\* in the channel while it reads it.
THEOREM NoStopIsSwallowed == Spec => []NoStopWhileWaiting
<1>1. EventInv => NoStopWhileWaiting
  BY DEF EventInv
<1> QED
  BY <1>1, EventsInOrder, PTL
=============================================================================
