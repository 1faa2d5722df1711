-------------------------- MODULE TokenRenewalProofs --------------------------
(***************************************************************************)
(* That the renewal loop is never itself the reason of an expiry, and starts  *)
(* one command at most after the stop, for every lifetime, lead and duration  *)
(* of the command that RenewalAssumption allows.                             *)
(***************************************************************************)
EXTENDS TokenRenewal, TLAPS

\* Who may have returned, what runs and what waits, by phase.
TaskInv ==
  /\ phase \in {"connect", "start"} => ~returned /\ job = Idle
  /\ phase = "connect" => queue = 0
  /\ phase \in {"signals", "run"} => (returned => ~cmd)
  /\ queue > 0 => cmd
  /\ job = CmdMax + 1 => causes # {}

\* As long as nothing went wrong with it: a token that the SDK has not warned of has
\* more left than a command takes; one it has warned of has a warning waiting
\* with as much left, or a command running that will end before it expires.
InTime ==
  ~cancelled /\ causes = {} =>
    /\ ~warned => left > CmdMax
    /\ warned /\ job = Idle => queue > 0 /\ left > CmdMax
    /\ warned /\ job # Idle => left > CmdMax - job

RInv == TypeOK /\ TaskInv /\ InTime

-----------------------------------------------------------------------------
\* It holds at the start.
LEMMA InitRInv == Init => RInv
  <1> SUFFICES ASSUME Init PROVE RInv
    OBVIOUS
  <1>1. /\ left \in CmdMax + 1 .. Life /\ queue = 0 /\ job = Idle
        /\ ~warned /\ ~returned /\ causes = {} /\ phase = "connect"
    BY DEF Init
  <1>2. /\ cmd \in BOOLEAN /\ warned \in BOOLEAN /\ expired \in BOOLEAN
        /\ polled \in BOOLEAN /\ returned \in BOOLEAN
    BY Zenon DEF Init
  <1>3. /\ phase \in Phases /\ left \in 0 .. Life /\ queue \in 0 .. MaxQueue
        /\ job \in Idle .. CmdMax + 1 /\ causes \in SUBSET Causes /\ lateJobs \in Nat
    BY <1>1, RenewalAssumption DEF Init, Phases, Causes, Idle
  <1>4. TypeOK
    BY <1>2, <1>3 DEF TypeOK
  <1>5. TaskInv /\ InTime
    BY <1>1, RenewalAssumption DEF TaskInv, InTime, Idle
  <1> QED BY <1>4, <1>5 DEF RInv

\* The steps of main change neither the token nor what waits.
LEMMA MainTypeOK == TypeOK /\ (Main \/ Leave \/ RunStops) => TypeOK'
  BY DEF TypeOK, Phases, Main, SetRenewSender, StartRenewTask, InstallSignals,
     RunReturns, Leave, RunStops, Goto, tokenVars, taskVars

\* The steps of the renewal task keep the types.
LEMMA TaskTypeOK == TypeOK /\ Task => TypeOK'
  <1> SUFFICES ASSUME TypeOK, Task PROVE TypeOK'
    OBVIOUS
  <1> USE RenewalAssumption DEF TypeOK, Idle
  <1>1. CASE TaskStop
    BY <1>1 DEF TaskStop, tokenVars
  <1>2. CASE PollCancelled
    BY <1>2 DEF PollCancelled, tokenVars
  <1>3. CASE TakeWarning
    <2>1. /\ queue' \in 0 .. MaxQueue /\ job' \in Idle .. CmdMax + 1 /\ lateJobs' \in Nat
          /\ polled' = FALSE
          /\ UNCHANGED <<phase, cmd, left, warned, expired, returned, causes>>
      BY <1>3 DEF TakeWarning, Late, tokenVars
    <2> QED BY <2>1
  <1>4. CASE Renews
    <2>1. PICK age \in Ages : /\ left' = Life - age
                              /\ causes' = IF age > CmdMax THEN {"slow"} ELSE {}
      BY <1>4 DEF Renews
    <2>2. job \in 0 .. CmdMax + 1 /\ job' = Idle /\ warned' = FALSE
      BY <1>4 DEF Renews
    <2>3. left' \in 0 .. Life /\ job' \in Idle .. CmdMax + 1
      BY <2>1, <2>2 DEF Ages
    <2>4. warned' \in BOOLEAN /\ causes' \in SUBSET Causes
      BY <2>1, <2>2 DEF Causes
    <2>5. UNCHANGED <<phase, cmd, expired, queue, polled, returned, lateJobs>>
      BY <1>4 DEF Renews
    <2> QED BY <2>3, <2>4, <2>5
  <1>5. CASE RenewFails
    BY <1>5 DEF RenewFails, tokenVars, Causes
  <1> QED BY <1>1, <1>2, <1>3, <1>4, <1>5 DEF Task

\* So do the SDK and the clock.
LEMMA WorldTypeOK == TypeOK /\ (TokenWillExpire \/ TokenDidExpire \/ Tick) => TypeOK'
  <1> SUFFICES ASSUME TypeOK, TokenWillExpire \/ TokenDidExpire \/ Tick
               PROVE  TypeOK'
    OBVIOUS
  <1> USE RenewalAssumption DEF TypeOK
  <1>1. CASE TokenWillExpire
    <2>1. queue' \in 0 .. MaxQueue
      <3>1. \/ queue' = queue
            \/ queue' = IF queue < MaxQueue THEN queue + 1 ELSE queue
        BY <1>1, Zenon DEF TokenWillExpire
      <3>2. queue \in 0 .. MaxQueue
        OBVIOUS
      <3> QED BY <3>1, <3>2
    <2>2. causes' \in SUBSET Causes
      BY <1>1 DEF TokenWillExpire, Causes
    <2> QED BY <1>1, <2>1, <2>2 DEF TokenWillExpire
  <1>2. CASE TokenDidExpire
    BY <1>2 DEF TokenDidExpire, taskVars
  <1>3. CASE Tick
    <2>1. left' \in 0 .. Life /\ job' \in Idle .. CmdMax + 1
      BY <1>3 DEF Tick, Idle
    <2>2. causes' \in SUBSET Causes
      BY <1>3 DEF Tick, Causes
    <2> QED BY <1>3, <2>1, <2>2 DEF Tick
  <1> QED BY <1>1, <1>2, <1>3

\* And so does every step.
LEMMA NextTypeOK == TypeOK /\ [Next]_vars => TypeOK'
  <1> SUFFICES ASSUME TypeOK, [Next]_vars PROVE TypeOK'
    OBVIOUS
  <1>1. CASE Ended \/ UNCHANGED vars
    BY <1>1 DEF TypeOK, Ended, vars
  <1> QED BY <1>1, MainTypeOK, TaskTypeOK, WorldTypeOK DEF Next

-----------------------------------------------------------------------------
\* main changes neither a token nor the queue: what is in time stays so.
LEMMA MainRInv == RInv /\ (Main \/ Leave \/ RunStops) => TaskInv' /\ InTime'
  <1> SUFFICES ASSUME RInv, Main \/ Leave \/ RunStops PROVE TaskInv' /\ InTime'
    OBVIOUS
  <1>1. UNCHANGED <<cmd, left, warned, expired, queue, job, causes>>
    BY DEF Main, SetRenewSender, StartRenewTask, InstallSignals, RunReturns,
       Leave, RunStops, tokenVars, taskVars
  <1>2. cancelled => cancelled'
    BY DEF Main, SetRenewSender, StartRenewTask, InstallSignals, RunReturns,
       Leave, RunStops, Goto, cancelled
  <1>3. InTime'
    BY <1>1, <1>2 DEF RInv, InTime
  <1>4. CASE StartRenewTask
    <2>1. phase = "start" /\ phase' = "signals" /\ (returned' => ~cmd)
      BY <1>4, Zenon DEF StartRenewTask, Goto
    <2> QED BY <1>1, <1>3, <2>1 DEF RInv, TaskInv
  <1>5. CASE ~StartRenewTask
    <2>1. /\ UNCHANGED returned
          /\ \/ phase = "connect" /\ phase' = "start"
             \/ phase = "signals" /\ phase' = "run"
             \/ phase' \in {"stop", "ended"}
      BY <1>5 DEF Main, SetRenewSender, InstallSignals, RunReturns, Leave, RunStops,
                  Goto, taskVars
    <2> QED BY <1>1, <1>3, <2>1 DEF RInv, TaskInv
  <1> QED BY <1>4, <1>5

\* The task trades a warning for a command, and a command for a new token that
\* has more left than a command takes.
LEMMA TaskRInv == RInv /\ Task => TaskInv' /\ InTime'
  <1> SUFFICES ASSUME RInv, Task PROVE TaskInv' /\ InTime'
    OBVIOUS
  <1> USE RenewalAssumption DEF RInv, TypeOK, TaskInv, Idle
  <1>1. CASE TaskStop
    <2>1. phase \in {"stop", "ended"} /\ UNCHANGED <<phase, queue, cmd, job, causes>>
      BY <1>1 DEF TaskStop, cancelled
    <2> QED BY <2>1 DEF InTime, cancelled
  <1>2. CASE PollCancelled
    BY <1>2 DEF PollCancelled, tokenVars, InTime, cancelled
  <1>3. CASE TakeWarning
    <2>1. /\ phase \in {"signals", "run", "stop"} /\ job = Idle /\ queue > 0
          /\ queue' = queue - 1 /\ job' = 0
          /\ UNCHANGED <<phase, cmd, left, warned, returned, causes>>
      BY <1>3 DEF TakeWarning, AtSelect, TaskRuns, tokenVars
    <2>2. TaskInv'
      BY <2>1
    <2>3. InTime'
      BY <2>1 DEF InTime, cancelled
    <2> QED BY <2>2, <2>3
  <1>4. CASE Renews
    <2>1. /\ phase \in {"signals", "run", "stop"}
          /\ job \in Nat /\ job' = Idle /\ warned' = FALSE
          /\ UNCHANGED <<phase, cmd, queue, returned>>
      BY <1>4 DEF Renews, TaskRuns
    <2>2. PICK age \in Ages : /\ left' = Life - age
                              /\ causes' = IF age > CmdMax THEN {"slow"} ELSE {}
      BY <1>4 DEF Renews
    <2>3. causes' = {} => left' > CmdMax
      <3>1. age \in Nat /\ (causes' = {} => age <= CmdMax)
        BY <2>1, <2>2 DEF Ages
      <3> QED BY <2>2, <3>1
    <2>4. TaskInv'
      BY <2>1
    <2>5. InTime'
      BY <2>1, <2>3 DEF InTime, cancelled
    <2> QED BY <2>4, <2>5
  <1>5. CASE RenewFails
    <2>1. /\ phase \in {"signals", "run", "stop"} /\ job' = Idle
          /\ causes' # {}
          /\ UNCHANGED <<phase, cmd, queue, returned>>
      BY <1>5 DEF RenewFails, TaskRuns
    <2> QED BY <2>1 DEF InTime
  <1> QED BY <1>1, <1>2, <1>3, <1>4, <1>5 DEF Task

\* A warning is queued, or something went wrong.
LEMMA WarningRInv == RInv /\ TokenWillExpire => TaskInv' /\ InTime'
  <1> SUFFICES ASSUME RInv, TokenWillExpire PROVE TaskInv' /\ InTime'
    OBVIOUS
  <1> USE RenewalAssumption DEF RInv, TypeOK, TaskInv, Idle
  <1>1. /\ warned' = TRUE
        /\ UNCHANGED <<phase, cmd, left, expired, job, returned>>
    BY DEF TokenWillExpire
  <1>2. CASE cmd /\ phase # "connect"
    <2>1. queue' > 0 /\ queue' \in Nat /\ UNCHANGED causes
      BY <1>2 DEF TokenWillExpire
    <2>2. TaskInv'
      BY <1>1, <1>2, <2>1
    <2>3. InTime'
      BY <1>1, <2>1 DEF InTime, cancelled
    <2> QED BY <2>2, <2>3
  <1>3. CASE ~(cmd /\ phase # "connect")
    <2>1. causes' # {} /\ UNCHANGED queue
      BY <1>3 DEF TokenWillExpire
    <2> QED BY <1>1, <2>1 DEF InTime
  <1> QED BY <1>2, <1>3

\* A token in time has ticks left, so an expiry has a cause.
LEMMA ExpiryHasCause == RInv /\ TokenDidExpire => cancelled \/ causes # {}
  <1> SUFFICES ASSUME RInv, TokenDidExpire, ~cancelled, causes = {} PROVE FALSE
    OBVIOUS
  <1> USE RenewalAssumption DEF RInv, TypeOK, TaskInv, Idle
  <1>1. left = 0
    BY DEF TokenDidExpire
  <1>2. CASE ~warned
    BY <1>1, <1>2 DEF InTime
  <1>3. CASE warned /\ job = Idle
    BY <1>1, <1>3 DEF InTime
  <1>4. CASE warned /\ job # Idle
    BY <1>1, <1>4 DEF InTime
  <1> QED BY <1>2, <1>3, <1>4

\* The report of it changes nothing else.
LEMMA ExpiryRInv == RInv /\ TokenDidExpire => TaskInv' /\ InTime'
  BY DEF RInv, TaskInv, InTime, cancelled, TokenDidExpire, taskVars

\* A tick takes one from the token and one from what the command still needs.
LEMMA TickRInv == RInv /\ Tick => TaskInv' /\ InTime'
  <1> SUFFICES ASSUME RInv, Tick PROVE TaskInv' /\ InTime'
    OBVIOUS
  <1> USE RenewalAssumption DEF RInv, TypeOK, TaskInv, Idle
  <1>1. /\ ~WarningDue /\ left' = left - 1
        /\ ~(AtSelect /\ (cancelled \/ queue > 0))
        /\ UNCHANGED <<phase, cmd, warned, expired, queue, returned>>
    BY DEF Tick
  <1>2. job' = IF job \in {Idle, CmdMax + 1} THEN job ELSE job + 1
    BY DEF Tick
  <1>3. /\ causes \subseteq causes'
        /\ job >= CmdMax => causes' # {}
        /\ queue > 0 /\ phase = "start" => causes' # {}
    BY DEF Tick
  <1>4. TaskInv'
    BY <1>1, <1>2, <1>3
  <1>5. ASSUME ~cancelled, causes' = {} PROVE causes = {} /\ job < CmdMax
    BY <1>3, <1>5
  <1>6. ASSUME ~cancelled, causes' = {}, ~warned PROVE left' > CmdMax
    BY <1>1, <1>6 DEF WarningDue
  <1>7. ASSUME ~cancelled, causes' = {}, warned, job = Idle PROVE FALSE
    <2>1. queue > 0 /\ cmd
      BY <1>5, <1>7 DEF InTime
    <2>2. phase \in {"signals", "run"}
      BY <1>3, <1>7, <2>1 DEF cancelled, Phases
    <2>3. AtSelect
      BY <1>7, <2>1, <2>2 DEF AtSelect, TaskRuns
    <2> QED BY <1>1, <2>1, <2>3
  <1>8. ASSUME ~cancelled, causes' = {}, warned, job # Idle
        PROVE  job' # Idle /\ left' > CmdMax - job'
    <2>1. left > CmdMax - job /\ job < CmdMax
      BY <1>5, <1>8 DEF InTime
    <2> QED BY <1>1, <1>2, <1>8, <2>1
  <1>9. InTime'
    BY <1>1, <1>2, <1>6, <1>7, <1>8 DEF InTime, cancelled
  <1> QED BY <1>4, <1>9

\* Every step keeps the invariant.
LEMMA NextRInv == RInv /\ [Next]_vars => RInv'
  <1> SUFFICES ASSUME RInv, [Next]_vars PROVE RInv'
    OBVIOUS
  <1>1. TypeOK'
    BY NextTypeOK DEF RInv
  <1>2. CASE Ended \/ UNCHANGED vars
    BY <1>1, <1>2 DEF Ended, vars, RInv, TaskInv, InTime, cancelled
  <1> QED BY <1>1, <1>2, MainRInv, TaskRInv, WarningRInv, ExpiryRInv, TickRInv
          DEF Next, RInv

\* The inductive invariant holds in every reachable state.
THEOREM Invariance == Spec => []RInv
  BY InitRInv, NextRInv, PTL DEF Spec

-----------------------------------------------------------------------------
\* Every variable keeps its type, for every lifetime, lead and duration of the
\* command.
THEOREM TypeCorrect == Spec => []TypeOK
  <1>1. RInv => TypeOK
    BY DEF RInv
  <1> QED BY <1>1, Invariance, PTL

\* Only the callback reports an expiry.
LEMMA ExpiryStep ==
  RInv /\ [Next]_vars => [~expired /\ expired' => cancelled \/ causes # {}]_vars
  <1> SUFFICES ASSUME RInv, Next, ~expired, expired' PROVE cancelled \/ causes # {}
    OBVIOUS
  <1>1. TokenDidExpire
    BY DEF Next, vars, Main, SetRenewSender, StartRenewTask, InstallSignals, RunReturns,
       Leave, RunStops, Task, TaskStop, PollCancelled, TakeWarning, Renews, RenewFails,
       TokenWillExpire, Tick, Ended, tokenVars
  <1> QED BY <1>1, ExpiryHasCause

\* A token that expires while main runs does so for one of the named causes,
\* which befell this token, never by the renewal loop itself (main.rs:341-390).
THEOREM RenewedInTime == Spec => NoExpiryWithoutCause
  BY Invariance, ExpiryStep, PTL DEF Spec, NoExpiryWithoutCause

-----------------------------------------------------------------------------
\* A command that starts late uses up the one poll that was under way when the
\* token fired; no select! after it gets past the token.
LateInv == lateJobs = 0 \/ (lateJobs = 1 /\ cancelled /\ ~polled)

\* Only TakeWarning counts, only PollCancelled begins a poll, and a token that
\* fired stays fired.
LEMMA NextLateInv == LateInv /\ [Next]_vars => LateInv'
  <1> SUFFICES ASSUME LateInv, [Next]_vars PROVE LateInv'
    OBVIOUS
  <1>1. CASE TakeWarning
    <2>1. lateJobs = 0 /\ ~polled' /\ lateJobs' = lateJobs + Late /\ UNCHANGED phase
      BY <1>1 DEF TakeWarning, LateInv
    <2> QED BY <2>1 DEF Late, LateInv, cancelled
  <1>2. CASE PollCancelled
    BY <1>2 DEF PollCancelled, LateInv
  <1>3. CASE ~TakeWarning /\ ~PollCancelled
    <2>1. UNCHANGED <<polled, lateJobs>> /\ (cancelled => cancelled')
      BY <1>3 DEF Next, vars, Main, SetRenewSender, StartRenewTask, InstallSignals,
         RunReturns, Leave, RunStops, Task, TaskStop, Renews, RenewFails,
         TokenWillExpire, TokenDidExpire, Tick, Ended, Goto, taskVars, cancelled
    <2> QED BY <2>1 DEF LateInv
  <1> QED BY <1>1, <1>2, <1>3

\* However often the SDK warns, the renewal task starts one command at most
\* after run() has fired the token (main.rs:352-355, session.rs:376).
THEOREM StopsRenewing == Spec => []OneLateJobAtMost
  <1>1. Init => LateInv
    BY DEF Init, LateInv
  <1>2. LateInv => OneLateJobAtMost
    BY DEF LateInv, OneLateJobAtMost
  <1> QED BY <1>1, <1>2, NextLateInv, PTL DEF Spec
=============================================================================
