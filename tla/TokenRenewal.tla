---------------------------- MODULE TokenRenewal ----------------------------
(***************************************************************************)
(* The token that keeps the program in its channel: the SDK warns before it *)
(* expires (src/src/agora/observer.rs), the renewal task of main            *)
(* (src/src/main.rs) runs --token-renew-cmd for each warning and hands its   *)
(* output to the SDK (RenewHandle, src/src/agora/session.rs), and an expiry *)
(* ends the run.  Session.tla has the same task without tokens and time.    *)
(*                                                                         *)
(* Time is counted in ticks.  What the code does at once, it does within a  *)
(* tick: Tick waits for it.  Only a command takes time.                     *)
(***************************************************************************)
EXTENDS Integers

CONSTANTS Life,      \* a new token is valid for so many ticks
          Lead,      \* the SDK warns when so many are left
          CmdMax,    \* a command that runs longer than that is slow
          MaxQueue   \* bound: the SDK repeats a warning while fewer wait

ASSUME RenewalAssumption ==
  /\ Life \in Nat /\ Lead \in Nat /\ CmdMax \in Nat /\ MaxQueue \in Nat \ {0}
  /\ CmdMax < Lead            \* the warning comes early enough for the command
  /\ 2 * CmdMax < Life        \* a token may be minted as its command starts

Idle == -1   \* no command runs

\* What may go wrong on the way from a warning to a new token.
Causes == {"noCommand",  \* --token-renew-cmd was not given
           "dropped",    \* the warning came before RENEW_TX was set
           "late",       \* it waited for main to start the task
           "slow",       \* the command ran for more than CmdMax ticks
           "failed"}     \* no token came of it, or the SDK refused it

VARIABLES phase,     \* where main is: see Phases
          cmd,       \* --token-renew-cmd was given
          left,      \* ticks until the active token expires
          warned,    \* the SDK has warned of it
          expired,   \* the Failed 109 event was sent
          queue,     \* warnings on the renewal channel
          job,       \* ticks the command has run, or Idle
          polled,    \* the task is inside its select!: the token had not fired
          returned,  \* the task has returned, or was never started
          causes,    \* history: what went wrong with the token in use
          lateJobs   \* history: commands started after the token fired

vars == <<phase, cmd, left, warned, expired, queue, job, polled, returned,
          causes, lateJobs>>

\* connect: between agora_rtc_conn_connect and set_renew_sender; start: until the
\* renewal task is spawned; signals: until run() is called; stop: run() joins.
Phases == {"connect", "start", "signals", "run", "stop", "ended"}

TypeOK == /\ phase \in Phases
          /\ cmd \in BOOLEAN
          /\ left \in 0 .. Life
          /\ warned \in BOOLEAN
          /\ expired \in BOOLEAN
          /\ queue \in 0 .. MaxQueue
          /\ job \in Idle .. CmdMax + 1
          /\ polled \in BOOLEAN
          /\ returned \in BOOLEAN
          /\ causes \in SUBSET Causes
          /\ lateJobs \in Nat

\* --token may be of any age, but for one that is all but expired.
Init == /\ phase = "connect"
        /\ cmd \in BOOLEAN
        /\ left \in CmdMax + 1 .. Life
        /\ warned = FALSE
        /\ expired = FALSE
        /\ queue = 0
        /\ job = Idle
        /\ polled = FALSE
        /\ returned = FALSE
        /\ causes = {}
        /\ lateJobs = 0

-----------------------------------------------------------------------------
(* main *)

Goto(from, to) == phase = from /\ phase' = to

tokenVars == <<left, warned, expired>>
taskVars  == <<queue, job, polled, returned, lateJobs>>

SetRenewSender == Goto("connect", "start") /\ UNCHANGED <<cmd, tokenVars, taskVars, causes>>

\* Mutant: the channel is made with the task, so that earlier warnings are lost.
StartRenewTaskMutant == /\ Goto("start", "signals")
                        /\ returned' = ~cmd
                        /\ queue' = 0
                        /\ UNCHANGED <<cmd, tokenVars, job, polled, causes, lateJobs>>

\* Without --token-renew-cmd there is no task.
StartRenewTask == /\ Goto("start", "signals")
                  /\ returned' = ~cmd
                  /\ UNCHANGED <<cmd, tokenVars, queue, job, polled, causes, lateJobs>>

InstallSignals == Goto("signals", "run") /\ UNCHANGED <<cmd, tokenVars, taskVars, causes>>

\* A `?` of the start-up, a fatal event while it waits for the connection, or
\* no handler for Ctrl-C: the session is dropped, and any task with it.
Leave == /\ phase \in {"connect", "start", "signals"}
         /\ phase' = "ended"
         /\ UNCHANGED <<cmd, tokenVars, taskVars, causes>>

\* Shutdown, a fatal event, the expiry among them: run() fires the token.
RunStops == Goto("run", "stop") /\ UNCHANGED <<cmd, tokenVars, taskVars, causes>>

RunReturns == /\ Goto("stop", "ended")
              /\ returned
              /\ UNCHANGED <<cmd, tokenVars, taskVars, causes>>

cancelled == phase \in {"stop", "ended"}

-----------------------------------------------------------------------------
(* The renewal task *)

TaskRuns == phase \in {"signals", "run", "stop"} /\ ~returned

AtSelect == TaskRuns /\ job = Idle

TaskStop == /\ AtSelect /\ ~polled /\ cancelled
            /\ returned' = TRUE
            /\ UNCHANGED <<phase, cmd, tokenVars, queue, job, polled, causes, lateJobs>>

\* Mutant: select! without `biased;` may poll recv() first.
PollCancelledMutant ==
  /\ AtSelect /\ ~polled
  /\ queue > 0
  /\ polled' = TRUE
  /\ UNCHANGED <<phase, cmd, tokenVars, queue, job, returned, causes, lateJobs>>

\* cancelled() is polled first.  run() may fire the token before recv() is.  (A
\* select! that finds no warning either goes to sleep, which changes nothing.)
PollCancelled ==
  /\ AtSelect /\ ~polled /\ ~cancelled
  /\ queue > 0
  /\ polled' = TRUE
  /\ UNCHANGED <<phase, cmd, tokenVars, queue, job, returned, causes, lateJobs>>

Late == IF cancelled THEN 1 ELSE 0

\* Mutant: takes a warning without waiting for one.
TakeWarningMutant ==
  /\ AtSelect
  /\ queue' = queue - 1
  /\ job' = 0
  /\ polled' = FALSE
  /\ lateJobs' = lateJobs + Late
  /\ UNCHANGED <<phase, cmd, tokenVars, returned, causes>>

\* recv() gives a warning, and the command starts.
TakeWarning ==
  /\ AtSelect /\ polled
  /\ queue > 0
  /\ queue' = queue - 1
  /\ job' = 0
  /\ polled' = FALSE
  /\ lateJobs' = lateJobs + Late
  /\ UNCHANGED <<phase, cmd, tokenVars, returned, causes>>

\* How old the token may be that the command prints: minted when it started or
\* when it ended, and of a slow command any age (CmdMax + 1 ticks are many).
Ages == IF job > CmdMax THEN {0} \cup job .. Life ELSE {0, job}

\* Mutant: `return` where the loop goes on: the task renews once.
RenewsMutant ==
  /\ TaskRuns /\ job # Idle
  /\ job' = Idle
  /\ returned' = TRUE
  /\ \E age \in Ages :
       /\ left' = Life - age
       /\ causes' = IF age > CmdMax THEN {"slow"} ELSE {}
  /\ warned' = FALSE
  /\ UNCHANGED <<phase, cmd, expired, queue, polled, lateJobs>>

\* The SDK takes the token.  Nothing looks at whether the old one has expired
\* meanwhile.  What went wrong with that one is over.
Renews ==
  /\ TaskRuns /\ job # Idle
  /\ job' = Idle
  /\ \E age \in Ages :
       /\ left' = Life - age
       /\ causes' = IF age > CmdMax THEN {"slow"} ELSE {}
  /\ warned' = FALSE
  /\ UNCHANGED <<phase, cmd, expired, queue, polled, returned, lateJobs>>

\* It exits with an error, cannot be run, prints nothing or a NUL, or the SDK
\* refuses the token: a line on stderr, and nobody tries again.
RenewFails ==
  /\ TaskRuns /\ job # Idle
  /\ job' = Idle
  /\ causes' = causes \cup {"failed"}
  /\ UNCHANGED <<phase, cmd, tokenVars, queue, polled, returned, lateJobs>>

Task == TaskStop \/ PollCancelled \/ TakeWarning \/ Renews \/ RenewFails

-----------------------------------------------------------------------------
(* The SDK and the clock *)

WarningDue == left <= Lead /\ ~warned

\* on_token_privilege_will_expire, once per token or more often.  It sends on
\* RENEW_TX or, where that is not set, nowhere.
TokenWillExpire ==
  /\ phase # "ended"
  /\ left <= Lead
  /\ warned => queue < MaxQueue
  /\ warned' = TRUE
  /\ IF cmd /\ phase # "connect"
       THEN /\ queue' = IF queue < MaxQueue THEN queue + 1 ELSE queue
            /\ UNCHANGED causes
       ELSE /\ causes' = causes \cup {IF cmd THEN "dropped" ELSE "noCommand"}
            /\ UNCHANGED queue
  /\ UNCHANGED <<phase, cmd, left, expired, job, polled, returned, lateJobs>>

\* on_token_privilege_did_expire.
TokenDidExpire ==
  /\ phase # "ended"
  /\ left = 0 /\ ~expired
  /\ expired' = TRUE
  /\ UNCHANGED <<phase, cmd, left, warned, taskVars, causes>>

Tick ==
  /\ phase # "ended"
  /\ ~WarningDue
  /\ ~(AtSelect /\ (cancelled \/ queue > 0))
  /\ left > 0
  /\ left' = left - 1
  /\ job' = IF job \in {Idle, CmdMax + 1} THEN job ELSE job + 1
  /\ causes' = causes \cup (IF job >= CmdMax THEN {"slow"} ELSE {})
                      \cup (IF queue > 0 /\ phase = "start" THEN {"late"} ELSE {})
  /\ UNCHANGED <<phase, cmd, warned, expired, queue, polled, returned, lateJobs>>

Ended == phase = "ended" /\ UNCHANGED vars

Main == SetRenewSender \/ StartRenewTask \/ InstallSignals \/ RunReturns

Next == \/ Main \/ Leave \/ RunStops
        \/ Task
        \/ TokenWillExpire \/ TokenDidExpire \/ Tick
        \/ Ended

\* main and the task are scheduled, and the command ends.  Neither time nor the SDK's
\* warnings are forced, and run() need not be given an event.
Spec == /\ Init /\ [][Next]_vars
        /\ WF_vars(Main)
        /\ WF_vars(Task)

-----------------------------------------------------------------------------
(* Properties *)

\* README.md:13, "rotates the token without dropping the channel": while main
\* runs, a token expires only if something went wrong with it, whatever went wrong
\* with those before it.  Nothing in the loop itself (a second warning behind a
\* running command, a token minted before the last one was applied) makes it late.
NoExpiryWithoutCause ==
  [][~expired /\ expired' => cancelled \/ causes # {}]_vars

\* main.rs:352-355: the token may fire between the two polls of a select!, so a
\* command may start after it did; but no second one, though warnings wait and go
\* on coming, since the next select! looks at the token first.
OneLateJobAtMost == lateJobs <= 1

\* Each warning that reaches the task is returned with a command: a renewal, or
\* one that failed, does not end the loop.
WarningIsAnswered ==
  (phase \in {"signals", "run"} /\ queue > 0) ~>
    (job # Idle \/ phase \in {"stop", "ended"})
=============================================================================
