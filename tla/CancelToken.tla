---------------------------- MODULE CancelToken ----------------------------
(***************************************************************************)
(* CancelToken of src/src/agora/session.rs: an AtomicBool beside a tokio    *)
(* Notify.  cancel() is two steps (store the flag, then notify_waiters) and *)
(* one poll of cancelled() is up to four (load the flag, enable the         *)
(* Notified future, load the flag again, sleep); every interleaving of the  *)
(* canceller's steps with those of the waiting tasks is explored.           *)
(*                                                                         *)
(* Notify itself is tokio's.  It is modelled by the contract the comments   *)
(* of cancelled() rely on: notify_waiters() wakes the futures registered at *)
(* the moment of the call, and no other.                                    *)
(***************************************************************************)
CONSTANT Waiters   \* the tasks that select! on cancelled()

VARIABLES flag,        \* CancelToken.flag
          registered,  \* Notify: the futures enabled and not yet dropped
          notified,    \* Notify: the registered futures that were woken
          cpc,         \* Session::run, inside cancel()
          pc           \* each task, inside cancelled()

vars == <<flag, registered, notified, cpc, pc>>

PollStates == {"check", "enable", "recheck", "sleep"}
WaiterStates == {"idle", "released"} \cup PollStates

TypeOK == /\ flag \in BOOLEAN
          /\ registered \in SUBSET Waiters
          /\ notified \in SUBSET registered
          /\ cpc \in {"store", "notify", "done"}
          /\ pc \in [Waiters -> WaiterStates]

Init == /\ flag = FALSE
        /\ registered = {}
        /\ notified = {}
        /\ cpc = "store"
        /\ pc = [w \in Waiters |-> "idle"]

-----------------------------------------------------------------------------
(* cancel() *)

StoreFlag == /\ cpc = "store"
             /\ flag' = TRUE
             /\ cpc' = "notify"
             /\ UNCHANGED <<registered, notified, pc>>

\* Mutant: notify_one in place of notify_waiters.
NotifyWaitersMutant ==
  /\ cpc = "notify"
  /\ notified' = IF registered = {} THEN {} ELSE {CHOOSE w \in registered : TRUE}
  /\ cpc' = "done"
  /\ UNCHANGED <<flag, registered, pc>>

NotifyWaiters == /\ cpc = "notify"
                 /\ notified' = registered
                 /\ cpc' = "done"
                 /\ UNCHANGED <<flag, registered, pc>>

-----------------------------------------------------------------------------
(* cancelled() *)

Goto(w, from, to) == /\ pc[w] = from
                     /\ pc' = [pc EXCEPT ![w] = to]

\* Mutant: the dropped future leaves Notify's list but not its wake-ups.
DeregisterMutant(w) == /\ registered' = registered \ {w}
                       /\ notified' = notified

Deregister(w) == /\ registered' = registered \ {w}
                 /\ notified' = notified \ {w}

Call(w) == /\ Goto(w, "idle", "check")
           /\ UNCHANGED <<flag, registered, notified, cpc>>

Check(w) == /\ Goto(w, "check", IF flag THEN "released" ELSE "enable")
            /\ UNCHANGED <<flag, registered, notified, cpc>>

Enable(w) == /\ Goto(w, "enable", "recheck")
             /\ registered' = registered \cup {w}
             /\ UNCHANGED <<flag, notified, cpc>>

\* Mutant: awaits the notification without looking at the flag again.
RecheckMutant(w) == /\ Goto(w, "recheck", "sleep")
                    /\ UNCHANGED <<flag, registered, notified, cpc>>

Recheck(w) == /\ \/ /\ flag
                    /\ Goto(w, "recheck", "released")
                    /\ Deregister(w)
                 \/ /\ ~flag
                    /\ Goto(w, "recheck", "sleep")
                    /\ UNCHANGED <<registered, notified>>
              /\ UNCHANGED <<flag, cpc>>

Wake(w) == /\ w \in notified
           /\ Goto(w, "sleep", "released")
           /\ Deregister(w)
           /\ UNCHANGED <<flag, cpc>>

\* The select! of a pump polls cancelled() first (biased), then the pipe; when
\* the pipe has data the select! ends and drops the sleeping future.
Abandon(w) == /\ Goto(w, "sleep", "idle")
              /\ Deregister(w)
              /\ UNCHANGED <<flag, cpc>>

-----------------------------------------------------------------------------
Cancel == StoreFlag \/ NotifyWaiters

Poll(w) == Check(w) \/ Enable(w) \/ Recheck(w) \/ Wake(w)

\* Everything has been released; nothing is left to do.
Finished == /\ cpc = "done"
            /\ \A w \in Waiters : pc[w] = "released"
            /\ UNCHANGED vars

Next == \/ StoreFlag
        \/ NotifyWaiters
        \/ \E w \in Waiters : \/ Call(w)
                              \/ Check(w)
                              \/ Enable(w)
                              \/ Recheck(w)
                              \/ Wake(w)
                              \/ Abandon(w)
        \/ Finished

\* A poll, once begun, runs to its end, and the executor polls a woken task;
\* run() executes cancel() to its end.  Nothing obliges a task to call
\* cancelled() or to give it up.
Fairness == /\ WF_vars(Cancel)
            /\ \A w \in Waiters : WF_vars(Poll(w))

Spec == Init /\ [][Next]_vars /\ Fairness

-----------------------------------------------------------------------------
(* Properties *)

\* Once cancel() has returned, no task sleeps without a wake-up on its way:
\* the lost notify the comments of CancelToken describe cannot happen.
NoLostWakeup ==
  \A w \in Waiters : cpc = "done" /\ pc[w] = "sleep" => w \in notified

\* cancelled() returns only when the flag is set, so a pump that stops because
\* of it can trust every later load of the flag.
NoSpuriousReturn == \A w \in Waiters : pc[w] = "released" => flag

WaitState(w) == IF pc[w] \in PollStates THEN "waiting" ELSE pc[w]

\* The token is a latch: seen through this mapping each step of the two-step
\* cancel and of the four-step poll is a step of Latch or a stutter, and every
\* task that keeps waiting after the signal is released.
Latched == INSTANCE Latch WITH fired <- flag,
                               wait  <- [w \in Waiters |-> WaitState(w)]
LatchSpec == Latched!Spec
=============================================================================
