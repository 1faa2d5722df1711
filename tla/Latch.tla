------------------------------- MODULE Latch -------------------------------
(***************************************************************************)
(* What src/src/agora/session.rs promises of CancelToken: a signal that is  *)
(* fired once, stays fired, and releases every task that is waiting for it  *)
(* or that starts to wait later.  CancelToken.tla implements this module.   *)
(***************************************************************************)
CONSTANT Waiters

VARIABLES fired,  \* has cancel() been called
          wait    \* what each task is doing: "idle", "waiting", "released"

latchVars == <<fired, wait>>

Init == /\ fired = FALSE
        /\ wait = [w \in Waiters |-> "idle"]

Fire == /\ fired' = TRUE
        /\ UNCHANGED wait

Move(w, from, to) == /\ wait[w] = from
                     /\ wait' = [wait EXCEPT ![w] = to]
                     /\ UNCHANGED fired

Await(w)   == Move(w, "idle", "waiting")

Release(w) == fired /\ Move(w, "waiting", "released")

\* The other branch of the caller's select! won; the future is dropped.
Abandon(w) == Move(w, "waiting", "idle")

Next == \/ Fire
        \/ \E w \in Waiters : Await(w) \/ Release(w) \/ Abandon(w)

Spec == /\ Init
        /\ [][Next]_latchVars
        /\ \A w \in Waiters : WF_latchVars(Release(w))
=============================================================================
