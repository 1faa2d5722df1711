------------------------- MODULE CancelTokenProofs -------------------------
(***************************************************************************)
(* CancelToken for any set of waiting tasks: its invariants, and that every *)
(* step of it is a step of Latch or a stutter.                              *)
(***************************************************************************)
EXTENDS CancelToken, TLAPS

\* What makes the invariants inductive: a task about to sleep or sleeping is
\* registered, and the flag is stored before anybody is notified.
Registration == \A w \in Waiters : pc[w] \in {"recheck", "sleep"} => w \in registered
StoredFirst  == cpc \in {"notify", "done"} => flag
WokenAfter   == notified # {} => flag

TokenInv == /\ TypeOK
            /\ Registration
            /\ StoredFirst
            /\ WokenAfter
            /\ NoLostWakeup
            /\ NoSpuriousReturn

USE DEF TypeOK, PollStates, WaiterStates, Goto, Deregister

LEMMA TokenInit == Init => TokenInv
BY DEF Init, TokenInv, Registration, StoredFirst, WokenAfter, NoLostWakeup,
       NoSpuriousReturn

LEMMA TokenStep == TokenInv /\ [Next]_vars => TokenInv'
<1> SUFFICES ASSUME TokenInv, [Next]_vars PROVE TokenInv'
  OBVIOUS
<1> USE DEF TokenInv, Registration, StoredFirst, WokenAfter, NoLostWakeup,
            NoSpuriousReturn
<1>1. CASE StoreFlag
  BY <1>1 DEF StoreFlag
<1>2. CASE NotifyWaiters
  BY <1>2 DEF NotifyWaiters
<1>3. ASSUME NEW w \in Waiters, Call(w) PROVE TokenInv'
  BY <1>3 DEF Call
<1>4. ASSUME NEW w \in Waiters, Check(w) PROVE TokenInv'
  BY <1>4 DEF Check
<1>5. ASSUME NEW w \in Waiters, Enable(w) PROVE TokenInv'
  BY <1>5 DEF Enable
<1>6. ASSUME NEW w \in Waiters, Recheck(w) PROVE TokenInv'
  BY <1>6 DEF Recheck
<1>7. ASSUME NEW w \in Waiters, Wake(w) PROVE TokenInv'
  BY <1>7 DEF Wake
<1>8. ASSUME NEW w \in Waiters, Abandon(w) PROVE TokenInv'
  BY <1>8 DEF Abandon
<1>9. CASE UNCHANGED vars \/ Finished
  BY <1>9 DEF vars, Finished
<1> QED
  BY <1>1, <1>2, <1>3, <1>4, <1>5, <1>6, <1>7, <1>8, <1>9 DEF Next

\* session.rs cancel()/cancelled(): for every set of waiting tasks the inductive
\* invariant holds in every reachable state.
THEOREM TokenInvariant == Spec => []TokenInv
BY TokenInit, TokenStep, PTL DEF Spec

\* Every variable keeps its type, for every set of waiting tasks.
THEOREM TypeCorrect == Spec => []TypeOK
<1>1. TokenInv => TypeOK
  BY DEF TokenInv
<1> QED
  BY <1>1, TokenInvariant, PTL

\* session.rs:27-34: a cancel() that has returned leaves no task asleep without
\* a wake-up on its way, however its two steps interleave with the polls.
THEOREM NoWakeupIsLost == Spec => []NoLostWakeup
<1>1. TokenInv => NoLostWakeup
  BY DEF TokenInv
<1> QED
  BY <1>1, TokenInvariant, PTL

\* session.rs:53-69: cancelled() returns only after the flag was stored.
THEOREM ReturnMeansCancelled == Spec => []NoSpuriousReturn
<1>1. TokenInv => NoSpuriousReturn
  BY DEF TokenInv
<1> QED
  BY <1>1, TokenInvariant, PTL

-----------------------------------------------------------------------------
(* Refinement: the safety part of Latch, step by step. *)

LEMMA InitRefines == Init => Latched!Init
BY DEF Init, Latched!Init, WaitState

LEMMA StepRefines == TokenInv /\ [Next]_vars => [Latched!Next]_(Latched!latchVars)
<1> SUFFICES ASSUME TokenInv, [Next]_vars
             PROVE  [Latched!Next]_(Latched!latchVars)
  OBVIOUS
<1> USE DEF TokenInv, WaitState, Latched!latchVars, Latched!Next, Latched!Move
<1>1. CASE StoreFlag
  BY <1>1 DEF StoreFlag, Latched!Fire
<1>2. CASE NotifyWaiters
  BY <1>2 DEF NotifyWaiters
<1>3. ASSUME NEW w \in Waiters, Call(w) PROVE [Latched!Next]_(Latched!latchVars)
  <2>1. Latched!Await(w)
    BY <1>3 DEF Call, Latched!Await
  <2> QED BY <2>1
<1>4. ASSUME NEW w \in Waiters, Check(w) PROVE [Latched!Next]_(Latched!latchVars)
  <2>1. CASE flag
    <3>1. Latched!Release(w)
      BY <1>4, <2>1 DEF Check, Latched!Release
    <3> QED BY <3>1
  <2>2. CASE ~flag
    BY <1>4, <2>2 DEF Check
  <2> QED BY <2>1, <2>2
<1>5. ASSUME NEW w \in Waiters, Enable(w) PROVE [Latched!Next]_(Latched!latchVars)
  BY <1>5 DEF Enable
<1>6. ASSUME NEW w \in Waiters, Recheck(w) PROVE [Latched!Next]_(Latched!latchVars)
  <2>1. CASE flag
    <3>1. Latched!Release(w)
      BY <1>6, <2>1 DEF Recheck, Latched!Release
    <3> QED BY <3>1
  <2>2. CASE ~flag
    BY <1>6, <2>2 DEF Recheck
  <2> QED BY <2>1, <2>2
<1>7. ASSUME NEW w \in Waiters, Wake(w) PROVE [Latched!Next]_(Latched!latchVars)
  <2>1. flag
    BY <1>7 DEF Wake, WokenAfter
  <2>2. Latched!Release(w)
    BY <1>7, <2>1 DEF Wake, Latched!Release
  <2> QED BY <2>2
<1>8. ASSUME NEW w \in Waiters, Abandon(w) PROVE [Latched!Next]_(Latched!latchVars)
  <2>1. Latched!Abandon(w)
    BY <1>8 DEF Abandon, Latched!Abandon
  <2> QED BY <2>1
<1>9. CASE UNCHANGED vars \/ Finished
  BY <1>9 DEF vars, Finished
<1> QED
  BY <1>1, <1>2, <1>3, <1>4, <1>5, <1>6, <1>7, <1>8, <1>9 DEF Next

\* session.rs cancel()/cancelled() implement a one-shot latch: no interleaving of
\* the two-step cancel with the polls shows a caller anything else.
THEOREM TokenIsALatch ==
  Spec => Latched!Init /\ [][Latched!Next]_(Latched!latchVars)
BY InitRefines, StepRefines, TokenInvariant, PTL DEF Spec
=============================================================================
