---------------------------- MODULE PumpContract ----------------------------
(***************************************************************************)
(* What Session.tla takes a pump of src/src/main.rs to be: a task that      *)
(* alternates between a select! (read ffmpeg's pipe, or see the token) and  *)
(* a stretch in which the token is not looked at, and that returns once, at *)
(* most one Failed event sent on its way out.  PumpStop, PumpRead, PumpEnd  *)
(* and PumpDrain there are Stop, Read, End and Drain here; Pump.tla         *)
(* implements this module.                                                  *)
(***************************************************************************)
VARIABLES state,      \* "select", "drain" or "return"
          cancelled,  \* has the token been fired
          failed      \* has Failed been sent

contractVars == <<state, cancelled, failed>>

Init == /\ state = "select"
        /\ cancelled = FALSE
        /\ failed = FALSE

Cancel == cancelled' = TRUE /\ UNCHANGED <<state, failed>>

Go(from, to) == state = from /\ state' = to /\ UNCHANGED cancelled

\* The token wins the select!: the pump returns, and reports nothing.
Stop == cancelled /\ Go("select", "return") /\ UNCHANGED failed

Read == ~cancelled /\ Go("select", "drain") /\ UNCHANGED failed

\* The input is over; what reports it is Failed, and a local file's end is silent.
End == ~cancelled /\ Go("select", "return") /\ failed' \in {failed, TRUE}

Drain == \/ Go("drain", "select") /\ UNCHANGED failed
         \/ Go("drain", "return") /\ failed' = TRUE

Next == Cancel \/ Stop \/ Read \/ End \/ Drain

\* A read may block for ever, the rest may not: the token returns the pump.
Spec == /\ Init /\ [][Next]_contractVars
        /\ WF_contractVars(Stop) /\ WF_contractVars(Drain)
=============================================================================
