----------------------------- MODULE WholeStream -----------------------------
(***************************************************************************)
(* What the encoded pumps of src/src/main.rs promise of their framers: how   *)
(* the reads cut what an ffmpeg child writes makes no difference.  A pump    *)
(* that had the whole stream in its buffer from the start would take the     *)
(* same frames off it, in the same turns.  Framing.tla implements this        *)
(* module.                                                                  *)
(***************************************************************************)
EXTENDS Naturals, Sequences

CONSTANTS NewReader,         \* what a framer keeps, at first
          Framer(_, _, _),   \* its answer: by format, bytes and what it keeps
          Skippable(_, _, _) \* may it drop so many bytes of these unread

VARIABLES source,  \* what the child writes: any stream
          rest,    \* what of it no frame has been made of
          reader,  \* what the framer keeps
          pushed,  \* the frames pushed
          over     \* has the pump returned

wholeVars == <<source, rest, reader, pushed, over>>

Init == /\ rest = source.bytes
        /\ reader = NewReader
        /\ pushed = <<>>
        /\ over = FALSE

\* One call of the framer, or one turn of its loop, with all bytes at hand.
Turn == /\ ~over
        /\ LET answer == Framer(source.format, rest, reader) IN
             /\ rest' = answer.rest
             /\ reader' = answer.reader
             /\ pushed' = pushed \o answer.frames
             /\ over' = (answer.status = "error")
        /\ UNCHANGED source

\* Bytes that no frame begins with are dropped as they come.
Skip == /\ ~over
        /\ \E n \in 0 .. Len(rest) :
             /\ Skippable(source.format, rest, n)
             /\ rest' = SubSeq(rest, n + 1, Len(rest))
        /\ UNCHANGED <<source, reader, pushed, over>>

\* The input ends after any byte.
End == /\ ~over
       /\ over' = TRUE
       /\ UNCHANGED <<source, rest, reader, pushed>>

\* A new child takes over, and nothing of the old one is left.
Restart == /\ ~over
           /\ rest' = source.bytes
           /\ reader' = NewReader
           /\ pushed' = <<>>
           /\ UNCHANGED <<source, over>>

Next == Turn \/ Skip \/ End \/ Restart

Spec == Init /\ [][Next]_wholeVars
=============================================================================
