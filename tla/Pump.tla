-------------------------------- MODULE Pump --------------------------------
(***************************************************************************)
(* The pumps of src/src/main.rs: the loop that moves what one ffmpeg child  *)
(* writes to its stdout into one publisher, frame by frame, and respawns    *)
(* the child when a remote input ends.  The eight pump_* functions are one  *)
(* loop around eight framers; `pump` says which one is running.             *)
(*                                                                         *)
(* A child's output is a sequence of units, a frame being two of them, so   *)
(* that a read may end inside a frame; a unit names the child, the frame    *)
(* and its half.  A frame's payload and its time stamps are left out.       *)
(***************************************************************************)
EXTENDS Naturals, Sequences, FiniteSets

CONSTANTS Attempts,  \* --reconnect-attempts
          Frames,    \* the frames a child writes if it is not cut short
          ReadMax    \* units one read of the pipe can return

ASSUME PumpAssumption == /\ Attempts \in Nat
                         /\ Frames \in Nat \ {0}
                         /\ ReadMax \in Nat \ {0}

VARIABLES pump,       \* which pump_* function this is
          kind,       \* InputKindLite of the input
          cancelled,  \* the CancelToken
          pc,         \* "read" (in select!), "drain", "push" or "returned"
          child,      \* parity of the child being read
          at,         \* units read from it
          buf,        \* buf, or buf[..filled] where frames are read exactly
          reader,     \* what IvfReader or OpusDemux holds
          frame,      \* the frame about to be pushed
          out,        \* frames of this child pushed
          failures,   \* consecutive_failures
          respawned,  \* last_respawn_at: "never", "recently", or "settled" 2 s ago
          progress,   \* pushed_since_last_respawn
          barren,     \* history: respawns since a frame was last pushed
          sent        \* the reason in the Failed event sent, "none" before

childVars  == <<child, at>>
frameVars  == <<buf, reader, frame>>
budgetVars == <<failures, respawned, progress, barren>>
vars == <<pump, kind, cancelled, pc, childVars, frameVars, out, budgetVars, sent>>

-----------------------------------------------------------------------------
(* The eight functions *)

\* framing  how a frame is found: up to the start of the next one, by a length
\*          at its head, page by page, or by reading exactly its size
\* header   does the container begin with a header of its own
\* fails    can the framer return Err
Framer(framing, header, fails) ==
  [framing |-> framing, header |-> header, fails |-> fails]

pump_h264 == Framer("nextStart", FALSE, FALSE)
pump_hevc == Framer("nextStart", FALSE, FALSE)
pump_ivf  == Framer("length", TRUE, TRUE)
pump_aac  == Framer("length", FALSE, TRUE)
pump_opus == Framer("pages", TRUE, TRUE)
pump_g711 == Framer("length", FALSE, FALSE)
pump_yuv  == Framer("exact", FALSE, FALSE)
pump_pcm  == Framer("exact", FALSE, FALSE)

Pumps == [h264 |-> pump_h264, hevc |-> pump_hevc, ivf  |-> pump_ivf,
          aac  |-> pump_aac,  opus |-> pump_opus, g711 |-> pump_g711,
          yuv  |-> pump_yuv,  pcm  |-> pump_pcm]

This == Pumps[pump]

InputKinds == {"LocalFile", "Http", "Rtmp", "Rtsp"}

is_remote == kind \in {"Http", "Rtmp", "Rtsp"}

Unit   == {0, 1} \X (0 .. Frames) \X {1, 2}
Header == <<child, 0, 1>>

\* What the current child writes.
Output == (IF This.header THEN <<Header>> ELSE <<>>)
            \o [i \in 1 .. 2 * Frames |-> <<child, (i + 1) \div 2, 2 - (i % 2)>>]

TypeOK == /\ pump \in DOMAIN Pumps /\ kind \in InputKinds
          /\ cancelled \in BOOLEAN
          /\ pc \in {"read", "drain", "push", "returned"}
          /\ child \in {0, 1} /\ at \in 0 .. 2 * Frames + 1
          /\ buf \in Seq(Unit) /\ reader \in Seq(Unit) /\ frame \in Seq(Unit)
          /\ out \in 0 .. Frames
          /\ failures \in 0 .. Attempts
          /\ respawned \in {"never", "recently", "settled"}
          /\ progress \in BOOLEAN
          /\ barren \in 0 .. Attempts + 1
          /\ sent \in {"none", "unreachable", "respawn", "pipe", "parse", "push"}

Init == /\ pump \in DOMAIN Pumps /\ kind \in InputKinds
        /\ cancelled = FALSE
        /\ pc = "read"
        /\ child = 0 /\ at = 0
        /\ buf = <<>> /\ reader = <<>> /\ frame = <<>>
        /\ out = 0
        /\ failures = 0
        /\ respawned = "never"
        /\ progress = TRUE
        /\ barren = 0
        /\ sent = "none"

Goto(from, to) == pc = from /\ pc' = to

\* return, after a Failed event where there is a reason for one.
Fail(from, reason) == /\ Goto(from, "returned")
                      /\ sent' = reason
                      /\ UNCHANGED <<pump, kind, cancelled, childVars, frameVars,
                                     out, budgetVars>>

-----------------------------------------------------------------------------
(* select! *)

\* Mutant: the token is only looked at between frames.
StopMutant ==
  /\ cancelled /\ buf = <<>>
  /\ Fail("read", "none")

\* biased: the token is polled first.
Stop ==
  /\ cancelled
  /\ Fail("read", "none")

\* The next unread units.  An exact read asks for what its frame still misses.
Chunk(n) == /\ n <= Len(Output) - at
            /\ This.framing = "exact" => n <= 2 - Len(buf)

\* A frame read exactly is pushed as soon as it is full, without a framer.
Read ==
  /\ ~cancelled
  /\ pc = "read"
  /\ \E n \in 1 .. ReadMax :
       /\ Chunk(n)
       /\ at' = at + n
       /\ LET got == buf \o SubSeq(Output, at + 1, at + n) IN
          IF This.framing # "exact"
            THEN buf' = got /\ pc' = "drain" /\ UNCHANGED frame
            ELSE IF Len(got) = 2
              THEN buf' = <<>> /\ frame' = got /\ pc' = "push"
              ELSE buf' = got /\ UNCHANGED <<pc, frame>>
  /\ UNCHANGED <<pump, kind, cancelled, child, reader, out, budgetVars, sent>>

ReadFails ==
  /\ ~cancelled
  /\ Fail("read", "pipe")

\* read() returns 0: the input is over or ffmpeg has died, at any point.
Eof == ~cancelled /\ pc = "read"

\* Mutant: one respawn too many.
MayRespawnMutant == is_remote /\ failures <= Attempts

MayRespawn == is_remote /\ failures < Attempts

\* Bound on the history: past the budget all counts are alike.
OneMore(n) == IF n > Attempts THEN n ELSE n + 1

\* Mutant: partial frames of the old child are kept.
RespawnKeepsBufferMutant ==
  /\ Eof /\ MayRespawn
  /\ failures' = (IF progress THEN 0 ELSE failures) + 1
  /\ respawned' = "recently"
  /\ progress' = FALSE
  /\ barren' = OneMore(barren)
  /\ child' = 1 - child /\ at' = 0
  /\ reader' = <<>>
  /\ out' = 0
  /\ UNCHANGED <<pump, kind, cancelled, pc, buf, frame, sent>>

\* Mutant: progress is not reset, so that every end of input looks like the
\* first one after a frame.
RespawnKeepsProgressMutant ==
  /\ Eof /\ MayRespawn
  /\ failures' = (IF progress THEN 0 ELSE failures) + 1
  /\ respawned' = "recently"
  /\ barren' = OneMore(barren)
  /\ child' = 1 - child /\ at' = 0
  /\ buf' = <<>> /\ reader' = <<>>
  /\ out' = 0
  /\ UNCHANGED <<pump, kind, cancelled, pc, frame, progress, sent>>

\* The failures are forgotten if the old child gave a frame; the new child
\* counts as one until it gives one too.
Respawn ==
  /\ Eof /\ MayRespawn
  /\ failures' = (IF progress THEN 0 ELSE failures) + 1
  /\ respawned' = "recently"
  /\ progress' = FALSE
  /\ barren' = OneMore(barren)
  /\ child' = 1 - child /\ at' = 0
  /\ buf' = <<>> /\ reader' = <<>>
  /\ out' = 0
  /\ UNCHANGED <<pump, kind, cancelled, pc, frame, sent>>

RespawnFails == Eof /\ MayRespawn /\ Fail("read", "respawn")

GiveUp == /\ Eof /\ ~MayRespawn
          /\ Fail("read", IF is_remote THEN "unreachable" ELSE "none")

-----------------------------------------------------------------------------
(* The drain loop: one call of the framer, then the push of what it returned *)

Starts == {i \in 1 .. Len(buf) : buf[i][3] = 1}

\* next_au(buf, false), next_frame(buf), IvfReader::pull, OpusDemux::pull:
\* has it a frame to return?
HasFrame ==
  CASE This.framing = "nextStart" -> Cardinality(Starts) >= 2
    [] This.framing = "length"    -> Len(buf) >= 2 /\ (This.header => reader # <<>>)
    [] OTHER                      -> reader # <<>> /\ buf # <<>>

\* Mutant: the start code that ends an access unit is drained with it.
FrameEndMutant == IF This.framing = "nextStart"
              THEN 1 + CHOOSE n \in 1 .. Len(buf) :
                     n + 1 \in Starts /\ Cardinality({i \in Starts : i <= n}) = 1
              ELSE IF This.framing = "length" THEN 2 ELSE 1

\* How much of buf goes with the frame.
FrameEnd == IF This.framing = "nextStart"
              THEN CHOOSE n \in 1 .. Len(buf) :
                     n + 1 \in Starts /\ Cardinality({i \in Starts : i <= n}) = 1
              ELSE IF This.framing = "length" THEN 2 ELSE 1

\* OpusDemux joins what it carries with the page that completes it.
Pull ==
  /\ HasFrame
  /\ Goto("drain", "push")
  /\ LET taken == SubSeq(buf, 1, FrameEnd) IN
     IF This.framing = "pages"
       THEN frame' = reader \o taken /\ reader' = <<>>
       ELSE frame' = taken /\ UNCHANGED reader
  /\ buf' = SubSeq(buf, FrameEnd + 1, Len(buf))
  /\ UNCHANGED <<pump, kind, cancelled, childVars, out, budgetVars, sent>>

\* The IVF file header is taken once and remembered, an OpusHead page is
\* skipped, a page that ends inside a packet is carried over.
HasPrelude == /\ ~HasFrame /\ buf # <<>>
              /\ \/ This.header /\ This.framing = "length" /\ reader = <<>>
                 \/ This.framing = "pages"

Prelude ==
  /\ pc = "drain"
  /\ HasPrelude
  /\ Head(buf) = Header \/ This.framing = "pages"   \* else "bad DKIF magic"
  /\ buf' = Tail(buf)
  /\ reader' = IF This.framing = "pages" /\ Head(buf) = Header
                 THEN reader ELSE <<Head(buf)>>
  /\ UNCHANGED <<pump, kind, cancelled, pc, childVars, frame, out, budgetVars, sent>>

NeedMore ==
  /\ ~HasFrame /\ ~HasPrelude
  /\ Goto("drain", "read")
  /\ UNCHANGED <<pump, kind, cancelled, childVars, frameVars, out, budgetVars, sent>>

\* Whatever ffmpeg wrote, the framer may refuse it.
ParseFails == This.fails /\ buf # <<>> /\ Fail("drain", "parse")

\* sleep_until(target), then push.  The first push 2 s after a respawn clears
\* the failures.
Push ==
  /\ Goto("push", IF This.framing = "exact" THEN "read" ELSE "drain")
  /\ out' = out + 1
  /\ progress' = TRUE
  /\ barren' = 0
  /\ IF respawned = "settled" THEN failures' = 0 /\ respawned' = "never"
                              ELSE UNCHANGED <<failures, respawned>>
  /\ frame' = <<>>
  /\ UNCHANGED <<pump, kind, cancelled, childVars, buf, reader, sent>>

PushFails == Fail("push", "push")

-----------------------------------------------------------------------------
(* The rest of the program, and the clock *)

Cancel ==
  /\ ~cancelled
  /\ cancelled' = TRUE
  /\ UNCHANGED <<pump, kind, pc, childVars, frameVars, out, budgetVars, sent>>

\* 2 s have gone by since the respawn.
Settle ==
  /\ respawned = "recently"
  /\ respawned' = "settled"
  /\ UNCHANGED <<pump, kind, cancelled, pc, childVars, frameVars, out, failures,
                 progress, barren, sent>>

Returned == pc = "returned" /\ UNCHANGED vars

Reads  == Read \/ ReadFails \/ Respawn \/ RespawnFails \/ GiveUp
Drains == Pull \/ Prelude \/ NeedMore \/ ParseFails \/ Push \/ PushFails

Next == Stop \/ Reads \/ Drains \/ Cancel \/ Settle \/ Returned

\* The pump is polled, and its sleeps and pushes end.  A read may block for
\* ever: ffmpeg is given no timeout for a silent source.
Spec == /\ Init /\ [][Next]_vars
        /\ WF_vars(Stop) /\ WF_vars(Drains)

-----------------------------------------------------------------------------
(* Properties *)

\* What is pushed is one whole frame, the next one of the child being read,
\* however the reads and the ends of input cut the stream: main.rs:530, 779, 999
\* ("discard partial parser state across the seam").
PushesNextFrame ==
  pc = "push" => frame = <<<<child, out + 1, 1>>, <<child, out + 1, 2>>>>

\* A local input that plays to its end is pushed entirely, but for the last
\* access unit where the framer waits for the next one: next_au is never told
\* eof.
PlayedToTheEnd ==
  /\ pc = "returned" /\ sent = "none" /\ ~cancelled
  /\ at = Len(Output)
  => out = IF This.framing = "nextStart" THEN Frames - 1 ELSE Frames

\* --reconnect-attempts: ffmpeg is not respawned more often than that without a
\* frame in between.  (failures alone does not say so: it is reset in two
\* places.)
BarrenBudget == barren <= Attempts

\* A remote input that gives no more frames is given up, a local one ends: as
\* long as its reads return.  (A source that falls silent blocks one for ever.)
DeadSourceGivenUp == WF_vars(Reads) /\ <>[](pc # "push") => <>(pc = "returned")

\* Session.tla's view of a pump is implemented by all eight of them.
ContractState == [read |-> "select", drain |-> "drain", push |-> "drain",
                  returned |-> "return"]

Contract == INSTANCE PumpContract WITH state  <- ContractState[pc],
                                       failed <- (sent # "none")

KeepsContract == Contract!Spec

-----------------------------------------------------------------------------
(* What comments of the code say and the code does not do *)

\* main.rs:512 and 585-588: progress since the respawn resets the failures, so
\* that a source given up as unreachable has made none.
GivenUpWithoutProgress == sent = "unreachable" /\ Attempts > 0 => ~progress
=============================================================================
