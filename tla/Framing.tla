------------------------------- MODULE Framing -------------------------------
(***************************************************************************)
(* From the bytes of one ffmpeg child to the frames that are pushed: the     *)
(* read loop and the drain loop of the encoded pumps of src/src/main.rs       *)
(* around the framers of src/src/parse, byte by byte.  Pump.tla has the same  *)
(* loops with whole frames and the budget of respawns; here a read, or the   *)
(* child, may end inside a start code, a slice header, a lacing table or a    *)
(* length.                                                                  *)
(***************************************************************************)
EXTENDS AnnexB, Containers

CONSTANTS Sources,  \* what children may write, see Source
          ReadMax   \* bytes one read returns, at most

\* format  which framer reads it
\* bytes   what the child writes
\* frames  the frames that are in it
\* known   for each frame, how many bytes tell that it is complete
\* cuts    where the bytes of the frames begin and end; in Ogg, of the pages
Formats == {"h264", "hevc", "ivf", "aac", "opus", "g711"}

ASSUME FramingAssumption == /\ ReadMax \in Nat \ {0}
                            /\ \A s \in Sources : s.format \in Formats /\ s.bytes \in Seq(Byte)

VARIABLES source,  \* one of Sources
          at,      \* bytes read
          pc,      \* "read", "drain", "ended" (end of input) or "failed"
          buf,     \* buf
          reader,  \* IvfReader, OpusDemux
          pushed   \* history: the frames pushed

vars == <<source, at, pc, buf, reader, pushed>>

TypeOK == /\ source.format \in Formats /\ source.bytes \in Seq(Byte)
          /\ at \in 0 .. Len(source.bytes)
          /\ pc \in {"read", "drain", "ended", "failed"}
          /\ buf \in Seq(Byte) /\ Len(buf) <= at
          /\ reader \in Reader
          /\ pushed \in Seq(Frames)

Init == /\ source \in Sources
        /\ at = 0
        /\ pc = "read"
        /\ buf = <<>>
        /\ reader = NewReader
        /\ pushed = <<>>

\* The pump pushes and drains as many bytes from the front of buf as the access
\* unit has, which is the access unit only if that begins there.
pull_au(codec, bytes, kept) ==
  LET au  == next_au(codec, bytes, FALSE)
      len == Len(au[1].data)
  IN  IF au = <<>> THEN NeedMore(bytes, kept)
      ELSE Answer("frame", <<Frame(SubSeq(bytes, 1, len), au[1].key)>>,
                  Drained(bytes, len), kept)

\* One call of the framer, or one turn of its loop, on what buf and reader have.
Pull(format, bytes, kept) ==
  IF format \in {"h264", "hevc"} THEN pull_au(format, bytes, kept)
  ELSE IF format = "ivf" THEN ivf_pull(bytes, kept)
  ELSE IF format = "aac" THEN adts_next_frame(bytes, kept)
  ELSE IF format = "opus" THEN opus_pull(bytes, kept)
  ELSE g711_next_frame(bytes, kept)

Read == /\ pc = "read"
        /\ \E n \in 1 .. ReadMax :
             /\ at + n <= Len(source.bytes)
             /\ at' = at + n
             /\ buf' = buf \o SubSeq(source.bytes, at + 1, at + n)
        /\ pc' = "drain"
        /\ UNCHANGED <<source, reader, pushed>>

\* Mutant: one frame per read, whatever else the buffer has.
DrainMutant ==
  /\ pc = "drain"
  /\ LET answer == Pull(source.format, buf, reader) IN
       /\ buf' = answer.rest
       /\ reader' = answer.reader
       /\ pushed' = pushed \o answer.frames
       /\ pc' = IF answer.status = "again" THEN "drain"
                ELSE IF answer.status = "error" THEN "failed" ELSE "read"
  /\ UNCHANGED <<source, at>>

\* One call of the framer, or one turn of its loop, and the push.
Drain ==
  /\ pc = "drain"
  /\ LET answer == Pull(source.format, buf, reader) IN
       /\ buf' = answer.rest
       /\ reader' = answer.reader
       /\ pushed' = pushed \o answer.frames
       /\ pc' = IF answer.status = "none" THEN "read"
                ELSE IF answer.status = "error" THEN "failed" ELSE "drain"
  /\ UNCHANGED <<source, at>>

\* read() returns 0: the child wrote all, or was killed or lost its source after
\* any byte.  Without a respawn, what is in buf is not looked at again.
EndOfInput == /\ pc = "read"
              /\ pc' = "ended"
              /\ UNCHANGED <<source, at, buf, reader, pushed>>

\* Mutant: what was read of the old child survives the seam.
RespawnMutant == /\ pc = "read"
                 /\ at' = 0 /\ pushed' = <<>>
                 /\ reader' = NewReader
                 /\ UNCHANGED <<source, pc, buf>>

\* Or a new child of a remote source takes over: at and pushed count anew.  It
\* writes the same bytes; one that writes others is another initial state.
Respawn == /\ pc = "read"
           /\ at' = 0 /\ pushed' = <<>>
           /\ buf' = <<>> /\ reader' = NewReader
           /\ UNCHANGED <<source, pc>>

Done == pc \in {"ended", "failed"} /\ UNCHANGED vars

Next == Read \/ Drain \/ EndOfInput \/ Respawn \/ Done

Spec == Init /\ [][Next]_vars

-----------------------------------------------------------------------------
(* Properties *)

\* However the reads cut the stream, what is pushed are the frames that were
\* muxed, whole, in order, with the key frames (IDR or IRAP with the parameter
\* sets, h264.rs:7-12) marked and no other.
FramesAreTheSource == IsPrefix(pushed, source.frames)

\* No frame is held back and no intact stream refused: when the pump goes to
\* read, or returns, it has pushed all that can be told complete (for the access
\* units, all whose successor's first slice or delimiter has arrived).
NothingHeldBack ==
  pc # "drain" =>
    \A k \in 1 .. Len(source.known) : source.known[k] <= at => k <= Len(pushed)

\* h264.rs:30, "eof = true ... emit what's left": the pumps never say so, and
\* what they leave in the buffer of a stream that ends is its last access unit.
TailIsTheLastFrame ==
  pc = "ended" /\ at = Len(source.bytes) /\ source.format \in {"h264", "hevc"} =>
    pushed \o next_au(source.format, buf, TRUE) = source.frames

\* What the child has written, or will, and the pump has not read.
Unread == SubSeq(source.bytes, at + 1, Len(source.bytes))

\* OpusDemux drops what lies before the next page.
Skippable(format, bytes, n) ==
  format = "opus" /\ \A i \in 1 .. n : bytes[i][1] # "OggS"

Whole == INSTANCE WholeStream WITH
           Framer <- Pull,
           rest   <- buf \o Unread,
           over   <- pc \in {"ended", "failed"}

\* Where a pump is that has the whole stream before it, as <<bytes left, reader,
\* pushed>>, and where an answer of the framer takes it.
Start(stream) == <<stream.bytes, NewReader, <<>>>>
Turned(stage, answer) == IF answer.status = "error" THEN stage
                         ELSE <<answer.rest, answer.reader, stage[3] \o answer.frames>>

\* All that it comes to, turn by turn until nothing moves.
AfterTurn(stream, stage) ==
  Turned(stage, Pull(stream.format, stage[1], stage[2]))
Stages(stream) ==
  LET run[n \in 0 .. 2 * Len(stream.bytes)] ==
        IF n = 0 THEN [all |-> {Start(stream)}, last |-> Start(stream)]
        ELSE LET before == run[n - 1]
             IN  [all  |-> before.all \cup {AfterTurn(stream, before.last)},
                  last |-> AfterTurn(stream, before.last)]
  IN  run[2 * Len(stream.bytes)].all

\* Its frames are the muxed ones, and its turn leads to one of the stages.
RightTurn(stream, stages, stage, answer) ==
  /\ IsPrefix(stage[3], stream.frames)
  /\ IsPrefix(stage[3] \o answer.frames, stream.frames)
  /\ Turned(stage, answer) \in stages

\* So do the bytes that may be dropped unread.
RightSkip(stream, stages, stage, n) ==
  Skippable(stream.format, stage[1], n) =>
    <<Drained(stage[1], n), stage[2], stage[3]>> \in stages

\* A framer that asks for more, or gives up, with only m more bytes of the stream
\* at hand has made a frame of all that can be told complete.
NothingWaits(stream, stage, m, answer) ==
  answer.status \in {"none", "error"} =>
    \A k \in 1 .. Len(stream.known) :
      stream.known[k] <= Len(stream.bytes) - Len(stage[1]) + m =>
        k <= Len(stage[3] \o answer.frames)

\* What a pump is left with of a stream of access units is the last of them.
LeavesTheTail(stream, stage, answer) ==
  stream.format \in {"h264", "hevc"} /\ answer.status = "none" =>
    stage[3] \o answer.frames \o next_au(stream.format, stage[1], TRUE) = stream.frames

RightStages(stream, stages) ==
  /\ Start(stream) \in stages
  /\ \A stage \in stages :
       /\ RightTurn(stream, stages, stage, Pull(stream.format, stage[1], stage[2]))
       /\ LeavesTheTail(stream, stage, Pull(stream.format, stage[1], stage[2]))
       /\ \A n \in 0 .. Len(stage[1]) :
            /\ RightSkip(stream, stages, stage, n)
            /\ NothingWaits(stream, stage, n,
                            Pull(stream.format, SubSeq(stage[1], 1, n), stage[2]))

\* Drained in one go, a stream gives the frames that were muxed, none later than
\* it can be told complete, and the stages are all there are.
RightInOneGo(stream) ==
  /\ stream.bytes # <<>>
  /\ \A k \in 1 .. Len(stream.known) : stream.known[k] \in Nat \ {0}
  /\ RightStages(stream, Stages(stream))

\* h264.rs, hevc.rs, ivf.rs, aac.rs, opus.rs, g711.rs: each framer undoes its
\* muxer; for the framers alone, before any read cuts what they are given.
OneGoIsRight == at = 0 /\ pc = "read" => RightInOneGo(source)

\* The pump is one that has the whole stream before it: every answer that it
\* gives on the bytes read so far stands whatever comes after them, in all
\* framers, in the middle of a start code, a slice header, a lacing table or a
\* length as anywhere else.
ReadsDoNotMatter == Whole!Spec

-----------------------------------------------------------------------------
(* What ffmpeg's muxers write: one frame behind the other, each from one cut to  *)
(* the next, or, in Ogg, pages of packets.                                   *)

Span(stream, k) == SubSeq(stream.bytes, stream.cuts[k] + 1, stream.cuts[k + 1])

\* How many bytes a frame takes, by the first of them.
SizeTold(format, bytes) == IF format = "g711" THEN G711Need
                           ELSE IF format = "aac" THEN bytes[2][2] ELSE 2 + bytes[1][2]

\* Are the bytes, and no more of them, what the muxer makes of the frame?
Wraps(format, bytes, frame) ==
  /\ format # "g711" => Len(bytes) >= 2
  /\ format = "aac" => bytes[1][1] = "sync"
  /\ Len(bytes) = SizeTold(format, bytes)
  /\ frame = IF format = "ivf"
               THEN Frame(SubSeq(bytes, 3, Len(bytes)), Len(bytes) > 2 /\ bytes[3][1] = "key")
               ELSE Frame(bytes, FALSE)

\* The stream ends with a part of a frame, or with a frame.
Unfinished(format, bytes) ==
  \/ format # "g711" /\ Len(bytes) < 2
  \/ /\ format = "aac" => bytes[1][1] = "sync" /\ bytes[2][2] >= 2
     /\ Len(bytes) < SizeTold(format, bytes)

\* One frame lies behind the other, and is told complete before the next one is.
InARow(stream) ==
  /\ Len(stream.cuts) = Len(stream.frames) + 1
  /\ \A k \in 1 .. Len(stream.frames) : stream.cuts[k] < stream.cuts[k + 1]
  /\ \A j, k \in 1 .. Len(stream.known) : j < k => stream.known[j] < stream.known[k]

\* IVF, ADTS, G.711: a frame is told complete by its last byte.
WellPacked(stream) ==
  /\ InARow(stream)
  /\ stream.format \in {"ivf", "aac", "g711"}
  /\ Len(stream.known) = Len(stream.frames)
  /\ stream.format = "ivf" => Len(stream.bytes) >= 2 /\ stream.bytes[1][1] = "DKIF"
  /\ stream.cuts[1] = IF stream.format = "ivf" THEN hdr_len(stream.bytes) ELSE 0
  /\ \A k \in 1 .. Len(stream.frames) :
       /\ stream.known[k] = stream.cuts[k + 1]
       /\ Wraps(stream.format, Span(stream, k), stream.frames[k])
  /\ Unfinished(stream.format,
                Drained(stream.bytes, stream.cuts[Len(stream.frames) + 1]))

\* The NALs of frame k, where they begin in the stream, and the slices among them.
Nals(stream, k) == {p \in find_start_codes(stream.bytes) :
                      stream.cuts[k] < p /\ p <= stream.cuts[k + 1]}
Slices(stream, k) == {p \in Nals(stream, k) :
                        nal_unit_type_at(stream.bytes, p) \in CodecSpec[stream.format].vcl}

\* An access unit begins with a delimiter, or with the first slice of a picture.
Delimits(stream, p) ==
  nal_unit_type_at(stream.bytes, p) \in CodecSpec[stream.format].delimiters
Begins(stream, p) ==
  \/ Delimits(stream, p)
  \/ /\ nal_unit_type_at(stream.bytes, p) \in CodecSpec[stream.format].vcl
     /\ starts_picture(stream.format, stream.bytes, p) = "yes"

\* An IDR or IRAP picture that brings all its parameter sets along.
IsKey(stream, k) ==
  /\ \E p \in Slices(stream, k) : nal_unit_type_at(stream.bytes, p) = "idr"
  /\ \A t \in CodecSpec[stream.format].params :
       \E p \in Nals(stream, k) : /\ p < Least(Slices(stream, k))
                                  /\ nal_unit_type_at(stream.bytes, p) = t

\* Annex B: each frame is one picture, its NALs and those before it, and the next
\* one's delimiter or first slice tells it complete; nothing tells the last one.
WellCut(stream) ==
  /\ InARow(stream)
  /\ stream.format \in {"h264", "hevc"}
  /\ Len(stream.frames) = Len(stream.known) + 1
  /\ stream.cuts[1] = 0 /\ stream.cuts[Len(stream.frames) + 1] = Len(stream.bytes)
  /\ \A k \in 1 .. Len(stream.frames) :
       /\ stream.cuts[k] + 1 \in Nals(stream, k)
       /\ Slices(stream, k) # {}
       /\ \A p \in Nals(stream, k) : p > Least(Slices(stream, k)) => ~Begins(stream, p)
       /\ \A p \in Slices(stream, k) :
            starts_picture(stream.format, stream.bytes, p) # "unknown"
       /\ stream.frames[k] = Frame(Span(stream, k), IsKey(stream, k))
  /\ \A k \in 1 .. Len(stream.known) :
       /\ Begins(stream, stream.cuts[k + 1] + 1)
       /\ stream.known[k] = header_at(stream.bytes, stream.cuts[k + 1] + 1)
                              + IF Delimits(stream, stream.cuts[k + 1] + 1) THEN 0
                                ELSE CodecSpec[stream.format].header

\* Ogg: the packets' bytes, one behind the other, are payload.  They are laced: cut
\* into segments of Full bytes, the last of a packet shorter, if need be empty.
Between(bytes, i, j) == SubSeq(bytes, i + 1, j)
Segments(stream) == Len(stream.segs) - 1
SegEnd(stream, g) == stream.segs[g + 1]
Lace(stream, g) == SegEnd(stream, g) - SegEnd(stream, g - 1)

\* Is the g-th segment the last of a packet, and which is the last such of the first g?
EndsPacket(stream, g) == g = 0 \/ Lace(stream, g) < Full
LastEnd(stream, g) ==
  CHOOSE h \in 0 .. g : EndsPacket(stream, h) /\ \A x \in h + 1 .. g : ~EndsPacket(stream, x)

\* The packet that the g-th segment ends.
PacketTo(stream, g) ==
  Between(stream.payload, SegEnd(stream, LastEnd(stream, g - 1)), SegEnd(stream, g))
IsAudio(packet) == packet # <<>> /\ packet[1][1] \in {"opus", "bad"}

WellLaced(stream) ==
  /\ stream.payload \in Seq(Byte)
  /\ stream.segs \in Seq(0 .. Len(stream.payload))
  /\ stream.segs # <<>> /\ stream.segs[1] = 0
  /\ \A g \in 1 .. Segments(stream) :
       /\ SegEnd(stream, g - 1) <= SegEnd(stream, g)
       /\ Lace(stream, g) <= Full

\* The frames are the packets, but headers and empty ones; the first g segments end
\* the first done[g + 1] of them.
WellCounted(stream) ==
  /\ stream.done \in Seq(0 .. Len(stream.frames)) /\ Len(stream.done) = Len(stream.segs)
  /\ stream.done[1] = 0 /\ stream.done[Len(stream.segs)] = Len(stream.frames)
  /\ \A g \in 1 .. Segments(stream) :
       LET packet == PacketTo(stream, g)
       IN  IF EndsPacket(stream, g) /\ IsAudio(packet)
             THEN /\ stream.done[g + 1] = stream.done[g] + 1
                  /\ stream.frames[stream.done[g + 1]] = Frame(packet, FALSE)
             ELSE /\ stream.done[g + 1] = stream.done[g]
                  /\ EndsPacket(stream, g) /\ packet # <<>> =>
                       packet[1][1] \in {"OpusHead", "OpusTags"}

\* Page k has the segments behind the first pages[k].  Its header has their lengths,
\* and whether its first one goes on with a packet.
WellPaged(stream) ==
  /\ stream.format = "opus"
  /\ WellLaced(stream) /\ WellCounted(stream)
  /\ stream.pages \in Seq(0 .. Segments(stream)) /\ Len(stream.pages) = Len(stream.cuts)
  /\ stream.cuts # <<>> /\ stream.cuts[1] = 0 /\ stream.pages[1] = 0
  /\ stream.cuts[Len(stream.cuts)] = Len(stream.bytes)
  /\ \A k \in 1 .. Len(stream.cuts) - 1 :
       LET from  == stream.cuts[k]
           first == stream.pages[k]
           n     == stream.pages[k + 1] - first
       IN  /\ first < stream.pages[k + 1]
           /\ from + 2 + n <= stream.cuts[k + 1]
           /\ stream.bytes[from + 1]
                = <<"OggS", IF EndsPacket(stream, first) THEN 0 ELSE 1>>
           /\ stream.bytes[from + 2][2] = n
           /\ \A i \in 1 .. n : stream.bytes[from + 2 + i][2] = Lace(stream, first + i)
           /\ Between(stream.bytes, from + 2 + n, stream.cuts[k + 1])
                = Between(stream.payload, SegEnd(stream, first), SegEnd(stream, first + n))
  /\ \A i, j \in 1 .. Len(stream.cuts) : i < j => stream.cuts[i] < stream.cuts[j]
  \* A frame is told by the page it ends on, but nothing is of a stream with a packet
  \* that opus_samples refuses.
  /\ \/ stream.known = <<>>
     \/ /\ \A f \in 1 .. Len(stream.frames) : stream.frames[f].data[1][1] # "bad"
        /\ Len(stream.known) = Len(stream.frames)
        /\ \A f \in 1 .. Len(stream.known) :
             /\ \E k \in 1 .. Len(stream.cuts) : stream.known[f] = stream.cuts[k]
             /\ \A k \in 1 .. Len(stream.cuts) :
                  stream.known[f] <= stream.cuts[k] <=> f <= stream.done[stream.pages[k] + 1]

\* A stream as its muxer writes it, or a part of one.
WellMade(stream) ==
  /\ stream.bytes # <<>>
  /\ stream.frames \in Seq(Frames)
  /\ stream.known \in Seq(Nat \ {0})
  /\ stream.cuts \in Seq(0 .. Len(stream.bytes))
  /\ WellPacked(stream) \/ WellCut(stream) \/ WellPaged(stream)
=============================================================================
