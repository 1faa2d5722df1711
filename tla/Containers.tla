----------------------------- MODULE Containers -----------------------------
(***************************************************************************)
(* The framers whose frames have a length: IvfReader::pull, aac::next_frame, *)
(* g711::next_frame and OpusDemux::pull of src/src/parse.  Each is given the *)
(* buffer and what the reader keeps, and says what one call, or one turn of  *)
(* its loop, does to them.                                                  *)
(*                                                                         *)
(* A byte is a pair <<kind, number>>; a header field is one byte whose       *)
(* number is its value, so that a header of 32 bytes has 2 here, one of 27   *)
(* bytes 2, one of 12 or 7 bytes 2.                                         *)
(***************************************************************************)
EXTENDS Naturals, Sequences, SequencesExt

CONSTANTS Full,      \* the lacing value that means "not the end" (255)
          G711Need   \* bytes in a G.711 frame: sr / 1000 * frame_ms * channels

ASSUME ContainersAssumption == Full \in Nat \ {0} /\ G711Need \in Nat \ {0}

Byte   == STRING \X Nat
Frames == [data : Seq(Byte), key : BOOLEAN]

\* What a reader keeps between two calls.
Reader == [header_seen : BOOLEAN, carry : Seq(Byte), carry_active : BOOLEAN,
           ready : Seq(Frames)]

\* IvfReader's header_seen; OpusDemux's carry, carry_active and ready.
NewReader == [header_seen |-> FALSE, carry |-> <<>>, carry_active |-> FALSE,
              ready |-> <<>>]

Frame(data, key) == [data |-> data, key |-> key]

\* status  "frame": here is one; "none": more bytes are needed; "again": the loop
\*         goes on; "error"
Answer(status, frames, rest, reader) ==
  [status |-> status, frames |-> frames, rest |-> rest, reader |-> reader]

NeedMore(buf, reader) == Answer("none", <<>>, buf, reader)
Broken(buf, reader)   == Answer("error", <<>>, buf, reader)
Drained(buf, n)       == SubSeq(buf, n + 1, Len(buf))

-----------------------------------------------------------------------------
(* Video in IVF *)

\* vp8_is_keyframe, vp9_is_keyframe, av1_is_keyframe: by the payload's first
\* bytes, which are one here; an empty payload is no key frame.
is_keyframe(payload) == payload # <<>> /\ payload[1][1] = "key"

\* The file header says how long it is, and is taken for no shorter than it must be.
hdr_len(buf) == IF buf[2][2] > 2 THEN buf[2][2] ELSE 2

ivf_pull(buf, reader) ==
  IF ~reader.header_seen
    THEN IF Len(buf) < 2 THEN NeedMore(buf, reader)
         ELSE IF buf[1][1] # "DKIF" THEN Broken(buf, reader)
         ELSE IF Len(buf) < hdr_len(buf) THEN NeedMore(buf, reader)
         ELSE Answer("again", <<>>, Drained(buf, hdr_len(buf)),
                     [reader EXCEPT !.header_seen = TRUE])
  ELSE IF Len(buf) < 2 \/ Len(buf) < 2 + buf[1][2] THEN NeedMore(buf, reader)
  ELSE LET payload == SubSeq(buf, 3, 2 + buf[1][2])
       IN  Answer("frame", <<Frame(payload, is_keyframe(payload))>>,
                  Drained(buf, 2 + buf[1][2]), reader)

-----------------------------------------------------------------------------
(* AAC in ADTS: the second header byte has the length, header included.  The *)
(* frame keeps its header.                                                  *)

adts_next_frame(buf, reader) ==
  IF Len(buf) < 2 THEN NeedMore(buf, reader)
  ELSE IF buf[1][1] # "sync" \/ buf[2][2] < 2 THEN Broken(buf, reader)
  ELSE IF Len(buf) < buf[2][2] THEN NeedMore(buf, reader)
  ELSE Answer("frame", <<Frame(SubSeq(buf, 1, buf[2][2]), FALSE)>>,
              Drained(buf, buf[2][2]), reader)

-----------------------------------------------------------------------------
(* G.711: no framing at all. *)

g711_next_frame(buf, reader) ==
  IF Len(buf) < G711Need THEN NeedMore(buf, reader)
  ELSE Answer("frame", <<Frame(SubSeq(buf, 1, G711Need), FALSE)>>,
              Drained(buf, G711Need), reader)

-----------------------------------------------------------------------------
(* Opus in Ogg.  A page is "OggS" with the continued flag, the number of      *)
(* lacing values, the lacing values, and as many bytes as they add up to.    *)

Sum(ns) == LET sum[i \in 0 .. Len(ns)] == IF i = 0 THEN 0 ELSE sum[i - 1] + ns[i]
           IN  sum[Len(ns)]

laces_at(buf) == [i \in 1 .. buf[2][2] |-> buf[2 + i][2]]

page_total(buf) == 2 + buf[2][2] + Sum(laces_at(buf))

page_complete(buf) ==
  /\ Len(buf) >= 2
  /\ Len(buf) >= 2 + buf[2][2]
  /\ Len(buf) >= page_total(buf)

\* A page that is complete.
page_at(buf) == [continued |-> buf[1][2] = 1,
                 laces     |-> laces_at(buf),
                 data      |-> SubSeq(buf, 3 + buf[2][2], page_total(buf))]

\* OpusHead, OpusTags and empty packets are no audio.
is_audio(packet) == packet # <<>> /\ packet[1][1] \notin {"OpusHead", "OpusTags"}

\* What goes into the first packet of the page.
carried(page, reader) ==
  IF page.continued /\ reader.carry_active THEN reader.carry ELSE <<>>

\* One lacing value: its data is of the packet begun, and ends it if below Full.
lace_next(page, so_far, lace) ==
  LET off == so_far.off + lace
      cur == so_far.cur \o SubSeq(page.data, so_far.off + 1, off)
  IN  [off   |-> off,
       cur   |-> IF lace < Full THEN <<>> ELSE cur,
       ready |-> IF lace < Full /\ is_audio(cur)
                   THEN Append(so_far.ready, Frame(cur, FALSE)) ELSE so_far.ready]

\* All of them: where their data ends, the packet begun, the audio packets ended.
lace_loop(page, reader) ==
  LET laced[i \in 0 .. Len(page.laces)] ==
        IF i = 0 THEN [off |-> 0, cur |-> carried(page, reader), ready |-> <<>>]
        ELSE lace_next(page, laced[i - 1], page.laces[i])
  IN  laced[Len(page.laces)]

\* Mutant: the part of a packet that a page's end cuts off is not carried over.
afterMutant(page, reader) ==
  [reader EXCEPT !.carry = <<>>,
                 !.carry_active = FALSE,
                 !.ready = lace_loop(page, reader).ready]

\* carry is kept, though inactive, unless it is replaced or taken.
after(page, reader) ==
  LET active == page.laces # <<>> /\ Last(page.laces) = Full
  IN  [reader EXCEPT
        !.carry = IF active THEN lace_loop(page, reader).cur
                  ELSE IF page.continued /\ reader.carry_active THEN <<>> ELSE @,
        !.carry_active = active,
        !.ready = lace_loop(page, reader).ready]

\* A packet that opus_samples refuses loses those before it.
refused(page, reader) ==
  LET ready == lace_loop(page, reader).ready
  IN  \E j \in 1 .. Len(ready) : ready[j].data[1][1] = "bad"

\* One turn of the loop.
opus_pull(buf, reader) ==
  LET found == {i \in 1 .. Len(buf) : buf[i][1] = "OggS"}
      from  == CHOOSE i \in found : \A k \in found : i <= k
      there == Drained(buf, from - 1)
      page  == page_at(there)
      rest  == Drained(there, page_total(there))
  IN
  IF reader.ready # <<>>
    THEN Answer("frame", <<Head(reader.ready)>>, buf, [reader EXCEPT !.ready = Tail(@)])
  ELSE IF found = {} THEN NeedMore(buf, reader)
  ELSE IF ~page_complete(there) THEN NeedMore(there, reader)
  ELSE IF refused(page, reader) THEN Broken(rest, reader)
  ELSE Answer("again", <<>>, rest, after(page, reader))
=============================================================================
