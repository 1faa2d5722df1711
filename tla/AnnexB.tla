------------------------------- MODULE AnnexB -------------------------------
(***************************************************************************)
(* next_au of src/src/parse/h264.rs and src/src/parse/hevc.rs: where an     *)
(* access unit begins and ends in a buffer of an Annex-B stream.  The two   *)
(* functions are one walk over the start codes around different NAL types.  *)
(*                                                                         *)
(* A byte is a pair <<kind, number>>.  Kinds are "0" and "1", of which start *)
(* codes are made; the type of a NAL, for its header byte; "first" (a slice *)
(* header that says: first slice of a picture), "later" (a further slice),  *)
(* "long" (a further slice, known as one only with the byte after it), and   *)
(* any other for what no one looks at.  The number tells payloads apart.    *)
(***************************************************************************)
EXTENDS Naturals, Sequences

Zero == <<"0", 0>>
One  == <<"1", 0>>

\* header      bytes of a NAL header
\* vcl         types that are slices; HEVC's type 0 is one, and 0 is also what
\*             nal_unit_type_at answers where the header byte is not there yet
\* delimiters  types that end the picture before them
\* params      what a key frame brings along
CodecSpec == [
  h264 |-> [header |-> 1, vcl |-> {"slice", "idr"},
            delimiters |-> {"sei", "sps", "pps", "aud"}, params |-> {"sps", "pps"}],
  hevc |-> [header |-> 2, vcl |-> {"slice", "idr", "type0"},
            delimiters |-> {"vps", "sps", "pps", "aud", "sei"},
            params |-> {"vps", "sps", "pps"}]]

Least(S) == CHOOSE p \in S : \A q \in S : p <= q

\* Does a 3-byte, a 4-byte start code lie at i?
code3(buf, i) == /\ i + 2 <= Len(buf)
                 /\ buf[i] = Zero /\ buf[i + 1] = Zero /\ buf[i + 2] = One
code4(buf, i) == /\ i + 3 <= Len(buf)
                 /\ buf[i] = Zero /\ buf[i + 1] = Zero
                 /\ buf[i + 2] = Zero /\ buf[i + 3] = One

\* The scan skips the code it found, so the short form inside a long one is not
\* a start.
find_start_codes(buf) ==
  {i \in 1 .. Len(buf) : \/ code4(buf, i)
                         \/ code3(buf, i) /\ ~(i > 1 /\ code4(buf, i - 1))}

header_at(buf, p) == p + IF code4(buf, p) THEN 4 ELSE 3

nal_unit_type_at(buf, p) ==
  IF header_at(buf, p) <= Len(buf) THEN buf[header_at(buf, p)][1] ELSE "type0"

\* Mutant: a slice whose header is not there yet is taken for a picture's first.
starts_pictureMutant(codec, buf, p) ==
  LET q == header_at(buf, p) + CodecSpec[codec].header
  IN  IF q > Len(buf) \/ buf[q][1] = "first" THEN "yes" ELSE "no"

\* slice_first_mb_at, first_slice_in_pic_at: "unknown" as long as it is not there.
starts_picture(codec, buf, p) ==
  LET q == header_at(buf, p) + CodecSpec[codec].header
  IN  IF q > Len(buf) \/ (buf[q][1] = "long" /\ q = Len(buf)) THEN "unknown"
      ELSE IF buf[q][1] = "first" THEN "yes" ELSE "no"

\* Mutant: a picture ends at the next slice, or at a delimiter.
boundariesMutant(codec, buf, first) ==
  {p \in find_start_codes(buf) :
     /\ p > first
     /\ nal_unit_type_at(buf, p) \in CodecSpec[codec].delimiters \cup CodecSpec[codec].vcl}

\* The start codes past the first slice at which the walk stops: the picture
\* ends there, or it is too early to tell.
boundaries(codec, buf, first) ==
  {p \in find_start_codes(buf) :
     /\ p > first
     /\ \/ nal_unit_type_at(buf, p) \in CodecSpec[codec].delimiters
        \/ /\ nal_unit_type_at(buf, p) \in CodecSpec[codec].vcl
           /\ starts_picture(codec, buf, p) # "no"}

\* The access unit that begins with the buffer's first start code, as a
\* sequence of at most one frame.
next_au(codec, buf, eof) ==
  LET starts == find_start_codes(buf)
      type(p) == nal_unit_type_at(buf, p)
      slices == {p \in starts : type(p) \in CodecSpec[codec].vcl}
      first  == Least(slices)
      stops  == boundaries(codec, buf, first)
      stop   == IF stops = {} THEN Len(buf) + 1 ELSE Least(stops)
      known  == /\ stops # {}
                /\ \/ type(stop) \in CodecSpec[codec].delimiters
                   \/ starts_picture(codec, buf, stop) = "yes"
      key    == /\ \E p \in slices : p < stop /\ type(p) = "idr"
                /\ \A t \in CodecSpec[codec].params :
                     \E p \in starts : p < first /\ type(p) = t
  IN  IF slices = {} \/ ~(known \/ eof) THEN <<>>
      ELSE <<[data |-> SubSeq(buf, Least(starts), (IF known THEN stop ELSE Len(buf) + 1) - 1),
              key  |-> key]>>
=============================================================================
