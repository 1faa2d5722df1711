------------------------------ MODULE MCFraming ------------------------------
(***************************************************************************)
(* The instance of Framing that TLC checks: what ffmpeg writes for the six   *)
(* formats, frame by frame, with the place where each frame is known to be   *)
(* complete.  The writers are ffmpeg's muxers, no part of the repository.    *)
(***************************************************************************)
EXTENDS Framing

\* The shortest sequences first; TLC enumerates all up to that length.
UpTo(S, n) == UNION {[1 .. m -> S] : m \in 1 .. n}

Bytes(kinds, k) == [i \in 1 .. Len(kinds) |-> <<kinds[i], k>>]

\* Bytes before piece k of a sequence of pieces.
Before(pieces, k) == Sum([i \in 1 .. k - 1 |-> Len(pieces[i])])
Glue(pieces) ==
  LET upto_[k \in 0 .. Len(pieces)] ==
        IF k = 0 THEN <<>> ELSE upto_[k - 1] \o pieces[k]
  IN  upto_[Len(pieces)]

-----------------------------------------------------------------------------
(* Annex B: NALs with a long or a short start code *)

Code(long) == IF long THEN <<Zero, Zero, Zero, One>> ELSE <<Zero, Zero, One>>

\* A NAL of a type, and for a slice what its header says.
Nal(codec, long, type, slice, k) ==
  Code(long) \o Bytes((IF codec = "h264" THEN <<type>> ELSE <<type, "layer">>)
                        \o slice \o <<"data">>, k)

\* The pictures: their NALs, whether they are key frames, and by which of
\* their bytes the one before is known to end.
H264Pictures ==
  {[nals |-> <<<<TRUE, "sps", <<>>>>, <<TRUE, "pps", <<>>>>, <<FALSE, "idr", <<"first">>>>,
               <<FALSE, "idr", <<"later">>>>>>, key |-> TRUE],
   [nals |-> <<<<TRUE, "aud", <<>>>>, <<FALSE, "slice", <<"first">>>>,
               <<FALSE, "slice", <<"long", "data">>>>>>, key |-> FALSE],
   [nals |-> <<<<TRUE, "slice", <<"first">>>>, <<FALSE, "filler", <<>>>>>>, key |-> FALSE],
   [nals |-> <<<<FALSE, "idr", <<"first">>>>>>, key |-> FALSE]}

HevcPictures ==
  {[nals |-> <<<<TRUE, "vps", <<>>>>, <<TRUE, "sps", <<>>>>, <<TRUE, "pps", <<>>>>,
               <<FALSE, "idr", <<"first">>>>, <<FALSE, "idr", <<"later">>>>>>, key |-> TRUE],
   [nals |-> <<<<FALSE, "sei", <<>>>>, <<FALSE, "slice", <<"first">>>>,
               <<FALSE, "suffix", <<>>>>>>, key |-> FALSE],
   [nals |-> <<<<TRUE, "slice", <<"first">>>>>>, key |-> FALSE]}

Picture(codec, p, k) ==
  Glue([i \in 1 .. Len(p.nals) |->
          Nal(codec, p.nals[i][1], p.nals[i][2], p.nals[i][3], k)])

\* The first header byte tells a delimiter, the first slice byte a slice.
Told(codec, p) ==
  LET n == p.nals[1]
  IN  Len(Code(n[1])) + (IF n[2] \in CodecSpec[codec].delimiters THEN 1
                         ELSE CodecSpec[codec].header + 1)

AnnexBSource(codec, ps) ==
  LET pieces == [k \in 1 .. Len(ps) |-> Picture(codec, ps[k], k)]
  IN  [format |-> codec, bytes |-> Glue(pieces),
       frames |-> [k \in 1 .. Len(ps) |-> Frame(pieces[k], ps[k].key)],
       known  |-> [k \in 1 .. Len(ps) - 1 |-> Before(pieces, k + 1) + Told(codec, ps[k + 1])],
       cuts   |-> [k \in 1 .. Len(ps) + 1 |-> Before(pieces, k)]]

-----------------------------------------------------------------------------
(* Lengths: IVF, ADTS, G.711 *)

\* A source of which each frame is known by its last byte.
Packed(format, header, wire, frames) ==
  [format |-> format, bytes |-> header \o Glue(wire), frames |-> frames,
   known  |-> [k \in 1 .. Len(wire) |-> Len(header) + Before(wire, k + 1)],
   cuts   |-> [k \in 1 .. Len(wire) + 1 |-> Len(header) + Before(wire, k)]]

Payload(n, kind, k) == Bytes([i \in 1 .. n |-> IF i = 1 THEN kind ELSE "data"], k)

\* told is the header's length as it says itself; it is 2 or longer whatever it says.
IvfSource(told, fs) ==
  LET data == [k \in 1 .. Len(fs) |-> Payload(fs[k][1], fs[k][2], k)]
  IN  Packed("ivf", <<<<"DKIF", 0>>, <<"ivf", told>>>> \o [i \in 1 .. told - 2 |-> <<"more", i>>],
             [k \in 1 .. Len(fs) |-> <<<<"size", Len(data[k])>>, <<"pts", k>>>> \o data[k]],
             [k \in 1 .. Len(fs) |-> Frame(data[k], fs[k][1] > 0 /\ fs[k][2] = "key")])

AdtsSource(sizes) ==
  LET wire == [k \in 1 .. Len(sizes) |->
                 <<<<"sync", k>>, <<"length", 2 + sizes[k]>>>> \o Payload(sizes[k], "data", k)]
  IN  Packed("aac", <<>>, wire, [k \in 1 .. Len(sizes) |-> Frame(wire[k], FALSE)])

\* n bytes, the last of which may not fill a frame.
G711Source(n) ==
  LET full == n \div G711Need
      bytes == [i \in 1 .. n |-> <<"data", i>>]
      wire == [k \in 1 .. full |-> SubSeq(bytes, (k - 1) * G711Need + 1, k * G711Need)]
  IN  [format |-> "g711", bytes |-> bytes,
       frames |-> [k \in 1 .. full |-> Frame(wire[k], FALSE)],
       known  |-> [k \in 1 .. full |-> k * G711Need],
       cuts   |-> [k \in 1 .. full + 1 |-> (k - 1) * G711Need]]

-----------------------------------------------------------------------------
(* Ogg: packets laced, the lacing values cut into pages anywhere *)

Laces(n) == [i \in 1 .. n \div Full |-> Full] \o <<n % Full>>

\* The lacing values of one page, its continued flag and its data.
Page(continued, laces, data) ==
  <<<<"OggS", IF continued THEN 1 ELSE 0>>, <<"segments", Len(laces)>>>>
    \o [i \in 1 .. Len(laces) |-> <<"lace", laces[i]>>] \o data

\* packets is a sequence of <<kind, size>>, cuts the set of lacing values after
\* which a page ends.
OggSource(ps, cuts) ==
  LET data   == [k \in 1 .. Len(ps) |-> Payload(ps[k][2], ps[k][1], k)]
      laces  == Glue([k \in 1 .. Len(ps) |-> Laces(ps[k][2])])
      last   == SetToSortSeq({c \in cuts : c < Len(laces)} \cup {Len(laces)}, <)
      start(j) == IF j = 1 THEN 0 ELSE last[j - 1]
      all    == Glue(data)
      pages  == [j \in 1 .. Len(last) |->
                   LET mine == SubSeq(laces, start(j) + 1, last[j])
                       off  == Sum(SubSeq(laces, 1, start(j)))
                   IN  Page(start(j) > 0 /\ laces[start(j)] = Full, mine,
                            SubSeq(all, off + 1, off + Sum(mine)))]
      lastLace(k) == Len(Glue([i \in 1 .. k |-> Laces(ps[i][2])]))
      pageOf(k) == CHOOSE j \in 1 .. Len(last) :
                     last[j] >= lastLace(k) /\ \A i \in 1 .. j - 1 : last[i] < lastLace(k)
      audio  == SelectSeq([k \in 1 .. Len(ps) |-> k],
                          LAMBDA k : ps[k][1] \notin {"OpusHead", "OpusTags"} /\ ps[k][2] > 0)
  IN  [format |-> "opus", bytes |-> Glue(pages),
       frames |-> [j \in 1 .. Len(audio) |-> Frame(data[audio[j]], FALSE)],
       known  |-> IF \E k \in 1 .. Len(ps) : ps[k][1] = "bad" THEN <<>>
                  ELSE [j \in 1 .. Len(audio) |-> Before(pages, pageOf(audio[j]) + 1)],
       cuts   |-> [j \in 1 .. Len(pages) + 1 |-> Before(pages, j)],
       payload |-> all,
       segs   |-> [g \in 1 .. Len(laces) + 1 |-> Sum(SubSeq(laces, 1, g - 1))],
       pages  |-> [j \in 1 .. Len(pages) + 1 |-> start(j)],
       done   |-> [g \in 1 .. Len(laces) + 1 |->
                     Cardinality({j \in 1 .. Len(audio) : lastLace(audio[j]) < g})]]

-----------------------------------------------------------------------------
MCFull == 2
MCG711Need == 2

OpusStreams == {<<<<"OpusHead", 1>>, <<"OpusTags", 2>>, <<"opus", n>>, <<"opus", m>>>> :
                  n \in {1, 2, 3}, m \in {0, 1, 4}}
                 \cup {<<<<"OpusHead", 1>>, <<"opus", 1>>, <<"bad", 1>>, <<"opus", 1>>>>}

MCSources ==
  {AnnexBSource("h264", ps) : ps \in UpTo(H264Pictures, 3)}
    \cup {AnnexBSource("hevc", ps) : ps \in UpTo(HevcPictures, 3)}
    \cup {IvfSource(told, fs) : told \in {0, 2, 3},
                                fs \in UpTo({0, 1, 3} \X {"key", "delta"}, 2)}
    \cup {AdtsSource(ss) : ss \in UpTo({0, 1, 3}, 3)}
    \cup {G711Source(n) : n \in 1 .. 5}
    \cup {OggSource(ps, cuts) : ps \in OpusStreams, cuts \in SUBSET (1 .. 6)}

\* The streams are ones that the theorems are about.
ASSUME MCMuxers == \A s \in MCSources : WellMade(s)
=============================================================================
