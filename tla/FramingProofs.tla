--------------------------- MODULE FramingProofs ---------------------------
(***************************************************************************)
(* Proofs about Framing.tla: how the reads cut a stream makes no difference. *)
(* First, framer by framer, that an answer given on a buffer, but "none",     *)
(* stands when more bytes follow, and that "none" changes nothing (OpusDemux *)
(* drops what lies before a page).  From it, that Framing implements         *)
(* WholeStream (AnyReads); and that what a pump keeps is made of bytes and    *)
(* whole frames, of any stream (TypeCorrect).  Then that a framer which has   *)
(* all of a stream, as its muxer writes it (WellMade), takes it apart        *)
(* rightly: told frames of IVF, ADTS and G.711 one by one (PackedRight),     *)
(* access units where they were cut (CutRight), Ogg pages into the packets   *)
(* laced over them (PagedRight), in turns that come to an end (FramerMoves).  *)
(* That is FramersUndoMuxers; with AnyReads it says of every run that the    *)
(* frames pushed are those that were muxed, none held back:                  *)
(* FramesHoweverRead, NoFrameHeldBack, TailHoweverRead.                      *)
(***************************************************************************)
EXTENDS Framing, SequenceTheorems, NaturalsInduction, WellFoundedInduction, TLAPS

-----------------------------------------------------------------------------
(* A buffer and what is read after it *)

LEMMA Appended ==
  ASSUME NEW s \in Seq(Byte), NEW t \in Seq(Byte)
  PROVE  /\ s \o t \in Seq(Byte) /\ Len(s \o t) = Len(s) + Len(t)
         /\ Len(s) \in Nat /\ Len(t) \in Nat
         /\ \A i \in 1 .. Len(s) : (s \o t)[i] = s[i]
         /\ \A i \in 1 .. Len(t) : (s \o t)[Len(s) + i] = t[i]
  <1>1. /\ s \o t \in Seq(Byte) /\ Len(s \o t) = Len(s) + Len(t)
        /\ \A i \in 1 .. Len(s) + Len(t) :
             (s \o t)[i] = IF i <= Len(s) THEN s[i] ELSE t[i - Len(s)]
    BY ConcatProperties
  <1>2. Len(s) \in Nat /\ Len(t) \in Nat
    OBVIOUS
  <1>3. ASSUME NEW i \in 1 .. Len(s) PROVE (s \o t)[i] = s[i]
    <2>1. i \in 1 .. Len(s) + Len(t) /\ i <= Len(s)
      BY <1>2
    <2> QED BY <1>1, <2>1
  <1>4. ASSUME NEW i \in 1 .. Len(t) PROVE (s \o t)[Len(s) + i] = t[i]
    <2>1. /\ Len(s) + i \in 1 .. Len(s) + Len(t) /\ ~(Len(s) + i <= Len(s))
          /\ Len(s) + i - Len(s) = i
      BY <1>2
    <2>2. (s \o t)[Len(s) + i] = t[Len(s) + i - Len(s)]
      BY <1>1, <2>1
    <2> QED BY <2>1, <2>2
  <1> QED BY <1>1, <1>2, <1>3, <1>4

\* A piece of a sequence of bytes.
LEMMA Piece ==
  ASSUME NEW s \in Seq(Byte), NEW m \in Nat, NEW k \in Nat, m + k <= Len(s)
  PROVE  /\ SubSeq(s, m + 1, m + k) \in Seq(Byte) /\ Len(SubSeq(s, m + 1, m + k)) = k
         /\ \A i \in 1 .. k : SubSeq(s, m + 1, m + k)[i] = s[m + i]
  <1>1. \A i \in m + 1 .. m + k : s[i] \in Byte
    BY ElementOfSeq
  <1> QED BY <1>1

\* A piece of the buffer is the same piece once more has been read.
LEMMA PieceKept ==
  ASSUME NEW s \in Seq(Byte), NEW t \in Seq(Byte),
         NEW m \in Nat, NEW k \in Nat, m + k <= Len(s)
  PROVE  SubSeq(s \o t, m + 1, m + k) = SubSeq(s, m + 1, m + k)
  <1>1. s \o t \in Seq(Byte) /\ m + k <= Len(s \o t)
    BY Appended
  <1> DEFINE long == SubSeq(s \o t, m + 1, m + k)
             short == SubSeq(s, m + 1, m + k)
  <1>2. /\ long \in Seq(Byte) /\ Len(long) = k
        /\ \A i \in 1 .. k : long[i] = (s \o t)[m + i]
    BY <1>1, Piece, Zenon
  <1>3. /\ short \in Seq(Byte) /\ Len(short) = k
        /\ \A i \in 1 .. k : short[i] = s[m + i]
    BY Piece, Zenon
  <1> HIDE DEF long, short
  <1>4. ASSUME NEW i \in 1 .. k PROVE long[i] = short[i]
    <2>1. m + i \in 1 .. Len(s)
      OBVIOUS
    <2>2. (s \o t)[m + i] = s[m + i]
      BY <2>1, Appended
    <2> QED BY <1>2, <1>3, <2>2
  <1>5. long = short
    BY <1>2, <1>3, <1>4, SeqEqual
  <1> QED BY <1>5 DEF long, short

\* The first k elements are those of the longer sequence too.
LEMMA HeadKept ==
  ASSUME NEW s \in Seq(Byte), NEW t \in Seq(Byte), NEW k \in Nat, k <= Len(s)
  PROVE  SubSeq(s \o t, 1, k) = SubSeq(s, 1, k)
  <1>1. 0 \in Nat /\ 0 + k <= Len(s) /\ 0 + 1 = 1 /\ 0 + k = k
    OBVIOUS
  <1>2. SubSeq(s \o t, 0 + 1, 0 + k) = SubSeq(s, 0 + 1, 0 + k)
    BY <1>1, PieceKept, Zenon
  <1> QED BY <1>1, <1>2, Zenon

\* What drain(0..n) leaves.
LEMMA DrainedIs ==
  ASSUME NEW s \in Seq(Byte), NEW n \in Nat, NEW k \in Nat, n + k = Len(s)
  PROVE  /\ Drained(s, n) \in Seq(Byte)
         /\ Len(Drained(s, n)) = k
         /\ \A i \in 1 .. k : Drained(s, n)[i] = s[n + i]
  <1>1. /\ SubSeq(s, n + 1, n + k) \in Seq(Byte) /\ Len(SubSeq(s, n + 1, n + k)) = k
        /\ \A i \in 1 .. k : SubSeq(s, n + 1, n + k)[i] = s[n + i]
    <2>1. n + k <= Len(s)
      OBVIOUS
    <2> QED BY <2>1, Piece, Zenon
  <1>2. Drained(s, n) = SubSeq(s, n + 1, n + k)
    <2>1. SubSeq(s, n + 1, Len(s)) = SubSeq(s, n + 1, n + k)
      BY Zenon
    <2> QED BY <2>1, Zenon DEF Drained
  <1> QED BY <1>1, <1>2, Zenon

LEMMA RestIs ==
  ASSUME NEW b \in Seq(Byte), NEW c \in Nat, c <= Len(b)
  PROVE  /\ Drained(b, c) \in Seq(Byte) /\ Len(Drained(b, c)) = Len(b) - c
         /\ \A i \in 1 .. Len(b) - c : Drained(b, c)[i] = b[c + i]
  <1> DEFINE k == Len(b) - c
  <1>1. k \in Nat /\ c + k = Len(b)
    OBVIOUS
  <1> HIDE DEF k
  <1>2. /\ Drained(b, c) \in Seq(Byte) /\ Len(Drained(b, c)) = k
        /\ \A i \in 1 .. k : Drained(b, c)[i] = b[c + i]
    BY <1>1, DrainedIs, Zenon
  <1> QED BY <1>2 DEF k

LEMMA DrainedKept ==
  ASSUME NEW s \in Seq(Byte), NEW t \in Seq(Byte), NEW n \in Nat, n <= Len(s)
  PROVE  /\ Drained(s, n) \in Seq(Byte)
         /\ Len(Drained(s, n)) = Len(s) - n
         /\ \A i \in 1 .. Len(s) - n : Drained(s, n)[i] = s[n + i]
         /\ Drained(s \o t, n) = Drained(s, n) \o t
  <1> DEFINE k == Len(s) - n
             long == Drained(s \o t, n)
             short == Drained(s, n)
  <1>1. /\ s \o t \in Seq(Byte) /\ Len(s) \in Nat /\ Len(t) \in Nat
        /\ k \in Nat /\ n + k = Len(s) /\ k + Len(t) \in Nat /\ n + (k + Len(t)) = Len(s \o t)
    BY Appended
  <1> HIDE DEF k
  <1>2. /\ long \in Seq(Byte) /\ Len(long) = k + Len(t)
        /\ \A i \in 1 .. k + Len(t) : long[i] = (s \o t)[n + i]
    <2> DEFINE w == s \o t
               m == k + Len(t)
    <2>1. w \in Seq(Byte) /\ m \in Nat /\ n + m = Len(w)
      BY <1>1
    <2> HIDE DEF w, m
    <2>2. n <= Len(w) /\ Len(w) - n = m
      BY <2>1
    <2>3. /\ Drained(w, n) \in Seq(Byte) /\ Len(Drained(w, n)) = Len(w) - n
          /\ \A i \in 1 .. Len(w) - n : Drained(w, n)[i] = w[n + i]
      BY <2>1, <2>2, RestIs, Zenon
    <2> QED BY <2>2, <2>3, Zenon DEF long, w, m
  <1>3. short \in Seq(Byte) /\ Len(short) = k /\ \A i \in 1 .. k : short[i] = s[n + i]
    <2>1. /\ Drained(s, n) \in Seq(Byte) /\ Len(Drained(s, n)) = Len(s) - n
          /\ \A i \in 1 .. Len(s) - n : Drained(s, n)[i] = s[n + i]
      BY RestIs, Zenon
    <2> QED BY <2>1, Zenon DEF k
  <1> HIDE DEF long, short
  <1>4. /\ short \o t \in Seq(Byte) /\ Len(short \o t) = k + Len(t)
        /\ \A i \in 1 .. k : (short \o t)[i] = short[i]
        /\ \A i \in 1 .. Len(t) : (short \o t)[k + i] = t[i]
    <2>1. /\ short \o t \in Seq(Byte) /\ Len(short \o t) = Len(short) + Len(t)
          /\ \A i \in 1 .. Len(short) : (short \o t)[i] = short[i]
          /\ \A i \in 1 .. Len(t) : (short \o t)[Len(short) + i] = t[i]
      BY <1>3, Appended, Zenon
    <2> QED BY <1>3, <2>1, Zenon
  <1>5. ASSUME NEW i \in 1 .. k + Len(t) PROVE long[i] = (short \o t)[i]
    <2>1. long[i] = (s \o t)[n + i]
      BY <1>2
    <2>2. CASE i \in 1 .. k
      <3>1. n + i \in 1 .. Len(s)
        BY <1>1, <2>2
      <3>2. (s \o t)[n + i] = s[n + i]
        BY <3>1, Appended
      <3> QED BY <1>3, <1>4, <2>1, <2>2, <3>2
    <2>3. CASE i \notin 1 .. k
      <3>1. PICK j \in 1 .. Len(t) : i = k + j
        <4>1. i - k \in 1 .. Len(t) /\ i = k + (i - k)
          BY <1>1, <2>3
        <4> QED BY <4>1
      <3>2. (s \o t)[Len(s) + j] = t[j]
        BY <3>1, Appended
      <3>3. n + i = Len(s) + j
        BY <1>1, <3>1
      <3> QED BY <1>4, <2>1, <3>1, <3>2, <3>3
    <2> QED BY <2>2, <2>3
  <1>6. long = short \o t
    BY <1>2, <1>4, <1>5, SeqEqual
  <1> QED BY <1>3, <1>6 DEF long, short, k

-----------------------------------------------------------------------------
(* Framers with a length: an answer given on a buffer stands when more is read *)

\* What it takes for the answer of a framer on buf to be that on buf \o more.
Stands(answer, whole, more) ==
  answer.status # "none" =>
    /\ whole.status = answer.status /\ whole.frames = answer.frames
    /\ whole.reader = answer.reader /\ whole.rest = answer.rest \o more

\* An answer that more is needed leaves things as they are.
Waits(answer, buf_, reader_) ==
  answer.status = "none" =>
    answer.frames = <<>> /\ answer.reader = reader_ /\ answer.rest = buf_

\* An answer whose rest is continued stands; one that waits need not.
LEMMA AnswerStands ==
  ASSUME NEW st \in {"frame", "again", "error"}, NEW fs, NEW bs, NEW rd, NEW t, NEW b, NEW r
  PROVE  /\ Stands(Answer(st, fs, bs, rd), Answer(st, fs, bs \o t, rd), t)
         /\ Waits(Answer(st, fs, bs, rd), b, r)
  BY DEF Stands, Waits, Answer

LEMMA NeedMoreStands ==
  ASSUME NEW bs, NEW rd, NEW t, NEW whole
  PROVE  Stands(NeedMore(bs, rd), whole, t) /\ Waits(NeedMore(bs, rd), bs, rd)
  BY DEF Stands, Waits, NeedMore, Answer

LEMMA G711Stands ==
  ASSUME NEW s \in Seq(Byte), NEW t \in Seq(Byte), NEW rd
  PROVE  /\ Stands(g711_next_frame(s, rd), g711_next_frame(s \o t, rd), t)
         /\ Waits(g711_next_frame(s, rd), s, rd)
  <1>1. G711Need \in Nat
    BY ContainersAssumption
  <1>2. CASE Len(s) < G711Need
    <2>1. g711_next_frame(s, rd) = NeedMore(s, rd)
      BY <1>2 DEF g711_next_frame
    <2> QED BY <2>1, NeedMoreStands, Zenon
  <1>3. CASE ~(Len(s) < G711Need)
    <2>1. ~(Len(s \o t) < G711Need)
      BY <1>1, <1>3, Appended
    <2>2. SubSeq(s \o t, 1, G711Need) = SubSeq(s, 1, G711Need)
      <3>1. 0 + G711Need <= Len(s) /\ 0 \in Nat /\ 0 + 1 = 1 /\ 0 + G711Need = G711Need
        BY <1>1, <1>3
      <3>2. SubSeq(s \o t, 0 + 1, 0 + G711Need) = SubSeq(s, 0 + 1, 0 + G711Need)
        BY <1>1, <3>1, PieceKept, Zenon
      <3> QED BY <3>1, <3>2, Zenon
    <2>3. Drained(s \o t, G711Need) = Drained(s, G711Need) \o t
      BY <1>1, <1>3, DrainedKept
    <2> DEFINE fs == <<Frame(SubSeq(s, 1, G711Need), FALSE)>>
    <2>4. g711_next_frame(s, rd) = Answer("frame", fs, Drained(s, G711Need), rd)
      BY <1>3, Zenon DEF g711_next_frame
    <2>5. g711_next_frame(s \o t, rd) = Answer("frame", fs, Drained(s, G711Need) \o t, rd)
      BY <2>1, <2>2, <2>3, Zenon DEF g711_next_frame
    <2> HIDE DEF fs
    <2> QED BY <2>4, <2>5, AnswerStands, Zenon
  <1> QED BY <1>2, <1>3

\* The bytes of a header that is there, and where its length leads.
LEMMA HeaderKept ==
  ASSUME NEW s \in Seq(Byte), NEW t \in Seq(Byte), Len(s) >= 2
  PROVE  /\ (s \o t)[1] = s[1] /\ (s \o t)[2] = s[2]
         /\ ~(Len(s \o t) < 2)
         /\ s[1][2] \in Nat /\ s[2][2] \in Nat
  <1>1. 1 \in 1 .. Len(s) /\ 2 \in 1 .. Len(s) /\ Len(s) \in Nat /\ Len(t) \in Nat
    BY Appended
  <1>2. s[1] \in Byte /\ s[2] \in Byte
    BY <1>1, ElementOfSeq
  <1>3. ~(Len(s \o t) < 2)
    BY <1>1, Appended
  <1> QED BY <1>1, <1>2, <1>3, Appended DEF Byte

\* So it is of the length of a file header.
LEMMA FileHeaderKept ==
  ASSUME NEW s \in Seq(Byte), NEW t \in Seq(Byte), Len(s) >= 2
  PROVE  /\ hdr_len(s) \in Nat /\ 2 <= hdr_len(s)
         /\ hdr_len(s \o t) = hdr_len(s)
  <1>1. s[2][2] \in Nat /\ (s \o t)[2] = s[2]
    BY HeaderKept
  <1>2. hdr_len(s \o t) = hdr_len(s)
    BY <1>1, Zenon DEF hdr_len
  <1>3. hdr_len(s) \in Nat /\ 2 <= hdr_len(s)
    BY <1>1 DEF hdr_len
  <1> QED BY <1>2, <1>3

LEMMA IvfStands ==
  ASSUME NEW s \in Seq(Byte), NEW t \in Seq(Byte), NEW rd
  PROVE  /\ Stands(ivf_pull(s, rd), ivf_pull(s \o t, rd), t)
         /\ Waits(ivf_pull(s, rd), s, rd)
  <1> DEFINE len == 2 + s[1][2]
  <1>1. CASE \/ Len(s) < 2 \/ (rd.header_seen /\ Len(s) < len)
             \/ ~rd.header_seen /\ s[1][1] = "DKIF" /\ Len(s) < hdr_len(s)
    <2>1. ivf_pull(s, rd) = NeedMore(s, rd)
      BY <1>1, Zenon DEF ivf_pull
    <2> QED BY <2>1, NeedMoreStands, Zenon
  <1>2. CASE ~(Len(s) < 2) /\ ~rd.header_seen
    <2>1. /\ (s \o t)[1] = s[1] /\ ~(Len(s \o t) < 2)
          /\ hdr_len(s \o t) = hdr_len(s) /\ hdr_len(s) \in Nat
      <3>1. Len(s) >= 2
        BY <1>2
      <3> QED BY <3>1, HeaderKept, FileHeaderKept
    <2>2. CASE s[1][1] # "DKIF"
      <3>1. ivf_pull(s, rd) = Answer("error", <<>>, s, rd)
        BY <1>2, <2>2, Zenon DEF ivf_pull, Broken
      <3>2. ivf_pull(s \o t, rd) = Answer("error", <<>>, s \o t, rd)
        BY <1>2, <2>1, <2>2, Zenon DEF ivf_pull, Broken
      <3> QED BY <3>1, <3>2, AnswerStands, Zenon
    <2>3. CASE s[1][1] = "DKIF" /\ ~(Len(s) < hdr_len(s))
      <3> DEFINE seen == [rd EXCEPT !.header_seen = TRUE]
                 h == hdr_len(s)
      <3>1. ivf_pull(s, rd) = Answer("again", <<>>, Drained(s, h), seen)
        BY <1>2, <2>3, Zenon DEF ivf_pull
      <3>2. ~(Len(s \o t) < h) /\ Drained(s \o t, h) = Drained(s, h) \o t
        <4>1. h \in Nat /\ ~(Len(s) < h)
          BY <2>1, <2>3
        <4> HIDE DEF h, seen
        <4>2. h <= Len(s) /\ ~(Len(s \o t) < h)
          BY <4>1, Appended
        <4> QED BY <4>1, <4>2, DrainedKept
      <3>3. ivf_pull(s \o t, rd) = Answer("again", <<>>, Drained(s \o t, h), seen)
        BY <1>2, <2>1, <2>3, <3>2, Zenon DEF ivf_pull
      <3> HIDE DEF seen, h
      <3> QED BY <3>1, <3>2, <3>3, AnswerStands, Zenon
    <2> QED BY <1>1, <2>2, <2>3, <1>2
  <1>3. CASE ~(Len(s) < 2) /\ rd.header_seen /\ ~(Len(s) < len)
    <2> DEFINE payload == SubSeq(s, 3, len)
               fs == <<Frame(payload, is_keyframe(payload))>>
    <2>1. (s \o t)[1] = s[1] /\ ~(Len(s \o t) < 2) /\ s[1][2] \in Nat /\ Len(s) \in Nat
          /\ Len(t) \in Nat
      <3>1. Len(s) >= 2
        BY <1>3
      <3> QED BY <3>1, HeaderKept, Appended
    <2>2. len \in Nat /\ len <= Len(s) /\ ~(Len(s \o t) < len)
      BY <1>3, <2>1, Appended
    <2>3. SubSeq(s \o t, 3, len) = payload
      <3>1. SubSeq(s \o t, 2 + 1, 2 + s[1][2]) = SubSeq(s, 2 + 1, 2 + s[1][2])
        <4>1. 2 \in Nat /\ 2 + s[1][2] <= Len(s)
          BY <2>2
        <4> QED BY <2>1, <4>1, PieceKept, Zenon
      <3>2. 2 + 1 = 3
        OBVIOUS
      <3> QED BY <3>1, <3>2, Zenon
    <2>4. Drained(s \o t, len) = Drained(s, len) \o t
      BY <2>2, DrainedKept
    <2>5. ivf_pull(s, rd) = Answer("frame", fs, Drained(s, len), rd)
      BY <1>3, Zenon DEF ivf_pull
    <2>6. ivf_pull(s \o t, rd) = Answer("frame", fs, Drained(s, len) \o t, rd)
      BY <1>3, <2>1, <2>2, <2>3, <2>4, Zenon DEF ivf_pull
    <2> HIDE DEF fs, len
    <2> QED BY <2>5, <2>6, AnswerStands, Zenon
  <1> QED BY <1>1, <1>2, <1>3

LEMMA AdtsStands ==
  ASSUME NEW s \in Seq(Byte), NEW t \in Seq(Byte), NEW rd
  PROVE  /\ Stands(adts_next_frame(s, rd), adts_next_frame(s \o t, rd), t)
         /\ Waits(adts_next_frame(s, rd), s, rd)
  <1> DEFINE len == s[2][2]
             bad(b) == b[1][1] # "sync" \/ b[2][2] < 2
  <1>1. CASE Len(s) < 2
    <2>1. adts_next_frame(s, rd) = NeedMore(s, rd)
      BY <1>1, Zenon DEF adts_next_frame
    <2> QED BY <2>1, NeedMoreStands, Zenon
  <1>2. CASE ~(Len(s) < 2)
    <2>1. /\ (s \o t)[1] = s[1] /\ (s \o t)[2] = s[2] /\ ~(Len(s \o t) < 2)
          /\ len \in Nat /\ Len(s) \in Nat /\ Len(t) \in Nat
      <3>1. Len(s) >= 2
        BY <1>2
      <3> QED BY <3>1, HeaderKept, Appended
    <2>2. CASE bad(s)
      <3>1. adts_next_frame(s, rd) = Answer("error", <<>>, s, rd)
        BY <1>2, <2>2, Zenon DEF adts_next_frame, Broken
      <3>2. adts_next_frame(s \o t, rd) = Answer("error", <<>>, s \o t, rd)
        BY <2>1, <2>2, Zenon DEF adts_next_frame, Broken
      <3> QED BY <3>1, <3>2, AnswerStands, Zenon
    <2>3. CASE ~bad(s) /\ Len(s) < len
      <3>1. adts_next_frame(s, rd) = NeedMore(s, rd)
        BY <1>2, <2>3, Zenon DEF adts_next_frame
      <3> QED BY <3>1, NeedMoreStands, Zenon
    <2>4. CASE ~bad(s) /\ ~(Len(s) < len)
      <3> DEFINE fs == <<Frame(SubSeq(s, 1, len), FALSE)>>
      <3>1. ~(Len(s \o t) < len)
        BY <2>1, <2>4, Appended
      <3>2. SubSeq(s \o t, 1, len) = SubSeq(s, 1, len)
        <4>1. 0 + len <= Len(s) /\ 0 \in Nat /\ 0 + 1 = 1 /\ 0 + len = len
          BY <2>1, <2>4
        <4>2. SubSeq(s \o t, 0 + 1, 0 + len) = SubSeq(s, 0 + 1, 0 + len)
          BY <2>1, <4>1, PieceKept, Zenon
        <4> QED BY <4>1, <4>2, Zenon
      <3>3. Drained(s \o t, len) = Drained(s, len) \o t
        <4>1. len <= Len(s)
          BY <2>1, <2>4
        <4> QED BY <2>1, <4>1, DrainedKept, Zenon
      <3>4. adts_next_frame(s, rd) = Answer("frame", fs, Drained(s, len), rd)
        BY <1>2, <2>4, Zenon DEF adts_next_frame
      <3>5. adts_next_frame(s \o t, rd) = Answer("frame", fs, Drained(s, len) \o t, rd)
        BY <2>1, <2>4, <3>1, <3>2, <3>3, Zenon DEF adts_next_frame
      <3> HIDE DEF fs, len
      <3> QED BY <3>4, <3>5, AnswerStands, Zenon
    <2> QED BY <2>2, <2>3, <2>4
  <1> QED BY <1>1, <1>2

-----------------------------------------------------------------------------
(* Ogg: the sizes add up *)

\* A set of natural numbers that is not empty has a smallest one.
LEMMA Smallest == ASSUME NEW S \in SUBSET Nat, S # {}
                  PROVE  \E i \in S : \A j \in S : i <= j
  <1>1. PICK i \in S : \A j \in S : ~(<<j, i>> \in OpToRel(<, Nat))
    BY NatLessThanWellFounded, WFMin, Zenon
  <1>2. \A j \in S : ~(j < i)
    BY <1>1 DEF OpToRel
  <1> QED BY <1>2

\* Sums of the first m numbers, kept in a function.
Adds(f, ns, m) == /\ f \in [0 .. m -> Nat] /\ f[0] = 0
                  /\ \A i \in 1 .. m : f[i] = f[i - 1] + ns[i]

LEMMA SumsExist ==
  ASSUME NEW n \in Nat, NEW ns, \A i \in 1 .. n : ns[i] \in Nat
  PROVE  \E f : Adds(f, ns, n)
  <1> DEFINE without == {m \in 0 .. n : ~(\E f : Adds(f, ns, m))}
  <1>1. SUFFICES ASSUME without # {} PROVE FALSE
    <2>1. n \in 0 .. n
      OBVIOUS
    <2> QED BY <2>1
  <1>2. PICK m \in without : \A k \in without : m <= k
    <2>1. without \in SUBSET Nat
      OBVIOUS
    <2> HIDE DEF without
    <2> QED BY <1>1, <2>1, Smallest
  <1>3. m \in 0 .. n /\ ~(\E f : Adds(f, ns, m))
    OBVIOUS
  <1>4. CASE m = 0
    <2>1. Adds([i \in 0 .. 0 |-> 0], ns, 0)
      BY DEF Adds
    <2> QED BY <1>3, <1>4, <2>1
  <1>5. CASE m # 0
    <2>1. m - 1 \in 0 .. n /\ m - 1 \notin without
      BY <1>2, <1>3, <1>5
    <2>2. PICK f : Adds(f, ns, m - 1)
      BY <2>1
    <2> DEFINE g == [i \in 0 .. m |-> IF i = m THEN f[m - 1] + ns[m] ELSE f[i]]
    <2>3. m \in Nat /\ m >= 1 /\ ns[m] \in Nat /\ m - 1 \in Nat
      BY <1>3, <1>5
    <2>4. f \in [0 .. m - 1 -> Nat] /\ f[0] = 0 /\ \A i \in 1 .. m - 1 : f[i] = f[i - 1] + ns[i]
      BY <2>2 DEF Adds
    <2>5. g \in [0 .. m -> Nat] /\ g[0] = 0
      BY <2>3, <2>4
    <2>6. ASSUME NEW i \in 1 .. m PROVE g[i] = g[i - 1] + ns[i]
      <3>1. i - 1 \in 0 .. m /\ i - 1 # m /\ g[i - 1] = f[i - 1]
        BY <2>3
      <3>2. CASE i = m
        BY <3>1, <3>2
      <3>3. CASE i # m
        <4>1. i \in 1 .. m - 1 /\ g[i] = f[i]
          BY <2>3, <3>3
        <4> QED BY <2>4, <3>1, <4>1
      <3> QED BY <3>2, <3>3
    <2> HIDE DEF g
    <2>7. Adds(g, ns, m)
      BY <2>5, <2>6 DEF Adds
    <2> QED BY <1>3, <2>7
  <1> QED BY <1>4, <1>5

\* The sum of a lacing table, as it adds up.
LEMMA SumSteps ==
  ASSUME NEW n \in Nat, NEW ns, Len(ns) = n, \A i \in 1 .. n : ns[i] \in Nat
  PROVE  \E f : Adds(f, ns, n) /\ Sum(ns) = f[n]
  <1> DEFINE step(f) == [i \in 0 .. Len(ns) |-> IF i = 0 THEN 0 ELSE f[i - 1] + ns[i]]
             sum == CHOOSE f : f = step(f)
  <1>1. \E f : f = step(f)
    <2>1. PICK f : Adds(f, ns, n)
      BY SumsExist
    <2>2. f = step(f)
      <3>1. f \in [0 .. n -> Nat] /\ f[0] = 0 /\ \A i \in 1 .. n : f[i] = f[i - 1] + ns[i]
        BY <2>1 DEF Adds
      <3>2. ASSUME NEW i \in 0 .. n PROVE f[i] = IF i = 0 THEN 0 ELSE f[i - 1] + ns[i]
        <4>1. i = 0 \/ i \in 1 .. n
          OBVIOUS
        <4> QED BY <3>1, <4>1
      <3> QED BY <3>1, <3>2
    <2> QED BY <2>2
  <1>2. sum = step(sum)
    <2> HIDE DEF step
    <2> QED BY <1>1
  <1>3. Sum(ns) = sum[n]
    BY Zenon DEF Sum
  <1> HIDE DEF sum
  <1>4. \A i \in 0 .. n : sum[i] = IF i = 0 THEN 0 ELSE sum[i - 1] + ns[i]
    <2>1. \A i \in 0 .. Len(ns) : step(sum)[i] = IF i = 0 THEN 0 ELSE sum[i - 1] + ns[i]
      OBVIOUS
    <2> HIDE DEF step
    <2> QED BY <1>2, <2>1
  <1> DEFINE other == {i \in 0 .. n : sum[i] \notin Nat}
  <1>5. other = {}
    <2>1. SUFFICES ASSUME other # {} PROVE FALSE
      OBVIOUS
    <2>2. PICK i \in other : \A j \in other : i <= j
      <3>1. other \in SUBSET Nat
        OBVIOUS
      <3> HIDE DEF other
      <3> QED BY <2>1, <3>1, Smallest
    <2>3. i \in 0 .. n /\ sum[i] \notin Nat
      OBVIOUS
    <2>4. i # 0
      BY <1>4, <2>3
    <2>5. i - 1 \in 0 .. n /\ i - 1 \notin other /\ i \in 1 .. n
      BY <2>2, <2>3, <2>4
    <2>6. sum[i - 1] \in Nat /\ ns[i] \in Nat
      BY <2>5
    <2>7. sum[i] = sum[i - 1] + ns[i]
      BY <1>4, <2>3, <2>4
    <2> QED BY <2>3, <2>6, <2>7
  <1>6. Adds(sum, ns, n)
    <2>1. \A i \in 0 .. n : sum[i] \in Nat
      BY <1>5
    <2>2. sum = [i \in 0 .. n |-> sum[i]]
      <3>1. step(sum) = [i \in 0 .. n |-> step(sum)[i]]
        OBVIOUS
      <3> HIDE DEF step
      <3> QED BY <1>2, <3>1, Zenon
    <2>3. sum \in [0 .. n -> Nat]
      BY <2>1, <2>2
    <2>4. sum[0] = 0
      BY <1>4
    <2>5. ASSUME NEW i \in 1 .. n PROVE sum[i] = sum[i - 1] + ns[i]
      <3>1. i \in 0 .. n /\ i # 0
        OBVIOUS
      <3> QED BY <1>4, <3>1
    <2> QED BY <2>3, <2>4, <2>5 DEF Adds
  <1> QED BY <1>3, <1>6

\* It grows.
LEMMA SumsGrow ==
  ASSUME NEW n \in Nat, NEW ns, \A i \in 1 .. n : ns[i] \in Nat,
         NEW f, Adds(f, ns, n), NEW i \in 0 .. n
  PROVE  \A j \in i .. n : f[i] <= f[j]
  <1> DEFINE other == {j \in i .. n : ~(f[i] <= f[j])}
  <1>1. SUFFICES ASSUME other # {} PROVE FALSE
    OBVIOUS
  <1>2. PICK j \in other : \A k \in other : j <= k
    <2>1. other \in SUBSET Nat
      OBVIOUS
    <2> HIDE DEF other
    <2> QED BY <1>1, <2>1, Smallest
  <1>3. f \in [0 .. n -> Nat] /\ \A k \in 1 .. n : f[k] = f[k - 1] + ns[k]
    BY DEF Adds
  <1>4. j \in i .. n /\ ~(f[i] <= f[j]) /\ f[i] \in Nat
    BY <1>3
  <1>5. j # i
    BY <1>4
  <1>6. j - 1 \in i .. n /\ j - 1 \notin other /\ j \in 1 .. n /\ j - 1 \in 0 .. n
    BY <1>2, <1>4, <1>5
  <1>7. f[i] <= f[j - 1] /\ f[j - 1] \in Nat /\ ns[j] \in Nat /\ f[j] = f[j - 1] + ns[j]
    BY <1>3, <1>6
  <1> QED BY <1>4, <1>7

\* What a lacing table adds up to is a number of bytes.
LEMMA SumIsNat ==
  ASSUME NEW n \in Nat, NEW ns, Len(ns) = n, \A i \in 1 .. n : ns[i] \in Nat
  PROVE  Sum(ns) \in Nat
  <1>1. PICK f : Adds(f, ns, n) /\ Sum(ns) = f[n]
    BY SumSteps
  <1>2. f \in [0 .. n -> Nat]
    BY <1>1 DEF Adds
  <1> QED BY <1>1, <1>2

\* A page that is there is the same page once more has been read.
LEMMA PageKept ==
  ASSUME NEW p \in Seq(Byte), NEW t \in Seq(Byte), page_complete(p)
  PROVE  /\ page_complete(p \o t)
         /\ page_total(p) \in Nat /\ page_total(p) <= Len(p)
         /\ page_total(p \o t) = page_total(p)
         /\ page_at(p \o t) = page_at(p)
  <1> DEFINE n == p[2][2]
             w == p \o t
  <1>1. Len(p) >= 2 /\ Len(p) >= 2 + n /\ Len(p) >= page_total(p)
    BY DEF page_complete
  <1>2. /\ w[1] = p[1] /\ w[2] = p[2] /\ n \in Nat
        /\ w \in Seq(Byte) /\ Len(w) = Len(p) + Len(t) /\ Len(p) \in Nat /\ Len(t) \in Nat
        /\ \A i \in 1 .. Len(p) : w[i] = p[i]
    BY <1>1, HeaderKept, Appended
  <1> HIDE DEF w
  <1>3. laces_at(w) = laces_at(p)
    <2>1. ASSUME NEW i \in 1 .. n PROVE w[2 + i][2] = p[2 + i][2]
      <3>1. 2 + i \in 1 .. Len(p)
        BY <1>1, <1>2
      <3> QED BY <1>2, <3>1
    <2> QED BY <1>2, <2>1 DEF laces_at
  <1>4. Sum(laces_at(p)) \in Nat
    <2>1. laces_at(p) = [i \in 1 .. n |-> p[2 + i][2]]
      BY DEF laces_at
    <2>2. Len(laces_at(p)) = n
      BY <1>2, <2>1
    <2>3. \A i \in 1 .. n : laces_at(p)[i] \in Nat
      <3>1. ASSUME NEW i \in 1 .. n PROVE p[2 + i][2] \in Nat
        <4>1. 2 + i \in 1 .. Len(p)
          BY <1>1, <1>2
        <4>2. p[2 + i] \in Byte
          BY <4>1, ElementOfSeq
        <4> QED BY <4>2 DEF Byte
      <3> QED BY <2>1, <3>1
    <2> QED BY <1>2, <2>2, <2>3, SumIsNat
  <1>5. page_total(w) = page_total(p)
    BY <1>2, <1>3 DEF page_total
  <1>6. page_total(p) \in Nat /\ page_total(p) >= 2 + n
    BY <1>2, <1>4 DEF page_total
  <1>7. page_complete(w)
    BY <1>1, <1>2, <1>5, <1>6 DEF page_complete
  <1>8. page_at(w) = page_at(p)
    <2> DEFINE k == page_total(p) - (2 + n)
    <2>1. /\ 2 + n \in Nat /\ k \in Nat /\ (2 + n) + k = page_total(p)
          /\ (2 + n) + k <= Len(p) /\ (2 + n) + 1 = 3 + n
      <3>1. ASSUME NEW a \in Nat, NEW b \in Nat, NEW len \in Nat, b >= 2 + a, len >= b
            PROVE  /\ 2 + a \in Nat /\ b - (2 + a) \in Nat
                   /\ (2 + a) + (b - (2 + a)) = b
                   /\ (2 + a) + (b - (2 + a)) <= len /\ (2 + a) + 1 = 3 + a
        BY <3>1
      <3> QED BY <1>1, <1>2, <1>6, <3>1, Zenon
    <2> HIDE DEF k
    <2>2. SubSeq(w, (2 + n) + 1, (2 + n) + k) = SubSeq(p, (2 + n) + 1, (2 + n) + k)
      <3>1. PICK m \in Nat : m = 2 + n
        BY <2>1
      <3>2. m + k <= Len(p)
        BY <2>1, <3>1, Zenon
      <3>3. SubSeq(p \o t, m + 1, m + k) = SubSeq(p, m + 1, m + k)
        BY <2>1, <3>2, PieceKept, Zenon
      <3> QED BY <3>1, <3>3, Zenon DEF w
    <2>3. SubSeq(w, 3 + n, page_total(w)) = SubSeq(p, 3 + n, page_total(p))
      BY <1>5, <2>1, <2>2, Zenon
    <2> QED BY <1>2, <1>3, <2>3, Zenon DEF page_at
  <1> QED BY <1>1, <1>5, <1>6, <1>7, <1>8 DEF w

OpusStarts(s) == {i \in 1 .. Len(s) : s[i][1] = "OggS"}
OpusFrom(s)   == CHOOSE i \in OpusStarts(s) : \A k \in OpusStarts(s) : i <= k

\* find_subslice: the first capture pattern stays the first.
LEMMA FromKept ==
  ASSUME NEW s \in Seq(Byte), NEW t \in Seq(Byte), OpusStarts(s) # {}
  PROVE  /\ OpusFrom(s) \in 1 .. Len(s) /\ \A k \in OpusStarts(s) : OpusFrom(s) <= k
         /\ OpusStarts(s \o t) # {} /\ OpusFrom(s \o t) = OpusFrom(s)
  <1>1. /\ Len(s) \in Nat /\ Len(t) \in Nat /\ Len(s \o t) = Len(s) + Len(t)
        /\ \A i \in 1 .. Len(s) : (s \o t)[i] = s[i]
    BY Appended
  <1>2. \A i \in 1 .. Len(s) : i \in OpusStarts(s) <=> i \in OpusStarts(s \o t)
    BY <1>1 DEF OpusStarts
  <1>3. OpusStarts(s) \in SUBSET (1 .. Len(s)) /\ OpusStarts(s) \in SUBSET Nat
        /\ OpusStarts(s \o t) \in SUBSET (1 .. Len(s) + Len(t))
    BY <1>1 DEF OpusStarts
  <1>4. OpusFrom(s) \in OpusStarts(s) /\ \A k \in OpusStarts(s) : OpusFrom(s) <= k
    BY <1>3, Smallest DEF OpusFrom
  <1>5. OpusFrom(s) \in OpusStarts(s \o t)
    BY <1>2, <1>3, <1>4
  <1>6. \A k \in OpusStarts(s \o t) : OpusFrom(s) <= k
    <2> TAKE k \in OpusStarts(s \o t)
    <2>1. OpusFrom(s) \in 1 .. Len(s)
      BY <1>3, <1>4
    <2>2. CASE k \in 1 .. Len(s)
      BY <1>2, <1>4, <2>2
    <2>3. CASE k \notin 1 .. Len(s)
      <3>1. k \in Nat /\ k > Len(s)
        BY <1>1, <1>3, <2>3
      <3> QED BY <1>1, <2>1, <3>1
    <2> QED BY <2>2, <2>3
  <1>7. ASSUME NEW i \in OpusStarts(s \o t), \A k \in OpusStarts(s \o t) : i <= k
        PROVE  i = OpusFrom(s)
    <2>1. i <= OpusFrom(s) /\ OpusFrom(s) <= i
      BY <1>5, <1>6, <1>7
    <2>2. i \in Nat /\ OpusFrom(s) \in Nat
      BY <1>1, <1>3, <1>4
    <2> QED BY <2>1, <2>2
  <1>8. OpusFrom(s \o t) = OpusFrom(s)
    BY <1>5, <1>6, <1>7 DEF OpusFrom
  <1> QED BY <1>3, <1>4, <1>5, <1>8

\* A demuxer that waits may have dropped what lies before the first page.
Resyncs(answer, s, rd) ==
  answer.status = "none" =>
    /\ answer.frames = <<>> /\ answer.reader = rd
    /\ \E n \in 0 .. Len(s) : /\ \A i \in 1 .. n : s[i][1] # "OggS"
                             /\ answer.rest = Drained(s, n)

LEMMA ResyncStands ==
  ASSUME NEW s, NEW rd, NEW t, NEW whole, NEW n \in 0 .. Len(s),
         \A i \in 1 .. n : s[i][1] # "OggS"
  PROVE  /\ Stands(NeedMore(Drained(s, n), rd), whole, t)
         /\ Resyncs(NeedMore(Drained(s, n), rd), s, rd)
  BY DEF Stands, Resyncs, NeedMore, Answer

\* One turn of OpusDemux::pull.
LEMMA OpusStands ==
  ASSUME NEW s \in Seq(Byte), NEW t \in Seq(Byte), NEW rd
  PROVE  /\ Stands(opus_pull(s, rd), opus_pull(s \o t, rd), t)
         /\ Resyncs(opus_pull(s, rd), s, rd)
  <1> DEFINE there(w) == Drained(w, OpusFrom(w) - 1)
             rest(w)  == Drained(there(w), page_total(there(w)))
             ready    == [rd EXCEPT !.ready = Tail(@)]
             turn(w)  == IF rd.ready # <<>>
                           THEN Answer("frame", <<Head(rd.ready)>>, w, ready)
                         ELSE IF OpusStarts(w) = {} THEN NeedMore(w, rd)
                         ELSE IF ~page_complete(there(w)) THEN NeedMore(there(w), rd)
                         ELSE IF refused(page_at(there(w)), rd) THEN Broken(rest(w), rd)
                         ELSE Answer("again", <<>>, rest(w), after(page_at(there(w)), rd))
  <1>1. opus_pull(s, rd) = turn(s) /\ opus_pull(s \o t, rd) = turn(s \o t)
    BY Zenon DEF opus_pull, OpusStarts, OpusFrom
  <1> HIDE DEF ready
  <1>2. CASE rd.ready # <<>>
    <2>1. /\ turn(s) = Answer("frame", <<Head(rd.ready)>>, s, ready)
          /\ turn(s \o t) = Answer("frame", <<Head(rd.ready)>>, s \o t, ready)
      BY <1>2, Zenon
    <2>2. Answer("frame", <<Head(rd.ready)>>, s, ready).status # "none"
      BY DEF Answer
    <2> HIDE DEF turn
    <2> QED BY <1>1, <2>1, <2>2, AnswerStands, Zenon DEF Resyncs
  <1>3. CASE rd.ready = <<>> /\ OpusStarts(s) = {}
    <2>1. turn(s) = NeedMore(s, rd)
      BY <1>3, Zenon
    <2>2. 0 \in 0 .. Len(s) /\ \A i \in 1 .. 0 : s[i][1] # "OggS"
      OBVIOUS
    <2>3. Drained(s, 0) = s
      BY DEF Drained
    <2> HIDE DEF turn
    <2> QED BY <1>1, <2>1, <2>2, <2>3, ResyncStands, Zenon
  <1>4. CASE rd.ready = <<>> /\ OpusStarts(s) # {}
    <2> DEFINE from == OpusFrom(s)
    <2>1. /\ from \in 1 .. Len(s) /\ \A k \in OpusStarts(s) : from <= k
          /\ OpusStarts(s \o t) # {} /\ OpusFrom(s \o t) = from
      BY <1>4, FromKept
    <2>2. from - 1 \in Nat /\ from - 1 <= Len(s) /\ from - 1 \in 0 .. Len(s)
      BY <2>1
    <2>3. there(s) \in Seq(Byte) /\ there(s \o t) = there(s) \o t
      <3>1. there(s) = Drained(s, from - 1) /\ there(s \o t) = Drained(s \o t, from - 1)
        BY <2>1
      <3> HIDE DEF from, there
      <3>2. ASSUME NEW n \in Nat, n <= Len(s)
            PROVE  /\ Drained(s, n) \in Seq(Byte)
                   /\ Drained(s \o t, n) = Drained(s, n) \o t
        BY <3>2, DrainedKept
      <3> QED BY <2>2, <3>1, <3>2, Zenon
    <2>4. CASE ~page_complete(there(s))
      <3>1. turn(s) = NeedMore(there(s), rd)
        BY <1>4, <2>4, Zenon
      <3>2. \A i \in 1 .. from - 1 : s[i][1] # "OggS"
        <4> SUFFICES ASSUME NEW i \in 1 .. from - 1, s[i][1] = "OggS" PROVE FALSE
          OBVIOUS
        <4>1. i \in 1 .. Len(s) /\ ~(from <= i)
          BY <2>1
        <4>2. i \in OpusStarts(s)
          BY <4>1 DEF OpusStarts
        <4> QED BY <2>1, <4>1, <4>2
      <3>3. there(s) = Drained(s, from - 1)
        BY Zenon
      <3> HIDE DEF turn, from, there
      <3> QED BY <1>1, <2>2, <3>1, <3>2, <3>3, ResyncStands, Zenon
    <2>5. CASE page_complete(there(s))
      <3>1. /\ page_complete(there(s \o t))
            /\ page_total(there(s)) \in Nat /\ page_total(there(s)) <= Len(there(s))
            /\ page_total(there(s \o t)) = page_total(there(s))
            /\ page_at(there(s \o t)) = page_at(there(s))
        BY <2>3, <2>5, PageKept, Zenon
      <3>2. rest(s \o t) = rest(s) \o t
        <4>1. ASSUME NEW p \in Seq(Byte), NEW n \in Nat, n <= Len(p)
              PROVE  Drained(p \o t, n) = Drained(p, n) \o t
          BY <4>1, DrainedKept
        <4>2. rest(s \o t) = Drained(there(s) \o t, page_total(there(s)))
          BY <2>3, <3>1, Zenon
        <4> QED BY <2>3, <3>1, <4>1, <4>2, Zenon
      <3> HIDE DEF from, there, rest
      <3>3. CASE refused(page_at(there(s)), rd)
        <4>1. turn(s) = Answer("error", <<>>, rest(s), rd)
          BY <1>4, <2>5, <3>3, Zenon DEF Broken
        <4>2. turn(s \o t) = Answer("error", <<>>, rest(s) \o t, rd)
          BY <1>4, <2>1, <3>1, <3>2, <3>3, Zenon DEF Broken
        <4>3. Answer("error", <<>>, rest(s), rd).status # "none"
          BY DEF Answer
        <4> HIDE DEF turn
        <4> QED BY <1>1, <4>1, <4>2, <4>3, AnswerStands, Zenon DEF Resyncs
      <3>4. CASE ~refused(page_at(there(s)), rd)
        <4> DEFINE next == after(page_at(there(s)), rd)
        <4>1. turn(s) = Answer("again", <<>>, rest(s), next)
          BY <1>4, <2>5, <3>4, Zenon
        <4>2. turn(s \o t) = Answer("again", <<>>, rest(s) \o t, next)
          BY <1>4, <2>1, <3>1, <3>2, <3>4, Zenon
        <4>3. Answer("again", <<>>, rest(s), next).status # "none"
          BY DEF Answer
        <4> HIDE DEF turn, next
        <4> QED BY <1>1, <4>1, <4>2, <4>3, AnswerStands, Zenon DEF Resyncs
      <3> QED BY <3>3, <3>4
    <2> QED BY <2>4, <2>5
  <1> QED BY <1>2, <1>3, <1>4

-----------------------------------------------------------------------------
(* Annex B: what has been found in a buffer stays where it is *)

LEMMA LeastIs ==
  ASSUME NEW S \in SUBSET Nat, S # {}
  PROVE  /\ Least(S) \in S /\ \A p \in S : Least(S) <= p
         /\ \A p \in S : (\A q \in S : p <= q) => p = Least(S)
  <1>1. \E p \in S : \A q \in S : p <= q
    BY Smallest
  <1>2. Least(S) \in S /\ \A p \in S : Least(S) <= p
    BY <1>1 DEF Least
  <1>3. ASSUME NEW p \in S, \A q \in S : p <= q PROVE p = Least(S)
    <2>1. p <= Least(S) /\ Least(S) <= p /\ p \in Nat /\ Least(S) \in Nat
      BY <1>2, <1>3
    <2> QED BY <2>1
  <1> QED BY <1>2, <1>3

\* Where start codes are: three bytes or four, that fit.
LEMMA CodesAre ==
  ASSUME NEW b \in Seq(Byte), NEW p \in find_start_codes(b)
  PROVE  /\ p \in 1 .. Len(b) /\ p \in Nat \ {0}
         /\ \/ code4(b, p) /\ header_at(b, p) = p + 4 /\ p + 3 <= Len(b)
            \/ ~code4(b, p) /\ code3(b, p) /\ header_at(b, p) = p + 3 /\ p + 2 <= Len(b)
  BY DEF find_start_codes, code3, code4, header_at

\* Start codes do not overlap.
LEMMA CodesApart ==
  ASSUME NEW b \in Seq(Byte), NEW p \in find_start_codes(b), NEW q \in find_start_codes(b),
         p < q
  PROVE  header_at(b, p) <= q
  <1>1. p \in Nat \ {0} /\ q \in Nat \ {0} /\ Zero # One
    BY CodesAre DEF Zero, One
  <1>2. b[q] = Zero /\ b[q + 1] = Zero
    BY CodesAre DEF code3, code4
  <1>3. CASE code4(b, p)
    <2>1. header_at(b, p) = p + 4 /\ b[p + 3] = One
      BY <1>3 DEF header_at, code4
    <2>2. q # p + 3 /\ q # p + 2
      BY <1>1, <1>2, <2>1
    <2>3. q # p + 1
      <3>1. SUFFICES ASSUME q = p + 1 PROVE FALSE
        OBVIOUS
      <3>2. q - 1 = p /\ q > 1 /\ q + 2 = p + 3 /\ q + 1 = p + 2
        BY <1>1, <3>1
      <3>3. ~code4(b, q)
        BY <1>1, <2>1, <3>2 DEF code4
      <3> QED BY <1>3, <3>2, <3>3 DEF find_start_codes
    <2> QED BY <1>1, <2>1, <2>2, <2>3
  <1>4. CASE ~code4(b, p)
    <2>1. header_at(b, p) = p + 3 /\ b[p + 2] = One
      BY <1>4, CodesAre DEF code3
    <2>2. q # p + 2 /\ q # p + 1
      BY <1>1, <1>2, <2>1
    <2> QED BY <1>1, <2>1, <2>2
  <1> QED BY <1>3, <1>4

\* More bytes make no start code vanish; a new one overlaps what is read last.
LEMMA CodesKept ==
  ASSUME NEW s \in Seq(Byte), NEW t \in Seq(Byte)
  PROVE  /\ find_start_codes(s) \subseteq find_start_codes(s \o t)
         /\ \A p \in find_start_codes(s \o t) : p + 3 <= Len(s) => p \in find_start_codes(s)
         /\ \A p \in find_start_codes(s) : header_at(s \o t, p) = header_at(s, p)
  <1> DEFINE w == s \o t
  <1>1. /\ Len(s) \in Nat /\ Len(t) \in Nat /\ Len(w) = Len(s) + Len(t)
        /\ \A i \in 1 .. Len(s) : w[i] = s[i]
    BY Appended
  <1> HIDE DEF w
  <1>2. Zero # One
    BY DEF Zero, One
  <1>3. ASSUME NEW i \in Nat \ {0}, i + 3 <= Len(s)
        PROVE  code4(s, i) = code4(w, i)
    <2>1. /\ i \in 1 .. Len(s) /\ i + 1 \in 1 .. Len(s) /\ i + 2 \in 1 .. Len(s)
          /\ i + 3 \in 1 .. Len(s) /\ i + 3 <= Len(w)
      BY <1>1, <1>3
    <2>2. w[i] = s[i] /\ w[i + 1] = s[i + 1] /\ w[i + 2] = s[i + 2] /\ w[i + 3] = s[i + 3]
      BY <1>1, <2>1, Zenon
    <2> QED BY <1>3, <2>1, <2>2, Zenon DEF code4
  <1>4. ASSUME NEW i \in Nat \ {0}, i + 2 <= Len(s)
        PROVE  code3(s, i) = code3(w, i)
    <2>1. /\ i \in 1 .. Len(s) /\ i + 1 \in 1 .. Len(s) /\ i + 2 \in 1 .. Len(s)
          /\ i + 2 <= Len(w)
      BY <1>1, <1>4
    <2>2. w[i] = s[i] /\ w[i + 1] = s[i + 1] /\ w[i + 2] = s[i + 2]
      BY <1>1, <2>1, Zenon
    <2> QED BY <1>4, <2>1, <2>2, Zenon DEF code3
  <1>5. ASSUME NEW i \in Nat \ {0}, code3(s, i)
        PROVE  ~code4(s, i) /\ ~code4(w, i)
    <2>1. i + 2 <= Len(s) /\ s[i + 2] = One /\ w[i + 2] = One
      BY <1>1, <1>5 DEF code3
    <2> QED BY <1>2, <2>1 DEF code4
  <1>6. ASSUME NEW p \in find_start_codes(s)
        PROVE  p \in find_start_codes(w) /\ header_at(w, p) = header_at(s, p)
    <2>1. p \in Nat \ {0} /\ p \in 1 .. Len(w)
      BY <1>1, CodesAre
    <2>2. CASE code4(s, p)
      <3>1. p + 3 <= Len(s)
        BY <2>2 DEF code4
      <3>2. code4(w, p)
        BY <1>3, <2>1, <2>2, <3>1
      <3> QED BY <2>1, <2>2, <3>2 DEF find_start_codes, header_at
    <2>3. CASE ~code4(s, p)
      <3>1. code3(s, p) /\ ~(p > 1 /\ code4(s, p - 1)) /\ p + 2 <= Len(s)
        BY <2>3 DEF find_start_codes, code3
      <3>2. code3(w, p) /\ ~code4(w, p)
        BY <1>4, <1>5, <2>1, <3>1
      <3>3. ~(p > 1 /\ code4(w, p - 1))
        <4>1. ASSUME p > 1 PROVE code4(w, p - 1) = code4(s, p - 1)
          <5>1. p - 1 \in Nat \ {0} /\ (p - 1) + 3 <= Len(s)
            BY <1>1, <2>1, <3>1, <4>1
          <5> QED BY <1>3, <5>1
        <4> QED BY <3>1, <4>1
      <3> QED BY <2>1, <2>3, <3>2, <3>3 DEF find_start_codes, header_at
    <2> QED BY <2>2, <2>3
  <1>7. ASSUME NEW p \in find_start_codes(w), p + 3 <= Len(s)
        PROVE  p \in find_start_codes(s)
    <2>1. p \in Nat \ {0} /\ p \in 1 .. Len(s)
      <3>1. p \in 1 .. Len(w)
        BY DEF find_start_codes
      <3> QED BY <1>1, <1>7, <3>1
    <2>2. code4(s, p) = code4(w, p)
      BY <1>3, <1>7, <2>1
    <2>3. code3(s, p) = code3(w, p)
      <3>1. p + 2 <= Len(s)
        BY <1>1, <1>7, <2>1
      <3> QED BY <1>4, <2>1, <3>1
    <2>4. p > 1 => code4(s, p - 1) = code4(w, p - 1)
      <3>1. p > 1 => p - 1 \in Nat \ {0} /\ (p - 1) + 3 <= Len(s)
        BY <1>1, <1>7, <2>1
      <3> QED BY <1>3, <3>1
    <2> QED BY <2>1, <2>2, <2>3, <2>4 DEF find_start_codes
  <1> QED BY <1>6, <1>7 DEF w

Codecs == {"h264", "hevc"}

\* The type of a NAL whose header has come, and what the slice header says, stay.
LEMMA TypeKept ==
  ASSUME NEW s \in Seq(Byte), NEW t \in Seq(Byte), NEW p \in find_start_codes(s),
         header_at(s, p) <= Len(s)
  PROVE  nal_unit_type_at(s \o t, p) = nal_unit_type_at(s, p)
  <1> DEFINE h == header_at(s, p)
  <1>1. /\ h \in 1 .. Len(s) /\ Len(s) \in Nat /\ Len(t) \in Nat
        /\ h <= Len(s \o t)
    BY CodesAre, Appended
  <1>2. header_at(s \o t, p) = h
    BY CodesKept
  <1>3. (s \o t)[h] = s[h]
    BY <1>1, Appended
  <1> HIDE DEF h
  <1>4. nal_unit_type_at(s \o t, p) = (s \o t)[h][1]
    BY <1>1, <1>2, Zenon DEF nal_unit_type_at
  <1>5. nal_unit_type_at(s, p) = s[h][1]
    BY <1>1, Zenon DEF nal_unit_type_at, h
  <1> QED BY <1>3, <1>4, <1>5, Zenon

LEMMA StartsKept ==
  ASSUME NEW s \in Seq(Byte), NEW t \in Seq(Byte), NEW p \in find_start_codes(s),
         NEW codec \in Codecs, starts_picture(codec, s, p) # "unknown"
  PROVE  starts_picture(codec, s \o t, p) = starts_picture(codec, s, p)
  <1> DEFINE q == header_at(s, p) + CodecSpec[codec].header
             long(b) == b[q][1] = "long" /\ q = Len(b)
             says(b) == IF q > Len(b) \/ long(b) THEN "unknown"
                        ELSE IF b[q][1] = "first" THEN "yes" ELSE "no"
  <1>1. CodecSpec[codec].header \in {1, 2}
    BY DEF CodecSpec, Codecs
  <1>2. starts_picture(codec, s, p) = says(s)
    BY Zenon DEF starts_picture
  <1>3. starts_picture(codec, s \o t, p) = says(s \o t)
    <2>1. header_at(s \o t, p) = header_at(s, p)
      BY CodesKept
    <2> QED BY <2>1, Zenon DEF starts_picture
  <1>4. q \in Nat \ {0}
    <2>1. header_at(s, p) \in Nat \ {0}
      BY CodesAre
    <2> QED BY <1>1, <2>1
  <1>5. ~(q > Len(s)) /\ ~long(s)
    BY <1>2, Zenon
  <1>6. (s \o t)[q] = s[q] /\ ~(q > Len(s \o t)) /\ (q = Len(s \o t) => q = Len(s))
    <2>1. q \in 1 .. Len(s) /\ Len(s) \in Nat /\ Len(t) \in Nat
      BY <1>4, <1>5, Appended
    <2> QED BY <2>1, Appended
  <1> HIDE DEF q
  <1> QED BY <1>2, <1>3, <1>5, <1>6, Zenon

\* The walk of next_au by its stages.
SlicesOf(codec, b) == {p \in find_start_codes(b) :
                         nal_unit_type_at(b, p) \in CodecSpec[codec].vcl}
StopsOf(codec, b)  == boundaries(codec, b, Least(SlicesOf(codec, b)))
Told(codec, b, p)  == \/ nal_unit_type_at(b, p) \in CodecSpec[codec].delimiters
                      \/ starts_picture(codec, b, p) = "yes"
KeyBefore(codec, b, stop) ==
  /\ \E p \in SlicesOf(codec, b) : p < stop /\ nal_unit_type_at(b, p) = "idr"
  /\ \A t \in CodecSpec[codec].params :
       \E p \in find_start_codes(b) :
         p < Least(SlicesOf(codec, b)) /\ nal_unit_type_at(b, p) = t

\* The picture in b ends at the start code stop, and that can be told.
EndsAt(codec, b, stop) ==
  /\ SlicesOf(codec, b) # {}
  /\ StopsOf(codec, b) # {} /\ stop = Least(StopsOf(codec, b)) /\ Told(codec, b, stop)

LEMMA AuIs ==
  ASSUME NEW codec, NEW b
  PROVE  /\ \A stop : EndsAt(codec, b, stop) =>
              next_au(codec, b, FALSE) =
                <<[data |-> SubSeq(b, Least(find_start_codes(b)), stop - 1),
                   key  |-> KeyBefore(codec, b, stop)]>>
         /\ (\A stop : ~EndsAt(codec, b, stop)) => next_au(codec, b, FALSE) = <<>>
  <1>1. ASSUME NEW stop, EndsAt(codec, b, stop)
        PROVE  next_au(codec, b, FALSE) =
                <<[data |-> SubSeq(b, Least(find_start_codes(b)), stop - 1),
                   key  |-> KeyBefore(codec, b, stop)]>>
    BY <1>1, Zenon DEF next_au, EndsAt, SlicesOf, StopsOf, Told, KeyBefore
  <1>2. ASSUME \A stop : ~EndsAt(codec, b, stop) PROVE next_au(codec, b, FALSE) = <<>>
    <2>1. ~EndsAt(codec, b, Least(StopsOf(codec, b)))
      BY <1>2
    <2> QED BY <2>1, Zenon DEF next_au, EndsAt, SlicesOf, StopsOf, Told
  <1> QED BY <1>1, <1>2, Zenon

\* Once the end of a picture can be told, it and all before it have come in full.
LEMMA ToldInside ==
  ASSUME NEW s \in Seq(Byte), NEW codec \in Codecs, NEW p \in find_start_codes(s),
         Told(codec, s, p)
  PROVE  header_at(s, p) <= Len(s)
  <1>1. CASE nal_unit_type_at(s, p) \in CodecSpec[codec].delimiters
    <2>1. "type0" \notin CodecSpec[codec].delimiters
      BY DEF CodecSpec, Codecs
    <2> QED BY <1>1, <2>1, Zenon DEF nal_unit_type_at
  <1>2. CASE starts_picture(codec, s, p) = "yes"
    <2> DEFINE q == header_at(s, p) + CodecSpec[codec].header
    <2>1. ~(q > Len(s))
      BY <1>2, Zenon DEF starts_picture
    <2>2. CodecSpec[codec].header \in {1, 2} /\ header_at(s, p) \in Nat /\ Len(s) \in Nat
      <3>1. header_at(s, p) \in Nat
        BY CodesAre
      <3> QED BY <3>1 DEF CodecSpec, Codecs
    <2> QED BY <2>1, <2>2
  <1> QED BY <1>1, <1>2 DEF Told

LEMMA EndStands ==
  ASSUME NEW s \in Seq(Byte), NEW t \in Seq(Byte), NEW codec \in Codecs,
         NEW stop, EndsAt(codec, s, stop)
  PROVE  /\ EndsAt(codec, s \o t, stop)
         /\ KeyBefore(codec, s \o t, stop) = KeyBefore(codec, s, stop)
         /\ Least(find_start_codes(s \o t)) = Least(find_start_codes(s))
         /\ Least(find_start_codes(s)) \in Nat \ {0} /\ stop \in Nat
         /\ Least(find_start_codes(s)) < stop /\ stop <= Len(s)
  <1> DEFINE w == s \o t
             C(b) == find_start_codes(b)
             type(b, p) == nal_unit_type_at(b, p)
             first == Least(SlicesOf(codec, s))
             vcl == CodecSpec[codec].vcl
             delimiters == CodecSpec[codec].delimiters
  <1>1. w \in Seq(Byte) /\ Len(s) \in Nat /\ Len(s) <= Len(w)
    BY Appended
  <1>2. ASSUME NEW b \in Seq(Byte)
        PROVE  /\ C(b) \in SUBSET Nat /\ SlicesOf(codec, b) \in SUBSET Nat
               /\ SlicesOf(codec, b) \subseteq C(b)
               /\ \A f : boundaries(codec, b, f) \in SUBSET Nat
               /\ \A f : boundaries(codec, b, f) \subseteq C(b)
    <2>1. C(b) \in SUBSET Nat
      BY DEF find_start_codes
    <2> HIDE DEF C
    <2>2. SlicesOf(codec, b) \subseteq C(b) /\ \A f : boundaries(codec, b, f) \subseteq C(b)
      BY DEF SlicesOf, boundaries, C
    <2> QED BY <2>1, <2>2
  <1> HIDE DEF w
  \* The walk in s.
  <1>3. /\ first \in SlicesOf(codec, s) /\ first \in C(s)
        /\ \A p \in SlicesOf(codec, s) : first <= p
    BY <1>2, LeastIs DEF EndsAt
  <1>4. /\ stop \in StopsOf(codec, s) /\ stop \in C(s) /\ first < stop
        /\ \A p \in StopsOf(codec, s) : stop <= p
        /\ Told(codec, s, stop)
    <2>1. StopsOf(codec, s) \in SUBSET Nat /\ StopsOf(codec, s) \subseteq C(s)
      BY <1>2, Zenon DEF StopsOf
    <2>2. stop \in StopsOf(codec, s) /\ \A p \in StopsOf(codec, s) : stop <= p
      BY <2>1, LeastIs DEF EndsAt
    <2>3. stop > first
      BY <2>2 DEF StopsOf, boundaries
    <2>4. first \in Nat /\ stop \in Nat
      BY <1>2, <1>3, <2>1, <2>2
    <2> QED BY <2>1, <2>2, <2>3, <2>4 DEF EndsAt
  <1>5. /\ header_at(s, stop) <= Len(s) /\ stop + 3 <= Len(s)
        /\ stop \in Nat \ {0} /\ first \in Nat \ {0} /\ stop <= Len(s)
    <2>1. header_at(s, stop) <= Len(s)
      BY <1>4, ToldInside
    <2>2. first \in Nat \ {0}
      BY <1>3, CodesAre
    <2>3. stop \in Nat \ {0} /\ header_at(s, stop) \in {stop + 3, stop + 4}
      BY <1>4, CodesAre
    <2> QED BY <1>1, <2>1, <2>2, <2>3
  \* Up to the stop, w has what s has.
  <1>6. ASSUME NEW p \in Nat, p <= stop
        PROVE  p \in C(w) <=> p \in C(s)
    <2>1. p + 3 <= Len(s)
      BY <1>1, <1>5, <1>6
    <2> QED BY <2>1, CodesKept DEF w
  <1>7. ASSUME NEW p \in C(s), p <= stop
        PROVE  type(w, p) = type(s, p) /\ p \in C(w)
    <2>1. header_at(s, p) <= Len(s)
      <3>1. p \in Nat /\ header_at(s, p) \in Nat
        BY CodesAre
      <3>2. p = stop \/ p < stop
        BY <1>5, <1>7, <3>1
      <3>3. p < stop => header_at(s, p) <= stop
        BY <1>4, CodesApart
      <3> QED BY <1>1, <1>5, <3>1, <3>2, <3>3
    <2>2. type(w, p) = type(s, p)
      BY <2>1, TypeKept DEF w
    <2> QED BY <2>2, CodesKept DEF w
  <1>8. ASSUME NEW p \in C(w), p <= stop
        PROVE  p \in C(s) /\ type(w, p) = type(s, p)
    <2>1. p \in Nat
      BY <1>1, <1>2
    <2> QED BY <1>6, <1>7, <1>8, <2>1
  <1> HIDE DEF C, type
  <1>9. ASSUME NEW p, p <= stop, p \in Nat
        PROVE  p \in SlicesOf(codec, w) <=> p \in SlicesOf(codec, s)
    BY <1>7, <1>8, <1>9 DEF SlicesOf, C, type
  <1>10. /\ SlicesOf(codec, w) # {}
         /\ first = Least(SlicesOf(codec, w))
    <2>1. first \in SlicesOf(codec, w)
      BY <1>3, <1>4, <1>5, <1>9
    <2>2. ASSUME NEW p \in SlicesOf(codec, w) PROVE first <= p
      <3>1. p \in Nat
        BY <1>1, <1>2
      <3>2. CASE p <= stop
        BY <1>3, <1>9, <3>1, <3>2
      <3>3. CASE ~(p <= stop)
        BY <1>4, <1>5, <3>1, <3>3
      <3> QED BY <3>2, <3>3
    <2>3. SlicesOf(codec, w) \in SUBSET Nat
      BY <1>1, <1>2
    <2> HIDE DEF first
    <2> QED BY <2>1, <2>2, <2>3, LeastIs
  <1>11. Told(codec, w, stop)
    <2>1. type(w, stop) = type(s, stop)
      BY <1>4, <1>5, <1>7
    <2>2. CASE type(s, stop) \in delimiters
      BY <2>1, <2>2, Zenon DEF Told, type
    <2>3. CASE starts_picture(codec, s, stop) = "yes"
      <3>1. starts_picture(codec, s, stop) # "unknown"
        BY <2>3
      <3>2. starts_picture(codec, w, stop) = "yes"
        BY <1>4, <2>3, <3>1, StartsKept DEF w, C
      <3> QED BY <3>2 DEF Told
    <2> QED BY <1>4, <2>2, <2>3, Zenon DEF Told, type
  <1>12. stop \in StopsOf(codec, w)
    <2>1. type(w, stop) = type(s, stop) /\ stop \in C(w)
      BY <1>4, <1>5, <1>7
    <2>2. type(s, stop) \in delimiters \/ type(s, stop) \in vcl
      BY <1>4, Zenon DEF StopsOf, boundaries, type
    <2>3. stop > first
      BY <1>4, <1>5
    <2>4. type(w, stop) \in delimiters \/ starts_picture(codec, w, stop) # "no"
      BY <1>11 DEF Told, type
    <2>5. stop \in boundaries(codec, w, first)
      BY <2>1, <2>2, <2>3, <2>4, Zenon DEF boundaries, C, type
    <2> QED BY <1>10, <2>5, Zenon DEF StopsOf
  <1>13. ASSUME NEW p \in StopsOf(codec, w) PROVE stop <= p
    <2>1. p \in boundaries(codec, w, first)
      BY <1>10, <1>13, Zenon DEF StopsOf
    <2>2. p \in Nat /\ p \in C(w)
      BY <1>1, <1>2, <2>1
    <2>3. SUFFICES ASSUME ~(stop <= p) PROVE FALSE
      OBVIOUS
    <2>4. p < stop /\ p <= stop
      BY <1>5, <2>2, <2>3
    <2>5. p \in C(s) /\ type(w, p) = type(s, p)
      BY <1>8, <2>2, <2>4
    <2>6. p > first
      BY <2>1, Zenon DEF boundaries
    <2>7. \/ type(s, p) \in delimiters
          \/ type(s, p) \in vcl /\ starts_picture(codec, w, p) # "no"
      BY <2>1, <2>5, Zenon DEF boundaries, type
    <2>8. starts_picture(codec, w, p) # "no" => starts_picture(codec, s, p) # "no"
      <3>1. SUFFICES ASSUME starts_picture(codec, s, p) = "no"
                     PROVE  starts_picture(codec, w, p) = "no"
        OBVIOUS
      <3>2. starts_picture(codec, s, p) # "unknown"
        BY <3>1
      <3> QED BY <2>5, <3>1, <3>2, StartsKept DEF w, C
    <2>9. p \in StopsOf(codec, s)
      BY <2>5, <2>6, <2>7, <2>8, Zenon DEF StopsOf, boundaries, C, type
    <2> QED BY <1>4, <2>3, <2>9
  <1>14. EndsAt(codec, w, stop)
    <2>1. StopsOf(codec, w) \in SUBSET Nat
      BY <1>1, <1>2, Zenon DEF StopsOf
    <2>2. StopsOf(codec, w) # {} /\ stop = Least(StopsOf(codec, w))
      BY <1>12, <1>13, <2>1, LeastIs
    <2> QED BY <1>10, <1>11, <2>2 DEF EndsAt
  <1>15. KeyBefore(codec, w, stop) = KeyBefore(codec, s, stop)
    <2>1. (\E p \in SlicesOf(codec, w) : p < stop /\ type(w, p) = "idr")
            <=> \E p \in SlicesOf(codec, s) : p < stop /\ type(s, p) = "idr"
      <3>1. ASSUME NEW p \in SlicesOf(codec, w), p < stop
            PROVE  p \in SlicesOf(codec, s) /\ type(w, p) = type(s, p)
        <4>1. p \in Nat /\ p <= stop /\ p \in C(w)
          BY <1>1, <1>2, <1>5, <3>1
        <4> QED BY <1>8, <1>9, <4>1
      <3>2. ASSUME NEW p \in SlicesOf(codec, s), p < stop
            PROVE  p \in SlicesOf(codec, w) /\ type(w, p) = type(s, p)
        <4>1. p \in Nat /\ p <= stop /\ p \in C(s)
          BY <1>2, <1>5, <3>2
        <4> QED BY <1>7, <1>9, <4>1
      <3> QED BY <3>1, <3>2, Zenon
    <2>2. ASSUME NEW k
          PROVE (\E p \in C(w) : p < first /\ type(w, p) = k)
                  <=> \E p \in C(s) : p < first /\ type(s, p) = k
      <3>1. ASSUME NEW p \in C(w), p < first
            PROVE  p \in C(s) /\ type(w, p) = type(s, p)
        <4>1. p \in Nat
          BY <1>1, <1>2
        <4>2. p <= stop
          BY <1>4, <1>5, <3>1, <4>1
        <4> QED BY <1>8, <4>2
      <3>2. ASSUME NEW p \in C(s), p < first
            PROVE  p \in C(w) /\ type(w, p) = type(s, p)
        <4>1. p \in Nat
          BY <1>2
        <4>2. p <= stop
          BY <1>4, <1>5, <3>2, <4>1
        <4> QED BY <1>7, <4>2
      <3> QED BY <3>1, <3>2, Zenon
    <2> QED BY <1>10, <2>1, <2>2, Zenon DEF KeyBefore, C, type
  <1>16. /\ Least(C(w)) = Least(C(s)) /\ Least(C(s)) \in Nat \ {0} /\ Least(C(s)) < stop
    <2> DEFINE l == Least(C(s))
    <2>1. l \in C(s) /\ \A p \in C(s) : l <= p
      BY <1>2, <1>3, LeastIs
    <2>2. l \in Nat \ {0}
      BY <2>1, CodesAre DEF C
    <2>3. l <= first /\ l < stop /\ l <= stop
      BY <1>3, <1>4, <1>5, <2>1, <2>2
    <2>4. l \in C(w)
      BY <1>7, <2>1, <2>3
    <2>5. ASSUME NEW p \in C(w) PROVE l <= p
      <3>1. p \in Nat
        BY <1>1, <1>2
      <3> QED BY <1>5, <1>8, <2>1, <2>2, <2>3, <3>1
    <2> HIDE DEF l
    <2>6. l = Least(C(w))
      BY <1>1, <1>2, <2>4, <2>5, LeastIs
    <2> QED BY <2>2, <2>3, <2>6 DEF l
  <1> QED BY <1>5, <1>14, <1>15, <1>16 DEF w, C

LEMMA OneAu ==
  ASSUME NEW au
  PROVE  <<au>> # <<>> /\ <<au>>[1] = au
  OBVIOUS

LEMMA AuStands ==
  ASSUME NEW s \in Seq(Byte), NEW t \in Seq(Byte), NEW codec \in Codecs, NEW rd
  PROVE  /\ Stands(pull_au(codec, s, rd), pull_au(codec, s \o t, rd), t)
         /\ Waits(pull_au(codec, s, rd), s, rd)
  <1>1. CASE \A stop : ~EndsAt(codec, s, stop)
    <2>1. pull_au(codec, s, rd) = NeedMore(s, rd)
      BY <1>1, AuIs, Zenon DEF pull_au
    <2> QED BY <2>1, NeedMoreStands, Zenon
  <1>2. CASE \E stop : EndsAt(codec, s, stop)
    <2> PICK stop : EndsAt(codec, s, stop)
      BY <1>2
    <2> DEFINE begin == Least(find_start_codes(s))
               key == KeyBefore(codec, s, stop)
               len == stop - begin
               fs(b) == <<Frame(SubSeq(b, 1, len), key)>>
    <2>1. /\ EndsAt(codec, s \o t, stop) /\ KeyBefore(codec, s \o t, stop) = key
          /\ Least(find_start_codes(s \o t)) = begin
          /\ begin \in Nat \ {0} /\ stop \in Nat /\ begin < stop /\ stop <= Len(s)
      BY EndStands
    <2>2. /\ next_au(codec, s, FALSE) = <<[data |-> SubSeq(s, begin, stop - 1), key |-> key]>>
          /\ next_au(codec, s \o t, FALSE) =
               <<[data |-> SubSeq(s \o t, begin, stop - 1), key |-> key]>>
      BY <2>1, AuIs, Zenon
    <2> HIDE DEF begin, key
    <2>3. /\ len \in Nat /\ 0 + len <= Len(s) /\ begin - 1 \in Nat
          /\ (begin - 1) + len = stop - 1 /\ (begin - 1) + 1 = begin
          /\ (begin - 1) + len <= Len(s) /\ len <= Len(s)
          /\ 0 \in Nat /\ 0 + 1 = 1 /\ 0 + len = len
      BY <2>1, Appended
    <2> HIDE DEF len
    <2>4. Len(SubSeq(s, begin, stop - 1)) = len
      <3>1. Len(SubSeq(s, (begin - 1) + 1, (begin - 1) + len)) = len
        BY <2>3, Piece, Zenon
      <3> QED BY <2>3, <3>1, Zenon
    <2>5. SubSeq(s \o t, begin, stop - 1) = SubSeq(s, begin, stop - 1)
      <3>1. SubSeq(s \o t, (begin - 1) + 1, (begin - 1) + len)
              = SubSeq(s, (begin - 1) + 1, (begin - 1) + len)
        BY <2>3, PieceKept, Zenon
      <3> QED BY <2>3, <3>1, Zenon
    <2>6. SubSeq(s \o t, 1, len) = SubSeq(s, 1, len)
      BY <2>3, HeadKept, Zenon
    <2>7. Drained(s \o t, len) = Drained(s, len) \o t
      BY <2>3, DrainedKept, Zenon
    <2> DEFINE au == [data |-> SubSeq(s, begin, stop - 1), key |-> key]
    <2>8. au.data = SubSeq(s, begin, stop - 1) /\ au.key = key
      OBVIOUS
    <2>9. /\ next_au(codec, s, FALSE) = <<au>> /\ next_au(codec, s \o t, FALSE) = <<au>>
          /\ Len(au.data) = len /\ au.key = key
      BY <2>2, <2>4, <2>5, <2>8, Zenon
    <2> HIDE DEF au
    <2>10. pull_au(codec, s, rd) = Answer("frame", fs(s), Drained(s, len), rd)
      BY <2>9, OneAu, Zenon DEF pull_au
    <2>11. pull_au(codec, s \o t, rd) = Answer("frame", fs(s), Drained(s, len) \o t, rd)
      <3> DEFINE w == s \o t
      <3>1. pull_au(codec, w, rd) = Answer("frame", fs(w), Drained(w, len), rd)
        <4> HIDE DEF w
        <4>1. next_au(codec, w, FALSE) = <<au>>
          BY <2>9, Zenon DEF w
        <4> QED BY <2>9, <4>1, OneAu, Zenon DEF pull_au
      <3> QED BY <2>6, <2>7, <3>1, Zenon
    <2> HIDE DEF fs
    <2> QED BY <2>10, <2>11, AnswerStands, Zenon
  <1> QED BY <1>1, <1>2

-----------------------------------------------------------------------------
(* All framers *)

LEMMA FramerStands ==
  ASSUME NEW s \in Seq(Byte), NEW t \in Seq(Byte), NEW format \in Formats, NEW rd
  PROVE  /\ Stands(Pull(format, s, rd), Pull(format, s \o t, rd), t)
         /\ \/ Waits(Pull(format, s, rd), s, rd)
            \/ format = "opus" /\ Resyncs(Pull(format, s, rd), s, rd)
  <1>1. CASE format \in Codecs
    BY <1>1, AuStands, Zenon DEF Pull, Codecs
  <1>2. CASE format = "ivf"
    BY <1>2, IvfStands DEF Pull
  <1>3. CASE format = "aac"
    BY <1>3, AdtsStands DEF Pull
  <1>4. CASE format = "opus"
    BY <1>4, OpusStands DEF Pull
  <1>5. CASE format = "g711"
    BY <1>5, G711Stands DEF Pull
  <1> QED BY <1>1, <1>2, <1>3, <1>4, <1>5 DEF Formats, Codecs

\* What is left is a part of what there was.
Shrinks(answer, s) == answer.rest \in Seq(Byte) /\ Len(answer.rest) <= Len(s)

LEMMA AnswerShrinks ==
  ASSUME NEW s \in Seq(Byte), NEW st, NEW fs, NEW rd
  PROVE  /\ Shrinks(Answer(st, fs, s, rd), s)
         /\ \A n \in Nat : n <= Len(s) => Shrinks(Answer(st, fs, Drained(s, n), rd), s)
  <1>1. Shrinks(Answer(st, fs, s, rd), s)
    BY DEF Shrinks, Answer
  <1>2. ASSUME NEW n \in Nat, n <= Len(s)
        PROVE  Shrinks(Answer(st, fs, Drained(s, n), rd), s)
    <2> DEFINE d == Drained(s, n)
    <2>1. d \in Seq(Byte) /\ Len(d) = Len(s) - n
      BY <1>2, DrainedKept
    <2> HIDE DEF d
    <2>2. Len(d) <= Len(s)
      <3>1. Len(s) \in Nat
        OBVIOUS
      <3> QED BY <1>2, <2>1, <3>1
    <2>3. Shrinks(Answer(st, fs, d, rd), s)
      BY <2>1, <2>2 DEF Shrinks, Answer
    <2> QED BY <2>3 DEF d
  <1> QED BY <1>1, <1>2

LEMMA OpusShrinks ==
  ASSUME NEW s \in Seq(Byte), NEW rd
  PROVE  Shrinks(opus_pull(s, rd), s)
  <1> DEFINE there == Drained(s, OpusFrom(s) - 1)
             rest  == Drained(there, page_total(there))
  <1>0. <<>> \in Seq(Byte) /\ Len(s) \in Nat
    OBVIOUS
  <1>1. CASE rd.ready # <<>> \/ OpusStarts(s) = {}
    <2>1. \E st, fs, kept : opus_pull(s, rd) = Answer(st, fs, s, kept)
      BY <1>1, Zenon DEF opus_pull, OpusStarts, NeedMore
    <2> QED BY <2>1, AnswerShrinks, Zenon
  <1>2. CASE rd.ready = <<>> /\ OpusStarts(s) # {}
    <2>1. OpusFrom(s) - 1 \in Nat /\ OpusFrom(s) - 1 <= Len(s)
      <3>1. OpusFrom(s) \in 1 .. Len(s)
        BY <1>0, <1>2, FromKept
      <3> QED BY <3>1
    <2>2. there \in Seq(Byte) /\ Len(there) = Len(s) - (OpusFrom(s) - 1)
      BY <1>0, <2>1, DrainedKept, Zenon
    <2>3. CASE ~page_complete(there)
      <3>1. opus_pull(s, rd) = Answer("none", <<>>, there, rd)
        BY <1>2, <2>3, Zenon DEF opus_pull, OpusStarts, OpusFrom, NeedMore
      <3> QED BY <2>1, <3>1, AnswerShrinks, Zenon
    <2>4. CASE page_complete(there)
      <3>1. page_total(there) \in Nat /\ page_total(there) <= Len(there)
        BY <1>0, <2>2, <2>4, PageKept, Zenon
      <3>2. \E st, fs, kept : opus_pull(s, rd) = Answer(st, fs, rest, kept)
        BY <1>2, <2>4, Zenon DEF opus_pull, OpusStarts, OpusFrom, Broken
      <3>3. ASSUME NEW st, NEW fs, NEW kept
            PROVE  Shrinks(Answer(st, fs, rest, kept), s)
        <4>1. Shrinks(Answer(st, fs, rest, kept), there)
          BY <2>2, <3>1, AnswerShrinks, Zenon
        <4> HIDE DEF there, rest
        <4>2. rest \in Seq(Byte) /\ Len(rest) <= Len(there) /\ Len(rest) \in Nat
          BY <4>1 DEF Shrinks, Answer
        <4>3. Len(rest) <= Len(s)
          BY <1>0, <2>1, <2>2, <4>2
        <4> QED BY <4>2, <4>3 DEF Shrinks, Answer
      <3> HIDE DEF rest
      <3> QED BY <3>2, <3>3, Zenon
    <2> QED BY <2>3, <2>4
  <1> QED BY <1>1, <1>2

LEMMA FramerShrinks ==
  ASSUME NEW s \in Seq(Byte), NEW format \in Formats, NEW rd
  PROVE  Shrinks(Pull(format, s, rd), s)
  <1> DEFINE answer == Pull(format, s, rd)
  <1>1. CASE format \in Codecs
    <2>1. CASE \A stop : ~EndsAt(format, s, stop)
      <3>1. pull_au(format, s, rd) = Answer("none", <<>>, s, rd)
        BY <2>1, AuIs, Zenon DEF pull_au, NeedMore
      <3> QED BY <1>1, <3>1, AnswerShrinks, Zenon DEF Pull, Codecs
    <2>2. CASE \E stop : EndsAt(format, s, stop)
      <3> PICK stop : EndsAt(format, s, stop)
        BY <2>2
      <3> DEFINE begin == Least(find_start_codes(s))
                 au == [data |-> SubSeq(s, begin, stop - 1), key |-> KeyBefore(format, s, stop)]
      <3>1. begin \in Nat \ {0} /\ stop \in Nat /\ begin < stop /\ stop <= Len(s)
        <4>1. <<>> \in Seq(Byte)
          OBVIOUS
        <4> QED BY <1>1, <4>1, EndStands
      <3>2. next_au(format, s, FALSE) = <<au>>
        BY AuIs, Zenon
      <3>3. Len(au.data) \in Nat /\ Len(au.data) <= Len(s)
        <4> HIDE DEF begin
        <4>1. /\ begin - 1 \in Nat /\ stop - begin \in Nat /\ Len(s) \in Nat
              /\ (begin - 1) + (stop - begin) = stop - 1 /\ (begin - 1) + 1 = begin
              /\ stop - 1 <= Len(s) /\ stop - begin <= Len(s)
          BY <3>1
        <4>2. Len(SubSeq(s, (begin - 1) + 1, (begin - 1) + (stop - begin))) = stop - begin
          BY <4>1, Piece, Zenon
        <4>3. au.data = SubSeq(s, begin, stop - 1)
          OBVIOUS
        <4> QED BY <4>1, <4>2, <4>3, Zenon
      <3> HIDE DEF au
      <3>4. \E fs : pull_au(format, s, rd) = Answer("frame", fs, Drained(s, Len(au.data)), rd)
        BY <3>2, OneAu, Zenon DEF pull_au
      <3> QED BY <1>1, <3>3, <3>4, AnswerShrinks, Zenon DEF Pull, Codecs
    <2> QED BY <2>1, <2>2
  <1>2. CASE format = "ivf"
    <2> DEFINE len == 2 + s[1][2]
    <2>1. CASE Len(s) < 2 \/ (Len(s) < len /\ rd.header_seen)
      <3>1. ivf_pull(s, rd) = Answer("none", <<>>, s, rd)
        BY <2>1 DEF ivf_pull, NeedMore
      <3> QED BY <1>2, <3>1, AnswerShrinks DEF Pull
    <2>2. CASE ~(Len(s) < 2) /\ ~(Len(s) < len /\ rd.header_seen)
      <3>1. 2 \in Nat /\ 2 <= Len(s) /\ len \in Nat /\ (rd.header_seen => len <= Len(s))
        <4>1. Len(s) >= 2 /\ <<>> \in Seq(Byte)
          BY <2>2
        <4> QED BY <2>2, <4>1, HeaderKept
      <3>2. CASE rd.header_seen
        <4>1. \E fs : ivf_pull(s, rd) = Answer("frame", fs, Drained(s, len), rd)
          BY <2>2, <3>2, Zenon DEF ivf_pull
        <4> HIDE DEF len
        <4> QED BY <1>2, <3>1, <3>2, <4>1, AnswerShrinks, Zenon DEF Pull
      <3>3. CASE ~rd.header_seen
        <4> DEFINE h == hdr_len(s)
        <4>1. \E st, fs, kept : \/ ivf_pull(s, rd) = Answer(st, fs, s, kept)
                                \/ /\ ~(Len(s) < h)
                                   /\ ivf_pull(s, rd) = Answer(st, fs, Drained(s, h), kept)
          BY <2>2, <3>3, Zenon DEF ivf_pull, Broken, NeedMore
        <4>2. h \in Nat /\ (~(Len(s) < h) => h <= Len(s))
          <5>1. Len(s) >= 2 /\ <<>> \in Seq(Byte) /\ Len(s) \in Nat
            BY <2>2
          <5>2. h \in Nat
            BY <5>1, FileHeaderKept
          <5> QED BY <5>1, <5>2
        <4> HIDE DEF h
        <4> QED BY <1>2, <4>1, <4>2, AnswerShrinks, Zenon DEF Pull
      <3> QED BY <3>2, <3>3
    <2> QED BY <2>1, <2>2
  <1>3. CASE format = "aac"
    <2> DEFINE len == s[2][2]
    <2>1. CASE Len(s) < 2
      <3>1. adts_next_frame(s, rd) = Answer("none", <<>>, s, rd)
        BY <2>1, Zenon DEF adts_next_frame, NeedMore
      <3> QED BY <1>3, <3>1, AnswerShrinks DEF Pull
    <2>2. CASE ~(Len(s) < 2)
      <3>1. len \in Nat
        <4>1. Len(s) >= 2 /\ <<>> \in Seq(Byte)
          BY <2>2
        <4> QED BY <4>1, HeaderKept
      <3>2. ~(Len(s) < len) => len <= Len(s)
        BY <3>1
      <3>3. \E st, fs, kept :
              \/ adts_next_frame(s, rd) = Answer(st, fs, s, kept)
              \/ len <= Len(s) /\ adts_next_frame(s, rd) = Answer(st, fs, Drained(s, len), kept)
        BY <2>2, <3>2, Zenon DEF adts_next_frame, Broken, NeedMore
      <3> QED BY <1>3, <3>1, <3>3, AnswerShrinks, Zenon DEF Pull
    <2> QED BY <2>1, <2>2
  <1>4. CASE format = "opus"
    BY <1>4, OpusShrinks DEF Pull
  <1>5. CASE format = "g711"
    <2>1. G711Need \in Nat /\ (~(Len(s) < G711Need) => G711Need <= Len(s))
      BY ContainersAssumption
    <2>2. \E st, fs, kept :
            \/ g711_next_frame(s, rd) = Answer(st, fs, s, kept)
            \/ /\ G711Need <= Len(s)
               /\ g711_next_frame(s, rd) = Answer(st, fs, Drained(s, G711Need), kept)
      BY <2>1, Zenon DEF g711_next_frame, NeedMore
    <2> QED BY <1>5, <2>1, <2>2, AnswerShrinks, Zenon DEF Pull
  <1> QED BY <1>1, <1>2, <1>3, <1>4, <1>5 DEF Formats, Codecs

-----------------------------------------------------------------------------
(* The pump is one that has the whole stream before it *)

LEMMA InAnyOrder ==
  \A u, v, w \in Seq(Byte) : (u \o v) \o w = u \o (v \o w)
  OBVIOUS

\* What a pump has before it that has read i bytes of b and kept s.
Ahead(b, i, s) == s \o Drained(b, i)

\* What a read takes from the stream it adds to the buffer.
LEMMA ReadMoves ==
  ASSUME NEW b \in Seq(Byte), NEW s \in Seq(Byte), NEW i \in Nat, NEW n \in Nat,
         i + n <= Len(b)
  PROVE  Ahead(b, i + n, s \o SubSeq(b, i + 1, i + n)) = Ahead(b, i, s)
  <1> DEFINE piece_ == SubSeq(b, i + 1, i + n)
             left   == Drained(b, i)
             e      == i + n
             later  == Drained(b, e)
             k      == Len(b) - e
  <1>1. /\ Len(b) \in Nat /\ k \in Nat /\ n + k \in Nat /\ e \in Nat /\ e = i + n
        /\ i + (n + k) = Len(b) /\ e + k = Len(b)
    OBVIOUS
  <1>2. /\ piece_ \in Seq(Byte) /\ Len(piece_) = n
        /\ \A j \in 1 .. n : piece_[j] = b[i + j]
    BY Piece, Zenon
  <1> HIDE DEF k, e
  <1>3. /\ left \in Seq(Byte) /\ Len(left) = n + k
        /\ \A j \in 1 .. n + k : left[j] = b[i + j]
    <2>1. i <= Len(b) /\ Len(b) - i = n + k
      BY <1>1
    <2>2. /\ left \in Seq(Byte) /\ Len(left) = Len(b) - i
          /\ \A j \in 1 .. Len(b) - i : left[j] = b[i + j]
      BY <2>1, RestIs, Zenon
    <2> HIDE DEF left
    <2> QED BY <2>1, <2>2, Zenon
  <1>4. /\ later \in Seq(Byte) /\ Len(later) = k
        /\ \A j \in 1 .. k : later[j] = b[e + j]
    <2>1. e \in Nat /\ e <= Len(b) /\ Len(b) - e = k
      BY <1>1
    <2>2. /\ later \in Seq(Byte) /\ Len(later) = Len(b) - e
          /\ \A j \in 1 .. Len(b) - e : later[j] = b[e + j]
      BY <2>1, RestIs, Zenon
    <2> HIDE DEF later
    <2> QED BY <2>1, <2>2, Zenon
  <1> HIDE DEF piece_, left, later
  <1>5. /\ piece_ \o later \in Seq(Byte) /\ Len(piece_ \o later) = n + k
        /\ \A j \in 1 .. n : (piece_ \o later)[j] = piece_[j]
        /\ \A j \in 1 .. k : (piece_ \o later)[n + j] = later[j]
    <2>1. /\ piece_ \o later \in Seq(Byte) /\ Len(piece_ \o later) = Len(piece_) + Len(later)
          /\ \A j \in 1 .. Len(piece_) : (piece_ \o later)[j] = piece_[j]
          /\ \A j \in 1 .. Len(later) : (piece_ \o later)[Len(piece_) + j] = later[j]
      BY <1>2, <1>4, Appended, Zenon
    <2> QED BY <1>2, <1>4, <2>1, Zenon
  <1>6. ASSUME NEW j \in 1 .. n + k PROVE (piece_ \o later)[j] = left[j]
    <2>1. CASE j \in 1 .. n
      BY <1>2, <1>3, <1>5, <2>1
    <2>2. CASE j \notin 1 .. n
      <3>1. j - n \in 1 .. k /\ n + (j - n) = j /\ e + (j - n) = i + j
        BY <1>1, <2>2
      <3>2. (piece_ \o later)[j] = later[j - n]
        BY <1>5, <3>1, Zenon
      <3>3. later[j - n] = b[i + j]
        BY <1>4, <3>1, Zenon
      <3> QED BY <1>3, <3>2, <3>3
    <2> QED BY <2>1, <2>2
  <1>7. piece_ \o later = left
    BY <1>3, <1>5, <1>6, SeqEqual
  <1>8. (s \o piece_) \o later = s \o (piece_ \o later)
    BY <1>2, <1>4, InAnyOrder, Zenon
  <1> QED BY <1>7, <1>8, Zenon DEF piece_, left, later, e, Ahead

LEMMA ReadGrows ==
  ASSUME NEW b \in Seq(Byte), NEW s \in Seq(Byte), NEW i \in Nat, NEW n \in Nat,
         i + n <= Len(b)
  PROVE  /\ s \o SubSeq(b, i + 1, i + n) \in Seq(Byte)
         /\ Len(s \o SubSeq(b, i + 1, i + n)) = Len(s) + n
  <1> DEFINE piece_ == SubSeq(b, i + 1, i + n)
  <1>1. piece_ \in Seq(Byte) /\ Len(piece_) = n
    BY Piece, Zenon
  <1> HIDE DEF piece_
  <1>2. s \o piece_ \in Seq(Byte) /\ Len(s \o piece_) = Len(s) + n
    BY <1>1, Appended
  <1> QED BY <1>2 DEF piece_

\* Inductive: the buffer is made of bytes that have been read.
BufferInv == /\ source \in Sources
             /\ at \in 0 .. Len(source.bytes)
             /\ pc \in {"read", "drain", "ended", "failed"}
             /\ buf \in Seq(Byte) /\ Len(buf) <= at

LEMMA SourcesAre ==
  ASSUME NEW s \in Sources
  PROVE  s.format \in Formats /\ s.bytes \in Seq(Byte) /\ Len(s.bytes) \in Nat
  BY FramingAssumption DEF Byte

LEMMA BufferInit == Init => BufferInv
  <1> SUFFICES ASSUME Init PROVE BufferInv
    OBVIOUS
  <1>1. Len(source.bytes) \in Nat
    BY SourcesAre DEF Init
  <1> QED BY <1>1 DEF Init, BufferInv

LEMMA BufferStep == BufferInv /\ [Next]_vars => BufferInv'
  <1> SUFFICES ASSUME BufferInv, [Next]_vars PROVE BufferInv'
    OBVIOUS
  <1>1. /\ source.format \in Formats /\ source.bytes \in Seq(Byte) /\ Len(source.bytes) \in Nat
        /\ Len(buf) \in Nat /\ at \in Nat
    BY SourcesAre DEF BufferInv
  <1>2. CASE Read
    <2>1. PICK n \in 1 .. ReadMax :
                 /\ at + n <= Len(source.bytes)
                 /\ at' = at + n
                 /\ buf' = buf \o SubSeq(source.bytes, at + 1, at + n)
      BY <1>2 DEF Read
    <2>2. n \in Nat
      BY FramingAssumption
    <2>3. buf' \in Seq(Byte) /\ Len(buf') = Len(buf) + n
      <3>1. buf \in Seq(Byte)
        BY DEF BufferInv
      <3>2. at \in Nat /\ source.bytes \in Seq(Byte) /\ at + n <= Len(source.bytes)
        BY <1>1, <2>1
      <3> QED BY <2>1, <2>2, <3>1, <3>2, ReadGrows, Zenon
    <2>4. at' \in 0 .. Len(source.bytes) /\ Len(buf') <= at'
      BY <1>1, <2>1, <2>2, <2>3 DEF BufferInv
    <2> QED BY <1>2, <2>3, <2>4 DEF Read, BufferInv
  <1>3. CASE Drain
    <2> DEFINE answer == Pull(source.format, buf, reader)
    <2>1. buf' = answer.rest /\ UNCHANGED <<source, at>>
          /\ pc' \in {"read", "drain", "failed"}
      BY <1>3 DEF Drain
    <2>2. Shrinks(answer, buf)
      BY <1>1, FramerShrinks DEF BufferInv
    <2> HIDE DEF answer
    <2>3. buf' \in Seq(Byte) /\ Len(buf') <= Len(buf) /\ Len(buf') \in Nat
      BY <2>1, <2>2 DEF Shrinks
    <2> QED BY <1>1, <2>1, <2>3 DEF BufferInv
  <1>4. CASE EndOfInput
    BY <1>4 DEF EndOfInput, BufferInv
  <1>5. CASE Respawn
    BY <1>1, <1>5 DEF Respawn, BufferInv
  <1>6. CASE UNCHANGED vars \/ Done
    BY <1>6 DEF vars, Done, BufferInv
  <1> QED BY <1>2, <1>3, <1>4, <1>5, <1>6 DEF Next

\* What is before the pump is, at first, the whole stream.
LEMMA WholeInit == Init => Whole!Init
  <1> SUFFICES ASSUME Init PROVE Whole!Init
    OBVIOUS
  <1>1. /\ source.bytes \in Seq(Byte) /\ buf = <<>> /\ at = 0 /\ pc = "read"
        /\ reader = NewReader /\ pushed = <<>>
    BY SourcesAre DEF Init
  <1>2. Unread = source.bytes
    BY <1>1 DEF Unread
  <1>3. <<>> \o source.bytes = source.bytes
    BY <1>1, ConcatEmptySeq
  <1>4. (pc \in {"ended", "failed"}) = FALSE
    BY <1>1
  <1> QED BY <1>1, <1>2, <1>3, <1>4, Zenon DEF Whole!Init

\* Every step of the pump is one of the pump that has it all, or none.
LEMMA WholeStep == BufferInv /\ [Next]_vars => [Whole!Next]_(Whole!wholeVars)
  <1> SUFFICES ASSUME BufferInv, [Next]_vars
               PROVE  [Whole!Next]_(Whole!wholeVars)
    OBVIOUS
  <1> USE DEF Whole!wholeVars
  <1>1. /\ source.format \in Formats /\ source.bytes \in Seq(Byte) /\ Len(source.bytes) \in Nat
        /\ buf \in Seq(Byte) /\ Len(buf) \in Nat /\ at \in Nat /\ at <= Len(source.bytes)
    BY SourcesAre DEF BufferInv
  <1>2. Unread = Drained(source.bytes, at) /\ Unread \in Seq(Byte)
    <2>1. Drained(source.bytes, at) \in Seq(Byte)
      BY <1>1, DrainedKept
    <2> QED BY <2>1 DEF Unread, Drained
  <1>3. CASE Read
    <2>1. PICK n \in 1 .. ReadMax :
                 /\ at + n <= Len(source.bytes)
                 /\ at' = at + n
                 /\ buf' = buf \o SubSeq(source.bytes, at + 1, at + n)
      BY <1>3 DEF Read
    <2>2. n \in Nat
      BY FramingAssumption
    <2>3. UNCHANGED <<source, reader, pushed>> /\ pc = "read" /\ pc' = "drain"
      BY <1>3 DEF Read
    <2>4. Unread' = Drained(source.bytes, at + n)
      BY <2>1, <2>3 DEF Unread, Drained
    <2>5. (buf \o Unread)' = buf \o Unread
      <3>1. Ahead(source.bytes, at + n, buf') = Ahead(source.bytes, at, buf)
        BY <1>1, <2>1, <2>2, ReadMoves, Zenon
      <3> QED BY <1>2, <2>4, <3>1, Zenon DEF Ahead
    <2> QED BY <2>3, <2>5
  <1>4. CASE Drain
    <2> DEFINE answer == Pull(source.format, buf, reader)
               whole  == Pull(source.format, buf \o Unread, reader)
    <2>1. /\ pc = "drain" /\ UNCHANGED <<source, at>>
          /\ buf' = answer.rest /\ reader' = answer.reader
          /\ pushed' = pushed \o answer.frames
          /\ pc' = IF answer.status = "none" THEN "read"
                   ELSE IF answer.status = "error" THEN "failed" ELSE "drain"
      BY <1>4 DEF Drain
    <2>2. Unread' = Unread
      BY <2>1 DEF Unread
    <2>3. /\ Stands(answer, whole, Unread)
          /\ \/ Waits(answer, buf, reader)
             \/ source.format = "opus" /\ Resyncs(answer, buf, reader)
      BY <1>1, <1>2, FramerStands, Zenon
    <2> HIDE DEF answer
    <2>4. CASE answer.status # "none"
      <3>1. /\ whole.status = answer.status /\ whole.frames = answer.frames
            /\ whole.reader = answer.reader /\ whole.rest = buf' \o Unread
        BY <2>1, <2>3, <2>4 DEF Stands
      <3>2. (pc' \in {"ended", "failed"}) = (whole.status = "error")
        BY <2>1, <2>4, <3>1
      <3>3. Whole!Turn
        <4>1. pc \notin {"ended", "failed"}
          BY <2>1
        <4> QED BY <2>1, <2>2, <3>1, <3>2, <4>1, Zenon DEF Whole!Turn
      <3> QED BY <3>3 DEF Whole!Next
    <2>5. CASE answer.status = "none" /\ Waits(answer, buf, reader)
      <3>1. answer.frames = <<>> /\ reader' = reader /\ buf' = buf /\ pc' = "read"
        BY <2>1, <2>5 DEF Waits
      <3> QED BY <2>1, <2>2, <3>1
    <2>6. CASE answer.status = "none" /\ source.format = "opus" /\ Resyncs(answer, buf, reader)
      <3>1. answer.frames = <<>> /\ reader' = reader /\ pc' = "read"
        BY <2>1, <2>6 DEF Resyncs
      <3>2. PICK n \in 0 .. Len(buf) : /\ \A i \in 1 .. n : buf[i][1] # "OggS"
                                       /\ buf' = Drained(buf, n)
        BY <2>1, <2>6 DEF Resyncs
      <3>3. buf' \o Unread = Drained(buf \o Unread, n)
        <4>1. n \in Nat /\ n <= Len(buf)
          BY <1>1
        <4>2. Drained(buf \o Unread, n) = Drained(buf, n) \o Unread
          BY <1>1, <1>2, <4>1, DrainedKept, Zenon
        <4> QED BY <3>2, <4>2, Zenon
      <3>4. n \in 0 .. Len(buf \o Unread)
        BY <1>1, <1>2, Appended
      <3>5. Skippable(source.format, buf \o Unread, n)
        <4>1. ASSUME NEW i \in 1 .. n PROVE (buf \o Unread)[i][1] # "OggS"
          <5>1. i \in 1 .. Len(buf)
            BY <1>1
          <5>2. (buf \o Unread)[i] = buf[i]
            BY <1>1, <1>2, <5>1, Appended
          <5> QED BY <3>2, <5>2
        <4> QED BY <2>6, <4>1, Zenon DEF Skippable
      <3>6. pushed' = pushed
        BY <2>1, <3>1
      <3>7. Whole!Skip
        <4>1. pc \notin {"ended", "failed"} /\ pc' \notin {"ended", "failed"}
          BY <2>1, <3>1
        <4>2. (buf \o Unread)' = SubSeq(buf \o Unread, n + 1, Len(buf \o Unread))
          BY <2>2, <3>3, Zenon DEF Drained
        <4>3. (pc' \in {"ended", "failed"}) = (pc \in {"ended", "failed"})
          BY <4>1
        <4> QED BY <2>1, <3>1, <3>4, <3>5, <3>6, <4>1, <4>2, <4>3, Zenon DEF Whole!Skip
      <3> QED BY <3>7 DEF Whole!Next
    <2> QED BY <2>3, <2>4, <2>5, <2>6
  <1>5. CASE EndOfInput
    <2>1. UNCHANGED <<source, buf, reader, pushed>> /\ Unread' = Unread
          /\ pc = "read" /\ pc' = "ended"
      BY <1>5 DEF EndOfInput, Unread
    <2>2. Whole!End
      BY <2>1 DEF Whole!End
    <2> QED BY <2>2 DEF Whole!Next
  <1>6. CASE Respawn
    <2>1. /\ buf' = <<>> /\ reader' = NewReader /\ pushed' = <<>>
          /\ UNCHANGED <<source, pc>> /\ pc = "read" /\ at' = 0
      BY <1>6 DEF Respawn
    <2>2. Unread' = source.bytes
      BY <1>1, <2>1 DEF Unread
    <2>3. (buf \o Unread)' = source.bytes
      BY <1>1, <2>1, <2>2, ConcatEmptySeq
    <2>4. Whole!Restart
      <3>1. pc \notin {"ended", "failed"}
        BY <2>1
      <3> QED BY <2>1, <2>3, <3>1, Zenon DEF Whole!Restart
    <2> QED BY <2>4 DEF Whole!Next
  <1>7. CASE UNCHANGED vars \/ Done
    BY <1>7 DEF vars, Done, Unread
  <1> QED BY <1>3, <1>4, <1>5, <1>6, <1>7 DEF Next

\* The encoded pumps of main.rs around the framers of parse/: for every stream of
\* bytes and every way in which reads of any size cut it, in whatever place, the
\* pump does what one would do that has the whole stream in its buffer.
THEOREM AnyReads == Spec => ReadsDoNotMatter
  <1>1. Init => BufferInv /\ Whole!Init
    BY BufferInit, WholeInit
  <1>2. BufferInv /\ [Next]_vars => BufferInv' /\ [Whole!Next]_(Whole!wholeVars)
    BY BufferStep, WholeStep
  <1> QED BY <1>1, <1>2, PTL DEF Spec, ReadsDoNotMatter, Whole!Spec

-----------------------------------------------------------------------------
(* Ogg: what the loop over the lacing values does *)

\* The loop over the lacing values, step by step.
Laced(f, page, rd, m) ==
  /\ f = [i \in 0 .. m |-> f[i]]
  /\ f[0] = [off |-> 0, cur |-> carried(page, rd), ready |-> <<>>]
  /\ \A i \in 1 .. m : f[i] = lace_next(page, f[i - 1], page.laces[i])

LEMMA LacedExists ==
  ASSUME NEW page, NEW rd, NEW n \in Nat
  PROVE  \E f : Laced(f, page, rd, n)
  <1> DEFINE without == {m \in 0 .. n : ~(\E f : Laced(f, page, rd, m))}
             start == [off |-> 0, cur |-> carried(page, rd), ready |-> <<>>]
  <1>1. SUFFICES ASSUME without # {} PROVE FALSE
    <2>1. n \in 0 .. n
      OBVIOUS
    <2> QED BY <2>1
  <1>2. PICK m \in without : \A k \in without : m <= k
    <2>1. without \in SUBSET Nat
      OBVIOUS
    <2> HIDE DEF without
    <2> QED BY <1>1, <2>1, Smallest
  <1>3. m \in 0 .. n /\ ~(\E f : Laced(f, page, rd, m))
    OBVIOUS
  <1> HIDE DEF start
  <1>4. CASE m = 0
    <2> DEFINE g == [i \in 0 .. 0 |-> start]
    <2>1. g = [i \in 0 .. 0 |-> g[i]] /\ g[0] = start
      OBVIOUS
    <2>2. 1 .. 0 = {}
      OBVIOUS
    <2> HIDE DEF g
    <2>3. Laced(g, page, rd, 0)
      BY <2>1, <2>2 DEF Laced, start
    <2> QED BY <1>3, <1>4, <2>3
  <1>5. CASE m # 0
    <2>1. m - 1 \in 0 .. n /\ m - 1 \notin without
      BY <1>2, <1>3, <1>5
    <2>2. PICK f : Laced(f, page, rd, m - 1)
      BY <2>1
    <2> DEFINE last == lace_next(page, f[m - 1], page.laces[m])
    <2> HIDE DEF last
    <2> DEFINE g == [i \in 0 .. m |-> IF i = m THEN last ELSE f[i]]
    <2>3. m \in Nat /\ m >= 1 /\ m - 1 \in Nat
      BY <1>3, <1>5
    <2>4. g[m] = last /\ \A i \in 0 .. m - 1 : g[i] = f[i]
      BY <2>3
    <2>5. g = [i \in 0 .. m |-> g[i]]
      OBVIOUS
    <2> HIDE DEF g
    <2>6. f[0] = start /\ \A i \in 1 .. m - 1 : f[i] = lace_next(page, f[i - 1], page.laces[i])
      BY <2>2, Zenon DEF Laced, start
    <2>7. g[0] = start
      BY <2>3, <2>4, <2>6
    <2>8. ASSUME NEW i \in 1 .. m PROVE g[i] = lace_next(page, g[i - 1], page.laces[i])
      <3>1. i - 1 \in 0 .. m - 1
        BY <2>3
      <3>2. CASE i = m
        <4>1. g[i] = lace_next(page, f[i - 1], page.laces[i])
          BY <2>4, <3>2, Zenon DEF last
        <4> QED BY <2>4, <3>1, <4>1, Zenon
      <3>3. CASE i # m
        <4>1. i \in 1 .. m - 1 /\ i \in 0 .. m - 1
          BY <2>3, <3>3
        <4> QED BY <2>4, <2>6, <3>1, <4>1, Zenon
      <3> QED BY <3>2, <3>3
    <2>9. Laced(g, page, rd, m)
      BY <2>5, <2>7, <2>8, Zenon DEF Laced, start
    <2> QED BY <1>3, <2>9
  <1> QED BY <1>4, <1>5

LEMMA LoopIs ==
  ASSUME NEW page, NEW rd, NEW n \in Nat, Len(page.laces) = n
  PROVE  \E f : Laced(f, page, rd, n) /\ lace_loop(page, rd) = f[n]
  <1> DEFINE start == [off |-> 0, cur |-> carried(page, rd), ready |-> <<>>]
             step(f) == [i \in 0 .. Len(page.laces) |->
                           IF i = 0 THEN [off |-> 0, cur |-> carried(page, rd), ready |-> <<>>]
                           ELSE lace_next(page, f[i - 1], page.laces[i])]
             laced == CHOOSE f : f = step(f)
  <1>1. \E f : f = step(f)
    <2>1. PICK f : Laced(f, page, rd, n)
      BY LacedExists
    <2>2. ASSUME NEW i \in 0 .. n
          PROVE  f[i] = IF i = 0 THEN start ELSE lace_next(page, f[i - 1], page.laces[i])
      <3>1. i = 0 \/ (i # 0 /\ i \in 1 .. n)
        OBVIOUS
      <3> HIDE DEF start
      <3>2. f[0] = start /\ \A j \in 1 .. n : f[j] = lace_next(page, f[j - 1], page.laces[j])
        BY <2>1, Zenon DEF Laced, start
      <3> QED BY <3>1, <3>2, Zenon
    <2>3. f = [i \in 0 .. n |-> f[i]]
      BY <2>1, Zenon DEF Laced
    <2>4. f = step(f)
      BY <2>2, <2>3
    <2> QED BY <2>4
  <1>2. laced = step(laced)
    <2> HIDE DEF step
    <2> QED BY <1>1
  <1>3. lace_loop(page, rd) = laced[n]
    BY Zenon DEF lace_loop
  <1> HIDE DEF laced
  <1>4. \A i \in 0 .. n : laced[i] = IF i = 0 THEN start ELSE lace_next(page, laced[i - 1], page.laces[i])
    <2>1. \A i \in 0 .. n : step(laced)[i] = IF i = 0 THEN start ELSE lace_next(page, laced[i - 1], page.laces[i])
      OBVIOUS
    <2> HIDE DEF step
    <2> QED BY <1>2, <2>1
  <1>5. laced = [i \in 0 .. n |-> laced[i]]
    <2>1. step(laced) = [i \in 0 .. n |-> step(laced)[i]]
      OBVIOUS
    <2> HIDE DEF step
    <2> QED BY <1>2, <2>1, Zenon
  <1> HIDE DEF step
  <1>6. laced[0] = start
    BY <1>4
  <1>7. ASSUME NEW i \in 1 .. n PROVE laced[i] = lace_next(page, laced[i - 1], page.laces[i])
    <2>1. i \in 0 .. n /\ i # 0
      OBVIOUS
    <2> QED BY <1>4, <2>1, Zenon
  <1>8. Laced(laced, page, rd, n)
    BY <1>5, <1>6, <1>7, Zenon DEF Laced
  <1> QED BY <1>3, <1>8

\* A page that is there has as much data as its lacing values add up to.
LEMMA PageIs ==
  ASSUME NEW p \in Seq(Byte), page_complete(p)
  PROVE  LET page == page_at(p)
             n == p[2][2]
         IN  /\ n \in Nat /\ Len(page.laces) = n /\ page.laces = [i \in 1 .. n |-> page.laces[i]]
             /\ \A i \in 1 .. n : page.laces[i] \in Nat /\ page.laces[i] = p[2 + i][2]
             /\ page.data \in Seq(Byte) /\ Len(page.data) = Sum(page.laces)
             /\ page.data = SubSeq(p, (2 + n) + 1, page_total(p))
             /\ page_total(p) = (2 + n) + Sum(page.laces)
             /\ Sum(page.laces) \in Nat
  <1> DEFINE page == page_at(p)
             n == p[2][2]
             sum == Sum(laces_at(p))
  <1>1. Len(p) >= 2 /\ Len(p) >= 2 + n /\ Len(p) >= page_total(p) /\ Len(p) \in Nat
    BY DEF page_complete
  <1>2. n \in Nat
    <2>1. p[2] \in Byte
      BY <1>1, ElementOfSeq
    <2> QED BY <2>1 DEF Byte
  <1>3. ASSUME NEW i \in 1 .. n PROVE p[2 + i][2] \in Nat
    <2>1. 2 + i \in 1 .. Len(p)
      BY <1>1, <1>2
    <2>2. p[2 + i] \in Byte
      BY <2>1, ElementOfSeq
    <2> QED BY <2>2 DEF Byte
  <1>4. page.laces = laces_at(p) /\ page.data = SubSeq(p, 3 + n, page_total(p))
    BY DEF page_at
  <1>5. laces_at(p) = [i \in 1 .. n |-> p[2 + i][2]]
    BY DEF laces_at
  <1>6. Len(laces_at(p)) = n /\ laces_at(p) = [i \in 1 .. n |-> laces_at(p)[i]]
        /\ \A i \in 1 .. n : laces_at(p)[i] = p[2 + i][2] /\ laces_at(p)[i] \in Nat
    BY <1>2, <1>3, <1>5
  <1>7. sum \in Nat
    BY <1>2, <1>6, SumIsNat
  <1>8. page_total(p) = 2 + n + sum
    BY Zenon DEF page_total
  <1> HIDE DEF sum, n, page
  <1>9. /\ 2 + n + sum = (2 + n) + sum /\ 3 + n = (2 + n) + 1 /\ 2 + n \in Nat
        /\ (2 + n) + sum <= Len(p)
    BY <1>1, <1>2, <1>7, <1>8
  <1>10. /\ SubSeq(p, (2 + n) + 1, (2 + n) + sum) \in Seq(Byte)
         /\ Len(SubSeq(p, (2 + n) + 1, (2 + n) + sum)) = sum
    BY <1>7, <1>9, Piece, Zenon
  <1> QED BY <1>2, <1>4, <1>6, <1>7, <1>8, <1>9, <1>10, Zenon DEF page, n, sum

\* A piece of the data, which need not begin at the front.
LEMMA PieceTyped ==
  ASSUME NEW s \in Seq(Byte), NEW i \in Nat, NEW j \in Nat, i <= j, j <= Len(s)
  PROVE  SubSeq(s, i + 1, j) \in Seq(Byte)
  <1>1. /\ \A k \in i + 1 .. j : k \in 1 .. Len(s) /\ s[k] \in Byte
    BY ElementOfSeq
  <1> QED BY <1>1

\* The packets are bytes, and the audio packets frames, no more than lacing values.
LEMMA LoopTyped ==
  ASSUME NEW page, NEW n \in Nat, Len(page.laces) = n,
         \A i \in 1 .. n : page.laces[i] \in Nat,
         page.data \in Seq(Byte), Len(page.data) = Sum(page.laces),
         NEW rd \in Reader
  PROVE  /\ lace_loop(page, rd).cur \in Seq(Byte) /\ lace_loop(page, rd).ready \in Seq(Frames)
         /\ Len(lace_loop(page, rd).ready) <= n
  <1>1. PICK f : Laced(f, page, rd, n) /\ lace_loop(page, rd) = f[n]
    BY LoopIs
  <1>2. PICK g : Adds(g, page.laces, n) /\ Sum(page.laces) = g[n]
    BY SumSteps
  <1>3. \A i \in 0 .. n : g[i] <= g[n]
    <2>1. ASSUME NEW i \in 0 .. n PROVE g[i] <= g[n]
      <3>1. \A j \in i .. n : g[i] <= g[j]
        BY <1>2, SumsGrow
      <3> QED BY <3>1
    <2> QED BY <2>1
  <1>4. /\ g[0] = 0 /\ (\A i \in 0 .. n : g[i] \in Nat)
        /\ \A i \in 1 .. n : g[i] = g[i - 1] + page.laces[i]
    BY <1>2 DEF Adds
  <1> DEFINE good(w, i) == /\ w.off = g[i] /\ w.cur \in Seq(Byte)
                           /\ w.ready \in Seq(Frames) /\ Len(w.ready) <= i
             other == {i \in 0 .. n : ~good(f[i], i)}
  <1>5. other = {}
    <2>1. SUFFICES ASSUME other # {} PROVE FALSE
      OBVIOUS
    <2>2. PICK i \in other : \A k \in other : i <= k
      <3>1. other \in SUBSET Nat
        OBVIOUS
      <3> HIDE DEF other
      <3> QED BY <2>1, <3>1, Smallest
    <2>3. i \in 0 .. n /\ ~good(f[i], i)
      OBVIOUS
    <2>4. carried(page, rd) \in Seq(Byte)
      <3>1. rd.carry \in Seq(Byte) /\ <<>> \in Seq(Byte)
        BY DEF Reader
      <3> QED BY <3>1 DEF carried
    <2>5. i # 0
      <3>1. good(f[0], 0)
        <4>1. f[0] = [off |-> 0, cur |-> carried(page, rd), ready |-> <<>>]
          BY <1>1, Zenon DEF Laced
        <4>2. <<>> \in Seq(Frames) /\ Len(<<>>) <= 0
          OBVIOUS
        <4> QED BY <1>4, <2>4, <4>1, <4>2
      <3> QED BY <2>3, <3>1
    <2>6. i - 1 \in 0 .. n /\ i - 1 \notin other /\ i \in 1 .. n
      BY <2>2, <2>3, <2>5
    <2>7. good(f[i - 1], i - 1)
      BY <2>6
    <2> DEFINE w == f[i - 1]
               lace == page.laces[i]
               off == w.off + lace
               piece == SubSeq(page.data, w.off + 1, off)
               cur == w.cur \o piece
    <2>8. w.off \in Nat /\ lace \in Nat /\ off = g[i] /\ off \in Nat /\ off <= Len(page.data)
          /\ w.off <= off
      <3>1. w.off = g[i - 1] /\ g[i - 1] \in Nat /\ lace \in Nat
        BY <1>4, <2>6, <2>7
      <3>2. g[i] = g[i - 1] + lace /\ g[i] \in Nat /\ g[i] <= g[n] /\ g[n] = Len(page.data)
        BY <1>2, <1>3, <1>4, <2>3, <2>6
      <3> HIDE DEF w, lace
      <3> QED BY <3>1, <3>2
    <2>9. w.cur \in Seq(Byte) /\ w.ready \in Seq(Frames) /\ Len(w.ready) <= i - 1
      BY <2>7
    <2>10. f[i] = lace_next(page, w, lace)
      BY <1>1, <2>6, Zenon DEF Laced
    <2> HIDE DEF w, lace, good, other
    <2>11. piece \in Seq(Byte)
      BY <2>8, PieceTyped, Zenon
    <2> HIDE DEF piece
    <2>12. cur \in Seq(Byte)
      BY <2>9, <2>11, Appended, Zenon
    <2>13. lace_next(page, w, lace)
             = [off   |-> off,
                cur   |-> IF lace < Full THEN <<>> ELSE cur,
                ready |-> IF lace < Full /\ is_audio(cur)
                            THEN Append(w.ready, Frame(cur, FALSE)) ELSE w.ready]
      BY Zenon DEF lace_next, piece
    <2>14. Frame(cur, FALSE) \in Frames
      BY <2>12 DEF Frame, Frames
    <2> HIDE DEF cur, off
    <2>15. /\ Append(w.ready, Frame(cur, FALSE)) \in Seq(Frames)
           /\ Len(Append(w.ready, Frame(cur, FALSE))) = Len(w.ready) + 1
      BY <2>9, <2>14, AppendProperties
    <2>16. /\ f[i].off = off /\ f[i].cur \in Seq(Byte)
           /\ f[i].ready \in Seq(Frames) /\ Len(f[i].ready) <= i
      <3>1. <<>> \in Seq(Byte)
        OBVIOUS
      <3> DEFINE c == IF lace < Full THEN <<>> ELSE cur
                 r == IF lace < Full /\ is_audio(cur)
                        THEN Append(w.ready, Frame(cur, FALSE)) ELSE w.ready
      <3>2. c \in Seq(Byte) /\ r \in Seq(Frames) /\ Len(r) <= i
        <4>1. Len(w.ready) <= i /\ Len(w.ready) + 1 <= i
          <5>1. Len(w.ready) \in Nat /\ i \in Nat
            BY <2>6, <2>9
          <5> HIDE DEF c, r
          <5> QED BY <2>9, <5>1
        <4>2. c \in Seq(Byte) /\ r \in Seq(Frames)
          BY <2>9, <2>12, <2>15, <3>1
        <4>3. Len(r) <= i
          BY <2>15, <4>1, Zenon
        <4> HIDE DEF c, r
        <4> QED BY <4>2, <4>3
      <3>3. f[i] = [off |-> off, cur |-> c, ready |-> r]
        BY <2>10, <2>13, Zenon
      <3> HIDE DEF c, r
      <3> QED BY <3>2, <3>3
    <2> QED BY <2>3, <2>8, <2>16 DEF good
  <1>6. good(f[n], n)
    <2>1. n \in 0 .. n
      OBVIOUS
    <2> HIDE DEF good
    <2> QED BY <1>5, <2>1
  <1> QED BY <1>1, <1>6

-----------------------------------------------------------------------------
(* Types *)

GivesTyped(answer) == answer.frames \in Seq(Frames) /\ answer.reader \in Reader

LEMMA NoneTyped ==
  ASSUME NEW st, NEW rest, NEW kept \in Reader
  PROVE  GivesTyped(Answer(st, <<>>, rest, kept))
  BY DEF GivesTyped, Answer

LEMMA FrameTyped ==
  ASSUME NEW st, NEW rest, NEW kept \in Reader, NEW f \in Frames
  PROVE  GivesTyped(Answer(st, <<f>>, rest, kept))
  BY DEF GivesTyped, Answer

LEMMA CutTyped ==
  ASSUME NEW s \in Seq(Byte), NEW n \in Nat, n <= Len(s), NEW key \in BOOLEAN
  PROVE  Frame(SubSeq(s, 1, n), key) \in Frames
  <1>1. 0 \in Nat /\ 0 <= n /\ 0 + 1 = 1
    OBVIOUS
  <1>2. SubSeq(s, 1, n) \in Seq(Byte)
    BY <1>1, PieceTyped, Zenon
  <1> QED BY <1>2 DEF Frame, Frames

LEMMA OpusTyped ==
  ASSUME NEW s \in Seq(Byte), NEW rd \in Reader
  PROVE  GivesTyped(opus_pull(s, rd))
  <1> DEFINE there == Drained(s, OpusFrom(s) - 1)
             rest  == Drained(there, page_total(there))
             page  == page_at(there)
             out   == opus_pull(s, rd)
  <1>1. CASE rd.ready # <<>>
    <2> DEFINE kept == [rd EXCEPT !.ready = Tail(@)]
    <2>1. rd.ready \in Seq(Frames)
      BY DEF Reader
    <2>2. Head(rd.ready) \in Frames /\ Tail(rd.ready) \in Seq(Frames)
      BY <1>1, <2>1, HeadTailProperties
    <2>3. kept \in Reader
      BY <2>2 DEF Reader
    <2>4. out = Answer("frame", <<Head(rd.ready)>>, s, kept)
      BY <1>1, Zenon DEF opus_pull
    <2> HIDE DEF kept
    <2> QED BY <2>2, <2>3, <2>4, FrameTyped, Zenon
  <1>2. CASE /\ rd.ready = <<>>
             /\ \/ OpusStarts(s) = {}
                \/ ~page_complete(there)
                \/ refused(page, rd)
    <2>1. \E st, left : out = Answer(st, <<>>, left, rd)
      BY <1>2, Zenon DEF opus_pull, OpusStarts, OpusFrom, NeedMore, Broken
    <2> QED BY <2>1, NoneTyped, Zenon
  <1>3. CASE /\ rd.ready = <<>> /\ OpusStarts(s) # {} /\ page_complete(there)
             /\ ~refused(page, rd)
    <2>1. out = Answer("again", <<>>, rest, after(page, rd))
      BY <1>3, Zenon DEF opus_pull, OpusStarts, OpusFrom
    <2>2. there \in Seq(Byte)
      <3>1. OpusFrom(s) \in 1 .. Len(s) /\ <<>> \in Seq(Byte)
        <4>1. <<>> \in Seq(Byte)
          OBVIOUS
        <4> QED BY <1>3, <4>1, FromKept
      <3>2. OpusFrom(s) - 1 \in Nat /\ OpusFrom(s) - 1 <= Len(s)
        BY <3>1
      <3> QED BY <3>1, <3>2, DrainedKept, Zenon
    <2> HIDE DEF there, rest
    <2>3. lace_loop(page, rd).cur \in Seq(Byte) /\ lace_loop(page, rd).ready \in Seq(Frames)
      <3> DEFINE n == there[2][2]
      <3>1. /\ n \in Nat /\ Len(page.laces) = n
            /\ \A i \in 1 .. n : page.laces[i] \in Nat
            /\ page.data \in Seq(Byte) /\ Len(page.data) = Sum(page.laces)
        BY <1>3, <2>2, PageIs, Zenon
      <3> HIDE DEF n, page
      <3> QED BY <3>1, LoopTyped, Zenon
    <2>4. after(page, rd) \in Reader
      <3> DEFINE loop == lace_loop(page, rd)
                 active == page.laces # <<>> /\ Last(page.laces) = Full
                 carry == IF active THEN loop.cur
                          ELSE IF page.continued /\ rd.carry_active THEN <<>> ELSE rd.carry
      <3>1. after(page, rd) = [rd EXCEPT !.carry = carry, !.carry_active = active,
                                         !.ready = loop.ready]
        <4> HIDE DEF page
        <4> QED BY DEF after
      <3> HIDE DEF loop, page
      <3>2. active \in BOOLEAN
        OBVIOUS
      <3> HIDE DEF active
      <3>3. carry \in Seq(Byte) /\ loop.ready \in Seq(Frames)
        <4>1. <<>> \in Seq(Byte) /\ rd.carry \in Seq(Byte)
          BY DEF Reader
        <4> QED BY <2>3, <4>1, Zenon DEF loop
      <3> HIDE DEF carry
      <3> QED BY <3>1, <3>2, <3>3 DEF Reader
    <2> QED BY <2>1, <2>4, NoneTyped, Zenon
  <1> QED BY <1>1, <1>2, <1>3

LEMMA FramerTyped ==
  ASSUME NEW s \in Seq(Byte), NEW format \in Formats, NEW rd \in Reader
  PROVE  GivesTyped(Pull(format, s, rd))
  <1>0. Len(s) \in Nat /\ <<>> \in Seq(Byte)
    OBVIOUS
  <1>1. CASE format \in Codecs
    <2>0. Pull(format, s, rd) = pull_au(format, s, rd)
      BY <1>1 DEF Pull, Codecs
    <2>1. CASE \A stop : ~EndsAt(format, s, stop)
      <3>1. pull_au(format, s, rd) = Answer("none", <<>>, s, rd)
        BY <2>1, AuIs, Zenon DEF pull_au, NeedMore
      <3> QED BY <2>0, <3>1, NoneTyped, Zenon
    <2>2. CASE \E stop : EndsAt(format, s, stop)
      <3> PICK stop : EndsAt(format, s, stop)
        BY <2>2
      <3> DEFINE begin == Least(find_start_codes(s))
                 key == KeyBefore(format, s, stop)
                 au == [data |-> SubSeq(s, begin, stop - 1), key |-> key]
      <3>1. begin \in Nat \ {0} /\ stop \in Nat /\ begin < stop /\ stop <= Len(s)
        BY <1>0, <1>1, EndStands
      <3>2. next_au(format, s, FALSE) = <<au>>
        BY AuIs, Zenon
      <3>3. Len(au.data) \in Nat /\ Len(au.data) <= Len(s)
        <4> HIDE DEF begin
        <4>1. /\ begin - 1 \in Nat /\ stop - begin \in Nat /\ Len(s) \in Nat
              /\ (begin - 1) + (stop - begin) = stop - 1 /\ (begin - 1) + 1 = begin
              /\ stop - 1 <= Len(s) /\ stop - begin <= Len(s)
          BY <3>1
        <4>2. Len(SubSeq(s, (begin - 1) + 1, (begin - 1) + (stop - begin))) = stop - begin
          BY <4>1, Piece, Zenon
        <4>3. au.data = SubSeq(s, begin, stop - 1)
          OBVIOUS
        <4> QED BY <4>1, <4>2, <4>3, Zenon
      <3>4. key \in BOOLEAN /\ au.key = key
        <4>1. key \in BOOLEAN
          BY Zenon DEF KeyBefore
        <4> HIDE DEF key
        <4> QED BY <4>1
      <3> HIDE DEF au, key, begin
      <3>5. pull_au(format, s, rd)
              = Answer("frame", <<Frame(SubSeq(s, 1, Len(au.data)), au.key)>>,
                       Drained(s, Len(au.data)), rd)
        <4>1. <<au>> # <<>> /\ <<au>>[1] = au
          OBVIOUS
        <4> QED BY <3>2, <4>1, Zenon DEF pull_au
      <3>6. Frame(SubSeq(s, 1, Len(au.data)), au.key) \in Frames
        BY <3>3, <3>4, CutTyped, Zenon
      <3> QED BY <2>0, <3>5, <3>6, FrameTyped, Zenon
    <2> QED BY <2>1, <2>2
  <1>2. CASE format = "ivf"
    <2> DEFINE len == 2 + s[1][2]
               payload == SubSeq(s, 3, len)
    <2>0. Pull(format, s, rd) = ivf_pull(s, rd)
      BY <1>2 DEF Pull
    <2>1. CASE ~rd.header_seen
      <3> DEFINE kept == [rd EXCEPT !.header_seen = TRUE]
      <3>1. kept \in Reader
        BY DEF Reader
      <3>2. \E st, left : \/ ivf_pull(s, rd) = Answer(st, <<>>, left, rd)
                          \/ ivf_pull(s, rd) = Answer(st, <<>>, left, kept)
        BY <2>1, Zenon DEF ivf_pull, NeedMore, Broken
      <3> HIDE DEF kept
      <3> QED BY <2>0, <3>1, <3>2, NoneTyped, Zenon
    <2>2. CASE rd.header_seen /\ (Len(s) < 2 \/ Len(s) < len)
      <3>1. ivf_pull(s, rd) = Answer("none", <<>>, s, rd)
        BY <2>2, Zenon DEF ivf_pull, NeedMore
      <3> QED BY <2>0, <3>1, NoneTyped, Zenon
    <2>3. CASE rd.header_seen /\ ~(Len(s) < 2 \/ Len(s) < len)
      <3>1. ivf_pull(s, rd)
              = Answer("frame", <<Frame(payload, is_keyframe(payload))>>, Drained(s, len), rd)
        BY <2>3, Zenon DEF ivf_pull
      <3>2. 2 \in Nat /\ len \in Nat /\ 2 <= len /\ len <= Len(s)
        <4>1. s[1] \in Byte
          BY <1>0, <2>3, ElementOfSeq
        <4>2. s[1][2] \in Nat
          BY <4>1 DEF Byte
        <4> QED BY <1>0, <2>3, <4>2
      <3>3. SubSeq(s, 2 + 1, len) \in Seq(Byte)
        <4> HIDE DEF len
        <4> QED BY <3>2, PieceTyped, Zenon
      <3>4. payload \in Seq(Byte)
        BY <3>3
      <3> HIDE DEF payload
      <3>5. is_keyframe(payload) \in BOOLEAN
        BY Zenon DEF is_keyframe
      <3>6. Frame(payload, is_keyframe(payload)) \in Frames
        BY <3>4, <3>5 DEF Frame, Frames
      <3> QED BY <2>0, <3>1, <3>6, FrameTyped, Zenon
    <2> QED BY <2>1, <2>2, <2>3
  <1>3. CASE format = "aac"
    <2> DEFINE len == s[2][2]
    <2>0. Pull(format, s, rd) = adts_next_frame(s, rd)
      BY <1>3 DEF Pull
    <2>1. CASE Len(s) < 2 \/ s[1][1] # "sync" \/ len < 2 \/ Len(s) < len
      <3>1. \E st, left : adts_next_frame(s, rd) = Answer(st, <<>>, left, rd)
        BY <2>1, Zenon DEF adts_next_frame, NeedMore, Broken
      <3> QED BY <2>0, <3>1, NoneTyped, Zenon
    <2>2. CASE ~(Len(s) < 2 \/ s[1][1] # "sync" \/ len < 2 \/ Len(s) < len)
      <3>1. adts_next_frame(s, rd)
              = Answer("frame", <<Frame(SubSeq(s, 1, len), FALSE)>>, Drained(s, len), rd)
        BY <2>2, Zenon DEF adts_next_frame
      <3>2. len \in Nat /\ len <= Len(s) /\ FALSE \in BOOLEAN
        <4>1. s[2] \in Byte
          BY <1>0, <2>2, ElementOfSeq
        <4>2. s[2][2] \in Nat
          BY <4>1 DEF Byte
        <4> QED BY <1>0, <2>2, <4>2
      <3> HIDE DEF len
      <3>3. Frame(SubSeq(s, 1, len), FALSE) \in Frames
        BY <3>2, CutTyped, Zenon
      <3> QED BY <2>0, <3>1, <3>3, FrameTyped, Zenon
    <2> QED BY <2>1, <2>2
  <1>4. CASE format = "opus"
    BY <1>4, OpusTyped DEF Pull
  <1>5. CASE format = "g711"
    <2>0. Pull(format, s, rd) = g711_next_frame(s, rd)
      BY <1>5 DEF Pull
    <2>1. CASE Len(s) < G711Need
      <3>1. g711_next_frame(s, rd) = Answer("none", <<>>, s, rd)
        BY <2>1, Zenon DEF g711_next_frame, NeedMore
      <3> QED BY <2>0, <3>1, NoneTyped, Zenon
    <2>2. CASE ~(Len(s) < G711Need)
      <3>1. g711_next_frame(s, rd)
              = Answer("frame", <<Frame(SubSeq(s, 1, G711Need), FALSE)>>, Drained(s, G711Need), rd)
        BY <2>2, Zenon DEF g711_next_frame
      <3>2. G711Need \in Nat /\ G711Need <= Len(s) /\ FALSE \in BOOLEAN
        BY <1>0, <2>2, ContainersAssumption
      <3>3. Frame(SubSeq(s, 1, G711Need), FALSE) \in Frames
        BY <3>2, CutTyped, Zenon
      <3> QED BY <2>0, <3>1, <3>3, FrameTyped, Zenon
    <2> QED BY <2>1, <2>2
  <1> QED BY <1>1, <1>2, <1>3, <1>4, <1>5 DEF Formats, Codecs

\* Inductive, with BufferInv: what is kept and what is pushed.
Typed == reader \in Reader /\ pushed \in Seq(Frames)

LEMMA TypedInit == Init => Typed
  <1>1. NewReader \in Reader
    BY DEF NewReader, Reader
  <1> QED BY <1>1 DEF Init, Typed

LEMMA TypedStep == BufferInv /\ Typed /\ [Next]_vars => Typed'
  <1> SUFFICES ASSUME BufferInv, Typed, [Next]_vars PROVE Typed'
    OBVIOUS
  <1>1. CASE Read
    BY <1>1 DEF Read, Typed
  <1>2. CASE Drain
    <2> DEFINE answer == Pull(source.format, buf, reader)
    <2>1. reader' = answer.reader /\ pushed' = pushed \o answer.frames
      BY <1>2 DEF Drain
    <2>2. source.format \in Formats /\ buf \in Seq(Byte)
      BY SourcesAre DEF BufferInv
    <2>3. GivesTyped(answer)
      BY <2>2, FramerTyped DEF Typed
    <2> HIDE DEF answer
    <2>4. answer.reader \in Reader /\ answer.frames \in Seq(Frames) /\ pushed \in Seq(Frames)
      BY <2>3 DEF GivesTyped, Typed
    <2>5. pushed \o answer.frames \in Seq(Frames)
      BY <2>4, ConcatProperties
    <2> QED BY <2>1, <2>4, <2>5 DEF Typed
  <1>3. CASE EndOfInput
    BY <1>3 DEF EndOfInput, Typed
  <1>4. CASE Respawn
    <2>1. NewReader \in Reader
      BY DEF NewReader, Reader
    <2> QED BY <1>4, <2>1 DEF Respawn, Typed
  <1>5. CASE UNCHANGED vars \/ Done
    BY <1>5 DEF vars, Done, Typed
  <1> QED BY <1>1, <1>2, <1>3, <1>4, <1>5 DEF Next

\* Of any streams, whether they are well made or not: what the pump holds and what
\* it pushes are bytes of what it has read, never more, and whole frames.
THEOREM TypeCorrect == Spec => []TypeOK
  <1>1. Init => BufferInv /\ Typed
    BY BufferInit, TypedInit
  <1>2. BufferInv /\ Typed /\ [Next]_vars => BufferInv' /\ Typed'
    BY BufferStep, TypedStep
  <1>3. BufferInv /\ Typed => TypeOK
    BY SourcesAre DEF BufferInv, Typed, TypeOK
  <1> QED BY <1>1, <1>2, <1>3, PTL DEF Spec

-----------------------------------------------------------------------------
(* What is pushed *)

\* No stage begins with bytes that may be dropped.
SkipsNothing(s, T) ==
  \A stage \in T : \A n \in 0 .. Len(stage[1]) :
    Skippable(s.format, stage[1], n) =>
      <<Drained(stage[1], n), stage[2], stage[3]>> = stage

\* A stream that the framer which has all of it takes apart rightly, in stages of
\* whatever kind.
Right(s) == /\ s.bytes # <<>>
            /\ \A k \in 1 .. Len(s.known) : s.known[k] \in Nat \ {0}
            /\ \E T : RightStages(s, T) /\ SkipsNothing(s, T)

StagesOf(s) == CHOOSE T : RightStages(s, T)

\* Inductive: where the pump is, it would have come with the whole stream.
Staged == /\ IsPrefix(pushed, source.frames)
          /\ pc \notin {"ended", "failed"} =>
               <<buf \o Unread, reader, pushed>> \in StagesOf(source)

\* What Right says of a stream's stages, turn by turn.
LEMMA RightMeans ==
  ASSUME NEW s, Right(s)
  PROVE  /\ <<s.bytes, NewReader, <<>>>> \in StagesOf(s)
         /\ IsPrefix(<<>>, s.frames)
         /\ \A stage \in StagesOf(s) :
              /\ IsPrefix(stage[3], s.frames)
              /\ IsPrefix(stage[3] \o Pull(s.format, stage[1], stage[2]).frames, s.frames)
              /\ Turned(stage, Pull(s.format, stage[1], stage[2])) \in StagesOf(s)
              /\ LeavesTheTail(s, stage, Pull(s.format, stage[1], stage[2]))
              /\ \A n \in 0 .. Len(stage[1]) :
                   /\ RightSkip(s, StagesOf(s), stage, n)
                   /\ NothingWaits(s, stage, n,
                                   Pull(s.format, SubSeq(stage[1], 1, n), stage[2]))
  <1>1. RightStages(s, StagesOf(s))
    BY Zenon DEF Right, StagesOf
  <1>2. Start(s) \in StagesOf(s)
    BY <1>1, Zenon DEF RightStages
  <1>3. ASSUME NEW stage \in StagesOf(s)
        PROVE  /\ RightTurn(s, StagesOf(s), stage, Pull(s.format, stage[1], stage[2]))
               /\ LeavesTheTail(s, stage, Pull(s.format, stage[1], stage[2]))
               /\ \A n \in 0 .. Len(stage[1]) :
                    /\ RightSkip(s, StagesOf(s), stage, n)
                    /\ NothingWaits(s, stage, n,
                                    Pull(s.format, SubSeq(stage[1], 1, n), stage[2]))
    BY <1>1, <1>3, Zenon DEF RightStages
  <1>4. ASSUME NEW stage \in StagesOf(s)
        PROVE  /\ IsPrefix(stage[3], s.frames)
               /\ IsPrefix(stage[3] \o Pull(s.format, stage[1], stage[2]).frames, s.frames)
               /\ Turned(stage, Pull(s.format, stage[1], stage[2])) \in StagesOf(s)
    BY <1>3, Zenon DEF RightTurn
  <1>5. IsPrefix(<<>>, s.frames)
    <2>1. Start(s)[3] = <<>>
      BY DEF Start
    <2> QED BY <1>2, <1>4, <2>1, Zenon
  <1>6. <<s.bytes, NewReader, <<>>>> \in StagesOf(s)
    BY <1>2, Zenon DEF Start
  <1> QED BY <1>3, <1>4, <1>5, <1>6, Zenon

LEMMA StagedInit == Init /\ (\A s \in Sources : Right(s)) => Staged
  <1> SUFFICES ASSUME Init, \A s \in Sources : Right(s) PROVE Staged
    OBVIOUS
  <1>1. Right(source) /\ reader = NewReader /\ pushed = <<>>
    BY DEF Init
  <1>2. buf \o Unread = source.bytes
    BY WholeInit, Zenon DEF Whole!Init
  <1>3. <<buf \o Unread, reader, pushed>> \in StagesOf(source)
    BY <1>1, <1>2, RightMeans, Zenon
  <1>4. IsPrefix(pushed, source.frames)
    BY <1>1, RightMeans, Zenon
  <1> QED BY <1>3, <1>4 DEF Staged

\* The pump that has the whole stream before it stays within the stages.
LEMMA StagedStep ==
  Staged /\ Right(source) /\ [Whole!Next]_(Whole!wholeVars) => Staged'
  <1> SUFFICES ASSUME Staged, Right(source), [Whole!Next]_(Whole!wholeVars)
               PROVE  Staged'
    OBVIOUS
  <1> DEFINE rest  == buf \o Unread
             over  == pc \in {"ended", "failed"}
             stage == <<rest, reader, pushed>>
  <1>1. /\ IsPrefix(pushed, source.frames)
        /\ ~over => stage \in StagesOf(source)
    BY DEF Staged
  <1>2. /\ stage[1] = rest /\ stage[2] = reader /\ stage[3] = pushed
    OBVIOUS
  <1>3. ASSUME ~over
        PROVE  /\ IsPrefix(pushed \o Pull(source.format, rest, reader).frames, source.frames)
               /\ Pull(source.format, rest, reader).status # "error" =>
                    <<Pull(source.format, rest, reader).rest,
                      Pull(source.format, rest, reader).reader,
                      pushed \o Pull(source.format, rest, reader).frames>> \in StagesOf(source)
               /\ \A n \in 0 .. Len(rest) :
                    Skippable(source.format, rest, n) =>
                      <<Drained(rest, n), reader, pushed>> \in StagesOf(source)
    <2>1. stage \in StagesOf(source)
      BY <1>1, <1>3
    <2> HIDE DEF stage
    <2> DEFINE answer == Pull(source.format, rest, reader)
    <2>2. /\ IsPrefix(pushed \o answer.frames, source.frames)
          /\ Turned(stage, answer) \in StagesOf(source)
          /\ \A n \in 0 .. Len(rest) : RightSkip(source, StagesOf(source), stage, n)
      BY <1>2, <2>1, RightMeans, Zenon
    <2> HIDE DEF answer
    <2>3. answer.status # "error" =>
            Turned(stage, answer) = <<answer.rest, answer.reader, pushed \o answer.frames>>
      BY <1>2, Zenon DEF Turned
    <2>4. \A n \in 0 .. Len(rest) :
            Skippable(source.format, rest, n) =>
              <<Drained(rest, n), reader, pushed>> \in StagesOf(source)
      BY <1>2, <2>2, Zenon DEF RightSkip
    <2>5. answer.status # "error" =>
            <<answer.rest, answer.reader, pushed \o answer.frames>> \in StagesOf(source)
      BY <2>2, <2>3, Zenon
    <2> QED BY <2>2, <2>4, <2>5, Zenon DEF answer
  <1> SUFFICES ASSUME Whole!Next \/ UNCHANGED Whole!wholeVars
               PROVE  /\ IsPrefix(pushed', source'.frames)
                      /\ ~over' => <<rest', reader', pushed'>> \in StagesOf(source')
    <2>1. Staged' = (/\ IsPrefix(pushed', source'.frames)
                     /\ ~over' => <<rest', reader', pushed'>> \in StagesOf(source'))
      BY Zenon DEF Staged
    <2> QED BY <2>1, Zenon
  <1>4. CASE Whole!Turn
    <2> DEFINE answer == Pull(source.format, rest, reader)
    <2>1. /\ ~over /\ rest' = answer.rest /\ reader' = answer.reader
          /\ pushed' = pushed \o answer.frames /\ over' = (answer.status = "error")
          /\ source' = source
      BY <1>4, Zenon DEF Whole!Turn
    <2> HIDE DEF rest, over
    <2> QED BY <1>3, <2>1, Zenon
  <1>5. CASE Whole!Skip
    <2>1. PICK n \in 0 .. Len(rest) : /\ Skippable(source.format, rest, n)
                                      /\ rest' = Drained(rest, n)
      BY <1>5, Zenon DEF Whole!Skip, Drained
    <2>2. ~over /\ UNCHANGED <<source, reader, pushed>>
      BY <1>5, Zenon DEF Whole!Skip
    <2> HIDE DEF rest, over
    <2>3. <<Drained(rest, n), reader, pushed>> \in StagesOf(source)
      BY <1>3, <2>1, <2>2, Zenon
    <2>4. source' = source /\ reader' = reader /\ pushed' = pushed
      BY <2>2
    <2> QED BY <1>1, <2>1, <2>3, <2>4, Zenon
  <1>6. CASE Whole!End
    <2>1. over' /\ source' = source /\ pushed' = pushed
      BY <1>6 DEF Whole!End
    <2> HIDE DEF rest, over
    <2> QED BY <1>1, <2>1, Zenon
  <1>7. CASE Whole!Restart
    <2>1. /\ rest' = source.bytes /\ reader' = NewReader /\ pushed' = <<>>
          /\ source' = source
      BY <1>7, Zenon DEF Whole!Restart
    <2>2. <<source.bytes, NewReader, <<>>>> \in StagesOf(source)
      BY RightMeans, Zenon
    <2>3. IsPrefix(<<>>, source.frames)
      BY RightMeans, Zenon
    <2> HIDE DEF rest, over
    <2> QED BY <2>1, <2>2, <2>3, Zenon
  <1>8. CASE UNCHANGED Whole!wholeVars
    <2>1. /\ rest' = rest /\ reader' = reader /\ pushed' = pushed /\ source' = source
          /\ over' = over
      BY <1>8, Zenon DEF Whole!wholeVars
    <2> HIDE DEF rest, over
    <2> QED BY <1>1, <2>1, Zenon
  <1> QED BY <1>4, <1>5, <1>6, <1>7, <1>8, Zenon DEF Whole!Next

\* A frame that is told complete was pushed, or the next drain pushes it.
LEMMA NoneHeldBack ==
  /\ BufferInv /\ Staged /\ NothingHeldBack /\ Right(source) /\ [Next]_vars
  => NothingHeldBack'
  <1> SUFFICES ASSUME BufferInv, Staged, NothingHeldBack, Right(source), [Next]_vars
               PROVE  NothingHeldBack'
    OBVIOUS
  <1>1. /\ source.bytes \in Seq(Byte) /\ Len(source.bytes) \in Nat
        /\ buf \in Seq(Byte) /\ Len(buf) \in Nat /\ at \in Nat /\ at <= Len(source.bytes)
    BY SourcesAre DEF BufferInv
  <1>2. CASE Read
    BY <1>2 DEF Read, NothingHeldBack
  <1>3. CASE Drain
    <2> DEFINE answer == Pull(source.format, buf, reader)
               stage  == <<buf \o Unread, reader, pushed>>
    <2>1. /\ pc = "drain" /\ source' = source /\ at' = at
          /\ pushed' = pushed \o answer.frames
          /\ pc' # "drain" => answer.status \in {"none", "error"}
      BY <1>3 DEF Drain
    <2>2. /\ Unread \in Seq(Byte) /\ Len(Unread) = Len(source.bytes) - at
          /\ Len(Unread) \in Nat
      <3>1. Unread = Drained(source.bytes, at)
        BY DEF Unread, Drained
      <3>2. Unread \in Seq(Byte) /\ Len(Unread) = Len(source.bytes) - at
        BY <1>1, <3>1, DrainedKept, Zenon
      <3> QED BY <1>1, <3>2
    <2>3. /\ Len(buf \o Unread) = Len(buf) + (Len(source.bytes) - at)
          /\ SubSeq(buf \o Unread, 1, Len(buf)) = buf
      <3>1. Len(buf \o Unread) = Len(buf) + Len(Unread)
        BY <1>1, <2>2, Appended, Zenon
      <3>2. SubSeq(buf \o Unread, 1, Len(buf)) = SubSeq(buf, 1, Len(buf))
        <4>1. Len(buf) <= Len(buf)
          BY <1>1
        <4> QED BY <1>1, <2>2, <4>1, HeadKept, Zenon
      <3>3. SubSeq(buf, 1, Len(buf)) = buf
        BY <1>1
      <3> QED BY <2>2, <3>1, <3>2, <3>3
    <2>4. stage \in StagesOf(source) /\ stage[1] = buf \o Unread /\ stage[2] = reader
          /\ stage[3] = pushed
      BY <2>1 DEF Staged
    <2> HIDE DEF stage
    <2>5. Len(buf) \in 0 .. Len(stage[1])
      BY <1>1, <2>3, <2>4
    <2>6. NothingWaits(source, stage, Len(buf), answer)
      <3>1. NothingWaits(source, stage, Len(buf),
                         Pull(source.format, SubSeq(stage[1], 1, Len(buf)), stage[2]))
        BY <2>4, <2>5, RightMeans, Zenon
      <3> QED BY <2>3, <2>4, <3>1, Zenon
    <2>7. Len(source.bytes) - Len(stage[1]) + Len(buf) = at
      BY <1>1, <2>3, <2>4
    <2>8. answer.status \in {"none", "error"} =>
            \A k \in 1 .. Len(source.known) :
              source.known[k] <= at => k <= Len(pushed \o answer.frames)
      BY <2>4, <2>6, <2>7, Zenon DEF NothingWaits
    <2> HIDE DEF answer
    <2> QED BY <2>1, <2>8, Zenon DEF NothingHeldBack
  <1>4. CASE EndOfInput
    BY <1>4 DEF EndOfInput, NothingHeldBack
  <1>5. CASE Respawn
    <2>1. \A k \in 1 .. Len(source.known) : source.known[k] \in Nat \ {0}
      BY Zenon DEF Right
    <2>2. at' = 0 /\ source' = source
      BY <1>5 DEF Respawn
    <2> QED BY <2>1, <2>2 DEF NothingHeldBack
  <1>6. CASE UNCHANGED vars \/ Done
    BY <1>6 DEF vars, Done, NothingHeldBack
  <1> QED BY <1>2, <1>3, <1>4, <1>5, <1>6 DEF Next

\* Inductive: what a pump that has read all of a stream of access units keeps.
TailKept ==
  pc \in {"read", "ended"} /\ at = Len(source.bytes) /\ source.format \in {"h264", "hevc"} =>
    pushed \o next_au(source.format, buf, TRUE) = source.frames

LEMMA TailStep ==
  /\ BufferInv /\ Staged /\ TailKept /\ Right(source) /\ [Next]_vars => TailKept'
  <1> SUFFICES ASSUME BufferInv, Staged, TailKept, Right(source), [Next]_vars
               PROVE  TailKept'
    OBVIOUS
  <1>1. /\ source.bytes \in Seq(Byte) /\ Len(source.bytes) \in Nat /\ source.format \in Formats
        /\ buf \in Seq(Byte) /\ Len(buf) \in Nat /\ at \in Nat /\ at <= Len(source.bytes)
    BY SourcesAre DEF BufferInv
  <1>2. CASE Read
    BY <1>2 DEF Read, TailKept
  <1>3. CASE Drain
    <2> DEFINE answer == Pull(source.format, buf, reader)
               stage  == <<buf \o Unread, reader, pushed>>
    <2>1. /\ pc = "drain" /\ source' = source /\ at' = at
          /\ buf' = answer.rest /\ pushed' = pushed \o answer.frames
          /\ pc' \in {"read", "ended"} => answer.status = "none"
      BY <1>3 DEF Drain
    <2>2. stage \in StagesOf(source) /\ stage[1] = buf \o Unread /\ stage[2] = reader
          /\ stage[3] = pushed
      BY <2>1 DEF Staged
    <2> HIDE DEF stage
    <2>3. LeavesTheTail(source, stage, Pull(source.format, stage[1], stage[2]))
      BY <2>2, RightMeans, Zenon
    <2> SUFFICES ASSUME pc' \in {"read", "ended"}, at' = Len(source'.bytes),
                        source'.format \in {"h264", "hevc"}
                 PROVE  pushed' \o next_au(source'.format, buf', TRUE) = source'.frames
      BY DEF TailKept
    <2>4. buf \o Unread = buf
      <3>1. Unread = <<>>
        BY <1>1, <2>1 DEF Unread
      <3> QED BY <1>1, <3>1, ConcatEmptySeq
    <2>5. answer.status = "none" /\ source.format \in {"h264", "hevc"}
      BY <2>1
    <2>6. answer.rest = buf /\ answer.frames = <<>>
      <3>1. Waits(answer, buf, reader) \/ source.format = "opus"
        BY <1>1, FramerStands, Zenon
      <3> HIDE DEF answer
      <3> QED BY <2>5, <3>1 DEF Waits
    <2> HIDE DEF answer
    <2>7. pushed \o answer.frames \o next_au(source.format, buf, TRUE) = source.frames
      <3>1. stage[1] = buf
        BY <2>2, <2>4, Zenon
      <3>2. Pull(source.format, stage[1], stage[2]).status = "none"
        BY <2>2, <2>5, <3>1, Zenon DEF answer
      <3>3. /\ stage[3] \o Pull(source.format, stage[1], stage[2]).frames
                 \o next_au(source.format, stage[1], TRUE) = source.frames
        BY <2>3, <2>5, <3>2, Zenon DEF LeavesTheTail
      <3> QED BY <2>2, <3>1, <3>3, Zenon DEF answer
    <2> QED BY <2>1, <2>6, <2>7
  <1>4. CASE EndOfInput
    BY <1>4 DEF EndOfInput, TailKept
  <1>5. CASE Respawn
    <2>1. at' = 0 /\ source' = source /\ source.bytes # <<>>
      BY <1>5, Zenon DEF Respawn, Right
    <2>2. Len(source.bytes) # 0
      BY <1>1, <2>1, EmptySeq
    <2> QED BY <2>1, <2>2 DEF TailKept
  <1>6. CASE UNCHANGED vars \/ Done
    BY <1>6 DEF vars, Done, TailKept
  <1> QED BY <1>2, <1>3, <1>4, <1>5, <1>6 DEF Next

-----------------------------------------------------------------------------
(* Streams as they are muxed: the bytes from one place to another *)

LEMMA BetweenIs ==
  ASSUME NEW b \in Seq(Byte), NEW i \in Nat, NEW j \in Nat, i <= j, j <= Len(b)
  PROVE  /\ Between(b, i, j) \in Seq(Byte) /\ Len(Between(b, i, j)) = j - i
         /\ \A x \in 1 .. j - i : Between(b, i, j)[x] = b[i + x]
  <1> DEFINE k == j - i
  <1>1. k \in Nat /\ i + k = j /\ i + k <= Len(b)
    OBVIOUS
  <1> HIDE DEF k
  <1>2. /\ SubSeq(b, i + 1, i + k) \in Seq(Byte) /\ Len(SubSeq(b, i + 1, i + k)) = k
        /\ \A x \in 1 .. k : SubSeq(b, i + 1, i + k)[x] = b[i + x]
    BY <1>1, Piece, Zenon
  <1> QED BY <1>1, <1>2, Zenon DEF Between, k

\* The bytes before a place and those behind it.
LEMMA BetweenSplit ==
  ASSUME NEW b \in Seq(Byte), NEW i \in Nat, NEW e \in Nat, NEW j \in Nat,
         i <= e, e <= j, j <= Len(b)
  PROVE  Between(b, i, j) = Between(b, i, e) \o Between(b, e, j)
  <1> DEFINE l == Between(b, i, e)
             r == Between(b, e, j)
             w == Between(b, i, j)
  <1>1. i <= j /\ e <= Len(b) /\ Len(b) \in Nat
    OBVIOUS
  <1>2. l \in Seq(Byte) /\ Len(l) = e - i /\ \A x \in 1 .. e - i : l[x] = b[i + x]
    BY <1>1, BetweenIs, Zenon
  <1>3. r \in Seq(Byte) /\ Len(r) = j - e /\ \A x \in 1 .. j - e : r[x] = b[e + x]
    BY <1>1, BetweenIs, Zenon
  <1>4. w \in Seq(Byte) /\ Len(w) = j - i /\ \A x \in 1 .. j - i : w[x] = b[i + x]
    BY <1>1, BetweenIs, Zenon
  <1> HIDE DEF l, r, w
  <1>5. /\ l \o r \in Seq(Byte) /\ Len(l \o r) = Len(l) + Len(r)
        /\ \A x \in 1 .. Len(l) : (l \o r)[x] = l[x]
        /\ \A x \in 1 .. Len(r) : (l \o r)[Len(l) + x] = r[x]
    BY <1>2, <1>3, Appended, Zenon
  <1>6. Len(l \o r) = j - i
    BY <1>2, <1>3, <1>5
  <1>7. ASSUME NEW x \in 1 .. j - i PROVE w[x] = (l \o r)[x]
    <2>1. CASE x <= e - i
      <3>1. x \in 1 .. e - i
        BY <2>1
      <3> QED BY <1>2, <1>4, <1>5, <3>1
    <2>2. CASE ~(x <= e - i)
      <3>1. PICK y \in 1 .. j - e : x = (e - i) + y /\ i + x = e + y
        <4>1. x - (e - i) \in 1 .. j - e /\ x = (e - i) + (x - (e - i))
              /\ i + x = e + (x - (e - i))
          BY <2>2
        <4> QED BY <4>1
      <3>2. (l \o r)[x] = r[y]
        BY <1>2, <1>3, <1>5, <3>1
      <3> QED BY <1>3, <1>4, <3>1, <3>2
    <2> QED BY <2>1, <2>2
  <1>8. w = l \o r
    BY <1>4, <1>5, <1>6, <1>7, SeqEqual
  <1> QED BY <1>8 DEF w, l, r

\* Bytes of bytes.
LEMMA BetweenOf ==
  ASSUME NEW b \in Seq(Byte), NEW i \in Nat, NEW j \in Nat, i <= j, j <= Len(b),
         NEW x \in Nat, NEW y \in Nat, x <= y, y <= j - i
  PROVE  Between(Between(b, i, j), x, y) = Between(b, i + x, i + y)
  <1> DEFINE w == Between(b, i, j)
             l == Between(w, x, y)
             r == Between(b, i + x, i + y)
  <1>1. w \in Seq(Byte) /\ Len(w) = j - i /\ \A z \in 1 .. j - i : w[z] = b[i + z]
    BY BetweenIs, Zenon
  <1> HIDE DEF w
  <1>2. l \in Seq(Byte) /\ Len(l) = y - x /\ \A z \in 1 .. y - x : l[z] = w[x + z]
    BY <1>1, BetweenIs, Zenon
  <1>3. /\ i + x \in Nat /\ i + y \in Nat /\ i + x <= i + y /\ i + y <= Len(b)
        /\ (i + y) - (i + x) = y - x
    OBVIOUS
  <1>4. r \in Seq(Byte) /\ Len(r) = y - x /\ \A z \in 1 .. y - x : r[z] = b[(i + x) + z]
    <2>1. /\ r \in Seq(Byte) /\ Len(r) = (i + y) - (i + x)
          /\ \A z \in 1 .. (i + y) - (i + x) : r[z] = b[(i + x) + z]
      BY <1>3, BetweenIs, Zenon
    <2> QED BY <1>3, <2>1, Zenon
  <1> HIDE DEF l, r
  <1>5. ASSUME NEW z \in 1 .. y - x PROVE l[z] = r[z]
    <2>1. x + z \in 1 .. j - i /\ i + (x + z) = (i + x) + z
      OBVIOUS
    <2>2. w[x + z] = b[(i + x) + z]
      BY <1>1, <2>1
    <2> QED BY <1>2, <1>4, <2>2
  <1>6. l = r
    BY <1>2, <1>4, <1>5, SeqEqual
  <1> QED BY <1>6 DEF l, r, w

\* The same for what a buffer begins and ends with.
LEMMA BetweenEnds ==
  ASSUME NEW b \in Seq(Byte), NEW i \in Nat, i <= Len(b)
  PROVE  /\ Drained(b, i) = Between(b, i, Len(b))
         /\ Between(b, i, Len(b)) \in Seq(Byte) /\ Len(Between(b, i, Len(b))) = Len(b) - i
         /\ \A n \in 0 .. Len(b) - i :
              /\ SubSeq(Drained(b, i), 1, n) = Between(b, i, i + n)
              /\ Drained(Drained(b, i), n) = Drained(b, i + n)
  <1> DEFINE l == Len(b)
             w == Between(b, i, l)
  <1>1. l \in Nat /\ i <= l /\ l <= Len(b)
    OBVIOUS
  <1>2. Drained(b, i) = w
    BY DEF Drained, Between
  <1>3. w \in Seq(Byte) /\ Len(w) = l - i
    BY <1>1, BetweenIs, Zenon
  <1> HIDE DEF l
  <1>4. ASSUME NEW x \in Nat, NEW y \in Nat, x <= y, y <= l - i
        PROVE  Between(w, x, y) = Between(b, i + x, i + y)
    BY <1>1, <1>4, BetweenOf
  <1>5. ASSUME NEW n \in 0 .. l - i
        PROVE  SubSeq(w, 1, n) = Between(b, i, i + n) /\ Drained(w, n) = Drained(b, i + n)
    <2>1. /\ n \in Nat /\ 0 \in Nat /\ 0 <= n /\ n <= l - i /\ i + 0 = i /\ 0 + 1 = 1
          /\ l - i \in Nat /\ l - i <= l - i /\ i + (l - i) = l
      BY <1>1
    <2> HIDE DEF w
    <2>2. Between(w, 0, n) = Between(b, i + 0, i + n)
      BY <1>4, <2>1, Zenon
    <2>3. Between(w, n, l - i) = Between(b, i + n, i + (l - i))
      BY <1>4, <2>1, Zenon
    <2>4. SubSeq(w, 1, n) = Between(w, 0, n)
      BY <2>1, Zenon DEF Between
    <2>5. Drained(w, n) = Between(w, n, l - i)
      BY <1>3, Zenon DEF Between, Drained
    <2>6. Drained(b, i + n) = Between(b, i + n, l)
      BY Zenon DEF Between, Drained, l
    <2> QED BY <2>1, <2>2, <2>3, <2>4, <2>5, <2>6, Zenon
  <1> QED BY <1>2, <1>3, <1>5, Zenon DEF l

\* The first n of a sequence.
LEMMA Firsts ==
  ASSUME NEW S, NEW q \in Seq(S), NEW n \in Nat, n <= Len(q)
  PROVE  /\ SubSeq(q, 1, n) \in Seq(S) /\ Len(SubSeq(q, 1, n)) = n
         /\ IsPrefix(SubSeq(q, 1, n), q)
         /\ n + 1 <= Len(q) => SubSeq(q, 1, n) \o <<q[n + 1]>> = SubSeq(q, 1, n + 1)
  <1>1. ASSUME NEW m \in Nat, m <= Len(q)
        PROVE  /\ SubSeq(q, 1, m) \in Seq(S) /\ Len(SubSeq(q, 1, m)) = m
               /\ \A i \in 1 .. m : SubSeq(q, 1, m)[i] = q[i]
    <2>1. \A i \in 1 .. m : q[i] \in S
      BY <1>1, ElementOfSeq
    <2> QED BY <1>1, <2>1
  <1> DEFINE w == SubSeq(q, 1, n)
  <1>2. w \in Seq(S) /\ Len(w) = n /\ \A i \in 1 .. n : w[i] = q[i]
    BY <1>1, Zenon
  <1> HIDE DEF w
  <1>3. IsPrefix(w, q)
    <2>1. SubSeq(w, 1, n) = w
      BY <1>2
    <2> QED BY <1>2, <2>1, Zenon DEF IsPrefix, w
  <1>4. ASSUME n + 1 <= Len(q) PROVE w \o <<q[n + 1]>> = SubSeq(q, 1, n + 1)
    <2> DEFINE l == w \o <<q[n + 1]>>
               r == SubSeq(q, 1, n + 1)
               m == n + 1
    <2>1. q[m] \in S /\ m \in Nat /\ m <= Len(q) /\ m \in 1 .. m /\ n \in Nat
      <3>1. m \in 1 .. Len(q)
        BY <1>4
      <3> QED BY <1>4, <3>1, ElementOfSeq
    <2>2. r \in Seq(S) /\ Len(r) = m /\ \A i \in 1 .. m : r[i] = q[i]
      BY <1>1, <2>1, Zenon
    <2> HIDE DEF r
    <2>3. l \in Seq(S) /\ Len(l) = m /\ (\A i \in 1 .. n : l[i] = w[i]) /\ l[m] = q[m]
      BY <1>2, <2>1
    <2> HIDE DEF l
    <2>4. ASSUME NEW i \in 1 .. m PROVE l[i] = r[i]
      <3>1. i = m \/ i \in 1 .. n
        BY <2>1
      <3> QED BY <1>2, <2>1, <2>2, <2>3, <3>1
    <2>5. l = r
      BY <2>2, <2>3, <2>4, SeqEqual
    <2> QED BY <2>5 DEF l, r
  <1> QED BY <1>2, <1>3, <1>4 DEF w

\* Where a pump is that has the whole stream before it and has pushed all frames
\* before frame k.
StageAt(s, rd, k) == <<Drained(s.bytes, s.cuts[k]), rd, SubSeq(s.frames, 1, k - 1)>>

\* The framer takes every frame off as soon as it is told complete, and then has
\* what follows it before it.
Unfolds(s, rd) ==
  /\ Len(s.known) <= Len(s.frames)
  /\ \A k \in 1 .. Len(s.known) :
       /\ s.cuts[k + 1] <= s.known[k] /\ s.known[k] <= Len(s.bytes)
       /\ Pull(s.format, Between(s.bytes, s.cuts[k], s.known[k]), rd)
            = Answer("frame", <<s.frames[k]>>, Between(s.bytes, s.cuts[k + 1], s.known[k]), rd)
  /\ LET rest == Drained(s.bytes, s.cuts[Len(s.known) + 1])
     IN  /\ Pull(s.format, rest, rd) = NeedMore(rest, rd)
         /\ s.format \in Codecs =>
              SubSeq(s.frames, 1, Len(s.known)) \o next_au(s.format, rest, TRUE) = s.frames

\* One frame lies behind the other.
InRow(s) == WellMade(s) /\ (WellPacked(s) \/ WellCut(s))

\* Its frames and places are what their names say.
LEMMA MadeIs ==
  ASSUME NEW s \in Sources, InRow(s)
  PROVE  /\ s.bytes \in Seq(Byte) /\ Len(s.bytes) \in Nat
         /\ s.frames \in Seq(Frames) /\ Len(s.frames) \in Nat /\ Len(s.known) \in Nat
         /\ s.format \in Formats \ {"opus"}
         /\ \A k \in 1 .. Len(s.known) : s.known[k] \in Nat \ {0}
         /\ \A j, k \in 1 .. Len(s.known) : j < k => s.known[j] < s.known[k]
         /\ \A k \in 1 .. Len(s.frames) + 1 : s.cuts[k] \in Nat /\ s.cuts[k] <= Len(s.bytes)
         /\ \A k \in 1 .. Len(s.frames) : s.cuts[k] < s.cuts[k + 1]
  <1>1. s.bytes \in Seq(Byte) /\ Len(s.bytes) \in Nat
    BY SourcesAre
  <1>2. s.format \in {"ivf", "aac", "g711"} \/ s.format \in {"h264", "hevc"}
    BY Zenon DEF InRow, WellPacked, WellCut
  <1>3. s.format \in Formats \ {"opus"}
    BY <1>2 DEF Formats
  <1>4. s.frames \in Seq(Frames) /\ s.known \in Seq(Nat \ {0})
    BY Zenon DEF InRow, WellMade
  <1>5. /\ \A j, k \in 1 .. Len(s.known) : j < k => s.known[j] < s.known[k]
        /\ \A k \in 1 .. Len(s.frames) : s.cuts[k] < s.cuts[k + 1]
        /\ s.cuts \in Seq(0 .. Len(s.bytes)) /\ Len(s.cuts) = Len(s.frames) + 1
    BY Zenon DEF InRow, WellMade, WellPacked, WellCut, InARow
  <1>6. \A k \in 1 .. Len(s.known) : s.known[k] \in Nat \ {0}
    BY <1>4, ElementOfSeq
  <1>7. \A k \in 1 .. Len(s.cuts) : s.cuts[k] \in 0 .. Len(s.bytes)
    BY <1>5, ElementOfSeq
  <1>8. \A k \in 1 .. Len(s.frames) + 1 : s.cuts[k] \in Nat /\ s.cuts[k] <= Len(s.bytes)
    BY <1>1, <1>5, <1>7
  <1>9. Len(s.frames) \in Nat /\ Len(s.known) \in Nat
    BY <1>4
  <1> QED BY <1>1, <1>3, <1>4, <1>5, <1>6, <1>8, <1>9

\* An answer is one frame, and the rest is left.
Yields(answer, frame, rest, rd) ==
  /\ answer.status = "frame" /\ answer.frames = <<frame>>
  /\ answer.rest = rest /\ answer.reader = rd

\* What a framer that has a frame told complete, and whatever else has come, does.
LEMMA Taken ==
  ASSUME NEW s \in Sources, InRow(s), NEW rd, Unfolds(s, rd), NEW k \in 1 .. Len(s.known),
         NEW j \in Nat, s.known[k] <= j, j <= Len(s.bytes)
  PROVE  Yields(Pull(s.format, Between(s.bytes, s.cuts[k], j), rd), s.frames[k],
                Between(s.bytes, s.cuts[k + 1], j), rd)
  <1> DEFINE b == s.bytes
             c == s.cuts[k]
             e == s.cuts[k + 1]
             t == s.known[k]
             told == Between(b, c, t)
             more == Between(b, t, j)
  <1>1. /\ b \in Seq(Byte) /\ Len(b) \in Nat /\ s.format \in Formats
        /\ c \in Nat /\ e \in Nat /\ t \in Nat /\ c < e /\ e <= t /\ t <= Len(b)
    <2>1. /\ b \in Seq(Byte) /\ Len(b) \in Nat /\ s.format \in Formats
          /\ Len(s.known) \in Nat /\ Len(s.frames) \in Nat
          /\ \A i \in 1 .. Len(s.known) : s.known[i] \in Nat \ {0}
          /\ \A i \in 1 .. Len(s.frames) + 1 : s.cuts[i] \in Nat
          /\ \A i \in 1 .. Len(s.frames) : s.cuts[i] < s.cuts[i + 1]
      BY MadeIs
    <2>2. Len(s.known) <= Len(s.frames) /\ e <= t /\ t <= Len(b)
      BY Zenon DEF Unfolds
    <2>3. k \in 1 .. Len(s.frames) /\ k \in 1 .. Len(s.frames) + 1 /\ k + 1 \in 1 .. Len(s.frames) + 1
      BY <2>1, <2>2
    <2> QED BY <2>1, <2>2, <2>3
  <1>2. Pull(s.format, told, rd) = Answer("frame", <<s.frames[k]>>, Between(b, e, t), rd)
    BY Zenon DEF Unfolds
  <1> HIDE DEF b, c, e, t
  <1>3. /\ c <= t /\ t <= j /\ j <= Len(b) /\ e <= t
    BY <1>1 DEF b, t
  <1>4. /\ Between(b, c, j) = told \o more
        /\ Between(b, e, j) = Between(b, e, t) \o more
    <2>1. ASSUME NEW i \in Nat, i <= t PROVE Between(b, i, j) = Between(b, i, t) \o more
      <3>1. b \in Seq(Byte) /\ t \in Nat /\ j \in Nat /\ i \in Nat /\ i <= t /\ t <= j /\ j <= Len(b)
        BY <1>1, <1>3, <2>1
      <3> QED BY <3>1, BetweenSplit
    <2>2. c \in Nat /\ e \in Nat /\ c <= t /\ e <= t
      BY <1>1, <1>3
    <2> QED BY <2>1, <2>2, Zenon
  <1>5. told \in Seq(Byte) /\ more \in Seq(Byte)
    <2>1. told \in Seq(Byte)
      BY <1>1, <1>3, BetweenIs
    <2>2. more \in Seq(Byte)
      BY <1>1, <1>3, BetweenIs
    <2> QED BY <2>1, <2>2
  <1> HIDE DEF told, more
  <1>6. Stands(Pull(s.format, told, rd), Pull(s.format, told \o more, rd), more)
    BY <1>1, <1>5, FramerStands, Zenon
  <1> DEFINE whole == Pull(s.format, told \o more, rd)
  <1>7. /\ whole.status = "frame" /\ whole.frames = <<s.frames[k]>> /\ whole.reader = rd
        /\ whole.rest = Between(b, e, t) \o more
    <2>1. /\ Pull(s.format, told, rd).status = "frame"
          /\ Pull(s.format, told, rd).frames = <<s.frames[k]>>
          /\ Pull(s.format, told, rd).reader = rd
          /\ Pull(s.format, told, rd).rest = Between(b, e, t)
      BY <1>2 DEF Answer
    <2>2. Pull(s.format, told, rd).status # "none"
      BY <2>1
    <2> HIDE DEF whole
    <2> QED BY <1>6, <2>1, <2>2, Zenon DEF Stands, whole
  <1> HIDE DEF whole
  <1> QED BY <1>4, <1>7, Zenon DEF Yields, b, c, e, whole

\* What RightStages asks of one stage.
RightStage(s, T, stage) ==
  /\ RightTurn(s, T, stage, Pull(s.format, stage[1], stage[2]))
  /\ LeavesTheTail(s, stage, Pull(s.format, stage[1], stage[2]))
  /\ \A n \in 0 .. Len(stage[1]) :
       /\ RightSkip(s, T, stage, n)
       /\ NothingWaits(s, stage, n, Pull(s.format, SubSeq(stage[1], 1, n), stage[2]))

\* At a stage the pump's next turn leads to the next stage, or to none.
LEMMA UnfoldsStage ==
  ASSUME NEW s \in Sources, InRow(s), NEW rd, Unfolds(s, rd), NEW T,
         \A k \in 1 .. Len(s.known) + 1 : StageAt(s, rd, k) \in T,
         NEW k \in 1 .. Len(s.known) + 1
  PROVE  RightStage(s, T, StageAt(s, rd, k))
  <1> DEFINE b == s.bytes
             c == s.cuts[k]
             rest == Drained(b, c)
             before == SubSeq(s.frames, 1, k - 1)
             stage == StageAt(s, rd, k)
             full == Len(b)
             part(n) == Pull(s.format, Between(b, c, c + n), rd)
             answer == Pull(s.format, rest, rd)
  <1>1. /\ b \in Seq(Byte) /\ full \in Nat /\ s.format \in Formats /\ s.format # "opus"
        /\ s.frames \in Seq(Frames) /\ Len(s.frames) \in Nat /\ Len(s.known) \in Nat
        /\ Len(s.known) <= Len(s.frames)
        /\ \A i \in 1 .. Len(s.known) : s.known[i] \in Nat \ {0}
    <2>1. Len(s.known) <= Len(s.frames)
      BY Zenon DEF Unfolds
    <2> QED BY <2>1, MadeIs
  <1>2. /\ c \in Nat /\ c <= full
    <2>1. k \in 1 .. Len(s.frames) + 1
      BY <1>1
    <2> QED BY <2>1, MadeIs
  <1>3. k - 1 \in Nat /\ k - 1 <= Len(s.frames) /\ k \in Nat
    BY <1>1
  <1>4. before \in Seq(Frames) /\ Len(before) = k - 1 /\ IsPrefix(before, s.frames)
    BY <1>1, <1>3, Firsts, Zenon
  <1>5. stage[1] = rest /\ stage[2] = rd /\ stage[3] = before
    BY DEF StageAt
  <1>6. /\ rest = Between(b, c, full) /\ rest \in Seq(Byte) /\ Len(rest) = full - c
        /\ \A n \in 0 .. full - c : SubSeq(rest, 1, n) = Between(b, c, c + n)
    BY <1>1, <1>2, BetweenEnds
  \* A prefix at which the framer does not wait says what the whole rest says.
  <1>7. ASSUME NEW n \in 0 .. full - c, part(n).status \in {"none", "error"}
        PROVE  \/ part(n).frames = <<>>
               \/ answer.status = "error"
    <2> DEFINE head == Between(b, c, c + n)
               tail == Between(b, c + n, full)
    <2>1. /\ c + n \in Nat /\ c <= c + n /\ c + n <= full /\ full <= Len(b)
      BY <1>1, <1>2
    <2>2. head \in Seq(Byte) /\ tail \in Seq(Byte)
      BY <1>1, <1>2, <2>1, BetweenIs, Zenon
    <2>3. Between(b, c, full) = head \o tail
      <3> HIDE DEF b, c, full, rest, part, answer, stage, before
      <3>1. ASSUME NEW m \in Nat, c <= m, m <= full
            PROVE  Between(b, c, full) = Between(b, c, m) \o Between(b, m, full)
        BY <1>1, <1>2, <2>1, <3>1, BetweenSplit
      <3> QED BY <2>1, <3>1, Zenon
    <2> HIDE DEF head, tail, rest, b
    <2>4. /\ Stands(Pull(s.format, head, rd), Pull(s.format, head \o tail, rd), tail)
          /\ Waits(Pull(s.format, head, rd), head, rd)
      BY <1>1, <2>2, FramerStands, Zenon
    <2>5. part(n) = Pull(s.format, head, rd) /\ answer = Pull(s.format, head \o tail, rd)
      BY <1>6, <2>3, Zenon DEF head
    <2> HIDE DEF part, answer
    <2> QED BY <1>7, <2>4, <2>5 DEF Stands, Waits
  <1> HIDE DEF stage, before, rest, c, b
  <1>8. ASSUME NEW n \in 0 .. Len(stage[1])
        PROVE  RightSkip(s, T, stage, n)
    BY <1>1 DEF RightSkip, Skippable
  <1> SUFFICES /\ RightTurn(s, T, stage, answer)
               /\ LeavesTheTail(s, stage, answer)
               /\ \A n \in 0 .. full - c : NothingWaits(s, stage, n, part(n))
    BY <1>5, <1>6, <1>8, Zenon DEF RightStage, stage
  <1>9. CASE k = Len(s.known) + 1
    <2>1. answer = NeedMore(rest, rd)
      BY <1>9, Zenon DEF Unfolds, rest, c, b
    <2>2. /\ answer.status = "none" /\ answer.frames = <<>> /\ answer.rest = rest
          /\ answer.reader = rd
      BY <2>1 DEF NeedMore, Answer
    <2>3. before \o answer.frames = before
      BY <1>4, <2>2
    <2>4. Turned(stage, answer) = stage
      <3>1. Turned(stage, answer) = <<rest, rd, before>>
        BY <1>5, <2>2, <2>3 DEF Turned
      <3> QED BY <3>1 DEF stage, StageAt, rest, before, c, b
    <2>5. RightTurn(s, T, stage, answer)
      <3>1. stage \in T
        BY Zenon DEF stage
      <3> QED BY <1>4, <1>5, <2>3, <2>4, <3>1, Zenon DEF RightTurn
    <2>6. LeavesTheTail(s, stage, answer)
      <3>1. s.format \in Codecs => before \o next_au(s.format, rest, TRUE) = s.frames
        <4>1. k - 1 = Len(s.known)
          BY <1>1, <1>9
        <4> QED BY <1>9, <4>1, Zenon DEF Unfolds, rest, before, c, b
      <3> QED BY <1>5, <2>3, <3>1, Zenon DEF LeavesTheTail, Codecs
    <2>7. ASSUME NEW n \in 0 .. full - c PROVE NothingWaits(s, stage, n, part(n))
      <3> SUFFICES ASSUME part(n).status \in {"none", "error"}, NEW i \in 1 .. Len(s.known)
                   PROVE  i <= Len(stage[3] \o part(n).frames)
        BY DEF NothingWaits
      <3>1. part(n).frames = <<>>
        <4>1. answer.status # "error"
          BY <2>2
        <4> QED BY <1>7, <4>1, Zenon
      <3>2. Len(before \o part(n).frames) = k - 1
        BY <1>4, <3>1
      <3> QED BY <1>1, <1>5, <1>9, <3>2
    <2> QED BY <2>5, <2>6, <2>7
  <1>10. CASE k \in 1 .. Len(s.known)
    <2> DEFINE t == s.known[k]
    <2>1. /\ t \in Nat /\ t <= full /\ k + 1 <= Len(s.known) + 1 /\ k + 1 \in 1 .. Len(s.known) + 1
      <3>1. t <= full
        BY <1>10, Zenon DEF Unfolds, b
      <3> QED BY <1>1, <1>10, <3>1
    <2> HIDE DEF t
    <2>2. /\ answer.status = "frame" /\ answer.frames = <<s.frames[k]>> /\ answer.reader = rd
          /\ answer.rest = Between(b, s.cuts[k + 1], full)
      <3>1. full <= Len(s.bytes) /\ s.known[k] <= full
        BY <1>1, <2>1 DEF b, t
      <3>2. Yields(Pull(s.format, Between(s.bytes, s.cuts[k], full), rd), s.frames[k],
                   Between(s.bytes, s.cuts[k + 1], full), rd)
        BY <1>1, <1>10, <3>1, Taken, Zenon
      <3> QED BY <1>6, <3>2, Zenon DEF Yields, b, c
    <2>3. before \o <<s.frames[k]>> = SubSeq(s.frames, 1, k)
      <3>1. (k - 1) + 1 = k /\ (k - 1) + 1 <= Len(s.frames)
        BY <1>1, <1>10
      <3>2. before \o <<s.frames[(k - 1) + 1]>> = SubSeq(s.frames, 1, (k - 1) + 1)
        BY <1>1, <1>3, <3>1, Firsts, Zenon DEF before
      <3> QED BY <3>1, <3>2, Zenon
    <2>4. RightTurn(s, T, stage, answer)
      <3>1. IsPrefix(SubSeq(s.frames, 1, k), s.frames)
        <4>1. k \in Nat /\ k <= Len(s.frames)
          BY <1>1, <1>10
        <4> QED BY <1>1, <4>1, Firsts, Zenon
      <3>2. answer.rest = Drained(b, s.cuts[k + 1])
        BY <2>2, Zenon DEF Drained, Between
      <3>3. Turned(stage, answer) = <<Drained(b, s.cuts[k + 1]), rd, SubSeq(s.frames, 1, k)>>
        <4>1. answer.status # "error"
          BY <2>2
        <4> QED BY <1>5, <2>2, <2>3, <3>2, <4>1, Zenon DEF Turned
      <3>4. StageAt(s, rd, k + 1) = <<Drained(b, s.cuts[k + 1]), rd, SubSeq(s.frames, 1, k)>>
        <4>1. (k + 1) - 1 = k
          BY <1>3
        <4> QED BY <4>1, Zenon DEF StageAt, b
      <3>5. StageAt(s, rd, k + 1) \in T
        BY <2>1, Zenon
      <3> QED BY <1>4, <1>5, <2>2, <2>3, <3>1, <3>3, <3>4, <3>5, Zenon DEF RightTurn
    <2>5. LeavesTheTail(s, stage, answer)
      BY <2>2 DEF LeavesTheTail
    <2>6. ASSUME NEW n \in 0 .. full - c PROVE NothingWaits(s, stage, n, part(n))
      <3> SUFFICES ASSUME part(n).status \in {"none", "error"}, NEW i \in 1 .. Len(s.known),
                          s.known[i] <= Len(s.bytes) - Len(stage[1]) + n
                   PROVE  i <= Len(stage[3] \o part(n).frames)
        BY DEF NothingWaits
      <3>1. part(n).frames = <<>>
        <4>1. answer.status # "error"
          BY <2>2
        <4> QED BY <1>7, <4>1, Zenon
      <3>2. Len(before \o part(n).frames) = k - 1
        BY <1>4, <3>1
      <3>3. Len(s.bytes) - Len(stage[1]) + n = c + n /\ c + n \in Nat /\ c + n <= full
        <4>1. Len(stage[1]) = full - c /\ Len(s.bytes) = full
          BY <1>5, <1>6, Zenon DEF b
        <4> HIDE DEF full, part, answer
        <4> QED BY <1>1, <1>2, <4>1
      <3>4. ~(t <= c + n)
        <4>1. SUFFICES ASSUME t <= c + n PROVE FALSE
          OBVIOUS
        <4>2. part(n).status = "frame"
          <5>1. c + n <= Len(s.bytes) /\ s.known[k] <= c + n
            BY <3>3, <4>1 DEF t, b
          <5>2. Yields(Pull(s.format, Between(s.bytes, s.cuts[k], c + n), rd), s.frames[k],
                       Between(s.bytes, s.cuts[k + 1], c + n), rd)
            BY <1>10, <3>3, <5>1, Taken, Zenon
          <5> QED BY <5>2, Zenon DEF Yields, b, c
        <4> QED BY <4>2
      <3>5. s.known[i] < t
        <4>1. s.known[i] \in Nat
          BY <1>1
        <4>2. s.known[i] <= c + n
          BY <3>3
        <4> QED BY <2>1, <3>3, <3>4, <4>1, <4>2
      <3>6. i < k
        <4>1. k < i => t < s.known[i]
          BY <1>10, MadeIs DEF t
        <4>2. i = k => s.known[i] = t
          BY DEF t
        <4> QED BY <1>1, <1>3, <2>1, <3>5, <4>1, <4>2
      <3> QED BY <1>3, <1>5, <3>2, <3>6
    <2> QED BY <2>4, <2>5, <2>6
  <1> QED BY <1>1, <1>9, <1>10

HeaderSeen == [NewReader EXCEPT !.header_seen = TRUE]

\* No framer but OpusDemux drops bytes unread, and none but IvfReader keeps a thing.
LEMMA UnfoldsRight ==
  ASSUME NEW s \in Sources, InRow(s), s.cuts[1] = 0, Unfolds(s, NewReader)
  PROVE  Right(s)
  <1> DEFINE T == {StageAt(s, NewReader, k) : k \in 1 .. Len(s.known) + 1}
  <1>1. \A k \in 1 .. Len(s.known) + 1 : StageAt(s, NewReader, k) \in T
    OBVIOUS
  <1>2. \A stage \in T : \E k \in 1 .. Len(s.known) + 1 : stage = StageAt(s, NewReader, k)
    OBVIOUS
  <1> HIDE DEF T
  <1>3. ASSUME NEW stage \in T PROVE RightStage(s, T, stage)
    BY <1>1, <1>2, UnfoldsStage, Zenon
  <1>4. Start(s) \in T
    <2>1. Drained(s.bytes, 0) = s.bytes
      <3>1. s.bytes \in Seq(Byte)
        BY MadeIs
      <3> QED BY <3>1 DEF Drained
    <2>2. SubSeq(s.frames, 1, 1 - 1) = <<>>
      BY MadeIs
    <2>3. 1 \in 1 .. Len(s.known) + 1
      BY MadeIs
    <2>4. StageAt(s, NewReader, 1) = Start(s)
      BY <2>1, <2>2, Zenon DEF StageAt, Start
    <2> QED BY <1>1, <2>3, <2>4, Zenon
  <1>5. RightStages(s, T)
    BY <1>3, <1>4, Zenon DEF RightStages, RightStage
  <1>6. \A k \in 1 .. Len(s.known) : s.known[k] \in Nat \ {0}
    BY MadeIs
  <1>7. SkipsNothing(s, T)
    <2>1. s.format # "opus"
      BY MadeIs
    <2> QED BY <2>1, Zenon DEF SkipsNothing, Skippable
  <1> QED BY <1>5, <1>6, <1>7, Zenon DEF Right, InRow, WellMade

\* IvfReader's first turn is the header's.
LEMMA IvfUnfoldsRight ==
  ASSUME NEW s \in Sources, InRow(s), s.format = "ivf", WellPacked(s),
         Unfolds(s, HeaderSeen)
  PROVE  Right(s)
  <1> DEFINE T == {StageAt(s, HeaderSeen, k) : k \in 1 .. Len(s.known) + 1} \cup {Start(s)}
             b == s.bytes
             h == hdr_len(b)
             answer == Pull(s.format, b, NewReader)
  <1>1. \A k \in 1 .. Len(s.known) + 1 : StageAt(s, HeaderSeen, k) \in T
    OBVIOUS
  <1>2. \A stage \in T : stage = Start(s) \/ \E k \in 1 .. Len(s.known) + 1 : stage = StageAt(s, HeaderSeen, k)
    OBVIOUS
  <1>3. Start(s) \in T
    OBVIOUS
  <1> HIDE DEF T
  <1>4. /\ b \in Seq(Byte) /\ Len(b) \in Nat /\ s.cuts[1] = h /\ b[1][1] = "DKIF"
        /\ h \in Nat /\ 2 <= h /\ h <= Len(b)
        /\ Len(s.known) \in Nat /\ Len(s.known) = Len(s.frames)
        /\ \A k \in 1 .. Len(s.known) : s.known[k] \in Nat /\ h < s.known[k]
    <2>1. s.cuts[1] = h /\ Len(b) >= 2 /\ b[1][1] = "DKIF" /\ Len(s.known) = Len(s.frames)
          /\ \A k \in 1 .. Len(s.frames) : s.known[k] = s.cuts[k + 1]
      BY Zenon DEF WellPacked
    <2>2. /\ b \in Seq(Byte) /\ Len(b) \in Nat /\ Len(s.known) \in Nat
          /\ \A k \in 1 .. Len(s.known) : s.known[k] \in Nat \ {0}
          /\ \A j, k \in 1 .. Len(s.known) : j < k => s.known[j] < s.known[k]
          /\ \A k \in 1 .. Len(s.frames) + 1 : s.cuts[k] \in Nat /\ s.cuts[k] <= Len(s.bytes)
          /\ \A k \in 1 .. Len(s.frames) : s.cuts[k] < s.cuts[k + 1]
      BY MadeIs
    <2>3. 1 \in 1 .. Len(s.frames) + 1 /\ s.cuts[1] <= Len(s.bytes)
      BY <2>1, <2>2
    <2>4. h \in Nat /\ 2 <= h
      <3>1. <<>> \in Seq(Byte)
        OBVIOUS
      <3> QED BY <2>1, <2>2, <3>1, FileHeaderKept, Zenon
    <2> HIDE DEF h
    <2>5. ASSUME NEW k \in 1 .. Len(s.known) PROVE h < s.known[k]
      <3>1. 1 \in 1 .. Len(s.known) /\ 1 \in 1 .. Len(s.frames)
        BY <2>1, <2>2
      <3>2. s.cuts[1] < s.cuts[1 + 1] /\ s.known[1] = s.cuts[1 + 1]
        BY <2>1, <2>2, <3>1
      <3>3. h < s.known[1] /\ s.known[1] \in Nat /\ s.known[k] \in Nat
        BY <2>1, <2>2, <3>1, <3>2
      <3>4. 1 < k => s.known[1] < s.known[k]
        BY <2>2, <3>1
      <3>5. k = 1 \/ 1 < k
        OBVIOUS
      <3> QED BY <2>4, <3>3, <3>4, <3>5
    <2> QED BY <2>1, <2>2, <2>3, <2>4, <2>5
  <1>5. ~NewReader.header_seen /\ HeaderSeen = [NewReader EXCEPT !.header_seen = TRUE]
    BY DEF NewReader, HeaderSeen
  <1>6. ASSUME NEW n \in 0 .. Len(b)
        PROVE  \/ n < h /\ Pull(s.format, SubSeq(b, 1, n), NewReader).status = "none"
               \/ ~(n < h) /\ Pull(s.format, SubSeq(b, 1, n), NewReader).status = "again"
    <2> DEFINE w == SubSeq(b, 1, n)
    <2>1. w \in Seq(Byte) /\ Len(w) = n /\ (2 <= n => w[1] = b[1] /\ w[2] = b[2])
      <3>1. n \in Nat /\ n <= Len(b) /\ 0 \in Nat /\ 0 + 1 = 1 /\ 0 + n = n /\ 0 + n <= Len(b)
        BY <1>4
      <3>2. /\ SubSeq(b, 0 + 1, 0 + n) \in Seq(Byte) /\ Len(SubSeq(b, 0 + 1, 0 + n)) = n
            /\ \A i \in 1 .. n : SubSeq(b, 0 + 1, 0 + n)[i] = b[0 + i]
        BY <1>4, <3>1, Piece, Zenon
      <3>3. \A i \in 1 .. n : w[i] = b[0 + i]
        BY <3>1, <3>2, Zenon
      <3>4. 2 <= n => w[1] = b[1] /\ w[2] = b[2]
        BY <3>1, <3>3
      <3> QED BY <3>1, <3>2, <3>4, Zenon
    <2> HIDE DEF w
    <2>2. SUFFICES \/ n < h /\ Pull(s.format, w, NewReader).status = "none"
                   \/ ~(n < h) /\ Pull(s.format, w, NewReader).status = "again"
      BY DEF w
    <2>3. Pull(s.format, w, NewReader) = ivf_pull(w, NewReader)
      BY DEF Pull
    <2>4. CASE Len(w) < 2
      <3>1. ivf_pull(w, NewReader) = Answer("none", <<>>, w, NewReader)
        BY <1>5, <2>4, Zenon DEF ivf_pull, NeedMore
      <3>2. n < h
        <4> HIDE DEF h
        <4> QED BY <1>4, <2>1, <2>4
      <3> QED BY <2>3, <3>1, <3>2 DEF Answer
    <2>5. ~(Len(w) < 2) => w[1][1] = "DKIF" /\ hdr_len(w) = h
      <3>1. ~(Len(w) < 2) => w[1] = b[1] /\ w[2] = b[2]
        BY <2>1
      <3> QED BY <1>4, <3>1, Zenon DEF hdr_len
    <2> HIDE DEF h
    <2>6. CASE ~(Len(w) < 2) /\ n < h
      <3>1. ivf_pull(w, NewReader) = Answer("none", <<>>, w, NewReader)
        BY <1>5, <2>1, <2>5, <2>6, Zenon DEF ivf_pull, NeedMore
      <3> QED BY <2>3, <2>6, <3>1 DEF Answer
    <2>7. CASE ~(Len(w) < 2) /\ ~(n < h)
      <3>1. ivf_pull(w, NewReader) = Answer("again", <<>>, Drained(w, h), HeaderSeen)
        BY <1>5, <2>1, <2>5, <2>7, Zenon DEF ivf_pull
      <3> QED BY <2>3, <2>7, <3>1 DEF Answer
    <2> QED BY <2>4, <2>6, <2>7
  <1>7. answer = Answer("again", <<>>, Drained(b, h), HeaderSeen)
    <2>1. answer = ivf_pull(b, NewReader)
      BY DEF Pull
    <2>2. ~(Len(b) < 2) /\ ~(Len(b) < h)
      <3> HIDE DEF h
      <3> QED BY <1>4
    <2> QED BY <1>4, <1>5, <2>1, <2>2, Zenon DEF ivf_pull
  <1> HIDE DEF h
  <1>8. Start(s)[1] = b /\ Start(s)[2] = NewReader /\ Start(s)[3] = <<>>
    BY DEF Start
  <1>9. RightStage(s, T, Start(s))
    <2>1. answer.status = "again" /\ answer.frames = <<>> /\ answer.rest = Drained(b, h)
          /\ answer.reader = HeaderSeen
      BY <1>7 DEF Answer
    <2> HIDE DEF answer
    <2>2. IsPrefix(<<>>, s.frames) /\ <<>> \o <<>> = <<>> /\ SubSeq(s.frames, 1, 0) = <<>>
      <3>1. s.frames \in Seq(Frames) /\ 0 <= Len(s.frames)
        BY MadeIs
      <3>2. SubSeq(s.frames, 1, 0) = <<>>
        BY <3>1
      <3>3. IsPrefix(SubSeq(s.frames, 1, 0), s.frames)
        BY <3>1, Firsts
      <3>4. IsPrefix(<<>>, s.frames)
        BY <3>2, <3>3, Zenon
      <3>5. <<>> \o <<>> = <<>>
        OBVIOUS
      <3> QED BY <3>2, <3>4, <3>5, Zenon
    <2>3. Turned(Start(s), answer) = <<Drained(b, h), HeaderSeen, <<>>>>
      <3>1. answer.status # "error"
        BY <2>1
      <3> QED BY <1>8, <2>1, <2>2, <3>1, Zenon DEF Turned
    <2>4. StageAt(s, HeaderSeen, 1) = <<Drained(b, h), HeaderSeen, <<>>>>
      <3>1. 1 - 1 = 0
        OBVIOUS
      <3> QED BY <1>4, <2>2, <3>1, Zenon DEF StageAt
    <2>5. StageAt(s, HeaderSeen, 1) \in T
      <3>1. 1 \in 1 .. Len(s.known) + 1
        BY <1>4
      <3> QED BY <1>1, <3>1
    <2>6. RightTurn(s, T, Start(s), answer)
      BY <1>8, <2>1, <2>2, <2>3, <2>4, <2>5, Zenon DEF RightTurn
    <2>7. LeavesTheTail(s, Start(s), answer)
      BY DEF LeavesTheTail
    <2>8. ASSUME NEW n \in 0 .. Len(b)
          PROVE  /\ RightSkip(s, T, Start(s), n)
                 /\ NothingWaits(s, Start(s), n, Pull(s.format, SubSeq(b, 1, n), NewReader))
      <3>1. RightSkip(s, T, Start(s), n)
        BY DEF RightSkip, Skippable
      <3> DEFINE part == Pull(s.format, SubSeq(b, 1, n), NewReader)
      <3>2. CASE n < h
        <4>1. \A k \in 1 .. Len(s.known) : ~(s.known[k] <= Len(s.bytes) - Len(Start(s)[1]) + n)
          <5>1. Len(s.bytes) - Len(Start(s)[1]) + n = n
            BY <1>4, <1>8
          <5>2. ASSUME NEW k \in 1 .. Len(s.known) PROVE ~(s.known[k] <= n)
            <6>1. s.known[k] \in Nat /\ h < s.known[k]
              BY <1>4
            <6> QED BY <1>4, <3>2, <6>1
          <5> QED BY <5>1, <5>2, Zenon
        <4> QED BY <3>1, <4>1, Zenon DEF NothingWaits
      <3>3. CASE ~(n < h)
        <4>1. part.status = "again"
          BY <1>6, <3>3, Zenon
        <4>2. part.status \notin {"none", "error"}
          BY <4>1
        <4> QED BY <3>1, <4>2, Zenon DEF NothingWaits
      <3> QED BY <3>2, <3>3
    <2> QED BY <1>8, <2>6, <2>7, <2>8, Zenon DEF RightStage, answer
  <1>10. ASSUME NEW stage \in T PROVE RightStage(s, T, stage)
    BY <1>1, <1>2, <1>9, UnfoldsStage, Zenon
  <1>11. RightStages(s, T)
    BY <1>3, <1>10, Zenon DEF RightStages, RightStage
  <1>12. \A k \in 1 .. Len(s.known) : s.known[k] \in Nat \ {0}
    BY MadeIs
  <1>13. SkipsNothing(s, T)
    <2>1. s.format # "opus"
      OBVIOUS
    <2> QED BY <2>1, Zenon DEF SkipsNothing, Skippable
  <1> QED BY <1>11, <1>12, <1>13, Zenon DEF Right, InRow, WellMade

Packed == {"ivf", "aac", "g711"}

\* What a framer of frames with a length keeps, once its header is behind it.
Kept(format) == IF format = "ivf" THEN HeaderSeen ELSE NewReader

LEMMA KeptIs ==
  /\ HeaderSeen.header_seen
  /\ Kept("ivf") = HeaderSeen /\ Kept("aac") = NewReader /\ Kept("g711") = NewReader
  BY DEF HeaderSeen, NewReader, Kept

\* Nothing is left of what is drained in full.
LEMMA AllDrained ==
  ASSUME NEW w \in Seq(Byte)
  PROVE  /\ Drained(w, Len(w)) = <<>> /\ SubSeq(w, 1, Len(w)) = w
  BY DEF Drained

\* Each framer takes off what its muxer made of a frame.
LEMMA Unwraps ==
  ASSUME NEW format \in Packed, NEW w \in Seq(Byte), NEW frame, Wraps(format, w, frame)
  PROVE  Pull(format, w, Kept(format)) = Answer("frame", <<frame>>, <<>>, Kept(format))
  <1>1. Len(w) = SizeTold(format, w) /\ Len(w) \in Nat
    BY Zenon, LenProperties DEF Wraps
  <1>2. CASE format = "g711"
    <2>1. Len(w) = G711Need /\ frame = Frame(w, FALSE)
      BY <1>1, <1>2 DEF Wraps, SizeTold
    <2>2. ~(Len(w) < G711Need) /\ SubSeq(w, 1, G711Need) = w /\ Drained(w, G711Need) = <<>>
      <3>1. ~(Len(w) < G711Need)
        BY <1>1, <2>1
      <3> QED BY <2>1, <3>1, AllDrained, Zenon
    <2>3. g711_next_frame(w, NewReader) = Answer("frame", <<frame>>, <<>>, NewReader)
      BY <2>1, <2>2, Zenon DEF g711_next_frame
    <2> QED BY <1>2, <2>3, KeptIs DEF Pull
  <1>3. CASE format = "aac"
    <2>1. /\ Len(w) = w[2][2] /\ frame = Frame(w, FALSE) /\ Len(w) >= 2
          /\ w[1][1] = "sync"
      BY <1>1, <1>3 DEF Wraps, SizeTold
    <2>2. /\ ~(Len(w) < 2) /\ ~(w[2][2] < 2) /\ ~(Len(w) < w[2][2])
      BY <1>1, <2>1
    <2>3. SubSeq(w, 1, w[2][2]) = w /\ Drained(w, w[2][2]) = <<>>
      BY <2>1, AllDrained, Zenon
    <2>4. adts_next_frame(w, NewReader) = Answer("frame", <<frame>>, <<>>, NewReader)
      BY <2>1, <2>2, <2>3, Zenon DEF adts_next_frame
    <2> QED BY <1>3, <2>4, KeptIs DEF Pull
  <1>4. CASE format = "ivf"
    <2> DEFINE len == 2 + w[1][2]
               payload == SubSeq(w, 3, Len(w))
    <2>1. /\ Len(w) = len /\ Len(w) >= 2
          /\ frame = Frame(payload, Len(w) > 2 /\ w[3][1] = "key")
      BY <1>1, <1>4 DEF Wraps, SizeTold
    <2>2. ~(Len(w) < 2) /\ ~(Len(w) < len)
      BY <1>1, <2>1
    <2>3. Drained(w, len) = <<>>
      BY <2>1, AllDrained, Zenon
    <2>4. is_keyframe(payload) = (Len(w) > 2 /\ w[3][1] = "key")
      <3>1. PICK k \in Nat : Len(w) = 2 + k
        <4>1. Len(w) - 2 \in Nat /\ Len(w) = 2 + (Len(w) - 2)
          BY <1>1, <2>1
        <4> QED BY <4>1
      <3>2. /\ SubSeq(w, 2 + 1, 2 + k) \in Seq(Byte) /\ Len(SubSeq(w, 2 + 1, 2 + k)) = k
            /\ \A i \in 1 .. k : SubSeq(w, 2 + 1, 2 + k)[i] = w[2 + i]
        <4>1. 2 \in Nat /\ 2 + k <= Len(w)
          BY <3>1
        <4> QED BY <4>1, Piece, Zenon
      <3>3. payload = SubSeq(w, 2 + 1, 2 + k)
        <4>1. 2 + 1 = 3
          OBVIOUS
        <4> QED BY <3>1, <4>1, Zenon
      <3>4. payload \in Seq(Byte) /\ Len(payload) = k /\ \A i \in 1 .. k : payload[i] = w[2 + i]
        BY <3>2, <3>3, Zenon
      <3> HIDE DEF payload
      <3>5. CASE k = 0
        <4>1. payload = <<>> /\ ~(Len(w) > 2)
          BY <3>1, <3>4, <3>5, EmptySeq
        <4> QED BY <4>1 DEF is_keyframe
      <3>6. CASE k # 0
        <4>1. payload # <<>> /\ Len(w) > 2 /\ payload[1] = w[3]
          <5>1. 1 \in 1 .. k /\ 2 + 1 = 3 /\ Len(w) > 2
            BY <3>1, <3>6
          <5>2. payload[1] = w[2 + 1]
            BY <3>4, <5>1, Zenon
          <5>3. Len(payload) # 0
            BY <3>4, <3>6, Zenon
          <5>4. payload # <<>>
            BY <3>4, <5>3, EmptySeq, Zenon
          <5> QED BY <5>1, <5>2, <5>4, Zenon
        <4> QED BY <4>1 DEF is_keyframe
      <3> QED BY <3>5, <3>6
    <2>5. ivf_pull(w, HeaderSeen) = Answer("frame", <<frame>>, <<>>, HeaderSeen)
      <3>1. ivf_pull(w, HeaderSeen) =
              Answer("frame", <<Frame(SubSeq(w, 3, len), is_keyframe(SubSeq(w, 3, len)))>>,
                     Drained(w, len), HeaderSeen)
        BY <2>2, KeptIs, Zenon DEF ivf_pull
      <3> HIDE DEF len
      <3> QED BY <2>1, <2>3, <2>4, <3>1, Zenon
    <2> QED BY <1>4, <2>5, KeptIs DEF Pull
  <1> QED BY <1>2, <1>3, <1>4 DEF Packed

\* And waits where one has not come in full.
LEMMA WaitsForRest ==
  ASSUME NEW format \in Packed, NEW w \in Seq(Byte), Unfinished(format, w)
  PROVE  Pull(format, w, Kept(format)) = NeedMore(w, Kept(format))
  <1>1. CASE format = "g711"
    <2>1. Len(w) < G711Need
      BY <1>1 DEF Unfinished, SizeTold
    <2>2. g711_next_frame(w, NewReader) = NeedMore(w, NewReader)
      BY <2>1, Zenon DEF g711_next_frame
    <2> QED BY <1>1, <2>2, KeptIs DEF Pull
  <1>2. CASE format = "aac"
    <2>1. \/ Len(w) < 2
          \/ w[1][1] = "sync" /\ w[2][2] >= 2 /\ Len(w) < w[2][2]
      BY <1>2 DEF Unfinished, SizeTold
    <2>2. CASE Len(w) < 2
      <3>1. adts_next_frame(w, NewReader) = NeedMore(w, NewReader)
        BY <2>2, Zenon DEF adts_next_frame
      <3> QED BY <1>2, <3>1, KeptIs DEF Pull
    <2>3. CASE ~(Len(w) < 2)
      <3>1. w[2][2] \in Nat
        <4>1. w[2] \in Byte
          <5>1. 2 \in 1 .. Len(w)
            BY <2>3
          <5> QED BY <5>1, ElementOfSeq
        <4> QED BY <4>1 DEF Byte
      <3>2. w[1][1] = "sync" /\ ~(w[2][2] < 2) /\ Len(w) < w[2][2]
        BY <2>1, <2>3, <3>1
      <3>3. adts_next_frame(w, NewReader) = NeedMore(w, NewReader)
        BY <2>3, <3>2, Zenon DEF adts_next_frame
      <3> QED BY <1>2, <3>3, KeptIs DEF Pull
    <2> QED BY <2>2, <2>3
  <1>3. CASE format = "ivf"
    <2>1. Len(w) < 2 \/ Len(w) < 2 + w[1][2]
      BY <1>3 DEF Unfinished, SizeTold
    <2>2. ivf_pull(w, HeaderSeen) = NeedMore(w, HeaderSeen)
      BY <2>1, KeptIs, Zenon DEF ivf_pull
    <2> QED BY <1>3, <2>2, KeptIs DEF Pull
  <1> QED BY <1>1, <1>2, <1>3 DEF Packed

\* IVF, ADTS and G.711 are taken apart as they were packed.
LEMMA PackedRight ==
  ASSUME NEW s \in Sources, InRow(s), WellPacked(s)
  PROVE  Right(s)
  <1> DEFINE n == Len(s.known)
             rd == Kept(s.format)
             end == s.cuts[n + 1]
             rest == Drained(s.bytes, end)
  <1>1. /\ s.format \in Packed /\ n = Len(s.frames) /\ n \in Nat
        /\ s.bytes \in Seq(Byte)
        /\ \A k \in 1 .. n : s.known[k] = s.cuts[k + 1]
        /\ \A k \in 1 .. n : Wraps(s.format, Span(s, k), s.frames[k])
        /\ Unfinished(s.format, rest)
        /\ s.cuts[1] = IF s.format = "ivf" THEN hdr_len(s.bytes) ELSE 0
    <2>1. n \in Nat /\ s.bytes \in Seq(Byte)
      BY MadeIs
    <2> QED BY <2>1, Zenon DEF WellPacked, Packed
  <1>2. /\ \A k \in 1 .. n + 1 : s.cuts[k] \in Nat /\ s.cuts[k] <= Len(s.bytes)
        /\ \A k \in 1 .. n : s.cuts[k] < s.cuts[k + 1]
    BY <1>1, MadeIs
  <1>3. ASSUME NEW k \in 1 .. n
        PROVE  /\ s.cuts[k + 1] <= s.known[k] /\ s.known[k] <= Len(s.bytes)
               /\ Pull(s.format, Between(s.bytes, s.cuts[k], s.known[k]), rd)
                    = Answer("frame", <<s.frames[k]>>, Between(s.bytes, s.cuts[k + 1], s.known[k]), rd)
    <2> DEFINE c == s.cuts[k]
               e == s.cuts[k + 1]
    <2>1. c \in Nat /\ e \in Nat /\ c <= e /\ e <= Len(s.bytes) /\ s.known[k] = e /\ e <= e
      <3>1. k \in 1 .. n + 1 /\ k + 1 \in 1 .. n + 1
        BY <1>1
      <3> QED BY <1>1, <1>2, <3>1
    <2> HIDE DEF c, e
    <2>2. Span(s, k) = Between(s.bytes, c, e) /\ Between(s.bytes, c, e) \in Seq(Byte)
      <3>1. Between(s.bytes, c, e) \in Seq(Byte)
        BY <1>1, <2>1, BetweenIs, Zenon
      <3> QED BY <3>1 DEF Span, Between, c, e
    <2>3. Between(s.bytes, e, e) = <<>>
      BY <1>1, <2>1 DEF Between
    <2>4. Wraps(s.format, Between(s.bytes, c, e), s.frames[k])
      BY <1>1, <2>2
    <2>5. Pull(s.format, Between(s.bytes, c, e), rd) = Answer("frame", <<s.frames[k]>>, <<>>, rd)
      BY <1>1, <2>2, <2>4, Unwraps, Zenon
    <2> QED BY <2>1, <2>3, <2>5, Zenon DEF c, e
  <1>4. Pull(s.format, rest, rd) = NeedMore(rest, rd)
    <2>1. rest \in Seq(Byte)
      <3>1. n + 1 \in 1 .. n + 1
        BY <1>1
      <3>2. end \in Nat /\ end <= Len(s.bytes)
        BY <1>2, <3>1
      <3> QED BY <1>1, <3>2, BetweenEnds, Zenon
    <2> QED BY <1>1, <2>1, WaitsForRest, Zenon
  <1>5. s.format \notin Codecs /\ n <= Len(s.frames)
    BY <1>1 DEF Packed, Codecs
  <1>6. Unfolds(s, rd)
    BY <1>3, <1>4, <1>5, Zenon DEF Unfolds
  <1>7. CASE s.format = "ivf"
    BY <1>6, <1>7, KeptIs, IvfUnfoldsRight, Zenon
  <1>8. CASE s.format # "ivf"
    <2>1. rd = NewReader /\ s.cuts[1] = 0
      BY <1>1, <1>8 DEF Kept
    <2> QED BY <1>6, <2>1, UnfoldsRight, Zenon
  <1> QED BY <1>7, <1>8

-----------------------------------------------------------------------------
(* Annex B: what is found behind the start of a NAL is what is found there in   *)
(* the whole stream                                                          *)

LEMMA CodesShift ==
  ASSUME NEW b \in Seq(Byte), NEW c \in Nat, c + 1 \in find_start_codes(b)
  PROVE  /\ \A i \in Nat \ {0} :
              i \in find_start_codes(Drained(b, c)) <=> c + i \in find_start_codes(b)
         /\ \A i \in find_start_codes(Drained(b, c)) :
              header_at(b, c + i) = c + header_at(Drained(b, c), i)
  <1> DEFINE w == Drained(b, c)
  <1>1. c + 1 <= Len(b) /\ Len(b) \in Nat
    BY CodesAre
  <1>2. w \in Seq(Byte) /\ Len(w) = Len(b) - c /\ \A i \in 1 .. Len(b) - c : w[i] = b[c + i]
    <2>1. c <= Len(b)
      BY <1>1
    <2> QED BY <2>1, RestIs, Zenon
  <1> HIDE DEF w
  <1>3. ASSUME NEW i \in Nat \ {0} PROVE code4(w, i) = code4(b, c + i)
    <2>1. i + 3 <= Len(w) <=> (c + i) + 3 <= Len(b)
      BY <1>1, <1>2
    <2>2. CASE i + 3 <= Len(w)
      <3>1. /\ w[i] = b[c + i] /\ w[i + 1] = b[(c + i) + 1] /\ w[i + 2] = b[(c + i) + 2]
            /\ w[i + 3] = b[(c + i) + 3]
        <4>1. /\ i \in 1 .. Len(b) - c /\ i + 1 \in 1 .. Len(b) - c
              /\ i + 2 \in 1 .. Len(b) - c /\ i + 3 \in 1 .. Len(b) - c
              /\ c + (i + 1) = (c + i) + 1 /\ c + (i + 2) = (c + i) + 2 /\ c + (i + 3) = (c + i) + 3
          <5>1. Len(w) = Len(b) - c
            BY <1>2
          <5> QED BY <1>1, <2>2, <5>1
        <4>2. \A x \in 1 .. Len(b) - c : w[x] = b[c + x]
          BY <1>2
        <4>3. /\ w[i] = b[c + i] /\ w[i + 1] = b[c + (i + 1)] /\ w[i + 2] = b[c + (i + 2)]
              /\ w[i + 3] = b[c + (i + 3)]
          BY <4>1, <4>2, Zenon
        <4> QED BY <4>1, <4>3
      <3> QED BY <2>1, <2>2, <3>1, Zenon DEF code4
    <2>3. CASE ~(i + 3 <= Len(w))
      BY <2>1, <2>3, Zenon DEF code4
    <2> QED BY <2>2, <2>3
  <1>4. ASSUME NEW i \in Nat \ {0} PROVE code3(w, i) = code3(b, c + i)
    <2>1. i + 2 <= Len(w) <=> (c + i) + 2 <= Len(b)
      BY <1>1, <1>2
    <2>2. CASE i + 2 <= Len(w)
      <3>1. /\ w[i] = b[c + i] /\ w[i + 1] = b[(c + i) + 1] /\ w[i + 2] = b[(c + i) + 2]
        <4>1. /\ i \in 1 .. Len(b) - c /\ i + 1 \in 1 .. Len(b) - c
              /\ i + 2 \in 1 .. Len(b) - c
              /\ c + (i + 1) = (c + i) + 1 /\ c + (i + 2) = (c + i) + 2
          <5>1. Len(w) = Len(b) - c
            BY <1>2
          <5> QED BY <1>1, <2>2, <5>1
        <4>2. \A x \in 1 .. Len(b) - c : w[x] = b[c + x]
          BY <1>2
        <4>3. w[i] = b[c + i] /\ w[i + 1] = b[c + (i + 1)] /\ w[i + 2] = b[c + (i + 2)]
          BY <4>1, <4>2, Zenon
        <4> QED BY <4>1, <4>3
      <3> QED BY <2>1, <2>2, <3>1, Zenon DEF code3
    <2>3. CASE ~(i + 2 <= Len(w))
      BY <2>1, <2>3, Zenon DEF code3
    <2> QED BY <2>2, <2>3
  <1>5. ASSUME NEW i \in Nat \ {0} PROVE i \in find_start_codes(w) <=> c + i \in find_start_codes(b)
    <2> DEFINE behind(x, p) == p > 1 /\ code4(x, p - 1)
    <2>1. ASSUME NEW x \in Seq(Byte), NEW p \in Nat \ {0}
          PROVE  p \in find_start_codes(x) <=> code4(x, p) \/ (code3(x, p) /\ ~behind(x, p))
      <3>1. code4(x, p) \/ code3(x, p) => p \in 1 .. Len(x)
        BY DEF code3, code4
      <3> QED BY <3>1, Zenon DEF find_start_codes
    <2>2. CASE i = 1
      <3>1. ~behind(w, i)
        BY <2>2
      <3>2. code4(b, c + i) \/ (code3(b, c + i) /\ ~behind(b, c + i))
        <4>1. c + i \in Nat \ {0} /\ c + i \in find_start_codes(b)
          BY <2>2
        <4> QED BY <2>1, <4>1
      <3>3. code4(w, i) \/ (code3(w, i) /\ ~behind(w, i))
        BY <1>3, <1>4, <3>1, <3>2
      <3>4. i \in find_start_codes(w)
        BY <1>2, <2>1, <3>3
      <3> QED BY <2>2, <3>4
    <2>3. CASE i # 1
      <3>1. i - 1 \in Nat \ {0} /\ c + (i - 1) = (c + i) - 1 /\ i > 1 /\ c + i > 1
            /\ c + i \in Nat \ {0}
        BY <2>3
      <3>2. code4(w, i - 1) = code4(b, c + (i - 1))
        BY <1>3, <3>1
      <3>3. behind(w, i) <=> behind(b, c + i)
        <4>1. code4(w, i - 1) = code4(b, (c + i) - 1)
          BY <3>1, <3>2
        <4> QED BY <3>1, <4>1, Zenon
      <3>4. code4(w, i) = code4(b, c + i) /\ code3(w, i) = code3(b, c + i)
        BY <1>3, <1>4
      <3>5. i \in find_start_codes(w) <=> code4(w, i) \/ (code3(w, i) /\ ~behind(w, i))
        BY <1>2, <2>1, Zenon
      <3>6. c + i \in find_start_codes(b)
              <=> code4(b, c + i) \/ (code3(b, c + i) /\ ~behind(b, c + i))
        BY <2>1, <3>1, Zenon
      <3> HIDE DEF behind
      <3> QED BY <3>3, <3>4, <3>5, <3>6, Zenon
    <2> QED BY <2>2, <2>3
  <1>6. ASSUME NEW i \in find_start_codes(w)
        PROVE  header_at(b, c + i) = c + header_at(w, i)
    <2>1. i \in Nat \ {0}
      BY <1>2, CodesAre
    <2>2. code4(w, i) = code4(b, c + i)
      BY <1>3, <2>1
    <2>3. CASE code4(w, i)
      BY <2>1, <2>2, <2>3 DEF header_at
    <2>4. CASE ~code4(w, i)
      BY <2>1, <2>2, <2>4 DEF header_at
    <2> QED BY <2>3, <2>4
  <1> QED BY <1>5, <1>6 DEF w

LEMMA NalsShift ==
  ASSUME NEW b \in Seq(Byte), NEW c \in Nat, c + 1 \in find_start_codes(b),
         NEW i \in find_start_codes(Drained(b, c)), NEW codec \in Codecs
  PROVE  /\ nal_unit_type_at(Drained(b, c), i) = nal_unit_type_at(b, c + i)
         /\ starts_picture(codec, Drained(b, c), i) = starts_picture(codec, b, c + i)
  <1> DEFINE w == Drained(b, c)
             h == header_at(w, i)
             m == CodecSpec[codec].header
  <1>1. c + 1 <= Len(b) /\ Len(b) \in Nat
    BY CodesAre
  <1>2. w \in Seq(Byte) /\ Len(w) = Len(b) - c /\ \A j \in 1 .. Len(b) - c : w[j] = b[c + j]
    <2>1. c <= Len(b)
      BY <1>1
    <2> QED BY <2>1, RestIs, Zenon
  <1>3. h \in Nat \ {0} /\ header_at(b, c + i) = c + h
    <2>1. h \in Nat \ {0}
      BY <1>2, CodesAre
    <2> QED BY <2>1, CodesShift
  <1>4. m \in Nat
    BY DEF CodecSpec, Codecs
  <1> HIDE DEF w, h, m
  <1>5. ASSUME NEW j \in Nat \ {0}
        PROVE  (j <= Len(w) <=> c + j <= Len(b)) /\ (j > Len(w) <=> c + j > Len(b))
               /\ (j = Len(w) <=> c + j = Len(b)) /\ (~(j > Len(w)) => w[j] = b[c + j])
    <2>1. ~(j > Len(w)) => j \in 1 .. Len(b) - c
      BY <1>1, <1>2
    <2>2. ~(j > Len(w)) => w[j] = b[c + j]
      BY <1>2, <2>1
    <2> QED BY <1>1, <1>2, <2>2
  <1>6. nal_unit_type_at(w, i) = nal_unit_type_at(b, c + i)
    <2>1. nal_unit_type_at(w, i) = IF h <= Len(w) THEN w[h][1] ELSE "type0"
      BY Zenon DEF nal_unit_type_at, h
    <2>2. nal_unit_type_at(b, c + i) = IF c + h <= Len(b) THEN b[c + h][1] ELSE "type0"
      BY <1>3, Zenon DEF nal_unit_type_at
    <2>3. h <= Len(w) => w[h] = b[c + h]
      <3>1. h <= Len(w) => ~(h > Len(w))
        BY <1>2, <1>3
      <3> QED BY <1>3, <1>5, <3>1
    <2>4. h <= Len(w) <=> c + h <= Len(b)
      BY <1>3, <1>5
    <2>5. CASE h <= Len(w)
      <3>1. c + h <= Len(b) /\ w[h][1] = b[c + h][1]
        BY <2>3, <2>4, <2>5, Zenon
      <3> QED BY <2>1, <2>2, <2>5, <3>1, Zenon
    <2>6. CASE ~(h <= Len(w))
      <3>1. ~(c + h <= Len(b))
        BY <2>4, <2>6, Zenon
      <3> QED BY <2>1, <2>2, <2>6, <3>1, Zenon
    <2> QED BY <2>5, <2>6
  <1>7. starts_picture(codec, w, i) = starts_picture(codec, b, c + i)
    <2> DEFINE q == h + m
    <2>1. starts_picture(codec, w, i) =
            IF q > Len(w) \/ (w[q][1] = "long" /\ q = Len(w)) THEN "unknown"
            ELSE IF w[q][1] = "first" THEN "yes" ELSE "no"
      BY Zenon DEF starts_picture, h, m
    <2>2. starts_picture(codec, b, c + i) =
            IF c + q > Len(b) \/ (b[c + q][1] = "long" /\ c + q = Len(b)) THEN "unknown"
            ELSE IF b[c + q][1] = "first" THEN "yes" ELSE "no"
      <3>1. header_at(b, c + i) + CodecSpec[codec].header = c + q
        BY <1>3, <1>4 DEF m
      <3> HIDE DEF q
      <3> QED BY <3>1, Zenon DEF starts_picture
    <2>3. q \in Nat \ {0}
      BY <1>3, <1>4
    <2> HIDE DEF q
    <2>4. /\ q > Len(w) <=> c + q > Len(b)
          /\ q = Len(w) <=> c + q = Len(b)
          /\ ~(q > Len(w)) => w[q] = b[c + q]
      BY <1>5, <2>3
    <2>5. CASE q > Len(w)
      <3>1. c + q > Len(b)
        BY <2>4, <2>5, Zenon
      <3> QED BY <2>1, <2>2, <2>5, <3>1, Zenon
    <2>6. CASE ~(q > Len(w))
      <3> DEFINE x == w[q]
                 whole == c + q = Len(b)
      <3>1. ~(c + q > Len(b)) /\ w[q] = b[c + q] /\ (q = Len(w) <=> whole)
        BY <2>4, <2>6, Zenon
      <3>2. starts_picture(codec, w, i) =
              IF x[1] = "long" /\ q = Len(w) THEN "unknown"
              ELSE IF x[1] = "first" THEN "yes" ELSE "no"
        BY <2>1, <2>6, Zenon
      <3>3. starts_picture(codec, b, c + i) =
              IF x[1] = "long" /\ whole THEN "unknown"
              ELSE IF x[1] = "first" THEN "yes" ELSE "no"
        BY <2>2, <3>1, Zenon
      <3> HIDE DEF x
      <3>4. CASE x[1] = "long" /\ q = Len(w)
        <4>1. whole
          BY <3>1, <3>4, Zenon
        <4> QED BY <3>2, <3>3, <3>4, <4>1, Zenon
      <3>5. CASE ~(x[1] = "long" /\ q = Len(w))
        <4>1. ~(x[1] = "long" /\ whole)
          BY <3>1, <3>5, Zenon
        <4> DEFINE said == IF x[1] = "first" THEN "yes" ELSE "no"
        <4>2. starts_picture(codec, w, i) = said
          BY <3>2, <3>5, Zenon
        <4>3. starts_picture(codec, b, c + i) = said
          BY <3>3, <4>1, Zenon
        <4> HIDE DEF said
        <4> QED BY <4>2, <4>3
      <3> QED BY <3>4, <3>5, Zenon
    <2> QED BY <2>5, <2>6
  <1> QED BY <1>6, <1>7 DEF w

\* The NALs of the first l bytes, and the slices among them.
Inside(w, l) == {p \in find_start_codes(w) : p <= l}
SlicesTo(codec, w, l) ==
  {p \in Inside(w, l) : nal_unit_type_at(w, p) \in CodecSpec[codec].vcl}

BeginsAt(codec, w, p) ==
  \/ nal_unit_type_at(w, p) \in CodecSpec[codec].delimiters
  \/ /\ nal_unit_type_at(w, p) \in CodecSpec[codec].vcl
     /\ starts_picture(codec, w, p) = "yes"

\* The byte that tells so.
ToldBy(codec, w, p) ==
  header_at(w, p) + IF nal_unit_type_at(w, p) \in CodecSpec[codec].delimiters THEN 0
                    ELSE CodecSpec[codec].header

\* The first l bytes are one picture.
OnePicture(codec, w, l) ==
  /\ 1 \in Inside(w, l)
  /\ SlicesTo(codec, w, l) # {}
  /\ \A p \in Inside(w, l) : p > Least(SlicesTo(codec, w, l)) => ~BeginsAt(codec, w, p)
  /\ \A p \in SlicesTo(codec, w, l) : starts_picture(codec, w, p) # "unknown"

KeyTo(codec, w, l) ==
  /\ \E p \in SlicesTo(codec, w, l) : nal_unit_type_at(w, p) = "idr"
  /\ \A t \in CodecSpec[codec].params :
       \E p \in Inside(w, l) : /\ p < Least(SlicesTo(codec, w, l))
                               /\ nal_unit_type_at(w, p) = t

LEMMA InsideIs ==
  ASSUME NEW w \in Seq(Byte), NEW l, NEW codec
  PROVE  /\ Inside(w, l) \in SUBSET Nat /\ SlicesTo(codec, w, l) \in SUBSET Nat
         /\ \A p \in Inside(w, l) : p \in find_start_codes(w) /\ p <= l /\ p \in Nat \ {0}
         /\ SlicesTo(codec, w, l) \subseteq Inside(w, l)
  <1>1. \A p \in Inside(w, l) : p \in find_start_codes(w) /\ p <= l
    BY DEF Inside
  <1>2. \A p \in Inside(w, l) : p \in Nat \ {0}
    BY <1>1, CodesAre
  <1>3. SlicesTo(codec, w, l) \subseteq Inside(w, l)
    BY DEF SlicesTo
  <1> QED BY <1>1, <1>2, <1>3

\* What there is to say of a slice header.
LEMMA StartsSays ==
  ASSUME NEW codec, NEW b, NEW p
  PROVE  LET q == header_at(b, p) + CodecSpec[codec].header
         IN  /\ starts_picture(codec, b, p) \in {"yes", "no", "unknown"}
             /\ starts_picture(codec, b, p) = "yes" => ~(q > Len(b)) /\ b[q][1] = "first"
             /\ ~(q > Len(b)) /\ b[q][1] = "first" => starts_picture(codec, b, p) = "yes"
             /\ ~(q > Len(b)) /\ q # Len(b) => starts_picture(codec, b, p) # "unknown"
  <1> DEFINE q == header_at(b, p) + CodecSpec[codec].header
  <1>1. starts_picture(codec, b, p) =
          IF q > Len(b) \/ (b[q][1] = "long" /\ q = Len(b)) THEN "unknown"
          ELSE IF b[q][1] = "first" THEN "yes" ELSE "no"
    BY Zenon DEF starts_picture
  <1> HIDE DEF q
  <1> QED BY <1>1 DEF q

\* Once the byte that tells the end of a picture has come, it is found as it is.
LEMMA PictureTold ==
  ASSUME NEW w \in Seq(Byte), NEW codec \in Codecs, NEW l \in Nat,
         OnePicture(codec, w, l), l + 1 \in find_start_codes(w), BeginsAt(codec, w, l + 1)
  PROVE  LET tl == ToldBy(codec, w, l + 1)
             told == Between(w, 0, tl)
         IN  /\ tl \in Nat /\ l < tl /\ tl <= Len(w)
             /\ EndsAt(codec, told, l + 1)
             /\ Least(find_start_codes(told)) = 1
             /\ KeyBefore(codec, told, l + 1) = KeyTo(codec, w, l)
  <1> DEFINE tl == ToldBy(codec, w, l + 1)
             told == Between(w, 0, tl)
             more == Between(w, tl, Len(w))
             vcl == CodecSpec[codec].vcl
             delimiters == CodecSpec[codec].delimiters
             m == CodecSpec[codec].header
             h == header_at(w, l + 1)
             C(b) == find_start_codes(b)
             type(b, p) == nal_unit_type_at(b, p)
             first == Least(SlicesTo(codec, w, l))
  <1>1. m \in {1, 2} /\ "type0" \notin delimiters /\ "0" \notin vcl
    BY DEF CodecSpec, Codecs
  <1>2. h \in {l + 4, l + 5} /\ w[l + 1] = Zero
    <2>1. \/ code4(w, l + 1) /\ h = (l + 1) + 4
          \/ code3(w, l + 1) /\ h = (l + 1) + 3
      BY CodesAre
    <2>2. w[l + 1] = Zero
      BY <2>1 DEF code3, code4
    <2> QED BY <2>1, <2>2
  <1>3. /\ tl \in Nat /\ l + 4 <= tl /\ tl <= Len(w) /\ h <= tl
        /\ \/ type(w, l + 1) \in delimiters
           \/ /\ type(w, l + 1) \in vcl /\ starts_picture(codec, w, l + 1) = "yes"
              /\ tl = h + m /\ w[tl][1] = "first"
    <2>1. CASE type(w, l + 1) \in delimiters
      <3>1. tl = h
        BY <1>2, <2>1 DEF ToldBy
      <3>2. h <= Len(w)
        <4>1. type(w, l + 1) # "type0"
          BY <1>1, <2>1
        <4> QED BY <4>1, Zenon DEF nal_unit_type_at
      <3> HIDE DEF h, tl
      <3> QED BY <1>2, <2>1, <3>1, <3>2
    <2>2. CASE type(w, l + 1) \notin delimiters
      <3>1. tl = h + m
        BY <2>2, Zenon DEF ToldBy
      <3>2. type(w, l + 1) \in vcl /\ starts_picture(codec, w, l + 1) = "yes"
        BY <2>2, Zenon DEF BeginsAt
      <3>3. ~(h + m > Len(w)) /\ w[h + m][1] = "first"
        BY <3>2, StartsSays, Zenon
      <3> HIDE DEF h, m, tl
      <3> QED BY <1>1, <1>2, <3>1, <3>2, <3>3
    <2> QED BY <2>1, <2>2
  <1> HIDE DEF tl, h, m
  <1>4. /\ told \in Seq(Byte) /\ Len(told) = tl /\ more \in Seq(Byte) /\ w = told \o more
        /\ \A i \in 1 .. tl : told[i] = w[i]
    <2>1. /\ 0 \in Nat /\ 0 <= tl /\ 0 <= Len(w) /\ Len(w) \in Nat /\ Len(w) <= Len(w)
          /\ 0 + 1 = 1 /\ tl - 0 = tl /\ \A i \in 1 .. tl : 0 + i = i
      BY <1>3
    <2>2. told \in Seq(Byte) /\ Len(told) = tl - 0 /\ \A i \in 1 .. tl - 0 : told[i] = w[0 + i]
      BY <1>3, <2>1, BetweenIs
    <2>3. more \in Seq(Byte)
      BY <1>3, <2>1, BetweenIs
    <2>4. Between(w, 0, Len(w)) = told \o more
      BY <1>3, <2>1, BetweenSplit
    <2>5. Between(w, 0, Len(w)) = w
      BY <2>1, AllDrained, Zenon DEF Between
    <2> HIDE DEF told, more
    <2> QED BY <2>1, <2>2, <2>3, <2>4, <2>5
  <1> HIDE DEF told, more
  <1>5. /\ C(told) \subseteq C(w) /\ \A p \in C(w) : p + 3 <= tl => p \in C(told)
        /\ \A p \in C(told) : header_at(w, p) = header_at(told, p)
    <2>1. /\ C(told) \subseteq C(told \o more)
          /\ \A p \in C(told \o more) : p + 3 <= Len(told) => p \in C(told)
          /\ \A p \in C(told) : header_at(told \o more, p) = header_at(told, p)
      BY <1>4, CodesKept, Zenon
    <2> HIDE DEF C
    <2> QED BY <1>4, <2>1, Zenon
  \* Up to the stop, told has what w has.
  <1>6. ASSUME NEW p \in C(w), p <= l + 1
        PROVE  /\ p \in C(told) /\ type(told, p) = type(w, p) /\ p \in Nat \ {0}
               /\ p <= l => header_at(w, p) <= l + 1
    <2>1. p \in Nat \ {0} /\ header_at(w, p) \in {p + 3, p + 4}
      BY CodesAre
    <2>2. p <= l => header_at(w, p) <= l + 1
      <3>1. p <= l => p < l + 1
        BY <2>1
      <3> QED BY <3>1, CodesApart
    <2>3. header_at(w, p) <= tl
      <3>1. CASE p <= l
        BY <1>3, <2>1, <2>2, <3>1
      <3>2. CASE ~(p <= l)
        <4>1. p = l + 1
          BY <1>6, <2>1, <3>2
        <4> QED BY <1>3, <4>1 DEF h
      <3> QED BY <3>1, <3>2
    <2>4. p + 3 <= tl
      BY <1>3, <2>1, <2>3
    <2>5. p \in C(told)
      BY <1>5, <2>4
    <2>6. header_at(told, p) <= Len(told)
      BY <1>4, <1>5, <2>3, <2>5
    <2>7. type(told \o more, p) = type(told, p)
      BY <1>4, <2>5, <2>6, TypeKept
    <2> HIDE DEF type, C
    <2> QED BY <1>4, <2>1, <2>2, <2>5, <2>7
  <1>7. ASSUME NEW p \in SlicesTo(codec, w, l)
        PROVE  starts_picture(codec, told, p) \in {"yes", "no"}
               /\ starts_picture(codec, told, p) = starts_picture(codec, w, p)
    <2>1. p \in C(w) /\ p <= l /\ type(w, p) \in vcl /\ p \in Nat
      <3>1. p \in Inside(w, l) /\ type(w, p) \in vcl
        BY DEF SlicesTo
      <3> QED BY <3>1, InsideIs
    <2>2. p \in C(told) /\ header_at(w, p) <= l + 1
      <3>1. p <= l + 1
        BY <2>1
      <3> QED BY <1>6, <2>1, <3>1
    <2>3. header_at(w, p) \in Nat
      BY <2>1, CodesAre
    <2>4. header_at(w, p) # l + 1
      <3>1. SUFFICES ASSUME header_at(w, p) = l + 1 PROVE FALSE
        OBVIOUS
      <3>2. type(w, p) = w[l + 1][1]
        <4>1. l + 1 <= Len(w)
          BY <1>3
        <4> QED BY <3>1, <4>1, Zenon DEF nal_unit_type_at
      <3>3. type(w, p) = "0"
        BY <1>2, <3>2 DEF Zero
      <3> HIDE DEF type, vcl
      <3> QED BY <1>1, <2>1, <3>3
    <2> DEFINE q == header_at(told, p) + CodecSpec[codec].header
    <2>5. q = header_at(w, p) + m
      <3>1. header_at(told, p) = header_at(w, p)
        BY <1>5, <2>2
      <3> QED BY <3>1 DEF m
    <2>6. ~(q > Len(told)) /\ q # Len(told)
      <3> HIDE DEF q
      <3> QED BY <1>1, <1>3, <1>4, <2>2, <2>3, <2>4, <2>5
    <2>7. /\ starts_picture(codec, told, p) # "unknown"
          /\ starts_picture(codec, told, p) \in {"yes", "no", "unknown"}
      BY <2>6, StartsSays, Zenon
    <2>8. starts_picture(codec, told \o more, p) = starts_picture(codec, told, p)
      BY <1>4, <2>2, <2>7, StartsKept, Zenon
    <2>9. starts_picture(codec, w, p) = starts_picture(codec, told, p)
      BY <1>4, <2>8, Zenon
    <2> QED BY <2>7, <2>9
  <1>8. l + 1 \in C(told) /\ type(told, l + 1) = type(w, l + 1) /\ Told(codec, told, l + 1)
        /\ \/ type(told, l + 1) \in delimiters
           \/ type(told, l + 1) \in vcl /\ starts_picture(codec, told, l + 1) # "no"
    <2>1. l + 1 \in C(told) /\ type(told, l + 1) = type(w, l + 1)
      <3>1. l + 1 <= l + 1
        OBVIOUS
      <3> QED BY <1>6, <3>1
    <2>2. CASE type(w, l + 1) \in delimiters
      BY <2>1, <2>2, Zenon DEF Told
    <2>3. CASE type(w, l + 1) \notin delimiters
      <3>1. /\ type(w, l + 1) \in vcl /\ tl = h + m /\ w[tl][1] = "first"
        BY <1>3, <2>3
      <3>2. header_at(told, l + 1) + CodecSpec[codec].header = tl
        BY <1>5, <2>1, <3>1 DEF h, m
      <3>3. ~(tl > Len(told)) /\ told[tl][1] = "first"
        <4>1. tl \in 1 .. tl
          BY <1>3
        <4> QED BY <1>3, <1>4, <3>1, <4>1
      <3>4. starts_picture(codec, told, l + 1) = "yes"
        BY <3>2, <3>3, StartsSays, Zenon
      <3>5. starts_picture(codec, told, l + 1) # "no"
        BY <3>4
      <3> QED BY <2>1, <3>1, <3>4, <3>5, Zenon DEF Told
    <2> QED BY <2>2, <2>3
  <1> HIDE DEF C, type
  <1>9. ASSUME NEW p PROVE p \in SlicesTo(codec, w, l) <=> p \in SlicesOf(codec, told) /\ p <= l
    <2>1. ASSUME p \in SlicesTo(codec, w, l) PROVE p \in SlicesOf(codec, told) /\ p <= l
      <3>1. p \in C(w) /\ p <= l /\ type(w, p) \in vcl /\ p \in Nat
        <4>1. p \in Inside(w, l) /\ type(w, p) \in vcl
          BY <2>1 DEF SlicesTo, type
        <4> QED BY <4>1, InsideIs DEF C
      <3>2. p <= l + 1
        BY <3>1
      <3>3. p \in C(told) /\ type(told, p) = type(w, p)
        BY <1>6, <3>1, <3>2
      <3> QED BY <3>1, <3>3 DEF SlicesOf, C, type
    <2>2. ASSUME p \in SlicesOf(codec, told), p <= l PROVE p \in SlicesTo(codec, w, l)
      <3>1. p \in C(w) /\ type(told, p) \in vcl
        BY <1>5, <2>2 DEF SlicesOf, C, type
      <3>2. p \in Nat
        BY <3>1, CodesAre DEF C
      <3>3. p <= l + 1
        BY <2>2, <3>2
      <3>4. type(told, p) = type(w, p)
        BY <1>6, <3>1, <3>3
      <3> QED BY <2>2, <3>1, <3>4 DEF SlicesTo, Inside, C, type
    <2> QED BY <2>1, <2>2
  <1>10. /\ first \in SlicesTo(codec, w, l) /\ first \in Nat /\ first <= l
         /\ \A p \in SlicesTo(codec, w, l) : first <= p
    <2>1. SlicesTo(codec, w, l) \in SUBSET Nat /\ SlicesTo(codec, w, l) # {}
      BY InsideIs, Zenon DEF OnePicture
    <2>2. first \in SlicesTo(codec, w, l) /\ \A p \in SlicesTo(codec, w, l) : first <= p
      BY <2>1, LeastIs
    <2> HIDE DEF first
    <2> QED BY <1>9, <2>1, <2>2
  <1>11. C(told) \in SUBSET Nat /\ SlicesOf(codec, told) \in SUBSET Nat
         /\ \A f : boundaries(codec, told, f) \in SUBSET Nat
    <2>1. C(told) \in SUBSET Nat
      BY DEF find_start_codes, C
    <2>2. SlicesOf(codec, told) \subseteq C(told) /\ \A f : boundaries(codec, told, f) \subseteq C(told)
      BY DEF SlicesOf, boundaries, C
    <2> QED BY <2>1, <2>2
  <1>12. SlicesOf(codec, told) # {} /\ first = Least(SlicesOf(codec, told))
    <2>1. first \in SlicesOf(codec, told)
      BY <1>9, <1>10
    <2>2. ASSUME NEW p \in SlicesOf(codec, told) PROVE first <= p
      <3>1. p \in Nat
        BY <1>11
      <3>2. CASE p <= l
        BY <1>9, <1>10, <3>2
      <3>3. CASE ~(p <= l)
        <4> HIDE DEF first
        <4> QED BY <1>10, <3>1, <3>3
      <3> QED BY <3>2, <3>3
    <2> HIDE DEF first
    <2> QED BY <1>11, <2>1, <2>2, LeastIs
  <1>13. l + 1 \in StopsOf(codec, told)
    <2>1. l + 1 > first
      BY <1>10
    <2>2. l + 1 \in boundaries(codec, told, first)
      BY <1>8, <2>1, Zenon DEF boundaries, C, type
    <2> QED BY <1>12, <2>2, Zenon DEF StopsOf
  <1>14. ASSUME NEW p \in StopsOf(codec, told) PROVE l + 1 <= p
    <2>1. p \in boundaries(codec, told, first)
      BY <1>12, <1>14, Zenon DEF StopsOf
    <2>2. p \in Nat /\ p \in C(told) /\ p > first
      BY <1>11, <2>1 DEF boundaries, C
    <2>3. \/ type(told, p) \in delimiters
          \/ type(told, p) \in vcl /\ starts_picture(codec, told, p) # "no"
      BY <2>1, Zenon DEF boundaries, type
    <2>4. SUFFICES ASSUME p <= l PROVE FALSE
      BY <2>2
    <2>5. p \in C(w) /\ p <= l + 1
      BY <1>5, <2>2, <2>4
    <2>6. type(told, p) = type(w, p)
      BY <1>6, <2>5
    <2>7. p \in Inside(w, l)
      BY <2>4, <2>5 DEF Inside, C
    <2>8. BeginsAt(codec, w, p)
      <3>1. CASE type(told, p) \in delimiters
        BY <2>6, <3>1 DEF BeginsAt, type
      <3>2. CASE type(told, p) \notin delimiters
        <4>1. type(w, p) \in vcl /\ starts_picture(codec, told, p) # "no"
          BY <2>3, <2>6, <3>2
        <4>2. p \in SlicesTo(codec, w, l)
          BY <2>7, <4>1 DEF SlicesTo, type
        <4>3. starts_picture(codec, w, p) = "yes"
          BY <1>7, <4>1, <4>2
        <4> QED BY <4>1, <4>3 DEF BeginsAt, type
      <3> QED BY <3>1, <3>2
    <2> QED BY <2>2, <2>7, <2>8, Zenon DEF OnePicture
  <1>15. EndsAt(codec, told, l + 1)
    <2>1. StopsOf(codec, told) \in SUBSET Nat
      BY <1>11, Zenon DEF StopsOf
    <2>2. StopsOf(codec, told) # {} /\ l + 1 = Least(StopsOf(codec, told))
      BY <1>13, <1>14, <2>1, LeastIs
    <2> QED BY <1>8, <1>12, <2>2, Zenon DEF EndsAt
  <1>16. Least(C(told)) = 1
    <2>1. 1 \in C(told)
      <3>1. 1 \in C(w) /\ 1 <= l + 1
        <4>1. 1 \in Inside(w, l)
          BY Zenon DEF OnePicture
        <4>2. 1 \in C(w)
          BY <4>1, Zenon DEF Inside, C
        <4> QED BY <4>2
      <3> QED BY <1>6, <3>1
    <2>2. \A p \in C(told) : 1 <= p
      <3>1. \A p \in C(told) : p \in Nat \ {0}
        BY <1>4, CodesAre DEF C
      <3> QED BY <3>1
    <2> QED BY <1>11, <2>1, <2>2, LeastIs
  <1>17. KeyBefore(codec, told, l + 1) = KeyTo(codec, w, l)
    <2>1. (\E p \in SlicesOf(codec, told) : p < l + 1 /\ type(told, p) = "idr")
            <=> \E p \in SlicesTo(codec, w, l) : type(w, p) = "idr"
      <3>1. ASSUME NEW p \in SlicesOf(codec, told), p < l + 1
            PROVE  p \in SlicesTo(codec, w, l) /\ type(told, p) = type(w, p)
        <4>1. p \in Nat
          BY <1>11
        <4>2. p <= l /\ p <= l + 1
          BY <3>1, <4>1
        <4>3. p \in C(w)
          BY <1>5 DEF SlicesOf, C
        <4> QED BY <1>6, <1>9, <4>2, <4>3
      <3>2. ASSUME NEW p \in SlicesTo(codec, w, l)
            PROVE  p \in SlicesOf(codec, told) /\ p < l + 1 /\ type(told, p) = type(w, p)
        <4>1. p \in SlicesOf(codec, told) /\ p <= l
          BY <1>9
        <4>2. p \in Nat /\ p \in C(w)
          BY <1>5, <1>11, <4>1 DEF SlicesOf, C
        <4>3. p < l + 1 /\ p <= l + 1
          BY <4>1, <4>2
        <4> QED BY <1>6, <4>1, <4>2, <4>3
      <3> QED BY <3>1, <3>2, Zenon
    <2>2. ASSUME NEW k
          PROVE  (\E p \in C(told) : p < first /\ type(told, p) = k)
                   <=> \E p \in Inside(w, l) : p < first /\ type(w, p) = k
      <3>1. ASSUME NEW p \in C(told), p < first
            PROVE  p \in Inside(w, l) /\ type(told, p) = type(w, p)
        <4>1. p \in Nat /\ p \in C(w)
          BY <1>5, <1>11
        <4>2. p <= l /\ p <= l + 1
          <5> HIDE DEF first
          <5> QED BY <1>10, <3>1, <4>1
        <4> QED BY <1>6, <4>1, <4>2 DEF Inside, C
      <3>2. ASSUME NEW p \in Inside(w, l)
            PROVE  p \in C(told) /\ type(told, p) = type(w, p)
        <4>1. p \in C(w) /\ p <= l /\ p \in Nat
          BY InsideIs DEF C
        <4>2. p <= l + 1
          BY <4>1
        <4> QED BY <1>6, <4>1, <4>2
      <3> HIDE DEF first
      <3> QED BY <3>1, <3>2, Zenon
    <2> QED BY <1>12, <2>1, <2>2, Zenon DEF KeyBefore, KeyTo, C, type
  <1>18. l < tl
    BY <1>3
  <1> QED BY <1>3, <1>15, <1>16, <1>17, <1>18 DEF tl, told, C

\* The last picture is told by nothing, and is what next_au is left with.
LEMMA LastPicture ==
  ASSUME NEW w \in Seq(Byte), NEW codec \in Codecs, OnePicture(codec, w, Len(w))
  PROVE  /\ next_au(codec, w, FALSE) = <<>>
         /\ next_au(codec, w, TRUE) = <<[data |-> w, key |-> KeyTo(codec, w, Len(w))]>>
  <1> DEFINE C == find_start_codes(w)
             type(p) == nal_unit_type_at(w, p)
             slices == SlicesTo(codec, w, Len(w))
             first == Least(slices)
  <1>1. Inside(w, Len(w)) = C /\ \A p \in C : p \in Nat \ {0} /\ p <= Len(w)
    <2>1. \A p \in C : p <= Len(w) /\ p \in Nat \ {0}
      BY CodesAre
    <2> QED BY <2>1 DEF Inside
  <1>2. SlicesOf(codec, w) = slices
    BY <1>1 DEF SlicesOf, SlicesTo
  <1>3. slices # {} /\ 1 \in C
    BY <1>1, Zenon DEF OnePicture
  <1>4. Least(C) = 1
    <2>1. C \in SUBSET Nat /\ \A p \in C : 1 <= p
      BY <1>1
    <2> HIDE DEF C
    <2> QED BY <1>3, <2>1, LeastIs
  <1>5. boundaries(codec, w, first) = {}
    <2>1. ASSUME NEW p \in boundaries(codec, w, first) PROVE FALSE
      <3>1. /\ p \in C /\ p > first
            /\ \/ type(p) \in CodecSpec[codec].delimiters
               \/ /\ type(p) \in CodecSpec[codec].vcl
                  /\ starts_picture(codec, w, p) # "no"
        BY Zenon DEF boundaries
      <3>2. ~BeginsAt(codec, w, p)
        BY <1>1, <3>1, Zenon DEF OnePicture
      <3>3. type(p) \in CodecSpec[codec].vcl /\ starts_picture(codec, w, p) # "no"
            /\ starts_picture(codec, w, p) # "yes"
        BY <3>1, <3>2, Zenon DEF BeginsAt
      <3>4. p \in slices
        BY <1>1, <3>1, <3>3, Zenon DEF SlicesTo
      <3>5. starts_picture(codec, w, p) # "unknown"
        BY <3>4, Zenon DEF OnePicture
      <3>6. starts_picture(codec, w, p) \in {"yes", "no", "unknown"}
        BY StartsSays, Zenon
      <3> QED BY <3>3, <3>5, <3>6
    <2> QED BY <2>1
  <1>6. next_au(codec, w, FALSE) = <<>>
    <2>1. StopsOf(codec, w) = {}
      BY <1>2, <1>5, Zenon DEF StopsOf
    <2>2. \A stop : ~EndsAt(codec, w, stop)
      BY <2>1, Zenon DEF EndsAt
    <2> QED BY <2>2, AuIs, Zenon
  <1>7. next_au(codec, w, TRUE) =
          <<[data |-> SubSeq(w, 1, (Len(w) + 1) - 1),
             key  |-> /\ \E p \in slices : p < Len(w) + 1 /\ type(p) = "idr"
                      /\ \A t \in CodecSpec[codec].params :
                           \E p \in C : p < first /\ type(p) = t]>>
    <2>1. {p \in C : type(p) \in CodecSpec[codec].vcl} = slices
      BY <1>2 DEF SlicesOf
    <2> DEFINE au(sl, st, eof) ==
                 LET f     == Least(sl)
                     stops == boundaries(codec, w, f)
                     stop  == IF stops = {} THEN Len(w) + 1 ELSE Least(stops)
                     known == /\ stops # {}
                              /\ \/ type(stop) \in CodecSpec[codec].delimiters
                                 \/ starts_picture(codec, w, stop) = "yes"
                     key   == /\ \E p \in sl : p < stop /\ type(p) = "idr"
                              /\ \A t \in CodecSpec[codec].params :
                                   \E p \in st : p < f /\ type(p) = t
                 IN  IF sl = {} \/ ~(known \/ eof) THEN <<>>
                     ELSE <<[data |-> SubSeq(w, Least(st), (IF known THEN stop ELSE Len(w) + 1) - 1),
                             key  |-> key]>>
    <2>2. next_au(codec, w, TRUE) = au({p \in C : type(p) \in CodecSpec[codec].vcl}, C, TRUE)
      BY Zenon DEF next_au
    <2>3. next_au(codec, w, TRUE) = au(slices, C, TRUE)
      <3> HIDE DEF au, slices, C, type
      <3> QED BY <2>1, <2>2, Zenon
    <2> HIDE DEF slices, C, type
    <2> QED BY <1>3, <1>4, <1>5, <2>3
  <1>8. SubSeq(w, 1, (Len(w) + 1) - 1) = w
    <2>1. (Len(w) + 1) - 1 = Len(w)
      OBVIOUS
    <2> QED BY <2>1, AllDrained, Zenon
  <1>9. (/\ \E p \in slices : p < Len(w) + 1 /\ type(p) = "idr"
         /\ \A t \in CodecSpec[codec].params : \E p \in C : p < first /\ type(p) = t)
          = KeyTo(codec, w, Len(w))
    <2>1. \A p \in slices : p < Len(w) + 1
      <3>1. \A p \in slices : p \in C
        BY <1>1 DEF SlicesTo
      <3> HIDE DEF slices, C
      <3> QED BY <1>1, <3>1
    <2> QED BY <1>1, <2>1, Zenon DEF KeyTo
  <1> QED BY <1>6, <1>7, <1>8, <1>9, Zenon

\* The picture between two cuts, as the framer sees it: at the front of a buffer.
LEMMA CutPicture ==
  ASSUME NEW s \in Sources, InRow(s), WellCut(s), NEW k \in 1 .. Len(s.frames)
  PROVE  LET c == s.cuts[k]
             e == s.cuts[k + 1]
             l == e - c
             w == Drained(s.bytes, c)
         IN  /\ c \in Nat /\ e \in Nat /\ l \in Nat /\ c < e /\ e <= Len(s.bytes)
             /\ w \in Seq(Byte) /\ Len(w) = Len(s.bytes) - c
             /\ s.frames[k] = Frame(Between(s.bytes, c, e), IsKey(s, k))
             /\ OnePicture(s.format, w, l)
             /\ KeyTo(s.format, w, l) = IsKey(s, k)
             /\ k \in 1 .. Len(s.known) =>
                  /\ l + 1 \in find_start_codes(w)
                  /\ BeginsAt(s.format, w, l + 1)
                  /\ s.known[k] = c + ToldBy(s.format, w, l + 1)
  <1> DEFINE b == s.bytes
             c == s.cuts[k]
             e == s.cuts[k + 1]
             l == e - c
             w == Drained(b, c)
             codec == s.format
             vcl == CodecSpec[codec].vcl
             delimiters == CodecSpec[codec].delimiters
             C(x) == find_start_codes(x)
             type(x, p) == nal_unit_type_at(x, p)
             first == Least(SlicesTo(codec, w, l))
  <1>1. /\ b \in Seq(Byte) /\ Len(b) \in Nat /\ c \in Nat /\ e \in Nat /\ l \in Nat
        /\ c < e /\ e <= Len(b) /\ c <= Len(b)
        /\ Len(s.known) \in Nat /\ Len(s.frames) \in Nat /\ Len(s.frames) = Len(s.known) + 1
    <2>1. /\ b \in Seq(Byte) /\ Len(b) \in Nat /\ Len(s.known) \in Nat /\ Len(s.frames) \in Nat
          /\ \A i \in 1 .. Len(s.frames) + 1 : s.cuts[i] \in Nat /\ s.cuts[i] <= Len(s.bytes)
          /\ \A i \in 1 .. Len(s.frames) : s.cuts[i] < s.cuts[i + 1]
      BY MadeIs
    <2>2. k \in 1 .. Len(s.frames) + 1 /\ k + 1 \in 1 .. Len(s.frames) + 1
      BY <2>1
    <2>3. c \in Nat /\ e \in Nat /\ c < e /\ e <= Len(b)
      BY <2>1, <2>2
    <2>4. Len(s.frames) = Len(s.known) + 1
      BY Zenon DEF WellCut
    <2> HIDE DEF c, e
    <2> QED BY <2>1, <2>3, <2>4
  <1>2. codec \in Codecs
    BY Zenon DEF WellCut, Codecs
  <1>3. /\ c + 1 \in Nals(s, k)
        /\ Slices(s, k) # {}
        /\ \A p \in Nals(s, k) : p > Least(Slices(s, k)) => ~Begins(s, p)
        /\ \A p \in Slices(s, k) : starts_picture(codec, b, p) # "unknown"
        /\ s.frames[k] = Frame(Span(s, k), IsKey(s, k))
    BY Zenon DEF WellCut
  <1>4. c + 1 \in C(b)
    BY <1>3 DEF Nals
  <1>5. w \in Seq(Byte) /\ Len(w) = Len(b) - c
    BY <1>1, RestIs
  <1>6. /\ \A i \in Nat \ {0} : i \in C(w) <=> c + i \in C(b)
        /\ \A i \in C(w) : header_at(b, c + i) = c + header_at(w, i)
    BY <1>1, <1>4, CodesShift
  <1>7. ASSUME NEW i \in C(w)
        PROVE  /\ type(w, i) = type(b, c + i)
               /\ starts_picture(codec, w, i) = starts_picture(codec, b, c + i)
               /\ i \in Nat \ {0}
    <2>1. i \in Nat \ {0}
      BY <1>5, CodesAre
    <2> QED BY <1>1, <1>2, <1>4, <2>1, NalsShift
  <1>8. ASSUME NEW q \in C(b), c < q PROVE q - c \in C(w) /\ c + (q - c) = q /\ q \in Nat
    <2>1. q \in Nat /\ q - c \in Nat \ {0} /\ c + (q - c) = q
      <3>1. q \in Nat
        BY <1>1, CodesAre
      <3> HIDE DEF c
      <3> QED BY <1>1, <1>8, <3>1
    <2> QED BY <1>6, <2>1
  <1> HIDE DEF w, C, type, b
  <1>9. ASSUME NEW i \in C(w) PROVE BeginsAt(codec, w, i) <=> Begins(s, c + i)
    BY <1>7, Zenon DEF BeginsAt, Begins, Delimits, type, b
  \* The NALs of the frame, here and there.
  <1>10. \A i \in C(w) : i <= l <=> c + i <= e
    <2>1. ASSUME NEW i \in C(w) PROVE i <= l <=> c + i <= e
      <3>1. i \in Nat
        BY <1>7
      <3> HIDE DEF c, e
      <3> QED BY <1>1, <3>1
    <2> QED BY <2>1
  <1>11. \A i \in C(w) : c < c + i /\ c + i \in C(b)
    <2>1. ASSUME NEW i \in C(w) PROVE c < c + i /\ c + i \in C(b)
      <3>1. i \in Nat \ {0}
        BY <1>7
      <3>2. c + i \in C(b)
        BY <1>6, <3>1
      <3> HIDE DEF c
      <3> QED BY <1>1, <3>1, <3>2
    <2> QED BY <2>1
  <1>12. ASSUME NEW i \in Inside(w, l) PROVE i \in C(w) /\ c + i \in Nals(s, k)
    <2>1. i \in C(w) /\ i <= l
      BY <1>12 DEF Inside, C
    <2>2. c + i <= e /\ c < c + i /\ c + i \in C(b)
      BY <1>10, <1>11, <2>1
    <2> QED BY <2>1, <2>2, Zenon DEF Nals, C, b
  <1>13. ASSUME NEW q \in Nals(s, k)
         PROVE  q - c \in Inside(w, l) /\ c + (q - c) = q /\ q \in Nat
    <2>1. q \in C(b) /\ c < q /\ q <= e
      BY <1>13, Zenon DEF Nals, C, b
    <2>2. q - c \in C(w) /\ c + (q - c) = q /\ q \in Nat
      BY <1>8, <2>1
    <2>3. q - c <= l
      BY <1>10, <2>1, <2>2
    <2> QED BY <2>2, <2>3 DEF Inside, C
  <1>14. ASSUME NEW i \in SlicesTo(codec, w, l) PROVE i \in Inside(w, l) /\ c + i \in Slices(s, k)
    <2>1. i \in Inside(w, l) /\ type(w, i) \in vcl
      BY <1>14 DEF SlicesTo, type
    <2>2. c + i \in Nals(s, k) /\ type(b, c + i) \in vcl
      BY <1>7, <1>12, <2>1
    <2> QED BY <2>1, <2>2, Zenon DEF Slices, type, b
  <1>15. ASSUME NEW q \in Slices(s, k)
         PROVE  q - c \in SlicesTo(codec, w, l) /\ c + (q - c) = q /\ q \in Nat
    <2>1. q \in Nals(s, k) /\ type(b, q) \in vcl
      BY <1>15, Zenon DEF Slices, type, b
    <2>2. q - c \in Inside(w, l) /\ c + (q - c) = q /\ q \in Nat
      BY <1>13, <2>1
    <2>3. type(w, q - c) \in vcl
      BY <1>7, <1>12, <2>1, <2>2
    <2> QED BY <2>2, <2>3, Zenon DEF SlicesTo, type
  <1>16. /\ first \in SlicesTo(codec, w, l) /\ first \in Nat
         /\ \A p \in SlicesTo(codec, w, l) : first <= p
         /\ SlicesTo(codec, w, l) # {}
    <2>1. SlicesTo(codec, w, l) # {}
      BY <1>3, <1>15
    <2>2. SlicesTo(codec, w, l) \in SUBSET Nat
      BY <1>5, InsideIs, Zenon
    <2>3. first \in SlicesTo(codec, w, l) /\ \A p \in SlicesTo(codec, w, l) : first <= p
      BY <2>1, <2>2, LeastIs
    <2> HIDE DEF first
    <2> QED BY <2>1, <2>2, <2>3
  <1>17. Least(Slices(s, k)) = c + first
    <2>1. Slices(s, k) \in SUBSET Nat
      BY <1>15
    <2>2. c + first \in Slices(s, k)
      BY <1>14, <1>16
    <2>3. ASSUME NEW q \in Slices(s, k) PROVE c + first <= q
      <3>1. q - c \in SlicesTo(codec, w, l) /\ c + (q - c) = q /\ q \in Nat
        BY <1>15
      <3>2. first <= q - c
        BY <1>16, <3>1
      <3> HIDE DEF first, c
      <3> QED BY <1>1, <1>16, <3>1, <3>2
    <2> HIDE DEF first, c
    <2> QED BY <2>1, <2>2, <2>3, LeastIs
  <1> HIDE DEF first
  <1>18. ASSUME NEW i \in C(w) PROVE (i > first <=> c + i > Least(Slices(s, k)))
                                     /\ (i < first <=> c + i < Least(Slices(s, k)))
    <2>1. i \in Nat
      BY <1>7
    <2> HIDE DEF c
    <2> QED BY <1>1, <1>16, <1>17, <2>1
  <1>19. OnePicture(codec, w, l)
    <2>1. 1 \in Inside(w, l)
      <3>1. (c + 1) - c \in Inside(w, l)
        BY <1>3, <1>13
      <3>2. (c + 1) - c = 1
        <4> HIDE DEF c
        <4> QED BY <1>1
      <3> QED BY <3>1, <3>2
    <2>2. ASSUME NEW i \in Inside(w, l), i > first PROVE ~BeginsAt(codec, w, i)
      BY <1>3, <1>9, <1>12, <1>18, <2>2
    <2>3. ASSUME NEW i \in SlicesTo(codec, w, l) PROVE starts_picture(codec, w, i) # "unknown"
      <3>1. i \in C(w) /\ c + i \in Slices(s, k)
        BY <1>12, <1>14
      <3> QED BY <1>3, <1>7, <3>1
    <2> QED BY <1>16, <2>1, <2>2, <2>3, Zenon DEF OnePicture, first
  <1>20. KeyTo(codec, w, l) = IsKey(s, k)
    <2>1. (\E i \in SlicesTo(codec, w, l) : type(w, i) = "idr")
            <=> \E q \in Slices(s, k) : type(b, q) = "idr"
      <3>1. ASSUME NEW i \in SlicesTo(codec, w, l)
            PROVE  c + i \in Slices(s, k) /\ type(b, c + i) = type(w, i)
        BY <1>7, <1>12, <1>14
      <3>2. ASSUME NEW q \in Slices(s, k)
            PROVE  q - c \in SlicesTo(codec, w, l) /\ type(w, q - c) = type(b, q)
        BY <1>7, <1>12, <1>14, <1>15
      <3> QED BY <3>1, <3>2, Zenon
    <2>2. ASSUME NEW t
          PROVE  (\E i \in Inside(w, l) : i < first /\ type(w, i) = t)
                   <=> \E q \in Nals(s, k) : q < Least(Slices(s, k)) /\ type(b, q) = t
      <3>1. ASSUME NEW i \in Inside(w, l), i < first
            PROVE  c + i \in Nals(s, k) /\ type(b, c + i) = type(w, i)
                   /\ c + i < Least(Slices(s, k))
        BY <1>7, <1>12, <1>18, <3>1
      <3>2. ASSUME NEW q \in Nals(s, k), q < Least(Slices(s, k))
            PROVE  q - c \in Inside(w, l) /\ type(w, q - c) = type(b, q) /\ q - c < first
        <4>1. q - c \in Inside(w, l) /\ c + (q - c) = q
          BY <1>13
        <4>2. q - c \in C(w)
          BY <1>12, <4>1
        <4> QED BY <1>7, <1>18, <3>2, <4>1, <4>2
      <3> QED BY <3>1, <3>2, Zenon
    <2> QED BY <2>1, <2>2, Zenon DEF KeyTo, IsKey, first, type, b
  <1>21. ASSUME k \in 1 .. Len(s.known)
         PROVE  /\ l + 1 \in C(w) /\ BeginsAt(codec, w, l + 1)
                /\ s.known[k] = c + ToldBy(codec, w, l + 1)
    <2>1. /\ Begins(s, e + 1)
          /\ s.known[k] = header_at(b, e + 1)
                            + IF Delimits(s, e + 1) THEN 0 ELSE CodecSpec[codec].header
      BY <1>21, Zenon DEF WellCut, b
    <2>2. e + 1 \in C(b)
      <3>1. k + 1 \in 1 .. Len(s.frames)
        BY <1>1, <1>21
      <3>2. s.cuts[k + 1] + 1 \in Nals(s, k + 1)
        BY <3>1, Zenon DEF WellCut
      <3> QED BY <3>2, Zenon DEF Nals, C, b
    <2>3. l + 1 \in Nat \ {0} /\ c + (l + 1) = e + 1
      <3> HIDE DEF c, e
      <3> QED BY <1>1
    <2>4. l + 1 \in C(w)
      BY <1>6, <2>2, <2>3
    <2> DEFINE i == l + 1
    <2>5. i \in C(w) /\ c + i = e + 1
      BY <2>3, <2>4
    <2> HIDE DEF i, l, c, e
    <2>6. BeginsAt(codec, w, i)
      BY <1>9, <2>1, <2>5
    <2>7. s.known[k] = c + ToldBy(codec, w, i)
      <3> DEFINE more == IF type(w, i) \in delimiters THEN 0 ELSE CodecSpec[codec].header
      <3>1. Delimits(s, e + 1) <=> type(w, i) \in delimiters
        BY <1>7, <2>5 DEF Delimits, type, b
      <3>2. header_at(b, e + 1) = c + header_at(w, i) /\ header_at(w, i) \in Nat
        <4>1. header_at(w, i) \in Nat
          BY <1>5, <2>5, CodesAre DEF C
        <4> QED BY <1>6, <2>5, <4>1
      <3>3. more \in Nat
        BY <1>2 DEF CodecSpec, Codecs
      <3>4. s.known[k] = header_at(b, e + 1) + more
        <4>1. CASE type(w, i) \in delimiters
          BY <2>1, <3>1, <4>1
        <4>2. CASE type(w, i) \notin delimiters
          BY <2>1, <3>1, <4>2
        <4> QED BY <4>1, <4>2
      <3>5. ToldBy(codec, w, i) = header_at(w, i) + more
        BY Zenon DEF ToldBy, type
      <3> HIDE DEF more
      <3> QED BY <1>1, <3>2, <3>3, <3>4, <3>5
    <2> QED BY <2>4, <2>6, <2>7 DEF i
  <1>22. Between(b, c, e) = Span(s, k)
    BY DEF Between, Span, b
  <1> QED BY <1>1, <1>3, <1>5, <1>19, <1>20, <1>21, <1>22, Zenon DEF w, b, C

\* Bytes of the t bytes from a place on.
LEMMA BetweenPart ==
  ASSUME NEW b \in Seq(Byte), NEW c \in Nat, NEW t \in Nat, c + t <= Len(b)
  PROVE  \A x, y \in Nat : x <= y /\ y <= t =>
           Between(Between(b, c, c + t), x, y) = Between(b, c + x, c + y)
  <1> SUFFICES ASSUME NEW x \in Nat, NEW y \in Nat, x <= y, y <= t
               PROVE  Between(Between(b, c, c + t), x, y) = Between(b, c + x, c + y)
    OBVIOUS
  <1>1. PICK j \in Nat : j = c + t
    OBVIOUS
  <1>2. c <= j /\ j <= Len(b) /\ y <= j - c
    BY <1>1
  <1>3. Between(Between(b, c, j), x, y) = Between(b, c + x, c + y)
    BY <1>2, BetweenOf
  <1> QED BY <1>1, <1>3, Zenon

\* Access units are taken apart as they were cut, and the last one is kept.
LEMMA CutRight ==
  ASSUME NEW s \in Sources, InRow(s), WellCut(s)
  PROVE  Right(s)
  <1> DEFINE n == Len(s.known)
             b == s.bytes
             codec == s.format
  <1>1. /\ b \in Seq(Byte) /\ Len(b) \in Nat /\ n \in Nat /\ codec \in Codecs
        /\ Len(s.frames) = n + 1 /\ s.frames \in Seq(Frames)
        /\ s.cuts[1] = 0 /\ s.cuts[Len(s.frames) + 1] = Len(b)
    <2>1. b \in Seq(Byte) /\ Len(b) \in Nat /\ n \in Nat /\ s.frames \in Seq(Frames)
      BY MadeIs
    <2> QED BY <2>1, Zenon DEF WellCut, Codecs
  <1>2. ASSUME NEW x, NEW rd PROVE Pull(codec, x, rd) = pull_au(codec, x, rd)
    BY <1>1 DEF Pull, Codecs
  <1>3. ASSUME NEW k \in 1 .. n
        PROVE  /\ s.cuts[k + 1] <= s.known[k] /\ s.known[k] <= Len(b)
               /\ Pull(codec, Between(b, s.cuts[k], s.known[k]), NewReader)
                    = Answer("frame", <<s.frames[k]>>,
                             Between(b, s.cuts[k + 1], s.known[k]), NewReader)
    <2> DEFINE c == s.cuts[k]
               e == s.cuts[k + 1]
               l == e - c
               w == Drained(b, c)
               tl == ToldBy(codec, w, l + 1)
               told == Between(w, 0, tl)
               key == IsKey(s, k)
    <2>1. /\ c \in Nat /\ e \in Nat /\ l \in Nat /\ c < e /\ e <= Len(b)
          /\ w \in Seq(Byte) /\ Len(w) = Len(b) - c
          /\ s.frames[k] = Frame(Between(b, c, e), key)
          /\ OnePicture(codec, w, l) /\ KeyTo(codec, w, l) = key
          /\ l + 1 \in find_start_codes(w) /\ BeginsAt(codec, w, l + 1)
          /\ s.known[k] = c + tl
      <3>1. k \in 1 .. Len(s.frames)
        BY <1>1
      <3> QED BY <3>1, CutPicture, Zenon
    <2>2. /\ tl \in Nat /\ l < tl /\ tl <= Len(w) /\ EndsAt(codec, told, l + 1)
          /\ Least(find_start_codes(told)) = 1 /\ KeyBefore(codec, told, l + 1) = key
      <3> HIDE DEF w, l, key
      <3> QED BY <1>1, <2>1, PictureTold, Zenon
    <2> HIDE DEF tl
    <2>3. /\ c + tl \in Nat /\ c + tl <= Len(b) /\ e < c + tl /\ c + l = e
          /\ c <= Len(b) /\ c <= c + tl /\ 0 <= l /\ l <= (c + tl) - c /\ 0 \in Nat
          /\ l <= tl /\ (c + tl) - c = tl /\ tl <= tl /\ c + 0 = c /\ tl \in 0 .. Len(b) - c
      <3>1. Len(w) = Len(b) - c
        BY <2>1
      <3> HIDE DEF c, e, w
      <3> QED BY <1>1, <2>1, <2>2, <3>1
    <2>4. told = Between(b, c, c + tl)
      <3>1. \A m \in 0 .. Len(b) - c : SubSeq(Drained(b, c), 1, m) = Between(b, c, c + m)
        BY <1>1, <2>1, <2>3, BetweenEnds
      <3>2. 0 + 1 = 1
        OBVIOUS
      <3>3. told = SubSeq(Drained(b, c), 1, tl)
        BY <3>2, Zenon DEF Between
      <3> QED BY <2>3, <3>1, <3>3, Zenon
    <2>5. told \in Seq(Byte) /\ Len(told) = tl
      <3>1. told \in Seq(Byte) /\ Len(told) = (c + tl) - c
        <4> HIDE DEF told, c
        <4> QED BY <1>1, <2>1, <2>3, <2>4, BetweenIs
      <3> QED BY <2>3, <3>1, Zenon
    <2> HIDE DEF told, w, c, e
    <2>6. Between(told, 0, l) = Between(b, c, e) /\ Between(told, l, tl) = Between(b, e, c + tl)
      <3>1. \A x, y \in Nat : x <= y /\ y <= tl =>
              Between(Between(b, c, c + tl), x, y) = Between(b, c + x, c + y)
        <4> HIDE DEF b, l, n, key
        <4>1. b \in Seq(Byte) /\ c \in Nat /\ tl \in Nat /\ c + tl <= Len(b)
          BY <1>1, <2>1, <2>2, <2>3, Zenon
        <4> QED BY <4>1, BetweenPart, Zenon
      <3> HIDE DEF l
      <3>2. Between(told, 0, l) = Between(b, c + 0, c + l)
        BY <2>1, <2>3, <2>4, <3>1, Zenon
      <3>3. Between(told, l, tl) = Between(b, c + l, c + tl)
        BY <2>1, <2>2, <2>3, <2>4, <3>1, Zenon
      <3> QED BY <2>3, <3>2, <3>3, Zenon
    <2>7. /\ SubSeq(told, 1, l) = Between(b, c, e) /\ Drained(told, l) = Between(b, e, c + tl)
          /\ Len(Between(b, c, e)) = l
      <3>1. SubSeq(told, 1, l) = Between(told, 0, l)
        <4>1. 0 + 1 = 1
          OBVIOUS
        <4> QED BY <4>1, Zenon DEF Between
      <3>2. Drained(told, l) = Between(told, l, tl)
        BY <2>5, Zenon DEF Drained, Between
      <3>3. Len(Between(b, c, e)) = l
        <4>1. c <= e
          BY <2>1
        <4> QED BY <1>1, <2>1, <4>1, BetweenIs
      <3> HIDE DEF l
      <3> QED BY <2>6, <3>1, <3>2, <3>3, Zenon
    <2> HIDE DEF key
    <2> DEFINE au == [data |-> Between(b, c, e), key |-> key]
    <2>8. au.data = Between(b, c, e) /\ au.key = key
      OBVIOUS
    <2>9. next_au(codec, told, FALSE) = <<au>>
      <3>1. next_au(codec, told, FALSE)
              = <<[data |-> SubSeq(told, 1, (l + 1) - 1), key |-> key]>>
        <4> HIDE DEF l
        <4> QED BY <2>2, AuIs, Zenon
      <3>2. (l + 1) - 1 = l
        <4> HIDE DEF l
        <4> QED BY <2>1
      <3> HIDE DEF l
      <3> QED BY <2>7, <3>1, <3>2, Zenon
    <2> HIDE DEF au
    <2>10. pull_au(codec, told, NewReader)
             = Answer("frame", <<Frame(SubSeq(told, 1, l), key)>>, Drained(told, l), NewReader)
      <3>1. Len(au.data) = l /\ au.key = key
        BY <2>7, <2>8, Zenon
      <3> HIDE DEF l
      <3> QED BY <2>9, <3>1, OneAu, Zenon DEF pull_au
    <2>11. Pull(codec, told, NewReader)
             = Answer("frame", <<s.frames[k]>>, Between(b, e, c + tl), NewReader)
      <3> HIDE DEF l
      <3> QED BY <1>2, <2>1, <2>7, <2>10, Zenon
    <2>12. e <= c + tl
      BY <2>1, <2>3
    <2> HIDE DEF b
    <2> QED BY <2>1, <2>3, <2>4, <2>11, <2>12, Zenon DEF c, e
  <1>4. LET rest == Drained(b, s.cuts[n + 1])
        IN  /\ Pull(codec, rest, NewReader) = NeedMore(rest, NewReader)
            /\ SubSeq(s.frames, 1, n) \o next_au(codec, rest, TRUE) = s.frames
    <2> DEFINE k == n + 1
               c == s.cuts[k]
               e == s.cuts[k + 1]
               w == Drained(b, c)
               key == IsKey(s, k)
    <2>1. /\ c \in Nat /\ c <= e /\ w \in Seq(Byte) /\ Len(w) = Len(b) - c
          /\ s.frames[k] = Frame(Between(b, c, e), key)
          /\ OnePicture(codec, w, e - c) /\ KeyTo(codec, w, e - c) = key
      <3>1. k \in 1 .. Len(s.frames)
        BY <1>1
      <3> HIDE DEF k
      <3>2. /\ c \in Nat /\ c < e /\ e \in Nat /\ w \in Seq(Byte) /\ Len(w) = Len(b) - c
            /\ s.frames[k] = Frame(Between(b, c, e), key)
            /\ OnePicture(codec, w, e - c) /\ KeyTo(codec, w, e - c) = key
        BY <3>1, CutPicture, Zenon
      <3>3. c <= e
        BY <3>2
      <3> QED BY <3>2, <3>3, Zenon
    <2>2. e = Len(b) /\ k \in Nat
      <3>1. e = s.cuts[Len(s.frames) + 1]
        BY <1>1
      <3> QED BY <1>1, <3>1
    <2>3. OnePicture(codec, w, Len(w)) /\ KeyTo(codec, w, Len(w)) = key
      <3> HIDE DEF w, key, c, e
      <3> QED BY <2>1, <2>2
    <2>4. Between(b, c, e) = w
      BY <2>2 DEF Between, Drained
    <2> HIDE DEF w, key
    <2>5. /\ next_au(codec, w, FALSE) = <<>>
          /\ next_au(codec, w, TRUE) = <<[data |-> w, key |-> key]>>
      BY <1>1, <2>1, <2>3, LastPicture, Zenon
    <2>6. s.frames[k] = [data |-> w, key |-> key]
      BY <2>1, <2>4 DEF Frame
    <2>7. Pull(codec, w, NewReader) = NeedMore(w, NewReader)
      BY <1>2, <2>5, Zenon DEF pull_au
    <2>8. SubSeq(s.frames, 1, n) \o <<s.frames[k]>> = s.frames
      <3>1. n <= Len(s.frames) /\ n + 1 <= Len(s.frames)
        BY <1>1
      <3>2. SubSeq(s.frames, 1, n) \o <<s.frames[n + 1]>> = SubSeq(s.frames, 1, n + 1)
        BY <1>1, <3>1, Firsts, Zenon
      <3>3. SubSeq(s.frames, 1, n + 1) = s.frames
        BY <1>1
      <3> QED BY <3>2, <3>3
    <2> QED BY <2>5, <2>6, <2>7, <2>8, Zenon DEF w
  <1>5. Unfolds(s, NewReader)
    <2>1. n <= Len(s.frames)
      BY <1>1
    <2> QED BY <1>3, <1>4, <2>1, Zenon DEF Unfolds
  <1> QED BY <1>1, <1>5, UnfoldsRight, Zenon

-----------------------------------------------------------------------------
(* Ogg: pages of packets *)

\* A part of a sequence, its first element, and the next one after it.
LEMMA PartIs ==
  ASSUME NEW S, NEW q \in Seq(S), NEW i \in Nat, NEW j \in Nat, i <= j, j <= Len(q)
  PROVE  /\ Between(q, i, j) \in Seq(S) /\ Len(Between(q, i, j)) = j - i
         /\ \A x \in 1 .. j - i : Between(q, i, j)[x] = q[i + x]
  <1>1. \A k \in i + 1 .. j : k \in 1 .. Len(q) /\ q[k] \in S
    BY ElementOfSeq
  <1> QED BY <1>1 DEF Between

LEMMA PartFirst ==
  ASSUME NEW S, NEW q \in Seq(S), NEW i \in Nat, NEW j \in Nat, i < j, j <= Len(q)
  PROVE  /\ Between(q, i, j) # <<>> /\ Head(Between(q, i, j)) = q[i + 1]
         /\ Tail(Between(q, i, j)) = Between(q, i + 1, j)
  <1> DEFINE w == Between(q, i, j)
             r == Between(q, i + 1, j)
  <1>1. i <= j /\ i + 1 \in Nat /\ i + 1 <= j /\ 1 \in 1 .. j - i
    OBVIOUS
  <1>2. w \in Seq(S) /\ Len(w) = j - i /\ \A x \in 1 .. j - i : w[x] = q[i + x]
    BY <1>1, PartIs
  <1>3. r \in Seq(S) /\ Len(r) = j - (i + 1) /\ \A x \in 1 .. j - (i + 1) : r[x] = q[(i + 1) + x]
    BY <1>1, PartIs
  <1> HIDE DEF w, r
  <1>4. w # <<>> /\ Head(w) = w[1]
    BY <1>2
  <1>5. Tail(w) \in Seq(S) /\ Len(Tail(w)) = (j - i) - 1
        /\ \A x \in 1 .. (j - i) - 1 : Tail(w)[x] = w[x + 1]
    BY <1>2, <1>4, HeadTailProperties
  <1> DEFINE v == Tail(w)
  <1> HIDE DEF v
  <1>6. ASSUME NEW x \in 1 .. (j - i) - 1 PROVE v[x] = r[x]
    <2>1. x + 1 \in 1 .. j - i /\ x \in 1 .. j - (i + 1) /\ i + (x + 1) = (i + 1) + x
      OBVIOUS
    <2>2. v[x] = w[x + 1]
      BY <1>5 DEF v
    <2> QED BY <1>2, <1>3, <2>1, <2>2
  <1>7. v \in Seq(S) /\ Len(v) = (j - i) - 1 /\ Len(r) = Len(v)
    BY <1>3, <1>5 DEF v
  <1>8. v = r
    BY <1>3, <1>6, <1>7, SeqEqual
  <1> QED BY <1>1, <1>2, <1>4, <1>8 DEF v, w, r

LEMMA PartNext ==
  ASSUME NEW S, NEW q \in Seq(S), NEW i \in Nat, NEW j \in Nat, i <= j, j + 1 <= Len(q)
  PROVE  Append(Between(q, i, j), q[j + 1]) = Between(q, i, j + 1)
  <1> DEFINE w == Between(q, i, j)
             r == Between(q, i, j + 1)
             v == Append(w, q[j + 1])
  <1>1. j <= Len(q) /\ i <= j + 1 /\ j + 1 \in Nat /\ q[j + 1] \in S
    BY ElementOfSeq
  <1>2. w \in Seq(S) /\ Len(w) = j - i /\ \A x \in 1 .. j - i : w[x] = q[i + x]
    BY <1>1, PartIs
  <1>3. r \in Seq(S) /\ Len(r) = (j + 1) - i /\ \A x \in 1 .. (j + 1) - i : r[x] = q[i + x]
    BY <1>1, PartIs
  <1> HIDE DEF w, r
  <1>4. v \in Seq(S) /\ Len(v) = (j - i) + 1 /\ v[(j - i) + 1] = q[j + 1]
        /\ \A x \in 1 .. j - i : v[x] = w[x]
    BY <1>1, <1>2, AppendProperties
  <1> HIDE DEF v
  <1>5. ASSUME NEW x \in 1 .. (j + 1) - i PROVE v[x] = r[x]
    <2>1. CASE x = (j - i) + 1
      <3>1. i + x = j + 1
        BY <2>1
      <3> QED BY <1>3, <1>4, <2>1, <3>1
    <2>2. CASE x # (j - i) + 1
      <3>1. x \in 1 .. j - i
        BY <2>2
      <3> QED BY <1>2, <1>3, <1>4, <3>1
    <2> QED BY <2>1, <2>2
  <1>6. v = r
    <2>1. Len(v) = Len(r) /\ Len(v) = (j + 1) - i
      BY <1>3, <1>4
    <2> QED BY <1>3, <1>4, <1>5, <2>1, SeqEqual
  <1> QED BY <1>6 DEF v, w, r

\* What lies in the page of a stream is in its place.
LEMMA LacedIs ==
  ASSUME NEW s, WellLaced(s)
  PROVE  /\ Segments(s) \in Nat /\ s.payload \in Seq(Byte) /\ Len(s.payload) \in Nat
         /\ Len(s.segs) = Segments(s) + 1 /\ SegEnd(s, 0) = 0
         /\ \A g \in 0 .. Segments(s) : SegEnd(s, g) \in Nat /\ SegEnd(s, g) <= Len(s.payload)
         /\ \A g \in 1 .. Segments(s) :
              /\ Lace(s, g) \in Nat /\ Lace(s, g) <= Full
              /\ SegEnd(s, g) = SegEnd(s, g - 1) + Lace(s, g)
  <1>1. /\ s.payload \in Seq(Byte) /\ s.segs \in Seq(0 .. Len(s.payload))
        /\ s.segs # <<>> /\ s.segs[1] = 0
        /\ \A g \in 1 .. Segments(s) :
             /\ SegEnd(s, g - 1) <= SegEnd(s, g)
             /\ Lace(s, g) <= Full
    BY Zenon DEF WellLaced
  <1>2. Segments(s) \in Nat /\ Len(s.segs) = Segments(s) + 1 /\ Len(s.payload) \in Nat
    BY <1>1, EmptySeq DEF Segments
  <1>3. ASSUME NEW g \in 0 .. Segments(s)
        PROVE  SegEnd(s, g) \in Nat /\ SegEnd(s, g) <= Len(s.payload)
    <2>1. g + 1 \in 1 .. Len(s.segs)
      BY <1>2
    <2>2. s.segs[g + 1] \in 0 .. Len(s.payload)
      BY <1>1, <2>1, ElementOfSeq
    <2> QED BY <1>2, <2>2 DEF SegEnd
  <1>4. SegEnd(s, 0) = 0
    BY <1>1 DEF SegEnd
  <1>5. ASSUME NEW g \in 1 .. Segments(s)
        PROVE  /\ Lace(s, g) \in Nat /\ Lace(s, g) <= Full
               /\ SegEnd(s, g) = SegEnd(s, g - 1) + Lace(s, g)
    <2>1. g \in 0 .. Segments(s) /\ g - 1 \in 0 .. Segments(s)
      BY <1>2
    <2>2. SegEnd(s, g) \in Nat /\ SegEnd(s, g - 1) \in Nat
      BY <1>3, <2>1
    <2>3. SegEnd(s, g - 1) <= SegEnd(s, g) /\ Lace(s, g) <= Full
      BY <1>1
    <2>4. Lace(s, g) = SegEnd(s, g) - SegEnd(s, g - 1)
      BY DEF Lace
    <2> QED BY <2>2, <2>3, <2>4
  <1> QED BY <1>1, <1>2, <1>3, <1>4, <1>5

\* The segments lie one behind the other.
LEMMA SegsGrow ==
  ASSUME NEW s, WellLaced(s), NEW g \in 0 .. Segments(s), NEW h \in g .. Segments(s)
  PROVE  SegEnd(s, g) <= SegEnd(s, h)
  <1> DEFINE n == Segments(s)
             f == [i \in 0 .. n |-> SegEnd(s, i)]
             ns == [i \in 1 .. n |-> Lace(s, i)]
  <1>1. /\ n \in Nat /\ SegEnd(s, 0) = 0 /\ (\A i \in 0 .. n : SegEnd(s, i) \in Nat)
        /\ \A i \in 1 .. n : /\ Lace(s, i) \in Nat
                             /\ SegEnd(s, i) = SegEnd(s, i - 1) + Lace(s, i)
    BY LacedIs
  <1> HIDE DEF n
  <1>2. /\ f \in [0 .. n -> Nat] /\ \A i \in 0 .. n : f[i] = SegEnd(s, i)
    BY <1>1
  <1>3. \A i \in 1 .. n : ns[i] = Lace(s, i)
    OBVIOUS
  <1> HIDE DEF f, ns
  <1>4. Adds(f, ns, n)
    <2>1. f[0] = 0
      BY <1>1, <1>2
    <2>2. ASSUME NEW i \in 1 .. n PROVE f[i] = f[i - 1] + ns[i]
      <3>1. i \in 0 .. n /\ i - 1 \in 0 .. n
        BY <1>1
      <3> QED BY <1>1, <1>2, <1>3, <3>1
    <2> QED BY <1>2, <2>1, <2>2 DEF Adds
  <1>5. g \in 0 .. n /\ h \in g .. n /\ h \in 0 .. n
    BY <1>1 DEF n
  <1>6. \A i \in 1 .. n : ns[i] \in Nat
    BY <1>1, <1>3
  <1>7. f[g] <= f[h]
    BY <1>1, <1>4, <1>5, <1>6, SumsGrow
  <1> QED BY <1>2, <1>5, <1>7

\* The last of the first g segments that ends a packet.
LEMMA LastEndIs ==
  ASSUME NEW s, WellLaced(s), NEW g \in 0 .. Segments(s)
  PROVE  /\ LastEnd(s, g) \in 0 .. g
         /\ EndsPacket(s, g) => LastEnd(s, g) = g
         /\ ~EndsPacket(s, g) => g # 0 /\ LastEnd(s, g) = LastEnd(s, g - 1)
  <1> DEFINE P(x, h) == h \in 0 .. x /\ EndsPacket(s, h)
                          /\ \A y \in h + 1 .. x : ~EndsPacket(s, y)
             without == {x \in 0 .. g : ~\E h : P(x, h)}
  <1>1. EndsPacket(s, 0)
    BY DEF EndsPacket
  <1>2. without = {}
    <2>1. SUFFICES ASSUME without # {} PROVE FALSE
      OBVIOUS
    <2>2. PICK x \in without : \A y \in without : x <= y
      <3>1. without \in SUBSET Nat
        OBVIOUS
      <3> HIDE DEF without
      <3> QED BY <2>1, <3>1, Smallest
    <2>3. x \in 0 .. g /\ ~\E h : P(x, h)
      OBVIOUS
    <2>4. ~EndsPacket(s, x)
      <3>1. EndsPacket(s, x) => P(x, x)
        BY <2>3
      <3> QED BY <2>3, <3>1
    <2>5. x # 0
      BY <1>1, <2>4
    <2>6. x - 1 \in 0 .. g /\ x - 1 \notin without
      BY <2>2, <2>3, <2>5
    <2>7. PICK h : P(x - 1, h)
      BY <2>6
    <2>8. P(x, h)
      <3>1. h \in 0 .. x
        BY <2>3, <2>5, <2>7
      <3>2. ASSUME NEW y \in h + 1 .. x PROVE ~EndsPacket(s, y)
        <4>1. y = x \/ y \in h + 1 .. x - 1
          BY <2>3, <3>1
        <4> QED BY <2>4, <2>7, <4>1
      <3> QED BY <2>7, <3>1, <3>2
    <2> QED BY <2>3, <2>8
  <1>3. ASSUME NEW x \in 0 .. g PROVE P(x, LastEnd(s, x))
    <2>1. \E h : P(x, h)
      BY <1>2
    <2>2. \E h \in 0 .. x : EndsPacket(s, h) /\ \A y \in h + 1 .. x : ~EndsPacket(s, y)
      BY <2>1
    <2> QED BY <2>2 DEF LastEnd
  <1>4. ASSUME NEW x \in 0 .. g, NEW h, NEW i, P(x, h), P(x, i) PROVE h = i
    <2>1. ~(h < i)
      <3>1. h < i => i \in h + 1 .. x
        BY <1>4
      <3> QED BY <1>4, <3>1
    <2>2. ~(i < h)
      <3>1. i < h => h \in i + 1 .. x
        BY <1>4
      <3> QED BY <1>4, <3>1
    <2>3. h \in Nat /\ i \in Nat
      BY <1>4
    <2> HIDE DEF P
    <2> QED BY <2>1, <2>2, <2>3
  <1>5. g \in 0 .. g
    OBVIOUS
  <1>6. LastEnd(s, g) \in 0 .. g
    BY <1>3, <1>5
  <1>7. ASSUME EndsPacket(s, g) PROVE LastEnd(s, g) = g
    <2>1. P(g, g)
      BY <1>7
    <2> HIDE DEF P
    <2> QED BY <1>3, <1>4, <1>5, <2>1
  <1>8. ASSUME ~EndsPacket(s, g) PROVE g # 0 /\ LastEnd(s, g) = LastEnd(s, g - 1)
    <2>1. g # 0
      BY <1>1, <1>8
    <2>2. g - 1 \in 0 .. g
      BY <2>1
    <2> DEFINE h == LastEnd(s, g - 1)
    <2>3. P(g - 1, h)
      BY <1>3, <2>2
    <2>4. P(g, h)
      <3> HIDE DEF h
      <3>1. h \in 0 .. g
        BY <2>1, <2>3
      <3>2. ASSUME NEW y \in h + 1 .. g PROVE ~EndsPacket(s, y)
        <4>1. y = g \/ y \in h + 1 .. g - 1
          BY <3>1
        <4> QED BY <1>8, <2>3, <4>1
      <3> QED BY <2>3, <3>1, <3>2
    <2> HIDE DEF P
    <2> QED BY <1>3, <1>4, <1>5, <2>1, <2>4
  <1> QED BY <1>6, <1>7, <1>8

\* What the first g segments have of a packet that they do not end.
Begun(s, g) == Between(s.payload, SegEnd(s, LastEnd(s, g)), SegEnd(s, g))

LEMMA BegunIs ==
  ASSUME NEW s, WellLaced(s), NEW g \in 0 .. Segments(s)
  PROVE  /\ EndsPacket(s, g) => Begun(s, g) = <<>>
         /\ g # 0 =>
              LET to == Begun(s, g - 1) \o Between(s.payload, SegEnd(s, g - 1), SegEnd(s, g))
              IN  /\ PacketTo(s, g) = to
                  /\ ~EndsPacket(s, g) => Begun(s, g) = to
  <1>1. /\ Segments(s) \in Nat /\ s.payload \in Seq(Byte) /\ Len(s.payload) \in Nat
        /\ \A h \in 0 .. Segments(s) : SegEnd(s, h) \in Nat /\ SegEnd(s, h) <= Len(s.payload)
    BY LacedIs
  <1>2. ASSUME EndsPacket(s, g) PROVE Begun(s, g) = <<>>
    <2>1. LastEnd(s, g) = g
      BY <1>2, LastEndIs
    <2>2. SegEnd(s, g) \in Nat
      BY <1>1
    <2>3. ASSUME NEW i \in Nat PROVE Between(s.payload, i, i) = <<>>
      BY DEF Between
    <2> QED BY <2>1, <2>2, <2>3 DEF Begun
  <1>3. ASSUME g # 0
        PROVE  PacketTo(s, g)
                 = Begun(s, g - 1) \o Between(s.payload, SegEnd(s, g - 1), SegEnd(s, g))
    <2> DEFINE h == g - 1
               l == LastEnd(s, h)
    <2>1. h \in 0 .. Segments(s) /\ g \in h .. Segments(s)
      BY <1>1, <1>3
    <2>2. l \in 0 .. h
      BY <2>1, LastEndIs
    <2> HIDE DEF l
    <2>3. l \in 0 .. Segments(s) /\ h \in l .. Segments(s)
      BY <1>1, <2>1, <2>2
    <2> HIDE DEF h
    <2>4. SegEnd(s, l) <= SegEnd(s, h) /\ SegEnd(s, h) <= SegEnd(s, g)
      BY <2>1, <2>3, SegsGrow
    <2>5. SegEnd(s, l) \in Nat /\ SegEnd(s, h) \in Nat /\ SegEnd(s, g) \in Nat
          /\ SegEnd(s, g) <= Len(s.payload)
      BY <1>1, <2>1, <2>3
    <2>6. Between(s.payload, SegEnd(s, l), SegEnd(s, g))
            = Between(s.payload, SegEnd(s, l), SegEnd(s, h))
                \o Between(s.payload, SegEnd(s, h), SegEnd(s, g))
      <3> DEFINE w == s.payload
                 x == SegEnd(s, l)
                 y == SegEnd(s, h)
                 z == SegEnd(s, g)
      <3>1. /\ w \in Seq(Byte) /\ x \in Nat /\ y \in Nat /\ z \in Nat
            /\ x <= y /\ y <= z /\ z <= Len(w)
        BY <1>1, <2>4, <2>5
      <3> HIDE DEF w, x, y, z
      <3>2. Between(w, x, z) = Between(w, x, y) \o Between(w, y, z)
        BY <3>1, BetweenSplit
      <3> QED BY <3>2 DEF w, x, y, z
    <2> QED BY <2>6, Zenon DEF PacketTo, Begun, h, l
  <1>4. ASSUME g # 0, ~EndsPacket(s, g) PROVE Begun(s, g) = PacketTo(s, g)
    <2>1. LastEnd(s, g) = LastEnd(s, g - 1)
      BY <1>4, LastEndIs
    <2> QED BY <2>1, Zenon DEF Begun, PacketTo
  <1> QED BY <1>2, <1>3, <1>4

\* The frames that the first g segments end.
CountTo(s, g) == s.done[g + 1]

LEMMA CountedIs ==
  ASSUME NEW s, s.frames \in Seq(Frames), WellLaced(s), WellCounted(s)
  PROVE  /\ Len(s.frames) \in Nat /\ CountTo(s, 0) = 0
         /\ CountTo(s, Segments(s)) = Len(s.frames)
         /\ \A g \in 0 .. Segments(s) :
              CountTo(s, g) \in Nat /\ CountTo(s, g) <= Len(s.frames)
         /\ \A g \in 1 .. Segments(s) :
              \/ /\ CountTo(s, g) = CountTo(s, g - 1) + 1
                 /\ EndsPacket(s, g) /\ IsAudio(PacketTo(s, g))
                 /\ s.frames[CountTo(s, g)] = Frame(PacketTo(s, g), FALSE)
              \/ /\ CountTo(s, g) = CountTo(s, g - 1)
                 /\ EndsPacket(s, g) => ~is_audio(PacketTo(s, g))
  <1>1. /\ s.done \in Seq(0 .. Len(s.frames)) /\ Len(s.done) = Len(s.segs)
        /\ s.done[1] = 0 /\ s.done[Len(s.segs)] = Len(s.frames)
    BY Zenon DEF WellCounted
  <1>2. Segments(s) \in Nat /\ Len(s.segs) = Segments(s) + 1 /\ Len(s.frames) \in Nat
    BY LacedIs
  <1>3. ASSUME NEW g \in 0 .. Segments(s)
        PROVE  CountTo(s, g) \in Nat /\ CountTo(s, g) <= Len(s.frames)
    <2>1. g + 1 \in 1 .. Len(s.done)
      BY <1>1, <1>2
    <2>2. s.done[g + 1] \in 0 .. Len(s.frames)
      BY <1>1, <2>1, ElementOfSeq
    <2> QED BY <1>2, <2>2 DEF CountTo
  <1>4. CountTo(s, 0) = 0 /\ CountTo(s, Segments(s)) = Len(s.frames)
    BY <1>1, <1>2 DEF CountTo
  <1>5. ASSUME NEW g \in 1 .. Segments(s)
        PROVE  \/ /\ CountTo(s, g) = CountTo(s, g - 1) + 1
                  /\ EndsPacket(s, g) /\ IsAudio(PacketTo(s, g))
                  /\ s.frames[CountTo(s, g)] = Frame(PacketTo(s, g), FALSE)
               \/ /\ CountTo(s, g) = CountTo(s, g - 1)
                  /\ EndsPacket(s, g) => ~is_audio(PacketTo(s, g))
    <2> DEFINE packet == PacketTo(s, g)
    <2>1. CASE EndsPacket(s, g) /\ IsAudio(packet)
      <3>1. s.done[g + 1] = s.done[g] + 1 /\ s.frames[s.done[g + 1]] = Frame(packet, FALSE)
        BY <2>1, Zenon DEF WellCounted
      <3>2. CountTo(s, g) = s.done[g + 1] /\ CountTo(s, g - 1) = s.done[g]
        BY <1>2 DEF CountTo
      <3> QED BY <2>1, <3>1, <3>2, Zenon
    <2>2. CASE ~(EndsPacket(s, g) /\ IsAudio(packet))
      <3>1. /\ s.done[g + 1] = s.done[g]
            /\ EndsPacket(s, g) /\ packet # <<>> => packet[1][1] \in {"OpusHead", "OpusTags"}
        BY <2>2, Zenon DEF WellCounted
      <3>2. CountTo(s, g) = s.done[g + 1] /\ CountTo(s, g - 1) = s.done[g]
        BY <1>2 DEF CountTo
      <3>3. EndsPacket(s, g) => ~is_audio(packet)
        BY <3>1, Zenon DEF is_audio
      <3> QED BY <3>1, <3>2, <3>3, Zenon
    <2> QED BY <2>1, <2>2
  <1> QED BY <1>2, <1>3, <1>4, <1>5

\* Later segments end more.
LEMMA CountGrows ==
  ASSUME NEW s, s.frames \in Seq(Frames), WellLaced(s), WellCounted(s),
         NEW g \in 0 .. Segments(s), NEW h \in g .. Segments(s)
  PROVE  CountTo(s, g) <= CountTo(s, h)
  <1> DEFINE n == Segments(s)
             f == [i \in 0 .. n |-> CountTo(s, i)]
             ns == [i \in 1 .. n |-> CountTo(s, i) - CountTo(s, i - 1)]
  <1>1. /\ CountTo(s, 0) = 0 /\ (\A i \in 0 .. n : CountTo(s, i) \in Nat)
        /\ \A i \in 1 .. n : \/ CountTo(s, i) = CountTo(s, i - 1) + 1
                             \/ CountTo(s, i) = CountTo(s, i - 1)
    BY CountedIs
  <1>2. n \in Nat
    BY LacedIs
  <1> HIDE DEF n
  <1>3. /\ f \in [0 .. n -> Nat] /\ \A i \in 0 .. n : f[i] = CountTo(s, i)
    BY <1>1
  <1>4. \A i \in 1 .. n : ns[i] = CountTo(s, i) - CountTo(s, i - 1)
    OBVIOUS
  <1> HIDE DEF f, ns
  <1>5. \A i \in 1 .. n : ns[i] \in Nat /\ f[i] = f[i - 1] + ns[i]
    <2> TAKE i \in 1 .. n
    <2>1. i \in 0 .. n /\ i - 1 \in 0 .. n
      BY <1>2
    <2>2. CountTo(s, i) \in Nat /\ CountTo(s, i - 1) \in Nat
      BY <1>1, <2>1
    <2>3. CountTo(s, i) = CountTo(s, i - 1) + 1 \/ CountTo(s, i) = CountTo(s, i - 1)
      BY <1>1
    <2>4. f[i] = CountTo(s, i) /\ f[i - 1] = CountTo(s, i - 1)
      BY <1>3, <2>1
    <2>5. ns[i] = CountTo(s, i) - CountTo(s, i - 1)
      BY <1>4
    <2> QED BY <2>2, <2>3, <2>4, <2>5
  <1>6. Adds(f, ns, n)
    <2>1. f[0] = 0
      BY <1>1, <1>2, <1>3
    <2> QED BY <1>3, <1>5, <2>1 DEF Adds
  <1>7. g \in 0 .. n /\ h \in g .. n /\ h \in 0 .. n
    BY <1>2 DEF n
  <1>8. f[g] <= f[h]
    BY <1>2, <1>5, <1>6, <1>7, SumsGrow
  <1> QED BY <1>3, <1>7, <1>8

\* What the loop of a page that begins behind segment first has when segment g is done.
Walked(s, first, g) == [off   |-> SegEnd(s, g) - SegEnd(s, first),
                        cur   |-> Begun(s, g),
                        ready |-> Between(s.frames, CountTo(s, first), CountTo(s, g))]

LEMMA LaceStep ==
  ASSUME NEW s, s.frames \in Seq(Frames), WellLaced(s), WellCounted(s),
         NEW last \in 0 .. Segments(s), NEW first \in 0 .. last, NEW g \in first .. last,
         g # last, NEW page,
         page.data = Between(s.payload, SegEnd(s, first), SegEnd(s, last))
  PROVE  lace_next(page, Walked(s, first, g), Lace(s, g + 1)) = Walked(s, first, g + 1)
  <1> DEFINE h == g + 1
             lace == Lace(s, h)
             packet == PacketTo(s, h)
             w == Walked(s, first, g)
             a == SegEnd(s, first)
             ready == Between(s.frames, CountTo(s, first), CountTo(s, g))
  <1>1. /\ Segments(s) \in Nat /\ h \in 1 .. Segments(s) /\ h \in 0 .. Segments(s) /\ h # 0
        /\ h - 1 = g /\ g \in 0 .. Segments(s) /\ first \in 0 .. Segments(s)
        /\ g \in first .. Segments(s) /\ h \in g .. Segments(s) /\ last \in h .. Segments(s)
        /\ h \in Nat
    BY LacedIs
  <1> HIDE DEF h
  <1>2. /\ s.payload \in Seq(Byte) /\ Len(s.payload) \in Nat
        /\ a \in Nat /\ SegEnd(s, g) \in Nat /\ SegEnd(s, h) \in Nat /\ SegEnd(s, last) \in Nat
        /\ SegEnd(s, last) <= Len(s.payload)
        /\ lace \in Nat /\ lace <= Full /\ SegEnd(s, h) = SegEnd(s, g) + lace
    BY <1>1, LacedIs
  <1>3. a <= SegEnd(s, g) /\ SegEnd(s, g) <= SegEnd(s, h) /\ SegEnd(s, h) <= SegEnd(s, last)
    BY <1>1, SegsGrow
  <1>4. /\ packet = Begun(s, g) \o Between(s.payload, SegEnd(s, g), SegEnd(s, h))
        /\ EndsPacket(s, h) => Begun(s, h) = <<>>
        /\ ~EndsPacket(s, h) => Begun(s, h) = packet
    BY <1>1, BegunIs, Zenon
  <1>5. lace < Full <=> EndsPacket(s, h)
    BY <1>1 DEF EndsPacket
  <1>6. w.off = SegEnd(s, g) - a /\ w.cur = Begun(s, g) /\ w.ready = ready
    BY DEF Walked
  <1> DEFINE off == w.off + lace
             cur == w.cur \o SubSeq(page.data, w.off + 1, off)
  <1> HIDE DEF w, lace, packet
  <1>7. off = SegEnd(s, h) - a
    <2> HIDE DEF a
    <2> QED BY <1>2, <1>6
  <1>8. SubSeq(page.data, w.off + 1, off) = Between(s.payload, SegEnd(s, g), SegEnd(s, h))
    <2>1. PICK x \in Nat : x = SegEnd(s, g) - a /\ a + x = SegEnd(s, g)
      <3> HIDE DEF a
      <3>1. SegEnd(s, g) - a \in Nat /\ a + (SegEnd(s, g) - a) = SegEnd(s, g)
        BY <1>2, <1>3
      <3> QED BY <3>1
    <2>2. PICK y \in Nat : y = SegEnd(s, h) - a /\ a + y = SegEnd(s, h)
      <3> HIDE DEF a
      <3>1. SegEnd(s, h) - a \in Nat /\ a + (SegEnd(s, h) - a) = SegEnd(s, h)
        BY <1>2, <1>3
      <3> QED BY <3>1
    <2> HIDE DEF a
    <2>3. x <= y /\ y <= SegEnd(s, last) - a /\ a <= SegEnd(s, last)
      <3>1. ASSUME NEW p \in Nat, NEW q \in Nat, NEW r \in Nat, NEW c \in Nat,
                   c <= p, p <= q, q <= r, c + x = p, c + y = q
            PROVE  x <= y /\ y <= r - c /\ c <= r
        BY <3>1
      <3> QED BY <1>2, <1>3, <2>1, <2>2, <3>1, Zenon
    <2>4. Between(Between(s.payload, a, SegEnd(s, last)), x, y)
            = Between(s.payload, a + x, a + y)
      <3>1. s.payload \in Seq(Byte) /\ a \in Nat /\ SegEnd(s, last) \in Nat
            /\ SegEnd(s, last) <= Len(s.payload) /\ x \in Nat /\ y \in Nat
        BY <1>2, <2>1, <2>2, Zenon
      <3> HIDE DEF off, cur, ready
      <3>2. ASSUME NEW c \in Nat, NEW r \in Nat, c <= r, r <= Len(s.payload), y <= r - c
            PROVE  Between(Between(s.payload, c, r), x, y) = Between(s.payload, c + x, c + y)
        BY <2>3, <3>1, <3>2, BetweenOf
      <3> QED BY <2>3, <3>1, <3>2, Zenon
    <2>5. w.off = x /\ off = y
      BY <1>6, <1>7, <2>1, <2>2, Zenon
    <2> HIDE DEF off
    <2> QED BY <2>1, <2>2, <2>4, <2>5, Zenon DEF Between, a
  <1>9. cur = packet
    BY <1>4, <1>6, <1>8, Zenon
  <1>10. lace_next(page, w, lace)
           = [off   |-> off,
              cur   |-> IF lace < Full THEN <<>> ELSE cur,
              ready |-> IF lace < Full /\ is_audio(cur)
                          THEN Append(w.ready, Frame(cur, FALSE)) ELSE w.ready]
    BY Zenon DEF lace_next
  <1>11. CountTo(s, first) \in Nat /\ CountTo(s, g) \in Nat /\ CountTo(s, h) \in Nat
         /\ CountTo(s, h) <= Len(s.frames) /\ CountTo(s, first) <= CountTo(s, g)
    <2>1. CountTo(s, first) <= CountTo(s, g)
      BY <1>1, CountGrows
    <2> QED BY <1>1, <2>1, CountedIs
  <1>12. (IF lace < Full /\ is_audio(cur) THEN Append(w.ready, Frame(cur, FALSE)) ELSE w.ready)
           = Between(s.frames, CountTo(s, first), CountTo(s, h))
    <2>1. \/ /\ CountTo(s, h) = CountTo(s, g) + 1
             /\ EndsPacket(s, h) /\ IsAudio(packet)
             /\ s.frames[CountTo(s, h)] = Frame(packet, FALSE)
          \/ /\ CountTo(s, h) = CountTo(s, g)
             /\ EndsPacket(s, h) => ~is_audio(packet)
      BY <1>1, CountedIs, Zenon DEF packet
    <2> HIDE DEF cur, off, ready
    <2>2. CASE /\ CountTo(s, h) = CountTo(s, g) + 1
               /\ EndsPacket(s, h) /\ IsAudio(packet)
               /\ s.frames[CountTo(s, h)] = Frame(packet, FALSE)
      <3>1. is_audio(packet)
        <4>1. packet # <<>> /\ packet[1][1] \in {"opus", "bad"}
          BY <2>2, Zenon DEF IsAudio
        <4> HIDE DEF packet
        <4>2. packet[1][1] \notin {"OpusHead", "OpusTags"}
          BY <4>1
        <4> QED BY <4>1, <4>2, Zenon DEF is_audio
      <3>2. Append(ready, s.frames[CountTo(s, g) + 1])
              = Between(s.frames, CountTo(s, first), CountTo(s, g) + 1)
        <4>0. CountTo(s, h) = CountTo(s, g) + 1
          BY <2>2
        <4>1. CountTo(s, g) + 1 <= Len(s.frames)
          BY <1>11, <4>0
        <4> QED BY <1>11, <4>1, PartNext, Zenon DEF ready
      <3> QED BY <1>5, <1>6, <1>9, <2>2, <3>1, <3>2, Zenon
    <2>3. CASE /\ CountTo(s, h) = CountTo(s, g)
               /\ EndsPacket(s, h) => ~is_audio(packet)
      BY <1>5, <1>6, <1>9, <2>3, Zenon DEF ready
    <2> QED BY <2>1, <2>2, <2>3
  <1>13. (IF lace < Full THEN <<>> ELSE cur) = Begun(s, h)
    BY <1>4, <1>5, <1>9, Zenon
  <1> HIDE DEF cur, off, ready
  <1>14. lace_next(page, w, lace) = Walked(s, first, h)
    BY <1>7, <1>10, <1>12, <1>13, Zenon DEF Walked, a
  <1> QED BY <1>14, Zenon DEF w, lace, h

\* All of a page's lacing values.
LEMMA PageLoop ==
  ASSUME NEW s, s.frames \in Seq(Frames), WellLaced(s), WellCounted(s),
         NEW last \in 0 .. Segments(s), NEW first \in 0 .. last, NEW page,
         page.data = Between(s.payload, SegEnd(s, first), SegEnd(s, last)),
         Len(page.laces) = last - first,
         \A i \in 1 .. last - first : page.laces[i] = Lace(s, first + i),
         NEW rd, carried(page, rd) = Begun(s, first)
  PROVE  lace_loop(page, rd) = Walked(s, first, last)
  <1> DEFINE n == last - first
  <1>1. /\ n \in Nat /\ first \in Nat /\ first + n = last /\ Segments(s) \in Nat
        /\ first \in 0 .. Segments(s)
    BY LacedIs
  <1> HIDE DEF n
  <1>2. PICK f : Laced(f, page, rd, n) /\ lace_loop(page, rd) = f[n]
    <2>1. Len(page.laces) = n
      BY DEF n
    <2> QED BY <1>1, <2>1, LoopIs
  <1> DEFINE other == {i \in 0 .. n : f[i] # Walked(s, first, first + i)}
  <1>3. other = {}
    <2>1. SUFFICES ASSUME other # {} PROVE FALSE
      OBVIOUS
    <2>2. PICK i \in other : \A k \in other : i <= k
      <3>1. other \in SUBSET Nat
        OBVIOUS
      <3> HIDE DEF other
      <3> QED BY <2>1, <3>1, Smallest
    <2>3. i \in 0 .. n /\ f[i] # Walked(s, first, first + i)
      OBVIOUS
    <2>4. f[0] = Walked(s, first, first)
      <3>1. f[0] = [off |-> 0, cur |-> Begun(s, first), ready |-> <<>>]
        BY <1>2, Zenon DEF Laced
      <3>2. SegEnd(s, first) \in Nat /\ SegEnd(s, first) - SegEnd(s, first) = 0
        <4>1. SegEnd(s, first) \in Nat
          BY <1>1, LacedIs
        <4> QED BY <4>1
      <3>3. Between(s.frames, CountTo(s, first), CountTo(s, first)) = <<>>
        <4>1. CountTo(s, first) \in Nat
          BY <1>1, CountedIs
        <4> QED BY <4>1 DEF Between
      <3> QED BY <3>1, <3>2, <3>3, Zenon DEF Walked
    <2>5. i # 0
      <3>1. first + 0 = first
        BY <1>1
      <3> QED BY <2>3, <2>4, <3>1
    <2>6. i - 1 \in 0 .. n /\ i - 1 \notin other /\ i \in 1 .. n
      <3>1. i - 1 \in 0 .. n /\ i \in 1 .. n /\ ~(i <= i - 1)
        BY <1>1, <2>3, <2>5
      <3> HIDE DEF other
      <3> QED BY <2>2, <3>1
    <2>7. f[i - 1] = Walked(s, first, first + (i - 1))
      BY <2>6
    <2>8. PICK g \in first .. last : g = first + (i - 1) /\ g + 1 = first + i /\ g # last
      <3>1. first + (i - 1) \in first .. last /\ (first + (i - 1)) + 1 = first + i
            /\ first + (i - 1) # last
        BY <1>1, <2>6
      <3> QED BY <3>1
    <2>9. page.laces[i] = Lace(s, g + 1)
      BY <2>6, <2>8 DEF n
    <2>10. f[i] = lace_next(page, f[i - 1], page.laces[i])
      BY <1>2, <2>6, Zenon DEF Laced
    <2>11. lace_next(page, Walked(s, first, g), Lace(s, g + 1)) = Walked(s, first, g + 1)
      BY <2>8, LaceStep, Zenon
    <2> QED BY <2>3, <2>7, <2>8, <2>9, <2>10, <2>11, Zenon
  <1>4. n \in 0 .. n
    BY <1>1
  <1>5. f[n] = Walked(s, first, first + n)
    BY <1>3, <1>4
  <1> QED BY <1>1, <1>2, <1>5, Zenon

\* The lacing values of consecutive segments add up to the bytes they have.
LEMMA LacesAdd ==
  ASSUME NEW s, WellLaced(s),
         NEW last \in 0 .. Segments(s), NEW first \in 0 .. last, NEW ns,
         Len(ns) = last - first, \A i \in 1 .. last - first : ns[i] = Lace(s, first + i)
  PROVE  /\ \A i \in 1 .. last - first : ns[i] \in Nat
         /\ Sum(ns) = SegEnd(s, last) - SegEnd(s, first)
  <1> DEFINE n == last - first
  <1>1. /\ n \in Nat /\ first \in Nat /\ first + n = last /\ Segments(s) \in Nat
        /\ first \in 0 .. Segments(s) /\ n \in 0 .. n
    BY LacedIs
  <1>2. Len(ns) = n /\ \A i \in 1 .. n : ns[i] = Lace(s, first + i)
    OBVIOUS
  <1> HIDE DEF n
  <1>3. ASSUME NEW i \in 1 .. n
        PROVE  /\ ns[i] \in Nat /\ first + i \in 0 .. Segments(s)
               /\ SegEnd(s, first + i) = SegEnd(s, first + (i - 1)) + ns[i]
               /\ SegEnd(s, first + (i - 1)) \in Nat /\ SegEnd(s, first + i) \in Nat
    <2>1. PICK g \in 1 .. Segments(s) : g = first + i /\ g - 1 = first + (i - 1)
      <3>1. first + i \in 1 .. Segments(s) /\ (first + i) - 1 = first + (i - 1)
        BY <1>1
      <3> QED BY <3>1
    <2>2. g \in 0 .. Segments(s) /\ g - 1 \in 0 .. Segments(s)
      BY <1>1
    <2>3. /\ Lace(s, g) \in Nat /\ SegEnd(s, g) = SegEnd(s, g - 1) + Lace(s, g)
          /\ SegEnd(s, g) \in Nat /\ SegEnd(s, g - 1) \in Nat
      BY <2>2, LacedIs
    <2> QED BY <1>2, <2>1, <2>2, <2>3
  <1>4. PICK f : Adds(f, ns, n) /\ Sum(ns) = f[n]
    <2>1. \A i \in 1 .. n : ns[i] \in Nat
      BY <1>3
    <2> QED BY <1>1, <1>2, <2>1, SumSteps
  <1>5. f[0] = 0 /\ \A i \in 1 .. n : f[i] = f[i - 1] + ns[i]
    BY <1>4 DEF Adds
  <1> DEFINE good(i) == SegEnd(s, first + i) = SegEnd(s, first) + f[i] /\ f[i] \in Nat
             other == {i \in 0 .. n : ~good(i)}
  <1>6. SegEnd(s, first) \in Nat
    BY <1>1, LacedIs
  <1>7. other = {}
    <2>1. SUFFICES ASSUME other # {} PROVE FALSE
      OBVIOUS
    <2>2. PICK i \in other : \A k \in other : i <= k
      <3>1. other \in SUBSET Nat
        OBVIOUS
      <3> HIDE DEF other
      <3> QED BY <2>1, <3>1, Smallest
    <2>3. i \in 0 .. n /\ ~good(i)
      OBVIOUS
    <2>4. i # 0
      <3>1. first + 0 = first
        BY <1>1
      <3>2. good(0)
        BY <1>5, <1>6, <3>1
      <3> QED BY <2>3, <3>2
    <2>5. i - 1 \in 0 .. n /\ i \in 1 .. n /\ ~(i <= i - 1)
      BY <1>1, <2>3, <2>4
    <2>6. i - 1 \notin other
      <3> HIDE DEF other
      <3> QED BY <2>2, <2>5
    <2>7. good(i - 1)
      BY <2>5, <2>6
    <2>8. f[i] = f[i - 1] + ns[i]
      BY <1>5, <2>5
    <2>9. good(i)
      <3> DEFINE a == SegEnd(s, first)
                 u == SegEnd(s, first + (i - 1))
                 v == SegEnd(s, first + i)
      <3>1. v = u + ns[i] /\ u = a + f[i - 1] /\ f[i - 1] \in Nat /\ ns[i] \in Nat /\ a \in Nat
        BY <1>3, <1>6, <2>5, <2>7
      <3> HIDE DEF a, u, v
      <3> DEFINE p == f[i - 1]
                 q == f[i]
                 m == ns[i]
      <3>2. v = a + q /\ q \in Nat
        <4>1. q = p + m /\ v = u + m /\ u = a + p /\ p \in Nat /\ m \in Nat /\ a \in Nat
          BY <2>8, <3>1
        <4> HIDE DEF p, q, m
        <4> QED BY <4>1
      <3> QED BY <3>2 DEF a, v
    <2> QED BY <2>3, <2>9
  <1>8. good(n)
    BY <1>1, <1>7
  <1> HIDE DEF other
  <1>9. Sum(ns) = SegEnd(s, last) - SegEnd(s, first)
    <2> DEFINE a == SegEnd(s, first)
               v == SegEnd(s, last)
    <2>1. v = a + f[n] /\ f[n] \in Nat /\ a \in Nat
      BY <1>1, <1>6, <1>8
    <2> HIDE DEF a, v
    <2>2. f[n] = v - a
      BY <2>1
    <2> QED BY <1>4, <2>2 DEF a, v
  <1> QED BY <1>3, <1>9 DEF n

\* Its pages and cuts are what their names say.
LEMMA PagedIs ==
  ASSUME NEW s \in Sources, WellMade(s), WellPaged(s)
  PROVE  /\ s.format = "opus" /\ s.bytes \in Seq(Byte) /\ Len(s.bytes) \in Nat
         /\ s.frames \in Seq(Frames) /\ Len(s.frames) \in Nat
         /\ WellLaced(s) /\ WellCounted(s) /\ Segments(s) \in Nat
         /\ Len(s.cuts) \in Nat /\ 1 \in 1 .. Len(s.cuts) /\ Len(s.cuts) \in 1 .. Len(s.cuts)
         /\ s.cuts[1] = 0 /\ s.pages[1] = 0 /\ s.cuts[Len(s.cuts)] = Len(s.bytes)
         /\ \A k \in 1 .. Len(s.cuts) : /\ s.cuts[k] \in Nat /\ s.cuts[k] <= Len(s.bytes)
                                        /\ s.pages[k] \in 0 .. Segments(s)
         /\ \A i, j \in 1 .. Len(s.cuts) : i < j => s.cuts[i] < s.cuts[j]
  <1>1. s.bytes \in Seq(Byte) /\ Len(s.bytes) \in Nat
    BY SourcesAre
  <1>2. s.frames \in Seq(Frames) /\ s.cuts \in Seq(0 .. Len(s.bytes))
    BY Zenon DEF WellMade
  <1>3. /\ s.format = "opus" /\ WellLaced(s) /\ WellCounted(s)
        /\ s.pages \in Seq(0 .. Segments(s)) /\ Len(s.pages) = Len(s.cuts)
        /\ s.cuts # <<>> /\ s.cuts[1] = 0 /\ s.pages[1] = 0
        /\ s.cuts[Len(s.cuts)] = Len(s.bytes)
        /\ \A i, j \in 1 .. Len(s.cuts) : i < j => s.cuts[i] < s.cuts[j]
    BY Zenon DEF WellPaged
  <1>4. Segments(s) \in Nat
    BY <1>3, LacedIs
  <1>5. Len(s.cuts) \in Nat /\ 1 \in 1 .. Len(s.cuts) /\ Len(s.cuts) \in 1 .. Len(s.cuts)
        /\ Len(s.frames) \in Nat
    BY <1>2, <1>3, EmptySeq
  <1>6. ASSUME NEW k \in 1 .. Len(s.cuts)
        PROVE  s.cuts[k] \in 0 .. Len(s.bytes) /\ s.pages[k] \in 0 .. Segments(s)
    BY <1>2, <1>3, ElementOfSeq
  <1>7. \A k \in 1 .. Len(s.cuts) : /\ s.cuts[k] \in Nat /\ s.cuts[k] <= Len(s.bytes)
                                    /\ s.pages[k] \in 0 .. Segments(s)
    BY <1>1, <1>6
  <1> QED BY <1>1, <1>2, <1>3, <1>4, <1>5, <1>7

\* A page's header and its place in the bytes and the segments.
LEMMA PageMade ==
  ASSUME NEW s \in Sources, WellMade(s), WellPaged(s), NEW k \in 1 .. Len(s.cuts) - 1
  PROVE  LET from == s.cuts[k]
             to   == s.cuts[k + 1]
             first == s.pages[k]
             last == s.pages[k + 1]
             n    == last - first
         IN  /\ k \in 1 .. Len(s.cuts) /\ k + 1 \in 1 .. Len(s.cuts)
             /\ from \in Nat /\ to \in Nat /\ to <= Len(s.bytes) /\ n \in Nat \ {0}
             /\ last \in 0 .. Segments(s) /\ first \in 0 .. last /\ first + n = last
             /\ (from + 2) + n <= to
             /\ s.bytes[from + 1] = <<"OggS", IF EndsPacket(s, first) THEN 0 ELSE 1>>
             /\ s.bytes[from + 2][2] = n
             /\ \A i \in 1 .. n : s.bytes[from + 2 + i][2] = Lace(s, first + i)
             /\ Between(s.bytes, (from + 2) + n, to)
                  = Between(s.payload, SegEnd(s, first), SegEnd(s, last))
  <1> DEFINE from == s.cuts[k]
             to   == s.cuts[k + 1]
             first == s.pages[k]
             last == s.pages[k + 1]
             n    == last - first
  <1>1. /\ first < last
        /\ from + 2 + n <= to
        /\ s.bytes[from + 1] = <<"OggS", IF EndsPacket(s, first) THEN 0 ELSE 1>>
        /\ s.bytes[from + 2][2] = n
        /\ \A i \in 1 .. n : s.bytes[from + 2 + i][2] = Lace(s, first + i)
        /\ Between(s.bytes, from + 2 + n, to)
             = Between(s.payload, SegEnd(s, first), SegEnd(s, first + n))
    BY Zenon DEF WellPaged
  <1>2. k \in 1 .. Len(s.cuts) /\ k + 1 \in 1 .. Len(s.cuts)
    BY PagedIs
  <1>3. /\ from \in Nat /\ to \in Nat /\ to <= Len(s.bytes)
        /\ first \in 0 .. Segments(s) /\ last \in 0 .. Segments(s) /\ Segments(s) \in Nat
    BY <1>2, PagedIs
  <1> HIDE DEF from, to, first, last
  <1>4. n \in Nat \ {0} /\ first \in 0 .. last /\ first + n = last
    BY <1>1, <1>3
  <1>5. from + 2 + n = (from + 2) + n
    OBVIOUS
  <1> QED BY <1>1, <1>2, <1>3, <1>4, <1>5, Zenon DEF from, to, first, last

\* A buffer that begins with a page, and has all of it.
LEMMA PageThere ==
  ASSUME NEW s \in Sources, WellMade(s), WellPaged(s), NEW k \in 1 .. Len(s.cuts) - 1,
         NEW e \in Nat, s.cuts[k + 1] <= e, e <= Len(s.bytes)
  PROVE  LET there == Between(s.bytes, s.cuts[k], e)
             page  == page_at(there)
             first == s.pages[k]
             last  == s.pages[k + 1]
         IN  /\ there \in Seq(Byte) /\ OpusStarts(there) # {} /\ OpusFrom(there) = 1
             /\ page_complete(there)
             /\ page_total(there) = s.cuts[k + 1] - s.cuts[k]
             /\ page.continued = ~EndsPacket(s, first)
             /\ Len(page.laces) = last - first
             /\ page.laces = [i \in 1 .. last - first |-> page.laces[i]]
             /\ \A i \in 1 .. last - first : page.laces[i] = Lace(s, first + i)
             /\ page.data = Between(s.payload, SegEnd(s, first), SegEnd(s, last))
  <1> DEFINE from == s.cuts[k]
             to   == s.cuts[k + 1]
             first == s.pages[k]
             last == s.pages[k + 1]
             n    == last - first
             b    == s.bytes
             there == Between(b, from, e)
             page == page_at(there)
  <1>1. /\ from \in Nat /\ to \in Nat /\ to <= Len(b) /\ n \in Nat \ {0}
        /\ last \in 0 .. Segments(s) /\ first \in 0 .. last /\ first + n = last
        /\ (from + 2) + n <= to
        /\ b[from + 1] = <<"OggS", IF EndsPacket(s, first) THEN 0 ELSE 1>>
        /\ b[from + 2][2] = n
        /\ \A i \in 1 .. n : b[from + 2 + i][2] = Lace(s, first + i)
        /\ Between(b, (from + 2) + n, to) = Between(s.payload, SegEnd(s, first), SegEnd(s, last))
    BY PageMade, Zenon
  <1>2. b \in Seq(Byte) /\ Len(b) \in Nat /\ WellLaced(s) /\ Segments(s) \in Nat
    BY PagedIs
  <1>3. to <= e /\ e <= Len(b)
    OBVIOUS
  <1> HIDE DEF from, to, first, last, n, b
  <1>4. from <= e
    BY <1>1, <1>3
  <1>5. /\ there \in Seq(Byte) /\ Len(there) = e - from
        /\ \A x \in 1 .. e - from : there[x] = b[from + x]
    <2>1. from \in Nat /\ e \in Nat /\ b \in Seq(Byte)
      BY <1>1, <1>2
    <2> QED BY <1>3, <1>4, <2>1, BetweenIs
  <1> HIDE DEF there
  <1>6. /\ 1 \in 1 .. e - from /\ 2 \in 1 .. e - from
        /\ \A i \in 1 .. n : 2 + i \in 1 .. e - from /\ from + (2 + i) = from + 2 + i
    BY <1>1, <1>3
  <1>7. /\ there[1] = b[from + 1] /\ there[2] = b[from + 2]
        /\ \A i \in 1 .. n : there[2 + i] = b[from + 2 + i]
    BY <1>5, <1>6
  <1>8. there[1][1] = "OggS" /\ (there[1][2] = 1 <=> ~EndsPacket(s, first)) /\ there[2][2] = n
    <2>1. b[from + 1] = <<"OggS", IF EndsPacket(s, first) THEN 0 ELSE 1>> /\ b[from + 2][2] = n
      BY <1>1, Zenon
    <2> QED BY <1>7, <2>1
  <1>9. OpusStarts(there) # {} /\ OpusFrom(there) = 1
    <2>1. 1 \in OpusStarts(there) /\ \A i \in OpusStarts(there) : i \in Nat /\ 1 <= i
      BY <1>5, <1>6, <1>8 DEF OpusStarts
    <2>2. \A i : i \in OpusStarts(there) /\ (\A j \in OpusStarts(there) : i <= j) => i = 1
      BY <2>1
    <2> QED BY <2>1, <2>2 DEF OpusFrom
  <1>10. /\ Len(laces_at(there)) = n
         /\ \A i \in 1 .. n : laces_at(there)[i] = Lace(s, first + i)
    <2>1. laces_at(there) = [i \in 1 .. n |-> there[2 + i][2]]
      BY <1>8 DEF laces_at
    <2>2. \A i \in 1 .. n : there[2 + i][2] = Lace(s, first + i)
      BY <1>1, <1>7, Zenon
    <2> QED BY <1>1, <2>1, <2>2
  <1> DEFINE a == SegEnd(s, first)
             z == SegEnd(s, last)
             sum == Sum(laces_at(there))
  <1>11. sum = z - a
    <2>1. Len(laces_at(there)) = last - first
          /\ \A i \in 1 .. last - first : laces_at(there)[i] = Lace(s, first + i)
      BY <1>10 DEF n
    <2> QED BY <1>1, <1>2, <2>1, LacesAdd, Zenon
  <1>12. a \in Nat /\ z \in Nat /\ a <= z /\ z <= Len(s.payload) /\ s.payload \in Seq(Byte)
    <2>1. first \in 0 .. Segments(s) /\ last \in first .. Segments(s)
      BY <1>1, <1>2
    <2>2. a <= z
      BY <1>2, <2>1, SegsGrow
    <2> QED BY <1>1, <1>2, <2>1, <2>2, LacedIs
  <1>13. z - a = to - ((from + 2) + n)
    <2>1. Len(Between(s.payload, a, z)) = z - a
      BY <1>12, BetweenIs, Zenon
    <2>2. Len(Between(b, (from + 2) + n, to)) = to - ((from + 2) + n)
      <3>1. PICK m \in Nat : m = (from + 2) + n
        BY <1>1
      <3>2. m <= to
        BY <1>1, <3>1, Zenon
      <3>3. Len(Between(b, m, to)) = to - m
        BY <1>1, <1>2, <3>2, BetweenIs
      <3> QED BY <3>1, <3>3, Zenon
    <2> QED BY <1>1, <2>1, <2>2, Zenon
  <1> HIDE DEF a, z, sum
  <1>14. page_total(there) = to - from
    <2>1. page_total(there) = 2 + n + sum
      BY <1>8, Zenon DEF page_total, sum
    <2>2. sum = to - ((from + 2) + n)
      BY <1>11, <1>13, Zenon
    <2> QED BY <1>1, <2>1, <2>2
  <1>15. page_complete(there)
    <2>1. Len(there) >= 2 /\ Len(there) >= 2 + n /\ Len(there) >= to - from
      <3>1. Len(there) = e - from
        BY <1>5
      <3>2. from \in Nat /\ to \in Nat /\ n \in Nat /\ (from + 2) + n <= to
        BY <1>1
      <3>3. e - from >= 2 /\ e - from >= 2 + n /\ e - from >= to - from
        BY <1>3, <3>2
      <3> QED BY <3>1, <3>3, Zenon
    <2> QED BY <1>8, <1>14, <2>1, Zenon DEF page_complete
  <1>16. /\ Len(page.laces) = n /\ page.laces = [i \in 1 .. n |-> page.laces[i]]
         /\ page.data = SubSeq(there, (2 + n) + 1, page_total(there))
    BY <1>5, <1>8, <1>15, PageIs, Zenon
  <1>17. \A i \in 1 .. n : page.laces[i] = Lace(s, first + i)
    <2>1. page.laces = laces_at(there)
      BY DEF page_at
    <2> QED BY <1>10, <2>1, Zenon
  <1>18. page.data = Between(s.payload, a, z)
    <2>1. PICK x \in Nat : x = 2 + n /\ from + x = (from + 2) + n
      <3>1. 2 + n \in Nat /\ from + (2 + n) = (from + 2) + n
        BY <1>1
      <3> QED BY <3>1
    <2>2. PICK y \in Nat : y = to - from /\ from + y = to /\ x <= y /\ y <= e - from
      <3>1. to - from \in Nat /\ from + (to - from) = to /\ x <= to - from /\ to - from <= e - from
        BY <1>1, <1>3, <2>1
      <3> QED BY <3>1
    <2>3. Between(Between(b, from, e), x, y) = Between(b, from + x, from + y)
      BY <1>1, <1>2, <1>3, <1>4, <2>2, BetweenOf
    <2>4. page.data = Between(there, x, y)
      BY <1>14, <1>16, <2>1, <2>2, Zenon DEF Between
    <2> HIDE DEF page
    <2> QED BY <1>1, <2>1, <2>2, <2>3, <2>4, Zenon DEF there, a, z
  <1>19. page.continued = ~EndsPacket(s, first)
    <2>1. page.continued = (there[1][2] = 1)
      BY DEF page_at
    <2> HIDE DEF page
    <2> QED BY <1>8, <2>1, Zenon
  <1> HIDE DEF page
  <1> QED BY <1>5, <1>9, <1>14, <1>15, <1>16, <1>17, <1>18, <1>19, Zenon
          DEF from, to, first, last, n, b, there, page, a, z

\* Where the pump is that has read k - 1 pages, and pushed j of their frames.
OpusAt(s, k, j) ==
  [NewReader EXCEPT
    !.carry = Begun(s, s.pages[k]),
    !.carry_active = ~EndsPacket(s, s.pages[k]),
    !.ready = Between(s.frames, j, CountTo(s, s.pages[k]))]
OpusStage(s, k, j) == <<Drained(s.bytes, s.cuts[k]), OpusAt(s, k, j), SubSeq(s.frames, 1, j)>>

LEMMA OpusAtIs ==
  ASSUME NEW s, NEW k, NEW j
  PROVE  /\ OpusAt(s, k, j).carry = Begun(s, s.pages[k])
         /\ OpusAt(s, k, j).carry_active = ~EndsPacket(s, s.pages[k])
         /\ OpusAt(s, k, j).ready = Between(s.frames, j, CountTo(s, s.pages[k]))
  <1> DEFINE c == Begun(s, s.pages[k])
             a == ~EndsPacket(s, s.pages[k])
             r == Between(s.frames, j, CountTo(s, s.pages[k]))
  <1>1. OpusAt(s, k, j) = [NewReader EXCEPT !.carry = c, !.carry_active = a, !.ready = r]
    BY DEF OpusAt
  <1> HIDE DEF c, a, r
  <1>2. /\ OpusAt(s, k, j).carry = c
        /\ OpusAt(s, k, j).carry_active = a
        /\ OpusAt(s, k, j).ready = r
    BY <1>1 DEF NewReader
  <1> QED BY <1>2, Zenon DEF c, a, r

LEMMA OpusAtTaken ==
  ASSUME NEW s, NEW k, NEW j, NEW i,
         Tail(OpusAt(s, k, j).ready) = Between(s.frames, i, CountTo(s, s.pages[k]))
  PROVE  [OpusAt(s, k, j) EXCEPT !.ready = Tail(@)] = OpusAt(s, k, i)
  <1> DEFINE c == Begun(s, s.pages[k])
             a == ~EndsPacket(s, s.pages[k])
             r == Between(s.frames, j, CountTo(s, s.pages[k]))
             z == Between(s.frames, i, CountTo(s, s.pages[k]))
  <1>1. OpusAt(s, k, j) = [NewReader EXCEPT !.carry = c, !.carry_active = a, !.ready = r]
    BY DEF OpusAt
  <1>2. OpusAt(s, k, i) = [NewReader EXCEPT !.carry = c, !.carry_active = a, !.ready = z]
    BY DEF OpusAt
  <1>3. Tail(OpusAt(s, k, j).ready) = z
    OBVIOUS
  <1> HIDE DEF c, a, r, z
  <1> QED BY <1>1, <1>2, <1>3 DEF NewReader

\* A page, once it is all there, is taken apart into the frames that end on it.
LEMMA PageTurn ==
  ASSUME NEW s \in Sources, WellMade(s), WellPaged(s), NEW k \in 1 .. Len(s.cuts) - 1,
         NEW e \in Nat, s.cuts[k + 1] <= e, e <= Len(s.bytes)
  PROVE  LET there == Between(s.bytes, s.cuts[k], e)
             j  == CountTo(s, s.pages[k])
             rd == OpusAt(s, k, j)
             answer == opus_pull(there, rd)
         IN  \/ /\ s.known = <<>>
                /\ answer.status = "error" /\ answer.frames = <<>>
             \/ answer = Answer("again", <<>>, Drained(there, s.cuts[k + 1] - s.cuts[k]),
                                OpusAt(s, k + 1, j))
  <1> DEFINE there == Between(s.bytes, s.cuts[k], e)
             j  == CountTo(s, s.pages[k])
             rd == OpusAt(s, k, j)
             page  == page_at(there)
             first == s.pages[k]
             last  == s.pages[k + 1]
             n     == last - first
             rest  == Drained(there, page_total(there))
             total == s.cuts[k + 1] - s.cuts[k]
  <1>1. /\ there \in Seq(Byte) /\ OpusStarts(there) # {} /\ OpusFrom(there) = 1
        /\ page_complete(there)
        /\ page_total(there) = total
        /\ page.continued = ~EndsPacket(s, first)
        /\ Len(page.laces) = n
        /\ page.laces = [i \in 1 .. n |-> page.laces[i]]
        /\ \A i \in 1 .. n : page.laces[i] = Lace(s, first + i)
        /\ page.data = Between(s.payload, SegEnd(s, first), SegEnd(s, last))
    <2>1. e \in Nat /\ s.cuts[k + 1] <= e /\ e <= Len(s.bytes)
      OBVIOUS
    <2> QED BY <2>1, PageThere, Zenon
  <1>2. /\ n \in Nat \ {0} /\ last \in 0 .. Segments(s) /\ first \in 0 .. last /\ first + n = last
    BY PageMade, Zenon
  <1>3. /\ s.frames \in Seq(Frames) /\ Len(s.frames) \in Nat /\ WellLaced(s) /\ WellCounted(s)
        /\ Segments(s) \in Nat
    BY PagedIs
  <1> HIDE DEF there, page, first, last, n, total
  <1>4. first \in 0 .. Segments(s) /\ last \in first .. Segments(s) /\ first \in Nat /\ last # 0
    BY <1>2, <1>3
  <1>5. j = CountTo(s, first) /\ j \in Nat /\ j <= CountTo(s, last)
        /\ CountTo(s, last) \in Nat /\ CountTo(s, last) <= Len(s.frames)
    <2>1. CountTo(s, first) <= CountTo(s, last)
      BY <1>3, <1>4, CountGrows
    <2>2. CountTo(s, first) \in Nat /\ CountTo(s, last) \in Nat /\ CountTo(s, last) <= Len(s.frames)
      BY <1>2, <1>3, <1>4, CountedIs
    <2> QED BY <2>1, <2>2 DEF first
  <1> HIDE DEF j
  <1>6. /\ rd.carry = Begun(s, first) /\ rd.carry_active = ~EndsPacket(s, first)
        /\ rd.ready = Between(s.frames, j, j)
    <2>1. /\ rd.carry = Begun(s, s.pages[k]) /\ rd.carry_active = ~EndsPacket(s, s.pages[k])
          /\ rd.ready = Between(s.frames, j, CountTo(s, s.pages[k]))
      BY OpusAtIs, Zenon
    <2> HIDE DEF rd
    <2>2. CountTo(s, s.pages[k]) = j
      BY <1>5 DEF first
    <2> QED BY <2>1, <2>2, Zenon DEF first
  <1> DEFINE set(x, y, z) == [rd EXCEPT !.carry = x, !.carry_active = y, !.ready = z]
             new(x, y, z) == [NewReader EXCEPT !.carry = x, !.carry_active = y, !.ready = z]
  <1>14. \A x, y, z : set(x, y, z) = new(x, y, z)
    <2>1. PICK c, a, r : rd = [NewReader EXCEPT !.carry = c, !.carry_active = a, !.ready = r]
      BY Zenon DEF OpusAt
    <2> HIDE DEF rd
    <2> QED BY <2>1 DEF NewReader
  <1> HIDE DEF rd
  <1>7. rd.ready = <<>>
    <2>1. Between(s.frames, j, j) = <<>>
      BY <1>5 DEF Between
    <2> QED BY <1>6, <2>1, Zenon
  <1>8. carried(page, rd) = Begun(s, first)
    <2>1. EndsPacket(s, first) => Begun(s, first) = <<>>
      BY <1>3, <1>4, BegunIs
    <2> QED BY <1>1, <1>6, <2>1, Zenon DEF carried
  <1>9. lace_loop(page, rd) = Walked(s, first, last)
    <2>1. Len(page.laces) = last - first
          /\ \A i \in 1 .. last - first : page.laces[i] = Lace(s, first + i)
      BY <1>1 DEF n
    <2>2. /\ s.frames \in Seq(Frames) /\ WellLaced(s) /\ WellCounted(s)
          /\ last \in 0 .. Segments(s) /\ first \in 0 .. last
          /\ page.data = Between(s.payload, SegEnd(s, first), SegEnd(s, last))
      BY <1>1, <1>2, <1>3, Zenon
    <2> QED BY <1>8, <2>1, <2>2, PageLoop
  <1> DEFINE ready == Between(s.frames, CountTo(s, first), CountTo(s, last))
  <1>10. lace_loop(page, rd).cur = Begun(s, last) /\ lace_loop(page, rd).ready = ready
    BY <1>9 DEF Walked
  <1>11. opus_pull(there, rd)
           = IF refused(page, rd) THEN Broken(rest, rd)
             ELSE Answer("again", <<>>, rest, after(page, rd))
    <2> DEFINE w == Drained(there, OpusFrom(there) - 1)
    <2>1. w = there
      <3>1. \A x \in Seq(Byte) : Drained(x, 1 - 1) = x
        BY DEF Drained
      <3> QED BY <1>1, <3>1, Zenon
    <2>2. /\ refused(page_at(w), rd) =>
               opus_pull(there, rd) = Broken(Drained(w, page_total(w)), rd)
          /\ ~refused(page_at(w), rd) =>
               opus_pull(there, rd)
                 = Answer("again", <<>>, Drained(w, page_total(w)), after(page_at(w), rd))
      <3>1. page_complete(w)
        BY <1>1, <2>1, Zenon
      <3> QED BY <1>1, <1>7, <3>1, Zenon DEF opus_pull, OpusStarts, OpusFrom
    <2> HIDE DEF w
    <2> QED BY <2>1, <2>2, Zenon DEF page
  <1> HIDE DEF rest
  <1>12. CASE refused(page, rd)
    <2>1. PICK x \in 1 .. Len(ready) : ready[x].data[1][1] = "bad"
      BY <1>10, <1>12, Zenon DEF refused
    <2>2. PICK f \in 1 .. Len(s.frames) : ready[x] = s.frames[f]
      <3>1. Len(ready) = CountTo(s, last) - j
            /\ \A y \in 1 .. CountTo(s, last) - j : ready[y] = s.frames[j + y]
        <4>1. j <= Len(s.frames) /\ ready = Between(s.frames, j, CountTo(s, last))
          BY <1>3, <1>5
        <4> HIDE DEF ready
        <4>2. ASSUME NEW q \in Seq(Frames), NEW a \in Nat, NEW z \in Nat, a <= z, z <= Len(q)
              PROVE  Len(Between(q, a, z)) = z - a
                     /\ \A y \in 1 .. z - a : Between(q, a, z)[y] = q[a + y]
          BY <4>2, PartIs
        <4> QED BY <1>3, <1>5, <4>1, <4>2, Zenon
      <3> HIDE DEF ready
      <3>2. x \in 1 .. CountTo(s, last) - j
        BY <3>1
      <3>3. j + x \in 1 .. Len(s.frames)
        <4> DEFINE z == CountTo(s, last)
                   l == Len(s.frames)
        <4>1. j \in Nat /\ z \in Nat /\ l \in Nat /\ z <= l /\ x \in 1 .. z - j
          BY <1>3, <1>5, <3>2, Zenon
        <4> HIDE DEF z, l
        <4> QED BY <4>1 DEF l
      <3>4. ready[x] = s.frames[j + x]
        BY <3>1, <3>2
      <3> QED BY <3>3, <3>4
    <2>3. s.known = <<>>
      BY <2>1, <2>2, Zenon DEF WellPaged
    <2>4. opus_pull(there, rd) = Broken(rest, rd)
      BY <1>11, <1>12, Zenon
    <2>5. opus_pull(there, rd).status = "error" /\ opus_pull(there, rd).frames = <<>>
      BY <2>4 DEF Broken, Answer
    <2> QED BY <2>3, <2>5, Zenon DEF there, rd, j
  <1>13. CASE ~refused(page, rd)
    <2> DEFINE active == page.laces # <<>> /\ Last(page.laces) = Full
    <2>1. active = ~EndsPacket(s, last)
      <3>1. page.laces # <<>>
        <4>1. Len(page.laces) # 0
          BY <1>1, <1>2
        <4> QED BY <4>1
      <3>2. Last(page.laces) = Lace(s, last)
        <4>1. n \in 1 .. n
          BY <1>2
        <4>2. page.laces[n] = Lace(s, first + n)
          BY <1>1, <4>1
        <4> QED BY <1>1, <1>2, <4>2, Zenon DEF Last
      <3>3. Lace(s, last) \in Nat /\ Lace(s, last) <= Full
        <4>1. last \in 1 .. Segments(s)
          BY <1>2, <1>3, <1>4
        <4> QED BY <1>3, <4>1, LacedIs
      <3>4. EndsPacket(s, last) <=> Lace(s, last) < Full
        BY <1>4, Zenon DEF EndsPacket
      <3>5. Lace(s, last) = Full <=> ~(Lace(s, last) < Full)
        BY <3>3, ContainersAssumption
      <3> QED BY <3>1, <3>2, <3>4, <3>5, Zenon
    <2> HIDE DEF active
    <2> DEFINE carry == IF active THEN lace_loop(page, rd).cur
                        ELSE IF page.continued /\ rd.carry_active THEN <<>> ELSE rd.carry
    <2>2. after(page, rd) = set(carry, active, lace_loop(page, rd).ready)
      BY Zenon DEF after, active
    <2>3. carry = Begun(s, last)
      <3>1. EndsPacket(s, first) => Begun(s, first) = <<>>
        BY <1>3, <1>4, BegunIs
      <3>2. EndsPacket(s, last) => Begun(s, last) = <<>>
        BY <1>2, <1>3, BegunIs
      <3>3. CASE EndsPacket(s, last)
        <4>1. (IF page.continued /\ rd.carry_active THEN <<>> ELSE rd.carry) = <<>>
          BY <1>1, <1>6, <3>1, Zenon
        <4> QED BY <2>1, <3>2, <3>3, <4>1, Zenon
      <3>4. CASE ~EndsPacket(s, last)
        BY <1>10, <2>1, <3>4, Zenon
      <3> QED BY <3>3, <3>4
    <2> HIDE DEF carry
    <2>4. after(page, rd) = OpusAt(s, k + 1, j)
      <3> HIDE DEF set, new
      <3>1. after(page, rd) = new(Begun(s, last), ~EndsPacket(s, last), ready)
        BY <1>10, <1>14, <2>1, <2>2, <2>3, Zenon
      <3>2. OpusAt(s, k + 1, j)
              = new(Begun(s, last), ~EndsPacket(s, last), Between(s.frames, j, CountTo(s, last)))
        BY Zenon DEF OpusAt, last, new
      <3> QED BY <1>5, <3>1, <3>2, Zenon
    <2>5. opus_pull(there, rd) = Answer("again", <<>>, rest, after(page, rd))
      BY <1>11, <1>13, Zenon
    <2>6. rest = Drained(there, total)
      BY <1>1, Zenon DEF rest
    <2> QED BY <2>4, <2>5, <2>6, Zenon DEF there, rd, j, total
  <1> QED BY <1>12, <1>13

\* A pump with frames ready pushes the next one, whatever it has read.
LEMMA ReadyTurn ==
  ASSUME NEW s \in Sources, WellMade(s), WellPaged(s), NEW k \in 1 .. Len(s.cuts),
         NEW j \in Nat, j < CountTo(s, s.pages[k]), NEW buf_
  PROVE  /\ j + 1 <= CountTo(s, s.pages[k]) /\ j + 1 <= Len(s.frames)
         /\ opus_pull(buf_, OpusAt(s, k, j))
              = Answer("frame", <<s.frames[j + 1]>>, buf_, OpusAt(s, k, j + 1))
  <1> DEFINE rd == OpusAt(s, k, j)
             z == CountTo(s, s.pages[k])
  <1>1. /\ s.frames \in Seq(Frames) /\ Len(s.frames) \in Nat /\ z \in Nat /\ z <= Len(s.frames)
    <2>1. /\ s.frames \in Seq(Frames) /\ Len(s.frames) \in Nat /\ WellLaced(s) /\ WellCounted(s)
          /\ s.pages[k] \in 0 .. Segments(s)
      BY PagedIs
    <2> QED BY <2>1, CountedIs
  <1>2. j < z
    OBVIOUS
  <1>3. rd.ready = Between(s.frames, j, z)
    BY OpusAtIs, Zenon
  <1> HIDE DEF z
  <1>4. /\ Between(s.frames, j, z) # <<>> /\ Head(Between(s.frames, j, z)) = s.frames[j + 1]
        /\ Tail(Between(s.frames, j, z)) = Between(s.frames, j + 1, z)
    BY <1>1, <1>2, PartFirst
  <1>5. Tail(rd.ready) = Between(s.frames, j + 1, CountTo(s, s.pages[k]))
    BY <1>3, <1>4, Zenon DEF z
  <1>6. [rd EXCEPT !.ready = Tail(@)] = OpusAt(s, k, j + 1)
    <2>1. PICK i \in Nat : i = j + 1
      OBVIOUS
    <2>2. Tail(OpusAt(s, k, j).ready) = Between(s.frames, i, CountTo(s, s.pages[k]))
      BY <1>5, <2>1, Zenon
    <2> HIDE DEF rd
    <2>3. [OpusAt(s, k, j) EXCEPT !.ready = Tail(@)] = OpusAt(s, k, i)
      BY <2>2, OpusAtTaken
    <2> QED BY <2>1, <2>3, Zenon DEF rd
  <1> HIDE DEF rd
  <1>7. opus_pull(buf_, rd)
          = Answer("frame", <<Head(rd.ready)>>, buf_, [rd EXCEPT !.ready = Tail(@)])
    BY <1>3, <1>4, Zenon DEF opus_pull
  <1>8. j + 1 <= z /\ j + 1 <= Len(s.frames)
    BY <1>1, <1>2
  <1> QED BY <1>3, <1>4, <1>6, <1>7, <1>8, Zenon DEF rd, z

\* At a stage with frames ready, the next one is pushed.
LEMMA ReadyStage ==
  ASSUME NEW s \in Sources, WellMade(s), WellPaged(s), NEW T,
         \A x \in 1 .. Len(s.cuts) : \A y \in 0 .. CountTo(s, s.pages[x]) : OpusStage(s, x, y) \in T,
         NEW k \in 1 .. Len(s.cuts), NEW j \in Nat, j < CountTo(s, s.pages[k])
  PROVE  LET stage == OpusStage(s, k, j)
         IN  /\ RightTurn(s, T, stage, Pull(s.format, stage[1], stage[2]))
             /\ \A n \in 0 .. Len(stage[1]) :
                  NothingWaits(s, stage, n, Pull(s.format, SubSeq(stage[1], 1, n), stage[2]))
  <1> DEFINE stage == OpusStage(s, k, j)
             rd == OpusAt(s, k, j)
             rest == Drained(s.bytes, s.cuts[k])
             next == <<s.frames[j + 1]>>
             answer(b) == Pull(s.format, b, rd)
  <1>1. stage[1] = rest /\ stage[2] = rd /\ stage[3] = SubSeq(s.frames, 1, j)
    BY DEF OpusStage
  <1>2. s.frames \in Seq(Frames) /\ Len(s.frames) \in Nat /\ s.format = "opus"
    BY PagedIs
  <1>3. ASSUME NEW b
        PROVE  answer(b) = Answer("frame", next, b, OpusAt(s, k, j + 1))
    <2>1. answer(b) = opus_pull(b, rd)
      BY <1>2 DEF Pull
    <2> QED BY <2>1, ReadyTurn, Zenon
  <1>4. j + 1 \in 0 .. CountTo(s, s.pages[k]) /\ j + 1 <= Len(s.frames) /\ j <= Len(s.frames)
        /\ j + 1 \in Nat
    <2>1. j + 1 <= CountTo(s, s.pages[k]) /\ j + 1 <= Len(s.frames)
      BY ReadyTurn
    <2>2. CountTo(s, s.pages[k]) \in Nat
      <3>1. /\ s.frames \in Seq(Frames) /\ WellLaced(s) /\ WellCounted(s)
            /\ s.pages[k] \in 0 .. Segments(s)
        BY PagedIs
      <3> QED BY <3>1, CountedIs
    <2> QED BY <1>2, <2>1, <2>2
  <1>5. /\ IsPrefix(SubSeq(s.frames, 1, j), s.frames)
        /\ IsPrefix(SubSeq(s.frames, 1, j + 1), s.frames)
        /\ SubSeq(s.frames, 1, j) \o next = SubSeq(s.frames, 1, j + 1)
    BY <1>2, <1>4, Firsts
  <1> DEFINE full == answer(rest)
  <1>6. full.status = "frame" /\ full.frames = next /\ full.rest = rest
        /\ full.reader = OpusAt(s, k, j + 1)
    <2> HIDE DEF answer, rest, next
    <2>1. full = Answer("frame", next, rest, OpusAt(s, k, j + 1))
      BY <1>3
    <2> HIDE DEF full
    <2> QED BY <2>1 DEF Answer
  <1>7. \A b : answer(b).status = "frame"
    <2> HIDE DEF answer, next
    <2> QED BY <1>3 DEF Answer
  <1> HIDE DEF answer, next, rest, rd
  <1> HIDE DEF full
  <1>8. Turned(stage, full) = OpusStage(s, k, j + 1)
    <2>1. full.status # "error"
      BY <1>6
    <2> HIDE DEF stage
    <2> QED BY <1>1, <1>5, <1>6, <2>1, Zenon DEF Turned, OpusStage, rest
  <1>9. RightTurn(s, T, stage, full)
    <2>1. OpusStage(s, k, j + 1) \in T
      BY <1>4, Zenon
    <2> HIDE DEF stage
    <2> QED BY <1>1, <1>5, <1>6, <1>8, <2>1, Zenon DEF RightTurn
  <1>10. ASSUME NEW b, NEW n PROVE NothingWaits(s, stage, n, answer(b))
    <2>1. answer(b).status \notin {"none", "error"}
      <3>1. answer(b).status = "frame"
        BY <1>7
      <3> QED BY <3>1
    <2> QED BY <2>1, Zenon DEF NothingWaits
  <1> HIDE DEF stage
  <1> QED BY <1>1, <1>9, <1>10, Zenon DEF full, answer, stage

\* With none ready, a turn pushes none.
LEMMA QuietTurn ==
  ASSUME NEW w, NEW rd, rd.ready = <<>>
  PROVE  opus_pull(w, rd).frames = <<>>
  <1>1. \E st, left, kept : opus_pull(w, rd) = Answer(st, <<>>, left, kept)
    BY Zenon DEF opus_pull, NeedMore, Broken
  <1> QED BY <1>1 DEF Answer

\* At a stage with none ready, the next page is read, or there is none.
LEMMA PageStage ==
  ASSUME NEW s \in Sources, WellMade(s), WellPaged(s), NEW T,
         \A x \in 1 .. Len(s.cuts) : \A y \in 0 .. CountTo(s, s.pages[x]) : OpusStage(s, x, y) \in T,
         NEW k \in 1 .. Len(s.cuts)
  PROVE  LET stage == OpusStage(s, k, CountTo(s, s.pages[k]))
         IN  /\ RightTurn(s, T, stage, Pull(s.format, stage[1], stage[2]))
             /\ \A n \in 0 .. Len(stage[1]) :
                  NothingWaits(s, stage, n, Pull(s.format, SubSeq(stage[1], 1, n), stage[2]))
  <1> DEFINE b == s.bytes
             c == s.cuts[k]
             full == Len(b)
             j == CountTo(s, s.pages[k])
             stage == OpusStage(s, k, j)
             rd == OpusAt(s, k, j)
             rest == Drained(b, c)
             before == SubSeq(s.frames, 1, j)
             part(n) == Pull(s.format, Between(b, c, c + n), rd)
             answer == Pull(s.format, rest, rd)
  <1>1. /\ b \in Seq(Byte) /\ full \in Nat /\ s.format = "opus"
        /\ s.frames \in Seq(Frames) /\ Len(s.frames) \in Nat /\ WellLaced(s) /\ WellCounted(s)
        /\ Len(s.cuts) \in Nat /\ c \in Nat /\ c <= full /\ s.pages[k] \in 0 .. Segments(s)
    BY PagedIs
  <1>2. j \in Nat /\ j <= Len(s.frames)
    BY <1>1, CountedIs
  <1>3. before \in Seq(Frames) /\ Len(before) = j /\ IsPrefix(before, s.frames)
    BY <1>1, <1>2, Firsts
  <1>4. stage[1] = rest /\ stage[2] = rd /\ stage[3] = before /\ stage \in T
    <2>1. stage \in T
      <3>1. j \in 0 .. CountTo(s, s.pages[k])
        BY <1>2
      <3> HIDE DEF j
      <3> QED BY <3>1, Zenon
    <2>2. stage[1] = rest /\ stage[2] = rd /\ stage[3] = before
      BY DEF OpusStage
    <2> QED BY <2>1, <2>2
  <1>5. /\ rest = Between(b, c, full) /\ rest \in Seq(Byte) /\ Len(rest) = full - c
        /\ \A n \in 0 .. full - c : SubSeq(rest, 1, n) = Between(b, c, c + n)
                                    /\ Drained(rest, n) = Drained(b, c + n)
    BY <1>1, BetweenEnds
  <1>6. \A x : Pull(s.format, x, rd) = opus_pull(x, rd)
    <2> HIDE DEF rd
    <2> QED BY <1>1 DEF Pull
  <1>7. rd.ready = <<>>
    <2>1. rd.ready = Between(s.frames, j, j)
      BY OpusAtIs, Zenon
    <2> HIDE DEF j, rd
    <2>2. Between(s.frames, j, j) = <<>>
      BY <1>2 DEF Between
    <2> QED BY <2>1, <2>2
  <1>8. before \o <<>> = before
    BY <1>3
  \* What a page behind this stage tells complete has not been read here.
  <1>9. ASSUME NEW f \in 1 .. Len(s.known), s.known[f] <= c PROVE f <= j
    <2>1. s.known # <<>>
      BY <1>9, EmptySeq
    <2>2. s.known[f] <= s.cuts[k] <=> f <= s.done[s.pages[k] + 1]
      BY <2>1, Zenon DEF WellPaged
    <2> QED BY <1>9, <2>2 DEF CountTo
  <1> HIDE DEF stage, rd, rest, before, part, answer, j
  <1> SUFFICES /\ RightTurn(s, T, stage, answer)
               /\ \A n \in 0 .. full - c : NothingWaits(s, stage, n, part(n))
    BY <1>4, <1>5, Zenon DEF answer, part, stage, j
  <1>10. ASSUME NEW n \in 0 .. full - c
         PROVE  /\ Len(b) - Len(stage[1]) + n = c + n /\ c + n \in Nat /\ c + n <= full
    <2>1. Len(stage[1]) = full - c
      BY <1>4, <1>5
    <2> HIDE DEF b, c
    <2> QED BY <1>1, <1>10, <2>1
  <1>11. CASE k = Len(s.cuts)
    <2>1. c = full
      BY <1>11, PagedIs
    <2>2. Len(rest) = 0 /\ rest = <<>>
      BY <1>1, <1>5, <2>1, EmptySeq
    <2>3. ASSUME NEW x, x = <<>> PROVE opus_pull(x, rd) = NeedMore(x, rd)
      <3>1. OpusStarts(x) = {}
        BY <2>3 DEF OpusStarts
      <3>2. ~(rd.ready # <<>>)
        BY <1>7
      <3> QED BY <3>1, <3>2, Zenon DEF opus_pull, OpusStarts
    <2>4. answer = NeedMore(rest, rd)
      BY <1>6, <2>2, <2>3, Zenon DEF answer
    <2>5. answer.status = "none" /\ answer.frames = <<>> /\ answer.rest = rest
          /\ answer.reader = rd
      BY <2>4 DEF NeedMore, Answer
    <2>6. Turned(stage, answer) = stage
      <3>1. answer.status # "error"
        BY <2>5
      <3>2. Turned(stage, answer) = <<rest, rd, before>>
        BY <1>4, <1>8, <2>5, <3>1, Zenon DEF Turned
      <3> QED BY <3>2, Zenon DEF stage, OpusStage, rest, rd, before
    <2>7. RightTurn(s, T, stage, answer)
      BY <1>3, <1>4, <1>8, <2>5, <2>6, Zenon DEF RightTurn
    <2>8. ASSUME NEW n \in 0 .. full - c PROVE NothingWaits(s, stage, n, part(n))
      <3> SUFFICES ASSUME NEW f \in 1 .. Len(s.known),
                          s.known[f] <= Len(b) - Len(stage[1]) + n,
                          part(n).status \in {"none", "error"}
                   PROVE  f <= Len(stage[3] \o part(n).frames)
        BY DEF NothingWaits
      <3>1. n = 0 /\ c + n = c
        BY <1>1, <2>1
      <3>2. s.known[f] <= c
        BY <1>10, <3>1
      <3>3. f <= j
        BY <1>9, <3>2
      <3>4. part(n).frames = <<>>
        <4>1. SubSeq(rest, 1, n) = Between(b, c, c + n)
          BY <1>5
        <4>2. SubSeq(rest, 1, n) = <<>>
          BY <2>2, <3>1
        <4>3. part(n) = NeedMore(<<>>, rd)
          BY <1>6, <2>3, <4>1, <4>2, Zenon DEF part
        <4> QED BY <4>3 DEF NeedMore, Answer
      <3>5. Len(stage[3] \o part(n).frames) = j
        BY <1>3, <1>4, <1>8, <3>4
      <3> QED BY <3>3, <3>5
    <2> QED BY <2>7, <2>8
  <1>12. CASE k # Len(s.cuts)
    <2> DEFINE to == s.cuts[k + 1]
    <2>1. /\ k \in 1 .. Len(s.cuts) - 1 /\ k + 1 \in 1 .. Len(s.cuts) /\ to \in Nat
          /\ c < to /\ to <= full
      <3>1. k \in 1 .. Len(s.cuts) - 1 /\ k + 1 \in 1 .. Len(s.cuts) /\ k < k + 1
        BY <1>1, <1>12
      <3> QED BY <3>1, PagedIs
    <2>2. ASSUME NEW e \in Nat, to <= e, e <= full
          PROVE  LET there == Between(b, c, e)
                 IN  \/ /\ s.known = <<>>
                        /\ opus_pull(there, rd).status = "error"
                        /\ opus_pull(there, rd).frames = <<>>
                     \/ opus_pull(there, rd)
                          = Answer("again", <<>>, Drained(there, to - c), OpusAt(s, k + 1, j))
      BY <2>1, <2>2, PageTurn DEF j, rd
    <2>3. j \in 0 .. CountTo(s, s.pages[k + 1])
      <3>1. s.pages[k + 1] \in s.pages[k] .. Segments(s)
        <4>1. s.pages[k + 1] \in 0 .. Segments(s) /\ s.pages[k] \in 0 .. s.pages[k + 1]
          BY <2>1, PageMade, Zenon
        <4> QED BY <1>1, <4>1
      <3>2. CountTo(s, s.pages[k]) <= CountTo(s, s.pages[k + 1])
        BY <1>1, <3>1, CountGrows
      <3>3. CountTo(s, s.pages[k + 1]) \in Nat
        <4>1. s.pages[k + 1] \in 0 .. Segments(s)
          BY <2>1, PagedIs
        <4> QED BY <1>1, <4>1, CountedIs
      <3> QED BY <1>2, <3>2, <3>3 DEF j
    <2>4. RightTurn(s, T, stage, answer)
      <3>1. \/ answer.status = "error" /\ answer.frames = <<>>
            \/ answer = Answer("again", <<>>, Drained(rest, to - c), OpusAt(s, k + 1, j))
        <4>1. full <= full
          BY <1>1
        <4> QED BY <1>1, <1>5, <1>6, <2>1, <2>2, <4>1, Zenon DEF answer
      <3>2. CASE answer.status = "error" /\ answer.frames = <<>>
        <4>1. Turned(stage, answer) = stage
          BY <3>2, Zenon DEF Turned
        <4> QED BY <1>3, <1>4, <1>8, <3>2, <4>1, Zenon DEF RightTurn
      <3>3. CASE answer = Answer("again", <<>>, Drained(rest, to - c), OpusAt(s, k + 1, j))
        <4>1. /\ answer.status = "again" /\ answer.frames = <<>>
              /\ answer.rest = Drained(rest, to - c) /\ answer.reader = OpusAt(s, k + 1, j)
          BY <3>3 DEF Answer
        <4>2. Drained(rest, to - c) = Drained(b, to)
          <5>1. to - c \in 0 .. full - c /\ c + (to - c) = to
            <6> HIDE DEF c, to, full
            <6> QED BY <1>1, <2>1
          <5> QED BY <1>5, <5>1, Zenon
        <4>3. Turned(stage, answer) = OpusStage(s, k + 1, j)
          <5>1. answer.status # "error"
            BY <4>1
          <5> QED BY <1>4, <1>8, <4>1, <4>2, <5>1, Zenon DEF Turned, OpusStage, before
        <4>4. OpusStage(s, k + 1, j) \in T
          BY <2>1, <2>3, Zenon
        <4> QED BY <1>3, <1>4, <1>8, <4>1, <4>3, <4>4, Zenon DEF RightTurn
      <3> QED BY <3>1, <3>2, <3>3
    <2>5. ASSUME NEW n \in 0 .. full - c PROVE NothingWaits(s, stage, n, part(n))
      <3> SUFFICES ASSUME NEW f \in 1 .. Len(s.known),
                          s.known[f] <= Len(b) - Len(stage[1]) + n,
                          part(n).status \in {"none", "error"}
                   PROVE  f <= Len(stage[3] \o part(n).frames)
        BY DEF NothingWaits
      <3>1. s.known # <<>>
        BY EmptySeq
      <3>2. s.known[f] <= c + n
        BY <1>10
      <3>3. ~(to <= c + n)
        <4>1. SUFFICES ASSUME to <= c + n PROVE FALSE
          OBVIOUS
        <4>2. c + n \in Nat /\ c + n <= full
          BY <1>10
        <4>3. part(n) = Answer("again", <<>>, Drained(Between(b, c, c + n), to - c),
                               OpusAt(s, k + 1, j))
          BY <1>6, <2>2, <3>1, <4>1, <4>2, Zenon DEF part
        <4>4. part(n).status = "again"
          BY <4>3 DEF Answer
        <4> QED BY <4>4
      <3>4. PICK x \in 1 .. Len(s.cuts) : s.known[f] = s.cuts[x]
        BY <3>1, Zenon DEF WellPaged
      <3>5. s.known[f] <= c
        <4>1. s.cuts[x] \in Nat /\ s.cuts[x] <= c + n /\ c + n \in Nat
          <5>1. s.cuts[x] \in Nat
            BY PagedIs
          <5> QED BY <1>10, <3>2, <3>4, <5>1
        <4>2. ~(k + 1 < x) /\ x # k + 1
          <5>1. k + 1 < x => to < s.cuts[x]
            BY <2>1, PagedIs
          <5>2. ~(to < s.cuts[x])
            <6> HIDE DEF c, to
            <6> QED BY <2>1, <3>3, <4>1
          <5>3. x = k + 1 => s.cuts[x] = to
            OBVIOUS
          <5> QED BY <3>3, <4>1, <5>1, <5>2, <5>3
        <4>3. x = k \/ x < k
          BY <1>1, <4>2
        <4>4. x < k => s.cuts[x] < c
          BY PagedIs
        <4>5. x = k => s.cuts[x] = c
          OBVIOUS
        <4>6. s.cuts[x] <= c
          <5> HIDE DEF c
          <5> QED BY <1>1, <4>1, <4>3, <4>4, <4>5
        <4> QED BY <3>4, <4>6, Zenon
      <3>6. f <= j
        BY <1>9, <3>5
      <3>7. Len(stage[3] \o part(n).frames) = j
        <4>1. part(n).frames = <<>>
          <5>1. part(n) = opus_pull(Between(b, c, c + n), rd)
            BY <1>6, Zenon DEF part
          <5> QED BY <1>7, <5>1, QuietTurn, Zenon
        <4> QED BY <1>3, <1>4, <1>8, <4>1
      <3> QED BY <3>6, <3>7, Zenon
    <2> QED BY <2>4, <2>5
  <1> QED BY <1>11, <1>12

\* A page begins with its capture pattern: nothing of one is dropped unread.
LEMMA PageSkip ==
  ASSUME NEW s \in Sources, WellMade(s), WellPaged(s), NEW T,
         NEW k \in 1 .. Len(s.cuts), NEW j, OpusStage(s, k, j) \in T,
         NEW n \in 0 .. Len(OpusStage(s, k, j)[1])
  PROVE  RightSkip(s, T, OpusStage(s, k, j), n)
  <1> DEFINE stage == OpusStage(s, k, j)
             c == s.cuts[k]
             rest == Drained(s.bytes, c)
  <1>1. stage[1] = rest /\ stage = <<stage[1], stage[2], stage[3]>> /\ stage \in T
    BY DEF OpusStage
  <1>2. /\ s.bytes \in Seq(Byte) /\ Len(s.bytes) \in Nat /\ c \in Nat /\ c <= Len(s.bytes)
        /\ s.cuts[Len(s.cuts)] = Len(s.bytes) /\ Len(s.cuts) \in Nat
    BY PagedIs
  <1>3. /\ rest = Between(s.bytes, c, Len(s.bytes))
        /\ rest \in Seq(Byte) /\ Len(rest) = Len(s.bytes) - c
    <2>1. ASSUME NEW w \in Seq(Byte), NEW i \in Nat, i <= Len(w)
          PROVE  /\ Drained(w, i) = Between(w, i, Len(w))
                 /\ Between(w, i, Len(w)) \in Seq(Byte)
                 /\ Len(Between(w, i, Len(w))) = Len(w) - i
      BY <2>1, BetweenEnds
    <2> QED BY <1>2, <2>1, Zenon
  <1>4. n \in 0 .. Len(rest)
    BY <1>1
  <1> HIDE DEF stage, rest
  <1>5. CASE n = 0
    <2>1. Drained(rest, n) = rest
      BY <1>3, <1>5 DEF Drained
    <2>2. <<Drained(stage[1], n), stage[2], stage[3]>> = stage
      BY <1>1, <2>1, Zenon
    <2> QED BY <1>1, <2>2, Zenon DEF RightSkip, stage
  <1>6. CASE n # 0
    <2>1. k # Len(s.cuts)
      <3>1. c # Len(s.bytes)
        <4> HIDE DEF c
        <4> QED BY <1>2, <1>3, <1>4, <1>6
      <3> QED BY <1>2, <3>1
    <2>2. k \in 1 .. Len(s.cuts) - 1
      BY <1>2, <2>1
    <2>3. OpusStarts(rest) # {} /\ OpusFrom(rest) = 1
      <3>1. s.cuts[k + 1] <= Len(s.bytes) /\ Len(s.bytes) <= Len(s.bytes)
        <4>1. s.cuts[k + 1] <= Len(s.bytes)
          BY <2>2, PageMade, Zenon
        <4> QED BY <1>2, <4>1
      <3> QED BY <1>2, <1>3, <2>2, <3>1, PageThere, Zenon
    <2>4. rest[1][1] = "OggS"
      <3>1. OpusFrom(rest) \in OpusStarts(rest)
        <4>1. OpusFrom(rest) \in 1 .. Len(rest) /\ \A i \in OpusStarts(rest) : OpusFrom(rest) <= i
          <5>1. <<>> \in Seq(Byte)
            OBVIOUS
          <5> QED BY <1>3, <2>3, <5>1, FromKept, Zenon
        <4>2. PICK i \in OpusStarts(rest) : \A x \in OpusStarts(rest) : i <= x
          <5>1. OpusStarts(rest) \in SUBSET Nat
            BY <1>3 DEF OpusStarts
          <5> QED BY <2>3, <5>1, Smallest
        <4> QED BY <4>2 DEF OpusFrom
      <3> QED BY <2>3, <3>1 DEF OpusStarts
    <2>5. ~(\A i \in 1 .. n : stage[1][i][1] # "OggS")
      <3>1. 1 \in 1 .. n
        BY <1>3, <1>4, <1>6
      <3> QED BY <1>1, <2>4, <3>1, Zenon
    <2>6. ~Skippable(s.format, stage[1], n)
      BY <2>5, Zenon DEF Skippable
    <2> QED BY <2>6, Zenon DEF RightSkip, stage
  <1> QED BY <1>5, <1>6

\* Pages are taken apart into the frames that their packets are.
LEMMA PagedRight ==
  ASSUME NEW s \in Sources, WellMade(s), WellPaged(s)
  PROVE  Right(s)
  <1> DEFINE T == UNION {{OpusStage(s, x, y) : y \in 0 .. CountTo(s, s.pages[x])} :
                           x \in 1 .. Len(s.cuts)}
  <1>1. \A x \in 1 .. Len(s.cuts) : \A y \in 0 .. CountTo(s, s.pages[x]) : OpusStage(s, x, y) \in T
    OBVIOUS
  <1>2. ASSUME NEW stage \in T
        PROVE  \E x \in 1 .. Len(s.cuts) : \E y \in 0 .. CountTo(s, s.pages[x]) :
                 stage = OpusStage(s, x, y)
    OBVIOUS
  <1> HIDE DEF T
  <1>3. /\ s.format = "opus" /\ s.bytes \in Seq(Byte) /\ s.frames \in Seq(Frames)
        /\ WellLaced(s) /\ WellCounted(s) /\ 1 \in 1 .. Len(s.cuts)
        /\ s.cuts[1] = 0 /\ s.pages[1] = 0
        /\ \A x \in 1 .. Len(s.cuts) : s.pages[x] \in 0 .. Segments(s)
    BY PagedIs
  <1>4. \A x \in 1 .. Len(s.cuts) : CountTo(s, s.pages[x]) \in Nat
    BY <1>3, CountedIs
  <1>5. Start(s) \in T
    <2>1. CountTo(s, s.pages[1]) = 0
      BY <1>3, CountedIs
    <2>2. OpusStage(s, 1, 0) = Start(s)
      <3>1. Drained(s.bytes, s.cuts[1]) = s.bytes
        <4>1. \A w \in Seq(Byte) : Drained(w, 0) = w
          BY DEF Drained
        <4> QED BY <1>3, <4>1
      <3>2. SubSeq(s.frames, 1, 0) = <<>>
        BY <1>3
      <3>3. OpusAt(s, 1, 0) = NewReader
        <4>1. Segments(s) \in Nat /\ 0 \in 0 .. Segments(s)
          BY <1>3, LacedIs
        <4>2. EndsPacket(s, 0)
          BY DEF EndsPacket
        <4>3. Begun(s, 0) = <<>>
          BY <1>3, <4>1, <4>2, BegunIs
        <4>4. Between(s.frames, 0, 0) = <<>>
          BY DEF Between
        <4> DEFINE c == Begun(s, s.pages[1])
                   a == ~EndsPacket(s, s.pages[1])
                   r == Between(s.frames, 0, CountTo(s, s.pages[1]))
        <4>5. OpusAt(s, 1, 0) = [NewReader EXCEPT !.carry = c, !.carry_active = a, !.ready = r]
          BY DEF OpusAt
        <4>6. c = <<>> /\ a = FALSE /\ r = <<>>
          BY <1>3, <2>1, <4>2, <4>3, <4>4, Zenon
        <4> HIDE DEF c, a, r
        <4> QED BY <4>5, <4>6 DEF NewReader
      <3> QED BY <3>1, <3>2, <3>3, Zenon DEF OpusStage, Start
    <2>3. 0 \in 0 .. CountTo(s, s.pages[1])
      BY <2>1
    <2> QED BY <1>1, <1>3, <2>2, <2>3, Zenon
  <1>6. ASSUME NEW stage \in T PROVE RightStage(s, T, stage)
    <2>0. PICK x \in 1 .. Len(s.cuts) :
            \E y \in 0 .. CountTo(s, s.pages[x]) : stage = OpusStage(s, x, y)
      BY <1>2, Zenon
    <2>1. PICK y \in 0 .. CountTo(s, s.pages[x]) : stage = OpusStage(s, x, y)
      BY <2>0
    <2> DEFINE z == CountTo(s, s.pages[x])
    <2>2. y \in Nat /\ (y < z \/ y = z)
      <3>1. z \in Nat
        BY <1>4
      <3> HIDE DEF z
      <3>2. y \in 0 .. z
        BY DEF z
      <3> QED BY <3>1, <3>2
    <2>3. /\ RightTurn(s, T, stage, Pull(s.format, stage[1], stage[2]))
          /\ \A n \in 0 .. Len(stage[1]) :
               NothingWaits(s, stage, n, Pull(s.format, SubSeq(stage[1], 1, n), stage[2]))
      <3>1. CASE y < z
        BY <1>1, <2>1, <2>2, <3>1, ReadyStage, Zenon
      <3>2. CASE y = z
        <4>1. stage = OpusStage(s, x, CountTo(s, s.pages[x]))
          BY <2>1, <3>2
        <4> QED BY <1>1, <4>1, PageStage, Zenon
      <3> QED BY <2>2, <3>1, <3>2
    <2>4. \A n \in 0 .. Len(stage[1]) : RightSkip(s, T, stage, n)
      BY <2>1, PageSkip, Zenon
    <2>5. LeavesTheTail(s, stage, Pull(s.format, stage[1], stage[2]))
      <3>1. s.format \notin {"h264", "hevc"}
        BY <1>3
      <3> QED BY <3>1, Zenon DEF LeavesTheTail
    <2> QED BY <2>3, <2>4, <2>5, Zenon DEF RightStage
  <1>7. RightStages(s, T)
    BY <1>5, <1>6, Zenon DEF RightStages, RightStage
  <1>8. s.bytes # <<>> /\ \A f \in 1 .. Len(s.known) : s.known[f] \in Nat \ {0}
    <2>1. s.bytes # <<>> /\ s.known \in Seq(Nat \ {0})
      BY Zenon DEF WellMade
    <2> QED BY <2>1, ElementOfSeq
  <1>9. SkipsNothing(s, T)
    <2> SUFFICES ASSUME NEW stage \in T, NEW n \in 0 .. Len(stage[1]),
                        Skippable(s.format, stage[1], n)
                 PROVE  <<Drained(stage[1], n), stage[2], stage[3]>> = stage
      BY Zenon DEF SkipsNothing
    <2>1. PICK x \in 1 .. Len(s.cuts) :
            \E y \in 0 .. CountTo(s, s.pages[x]) : stage = OpusStage(s, x, y)
      BY <1>2, Zenon
    <2>2. PICK y \in 0 .. CountTo(s, s.pages[x]) : stage = OpusStage(s, x, y)
      BY <2>1
    <2> DEFINE only == {stage}
    <2>3. OpusStage(s, x, y) \in only /\ n \in 0 .. Len(OpusStage(s, x, y)[1])
      BY <2>2
    <2> HIDE DEF only
    <2>4. RightSkip(s, only, OpusStage(s, x, y), n)
      BY <2>3, PageSkip, Zenon
    <2>5. <<Drained(stage[1], n), stage[2], stage[3]>> \in only
      BY <2>2, <2>4, Zenon DEF RightSkip
    <2> QED BY <2>5 DEF only
  <1> QED BY <1>7, <1>8, <1>9, Zenon DEF Right

-----------------------------------------------------------------------------
(* All of them *)

\* Whatever the muxers write, the framers take apart as it was written.
LEMMA MadeRight ==
  ASSUME NEW s \in Sources, WellMade(s)
  PROVE  Right(s)
  <1>1. WellPacked(s) \/ WellCut(s) \/ WellPaged(s)
    BY Zenon DEF WellMade
  <1> QED BY <1>1, PackedRight, CutRight, PagedRight, Zenon DEF InRow

-----------------------------------------------------------------------------
(* Turn by turn, until nothing moves *)

\* What a turn leaves to be done: bytes to look at, frames to hand out.
Left(bytes, kept) == Len(bytes) + Len(kept.ready)

\* A turn changes nothing, or leaves less; or the framer gives up.
Moves(answer, s, rd) ==
  \/ answer.status = "error"
  \/ answer.rest = s /\ answer.reader = rd /\ answer.frames = <<>>
  \/ Left(answer.rest, answer.reader) < Left(s, rd)

LEMMA StaysMoves ==
  ASSUME NEW s, NEW rd, NEW st
  PROVE  Moves(Answer(st, <<>>, s, rd), s, rd)
  BY DEF Moves, Answer

LEMMA BrokenMoves ==
  ASSUME NEW s, NEW rd, NEW left, NEW kept
  PROVE  Moves(Broken(left, kept), s, rd)
  BY DEF Moves, Answer, Broken

LEMMA DrainMoves ==
  ASSUME NEW s \in Seq(Byte), NEW rd \in Reader, NEW n \in Nat \ {0}, n <= Len(s),
         NEW st, NEW fs, NEW kept, kept.ready = rd.ready
  PROVE  Moves(Answer(st, fs, Drained(s, n), kept), s, rd)
  <1> DEFINE d == Drained(s, n)
             out == Answer(st, fs, d, kept)
  <1>1. Len(d) = Len(s) - n /\ Len(s) \in Nat
    BY RestIs
  <1>2. Len(rd.ready) \in Nat
    BY DEF Reader
  <1> HIDE DEF d
  <1>3. out.rest = d /\ out.reader = kept
    BY DEF Answer
  <1> HIDE DEF out
  <1>4. Len(d) + Len(rd.ready) < Len(s) + Len(rd.ready)
    BY <1>1, <1>2
  <1>5. Left(out.rest, out.reader) < Left(s, rd)
    BY <1>3, <1>4, Zenon DEF Left
  <1> QED BY <1>5, Zenon DEF Moves, out, d

LEMMA OpusMoves ==
  ASSUME NEW s \in Seq(Byte), NEW rd \in Reader
  PROVE  Moves(opus_pull(s, rd), s, rd)
  <1> DEFINE from  == OpusFrom(s) - 1
             there == Drained(s, from)
             rest  == Drained(there, page_total(there))
             page  == page_at(there)
             out   == opus_pull(s, rd)
  <1>0. Len(s) \in Nat /\ rd.ready \in Seq(Frames) /\ Len(rd.ready) \in Nat
    BY DEF Reader
  <1>1. CASE rd.ready # <<>>
    <2> DEFINE kept == [rd EXCEPT !.ready = Tail(@)]
               one == Head(rd.ready)
    <2>1. out = Answer("frame", <<one>>, s, kept)
      BY <1>1, Zenon DEF opus_pull
    <2>2. kept.ready = Tail(rd.ready) /\ Len(Tail(rd.ready)) = Len(rd.ready) - 1
      BY <1>0, <1>1, HeadTailProperties DEF Reader
    <2> HIDE DEF kept, one, out
    <2>3. out.rest = s /\ out.reader = kept
      BY <2>1 DEF Answer
    <2>4. Len(s) + (Len(rd.ready) - 1) < Len(s) + Len(rd.ready)
      BY <1>0
    <2>5. Left(out.rest, out.reader) < Left(s, rd)
      BY <2>2, <2>3, <2>4, Zenon DEF Left
    <2> QED BY <2>5, Zenon DEF Moves, out
  <1>2. CASE rd.ready = <<>> /\ OpusStarts(s) = {}
    <2>1. out = Answer("none", <<>>, s, rd)
      BY <1>2, Zenon DEF opus_pull, OpusStarts, NeedMore
    <2> QED BY <2>1, StaysMoves, Zenon
  <1>3. CASE rd.ready = <<>> /\ OpusStarts(s) # {}
    <2>1. from \in Nat /\ from <= Len(s)
      <3>1. <<>> \in Seq(Byte)
        OBVIOUS
      <3>2. OpusFrom(s) \in 1 .. Len(s)
        BY <1>3, <3>1, FromKept
      <3> QED BY <3>2
    <2>2. there \in Seq(Byte) /\ Len(there) = Len(s) - from
      BY <2>1, RestIs, Zenon
    <2>3. CASE ~page_complete(there)
      <3>1. out = Answer("none", <<>>, there, rd)
        BY <1>3, <2>3, Zenon DEF opus_pull, OpusStarts, OpusFrom, NeedMore
      <3>2. CASE from = 0
        <4>1. there = s
          BY <3>2 DEF Drained
        <4> HIDE DEF there
        <4> QED BY <3>1, <4>1, StaysMoves, Zenon
      <3>3. CASE from # 0
        <4>1. from \in Nat \ {0}
          BY <2>1, <3>3
        <4> HIDE DEF from
        <4> QED BY <2>1, <3>1, <4>1, DrainMoves, Zenon
      <3> QED BY <3>2, <3>3
    <2>4. CASE page_complete(there) /\ refused(page, rd)
      <3>1. out = Broken(rest, rd)
        BY <1>3, <2>4, Zenon DEF opus_pull, OpusStarts, OpusFrom
      <3> QED BY <3>1, BrokenMoves, Zenon
    <2>5. CASE page_complete(there) /\ ~refused(page, rd)
      <3> DEFINE n == there[2][2]
                 sum == Sum(page.laces)
                 kept == after(page, rd)
                 ready == lace_loop(page, rd).ready
      <3>1. out = Answer("again", <<>>, rest, kept)
        BY <1>3, <2>5, Zenon DEF opus_pull, OpusStarts, OpusFrom
      <3> HIDE DEF from, there, rest
      <3>2. /\ n \in Nat /\ Len(page.laces) = n
            /\ \A i \in 1 .. n : page.laces[i] \in Nat
            /\ page.data \in Seq(Byte) /\ Len(page.data) = Sum(page.laces)
            /\ page_total(there) = (2 + n) + sum /\ sum \in Nat
        BY <2>2, <2>5, PageIs, Zenon
      <3>3. page_total(there) \in Nat /\ page_total(there) <= Len(there)
        <4>1. <<>> \in Seq(Byte)
          OBVIOUS
        <4> QED BY <2>2, <2>5, <4>1, PageKept, Zenon
      <3>4. Len(rest) = Len(there) - page_total(there)
        BY <2>2, <3>3, RestIs, Zenon DEF rest
      <3> HIDE DEF sum, n, page
      <3>5. ready \in Seq(Frames) /\ Len(ready) <= n
        BY <3>2, LoopTyped, Zenon
      <3>6. kept.ready = ready
        BY DEF after, Reader
      <3> HIDE DEF kept, ready, out
      <3>7. out.rest = rest /\ out.reader = kept
        BY <3>1 DEF Answer
      <3>8. Len(rest) + Len(ready) < Len(s) + Len(rd.ready)
        <4>1. Len(ready) \in Nat /\ Len(there) \in Nat
          BY <2>2, <3>5
        <4> QED BY <1>0, <2>1, <2>2, <3>2, <3>3, <3>4, <3>5, <4>1
      <3>9. Left(out.rest, out.reader) < Left(s, rd)
        BY <3>6, <3>7, <3>8, Zenon DEF Left
      <3> QED BY <3>9, Zenon DEF Moves, out
    <2> QED BY <2>3, <2>4, <2>5
  <1> QED BY <1>1, <1>2, <1>3

LEMMA FramerMoves ==
  ASSUME NEW s \in Seq(Byte), NEW format \in Formats, NEW rd \in Reader
  PROVE  Moves(Pull(format, s, rd), s, rd)
  <1>0. Len(s) \in Nat /\ <<>> \in Seq(Byte)
    OBVIOUS
  <1>1. CASE format \in Codecs
    <2>0. Pull(format, s, rd) = pull_au(format, s, rd)
      BY <1>1 DEF Pull, Codecs
    <2>1. CASE \A stop : ~EndsAt(format, s, stop)
      <3>1. pull_au(format, s, rd) = Answer("none", <<>>, s, rd)
        BY <2>1, AuIs, Zenon DEF pull_au, NeedMore
      <3> QED BY <2>0, <3>1, StaysMoves, Zenon
    <2>2. CASE \E stop : EndsAt(format, s, stop)
      <3> PICK stop : EndsAt(format, s, stop)
        BY <2>2
      <3> DEFINE begin == Least(find_start_codes(s))
                 au == [data |-> SubSeq(s, begin, stop - 1), key |-> KeyBefore(format, s, stop)]
      <3>1. begin \in Nat \ {0} /\ stop \in Nat /\ begin < stop /\ stop <= Len(s)
        BY <1>0, <1>1, EndStands
      <3>2. next_au(format, s, FALSE) = <<au>>
        BY AuIs, Zenon
      <3>3. Len(au.data) \in Nat \ {0} /\ Len(au.data) <= Len(s)
        <4> HIDE DEF begin
        <4>1. /\ begin - 1 \in Nat /\ stop - begin \in Nat \ {0} /\ Len(s) \in Nat
              /\ (begin - 1) + (stop - begin) = stop - 1 /\ (begin - 1) + 1 = begin
              /\ stop - 1 <= Len(s) /\ stop - begin <= Len(s) /\ stop - begin \in Nat
          BY <3>1
        <4>2. Len(SubSeq(s, (begin - 1) + 1, (begin - 1) + (stop - begin))) = stop - begin
          BY <4>1, Piece, Zenon
        <4>3. au.data = SubSeq(s, begin, stop - 1)
          OBVIOUS
        <4> QED BY <4>1, <4>2, <4>3, Zenon
      <3> HIDE DEF au
      <3>4. \E fs : pull_au(format, s, rd) = Answer("frame", fs, Drained(s, Len(au.data)), rd)
        BY <3>2, OneAu, Zenon DEF pull_au
      <3> QED BY <2>0, <3>3, <3>4, DrainMoves, Zenon
    <2> QED BY <2>1, <2>2
  <1>2. CASE format = "ivf"
    <2> DEFINE len == 2 + s[1][2]
               seen == [rd EXCEPT !.header_seen = TRUE]
    <2>0. Pull(format, s, rd) = ivf_pull(s, rd)
      BY <1>2 DEF Pull
    <2>1. CASE Len(s) < 2 \/ (rd.header_seen /\ Len(s) < len)
      <3>1. ivf_pull(s, rd) = Answer("none", <<>>, s, rd)
        BY <2>1, Zenon DEF ivf_pull, NeedMore
      <3> QED BY <2>0, <3>1, StaysMoves, Zenon
    <2>2. CASE ~(Len(s) < 2) /\ ~rd.header_seen
      <3> DEFINE h == hdr_len(s)
      <3>1. \/ ivf_pull(s, rd) = Broken(s, rd)
            \/ ivf_pull(s, rd) = Answer("none", <<>>, s, rd)
            \/ ~(Len(s) < h) /\ ivf_pull(s, rd) = Answer("again", <<>>, Drained(s, h), seen)
        BY <2>2, Zenon DEF ivf_pull, NeedMore
      <3>2. seen.ready = rd.ready
        BY DEF Reader
      <3>3. h \in Nat \ {0} /\ (~(Len(s) < h) => h <= Len(s))
        <4>1. Len(s) >= 2 /\ <<>> \in Seq(Byte)
          BY <1>0, <2>2
        <4>2. h \in Nat /\ 2 <= h
          BY <4>1, FileHeaderKept
        <4> QED BY <1>0, <4>2
      <3> HIDE DEF seen, h
      <3> QED BY <2>0, <3>1, <3>2, <3>3, BrokenMoves, StaysMoves, DrainMoves, Zenon
    <2>3. CASE ~(Len(s) < 2) /\ rd.header_seen /\ ~(Len(s) < len)
      <3>1. \E fs : ivf_pull(s, rd) = Answer("frame", fs, Drained(s, len), rd)
        BY <2>3, Zenon DEF ivf_pull
      <3>2. len \in Nat \ {0} /\ len <= Len(s)
        <4>1. s[1][2] \in Nat
          <5>1. s[1] \in Byte
            BY <1>0, <2>3, ElementOfSeq
          <5> QED BY <5>1 DEF Byte
        <4> QED BY <1>0, <2>3, <4>1
      <3> HIDE DEF len
      <3> QED BY <2>0, <3>1, <3>2, DrainMoves, Zenon
    <2> QED BY <2>1, <2>2, <2>3
  <1>3. CASE format = "aac"
    <2> DEFINE len == s[2][2]
    <2>0. Pull(format, s, rd) = adts_next_frame(s, rd)
      BY <1>3 DEF Pull
    <2>1. CASE Len(s) < 2 \/ s[1][1] # "sync" \/ len < 2 \/ Len(s) < len
      <3>1. \/ adts_next_frame(s, rd) = Answer("none", <<>>, s, rd)
            \/ adts_next_frame(s, rd) = Broken(s, rd)
        BY <2>1, Zenon DEF adts_next_frame, NeedMore
      <3> QED BY <2>0, <3>1, StaysMoves, BrokenMoves, Zenon
    <2>2. CASE ~(Len(s) < 2 \/ s[1][1] # "sync" \/ len < 2 \/ Len(s) < len)
      <3>1. \E fs : adts_next_frame(s, rd) = Answer("frame", fs, Drained(s, len), rd)
        BY <2>2, Zenon DEF adts_next_frame
      <3>2. len \in Nat \ {0} /\ len <= Len(s)
        <4>1. s[2][2] \in Nat
          <5>1. s[2] \in Byte
            BY <1>0, <2>2, ElementOfSeq
          <5> QED BY <5>1 DEF Byte
        <4> QED BY <1>0, <2>2, <4>1
      <3> HIDE DEF len
      <3> QED BY <2>0, <3>1, <3>2, DrainMoves, Zenon
    <2> QED BY <2>1, <2>2
  <1>4. CASE format = "opus"
    BY <1>4, OpusMoves DEF Pull
  <1>5. CASE format = "g711"
    <2>0. Pull(format, s, rd) = g711_next_frame(s, rd)
      BY <1>5 DEF Pull
    <2>1. CASE Len(s) < G711Need
      <3>1. g711_next_frame(s, rd) = Answer("none", <<>>, s, rd)
        BY <2>1, Zenon DEF g711_next_frame, NeedMore
      <3> QED BY <2>0, <3>1, StaysMoves, Zenon
    <2>2. CASE ~(Len(s) < G711Need)
      <3>1. \E fs : g711_next_frame(s, rd) = Answer("frame", fs, Drained(s, G711Need), rd)
        BY <2>2, Zenon DEF g711_next_frame
      <3>2. G711Need \in Nat \ {0} /\ G711Need <= Len(s)
        BY <1>0, <2>2, ContainersAssumption
      <3> QED BY <2>0, <3>1, <3>2, DrainMoves, Zenon
    <2> QED BY <2>1, <2>2
  <1> QED BY <1>1, <1>2, <1>3, <1>4, <1>5 DEF Formats, Codecs

\* A stage that there can be: of bytes, and what a reader keeps.
IsStage(stage) == /\ stage = <<stage[1], stage[2], stage[3]>>
                  /\ stage[1] \in Seq(Byte) /\ stage[2] \in Reader
                  /\ stage[3] \in Seq(Frames)

LEMMA StageMoves ==
  ASSUME NEW s \in Sources, NEW stage, IsStage(stage)
  PROVE  LET next == AfterTurn(s, stage)
         IN  /\ IsStage(next)
             /\ next = stage \/ Left(next[1], next[2]) < Left(stage[1], stage[2])
             /\ Left(stage[1], stage[2]) \in Nat
  <1> DEFINE answer == Pull(s.format, stage[1], stage[2])
             next == AfterTurn(s, stage)
             turned == <<answer.rest, answer.reader, stage[3] \o answer.frames>>
  <1>1. /\ stage = <<stage[1], stage[2], stage[3]>>
        /\ stage[1] \in Seq(Byte) /\ stage[2] \in Reader /\ stage[3] \in Seq(Frames)
    BY Zenon DEF IsStage
  <1>2. s.format \in Formats
    BY SourcesAre
  <1>3. /\ Moves(answer, stage[1], stage[2]) /\ GivesTyped(answer)
        /\ Shrinks(answer, stage[1])
    BY <1>1, <1>2, FramerMoves, FramerTyped, FramerShrinks, Zenon
  <1>4. Left(stage[1], stage[2]) \in Nat
    <2>1. Len(stage[1]) \in Nat /\ Len(stage[2].ready) \in Nat
      <3>1. ASSUME NEW b \in Seq(Byte), NEW rd \in Reader
            PROVE  Len(b) \in Nat /\ Len(rd.ready) \in Nat
        BY DEF Reader
      <3> QED BY <1>1, <3>1, Zenon
    <2>2. \A i, j \in Nat : i + j \in Nat
      OBVIOUS
    <2> QED BY <2>1, <2>2, Zenon DEF Left
  <1>5. next = IF answer.status = "error" THEN stage ELSE turned
    BY Zenon DEF AfterTurn, Turned
  <1> HIDE DEF next, answer
  <1>6. CASE answer.status = "error"
    <2>1. next = stage
      BY <1>5, <1>6, Zenon
    <2> QED BY <1>4, <2>1, Zenon DEF next
  <1>7. CASE answer.status # "error"
    <2>1. /\ turned[1] = answer.rest /\ turned[2] = answer.reader
          /\ turned[3] = stage[3] \o answer.frames
          /\ turned = <<turned[1], turned[2], turned[3]>>
      OBVIOUS
    <2>2. next = turned
      BY <1>5, <1>7, Zenon
    <2>3. stage[3] \o answer.frames \in Seq(Frames)
      <3>1. answer.frames \in Seq(Frames)
        BY <1>3, Zenon DEF GivesTyped
      <3> QED BY <1>1, <3>1, ConcatProperties
    <2>4. IsStage(turned)
      <3>1. answer.rest \in Seq(Byte) /\ answer.reader \in Reader
        BY <1>3, Zenon DEF GivesTyped, Shrinks
      <3> QED BY <2>1, <2>3, <3>1, Zenon DEF IsStage
    <2>5. turned = stage \/ Left(turned[1], turned[2]) < Left(stage[1], stage[2])
      <3>1. CASE answer.rest = stage[1] /\ answer.reader = stage[2] /\ answer.frames = <<>>
        <4>1. stage[3] \o <<>> = stage[3]
          BY <1>1
        <4>2. turned = <<stage[1], stage[2], stage[3]>>
          BY <3>1, <4>1, Zenon
        <4> QED BY <1>1, <4>2, Zenon
      <3>2. CASE Left(answer.rest, answer.reader) < Left(stage[1], stage[2])
        BY <2>1, <3>2, Zenon
      <3> QED BY <1>3, <1>7, <3>1, <3>2, Zenon DEF Moves
    <2> HIDE DEF turned
    <2> QED BY <1>4, <2>2, <2>4, <2>5, Zenon DEF next
  <1> QED BY <1>6, <1>7, Zenon

\* The run of Stages, turn by turn.
RunNext(s, before) == [all  |-> before.all \cup {AfterTurn(s, before.last)},
                       last |-> AfterTurn(s, before.last)]
Runs(f, s, m) == /\ f = [n \in 0 .. m |-> f[n]]
                 /\ f[0] = [all |-> {Start(s)}, last |-> Start(s)]
                 /\ \A n \in 1 .. m : f[n] = RunNext(s, f[n - 1])

LEMMA RunExists ==
  ASSUME NEW s, NEW n \in Nat
  PROVE  \E f : Runs(f, s, n)
  <1> DEFINE without == {m \in 0 .. n : ~(\E f : Runs(f, s, m))}
             start == [all |-> {Start(s)}, last |-> Start(s)]
  <1>1. SUFFICES ASSUME without # {} PROVE FALSE
    <2>1. n \in 0 .. n
      OBVIOUS
    <2> QED BY <2>1
  <1>2. PICK m \in without : \A k \in without : m <= k
    <2>1. without \in SUBSET Nat
      OBVIOUS
    <2> HIDE DEF without
    <2> QED BY <1>1, <2>1, Smallest
  <1>3. m \in 0 .. n /\ ~(\E f : Runs(f, s, m))
    OBVIOUS
  <1> HIDE DEF start
  <1>4. CASE m = 0
    <2> DEFINE g == [i \in 0 .. 0 |-> start]
    <2>1. g = [i \in 0 .. 0 |-> g[i]] /\ g[0] = start
      OBVIOUS
    <2>2. 1 .. 0 = {}
      OBVIOUS
    <2> HIDE DEF g
    <2>3. Runs(g, s, 0)
      BY <2>1, <2>2 DEF Runs, start
    <2> QED BY <1>3, <1>4, <2>3
  <1>5. CASE m # 0
    <2>1. m - 1 \in 0 .. n /\ m - 1 \notin without
      BY <1>2, <1>3, <1>5
    <2>2. PICK f : Runs(f, s, m - 1)
      BY <2>1
    <2> DEFINE last == RunNext(s, f[m - 1])
    <2> HIDE DEF last
    <2> DEFINE g == [i \in 0 .. m |-> IF i = m THEN last ELSE f[i]]
    <2>3. m \in Nat /\ m >= 1 /\ m - 1 \in Nat
      BY <1>3, <1>5
    <2>4. g[m] = last /\ \A i \in 0 .. m - 1 : g[i] = f[i]
      BY <2>3
    <2>5. g = [i \in 0 .. m |-> g[i]]
      OBVIOUS
    <2> HIDE DEF g
    <2>6. f[0] = start /\ \A i \in 1 .. m - 1 : f[i] = RunNext(s, f[i - 1])
      BY <2>2, Zenon DEF Runs, start
    <2>7. g[0] = start
      BY <2>3, <2>4, <2>6
    <2>8. ASSUME NEW i \in 1 .. m PROVE g[i] = RunNext(s, g[i - 1])
      <3>1. i - 1 \in 0 .. m - 1
        BY <2>3
      <3>2. CASE i = m
        <4>1. g[i] = RunNext(s, f[i - 1])
          BY <2>4, <3>2, Zenon DEF last
        <4> QED BY <2>4, <3>1, <4>1, Zenon
      <3>3. CASE i # m
        <4>1. i \in 1 .. m - 1 /\ i \in 0 .. m - 1
          BY <2>3, <3>3
        <4> QED BY <2>4, <2>6, <3>1, <4>1, Zenon
      <3> QED BY <3>2, <3>3
    <2>9. Runs(g, s, m)
      BY <2>5, <2>7, <2>8, Zenon DEF Runs, start
    <2> QED BY <1>3, <2>9
  <1> QED BY <1>4, <1>5

LEMMA StagesAre ==
  ASSUME NEW s, NEW n \in Nat, 2 * Len(s.bytes) = n
  PROVE  \E f : Runs(f, s, n) /\ Stages(s) = f[n].all
  <1> DEFINE start == [all |-> {Start(s)}, last |-> Start(s)]
             step(f) == [i \in 0 .. 2 * Len(s.bytes) |->
                           IF i = 0 THEN [all |-> {Start(s)}, last |-> Start(s)]
                           ELSE LET before == f[i - 1]
                                IN  [all  |-> before.all \cup {AfterTurn(s, before.last)},
                                     last |-> AfterTurn(s, before.last)]]
             run == CHOOSE f : f = step(f)
  <1>0. \A f : step(f) = [i \in 0 .. n |-> IF i = 0 THEN start ELSE RunNext(s, f[i - 1])]
    BY DEF RunNext
  <1>1. Stages(s) = run[2 * Len(s.bytes)].all
    BY Zenon DEF Stages
  <1> HIDE DEF step
  <1>2. \E f : f = step(f)
    <2>1. PICK f : Runs(f, s, n)
      BY RunExists
    <2>2. ASSUME NEW i \in 0 .. n
          PROVE  f[i] = IF i = 0 THEN start ELSE RunNext(s, f[i - 1])
      <3>1. i = 0 \/ (i # 0 /\ i \in 1 .. n)
        OBVIOUS
      <3> HIDE DEF start
      <3>2. f[0] = start /\ \A j \in 1 .. n : f[j] = RunNext(s, f[j - 1])
        BY <2>1, Zenon DEF Runs, start
      <3> QED BY <3>1, <3>2, Zenon
    <2>3. f = [i \in 0 .. n |-> f[i]]
      BY <2>1, Zenon DEF Runs
    <2> HIDE DEF start
    <2>4. f = step(f)
      BY <1>0, <2>2, <2>3
    <2> QED BY <2>4
  <1>3. run = step(run)
    BY <1>2
  <1> HIDE DEF run
  <1>4. \A i \in 0 .. n : run[i] = IF i = 0 THEN start ELSE RunNext(s, run[i - 1])
    <2> DEFINE h == [i \in 0 .. n |-> IF i = 0 THEN start ELSE RunNext(s, run[i - 1])]
    <2>1. run = h
      BY <1>0, <1>3, Zenon
    <2>2. \A i \in 0 .. n : h[i] = IF i = 0 THEN start ELSE RunNext(s, run[i - 1])
      OBVIOUS
    <2> HIDE DEF h
    <2> QED BY <2>1, <2>2
  <1>5. run = [i \in 0 .. n |-> run[i]]
    <2> DEFINE h == [i \in 0 .. n |-> IF i = 0 THEN start ELSE RunNext(s, run[i - 1])]
    <2>1. run = h
      BY <1>0, <1>3, Zenon
    <2>2. h = [i \in 0 .. n |-> h[i]]
      OBVIOUS
    <2> HIDE DEF h
    <2> QED BY <2>1, <2>2, Zenon
  <1>6. run[0] = start
    <2>1. 0 \in 0 .. n
      OBVIOUS
    <2> QED BY <1>4, <2>1, Zenon
  <1>7. ASSUME NEW i \in 1 .. n PROVE run[i] = RunNext(s, run[i - 1])
    <2>1. i \in 0 .. n /\ i # 0
      OBVIOUS
    <2> QED BY <1>4, <2>1, Zenon
  <1>8. Runs(run, s, n)
    BY <1>5, <1>6, <1>7, Zenon DEF Runs
  <1> QED BY <1>1, <1>8

\* The stages are all there are: each one's turn leads to one of them.
LEMMA StagesClosed ==
  ASSUME NEW s \in Sources, s.bytes # <<>>, NEW T, RightStages(s, T)
  PROVE  /\ Start(s) \in Stages(s) /\ Stages(s) \subseteq T
         /\ \A stage \in Stages(s) : AfterTurn(s, stage) \in Stages(s)
  <1> DEFINE size == Len(s.bytes)
             n == 2 * size
             todo(stage) == Left(stage[1], stage[2])
  <1>1. s.bytes \in Seq(Byte) /\ size \in Nat \ {0} /\ n \in Nat
    <2>1. s.bytes \in Seq(Byte) /\ size \in Nat
      BY SourcesAre
    <2>2. size # 0
      BY <2>1, EmptySeq
    <2> QED BY <2>1, <2>2
  <1>2. PICK f : Runs(f, s, n) /\ Stages(s) = f[n].all
    BY <1>1, StagesAre, Zenon
  <1>3. /\ f[0] = [all |-> {Start(s)}, last |-> Start(s)]
        /\ \A i \in 1 .. n : f[i] = RunNext(s, f[i - 1])
    BY <1>2, Zenon DEF Runs
  <1>4. /\ Start(s) \in T
        /\ \A stage \in T : AfterTurn(s, stage) \in T
    BY Zenon DEF RightStages, RightTurn, AfterTurn
  <1>5. IsStage(Start(s)) /\ todo(Start(s)) = size
    <2>1. NewReader \in Reader /\ NewReader.ready = <<>> /\ <<>> \in Seq(Frames)
      BY DEF NewReader, Reader
    <2>2. Start(s) = <<s.bytes, NewReader, <<>>>>
      BY Zenon DEF Start
    <2>3. /\ Start(s)[1] = s.bytes /\ Start(s)[2] = NewReader /\ Start(s)[3] = <<>>
          /\ Start(s) = <<Start(s)[1], Start(s)[2], Start(s)[3]>>
      BY <2>2
    <2>4. IsStage(Start(s))
      BY <1>1, <2>1, <2>3, Zenon DEF IsStage
    <2>5. size + Len(<<>>) = size
      BY <1>1
    <2> QED BY <2>1, <2>3, <2>4, <2>5, Zenon DEF Left
  <1> HIDE DEF size, n
  <1> DEFINE good(r, i) ==
               /\ r.last \in T /\ r.last \in r.all /\ IsStage(r.last) /\ Start(s) \in r.all
               /\ r.all \subseteq T
               /\ \A stage \in r.all : stage = r.last \/ AfterTurn(s, stage) \in r.all
               /\ AfterTurn(s, r.last) = r.last \/ todo(r.last) + i <= size
             other == {i \in 0 .. n : ~good(f[i], i)}
  <1>6. other = {}
    <2>1. SUFFICES ASSUME other # {} PROVE FALSE
      OBVIOUS
    <2>2. PICK i \in other : \A k \in other : i <= k
      <3>1. other \in SUBSET Nat
        OBVIOUS
      <3> HIDE DEF other
      <3> QED BY <2>1, <3>1, Smallest
    <2>3. i \in 0 .. n /\ ~good(f[i], i)
      OBVIOUS
    <2> HIDE DEF todo
    <2>4. i # 0
      <3>1. f[0].all = {Start(s)} /\ f[0].last = Start(s)
        BY <1>3
      <3>2. todo(Start(s)) + 0 <= size
        BY <1>1, <1>5
      <3>3. good(f[0], 0)
        <4>1. /\ Start(s) \in {Start(s)} /\ {Start(s)} \subseteq T
              /\ \A stage \in {Start(s)} : stage = Start(s)
          BY <1>4
        <4> QED BY <1>4, <1>5, <3>1, <3>2, <4>1, Zenon
      <3> QED BY <2>3, <3>3
    <2>5. i - 1 \in 0 .. n /\ i - 1 \notin other /\ i \in 1 .. n
      BY <1>1, <2>2, <2>3, <2>4
    <2>6. good(f[i - 1], i - 1)
      BY <2>5
    <2> HIDE DEF other
    <2> DEFINE r == f[i - 1]
               old == r.last
               next == AfterTurn(s, old)
               all == r.all \cup {next}
    <2>7. f[i].all = all /\ f[i].last = next
      <3>1. f[i] = [all |-> all, last |-> next]
        BY <1>3, <2>5, Zenon DEF RunNext
      <3> HIDE DEF all, next
      <3> QED BY <3>1
    <2>8. /\ old \in T /\ old \in r.all /\ IsStage(old) /\ Start(s) \in r.all /\ r.all \subseteq T
          /\ \A stage \in r.all : stage = old \/ AfterTurn(s, stage) \in r.all
          /\ next = old \/ todo(old) + (i - 1) <= size
      BY <2>6, Zenon
    <2> HIDE DEF good
    <2>9. /\ IsStage(next) /\ todo(old) \in Nat
          /\ next = old \/ todo(next) < todo(old)
      BY <2>8, StageMoves, Zenon DEF todo
    <2>10. todo(next) \in Nat
      BY <2>9, StageMoves, Zenon DEF todo
    <2>11. next \in T
      BY <1>4, <2>8, Zenon
    <2>12. AfterTurn(s, next) = next \/ todo(next) + i <= size
      <3>1. CASE next = old
        <4>1. AfterTurn(s, next) = next
          BY <3>1, Zenon
        <4> QED BY <4>1
      <3>2. CASE next # old
        <4>1. todo(next) < todo(old) /\ todo(old) + (i - 1) <= size
          BY <2>8, <2>9, <3>2, Zenon
        <4> HIDE DEF next, old
        <4>2. todo(next) + i <= size
          BY <1>1, <2>5, <2>9, <2>10, <4>1
        <4> QED BY <4>2
      <3> QED BY <3>1, <3>2
    <2>13. /\ next \in all /\ Start(s) \in all /\ all \subseteq T
           /\ \A stage \in all : stage = next \/ AfterTurn(s, stage) \in all
      <3> HIDE DEF next, old
      <3>1. next \in all /\ Start(s) \in all /\ all \subseteq T
        BY <2>8, <2>11
      <3>2. ASSUME NEW stage \in all PROVE stage = next \/ AfterTurn(s, stage) \in all
        <4>1. stage = next \/ stage \in r.all
          OBVIOUS
        <4>2. stage = old => AfterTurn(s, stage) = next
          BY Zenon DEF next
        <4> QED BY <2>8, <3>1, <4>1, <4>2
      <3> QED BY <3>1, <3>2
    <2> HIDE DEF all, next
    <2>14. good(f[i], i)
      BY <2>7, <2>9, <2>11, <2>12, <2>13, Zenon DEF good
    <2> QED BY <2>3, <2>14, Zenon
  <1>7. good(f[n], n)
    <2>1. n \in 0 .. n
      BY <1>1
    <2> HIDE DEF good
    <2> QED BY <1>6, <2>1
  <1> DEFINE last == f[n].last
  <1>8. AfterTurn(s, last) = last
    <2>1. todo(last) \in Nat
      BY <1>7, StageMoves, Zenon
    <2> HIDE DEF todo, last
    <2>2. ~(todo(last) + n <= size)
      BY <1>1, <2>1 DEF n
    <2> QED BY <1>7, <2>2, Zenon DEF last
  <1>9. ASSUME NEW stage \in f[n].all PROVE AfterTurn(s, stage) \in f[n].all
    <2>1. stage = last \/ AfterTurn(s, stage) \in f[n].all
      BY <1>7, Zenon
    <2>2. last \in f[n].all
      BY <1>7, Zenon
    <2> QED BY <1>8, <2>1, <2>2, Zenon
  <1> QED BY <1>2, <1>7, <1>9, Zenon

\* A stream drained in one go goes through stages of the stages T, and stops.
LEMMA OneGo ==
  ASSUME NEW s \in Sources, s.bytes # <<>>, NEW T, RightStages(s, T), SkipsNothing(s, T)
  PROVE  RightStages(s, Stages(s))
  <1> DEFINE U == Stages(s)
  <1>1. /\ Start(s) \in U /\ U \subseteq T
        /\ \A stage \in U : AfterTurn(s, stage) \in U
    BY StagesClosed, Zenon
  <1> HIDE DEF U
  <1>2. ASSUME NEW stage \in U
        PROVE  /\ RightTurn(s, U, stage, Pull(s.format, stage[1], stage[2]))
               /\ LeavesTheTail(s, stage, Pull(s.format, stage[1], stage[2]))
               /\ \A n \in 0 .. Len(stage[1]) :
                    /\ RightSkip(s, U, stage, n)
                    /\ NothingWaits(s, stage, n,
                                    Pull(s.format, SubSeq(stage[1], 1, n), stage[2]))
    <2>1. stage \in T
      BY <1>1
    <2>2. /\ RightTurn(s, T, stage, Pull(s.format, stage[1], stage[2]))
          /\ LeavesTheTail(s, stage, Pull(s.format, stage[1], stage[2]))
          /\ \A n \in 0 .. Len(stage[1]) :
               NothingWaits(s, stage, n, Pull(s.format, SubSeq(stage[1], 1, n), stage[2]))
      BY <2>1, Zenon DEF RightStages
    <2>3. Turned(stage, Pull(s.format, stage[1], stage[2])) \in U
      BY <1>1, Zenon DEF AfterTurn
    <2>4. RightTurn(s, U, stage, Pull(s.format, stage[1], stage[2]))
      BY <2>2, <2>3, Zenon DEF RightTurn
    <2>5. \A n \in 0 .. Len(stage[1]) : RightSkip(s, U, stage, n)
      BY <2>1, Zenon DEF RightSkip, SkipsNothing
    <2> QED BY <2>2, <2>4, <2>5, Zenon
  <1>3. RightStages(s, U)
    BY <1>1, <1>2, Zenon DEF RightStages
  <1> QED BY <1>3 DEF U

-----------------------------------------------------------------------------
(* The theorems *)

\* Each framer undoes its muxer: of every stream as its muxer writes it, whatever
\* the format, one drain of all of it gives the frames that were muxed, each as soon
\* as it can be told complete, and comes to an end.
THEOREM FramersUndoMuxers ==
  ASSUME \A s \in Sources : WellMade(s)
  PROVE  Spec => []OneGoIsRight
  <1>1. ASSUME NEW s \in Sources PROVE RightInOneGo(s)
    <2>1. Right(s)
      BY MadeRight
    <2>2. RightStages(s, Stages(s))
      BY <2>1, OneGo, Zenon DEF Right
    <2> QED BY <2>1, <2>2, Zenon DEF Right, RightInOneGo
  <1>2. BufferInv => OneGoIsRight
    BY <1>1 DEF BufferInv, OneGoIsRight
  <1> QED BY <1>2, BufferInit, BufferStep, PTL DEF Spec

\* Whatever the muxers write and however the reads cut it, the input ends or starts
\* anew: the frames pushed are those that were muxed, whole and in order.  For all
\* streams of H.264 and HEVC access units, of IVF, ADTS and G.711 frames, and of Ogg
\* pages whose packets go on from page to page, of any length.
THEOREM FramesHoweverRead ==
  ASSUME \A s \in Sources : WellMade(s)
  PROVE  Spec => []FramesAreTheSource
  <1>0. \A s \in Sources : Right(s)
    BY MadeRight
  <1>1. Init => BufferInv /\ Staged
    BY <1>0, BufferInit, StagedInit
  <1>2. BufferInv /\ Staged /\ [Next]_vars => BufferInv' /\ Staged'
    <2>1. BufferInv => Right(source)
      BY <1>0 DEF BufferInv
    <2> QED BY <2>1, BufferStep, WholeStep, StagedStep
  <1>3. Staged => FramesAreTheSource
    BY DEF Staged, FramesAreTheSource
  <1> QED BY <1>1, <1>2, <1>3, PTL DEF Spec

\* Of such streams no frame is held back either: whenever a pump goes to read, or
\* has returned, it has pushed every frame whose end the bytes it has read tell,
\* however the reads cut them.
THEOREM NoFrameHeldBack ==
  ASSUME \A s \in Sources : WellMade(s)
  PROVE  Spec => []NothingHeldBack
  <1>0. \A s \in Sources : Right(s)
    BY MadeRight
  <1>1. Init => BufferInv /\ Staged /\ NothingHeldBack
    <2>1. Init => NothingHeldBack
      <3> SUFFICES ASSUME Init PROVE NothingHeldBack
        OBVIOUS
      <3>1. Right(source) /\ at = 0
        BY <1>0 DEF Init
      <3>2. \A k \in 1 .. Len(source.known) : source.known[k] \in Nat \ {0}
        BY <3>1, Zenon DEF Right
      <3> QED BY <3>1, <3>2 DEF NothingHeldBack
    <2> QED BY <1>0, <2>1, BufferInit, StagedInit
  <1>2. BufferInv /\ Staged /\ NothingHeldBack /\ [Next]_vars
          => BufferInv' /\ Staged' /\ NothingHeldBack'
    <2>1. BufferInv => Right(source)
      BY <1>0 DEF BufferInv
    <2> QED BY <2>1, BufferStep, WholeStep, StagedStep, NoneHeldBack
  <1> QED BY <1>1, <1>2, PTL DEF Spec

\* And what a pump keeps of a stream of access units that it has read to its end is
\* the last one, whatever the reads were: nothing before it stays behind.
THEOREM TailHoweverRead ==
  ASSUME \A s \in Sources : WellMade(s)
  PROVE  Spec => []TailIsTheLastFrame
  <1>0. \A s \in Sources : Right(s)
    BY MadeRight
  <1>1. Init => BufferInv /\ Staged /\ TailKept
    <2>1. Init => TailKept
      <3> SUFFICES ASSUME Init PROVE TailKept
        OBVIOUS
      <3>1. at = 0 /\ source.bytes # <<>> /\ source.bytes \in Seq(Byte)
        BY <1>0, SourcesAre, Zenon DEF Init, Right
      <3>2. Len(source.bytes) # 0
        BY <3>1, EmptySeq
      <3> QED BY <3>1, <3>2 DEF TailKept
    <2> QED BY <1>0, <2>1, BufferInit, StagedInit
  <1>2. BufferInv /\ Staged /\ TailKept /\ [Next]_vars
          => BufferInv' /\ Staged' /\ TailKept'
    <2>1. BufferInv => Right(source)
      BY <1>0 DEF BufferInv
    <2> QED BY <2>1, BufferStep, WholeStep, StagedStep, TailStep
  <1>3. TailKept => TailIsTheLastFrame
    BY DEF TailKept, TailIsTheLastFrame
  <1> QED BY <1>1, <1>2, <1>3, PTL DEF Spec
=============================================================================
