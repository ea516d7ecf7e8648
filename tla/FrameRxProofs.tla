--------------------------- MODULE FrameRxProofs ---------------------------
(***************************************************************************)
(* Proofs about FrameRx, for every set of byte streams, every size of the  *)
(* buffer and of the queue.                                                *)
(*                                                                         *)
(* What the search sees in rf_uart_rx_buf is what stands in the stream:    *)
(* once the buffer is known to be the last bytes read (BufferIsTail), a    *)
(* jump of the search can be judged in the stream itself.                  *)
(***************************************************************************)
EXTENDS FrameRx, TLAPS, SequenceTheorems, WellFoundedInduction

TypeInv ==
  /\ stream \in Seq(0 .. 255) /\ taken \in 0 .. Len(stream)
  /\ stream \in Streams
  /\ buf \in Seq(0 .. 255) /\ Len(buf) <= BufSize
  /\ offset \in 0 .. Len(buf) /\ pc \in {"idle", "scan"} /\ (pc = "idle" => offset = 0)
  /\ found \subseteq 0 .. Len(stream) /\ rxq \in Seq(0 .. Len(stream))
  /\ Len(rxq) <= RxDepth /\ handled \in -1 .. Len(stream)

IInv == TypeInv /\ BufferIsTail /\ NoFrameSkipped

-----------------------------------------------------------------------------
(***************************************************************************)
(* What the buffer shows of the stream.                                    *)
(***************************************************************************)

\* The same bytes, wherever they stand.
LEMMA SubSeqSame ==
  ASSUME NEW s \in Seq(0 .. 255), NEW t \in Seq(0 .. 255), NEW d \in Nat,
         NEW a \in Nat \ {0}, NEW b \in 0 .. Len(s), d + b <= Len(t),
         \A i \in 1 .. Len(s) : s[i] = t[d + i]
  PROVE  SubSeq(s, a, b) = SubSeq(t, d + a, d + b)
<1>1. CASE a > b
  BY <1>1, SubSeqEmpty
<1>2. CASE a <= b
  <2>1. /\ SubSeq(s, a, b) \in Seq(0 .. 255) /\ Len(SubSeq(s, a, b)) = b - a + 1
        /\ \A i \in 1 .. b - a + 1 : SubSeq(s, a, b)[i] = s[a + i - 1]
    <3>1. ASSUME NEW i \in a .. b PROVE s[i] \in 0 .. 255
      <4>1. i \in 1 .. Len(s)
        OBVIOUS
      <4> QED
        BY <4>1, ElementOfSeq
    <3> QED
      BY <1>2, <3>1, SubSeqProperties
  <2>2. /\ SubSeq(t, d + a, d + b) \in Seq(0 .. 255)
        /\ Len(SubSeq(t, d + a, d + b)) = b - a + 1
        /\ \A i \in 1 .. b - a + 1 : SubSeq(t, d + a, d + b)[i] = t[d + a + i - 1]
    <3>1. \A i \in d + a .. d + b : t[i] \in 0 .. 255
      <4>1. \A i \in d + a .. d + b : i \in 1 .. Len(t)
        OBVIOUS
      <4> QED
        BY <4>1, ElementOfSeq
    <3>2. d + a \in Int /\ d + b \in Int /\ d + a <= d + b
          /\ (d + b) - (d + a) + 1 = b - a + 1
      BY <1>2
    <3> HIDE <1>2
    <3> DEFINE m == d + a  n == d + b
    <3>3. m \in Int /\ n \in Int /\ m <= n /\ n - m + 1 = b - a + 1
          /\ \A i \in m .. n : t[i] \in 0 .. 255
      BY <3>1, <3>2
    <3> HIDE DEF m, n
    <3>4. /\ SubSeq(t, m, n) \in Seq(0 .. 255) /\ Len(SubSeq(t, m, n)) = n - m + 1
          /\ \A i \in 1 .. n - m + 1 : SubSeq(t, m, n)[i] = t[m + i - 1]
      BY <3>3, SubSeqProperties
    <3> QED
      BY <3>3, <3>4 DEF m, n
  <2>3. ASSUME NEW i \in 1 .. b - a + 1
        PROVE  SubSeq(s, a, b)[i] = SubSeq(t, d + a, d + b)[i]
    <3>1. a + i - 1 \in 1 .. Len(s) /\ d + (a + i - 1) = d + a + i - 1
      BY <1>2
    <3> QED
      BY <2>1, <2>2, <3>1
  <2> QED
    BY <2>1, <2>2, <2>3, SeqEqual
<1> QED
  BY <1>1, <1>2

LEMMA Modulo ==
  ASSUME NEW m \in Nat \ {0}, NEW x \in Int
  PROVE  x % m \in 0 .. m - 1
  BY SMT

LEMMA UShortRange == UShort \in Nat /\ \A x \in Int : x % UShort \in 0 .. UShort - 1
<1>1. UShort \in Nat \ {0}
  BY SMT DEF UShort
<1> QED
  BY <1>1, Modulo

\* A frame length is a length of 16 bits.
LEMMA FrameLenRange ==
  ASSUME NEW s \in Seq(0 .. 255), NEW p \in Nat, p + HEAD <= Len(s)
  PROVE  FrameLen(s, p) \in 0 .. UShort - 1 /\ FrameLen(s, p) \in Nat
<1>1. UShort \in Nat /\ \A x \in Int : x % UShort \in 0 .. UShort - 1
  BY UShortRange
<1>2. p + 7 \in 1 .. Len(s) /\ p + 8 \in 1 .. Len(s)
  BY DEF HEAD
<1>3. s[p + 7] \in 0 .. 255 /\ s[p + 8] \in 0 .. 255
  BY <1>2, ElementOfSeq
<1>4. ASSUME NEW h \in 0 .. 255, NEW l \in 0 .. 255
      PROVE  (h * 256 + l + HEAD) % UShort \in 0 .. UShort - 1
  <2>1. h * 256 + l + HEAD \in Int
    BY DEF HEAD
  <2> QED
    BY <1>1, <2>1, Zenon
<1>5. FrameLen(s, p) \in 0 .. UShort - 1
  BY <1>3, <1>4, Zenon DEF FrameLen
<1> QED
  BY <1>1, <1>5

\* Head, version and length at the search are the stream's; so is the check sum of
\* a frame that is there as a whole.
LEMMA View ==
  ASSUME TypeInv, BufferIsTail, NEW p \in 0 .. Len(buf), p + HEAD <= Len(buf)
  PROVE  /\ Base \in Nat /\ Base + p + HEAD <= Len(stream)
         /\ HeadAt(buf, p) <=> HeadAt(stream, Base + p)
         /\ VersionAt(buf, p) <=> VersionAt(stream, Base + p)
         /\ FrameLen(buf, p) = FrameLen(stream, Base + p)
         /\ Plausible(buf, p) <=> Plausible(stream, Base + p)
         /\ FrameLen(buf, p) \in 1 .. Len(buf) - p
              => (SumAt(buf, p) <=> SumAt(stream, Base + p))
<1>1. PICK b \in Nat : b = Base
  <2>1. Len(buf) \in Nat /\ taken \in Nat /\ Len(buf) <= taken
    BY DEF TypeInv, BufferIsTail
  <2> QED
    BY <2>1 DEF Base
<1>2. b + Len(buf) = taken /\ taken <= Len(stream)
  BY <1>1 DEF TypeInv, Base
<1>3. \A i \in 1 .. Len(buf) : buf[i] = stream[b + i]
  BY <1>1 DEF BufferIsTail
<1>4. /\ buf[p + 1] = stream[b + p + 1] /\ buf[p + 2] = stream[b + p + 2]
      /\ buf[p + 3] = stream[b + p + 3] /\ buf[p + 7] = stream[b + p + 7]
      /\ buf[p + 8] = stream[b + p + 8]
  <2>1. \A k \in 1 .. 9 : p + k \in 1 .. Len(buf) /\ b + (p + k) = b + p + k
    BY DEF HEAD, TypeInv
  <2>2. \A k \in 1 .. 9 : buf[p + k] = stream[b + p + k]
    BY <1>3, <2>1
  <2> QED
    BY <2>2
<1>5. /\ HeadAt(buf, p) <=> HeadAt(stream, b + p)
      /\ VersionAt(buf, p) <=> VersionAt(stream, b + p)
      /\ FrameLen(buf, p) = FrameLen(stream, b + p)
  BY <1>4 DEF HeadAt, VersionAt, FrameLen
<1>6. ASSUME FrameLen(buf, p) \in 1 .. Len(buf) - p
      PROVE  SumAt(buf, p) <=> SumAt(stream, b + p)
  <2>1. PICK n \in 1 .. Len(buf) - p : n = FrameLen(buf, p)
    BY <1>6
  <2>2. SubSeq(buf, p + 1, p + n - 1) = SubSeq(stream, b + (p + 1), b + (p + n - 1))
    BY <1>2, <1>3, SubSeqSame DEF TypeInv
  <2>3. b + (p + 1) = b + p + 1 /\ b + (p + n - 1) = b + p + n - 1
    OBVIOUS
  <2>4. buf[p + n] = stream[b + p + n]
    BY <1>3 DEF TypeInv
  <2> QED
    BY <1>5, <2>1, <2>2, <2>3, <2>4 DEF SumAt
<1>7. b + p + HEAD <= Len(stream)
  BY <1>2 DEF HEAD, TypeInv
<1> QED
  BY <1>1, <1>5, <1>6, <1>7 DEF Plausible

-----------------------------------------------------------------------------
(***************************************************************************)
(* The steps.                                                              *)
(***************************************************************************)

\* Where the search stands in the stream, as a number.
LEMMA SearchAt ==
  ASSUME TypeInv, BufferIsTail
  PROVE  /\ Base \in Nat /\ Base + Len(buf) = taken /\ taken <= Len(stream)
         /\ Len(buf) \in Nat /\ Len(stream) \in Nat /\ offset \in Nat
         /\ offset <= Len(buf)
  BY DEF TypeInv, BufferIsTail, Base

\* A call that reads more bytes.
LEMMA FillKeeps ==
  ASSUME IInv, Fill
  PROVE  IInv'
<1> USE FrameRxAssumption
<1>1. PICK n \in taken .. Len(stream) :
        /\ n - taken <= BufSize - Len(buf)
        /\ buf' = buf \o SubSeq(stream, taken + 1, n)
        /\ taken' = n
  BY DEF Fill
<1>2. /\ pc = "idle" /\ offset = 0 /\ pc' \in {"idle", "scan"}
      /\ UNCHANGED <<stream, offset, found, rxq, handled>>
  BY DEF Fill, IInv, TypeInv
<1>3. /\ stream \in Seq(0 .. 255) /\ buf \in Seq(0 .. 255)
      /\ Len(stream) \in Nat /\ Len(buf) \in Nat /\ taken \in Nat /\ n \in Nat
      /\ taken <= n /\ n <= Len(stream) /\ Len(buf) <= taken
  BY DEF IInv, TypeInv, BufferIsTail
<1> DEFINE more == SubSeq(stream, taken + 1, n)
<1>4. /\ more \in Seq(0 .. 255) /\ Len(more) = n - taken
      /\ \A i \in 1 .. n - taken : more[i] = stream[taken + i]
  <2>1. ASSUME NEW i \in taken + 1 .. n PROVE stream[i] \in 0 .. 255
    <3>1. i \in 1 .. Len(stream)
      BY <1>3
    <3> QED
      BY <1>3, <3>1, ElementOfSeq
  <2>2. /\ more \in Seq(0 .. 255)
        /\ Len(more) = IF taken + 1 <= n THEN n - (taken + 1) + 1 ELSE 0
        /\ \A i \in 1 .. n - (taken + 1) + 1 : more[i] = stream[taken + 1 + i - 1]
    BY <1>3, <2>1, SubSeqProperties
  <2> QED
    BY <1>3, <2>2
<1> HIDE DEF more
<1>5. PICK l \in Nat, t \in Nat : l = Len(buf) /\ t = taken /\ l <= t /\ t <= n
  BY <1>3
<1>6. /\ buf' \in Seq(0 .. 255) /\ Len(buf') = l + (n - t)
      /\ \A i \in 1 .. l + (n - t) : buf'[i] = IF i <= l THEN buf[i] ELSE more[i - l]
  <2>1. buf' = buf \o more
    BY <1>1 DEF more
  <2>2. /\ buf \o more \in Seq(0 .. 255) /\ Len(buf \o more) = Len(buf) + Len(more)
        /\ \A i \in 1 .. Len(buf) + Len(more) :
             (buf \o more)[i] = IF i <= Len(buf) THEN buf[i] ELSE more[i - Len(buf)]
    BY <1>3, <1>4, ConcatProperties
  <2>3. Len(buf) = l /\ Len(more) = n - t
    BY <1>4, <1>5
  <2> QED
    BY <2>1, <2>2, <2>3, Zenon
<1>7. PICK b \in Nat : b = Base /\ b + l = t
  BY <1>5, SearchAt DEF IInv
<1>8. Base' = b
  <2>1. Base' = n - (l + (n - t))
    BY <1>1, <1>6 DEF Base
  <2> QED
    BY <1>5, <1>7, <2>1
<1>9. BufferIsTail'
  <2>1. ASSUME NEW i \in 1 .. l + (n - t) PROVE buf'[i] = stream[b + i]
    <3>1. CASE i <= l
      <4>1. buf'[i] = buf[i]
        BY <1>6, <3>1
      <4>2. buf[i] = stream[b + i]
        BY <1>5, <1>7, <3>1 DEF IInv, BufferIsTail
      <4> QED
        BY <4>1, <4>2
    <3>2. CASE i > l
      <4>1. i - l \in 1 .. n - t /\ t + (i - l) = b + i
        BY <1>5, <1>7, <3>2
      <4>2. more[i - l] = stream[t + (i - l)]
        BY <1>4, <1>5, <4>1
      <4> QED
        BY <1>6, <3>2, <4>1, <4>2
    <3> QED
      BY <1>5, <3>1, <3>2
  <2>2. l + (n - t) <= n
    BY <1>5
  <2> QED
    BY <1>1, <1>2, <1>6, <1>8, <2>1, <2>2 DEF BufferIsTail
<1>10. TypeInv'
  <2>1. l + (n - t) <= BufSize /\ offset \in 0 .. l + (n - t)
    BY <1>1, <1>2, <1>5
  <2> QED
    BY <1>1, <1>2, <1>3, <1>6, <2>1 DEF IInv, TypeInv
<1>11. NoFrameSkipped'
  BY <1>2, <1>7, <1>8 DEF IInv, NoFrameSkipped
<1> QED
  BY <1>9, <1>10, <1>11 DEF IInv

\* The second and third byte of a head are no heads.
LEMMA NoHeadInside ==
  ASSUME NEW s, NEW p \in Nat, HeadAt(s, p)
  PROVE  /\ ~Intact(s, p + 1)
         /\ VersionAt(s, p) => ~Intact(s, p + 2)
<1>1. s[p + 2] = 170 /\ (VersionAt(s, p) => s[p + 3] = 2)
  BY DEF HeadAt, VersionAt, SECOND_FRAME_HEAD, SERIAL_PROTOCOL_VER
<1>2. p + 1 + 1 = p + 2 /\ p + 2 + 1 = p + 3
  OBVIOUS
<1>3. ~HeadAt(s, p + 1) /\ (VersionAt(s, p) => ~HeadAt(s, p + 2))
  BY <1>1, <1>2 DEF HeadAt, FIRST_FRAME_HEAD
<1> QED
  BY <1>3 DEF Intact, Plausible

\* The search moves on by k over positions at which it need not have stopped.
LEMMA MoveOn ==
  ASSUME IInv, NEW k \in Nat, offset + k <= Len(buf),
         UNCHANGED <<stream, taken, buf, pc, handled>>, pc = "scan",
         offset' = offset + k, found \subseteq found',
         found' \subseteq 0 .. Len(stream),
         rxq' \in Seq(0 .. Len(stream)), Len(rxq') <= RxDepth,
         \A p \in Base + offset .. Base + offset + k - 1 :
           Intact(stream, p) => p \in found' \/ \E q \in found' : Within(stream, p, q)
  PROVE  IInv'
<1>1. PICK x \in Nat, b \in Nat, o \in Nat : b = Base /\ o = offset /\ x = b + o
  <2>1. Base \in Nat /\ offset \in Nat /\ Base + offset \in Nat
    BY SearchAt DEF IInv
  <2> QED
    BY <2>1, Zenon
<1>2. Base' = b /\ offset' = o + k
  <2>1. Base' = Base
    BY DEF Base
  <2> QED
    BY <1>1, <2>1
<1>3. TypeInv' /\ BufferIsTail'
  <2>1. offset' \in 0 .. Len(buf)
    BY <1>1 DEF IInv, TypeInv
  <2> QED
    BY <1>1, <1>2, <2>1 DEF IInv, TypeInv, BufferIsTail
<1>4. ASSUME NEW p \in 0 .. b + (o + k) - 1, Intact(stream, p)
      PROVE  p \in found' \/ \E q \in found' : Within(stream, p, q)
  <2>1. CASE p \in 0 .. x - 1
    BY <1>1, <1>4, <2>1 DEF IInv, NoFrameSkipped
  <2>2. CASE p \in x .. x + k - 1
    BY <1>1, <1>4, <2>2
  <2> QED
    BY <1>1, <2>1, <2>2
<1>5. NoFrameSkipped'
  BY <1>2, <1>4 DEF NoFrameSkipped
<1> QED
  BY <1>3, <1>5 DEF IInv

LEMMA SkipsKeep ==
  ASSUME IInv, SkipNoise \/ SkipVersion \/ SkipOversize \/ SkipBadSum
  PROVE  IInv'
<1>1. PICK x \in Nat : x = Base + offset /\ Base \in Nat /\ offset \in Nat
  BY SearchAt DEF IInv
<1>2. Enough /\ pc = "scan" /\ offset + HEAD <= Len(buf) /\ offset \in 0 .. Len(buf)
  <2>1. pc = "scan" /\ Len(buf) - offset >= HEAD
    BY DEF SkipNoise, SkipVersion, SkipOversize, SkipBadSum, Enough
  <2> QED
    BY <1>1, <2>1 DEF IInv, TypeInv, Enough, HEAD
<1>3. /\ HeadAt(buf, offset) <=> HeadAt(stream, x)
      /\ VersionAt(buf, offset) <=> VersionAt(stream, x)
      /\ FrameLen(buf, offset) = FrameLen(stream, x)
      /\ Plausible(buf, offset) <=> Plausible(stream, x)
      /\ FrameLen(buf, offset) \in 1 .. Len(buf) - offset
           => (SumAt(buf, offset) <=> SumAt(stream, x))
  BY <1>1, <1>2, View DEF IInv
<1>4. ASSUME NEW k \in 1 .. 3, Skip(k), \A p \in x .. x + k - 1 : ~Intact(stream, p)
      PROVE  IInv'
  <2>1. /\ UNCHANGED <<stream, taken, buf, pc, found, rxq, handled>>
        /\ offset' = offset + k
    BY <1>4 DEF Skip
  <2>2. offset + k <= Len(buf)
    BY <1>1, <1>2 DEF HEAD, IInv, TypeInv
  <2>3. /\ found' \subseteq 0 .. Len(stream) /\ rxq' \in Seq(0 .. Len(stream))
        /\ Len(rxq') <= RxDepth
    BY <2>1 DEF IInv, TypeInv
  <2> QED
    BY <1>1, <1>2, <1>4, <2>1, <2>2, <2>3, MoveOn
<1>5. CASE SkipNoise
  <2>1. Skip(1) /\ ~Intact(stream, x)
    BY <1>3, <1>5 DEF SkipNoise, Intact, Plausible
  <2>2. \A p \in x .. x + 1 - 1 : p = x
    BY <1>1
  <2> QED
    BY <1>4, <2>1, <2>2
<1>6. CASE SkipVersion
  <2>1. Skip(2) /\ HeadAt(stream, x) /\ ~Intact(stream, x)
    BY <1>3, <1>6 DEF SkipVersion, Intact, Plausible
  <2>2. ~Intact(stream, x + 1)
    BY <2>1, NoHeadInside
  <2>3. \A p \in x .. x + 2 - 1 : p = x \/ p = x + 1
    BY <1>1
  <2> QED
    BY <1>4, <2>1, <2>2, <2>3
<1>7. CASE SkipOversize
  <2>1. Skip(3) /\ HeadAt(stream, x) /\ VersionAt(stream, x)
    BY <1>3, <1>7 DEF SkipOversize
  <2>2. ~Intact(stream, x)
    <3>1. FrameLen(buf, offset) > BufSize
      BY <1>7 DEF SkipOversize
    <3>2. PICK n \in Nat : n = FrameLen(buf, offset)
      BY <1>1, <1>2, FrameLenRange DEF IInv, TypeInv
    <3>3. ~(n <= BufSize)
      BY <3>1, <3>2, FrameRxAssumption
    <3> QED
      BY <1>3, <3>2, <3>3 DEF Intact, Plausible
  <2>3. ~Intact(stream, x + 1) /\ ~Intact(stream, x + 2)
    BY <2>1, NoHeadInside
  <2>4. \A p \in x .. x + 3 - 1 : p = x \/ p = x + 1 \/ p = x + 2
    BY <1>1
  <2> QED
    BY <1>4, <2>1, <2>2, <2>3, <2>4
<1>8. CASE SkipBadSum
  <2>1. Skip(3) /\ HeadAt(stream, x) /\ VersionAt(stream, x)
    BY <1>3, <1>8 DEF SkipBadSum, Plausible
  <2>2. ~Intact(stream, x)
    <3>1. SUFFICES ASSUME Intact(stream, x) PROVE FALSE
      OBVIOUS
    <3>2. PICK n \in Nat : n = FrameLen(buf, offset)
      BY <1>1, <1>2, FrameLenRange DEF IInv, TypeInv
    <3>3. n >= HEAD /\ SumAt(stream, x)
      BY <1>3, <3>1, <3>2 DEF Intact, HEAD
    <3>4. n \in 1 .. Len(buf) - offset
      <4>1. Len(buf) - offset >= n
        BY <1>8, <3>2 DEF SkipBadSum, Here
      <4> QED
        BY <1>1, <3>3, <4>1 DEF HEAD, IInv, TypeInv
    <3>5. ~SumAt(buf, offset)
      BY <1>8, <3>2, <3>4 DEF SkipBadSum, SumMayFail
    <3> QED
      BY <1>3, <3>2, <3>3, <3>4, <3>5
  <2>3. ~Intact(stream, x + 1) /\ ~Intact(stream, x + 2)
    BY <2>1, NoHeadInside
  <2>4. \A p \in x .. x + 3 - 1 : p = x \/ p = x + 1 \/ p = x + 2
    BY <1>1
  <2> QED
    BY <1>4, <2>1, <2>2, <2>3, <2>4
<1> QED
  BY <1>5, <1>6, <1>7, <1>8

LEMMA QueueFrameKeeps ==
  ASSUME IInv, QueueFrame
  PROVE  IInv'
<1>1. PICK x \in Nat : x = Base + offset /\ Base \in Nat /\ offset \in Nat /\ x <= Len(stream)
  BY SearchAt DEF IInv
<1>2. pc = "scan" /\ offset + HEAD <= Len(buf) /\ offset \in 0 .. Len(buf)
  <2>1. pc = "scan" /\ Len(buf) - offset >= HEAD
    BY DEF QueueFrame, Enough
  <2> QED
    BY <1>1, <2>1 DEF IInv, TypeInv, HEAD
<1>3. FrameLen(buf, offset) = FrameLen(stream, x)
  BY <1>1, <1>2, View DEF IInv
<1>4. PICK n \in Nat : n = FrameLen(buf, offset)
  BY <1>1, <1>2, FrameLenRange DEF IInv, TypeInv
<1>5. /\ found' = found \cup {x} /\ offset' = offset + n
      /\ rxq' = IF Len(rxq) < RxDepth THEN Append(rxq, x) ELSE rxq
      /\ UNCHANGED <<stream, taken, buf, pc, handled>>
  BY <1>1, <1>4 DEF QueueFrame
<1>6. offset + n <= Len(buf)
  <2>1. Len(buf) - offset >= n
    BY <1>4 DEF QueueFrame, Here
  <2> QED
    BY <1>1, <2>1 DEF IInv, TypeInv
<1>7. found' \subseteq 0 .. Len(stream)
  BY <1>1, <1>5 DEF IInv, TypeInv
<1>8. rxq' \in Seq(0 .. Len(stream)) /\ Len(rxq') <= RxDepth
  <2>1. x \in 0 .. Len(stream) /\ rxq \in Seq(0 .. Len(stream)) /\ Len(rxq) <= RxDepth
        /\ RxDepth \in Nat
    BY <1>1, FrameRxAssumption DEF IInv, TypeInv
  <2>2. CASE Len(rxq) < RxDepth
    <3>1. /\ Append(rxq, x) \in Seq(0 .. Len(stream))
          /\ Len(Append(rxq, x)) = Len(rxq) + 1
      BY <2>1, AppendProperties
    <3>2. Len(rxq) \in Nat
      BY <2>1
    <3> QED
      BY <1>5, <2>1, <2>2, <3>1, <3>2
  <2>3. CASE ~(Len(rxq) < RxDepth)
    BY <1>5, <2>1, <2>3
  <2> QED
    BY <2>2, <2>3
<1>9. ASSUME NEW p \in x .. x + n - 1
      PROVE  p \in found' \/ \E q \in found' : Within(stream, p, q)
  <2>1. CASE p = x
    BY <1>5, <2>1
  <2>2. CASE p # x
    <3>1. x < p /\ p < x + n
      BY <2>2
    <3>2. Within(stream, p, x)
      BY <1>3, <1>4, <3>1 DEF Within
    <3> QED
      BY <1>5, <3>2
  <2> QED
    BY <2>1, <2>2
<1> QED
  BY <1>1, <1>2, <1>5, <1>6, <1>7, <1>8, <1>9, MoveOn

\* The branch that throws a byte away is never taken: a full buffer in which the search
\* does not move holds the whole of the frame it waits for.
LEMMA NothingDropped ==
  ASSUME IInv, Finish
  PROVE  ~(offset = 0 /\ Len(buf) >= BufSize)
<1>1. SUFFICES ASSUME offset = 0, Len(buf) >= BufSize PROVE FALSE
  OBVIOUS
<1>2. Len(buf) \in Nat /\ Len(buf) = BufSize /\ BufSize >= HEAD
  BY <1>1, FrameRxAssumption DEF IInv, TypeInv
<1>3. Enough
  BY <1>1, <1>2 DEF Finish, Enough, HEAD
<1>4. PICK n \in Nat : n = FrameLen(buf, offset)
  BY <1>1, <1>2, FrameLenRange DEF IInv, TypeInv, HEAD
<1>5. n <= BufSize /\ ~(Len(buf) - offset >= n)
  BY <1>3, <1>4 DEF Finish, Plausible, Here
<1> QED
  BY <1>1, <1>2, <1>5

\* The end of a call: what the search has not passed stays in the buffer.
LEMMA FinishKeeps ==
  ASSUME IInv, Finish
  PROVE  IInv' /\ Base' = Base + offset
<1>1. PICK b \in Nat, o \in Nat, l \in Nat, t \in Nat :
        /\ b = Base /\ o = offset /\ l = Len(buf) /\ t = taken
        /\ b + l = t /\ o <= l
  BY SearchAt DEF IInv, TypeInv
<1>2. /\ buf' = SubSeq(buf, o + 1, l)
      /\ offset' = 0 /\ pc' = "idle"
      /\ UNCHANGED <<stream, taken, found, rxq, handled>>
  BY <1>1, NothingDropped DEF Finish
<1>3. /\ buf' \in Seq(0 .. 255) /\ Len(buf') = l - o
      /\ \A i \in 1 .. l - o : buf'[i] = buf[o + i]
  <2>1. ASSUME NEW i \in o + 1 .. l PROVE buf[i] \in 0 .. 255
    <3>1. i \in 1 .. Len(buf)
      BY <1>1
    <3> QED
      BY <3>1, ElementOfSeq DEF IInv, TypeInv
  <2>2. /\ buf' \in Seq(0 .. 255)
        /\ Len(buf') = IF o + 1 <= l THEN l - (o + 1) + 1 ELSE 0
        /\ \A i \in 1 .. l - (o + 1) + 1 : buf'[i] = buf[o + 1 + i - 1]
    BY <1>2, <2>1, SubSeqProperties
  <2> QED
    BY <1>1, <2>2
<1>4. Base' = b + o
  <2>1. Base' = t - (l - o)
    BY <1>1, <1>2, <1>3 DEF Base
  <2> QED
    BY <1>1, <2>1
<1>5. BufferIsTail'
  <2>1. ASSUME NEW i \in 1 .. l - o PROVE buf'[i] = stream[b + o + i]
    <3>1. o + i \in 1 .. l /\ b + (o + i) = b + o + i
      BY <1>1
    <3>2. buf[o + i] = stream[b + (o + i)]
      BY <1>1, <3>1 DEF IInv, BufferIsTail
    <3> QED
      BY <1>3, <3>1, <3>2
  <2>2. l - o <= t
    BY <1>1
  <2> QED
    BY <1>1, <1>2, <1>3, <1>4, <2>1, <2>2 DEF BufferIsTail
<1>6. TypeInv'
  <2>1. l - o <= BufSize /\ 0 \in 0 .. l - o
    BY <1>1, FrameRxAssumption DEF IInv, TypeInv
  <2> QED
    BY <1>2, <1>3, <2>1 DEF IInv, TypeInv
<1>7. NoFrameSkipped'
  <2>1. b + o + 0 - 1 = b + o - 1
    BY <1>1
  <2> QED
    BY <1>1, <1>2, <1>4, <2>1 DEF IInv, NoFrameSkipped
<1> QED
  BY <1>1, <1>4, <1>5, <1>6, <1>7 DEF IInv

LEMMA HandleKeeps ==
  ASSUME IInv, HandleUartCallback
  PROVE  IInv'
<1>1. /\ UNCHANGED <<stream, taken, buf, offset, pc, found>>
      /\ rxq # <<>> /\ handled' = Head(rxq) /\ rxq' = Tail(rxq)
  BY DEF HandleUartCallback
<1>2. /\ handled' \in 0 .. Len(stream) /\ rxq' \in Seq(0 .. Len(stream))
      /\ Len(rxq') <= RxDepth
  BY <1>1, HeadTailProperties, FrameRxAssumption DEF IInv, TypeInv
<1>3. TypeInv'
  BY <1>1, <1>2 DEF IInv, TypeInv
<1> QED
  BY <1>1, <1>3 DEF IInv, BufferIsTail, NoFrameSkipped, Base

-----------------------------------------------------------------------------
LEMMA InitIInv == Init => IInv
<1> SUFFICES ASSUME Init PROVE IInv
  OBVIOUS
<1>1. TypeInv
  BY FrameRxAssumption DEF Init, TypeInv
<1>2. Base = 0 /\ offset = 0
  <2>1. taken = 0 /\ Len(buf) = 0 /\ offset = 0
    BY DEF Init
  <2> QED
    BY <2>1 DEF Base
<1> QED
  BY <1>1, <1>2 DEF Init, IInv, BufferIsTail, NoFrameSkipped

LEMMA StepIInv == IInv /\ [Next]_vars => IInv'
<1>1. IInv /\ UNCHANGED vars => IInv'
  BY DEF vars, IInv, TypeInv, BufferIsTail, NoFrameSkipped, Base
<1> QED
  BY <1>1, FillKeeps, SkipsKeep, QueueFrameKeeps, FinishKeeps, HandleKeeps
     DEF Next, rf_uart_service

THEOREM Invariance == Spec => []IInv
  BY InitIInv, StepIInv, PTL DEF Spec

\* Types and ranges: no step reads or moves rf_uart_rx_buf past rx_in (811-864).
THEOREM TypeCorrect == Spec => []TypeOK
<1>1. IInv => TypeOK
  BY DEF IInv, TypeInv, TypeOK
<1> QED
  BY <1>1, Invariance, PTL

\* The buffer always holds the last bytes read, in order (856-864).
THEOREM BytesKept == Spec => []BufferIsTail
<1>1. IInv => BufferIsTail
  BY DEF IInv
<1> QED
  BY <1>1, Invariance, PTL

\* Nothing that the line does to the other bytes hides an intact frame from the search
\* (826, 834, 843).
THEOREM FramesFound == Spec => []NoFrameSkipped
<1>1. IInv => NoFrameSkipped
  BY DEF IInv
<1> QED
  BY <1>1, Invariance, PTL

\* The branch that throws a byte away is dead (859-862).
THEOREM BytesNotDropped == Spec => NoByteDropped
<1>1. IInv /\ [Next]_vars => [pc = "scan" /\ pc' = "idle" => Base' = Base + offset]_vars
  <2>1. SUFFICES ASSUME IInv, Next, pc = "scan", pc' = "idle" PROVE Base' = Base + offset
    BY DEF vars
  <2>2. Finish
    BY <2>1 DEF Next, rf_uart_service, Fill, SkipNoise, SkipVersion, SkipOversize,
      SkipBadSum, Skip, QueueFrame, HandleUartCallback
  <2> QED
    BY <2>1, <2>2, FinishKeeps
<1> QED
  BY <1>1, Invariance, PTL DEF Spec, NoByteDropped

-----------------------------------------------------------------------------
(***************************************************************************)
(* The order of the frames.                                                *)
(***************************************************************************)
\* What waits in queue_data_rx is in order, behind what was handled and before what
\* the search has not reached.
OrderInv ==
  /\ handled <= Base + offset
  /\ \A i \in 1 .. Len(rxq) : handled <= rxq[i] /\ rxq[i] <= Base + offset
  /\ \A i, j \in 1 .. Len(rxq) : i <= j => rxq[i] <= rxq[j]

\* A call that reads more bytes leaves the search where it is.
LEMMA FillBase ==
  ASSUME IInv, Fill
  PROVE  (Base + offset)' = Base + offset
<1>1. /\ Base \in Nat /\ offset \in Nat /\ Len(buf) \in Nat /\ taken \in Nat
  BY SearchAt DEF IInv, TypeInv
<1>2. PICK n \in taken .. Len(stream) :
        buf' = buf \o SubSeq(stream, taken + 1, n) /\ taken' = n
  BY DEF Fill
<1>3. ASSUME NEW i \in taken + 1 .. n PROVE stream[i] \in 0 .. 255
  <2>1. i \in 1 .. Len(stream)
    BY <1>1 DEF IInv, TypeInv
  <2> QED
    BY <2>1, ElementOfSeq DEF IInv, TypeInv
<1> DEFINE more == SubSeq(stream, taken + 1, n)
<1>4. more \in Seq(0 .. 255)
      /\ Len(more) = IF taken + 1 <= n THEN n - (taken + 1) + 1 ELSE 0
  BY <1>1, <1>3, SubSeqProperties DEF IInv, TypeInv
<1>5. Len(more) = n - taken
  BY <1>1, <1>4
<1> HIDE DEF more
<1>6. Len(buf') = Len(buf) + Len(more)
  <2>1. buf' = buf \o more /\ buf \in Seq(0 .. 255)
    BY <1>2 DEF more, IInv, TypeInv
  <2> QED
    BY <1>4, <2>1, ConcatProperties
<1>7. Base' = Base
  BY <1>1, <1>2, <1>5, <1>6 DEF Base
<1>8. offset' = offset
  BY DEF Fill
<1> QED
  BY <1>7, <1>8

\* The search never goes back.
LEMMA SearchGoesOn ==
  ASSUME IInv, [Next]_vars
  PROVE  /\ Base + offset \in Nat /\ (Base + offset)' \in Nat
         /\ Base + offset <= (Base + offset)'
<1>1. IInv'
  BY StepIInv
<1>2. /\ Base \in Nat /\ offset \in Nat /\ Len(buf) \in Nat /\ taken \in Nat
      /\ Base' \in Nat /\ offset' \in Nat
  <2>1. /\ Base \in Nat /\ offset \in Nat /\ Len(buf) \in Nat /\ taken \in Nat
    BY SearchAt DEF IInv, TypeInv
  <2>2. /\ Len(buf') \in Nat /\ taken' \in Nat /\ Len(buf') <= taken' /\ offset' \in Nat
    BY <1>1 DEF IInv, TypeInv, BufferIsTail
  <2> QED
    BY <2>1, <2>2 DEF Base
<1>3. CASE Fill
  <2>1. PICK x \in Nat : x = Base + offset
    BY <1>2
  <2>2. (Base + offset)' = x
    BY <1>3, <2>1, FillBase
  <2>3. x <= x
    OBVIOUS
  <2> QED
    BY <2>1, <2>2, <2>3
<1>4. CASE SkipNoise \/ SkipVersion \/ SkipOversize \/ SkipBadSum
  <2>1. PICK k \in 1 .. 3 : offset' = offset + k /\ UNCHANGED <<taken, buf>>
    BY <1>4 DEF SkipNoise, SkipVersion, SkipOversize, SkipBadSum, Skip
  <2>2. Base' = Base
    BY <2>1 DEF Base
  <2> QED
    BY <1>2, <2>1, <2>2
<1>5. CASE QueueFrame
  <2>1. offset + HEAD <= Len(buf) /\ offset \in 0 .. Len(buf)
    BY <1>2, <1>5 DEF QueueFrame, Enough, HEAD, IInv, TypeInv
  <2>2. PICK n \in Nat : n = FrameLen(buf, offset)
    BY <2>1, FrameLenRange DEF IInv, TypeInv
  <2>3. offset' = offset + n /\ UNCHANGED <<taken, buf>>
    BY <1>5, <2>2 DEF QueueFrame
  <2>4. Base' = Base
    BY <2>3 DEF Base
  <2> QED
    BY <1>2, <2>3, <2>4
<1>6. CASE Finish
  <2>1. Base' = Base + offset /\ offset' = 0
    BY <1>6, FinishKeeps DEF Finish
  <2> QED
    BY <1>2, <2>1
<1>7. CASE HandleUartCallback \/ UNCHANGED vars
  <2>1. UNCHANGED <<taken, buf, offset>>
    BY <1>7 DEF HandleUartCallback, vars
  <2>2. Base' = Base
    BY <2>1 DEF Base
  <2> QED
    BY <1>2, <2>1, <2>2
<1> QED
  BY <1>3, <1>4, <1>5, <1>6, <1>7 DEF Next, rf_uart_service

LEMMA OrderStep == IInv /\ OrderInv /\ [Next]_vars => OrderInv'
<1> SUFFICES ASSUME IInv, OrderInv, [Next]_vars PROVE OrderInv'
  OBVIOUS
<1>1. PICK x \in Nat, y \in Nat : x = Base + offset /\ y = (Base + offset)' /\ x <= y
  <2>1. /\ Base + offset \in Nat /\ (Base + offset)' \in Nat
        /\ Base + offset <= (Base + offset)'
    BY SearchGoesOn
  <2> QED
    BY <2>1, Zenon
<1>2. rxq \in Seq(0 .. Len(stream)) /\ handled \in Int /\ Len(stream) \in Nat
  BY DEF IInv, TypeInv
<1>3. \A i \in 1 .. Len(rxq) : rxq[i] \in Nat
  BY <1>2, ElementOfSeq
<1>4. /\ handled <= x
      /\ \A i \in 1 .. Len(rxq) : handled <= rxq[i] /\ rxq[i] <= x
      /\ \A i, j \in 1 .. Len(rxq) : i <= j => rxq[i] <= rxq[j]
  BY <1>1 DEF OrderInv
<1>5. CASE UNCHANGED <<rxq, handled>>
  <2>1. handled <= y /\ \A i \in 1 .. Len(rxq) : handled <= rxq[i] /\ rxq[i] <= y
    BY <1>1, <1>2, <1>3, <1>4
  <2> QED
    BY <1>1, <1>4, <1>5, <2>1 DEF OrderInv
<1>6. CASE QueueFrame
  <2>1. handled' = handled
        /\ rxq' = IF Len(rxq) < RxDepth THEN Append(rxq, x) ELSE rxq
    BY <1>1, <1>6 DEF QueueFrame
  <2>2. CASE rxq' = rxq
    BY <1>5, <2>1, <2>2
  <2>3. CASE rxq' = Append(rxq, x)
    <3>1. PICK n \in Nat, q \in {rxq'} : n = Len(rxq) /\ q = rxq'
      BY <1>2
    <3>2. Len(q) = n + 1 /\ q[n + 1] = x /\ \A i \in 1 .. n : q[i] = rxq[i]
      <4>1. x \in Nat /\ rxq \in Seq(Nat)
        BY <1>2, <1>3
      <4> QED
        BY <2>3, <3>1, <4>1, AppendProperties
    <3>3. \A i \in 1 .. n + 1 : handled <= q[i] /\ q[i] <= x /\ q[i] \in Nat
      BY <1>3, <1>4, <3>1, <3>2
    <3>4. \A i \in 1 .. n + 1 : handled <= q[i] /\ q[i] <= y
      BY <1>1, <3>3
    <3>5. \A i, j \in 1 .. n + 1 : i <= j => q[i] <= q[j]
      <4> SUFFICES ASSUME NEW i \in 1 .. n + 1, NEW j \in 1 .. n + 1, i <= j
                   PROVE  q[i] <= q[j]
        OBVIOUS
      <4>1. CASE j = n + 1
        BY <3>2, <3>3, <4>1
      <4>2. CASE j # n + 1
        <5>1. i \in 1 .. n /\ j \in 1 .. n
          BY <4>2
        <5> QED
          BY <1>4, <3>1, <3>2, <5>1
      <4> QED
        BY <4>1, <4>2
    <3>6. handled <= y
      BY <1>1, <1>2, <1>4
    <3> QED
      BY <1>1, <2>1, <3>1, <3>2, <3>4, <3>5, <3>6 DEF OrderInv
  <2> QED
    BY <2>1, <2>2, <2>3
<1>7. CASE HandleUartCallback
  <2>1. rxq # <<>> /\ handled' = Head(rxq) /\ rxq' = Tail(rxq)
    BY <1>7 DEF HandleUartCallback
  <2>2. PICK n \in Nat, q \in {rxq'} : Len(rxq) = n + 1 /\ q = rxq'
    <3>1. Len(rxq) - 1 \in Nat /\ Len(rxq) = (Len(rxq) - 1) + 1
      BY <1>2, <2>1
    <3> QED
      BY <3>1
  <2>3. Len(q) = n /\ handled' = rxq[1] /\ \A i \in 1 .. n : q[i] = rxq[i + 1]
    BY <1>2, <2>1, <2>2, HeadTailProperties
  <2>4. /\ rxq[1] <= y
        /\ \A i \in 1 .. n : rxq[1] <= rxq[i + 1] /\ rxq[i + 1] <= y
    BY <1>1, <1>3, <1>4, <2>2
  <2>5. ASSUME NEW i \in 1 .. n, NEW j \in 1 .. n, i <= j
        PROVE  rxq[i + 1] <= rxq[j + 1]
    <3>1. i + 1 \in 1 .. Len(rxq) /\ j + 1 \in 1 .. Len(rxq) /\ i + 1 <= j + 1
      BY <2>2, <2>5
    <3> QED
      BY <1>4, <3>1
  <2> QED
    BY <1>1, <2>2, <2>3, <2>4, <2>5 DEF OrderInv
<1> QED
  BY <1>5, <1>6, <1>7 DEF Next, rf_uart_service, Fill, SkipNoise, SkipVersion, SkipOversize,
     SkipBadSum, Skip, Finish, vars

LEMMA OrderStart == Init => OrderInv
<1> SUFFICES ASSUME Init PROVE OrderInv
  OBVIOUS
<1>1. taken = 0 /\ Len(buf) = 0 /\ offset = 0 /\ handled = -1 /\ Len(rxq) = 0
  BY DEF Init
<1>2. Base + offset = 0
  BY <1>1 DEF Base
<1> QED
  BY <1>1, <1>2 DEF OrderInv

\* Frames are handled in the order in which they came, whatever the line, the timing of
\* the calls and a full queue do to them.
THEOREM FramesInOrder == Spec => InOrder
<1>1. IInv /\ OrderInv /\ [Next]_vars => [handled' # handled => handled' > handled]_vars
  <2> SUFFICES ASSUME IInv, OrderInv, Next, handled' # handled PROVE handled' > handled
    BY DEF vars
  <2>1. HandleUartCallback
    BY DEF Next, rf_uart_service, Fill, SkipNoise, SkipVersion, SkipOversize,
       SkipBadSum, Skip, QueueFrame, Finish
  <2>2. rxq \in Seq(0 .. Len(stream)) /\ rxq # <<>> /\ handled' = Head(rxq) /\ handled \in Int
    BY <2>1 DEF HandleUartCallback, IInv, TypeInv
  <2>3. 1 \in 1 .. Len(rxq) /\ handled' = rxq[1]
    BY <2>2, HeadTailProperties
  <2>4. rxq[1] \in Nat /\ handled <= rxq[1]
    BY <2>2, <2>3, ElementOfSeq DEF OrderInv
  <2> QED
    BY <2>2, <2>3, <2>4
<1>2. IInv /\ OrderInv /\ [Next]_vars => (IInv /\ OrderInv)'
  BY StepIInv, OrderStep
<1> QED
  BY <1>1, <1>2, InitIInv, OrderStart, PTL DEF Spec, InOrder

-----------------------------------------------------------------------------
(***************************************************************************)
(* The reference search.  Frames is defined by recursion over the stream,  *)
(* so what it is, and where its frames stand, is proved by the last        *)
(* position it fails for.                                                  *)
(***************************************************************************)
\* Every set of natural numbers has a least one.
LEMMA LeastNatural ==
  ASSUME NEW T, T \subseteq Nat, T # {}
  PROVE  \E n \in T : \A m \in T : n <= m
<1> DEFINE R == {p \in Nat \X Nat : p[1] < p[2]}
<1>1. IsWellFoundedOn(R, Nat)
  BY NatLessThanWellFounded DEF OpToRel
<1>2. PICK n \in T : \A m \in T : ~ (<<m, n>> \in R)
  <2> HIDE DEF R
  <2> QED
    BY <1>1, WFMin, Zenon
<1>3. ASSUME NEW m \in T
      PROVE  n <= m
  <2>1. ~(m < n)
    BY <1>2, <1>3
  <2> QED
    BY <1>3, <2>1
<1> QED
  BY <1>3

\* A length of 65527 makes a frame of no bytes, behind which the search does not move on.
NoEmptyFrame(s) ==
  \A p \in Nat : p + HEAD <= Len(s) /\ Plausible(s, p) => FrameLen(s, p) # 0

\* The frames from position p on, if at tells those from the later positions.
Rest(at, s, p) == IF p + HEAD > Len(s) THEN {}
                  ELSE IF ~Plausible(s, p) THEN at[p + 1]
                  ELSE IF p + FrameLen(s, p) > Len(s) THEN {}
                  ELSE IF SumAt(s, p) THEN {p} \cup at[p + FrameLen(s, p)]
                  ELSE at[p + 1]

\* at is the search of s from position k on.
IsSearch(at, s, k) == at = [p \in k .. Len(s) |-> Rest(at, s, p)]

\* A search looks ahead only.
LEMMA RestAhead ==
  ASSUME NEW s \in Seq(0 .. 255), NoEmptyFrame(s), NEW f, NEW g, NEW p \in 0 .. Len(s),
         \A q \in p + 1 .. Len(s) : f[q] = g[q]
  PROVE  Rest(f, s, p) = Rest(g, s, p)
<1>1. CASE p + HEAD > Len(s)
  BY <1>1 DEF Rest
<1>2. CASE ~(p + HEAD > Len(s))
  <2>1. p + HEAD <= Len(s) /\ p \in Nat /\ Len(s) \in Nat
    BY <1>2 DEF HEAD
  <2>2. f[p + 1] = g[p + 1]
    <3>1. p + 1 \in p + 1 .. Len(s)
      BY <2>1 DEF HEAD
    <3> QED
      BY <3>1
  <2>3. CASE ~Plausible(s, p)
    BY <1>2, <2>2, <2>3, Zenon DEF Rest
  <2>4. CASE Plausible(s, p)
    <3>1. PICK n \in Nat : n = FrameLen(s, p)
      BY <2>1, FrameLenRange
    <3>2. n # 0
      BY <2>1, <2>4, <3>1 DEF NoEmptyFrame
    <3>3. CASE p + n > Len(s)
      BY <1>2, <2>4, <3>1, <3>3, Zenon DEF Rest
    <3>4. CASE ~(p + n > Len(s))
      <4>1. p + n \in p + 1 .. Len(s)
        BY <2>1, <3>2, <3>4
      <4>2. f[p + n] = g[p + n]
        BY <4>1
      <4> QED
        BY <1>2, <2>2, <2>4, <3>1, <3>4, <4>2, Zenon DEF Rest
    <3> QED
      BY <3>3, <3>4
  <2> QED
    BY <2>3, <2>4
<1> QED
  BY <1>1, <1>2

\* One position more.
LEMMA SearchFrom ==
  ASSUME NEW s \in Seq(0 .. 255), NoEmptyFrame(s), NEW k \in 0 .. Len(s), NEW f,
         IsSearch(f, s, k + 1)
  PROVE  \E g : IsSearch(g, s, k)
<1>1. PICK l \in Nat : l = Len(s)
  OBVIOUS
<1>2. PICK g : g = [p \in k .. l |-> IF p = k THEN Rest(f, s, k) ELSE f[p]]
  OBVIOUS
<1>3. g[k] = Rest(f, s, k) /\ \A q \in k + 1 .. l : g[q] = f[q]
  BY <1>1, <1>2
<1>4. ASSUME NEW p \in k .. l
      PROVE  g[p] = Rest(g, s, p)
  <2>1. Rest(f, s, p) = Rest(g, s, p)
    <3>1. p \in 0 .. Len(s) /\ \A q \in p + 1 .. Len(s) : f[q] = g[q]
      BY <1>1, <1>3
    <3> QED
      BY <3>1, RestAhead
  <2>2. CASE p = k
    BY <1>3, <2>1, <2>2
  <2>3. CASE p # k
    <3>1. p \in k + 1 .. l
      BY <1>1, <2>3
    <3>2. f[p] = Rest(f, s, p)
      BY <1>1, <3>1, Zenon DEF IsSearch
    <3> QED
      BY <1>3, <2>1, <3>1, <3>2
  <2> QED
    BY <2>2, <2>3
<1>5. g = [p \in k .. l |-> Rest(g, s, p)]
  BY <1>2, <1>4
<1> QED
  BY <1>1, <1>5 DEF IsSearch

LEMMA SearchExists ==
  ASSUME NEW s \in Seq(0 .. 255), NoEmptyFrame(s)
  PROVE  \E f : IsSearch(f, s, 0)
<1>1. PICK l \in Nat : l = Len(s)
  OBVIOUS
<1> DEFINE T == {j \in Nat : j <= l /\ ~\E f : IsSearch(f, s, l - j)}
<1>2. T = {}
  <2> SUFFICES ASSUME T # {}
               PROVE  FALSE
    OBVIOUS
  <2>1. PICK j \in T : \A m \in T : j <= m
    <3> HIDE DEF T
    <3>1. T \subseteq Nat
      BY DEF T
    <3> QED
      BY <3>1, LeastNatural
  <2>2. j # 0
    <3>1. ASSUME NEW at, NEW p \in l .. l PROVE Rest(at, s, p) = {}
      <4>1. p + HEAD > Len(s)
        BY <1>1 DEF HEAD
      <4> QED
        BY <4>1 DEF Rest
    <3>2. PICK f : f = [p \in l .. l |-> {}]
      OBVIOUS
    <3>3. f = [p \in l .. l |-> Rest(f, s, p)]
      BY <3>1, <3>2
    <3>4. IsSearch(f, s, l - 0)
      <4>1. l - 0 = l
        OBVIOUS
      <4> QED
        BY <1>1, <3>3, <4>1, Zenon DEF IsSearch
    <3>5. ~\E g : IsSearch(g, s, l - j)
      BY <2>1
    <3> QED
      BY <3>4, <3>5, Zenon
  <2>3. j - 1 \in Nat /\ j - 1 <= l /\ l - j \in 0 .. l /\ l - (j - 1) = (l - j) + 1
    BY <2>1, <2>2
  <2>4. ~(j <= j - 1)
    BY <2>1
  <2>5. \E f : IsSearch(f, s, (l - j) + 1)
    BY <2>1, <2>3, <2>4
  <2> QED
    BY <1>1, <2>1, <2>3, <2>5, SearchFrom
<1>3. l \in Nat /\ l <= l /\ l - l = 0
  OBVIOUS
<1> QED
  BY <1>2, <1>3

Search(s) == CHOOSE at : IsSearch(at, s, 0)

LEMMA SearchFacts ==
  ASSUME NEW s \in Seq(0 .. 255), NoEmptyFrame(s)
  PROVE  /\ Frames(s) = Search(s)[0]
         /\ \A p \in 0 .. Len(s) : Search(s)[p] = Rest(Search(s), s, p)
<1>1. IsSearch(Search(s), s, 0)
  BY SearchExists, Zenon DEF Search
<1>2. Frames(s) = Search(s)[0]
  BY Zenon DEF Frames, Search, IsSearch, Rest
<1>3. \A p \in 0 .. Len(s) : Search(s)[p] = Rest(Search(s), s, p)
  BY <1>1, Zenon DEF IsSearch
<1> QED
  BY <1>2, <1>3

\* The search from a position finds nothing before it.
LEMMA SearchBehind ==
  ASSUME NEW s \in Seq(0 .. 255), NoEmptyFrame(s), NEW p \in 0 .. Len(s)
  PROVE  \A q \in Search(s)[p] : q \in Nat /\ p <= q
<1>1. PICK l \in Nat, at \in {Search(s)} : l = Len(s) /\ at = Search(s)
  OBVIOUS
<1>2. \A q \in 0 .. l : at[q] = Rest(at, s, q)
  BY <1>1, SearchFacts
<1> DEFINE Good(k) == \A q \in at[k] : q \in Nat /\ k <= q
           T == {j \in Nat : j <= l /\ ~Good(l - j)}
<1>3. T = {}
  <2> SUFFICES ASSUME T # {}
               PROVE  FALSE
    OBVIOUS
  <2>1. PICK j \in T : \A m \in T : j <= m
    <3> HIDE DEF T
    <3>1. T \subseteq Nat
      BY DEF T
    <3> QED
      BY <3>1, LeastNatural
  <2>2. PICK k \in 0 .. l : k = l - j /\ ~Good(k)
    BY <2>1
  <2>3. ASSUME NEW m \in k + 1 .. l
        PROVE  Good(m)
    <3>1. l - m \in Nat /\ l - m <= l /\ ~(j <= l - m) /\ l - (l - m) = m
      BY <2>1, <2>2
    <3> QED
      BY <2>1, <3>1
  <2>4. ASSUME NEW m \in k + 1 .. l, NEW q \in at[m]
        PROVE  q \in Nat /\ k <= q
    <3>1. q \in Nat /\ m <= q
      BY <2>3, <2>4
    <3> QED
      BY <3>1
  <2>5. at[k] = Rest(at, s, k)
    BY <1>2
  <2>6. CASE k + HEAD > Len(s)
    BY <2>2, <2>5, <2>6 DEF Rest
  <2>7. CASE ~(k + HEAD > Len(s))
    <3>1. k + HEAD <= Len(s) /\ k \in Nat /\ k + 1 \in k + 1 .. l
      BY <1>1, <2>7 DEF HEAD
    <3>2. PICK n \in Nat : n = FrameLen(s, k)
      BY <3>1, FrameLenRange
    <3>3. Rest(at, s, k) \in {{}, at[k + 1]} \/ (Plausible(s, k) /\ ~(k + n > Len(s))
            /\ Rest(at, s, k) = {k} \cup at[k + n])
      BY <2>7, <3>2, Zenon DEF Rest
    <3>4. CASE Rest(at, s, k) \in {{}, at[k + 1]}
      BY <2>2, <2>4, <2>5, <3>1, <3>4
    <3>5. CASE Plausible(s, k) /\ ~(k + n > Len(s)) /\ Rest(at, s, k) = {k} \cup at[k + n]
      <4>1. n # 0
        BY <3>1, <3>2, <3>5 DEF NoEmptyFrame
      <4>2. k + n \in k + 1 .. l
        BY <1>1, <3>5, <4>1
      <4> QED
        BY <2>2, <2>4, <2>5, <3>1, <3>5, <4>2
    <3> QED
      BY <3>3, <3>4, <3>5
  <2> QED
    BY <2>6, <2>7
<1>4. l - p \in Nat /\ l - p <= l /\ l - (l - p) = p
  BY <1>1
<1>5. Good(p)
  BY <1>3, <1>4
<1> QED
  BY <1>1, <1>5

\* Where the search finds no frame it goes on with the next position.
LEMMA SearchPasses ==
  ASSUME NEW s \in Seq(0 .. 255), NoEmptyFrame(s), NEW p \in 0 .. Len(s), p + 1 <= Len(s),
         \/ p + HEAD <= Len(s) /\ Plausible(s, p)
              /\ p + FrameLen(s, p) <= Len(s) /\ ~SumAt(s, p)
         \/ ~Plausible(s, p)
  PROVE  Search(s)[p] = Search(s)[p + 1]
<1>1. PICK at : at = Search(s)
  OBVIOUS
<1>2. at[p] = Rest(at, s, p) /\ at[p + 1] = Rest(at, s, p + 1)
  <2>1. p + 1 \in 0 .. Len(s)
    OBVIOUS
  <2> QED
    BY <1>1, <2>1, SearchFacts
<1>3. CASE p + HEAD > Len(s)
  <2>1. (p + 1) + HEAD > Len(s)
    BY <1>3 DEF HEAD
  <2>2. at[p] = {} /\ at[p + 1] = {}
    BY <1>2, <1>3, <2>1, Zenon DEF Rest
  <2> QED
    BY <1>1, <2>2
<1>4. CASE ~(p + HEAD > Len(s))
  <2>1. CASE ~Plausible(s, p)
    BY <1>1, <1>2, <1>4, <2>1, Zenon DEF Rest
  <2>2. CASE Plausible(s, p)
    <3>1. p + HEAD <= Len(s) /\ p \in Nat /\ Len(s) \in Nat
      BY <1>4 DEF HEAD
    <3>2. PICK n \in Nat : n = FrameLen(s, p)
      BY <3>1, FrameLenRange
    <3>3. ~(p + n > Len(s)) /\ ~SumAt(s, p)
      BY <2>2, <3>1, <3>2
    <3> QED
      BY <1>1, <1>2, <1>4, <2>2, <3>2, <3>3, Zenon DEF Rest
  <2> QED
    BY <2>1, <2>2
<1> QED
  BY <1>3, <1>4

LEMMA SearchFinds ==
  ASSUME NEW s \in Seq(0 .. 255), NoEmptyFrame(s), NEW p \in 0 .. Len(s),
         p + HEAD <= Len(s), Plausible(s, p), p + FrameLen(s, p) <= Len(s), SumAt(s, p)
  PROVE  Search(s)[p] = {p} \cup Search(s)[p + FrameLen(s, p)]
<1>1. p \in Nat /\ Len(s) \in Nat /\ ~(p + HEAD > Len(s))
  BY DEF HEAD
<1>2. PICK n \in Nat : n = FrameLen(s, p)
  BY <1>1, FrameLenRange
<1>3. ~(p + n > Len(s))
  BY <1>1, <1>2
<1>4. Search(s)[p] = Rest(Search(s), s, p)
  BY SearchFacts
<1> QED
  BY <1>1, <1>2, <1>3, <1>4, Zenon DEF Rest

-----------------------------------------------------------------------------
\* What has been recognised, and what the reference search finds from here on, are
\* together what it finds in the whole stream.
CutInv == /\ \A q \in found : q < Base + offset
          /\ Frames(stream) = found \cup Search(stream)[Base + offset]

LEMMA CutSkips ==
  ASSUME IInv, CutInv, NoEmptyFrame(stream),
         SkipNoise \/ SkipVersion \/ SkipOversize \/ SkipBadSum
  PROVE  CutInv'
<1>1. PICK x \in Nat : x = Base + offset /\ Base \in Nat /\ offset \in Nat
  BY SearchAt DEF IInv
<1>2. /\ pc = "scan" /\ offset + HEAD <= Len(buf) /\ offset \in 0 .. Len(buf)
      /\ x + HEAD <= Len(stream) /\ stream \in Seq(0 .. 255) /\ Len(stream) \in Nat
  <2>1. pc = "scan" /\ Len(buf) - offset >= HEAD
    BY DEF SkipNoise, SkipVersion, SkipOversize, SkipBadSum, Enough
  <2>2. Base + Len(buf) = taken /\ taken <= Len(stream)
    BY SearchAt DEF IInv
  <2> QED
    BY <1>1, <2>1, <2>2 DEF IInv, TypeInv, HEAD
<1>3. /\ HeadAt(buf, offset) <=> HeadAt(stream, x)
      /\ VersionAt(buf, offset) <=> VersionAt(stream, x)
      /\ FrameLen(buf, offset) = FrameLen(stream, x)
      /\ Plausible(buf, offset) <=> Plausible(stream, x)
      /\ FrameLen(buf, offset) \in 1 .. Len(buf) - offset
           => (SumAt(buf, offset) <=> SumAt(stream, x))
  BY <1>1, <1>2, View DEF IInv
<1>4. PICK at : at = Search(stream)
  OBVIOUS
<1>5. ASSUME NEW k \in 1 .. 3, Skip(k), at[x] = at[x + k]
      PROVE  CutInv'
  <2>1. UNCHANGED <<stream, taken, buf, found>> /\ offset' = offset + k
    BY <1>5 DEF Skip
  <2>2. (Base + offset)' = x + k
    <3>1. Base' = Base
      BY <2>1 DEF Base
    <3> QED
      BY <1>1, <2>1, <3>1
  <2>3. \A q \in found : q < x + k
    <3>1. \A q \in found : q \in Nat /\ q < x
      BY <1>1, <1>2 DEF CutInv, IInv, TypeInv
    <3> QED
      BY <1>1, <3>1
  <2>4. Frames(stream) = found \cup at[x + k]
    BY <1>1, <1>4, <1>5 DEF CutInv
  <2> QED
    BY <1>4, <2>1, <2>2, <2>3, <2>4 DEF CutInv
<1>6. ASSUME NEW p \in x .. x + 2, ~Plausible(stream, p)
      PROVE  at[p] = at[p + 1]
  <2>1. p \in 0 .. Len(stream) /\ p + 1 <= Len(stream)
    BY <1>2, <1>6 DEF HEAD
  <2> QED
    BY <1>2, <1>4, <1>6, <2>1, SearchPasses
<1>7. ASSUME HeadAt(stream, x)
      PROVE  /\ ~Plausible(stream, x + 1)
             /\ VersionAt(stream, x) => ~Plausible(stream, x + 2)
  <2>1. stream[x + 2] = 170 /\ (VersionAt(stream, x) => stream[x + 3] = 2)
    BY <1>7 DEF HeadAt, VersionAt, SECOND_FRAME_HEAD, SERIAL_PROTOCOL_VER
  <2>2. x + 1 + 1 = x + 2 /\ x + 2 + 1 = x + 3
    OBVIOUS
  <2> QED
    BY <2>1, <2>2 DEF Plausible, HeadAt, FIRST_FRAME_HEAD
<1>8. x \in x .. x + 2 /\ x + 1 \in x .. x + 2 /\ x + 2 \in x .. x + 2
      /\ (x + 1) + 1 = x + 2 /\ (x + 2) + 1 = x + 3
  OBVIOUS
<1>9. CASE SkipNoise
  <2>1. Skip(1) /\ ~Plausible(stream, x)
    BY <1>3, <1>9 DEF SkipNoise, Plausible
  <2>2. at[x] = at[x + 1]
    BY <1>6, <1>8, <2>1
  <2> QED
    BY <1>5, <2>1, <2>2
<1>10. CASE SkipVersion
  <2>1. Skip(2) /\ HeadAt(stream, x) /\ ~Plausible(stream, x)
    BY <1>3, <1>10 DEF SkipVersion, Plausible
  <2>2. at[x] = at[x + 1] /\ at[x + 1] = at[x + 2]
    BY <1>6, <1>7, <1>8, <2>1
  <2> QED
    BY <1>5, <2>1, <2>2
<1>11. CASE SkipOversize
  <2>1. Skip(3) /\ HeadAt(stream, x) /\ VersionAt(stream, x)
    BY <1>3, <1>11 DEF SkipOversize
  <2>2. ~Plausible(stream, x)
    <3>1. PICK n \in Nat : n = FrameLen(buf, offset)
      BY <1>1, <1>2, FrameLenRange DEF IInv, TypeInv
    <3>2. ~(n <= BufSize)
      BY <1>11, <3>1, FrameRxAssumption DEF SkipOversize
    <3> QED
      BY <1>3, <3>1, <3>2 DEF Plausible
  <2>3. at[x] = at[x + 1] /\ at[x + 1] = at[x + 2] /\ at[x + 2] = at[x + 3]
    BY <1>6, <1>7, <1>8, <2>1, <2>2
  <2> QED
    BY <1>5, <2>1, <2>3
<1>12. CASE SkipBadSum
  <2>1. Skip(3) /\ HeadAt(stream, x) /\ VersionAt(stream, x) /\ Plausible(stream, x)
    BY <1>3, <1>12 DEF SkipBadSum, Plausible
  <2>2. PICK n \in Nat : n = FrameLen(buf, offset)
    BY <1>1, <1>2, FrameLenRange DEF IInv, TypeInv
  <2>3. n # 0
    BY <1>2, <1>3, <2>1, <2>2 DEF NoEmptyFrame
  <2>4. n \in 1 .. Len(buf) - offset /\ x + n <= Len(stream)
    <3>1. Len(buf) - offset >= n
      BY <1>12, <2>2 DEF SkipBadSum, Here
    <3>2. Base + Len(buf) = taken /\ taken <= Len(stream) /\ Len(buf) \in Nat
      BY SearchAt DEF IInv
    <3> QED
      BY <1>1, <1>2, <2>3, <3>1, <3>2
  <2>5. ~SumAt(stream, x)
    BY <1>3, <1>12, <2>2, <2>3, <2>4 DEF SkipBadSum, SumMayFail
  <2>6. at[x] = at[x + 1]
    <3>1. x \in 0 .. Len(stream) /\ x + 1 <= Len(stream)
      BY <1>2 DEF HEAD
    <3>2. FrameLen(stream, x) = n
      BY <1>3, <2>2
    <3> QED
      BY <1>2, <1>4, <2>1, <2>4, <2>5, <3>1, <3>2, SearchPasses
  <2>7. at[x + 1] = at[x + 2] /\ at[x + 2] = at[x + 3]
    BY <1>6, <1>7, <1>8, <2>1
  <2> QED
    BY <1>5, <2>1, <2>6, <2>7
<1> QED
  BY <1>9, <1>10, <1>11, <1>12

LEMMA CutFrame ==
  ASSUME IInv, CutInv, NoEmptyFrame(stream), QueueFrame
  PROVE  CutInv'
<1>1. PICK x \in Nat : x = Base + offset /\ Base \in Nat /\ offset \in Nat
  BY SearchAt DEF IInv
<1>2. /\ pc = "scan" /\ offset + HEAD <= Len(buf) /\ offset \in 0 .. Len(buf)
      /\ x + HEAD <= Len(stream) /\ stream \in Seq(0 .. 255) /\ Len(stream) \in Nat
  <2>1. pc = "scan" /\ Len(buf) - offset >= HEAD
    BY DEF QueueFrame, Enough
  <2>2. Base + Len(buf) = taken /\ taken <= Len(stream)
    BY SearchAt DEF IInv
  <2> QED
    BY <1>1, <2>1, <2>2 DEF IInv, TypeInv, HEAD
<1>3. /\ FrameLen(buf, offset) = FrameLen(stream, x)
      /\ Plausible(buf, offset) <=> Plausible(stream, x)
      /\ FrameLen(buf, offset) \in 1 .. Len(buf) - offset
           => (SumAt(buf, offset) <=> SumAt(stream, x))
  BY <1>1, <1>2, View DEF IInv
<1>4. PICK n \in Nat : n = FrameLen(buf, offset)
  BY <1>1, <1>2, FrameLenRange DEF IInv, TypeInv
<1>5. /\ found' = found \cup {x} /\ offset' = offset + n
      /\ UNCHANGED <<stream, taken, buf>> /\ Plausible(stream, x)
  BY <1>1, <1>3, <1>4 DEF QueueFrame
<1>6. n # 0
  BY <1>2, <1>3, <1>4, <1>5 DEF NoEmptyFrame
<1>7. n \in 1 .. Len(buf) - offset /\ x + n <= Len(stream)
  <2>1. Len(buf) - offset >= n
    BY <1>4 DEF QueueFrame, Here
  <2>2. Base + Len(buf) = taken /\ taken <= Len(stream) /\ Len(buf) \in Nat
    BY SearchAt DEF IInv
  <2> QED
    BY <1>1, <1>2, <1>6, <2>1, <2>2
<1>8. SumAt(stream, x)
  BY <1>3, <1>4, <1>6, <1>7 DEF QueueFrame, SumMayMatch
<1>9. Search(stream)[x] = {x} \cup Search(stream)[x + n]
  <2>1. x \in 0 .. Len(stream) /\ FrameLen(stream, x) = n
    BY <1>2, <1>3, <1>4 DEF HEAD
  <2> QED
    BY <1>2, <1>5, <1>7, <1>8, <2>1, SearchFinds
<1>10. (Base + offset)' = x + n
  <2>1. Base' = Base
    BY <1>5 DEF Base
  <2> QED
    BY <1>1, <1>5, <2>1
<1>11. \A q \in found' : q < x + n
  <2>1. \A q \in found : q \in Nat /\ q < x
    BY <1>1, <1>2 DEF CutInv, IInv, TypeInv
  <2> QED
    BY <1>1, <1>5, <1>6, <2>1
<1>12. Frames(stream) = found' \cup Search(stream)[x + n]
  <2>1. Frames(stream) = found \cup Search(stream)[x]
    BY <1>1 DEF CutInv
  <2> QED
    BY <1>5, <1>9, <2>1
<1> QED
  BY <1>5, <1>10, <1>11, <1>12 DEF CutInv

LEMMA CutStep ==
  ASSUME IInv, CutInv, NoEmptyFrame(stream), [Next]_vars
  PROVE  CutInv'
<1>1. CASE Fill \/ Finish \/ HandleUartCallback \/ UNCHANGED vars
  <2>1. (Base + offset)' = Base + offset
    <3>1. CASE Fill
      BY <3>1, FillBase
    <3>2. CASE Finish
      <4>1. Base' = Base + offset /\ offset' = 0 /\ Base + offset \in Nat
        BY <3>2, FinishKeeps, SearchGoesOn DEF Finish
      <4> QED
        BY <4>1
    <3>3. CASE HandleUartCallback \/ UNCHANGED vars
      BY <3>3 DEF HandleUartCallback, vars, Base
    <3> QED
      BY <1>1, <3>1, <3>2, <3>3
  <2>2. UNCHANGED <<stream, found>>
    BY <1>1 DEF Fill, Finish, HandleUartCallback, vars
  <2> QED
    BY <2>1, <2>2 DEF CutInv
<1> QED
  BY <1>1, CutSkips, CutFrame DEF Next, rf_uart_service

\* Where the calls cut the stream makes no difference to what is recognised: for every
\* stream and every way the calls come, it is what one search of the whole stream finds.
\* A stream with a frame of no bytes is left out: what the code makes of its check sum,
\* which lies behind the buffer, is not determined.
THEOREM CutsMakeNoDifference ==
  ASSUME \A s \in Streams : NoEmptyFrame(s)
  PROVE  Spec => []CutsDoNotMatter
<1>1. Init => CutInv
  <2> SUFFICES ASSUME Init PROVE CutInv
    OBVIOUS
  <2>1. taken = 0 /\ Len(buf) = 0 /\ offset = 0 /\ found = {}
    BY DEF Init
  <2>2. Base + offset = 0
    BY <2>1 DEF Base
  <2>3. stream \in Seq(0 .. 255) /\ NoEmptyFrame(stream)
    BY FrameRxAssumption DEF Init
  <2> QED
    BY <2>1, <2>2, <2>3, SearchFacts DEF CutInv
<1>2. IInv /\ CutInv /\ [Next]_vars => (IInv /\ CutInv)'
  BY StepIInv, CutStep DEF IInv, TypeInv
<1>3. IInv /\ CutInv => CutsDoNotMatter
  <2> SUFFICES ASSUME IInv, CutInv PROVE CutsDoNotMatter
    OBVIOUS
  <2>1. PICK x \in 0 .. Len(stream) : x = Base + offset
    BY SearchAt DEF IInv
  <2>2. \A q \in Search(stream)[x] : q \in Nat /\ x <= q
    BY SearchBehind DEF IInv, TypeInv
  <2>3. \A q \in Search(stream)[x] : ~(q < x)
    BY <2>2
  <2> QED
    BY <2>1, <2>3 DEF CutInv, CutsDoNotMatter
<1> QED
  BY <1>1, <1>2, <1>3, InitIInv, PTL DEF Spec
=============================================================================
