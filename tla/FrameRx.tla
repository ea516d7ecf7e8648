------------------------------ MODULE FrameRx ------------------------------
(***************************************************************************)
(* The frame parser of the application thread: rf_uart_service in          *)
(* platform/user/src/mcu_api.cpp.                                          *)
(*                                                                         *)
(* Every 10 ms it moves the bytes that wait in the ring to rf_uart_rx_buf, *)
(* looks for frames there, puts each one it finds into queue_data_rx, and  *)
(* keeps the rest for the next call.  A frame is                           *)
(*                                                                         *)
(*    0    1    2        3-4       5     6-7     8 ..      last            *)
(*    55   AA   version  sequence  type  length  data      check sum       *)
(*                                                                         *)
(* where length counts the data only.  The line may lose and corrupt bytes *)
(* and the calls may cut the stream anywhere.  One iteration of the search *)
(* is one step; RxRing justifies a stream that is read in order.           *)
(*                                                                         *)
(* A frame is known by its position, the number of bytes before it.        *)
(***************************************************************************)
EXTENDS Integers, Sequences

CONSTANTS
  Streams,  \* what may come over the line, as sequences of bytes
  BufSize,  \* sizeof(rf_uart_rx_buf), 137 in the build
  RxDepth   \* capacity of queue_data_rx, 10 in the build

HEAD == 9                    \* PROTOCOL_HEAD: all of a frame but its data

ASSUME FrameRxAssumption ==
  /\ Streams \subseteq Seq(0 .. 255)
  /\ BufSize \in Nat /\ BufSize >= HEAD
  /\ RxDepth \in Nat

VARIABLES
  stream,   \* the bytes that come over the line
  taken,    \* how many of them have been read from the ring
  buf,      \* rf_uart_rx_buf[0 .. rx_in - 1]
  offset,   \* where the search stands in it
  pc,       \* "idle" between two calls, "scan" in the search
  found,    \* the frames recognised so far
  rxq,      \* queue_data_rx
  handled   \* the frame last handed to HandleUartCallback, -1 before the first

vars == <<stream, taken, buf, offset, pc, found, rxq, handled>>

-----------------------------------------------------------------------------
FIRST_FRAME_HEAD    == 85
SECOND_FRAME_HEAD   == 170
SERIAL_PROTOCOL_VER == 2

\* get_check_sum, in an unsigned char.
get_check_sum(s) ==
  LET sum[i \in 0 .. Len(s)] == IF i = 0 THEN 0 ELSE (sum[i - 1] + s[i]) % 256
  IN  sum[Len(s)]

(***************************************************************************)
(* What the search sees at position p of the bytes s.                      *)
(***************************************************************************)
HeadAt(s, p)    == s[p + 1] = FIRST_FRAME_HEAD /\ s[p + 2] = SECOND_FRAME_HEAD
VersionAt(s, p) == s[p + 3] = SERIAL_PROTOCOL_VER

\* rx_value_len is an unsigned short of 16 bits.
UShort == 65536
FrameLen(s, p) == (s[p + 7] * 256 + s[p + 8] + HEAD) % UShort

SumAt(s, p) == LET n == FrameLen(s, p)
               IN  get_check_sum(SubSeq(s, p + 1, p + n - 1)) = s[p + n]

\* Mutant of Plausible: the length compared without the check sum's byte.
PlausibleByOne(s, p) == HeadAt(s, p) /\ VersionAt(s, p) /\ FrameLen(s, p) <= BufSize + 1

\* A head of the right version whose length the buffer could hold.
Plausible(s, p) == HeadAt(s, p) /\ VersionAt(s, p) /\ FrameLen(s, p) <= BufSize

\* A length near 65535 wraps to one shorter than the head, and 0 sends the check
\* sum far behind the buffer: its result may be either.
SumMayMatch(s, p) == FrameLen(s, p) = 0 \/ SumAt(s, p)
SumMayFail(s, p)  == FrameLen(s, p) = 0 \/ ~SumAt(s, p)

-----------------------------------------------------------------------------
Init ==
  /\ stream \in Streams
  /\ taken = 0 /\ buf = <<>> /\ offset = 0 /\ pc = "idle"
  /\ found = {} /\ rxq = <<>> /\ handled = -1

\* The bytes of buf are the ones before taken; where its first byte stands.
Base == taken - Len(buf)

\* Mutant of Fill: one byte more than fits.
FillPast ==
  /\ pc = "idle"
  /\ \E n \in taken .. Len(stream) :
       /\ n - taken <= BufSize - Len(buf) + 1
       /\ buf' = buf \o SubSeq(stream, taken + 1, n)
       /\ taken' = n
  /\ pc' = IF Len(buf') < HEAD THEN "idle" ELSE "scan"
  /\ UNCHANGED <<stream, offset, found, rxq, handled>>

\* The call: the ring holds some of the bytes to come, and what fits is read.
Fill ==
  /\ pc = "idle"
  /\ \E n \in taken .. Len(stream) :
       /\ n - taken <= BufSize - Len(buf)
       /\ buf' = buf \o SubSeq(stream, taken + 1, n)
       /\ taken' = n
  /\ pc' = IF Len(buf') < HEAD THEN "idle" ELSE "scan"
  /\ UNCHANGED <<stream, offset, found, rxq, handled>>

Enough == pc = "scan" /\ Len(buf) - offset >= HEAD

\* Mutant of Here: the last byte must be followed by another.
HereAndMore == Len(buf) - offset > FrameLen(buf, offset)

Here   == Len(buf) - offset >= FrameLen(buf, offset)

Skip(n) == /\ offset' = offset + n
           /\ UNCHANGED <<stream, taken, buf, pc, found, rxq, handled>>

SkipNoise    == Enough /\ ~HeadAt(buf, offset) /\ Skip(1)
SkipVersion  == Enough /\ HeadAt(buf, offset) /\ ~VersionAt(buf, offset) /\ Skip(2)
SkipOversize == /\ Enough /\ HeadAt(buf, offset) /\ VersionAt(buf, offset)
                /\ FrameLen(buf, offset) > BufSize
                /\ Skip(3)

\* Mutant of SkipBadSum: the rejected frame is skipped as a whole.
SkipRejected == /\ Enough /\ Plausible(buf, offset) /\ Here /\ SumMayFail(buf, offset)
                /\ Skip(FrameLen(buf, offset))

SkipBadSum   == Enough /\ Plausible(buf, offset) /\ Here /\ SumMayFail(buf, offset) /\ Skip(3)

\* k_msgq_put(..., K_NO_WAIT): a full queue drops the frame.
QueueFrame ==
  /\ Enough /\ Plausible(buf, offset) /\ Here /\ SumMayMatch(buf, offset)
  /\ found' = found \cup {Base + offset}
  /\ rxq' = IF Len(rxq) < RxDepth THEN Append(rxq, Base + offset) ELSE rxq
  /\ offset' = offset + FrameLen(buf, offset)
  /\ UNCHANGED <<stream, taken, buf, pc, handled>>

\* Mutant of Finish: the buffer starts afresh with every call.
FinishEmpty ==
  /\ pc = "scan"
  /\ Enough => Plausible(buf, offset) /\ ~Here
  /\ buf' = <<>> /\ offset' = 0 /\ pc' = "idle"
  /\ UNCHANGED <<stream, taken, found, rxq, handled>>

\* Mutant of Finish: the bytes that are left are not moved to the front.
FinishInPlace ==
  /\ pc = "scan"
  /\ Enough => Plausible(buf, offset) /\ ~Here
  /\ buf' = SubSeq(buf, 1, Len(buf) - offset)
  /\ offset' = 0 /\ pc' = "idle"
  /\ UNCHANGED <<stream, taken, found, rxq, handled>>

\* Too few bytes are left for a head, or for the frame the head announces.  What
\* is left moves to the front; a buffer that is full of it loses its first byte.
Finish ==
  /\ pc = "scan"
  /\ Enough => Plausible(buf, offset) /\ ~Here
  /\ LET from == IF offset = 0 /\ Len(buf) >= BufSize THEN 1 ELSE offset
     IN  buf' = SubSeq(buf, from + 1, Len(buf))
  /\ offset' = 0
  /\ pc' = "idle"
  /\ UNCHANGED <<stream, taken, found, rxq, handled>>

rf_uart_service ==
  Fill \/ SkipNoise \/ SkipVersion \/ SkipOversize \/ SkipBadSum \/ QueueFrame \/ Finish

\* Mutant of HandleUartCallback: the newest frame first.
HandleNewest ==
  /\ pc = "idle" /\ rxq # <<>>
  /\ handled' = rxq[Len(rxq)]
  /\ rxq' = SubSeq(rxq, 1, Len(rxq) - 1)
  /\ UNCHANGED <<stream, taken, buf, offset, pc, found>>

\* Another event of the same thread, every 30 ms.
HandleUartCallback ==
  /\ pc = "idle" /\ rxq # <<>>
  /\ handled' = Head(rxq)
  /\ rxq' = Tail(rxq)
  /\ UNCHANGED <<stream, taken, buf, offset, pc, found>>

Next == rf_uart_service \/ HandleUartCallback

Spec == Init /\ [][Next]_vars

\* The timer event calls rf_uart_service as long as the program runs and all the
\* bytes arrive.  The events of the thread share one queue, so that the other one
\* gets its turn however often this one runs.
FairSpec == /\ Spec
            /\ WF_vars(rf_uart_service)
            /\ SF_vars(Fill /\ taken' > taken)
            /\ SF_vars(HandleUartCallback)

-----------------------------------------------------------------------------
(***************************************************************************)
(* Properties.                                                             *)
(***************************************************************************)

\* Types, and that the search stays in the bytes it has: no step reads or moves
\* rf_uart_rx_buf past rx_in (mcu_api.cpp 811-864).
TypeOK ==
  /\ stream \in Streams /\ taken \in 0 .. Len(stream)
  /\ buf \in Seq(0 .. 255) /\ Len(buf) <= BufSize
  /\ offset \in 0 .. Len(buf) /\ pc \in {"idle", "scan"} /\ (pc = "idle" => offset = 0)
  /\ found \subseteq 0 .. Len(stream) /\ rxq \in Seq(0 .. Len(stream))
  /\ Len(rxq) <= RxDepth /\ handled \in -1 .. Len(stream)

\* Bytes kept from one call to the next are neither lost, repeated nor moved: the
\* buffer always holds the last bytes read, in order (mcu_api.cpp 856-864).
BufferIsTail ==
  /\ Len(buf) <= taken
  /\ \A i \in 1 .. Len(buf) : buf[i] = stream[Base + i]

\* The branch that throws a byte away because the buffer is full of an unfinished
\* frame (859-862) is never taken: the next call goes on where this one stopped.
NoByteDropped == [][pc = "scan" /\ pc' = "idle" => Base' = Base + offset]_vars

\* A whole frame of the protocol at position p of the bytes s.
Intact(s, p) ==
  /\ p + HEAD <= Len(s) /\ Plausible(s, p)
  /\ FrameLen(s, p) \in HEAD .. Len(s) - p
  /\ SumAt(s, p)

Within(s, p, q) == q < p /\ p < q + FrameLen(s, q)

\* Noise, a foreign version, a wrong length or a wrong check sum never hides an
\* intact frame: each one behind the search was recognised, unless it lies inside
\* one that was.  (The jumps of 2 and 3 bytes of 826, 834 and 843.)
NoFrameSkipped ==
  \A p \in 0 .. Base + offset - 1 :
    Intact(stream, p) =>
      \/ p \in found
      \/ \E q \in found : Within(stream, p, q)

\* The frames of s, read in one piece from position p on: a reference for the search.
Frames(s) ==
  LET at[p \in 0 .. Len(s)] ==
        IF p + HEAD > Len(s) THEN {}
        ELSE IF ~Plausible(s, p) THEN at[p + 1]
        ELSE IF p + FrameLen(s, p) > Len(s) THEN {}
        ELSE IF SumAt(s, p) THEN {p} \cup at[p + FrameLen(s, p)]
        ELSE at[p + 1]
  IN  at[0]

\* Where the calls cut the stream makes no difference: what has been recognised is
\* what a search of the whole stream recognises up to the same place.
CutsDoNotMatter == found = {p \in Frames(stream) : p < Base + offset}

\* The frames are handled in the order in which they came, none of them twice.
\* (A length of 65527 makes a frame of no bytes, which is found again and again.)
InOrder ==
  [][handled' # handled => handled' > handled]_vars

\* Every frame of the stream is handled in the end if the queue has room for all of
\* them, or a later one is: no frame waits for bytes that it does not need.
Delivered == <>(Frames(stream) \subseteq 0 .. handled)
=============================================================================
