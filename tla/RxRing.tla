------------------------------- MODULE RxRing -------------------------------
(***************************************************************************)
(* The byte ring between the UART interrupt and the application thread     *)
(* (platform/user/src/mcu_api.cpp).                                        *)
(*                                                                         *)
(* The interrupt stores every received byte with uart_receive_input; the   *)
(* application thread takes bytes out with with_data_rxbuff and            *)
(* Queue_Read_Byte, in the filling loop of rf_uart_service.  There is no   *)
(* lock: the interrupt may run between any two accesses the reader makes   *)
(* to queue_in, queue_out and the buffer, so every such access is a step.  *)
(* The interrupt itself is not preempted by the thread.                    *)
(*                                                                         *)
(* A byte is the ordinal of its acceptance: the i-th byte the ring accepts *)
(* is i.  Losing, repeating or reordering bytes is then visible in the     *)
(* numbers.  Memory is addressed from 0 (the null pointer) to the end of   *)
(* rf_queue_buf: only rf_protocol_init makes the two pointers point into   *)
(* the buffer, and nothing in the build calls it.                          *)
(***************************************************************************)
EXTENDS Integers

CONSTANTS
  Size,        \* sizeof(rf_queue_buf), 509 in the build
  Base,        \* the address of rf_queue_buf[0]; 0 is the null pointer
  InitCalled,  \* is rf_protocol_init called before the first byte? Not in this build
  MaxBacklog,  \* a byte arrives only while at most this many are unread
  MaxBytes     \* bound on the bytes that arrive

ASSUME RxRingAssumption ==
  /\ Size \in Nat /\ Size >= 2
  /\ Base \in Nat \ {0}
  /\ InitCalled \in BOOLEAN
  /\ MaxBacklog \in Nat
  /\ MaxBytes \in Nat

VARIABLES
  queue_in,    \* where the interrupt stores the next byte
  queue_out,   \* where the reader takes the next byte
  mem,         \* address -> the byte stored there, 0 if none was
  accepted,    \* bytes stored so far
  refused,     \* bytes dropped because the ring looked full
  pc,          \* what the reader does next
  value,       \* the reader's local variable "value"
  last,        \* the byte of the ring most recently copied to rf_uart_rx_buf
  uninit       \* has an uninitialised "value" been copied there?

vars == <<queue_in, queue_out, mem, accepted, refused, pc, value, last, uninit>>

-----------------------------------------------------------------------------
End   == Base + Size                      \* one past the last byte of the array
Start == IF InitCalled THEN Base ELSE 0   \* both pointers before the first byte

\* The number of bytes between the two pointers, as the reader would count them
\* (both pointers wrap lazily, so they range over Base..End and not End - 1).
Unread == IF queue_in >= queue_out THEN queue_in - queue_out
                                   ELSE queue_in - queue_out + Size

\* Mutants: the two pointers exchanged; the slot that tells full from empty filled.
FullExchanged == \/ 1 = queue_in - queue_out
                 \/ queue_out > queue_in /\ queue_out - queue_in >= Size
FullWithoutGap == queue_in > queue_out /\ queue_in - queue_out >= Size

\* The test of uart_receive_input for a ring that cannot take another byte.
QueueFull == \/ 1 = queue_out - queue_in
             \/ queue_in > queue_out /\ queue_in - queue_out >= Size

Init ==
  /\ queue_in = Start
  /\ queue_out = Start
  /\ mem = [a \in 0 .. End - 1 |-> 0]
  /\ accepted = 0
  /\ refused = 0
  /\ pc = "idle"
  /\ value = 0
  /\ last = 0
  /\ uninit = FALSE

-----------------------------------------------------------------------------
(***************************************************************************)
(* The interrupt.                                                          *)
(***************************************************************************)
ByteArrives ==
  /\ accepted + refused < MaxBytes
  /\ Unread <= MaxBacklog

Refuse ==
  /\ ByteArrives
  /\ QueueFull
  /\ refused' = refused + 1
  /\ UNCHANGED <<queue_in, queue_out, mem, accepted, pc, value, last, uninit>>

\* Mutant: wrapped one byte early, as if the pointer never stood behind the array.
InSlotEarly == IF queue_in >= End - 1 THEN Base ELSE queue_in

\* The slot the interrupt writes: the pointer is wrapped only now.
InSlot == IF queue_in >= End THEN Base ELSE queue_in

Store ==
  /\ ByteArrives
  /\ ~QueueFull
  /\ mem' = [mem EXCEPT ![InSlot] = accepted + 1]
  /\ queue_in' = InSlot + 1
  /\ accepted' = accepted + 1
  /\ UNCHANGED <<queue_out, refused, pc, value, last, uninit>>

uart_receive_input == Refuse \/ Store

-----------------------------------------------------------------------------
(***************************************************************************)
(* The reader.                                                             *)
(***************************************************************************)
\* Mutant: the pointers compared by order, which a wrapped queue_in defeats.
DataBelowIn ==
  /\ pc = "idle"
  /\ queue_out < queue_in
  /\ pc' = "called"
  /\ UNCHANGED <<queue_in, queue_out, mem, accepted, refused, value, last, uninit>>

\* The loop condition of rf_uart_service.
with_data_rxbuff ==
  /\ pc = "idle"
  /\ queue_out # queue_in
  /\ pc' = "called"
  /\ UNCHANGED <<queue_in, queue_out, mem, accepted, refused, value, last, uninit>>

\* Queue_Read_Byte tests the pointers again ...
TestNotEmpty ==
  /\ pc = "called"
  /\ queue_out # queue_in
  /\ pc' = "wrap"
  /\ UNCHANGED <<queue_in, queue_out, mem, accepted, refused, value, last, uninit>>

\* ... and returns a local variable it never assigned when they are equal.  The caller
\* copies that to rf_uart_rx_buf too; it is no byte of the ring, whatever its value,
\* so last does not count it and uninit remembers it.
ReturnUninitialised ==
  /\ pc = "called"
  /\ queue_out = queue_in
  /\ uninit' = TRUE
  /\ pc' = "idle"
  /\ UNCHANGED <<queue_in, queue_out, mem, accepted, refused, value, last>>

WrapOut ==
  /\ pc = "wrap"
  /\ queue_out' = IF queue_out >= End THEN Base ELSE queue_out
  /\ pc' = "read"
  /\ UNCHANGED <<queue_in, mem, accepted, refused, value, last, uninit>>

(***************************************************************************)
(* value = *queue_out++ loads the byte and stores the incremented pointer; *)
(* C leaves the order of the two open, and the interrupt may run between.  *)
(***************************************************************************)
LoadThenAdvance ==
  \/ /\ pc = "read"
     /\ value' = mem[queue_out]
     /\ pc' = "advance"
     /\ UNCHANGED <<queue_in, queue_out, mem, accepted, refused, last, uninit>>
  \/ /\ pc = "advance"
     /\ queue_out' = queue_out + 1
     /\ last' = value
     /\ pc' = "idle"
     /\ UNCHANGED <<queue_in, mem, accepted, refused, value, uninit>>

AdvanceThenLoad ==
  \/ /\ pc = "read"
     /\ queue_out' = queue_out + 1
     /\ pc' = "load"
     /\ UNCHANGED <<queue_in, mem, accepted, refused, value, last, uninit>>
  \/ /\ pc = "load"
     /\ value' = mem[queue_out - 1]
     /\ last' = mem[queue_out - 1]
     /\ pc' = "idle"
     /\ UNCHANGED <<queue_in, queue_out, mem, accepted, refused, uninit>>

Queue_Read_Byte ==
  \/ TestNotEmpty
  \/ ReturnUninitialised
  \/ WrapOut
  \/ LoadThenAdvance
  \/ AdvanceThenLoad

Reader == with_data_rxbuff \/ Queue_Read_Byte

Next == uart_receive_input \/ Reader

Spec == Init /\ [][Next]_vars

\* The application thread serves the ring every 10 ms; the line may stay silent.
FairSpec == Spec /\ WF_vars(Reader)

-----------------------------------------------------------------------------
(***************************************************************************)
(* Properties.                                                             *)
(***************************************************************************)
TypeOK ==
  /\ queue_in \in Start .. End
  /\ queue_out \in Start .. End
  /\ mem \in [0 .. End - 1 -> 0 .. MaxBytes]
  /\ accepted \in 0 .. MaxBytes
  /\ refused \in 0 .. MaxBytes
  /\ pc \in {"idle", "called", "wrap", "read", "advance", "load"}
  /\ value \in 0 .. MaxBytes
  /\ last \in 0 .. MaxBytes
  /\ uninit \in BOOLEAN

\* Whatever the interrupt does between the reader's accesses, and however far
\* the reader falls behind, uart_receive_input and Queue_Read_Byte never hand
\* the parser a byte of the ring twice nor an older one after a newer one.  (A reader
\* lapped between its two tests hands over its uninitialised local as well, which this
\* does not speak of: NothingLost says when that cannot happen.)
NoReplay == [][last' # last => last' > last]_vars

\* While the reader keeps up (at most Size - 2 bytes are waiting when a byte
\* arrives) the ring refuses nothing, Queue_Read_Byte never returns its
\* uninitialised local, and the bytes handed out, the one in the reader's hands
\* and the waiting ones are exactly the bytes that arrived.
InHand == IF pc = "load" THEN 1 ELSE 0

NothingLost ==
  /\ refused = 0
  /\ ~uninit
  /\ accepted = last + InHand + Unread

\* The same, as what the parser sees: the next byte it gets is the next byte
\* that arrived.
NextInLine == [][last' # last => last' = last + 1]_vars

\* The bytes ahead of the reader, where they lie in memory.
OutSlot(k) == LET a == queue_out - InHand + k - 1 IN IF a >= End THEN a - Size ELSE a

Waiting == [k \in 1 .. Unread + InHand |-> mem[OutSlot(k)]]

\* All of it at once: for a reader that keeps up, the array, its two lazily wrapped
\* pointers and the reader's unlocked accesses implement a queue of bytes.
Queue == INSTANCE ByteQueue WITH
           Room <- Size, arrived <- accepted, waiting <- Waiting, taken <- last

ImplementsQueue == Queue!FairSpec

\* While the reader keeps up, every byte that arrives is eventually read.
EventuallyDrained == \A n \in 1 .. MaxBytes : accepted >= n ~> last >= n

-----------------------------------------------------------------------------
(***************************************************************************)
(* The invariant behind the theorems of RxRingProofs.                      *)
(***************************************************************************)
\* Before the first wrap the bytes lie at Start, Start + 1, ...; afterwards the
\* last Size of them fill the array.  Back(k) is the address of the k-th newest.
Linear  == accepted = queue_in - Start
Wrapped == accepted >= queue_in - Start + Size

Back(k) == IF Linear \/ queue_in - k >= Base THEN queue_in - k
                                             ELSE queue_in - k + Size

\* The memory behind queue_in holds the newest bytes, whatever queue_out is.
NewestBehindIn == \A k \in 1 .. Size : k <= accepted => mem[Back(k)] = accepted - k + 1

\* Once Queue_Read_Byte has found the ring non-empty it takes a byte.  If the
\* interrupt laps it just then, the pointers meet and it reads the oldest of
\* the Size bytes in the array: Size bytes are then ahead of it and not none.
Committed == pc \in {"wrap", "read", "advance"}
Ahead     == IF Committed /\ Unread = 0 THEN Size ELSE Unread

PointersInv ==
  /\ Linear => queue_out <= queue_in
  /\ ~Linear => Wrapped /\ queue_in > Base /\ queue_out >= Base
  /\ Unread <= Size
  /\ pc \in {"read", "advance"} => queue_out < End
  /\ pc = "load" => queue_out > Start
  /\ Committed /\ Unread = 0 => ~Linear /\ queue_in = Base + 1

\* What was handed out is older than everything still ahead of the reader.
OrderInv ==
  /\ pc \notin {"advance", "load"} => last <= accepted - Ahead
  /\ pc = "advance" => last < value /\ value <= accepted - Ahead + 1
  /\ pc = "load" => /\ last < accepted - Unread
                    /\ mem[queue_out - 1] = accepted - Unread

\* The bytes of the ring are where the two pointers say they are and in the
\* order of arrival, at every point where the interrupt can preempt the reader.
RingInv == TypeOK /\ NewestBehindIn /\ PointersInv /\ OrderInv

\* What a reader that keeps up adds to it.
PromptInv ==
  /\ NothingLost
  /\ Unread <= Size - 1
  /\ pc = "called" \/ Committed => Unread >= 1
  /\ pc = "advance" => value = last + 1
=============================================================================
