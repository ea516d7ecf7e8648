------------------------------- MODULE TxPath -------------------------------
(***************************************************************************)
(* How frames for the MCU are made (platform/user/src/system_define.cpp,   *)
(* mcu_api.cpp).  Every frame is put together in the one rf_uart_tx_buf:   *)
(* the mcu_dp_..._update functions write its data, rf_uart_write_frame its *)
(* head and its check sum, and rf_uart_write_data copies the buffer into   *)
(* queue_data_tx, from where parking_message sends it.  The CHIP thread    *)
(* does this for a controller's commands, the application thread for       *)
(* reports, queries and buttons; there is no lock, and wherever one thread *)
(* can preempt the other it may do so between any two accesses.            *)
(*                                                                         *)
(* The bytes of a frame that are the same in all frames (the two head      *)
(* bytes, the version, SEQ_HIGH and LENGTH_HIGH, which are always 0) are   *)
(* left out.  The others keep their order: number, command, length, data,  *)
(* check sum.                                                              *)
(***************************************************************************)
EXTENDS Integers, Sequences

CONSTANTS
  Threads,     \* the threads that make frames
  App,         \* the one that runs the event loop, and with it parking_message
  Frames,      \* Frames[t]: the frames thread t may make, [cmd, data]
  CanPreempt,  \* <<t, u>>: t may run while u is in the middle of a frame
  MaxData,     \* the longest data of a frame
  QueueLen,    \* entries of queue_data_tx, 10 in the build
  Byte,        \* the values of a byte, 256 in the build
  SeqTop,      \* the last sequence number before it starts again, 0xfff0
  Short        \* the values of an unsigned short, 65536

SEQ_LOW    == 1
FRAME_TYPE == 2
LENGTH_LOW == 3
DATA_START == 4

Bytes == 0 .. Byte - 1

ASSUME TxPathAssumption ==
  /\ App \in Threads
  /\ CanPreempt \subseteq Threads \X Threads
  /\ MaxData \in Nat /\ QueueLen \in Nat /\ SeqTop \in Nat \ {0}
  /\ Short \in Nat /\ Short > SeqTop
  /\ Byte \in Nat /\ Byte > MaxData /\ Byte > 1
  /\ \A t \in Threads : \A f \in Frames[t] :
       f \in [cmd : Bytes, data : Seq(Bytes)] /\ Len(f.data) <= MaxData

\* The counter does not run over before seq_num_get starts it again, with a number
\* that another byte tells from the last one: 0xfff0 ends in 0xf0, and the first is 1.
ASSUME NumberAssumption == Short > SeqTop + 1 /\ SeqTop % Byte # 1

None == -1

VARIABLES
  rf_uart_tx_buf,   \* the shared buffer
  global_seq_num,   \* the shared counter
  queue_data_tx,    \* the frames waiting to be sent, as they will be sent, each
                    \* with the frame that was meant and how it was made
  call,             \* call[t]: the frame thread t is making
  previous          \* the number of the frame made last, if it was made alone

vars == <<rf_uart_tx_buf, global_seq_num, queue_data_tx, call, previous>>

-----------------------------------------------------------------------------
\* How a frame was made: alone, while another thread was stopped in the middle of
\* one ("nested"), or being itself stopped while another thread made one ("cut").
Manner == {"alone", "nested", "cut"}

Idle == [pc |-> "idle", frame |-> [cmd |-> 0, data |-> <<>>], pos |-> 1,
         num |-> 0, sum |-> 0, manner |-> "alone"]

Others(t) == Threads \ {t}

Busy(t) == call[t].pc # "idle"

\* Thread t can run.
Runs(t) == \A u \in Others(t) : Busy(u) => <<t, u>> \in CanPreempt

\* Thread t goes on with c; whoever it found in the middle of a frame was cut.
GoOn(t, c) ==
  call' = [u \in Threads |-> IF u = t THEN c
                             ELSE IF Busy(u) THEN [call[u] EXCEPT !.manner = "cut"]
                             ELSE call[u]]

At(t, pc) == call[t].pc = pc /\ Runs(t)

Init ==
  /\ rf_uart_tx_buf = [i \in 1 .. DATA_START + MaxData |-> 0]
  /\ global_seq_num = 0
  /\ queue_data_tx = <<>>
  /\ call = [t \in Threads |-> Idle]
  /\ previous = None

-----------------------------------------------------------------------------
(***************************************************************************)
(* The data: a call of mcu_dp_bool_update and its like, or of              *)
(* rf_uart_write_frame itself when there is none.                          *)
(***************************************************************************)
Start(t) == \E f \in Frames[t] :
  /\ At(t, "idle")
  /\ GoOn(t, [Idle EXCEPT !.pc = IF f.data = <<>> THEN "load" ELSE "data",
                          !.frame = f,
                          !.manner = IF \E u \in Others(t) : Busy(u)
                                     THEN "nested" ELSE "alone"])
  /\ UNCHANGED <<rf_uart_tx_buf, global_seq_num, queue_data_tx, previous>>

set_rf_uart_byte(t) ==
  LET c == call[t]
      last == c.pos = Len(c.frame.data)
  IN /\ At(t, "data")
     /\ rf_uart_tx_buf' =
          [rf_uart_tx_buf EXCEPT ![DATA_START + c.pos - 1] = c.frame.data[c.pos]]
     /\ GoOn(t, [c EXCEPT !.pc = IF last THEN "load" ELSE "data",
                          !.pos = IF last THEN 1 ELSE c.pos + 1])
     /\ UNCHANGED <<global_seq_num, queue_data_tx, previous>>

(***************************************************************************)
(* The number: seq_num_get reads and writes a volatile variable.           *)
(***************************************************************************)
LoadNumber(t) ==
  /\ At(t, "load")
  /\ GoOn(t, [call[t] EXCEPT !.pc = "store", !.num = (global_seq_num + 1) % Short])
  /\ UNCHANGED <<rf_uart_tx_buf, global_seq_num, queue_data_tx, previous>>

StoreNumber(t) ==
  /\ At(t, "store")
  /\ global_seq_num' = call[t].num
  /\ GoOn(t, [call[t] EXCEPT !.pc = "test", !.num = 0])
  /\ UNCHANGED <<rf_uart_tx_buf, queue_data_tx, previous>>

TestNumber(t) ==
  /\ At(t, "test")
  /\ GoOn(t, [call[t] EXCEPT !.pc = IF global_seq_num > SeqTop THEN "wrap" ELSE "read"])
  /\ UNCHANGED <<rf_uart_tx_buf, global_seq_num, queue_data_tx, previous>>

\* Mutant: the first number is returned, but the counter goes on from the last.
WrapNotStored(t) ==
  /\ At(t, "wrap")
  /\ GoOn(t, [call[t] EXCEPT !.pc = "head", !.num = 1])
  /\ UNCHANGED <<rf_uart_tx_buf, global_seq_num, queue_data_tx, previous>>

WrapNumber(t) ==
  /\ At(t, "wrap")
  /\ global_seq_num' = 1
  /\ GoOn(t, [call[t] EXCEPT !.pc = "read"])
  /\ UNCHANGED <<rf_uart_tx_buf, queue_data_tx, previous>>

ReadNumber(t) ==
  /\ At(t, "read")
  /\ GoOn(t, [call[t] EXCEPT !.pc = "head", !.num = global_seq_num])
  /\ UNCHANGED <<rf_uart_tx_buf, global_seq_num, queue_data_tx, previous>>

seq_num_get(t) ==
  LoadNumber(t) \/ StoreNumber(t) \/ TestNumber(t) \/ WrapNumber(t) \/ ReadNumber(t)

(***************************************************************************)
(* The head, the check sum and the copy into the queue.                    *)
(***************************************************************************)
\* Mutant: the length of an empty frame is not written.
HeadOldLength(c) == <<c.num % Byte, c.frame.cmd,
                      IF c.frame.data = <<>> THEN rf_uart_tx_buf[LENGTH_LOW]
                                             ELSE Len(c.frame.data)>>

\* SEQ_LOW, FRAME_TYPE and LENGTH_LOW, in the order in which they are written.
Head3(c) == <<c.num % Byte, c.frame.cmd, Len(c.frame.data)>>

SetHead(t) ==
  LET c == call[t]
      last == c.pos = LENGTH_LOW
  IN /\ At(t, "head")
     /\ rf_uart_tx_buf' = [rf_uart_tx_buf EXCEPT ![c.pos] = Head3(c)[c.pos]]
     /\ GoOn(t, [c EXCEPT !.pc = IF last THEN "sum" ELSE "head",
                          !.pos = IF last THEN 1 ELSE c.pos + 1,
                          !.num = IF c.pos = SEQ_LOW THEN 0 ELSE c.num])
     /\ UNCHANGED <<global_seq_num, queue_data_tx, previous>>

\* The last byte that is added to the check sum.
SumEnd(c) == LENGTH_LOW + Len(c.frame.data)

\* Mutant: the check sum is wider than a byte.
AddWide(sum, byte) == sum + byte

Add(sum, byte) == (sum + byte) % Byte

get_check_sum(t) ==
  LET c == call[t]
      last == c.pos = SumEnd(c)
  IN /\ At(t, "sum")
     /\ GoOn(t, [c EXCEPT !.pc = IF last THEN "check" ELSE "sum",
                          !.pos = IF last THEN 1 ELSE c.pos + 1,
                          !.sum = Add(c.sum, rf_uart_tx_buf[c.pos])])
     /\ UNCHANGED <<rf_uart_tx_buf, global_seq_num, queue_data_tx, previous>>

SetCheckSum(t) ==
  LET c == call[t]
  IN /\ At(t, "check")
     /\ rf_uart_tx_buf' = [rf_uart_tx_buf EXCEPT ![DATA_START + Len(c.frame.data)] = c.sum]
     /\ GoOn(t, [c EXCEPT !.pc = "put", !.sum = 0])
     /\ UNCHANGED <<global_seq_num, queue_data_tx, previous>>

\* uart_send takes as many bytes of the entry as its length byte says.
ToSend(b) == [i \in 1 .. DATA_START + b[LENGTH_LOW] |-> b[i]]

\* The queue copies the buffer under its own lock, or drops the frame when full.
rf_uart_write_data(t) ==
  LET c == call[t]
  IN /\ At(t, "put")
     /\ queue_data_tx' = IF Len(queue_data_tx) < QueueLen
                         THEN Append(queue_data_tx,
                                     [bytes |-> ToSend(rf_uart_tx_buf),
                                      meant |-> c.frame, manner |-> c.manner])
                         ELSE queue_data_tx
     /\ previous' = IF c.manner = "alone" THEN rf_uart_tx_buf[SEQ_LOW] ELSE None
     /\ GoOn(t, Idle)
     /\ UNCHANGED <<rf_uart_tx_buf, global_seq_num>>

rf_uart_write_frame(t) ==
  seq_num_get(t) \/ SetHead(t) \/ get_check_sum(t) \/ SetCheckSum(t) \/ rf_uart_write_data(t)

-----------------------------------------------------------------------------
parking_message ==
  /\ ~Busy(App) /\ Runs(App)
  /\ queue_data_tx # <<>>
  /\ queue_data_tx' = Tail(queue_data_tx)
  /\ UNCHANGED <<rf_uart_tx_buf, global_seq_num, call, previous>>

Next ==
  \/ \E t \in Threads : Start(t) \/ set_rf_uart_byte(t) \/ rf_uart_write_frame(t)
  \/ parking_message

Spec == Init /\ [][Next]_vars

-----------------------------------------------------------------------------
(***************************************************************************)
(* Properties.                                                             *)
(***************************************************************************)
TypeOK ==
  /\ rf_uart_tx_buf \in [1 .. DATA_START + MaxData -> Bytes]
  /\ global_seq_num \in 0 .. Short - 1
  /\ Len(queue_data_tx) <= QueueLen
  /\ \A i \in 1 .. Len(queue_data_tx) :
       LET b == queue_data_tx[i].bytes
       IN DOMAIN b = 1 .. DATA_START + b[LENGTH_LOW] /\ \A j \in DOMAIN b : b[j] \in Bytes
  /\ \A t \in Threads : call[t].sum \in Bytes /\ call[t].manner \in Manner
  /\ previous \in Bytes \cup {None}

\* The sum of the first n bytes of b.
SumOf(b, n) == LET s[k \in 0 .. n] == IF k = 0 THEN 0 ELSE (s[k-1] + b[k]) % Byte
               IN s[n]

\* What the MCU takes as a frame: the last byte is the sum of the others.
Valid(b) == b[Len(b)] = SumOf(b, Len(b) - 1)

\* The frame on the wire says what its maker meant.
Says(b, f) ==
  /\ b[FRAME_TYPE] = f.cmd
  /\ b[LENGTH_LOW] = Len(f.data)
  /\ \A i \in 1 .. Len(f.data) : b[DATA_START + i - 1] = f.data[i]

\* A frame whose maker was not stopped on the way leaves rf_uart_write_frame as it
\* was meant, whatever earlier frames, torn ones too, left in the shared buffer, and
\* even when it was made inside another thread's frame.
MeantUnlessCut ==
  \A i \in 1 .. Len(queue_data_tx) :
    LET e == queue_data_tx[i] IN e.manner # "cut" => Says(e.bytes, e.meant)

\* And get_check_sum gave it the check sum the MCU will expect.
ValidUnlessCut ==
  \A i \in 1 .. Len(queue_data_tx) :
    LET e == queue_data_tx[i] IN e.manner # "cut" => Valid(e.bytes)

\* seq_num_get gives a frame another SEQ_LOW than the frame made before it, also
\* where the numbers start again, so that a receiver can tell it from a repetition
\* (for two frames that no other thread's frame met).
NewNumber ==
  \A t \in Threads :
    call[t].pc = "put" /\ call[t].manner = "alone" => rf_uart_tx_buf[SEQ_LOW] # previous

-----------------------------------------------------------------------------
(***************************************************************************)
(* The invariant behind the theorems of TxPathProofs.                      *)
(***************************************************************************)
PCs == {"idle", "data", "load", "store", "test", "wrap", "read", "head", "sum",
        "check", "put"}

CallOK(t) ==
  LET c == call[t]
  IN /\ c \in [pc : PCs, frame : [cmd : Bytes, data : Seq(Bytes)], pos : Nat \ {0},
               num : 0 .. Short - 1, sum : Bytes, manner : Manner]
     /\ Len(c.frame.data) <= MaxData
     /\ c.pc = "data" => c.pos <= Len(c.frame.data)
     /\ c.pc \in {"load", "store", "test", "wrap", "read"} => c.pos = 1
     /\ c.pc = "head" => c.pos <= LENGTH_LOW
     /\ c.pc = "sum"  => c.pos <= SumEnd(c)

\* What thread t has written of its frame is in the buffer, unless it was cut.
DataDone(t) == IF call[t].pc = "idle" THEN 0
               ELSE IF call[t].pc = "data" THEN call[t].pos - 1
               ELSE Len(call[t].frame.data)

TypeDone(t) == \/ call[t].pc \in {"sum", "check", "put"}
               \/ call[t].pc = "head" /\ call[t].pos > FRAME_TYPE

LengthDone(t) == call[t].pc \in {"sum", "check", "put"}

Made(t) ==
  LET f == call[t].frame
  IN /\ \A i \in 1 .. DataDone(t) : rf_uart_tx_buf[DATA_START + i - 1] = f.data[i]
     /\ TypeDone(t) => rf_uart_tx_buf[FRAME_TYPE] = f.cmd
     /\ LengthDone(t) => rf_uart_tx_buf[LENGTH_LOW] = Len(f.data)

MakingInv ==
  /\ rf_uart_tx_buf \in [1 .. DATA_START + MaxData -> Bytes]
  /\ rf_uart_tx_buf[LENGTH_LOW] <= MaxData
  /\ global_seq_num \in 0 .. Short - 1
  /\ \A t \in Threads : CallOK(t) /\ (call[t].manner # "cut" => Made(t))

\* The entries queue_data_tx may have.
Wire == UNION {[1 .. DATA_START + n -> Bytes] : n \in 0 .. MaxData}

Entries ==
  {e \in [bytes : Wire, meant : [cmd : Bytes, data : Seq(Bytes)], manner : Manner] :
     /\ DOMAIN e.bytes = 1 .. DATA_START + e.bytes[LENGTH_LOW]
     /\ e.manner # "cut" => Says(e.bytes, e.meant)}

QueueInv ==
  /\ queue_data_tx \in Seq(Entries)
  /\ Len(queue_data_tx) <= QueueLen
  /\ previous \in Bytes \cup {None}

FrameInv == MakingInv /\ QueueInv

Alone(t) == Busy(t) /\ call[t].manner = "alone"

NumberDone(t) == \/ call[t].pc \in {"sum", "check", "put"}
                 \/ call[t].pc = "head" /\ call[t].pos > SEQ_LOW

\* A counter past SeqTop is about to be started again by a thread that sees it.
WrapDue == global_seq_num > SeqTop => \E t \in Threads : call[t].pc \in {"test", "wrap"}

\* The numbers while thread t makes a frame alone: the counter, the number it has
\* read, and the one in the buffer, against the frame before.
OwnNumber(t) ==
  LET c == call[t]
      last(n) == previous \in {n % Byte, None}  \* the frame before had the number n
  IN  /\ c.pc \in {"data", "load", "store"} => last(global_seq_num)
      /\ c.pc = "store" => c.num = global_seq_num + 1 /\ global_seq_num <= SeqTop
      /\ c.pc = "test" => last(global_seq_num - 1) /\ global_seq_num \in 1 .. SeqTop + 1
      /\ c.pc = "wrap" => last(SeqTop)
      /\ c.pc \in {"read", "head", "sum", "check", "put"} => previous # global_seq_num % Byte
      /\ c.pc = "head" /\ c.pos = SEQ_LOW => c.num = global_seq_num
      /\ NumberDone(t) => rf_uart_tx_buf[SEQ_LOW] = global_seq_num % Byte

NumberInv ==
  /\ WrapDue
  /\ \A t \in Threads : Alone(t) => OwnNumber(t) /\ \A u \in Others(t) : ~Busy(u)
  /\ (\A t \in Threads : ~Busy(t)) => previous \in {global_seq_num % Byte, None}

\* The check sum of a frame that was not cut, while it is added up and after.
Summed(t) ==
  LET c == call[t]
  IN  /\ c.pc = "sum"   => c.sum = SumOf(rf_uart_tx_buf, c.pos - 1)
      /\ c.pc = "check" => c.sum = SumOf(rf_uart_tx_buf, SumEnd(c))
      /\ c.pc = "put"   => rf_uart_tx_buf[SumEnd(c) + 1] = SumOf(rf_uart_tx_buf, SumEnd(c))
      /\ c.pc \notin {"sum", "check"} => c.sum = 0

SumInv ==
  /\ \A t \in Threads : call[t].manner # "cut" => Summed(t)
  /\ ValidUnlessCut
=============================================================================
