---------------------------- MODULE TxPathProofs ----------------------------
(***************************************************************************)
(* TxPath for every set of threads, every set of frames and every rule of  *)
(* preemption.  The invariant says what a thread that was not stopped has  *)
(* already put into the shared buffer; a step of one thread either finds   *)
(* the others idle or cuts them, so that only its own part is to be shown. *)
(***************************************************************************)
EXTENDS TxPath, SequenceTheorems, WellFoundedInduction, TLAPS

\* Division leaves a quotient and a remainder.
LEMMA Divided ==
  ASSUME NEW g \in Nat, NEW b \in Nat \ {0}
  PROVE  \E q \in Nat, r \in 0 .. b - 1 : r = g % b /\ g = b * q + r
<1>1. g \div b \in Nat /\ g % b \in 0 .. b - 1
  OBVIOUS
<1>2. g = b * (g \div b) + (g % b)
  OBVIOUS
<1> WITNESS g \div b \in Nat, g % b \in 0 .. b - 1
<1> QED
  BY <1>2, Zenon

\* A number and the next never end in the same byte.
LEMMA NextByteDiffers ==
  ASSUME NEW g \in Nat, NEW b \in Nat \ {0, 1}
  PROVE  g % b # (g + 1) % b
<1> SUFFICES ASSUME g % b = (g + 1) % b
             PROVE  FALSE
  BY Zenon
<1>1. PICK p \in Nat, r \in 0 .. b - 1 : r = g % b /\ g = b * p + r
  BY Divided
<1>2. PICK q \in Nat, s \in 0 .. b - 1 : s = (g + 1) % b /\ g + 1 = b * q + s
  <2>1. g + 1 \in Nat /\ b \in Nat \ {0}
    OBVIOUS
  <2> QED
    BY <2>1, Divided
<1>3. r = s
  BY <1>1, <1>2, Zenon
<1>4. b * q - b * p = 1
  BY <1>1, <1>2, <1>3
<1>5. b * (q - p) = 1
  BY <1>4
<1>6. q - p >= 1
  BY <1>5
<1>7. b * (q - p) >= b
  BY <1>6
<1> QED
  BY <1>5, <1>7

USE TxPathAssumption DEF SEQ_LOW, FRAME_TYPE, LENGTH_LOW, DATA_START, Bytes

LEMMA NextByteOf ==
  ASSUME NEW g \in Nat
  PROVE  g % Byte # (g + 1) % Byte
<1>1. Byte \in Nat \ {0, 1}
  OBVIOUS
<1> QED
  BY <1>1, NextByteDiffers

\* What a step of thread t, going on with c, has to show about t itself.
\* GoOn leaves the others idle or cut, so that nothing is to be shown for them.
LEMMA OthersCut ==
  ASSUME NEW t \in Threads, NEW c, GoOn(t, c), \A u \in Threads : CallOK(u),
         NEW u \in Threads, u # t
  PROVE  CallOK(u)' /\ (call'[u].manner # "cut" => Made(u)')
<1>1. CASE Busy(u)
  <2>1. call'[u] = [call[u] EXCEPT !.manner = "cut"]
    BY <1>1 DEF GoOn
  <2>2. CallOK(u)
    OBVIOUS
  <2>3. /\ call'[u].manner = "cut" /\ call'[u].pc = call[u].pc
        /\ call'[u].pos = call[u].pos /\ call'[u].frame = call[u].frame
    BY <2>1, <2>2 DEF CallOK
  <2>4. call'[u] \in [pc : PCs, frame : [cmd : Bytes, data : Seq(Bytes)],
                      pos : Nat \ {0}, num : 0 .. Short - 1, sum : Bytes, manner : Manner]
    BY <2>1, <2>2 DEF CallOK, Manner
  <2> QED
    BY <2>2, <2>3, <2>4 DEF CallOK, SumEnd
<1>2. CASE ~Busy(u)
  <2>1. call'[u] = call[u]
    BY <1>2 DEF GoOn
  <2>2. CallOK(u)' 
    BY <2>1 DEF CallOK, SumEnd
  <2>3. Made(u)'
    BY <1>2, <2>1 DEF Made, DataDone, TypeDone, LengthDone, Busy
  <2> QED
    BY <2>2, <2>3
<1> QED
  BY <1>1, <1>2

Record == [pc : PCs, frame : [cmd : Bytes, data : Seq(Bytes)], pos : Nat \ {0},
           num : 0 .. Short - 1, sum : Bytes, manner : Manner]

\* An action of thread t keeps the invariant if it does so for the buffer, the
\* counter and t's own call.
LEMMA OwnStep ==
  ASSUME NEW t \in Threads, NEW c, MakingInv, GoOn(t, c),
         rf_uart_tx_buf' \in [1 .. DATA_START + MaxData -> Bytes],
         rf_uart_tx_buf'[LENGTH_LOW] <= MaxData,
         global_seq_num' \in 0 .. Short - 1,
         CallOK(t)', call'[t].manner # "cut" => Made(t)'
  PROVE  MakingInv'
<1>1. \A u \in Threads : CallOK(u)
  BY DEF MakingInv
<1>2. ASSUME NEW u \in Threads
      PROVE  CallOK(u)' /\ (call'[u].manner # "cut" => Made(u)')
  <2>1. CASE u = t
    BY <2>1
  <2>2. CASE u # t
    BY <1>1, <2>2, OthersCut
  <2> QED
    BY <2>1, <2>2
<1> QED
  BY <1>2 DEF MakingInv

-----------------------------------------------------------------------------
(***************************************************************************)
(* One lemma for each part of a frame.                                     *)
(***************************************************************************)
LEMMA KeepsStart ==
  ASSUME MakingInv, NEW t \in Threads, Start(t)
  PROVE  MakingInv'
<1>1. PICK f \in Frames[t] :
        GoOn(t, [Idle EXCEPT !.pc = IF f.data = <<>> THEN "load" ELSE "data",
                             !.frame = f,
                             !.manner = IF \E u \in Others(t) : Busy(u)
                                        THEN "nested" ELSE "alone"])
  BY DEF Start
<1>2. f \in [cmd : Bytes, data : Seq(Bytes)] /\ Len(f.data) <= MaxData
  OBVIOUS
<1>3. PICK pc \in {"load", "data"}, manner \in {"nested", "alone"} :
        /\ call'[t] = [pc |-> pc, frame |-> f, pos |-> 1, num |-> 0, sum |-> 0,
                       manner |-> manner]
        /\ pc = "data" <=> f.data # <<>>
  <2>1. call'[t] = [Idle EXCEPT !.pc = IF f.data = <<>> THEN "load" ELSE "data",
                             !.frame = f,
                             !.manner = IF \E u \in Others(t) : Busy(u)
                                        THEN "nested" ELSE "alone"]
    BY <1>1 DEF GoOn
  <2> QED
    BY <2>1 DEF Idle
<1>4. f.data # <<>> => Len(f.data) >= 1
  BY <1>2
<1>5. 0 \in Bytes /\ 0 \in 0 .. Short - 1
  OBVIOUS
<1>6. call'[t] \in Record
  BY <1>2, <1>3, <1>5 DEF Record, PCs, Manner
<1>7. CallOK(t)'
  BY <1>2, <1>3, <1>4, <1>6 DEF CallOK, Record, SumEnd
<1>8. f.data = <<>> => Len(f.data) = 0
  OBVIOUS
<1>9. Made(t)'
  BY <1>3, <1>8 DEF Made, DataDone, TypeDone, LengthDone
<1>10. UNCHANGED <<rf_uart_tx_buf, global_seq_num>>
  BY DEF Start
<1> QED
  BY <1>1, <1>7, <1>9, <1>10, OwnStep DEF MakingInv

LEMMA KeepsByte ==
  ASSUME MakingInv, NEW t \in Threads, set_rf_uart_byte(t)
  PROVE  MakingInv'
<1> DEFINE c == call[t]
           data == c.frame.data
           last == c.pos = Len(data)
<1>1. c \in Record /\ c.pc = "data" /\ c.pos <= Len(data) /\ Len(data) <= MaxData
  BY DEF MakingInv, CallOK, Record, set_rf_uart_byte, At
<1>2. data \in Seq(Bytes) /\ c.pos \in 1 .. Len(data)
  BY <1>1 DEF Record
<1>3. data[c.pos] \in Bytes
  BY <1>2, ElementOfSeq
<1>4. rf_uart_tx_buf \in [1 .. DATA_START + MaxData -> Bytes]
  BY DEF MakingInv
<1>5. rf_uart_tx_buf' = [rf_uart_tx_buf EXCEPT ![DATA_START + c.pos - 1] = data[c.pos]]
  BY DEF set_rf_uart_byte
<1>6. rf_uart_tx_buf' \in [1 .. DATA_START + MaxData -> Bytes]
  BY <1>3, <1>4, <1>5
<1>7. rf_uart_tx_buf'[LENGTH_LOW] <= MaxData
  BY <1>2, <1>4, <1>5 DEF MakingInv
<1>8. PICK pc, pos : /\ pc = IF last THEN "load" ELSE "data"
                     /\ pos = IF last THEN 1 ELSE c.pos + 1
  OBVIOUS
<1>9. GoOn(t, [c EXCEPT !.pc = pc, !.pos = pos])
  BY <1>8, Zenon DEF set_rf_uart_byte
<1>10. /\ pc \in {"load", "data"} /\ pos \in Nat \ {0}
       /\ pc = "data" => pos <= Len(data) /\ pos = c.pos + 1
       /\ pc = "load" => pos = 1 /\ c.pos = Len(data)
  BY <1>2, <1>8
<1>11. /\ call'[t] \in Record /\ call'[t].pc = pc /\ call'[t].pos = pos
       /\ call'[t].frame = c.frame /\ call'[t].manner = c.manner
  BY <1>1, <1>9, <1>10, ZenonT(30) DEF GoOn, Record, PCs
<1>12. CallOK(t)'
  BY <1>1, <1>10, <1>11 DEF CallOK, Record, SumEnd
<1>13. ASSUME call'[t].manner # "cut"
       PROVE  Made(t)'
  <2>1. Made(t)
    BY <1>11, <1>13 DEF MakingInv
  <2>2. \A i \in 1 .. c.pos - 1 : rf_uart_tx_buf[DATA_START + i - 1] = data[i]
    BY <2>1, <1>1 DEF Made, DataDone
  <2>3. ASSUME NEW i \in 1 .. c.pos
        PROVE  rf_uart_tx_buf'[DATA_START + i - 1] = data[i]
    <3>1. DATA_START + i - 1 \in 1 .. DATA_START + MaxData
      BY <1>1, <1>2
    <3>2. CASE i = c.pos
      BY <3>1, <3>2, <1>4, <1>5
    <3>3. CASE i # c.pos
      <4>1. i \in 1 .. c.pos - 1 /\ DATA_START + i - 1 # DATA_START + c.pos - 1
        BY <3>3, <1>2
      <4> QED
        BY <4>1, <3>1, <2>2, <1>4, <1>5
    <3> QED
      BY <3>2, <3>3
  <2>4. DataDone(t)' = c.pos
    <3>1. CASE pc = "data"
      <4>1. pos - 1 = c.pos
        BY <3>1, <1>2, <1>10
      <4> QED
        BY <3>1, <4>1, <1>11 DEF DataDone
    <3>2. CASE pc = "load"
      BY <3>2, <1>10, <1>11 DEF DataDone
    <3> QED
      BY <3>1, <3>2, <1>10
  <2> QED
    BY <2>3, <2>4, <1>10, <1>11 DEF Made, TypeDone, LengthDone
<1> QED
  BY <1>6, <1>7, <1>9, <1>12, <1>13, OwnStep DEF MakingInv, set_rf_uart_byte

LEMMA KeepsNumber ==
  ASSUME MakingInv, NEW t \in Threads, seq_num_get(t)
  PROVE  MakingInv'
<1> DEFINE c == call[t]
<1>1. /\ c \in Record /\ Len(c.frame.data) <= MaxData
      /\ c.pc \in {"load", "store", "test", "wrap", "read"}
      /\ global_seq_num \in 0 .. Short - 1
  BY DEF MakingInv, CallOK, Record, seq_num_get, LoadNumber, StoreNumber, TestNumber,
         WrapNumber, ReadNumber, At
<1>2. PICK pc \in {"store", "test", "wrap", "read", "head"}, num \in 0 .. Short - 1 :
        GoOn(t, [c EXCEPT !.pc = pc, !.num = num]) /\ global_seq_num' \in 0 .. Short - 1
  <2>1. CASE LoadNumber(t)
    <3>1. (global_seq_num + 1) % Short \in 0 .. Short - 1
      BY <1>1
    <3> QED
      BY <1>1, <2>1, <3>1 DEF LoadNumber
  <2>2. CASE StoreNumber(t)
    <3>1. c.num \in 0 .. Short - 1 /\ 0 \in 0 .. Short - 1
      BY <1>1 DEF Record
    <3>2. GoOn(t, [c EXCEPT !.pc = "test", !.num = 0]) /\ global_seq_num' = c.num
      BY <2>2 DEF StoreNumber
    <3> QED
      BY <3>1, <3>2, Zenon
  <2>3. CASE TestNumber(t)
    <3>1. PICK pc \in {"wrap", "read"} :
            pc = IF global_seq_num > SeqTop THEN "wrap" ELSE "read"
      OBVIOUS
    <3>2. GoOn(t, [c EXCEPT !.pc = pc]) /\ global_seq_num' = global_seq_num
      BY <2>3, <3>1, Zenon DEF TestNumber
    <3>3. [c EXCEPT !.pc = pc] = [c EXCEPT !.pc = pc, !.num = c.num]
          /\ c.num \in 0 .. Short - 1
      BY <1>1 DEF Record
    <3>4. GoOn(t, [c EXCEPT !.pc = pc, !.num = c.num])
      BY <3>2, <3>3, Zenon
    <3> QED
      BY <1>1, <3>1, <3>2, <3>3, <3>4, Zenon
  <2>4. CASE WrapNumber(t)
    <3>1. [c EXCEPT !.pc = "read"] = [c EXCEPT !.pc = "read", !.num = c.num]
          /\ c.num \in 0 .. Short - 1
      BY <1>1 DEF Record
    <3>2. 1 \in 0 .. Short - 1
      OBVIOUS
    <3>3. GoOn(t, [c EXCEPT !.pc = "read"]) /\ global_seq_num' = 1
      BY <2>4 DEF WrapNumber
    <3>4. GoOn(t, [c EXCEPT !.pc = "read", !.num = c.num])
      BY <3>1, <3>3, Zenon
    <3> QED
      BY <3>1, <3>2, <3>3, <3>4, Zenon
  <2>5. CASE ReadNumber(t)
    BY <1>1, <2>5 DEF ReadNumber
  <2> QED
    BY <2>1, <2>2, <2>3, <2>4, <2>5 DEF seq_num_get
<1>3. /\ call'[t] \in Record /\ call'[t].pc = pc /\ call'[t].pos = c.pos
      /\ call'[t].frame = c.frame /\ call'[t].manner = c.manner
  BY <1>1, <1>2, ZenonT(30) DEF GoOn, Record, PCs
<1>4. c.pos = 1
  BY <1>1 DEF MakingInv, CallOK
<1>5. CallOK(t)'
  <2>1. pc # "data" /\ pc # "sum"
    BY <1>2
  <2>2. call'[t].pc = pc /\ call'[t].pos = 1 /\ Len(call'[t].frame.data) <= MaxData
    BY <1>1, <1>3, <1>4
  <2> QED
    BY <1>3, <2>1, <2>2 DEF CallOK, Record, SumEnd
<1>6. rf_uart_tx_buf' = rf_uart_tx_buf
  BY DEF seq_num_get, LoadNumber, StoreNumber, TestNumber, WrapNumber, ReadNumber
<1>7. ASSUME call'[t].manner # "cut"
      PROVE  Made(t)'
  <2>1. Made(t)
    BY <1>3, <1>7 DEF MakingInv
  <2>2. DataDone(t) = Len(c.frame.data) /\ DataDone(t)' = Len(c.frame.data)
    BY <1>1, <1>2, <1>3 DEF DataDone
  <2> QED
    BY <2>1, <2>2, <1>2, <1>3, <1>4, <1>6 DEF Made, TypeDone, LengthDone
<1> QED
  BY <1>2, <1>5, <1>6, <1>7, OwnStep DEF MakingInv

LEMMA KeepsHead ==
  ASSUME MakingInv, NEW t \in Threads, SetHead(t)
  PROVE  MakingInv'
<1> DEFINE c == call[t]
           last == c.pos = LENGTH_LOW
<1>1. /\ c \in Record /\ c.pc = "head" /\ c.pos \in 1 .. LENGTH_LOW
      /\ Len(c.frame.data) <= MaxData
  <2>1. /\ c \in Record /\ c.pc = "head" /\ c.pos <= LENGTH_LOW
        /\ Len(c.frame.data) <= MaxData
    BY DEF MakingInv, CallOK, Record, SetHead, At
  <2>2. c.pos \in Nat \ {0}
    BY <2>1 DEF Record
  <2> QED
    BY <2>1, <2>2
<1>2. /\ c.num \in Nat /\ c.frame.cmd \in Bytes /\ Len(c.frame.data) \in 0 .. MaxData
      /\ c.frame.data \in Seq(Bytes)
  <2>1. c.frame.data \in Seq(Bytes) /\ c.frame.cmd \in Bytes /\ c.num \in 0 .. Short - 1
    BY <1>1 DEF Record
  <2>2. Len(c.frame.data) \in Nat
    BY <2>1
  <2> QED
    BY <1>1, <2>1, <2>2
<1>3. PICK byte : byte = Head3(c)[c.pos]
  OBVIOUS
<1>4. /\ byte \in Bytes
      /\ c.pos = FRAME_TYPE => byte = c.frame.cmd
      /\ c.pos = LENGTH_LOW => byte = Len(c.frame.data)
  <2>1. CASE c.pos = 1
    <3>1. byte = c.num % Byte
      BY <1>3, <2>1 DEF Head3
    <3>2. c.num % Byte \in 0 .. Byte - 1
      BY <1>2
    <3> QED
      BY <2>1, <3>1, <3>2
  <2>2. CASE c.pos = 2
    BY <1>2, <1>3, <2>2 DEF Head3
  <2>3. CASE c.pos = 3
    <3>1. byte = Len(c.frame.data)
      BY <1>3, <2>3 DEF Head3
    <3> QED
      BY <1>2, <2>3, <3>1
  <2> QED
    BY <1>1, <2>1, <2>2, <2>3
<1>5. /\ rf_uart_tx_buf \in [1 .. DATA_START + MaxData -> Bytes]
      /\ rf_uart_tx_buf[LENGTH_LOW] <= MaxData
  BY DEF MakingInv
<1>6. rf_uart_tx_buf' = [rf_uart_tx_buf EXCEPT ![c.pos] = byte]
  BY <1>3, Zenon DEF SetHead
<1>7. rf_uart_tx_buf' \in [1 .. DATA_START + MaxData -> Bytes]
  BY <1>4, <1>5, <1>6
<1>8. rf_uart_tx_buf'[LENGTH_LOW] <= MaxData
  <2>1. LENGTH_LOW \in 1 .. DATA_START + MaxData
    OBVIOUS
  <2>2. CASE c.pos = LENGTH_LOW
    <3>1. rf_uart_tx_buf'[LENGTH_LOW] = byte
      BY <2>1, <2>2, <1>5, <1>6
    <3>2. byte = Len(c.frame.data)
      BY <2>2, <1>4
    <3> QED
      BY <3>1, <3>2, <1>1
  <2>3. CASE c.pos # LENGTH_LOW
    BY <2>1, <2>3, <1>5, <1>6
  <2> QED
    BY <2>2, <2>3
<1>9. PICK pc, pos, num : /\ pc = IF last THEN "sum" ELSE "head"
                          /\ pos = IF last THEN 1 ELSE c.pos + 1
                          /\ num = IF c.pos = SEQ_LOW THEN 0 ELSE c.num
  OBVIOUS
<1>10. GoOn(t, [c EXCEPT !.pc = pc, !.pos = pos, !.num = num])
  BY <1>9, Zenon DEF SetHead
<1>11. /\ pos \in Nat \ {0}
       /\ \/ pc = "head" /\ pos = c.pos + 1 /\ c.pos < LENGTH_LOW
          \/ pc = "sum" /\ pos = 1 /\ c.pos = LENGTH_LOW
  <2>1. CASE last
    BY <2>1, <1>9
  <2>2. CASE ~last
    BY <2>2, <1>1, <1>9
  <2> QED
    BY <2>1, <2>2
<1>12. num \in 0 .. Short - 1
  BY <1>1, <1>9 DEF Record
<1>13. /\ call'[t] \in Record /\ call'[t].pc = pc /\ call'[t].pos = pos
       /\ call'[t].frame = c.frame /\ call'[t].manner = c.manner
  BY <1>1, <1>10, <1>11, <1>12, ZenonT(30) DEF GoOn, Record, PCs
<1>14. CallOK(t)'
  <2>1. pc \in {"head", "sum"}
    BY <1>11
  <2>2. pc = "head" => pos <= LENGTH_LOW
    BY <1>1, <1>11
  <2>3. pc = "sum" => pos <= LENGTH_LOW + Len(c.frame.data)
    BY <1>2, <1>11
  <2> QED
    BY <1>1, <1>13, <2>1, <2>2, <2>3 DEF CallOK, Record, SumEnd
<1>15. ASSUME call'[t].manner # "cut"
       PROVE  Made(t)'
  <2>1. Made(t)
    BY <1>13, <1>15 DEF MakingInv
  <2>2. DataDone(t) = Len(c.frame.data) /\ DataDone(t)' = Len(c.frame.data)
    BY <1>1, <1>11, <1>13 DEF DataDone
  <2>3. ASSUME NEW i \in 1 .. Len(c.frame.data)
        PROVE  rf_uart_tx_buf'[DATA_START + i - 1] = c.frame.data[i]
    <3>1. PICK n \in 0 .. MaxData : n = Len(c.frame.data)
      BY <1>2
    <3>2. DATA_START + i - 1 \in 1 .. DATA_START + MaxData /\ DATA_START + i - 1 # c.pos
      BY <3>1, <1>1
    <3>3. rf_uart_tx_buf[DATA_START + i - 1] = c.frame.data[i]
      BY <2>1, <2>2 DEF Made
    <3> QED
      BY <3>2, <3>3, <1>5, <1>6
  <2>4. TypeDone(t)' => rf_uart_tx_buf'[FRAME_TYPE] = c.frame.cmd
    <3>1. c.pos > FRAME_TYPE => rf_uart_tx_buf[FRAME_TYPE] = c.frame.cmd
      BY <1>1, <2>1 DEF Made, TypeDone
    <3>2. TypeDone(t)' => c.pos = FRAME_TYPE \/ c.pos > FRAME_TYPE
      BY <1>1, <1>11, <1>13 DEF TypeDone
    <3> QED
      BY <3>1, <3>2, <1>1, <1>4, <1>5, <1>6
  <2>5. LengthDone(t)' => rf_uart_tx_buf'[LENGTH_LOW] = Len(c.frame.data)
    <3>1. LengthDone(t)' => c.pos = LENGTH_LOW
      BY <1>11, <1>13 DEF LengthDone
    <3> QED
      BY <3>1, <1>4, <1>5, <1>6
  <2> QED
    BY <2>2, <2>3, <2>4, <2>5, <1>13 DEF Made
<1> QED
  BY <1>7, <1>8, <1>10, <1>14, <1>15, OwnStep DEF MakingInv, SetHead

LEMMA KeepsSum ==
  ASSUME MakingInv, NEW t \in Threads, get_check_sum(t)
  PROVE  MakingInv'
<1> DEFINE c == call[t]
           last == c.pos = SumEnd(c)
<1>1. /\ c \in Record /\ c.pc = "sum" /\ c.pos <= SumEnd(c)
      /\ Len(c.frame.data) <= MaxData
      /\ rf_uart_tx_buf \in [1 .. DATA_START + MaxData -> Bytes]
  BY DEF MakingInv, CallOK, Record, get_check_sum, At
<1>2. PICK n \in 0 .. MaxData : n = Len(c.frame.data)
  <2>1. c.frame.data \in Seq(Bytes)
    BY <1>1 DEF Record
  <2>2. Len(c.frame.data) \in Nat
    BY <2>1
  <2> QED
    BY <1>1, <2>2
<1>3. /\ c.pos \in Nat \ {0} /\ c.sum \in Bytes
      /\ c.pos <= LENGTH_LOW + n /\ SumEnd(c) = LENGTH_LOW + n
  BY <1>1, <1>2 DEF Record, SumEnd
<1>4. PICK byte \in Bytes : byte = rf_uart_tx_buf[c.pos]
  <2>1. c.pos \in 1 .. DATA_START + MaxData
    BY <1>2, <1>3
  <2> QED
    BY <1>1, <2>1
<1>5. PICK pc, pos, sum : /\ pc = IF last THEN "check" ELSE "sum"
                          /\ pos = IF last THEN 1 ELSE c.pos + 1
                          /\ sum = Add(c.sum, rf_uart_tx_buf[c.pos])
  OBVIOUS
<1>6. GoOn(t, [c EXCEPT !.pc = pc, !.pos = pos, !.sum = sum])
  BY <1>5, Zenon DEF get_check_sum
<1>7. /\ pos \in Nat \ {0}
      /\ \/ pc = "sum" /\ pos <= LENGTH_LOW + n
         \/ pc = "check"
  <2>1. CASE last
    BY <2>1, <1>5
  <2>2. CASE ~last
    <3>1. c.pos # LENGTH_LOW + n
      BY <2>2, <1>3
    <3> QED
      BY <2>2, <3>1, <1>3, <1>5
  <2> QED
    BY <2>1, <2>2
<1>8. sum \in Bytes
  <2>1. sum = (c.sum + byte) % Byte
    BY <1>4, <1>5 DEF Add
  <2>2. (c.sum + byte) % Byte \in 0 .. Byte - 1
    BY <1>3
  <2> QED
    BY <2>1, <2>2
<1>9. /\ call'[t] \in Record /\ call'[t].pc = pc /\ call'[t].pos = pos
      /\ call'[t].frame = c.frame /\ call'[t].manner = c.manner
  BY <1>1, <1>6, <1>7, <1>8, ZenonT(30) DEF GoOn, Record, PCs
<1>10. CallOK(t)'
  BY <1>1, <1>2, <1>7, <1>9, Zenon DEF CallOK, Record, SumEnd
<1>11. rf_uart_tx_buf' = rf_uart_tx_buf /\ global_seq_num' = global_seq_num
  BY DEF get_check_sum
<1>12. ASSUME call'[t].manner # "cut"
       PROVE  Made(t)'
  <2>1. Made(t)
    BY <1>9, <1>12 DEF MakingInv
  <2>2. DataDone(t)' = DataDone(t)
    BY <1>1, <1>7, <1>9 DEF DataDone
  <2>3. TypeDone(t) /\ LengthDone(t)
    BY <1>1 DEF TypeDone, LengthDone
  <2> QED
    BY <2>1, <2>2, <2>3, <1>9, <1>11 DEF Made
<1> QED
  BY <1>6, <1>10, <1>11, <1>12, OwnStep DEF MakingInv

LEMMA KeepsCheck ==
  ASSUME MakingInv, NEW t \in Threads, SetCheckSum(t)
  PROVE  MakingInv'
<1> DEFINE c == call[t]
<1>1. /\ c \in Record /\ c.pc = "check" /\ Len(c.frame.data) <= MaxData
      /\ rf_uart_tx_buf \in [1 .. DATA_START + MaxData -> Bytes]
      /\ rf_uart_tx_buf[LENGTH_LOW] <= MaxData
  BY DEF MakingInv, CallOK, Record, SetCheckSum, At
<1>2. PICK n \in 0 .. MaxData : n = Len(c.frame.data)
  <2>1. c.frame.data \in Seq(Bytes)
    BY <1>1 DEF Record
  <2>2. Len(c.frame.data) \in Nat
    BY <2>1
  <2> QED
    BY <1>1, <2>2
<1>3. rf_uart_tx_buf' = [rf_uart_tx_buf EXCEPT ![DATA_START + n] = c.sum] /\ c.sum \in Bytes
  BY <1>1, <1>2 DEF SetCheckSum, Record
<1>4. /\ rf_uart_tx_buf' \in [1 .. DATA_START + MaxData -> Bytes]
      /\ rf_uart_tx_buf'[LENGTH_LOW] <= MaxData
  BY <1>1, <1>3
<1>5. GoOn(t, [c EXCEPT !.pc = "put", !.sum = 0])
  BY DEF SetCheckSum
<1>6. /\ call'[t] \in Record /\ call'[t].pc = "put"
      /\ call'[t].frame = c.frame /\ call'[t].manner = c.manner
  <2>1. 0 \in Bytes
    OBVIOUS
  <2> QED
    BY <1>1, <1>5, <2>1, ZenonT(30) DEF GoOn, Record, PCs
<1>7. CallOK(t)'
  BY <1>1, <1>6 DEF CallOK, Record, SumEnd
<1>8. ASSUME call'[t].manner # "cut"
      PROVE  Made(t)'
  <2>1. Made(t)
    BY <1>6, <1>8 DEF MakingInv
  <2>2. DataDone(t) = n /\ DataDone(t)' = n
    BY <1>1, <1>2, <1>6 DEF DataDone
  <2>3. TypeDone(t) /\ LengthDone(t)
    BY <1>1 DEF TypeDone, LengthDone
  <2>4. /\ rf_uart_tx_buf'[FRAME_TYPE] = c.frame.cmd
        /\ rf_uart_tx_buf'[LENGTH_LOW] = Len(c.frame.data)
    <3>1. /\ rf_uart_tx_buf[FRAME_TYPE] = c.frame.cmd
          /\ rf_uart_tx_buf[LENGTH_LOW] = Len(c.frame.data)
      BY <2>1, <2>3 DEF Made
    <3>2. /\ FRAME_TYPE # DATA_START + n /\ LENGTH_LOW # DATA_START + n
          /\ FRAME_TYPE \in 1 .. DATA_START + MaxData
          /\ LENGTH_LOW \in 1 .. DATA_START + MaxData
      OBVIOUS
    <3>3. /\ rf_uart_tx_buf'[FRAME_TYPE] = rf_uart_tx_buf[FRAME_TYPE]
          /\ rf_uart_tx_buf'[LENGTH_LOW] = rf_uart_tx_buf[LENGTH_LOW]
      BY <3>2, <1>1, <1>3
    <3> QED
      BY <3>1, <3>3
  <2>5. ASSUME NEW i \in 1 .. n
        PROVE  rf_uart_tx_buf'[DATA_START + i - 1] = c.frame.data[i]
    <3>1. /\ DATA_START + i - 1 \in 1 .. DATA_START + MaxData
          /\ DATA_START + i - 1 # DATA_START + n
      OBVIOUS
    <3>2. rf_uart_tx_buf[DATA_START + i - 1] = c.frame.data[i]
      BY <2>1, <2>2 DEF Made
    <3> QED
      BY <3>1, <3>2, <1>1, <1>3
  <2> QED
    BY <2>2, <2>4, <2>5, <1>6 DEF Made
<1> QED
  BY <1>4, <1>5, <1>7, <1>8, OwnStep DEF MakingInv, SetCheckSum

LEMMA KeepsPut ==
  ASSUME MakingInv, NEW t \in Threads, rf_uart_write_data(t)
  PROVE  MakingInv'
<1>1. GoOn(t, Idle) /\ UNCHANGED <<rf_uart_tx_buf, global_seq_num>>
  BY DEF rf_uart_write_data
<1>2. call'[t] = Idle
  BY <1>1 DEF GoOn
<1>3. Idle \in Record /\ Idle.pc = "idle" /\ Len(Idle.frame.data) = 0
  <2>1. 0 \in Bytes /\ 0 \in 0 .. Short - 1
    OBVIOUS
  <2> QED
    BY <2>1 DEF Idle, Record, PCs, Manner
<1>4. CallOK(t)'
  BY <1>2, <1>3 DEF CallOK, Record
<1>5. Made(t)'
  BY <1>2, <1>3 DEF Made, DataDone, TypeDone, LengthDone
<1> QED
  BY <1>1, <1>4, <1>5, OwnStep DEF MakingInv

LEMMA MakingStart == Init => MakingInv
<1> SUFFICES ASSUME Init
             PROVE  MakingInv
  OBVIOUS
<1>1. 0 \in Bytes /\ 0 \in 0 .. Short - 1
  OBVIOUS
<1>2. /\ rf_uart_tx_buf \in [1 .. DATA_START + MaxData -> Bytes]
      /\ rf_uart_tx_buf[LENGTH_LOW] <= MaxData
      /\ global_seq_num \in 0 .. Short - 1
  BY <1>1 DEF Init
<1>3. ASSUME NEW t \in Threads
      PROVE  CallOK(t) /\ Made(t)
  <2>1. call[t] = Idle
    BY DEF Init
  <2>2. Idle \in Record /\ Idle.pc = "idle" /\ Len(Idle.frame.data) = 0
    BY <1>1 DEF Idle, Record, PCs, Manner
  <2>3. CallOK(t)
    BY <2>1, <2>2 DEF CallOK, Record
  <2>4. Made(t)
    BY <2>1, <2>2 DEF Made, DataDone, TypeDone, LengthDone
  <2> QED
    BY <2>3, <2>4
<1> QED
  BY <1>2, <1>3 DEF MakingInv

LEMMA MakingStep == MakingInv /\ [Next]_vars => MakingInv'
<1> SUFFICES ASSUME MakingInv, [Next]_vars
             PROVE  MakingInv'
  OBVIOUS
<1>1. ASSUME NEW t \in Threads, Start(t) \/ set_rf_uart_byte(t) \/ rf_uart_write_frame(t)
      PROVE  MakingInv'
  BY <1>1, KeepsStart, KeepsByte, KeepsNumber, KeepsHead, KeepsSum, KeepsCheck, KeepsPut
     DEF rf_uart_write_frame
<1>2. CASE UNCHANGED <<rf_uart_tx_buf, global_seq_num, call>>
  BY <1>2 DEF MakingInv, CallOK, SumEnd, Made, DataDone, TypeDone, LengthDone
<1> QED
  BY <1>1, <1>2 DEF Next, parking_message, vars

-----------------------------------------------------------------------------
(***************************************************************************)
(* What is in the queue.                                                   *)
(***************************************************************************)
LEMMA EntryMade ==
  ASSUME MakingInv, NEW t \in Threads, call[t].pc = "put"
  PROVE  [bytes |-> ToSend(rf_uart_tx_buf), meant |-> call[t].frame,
          manner |-> call[t].manner] \in Entries
<1> DEFINE c == call[t]
           b == ToSend(rf_uart_tx_buf)
<1>1. /\ c \in Record /\ Len(c.frame.data) <= MaxData
      /\ c.manner # "cut" => Made(t)
      /\ rf_uart_tx_buf \in [1 .. DATA_START + MaxData -> Bytes]
      /\ rf_uart_tx_buf[LENGTH_LOW] <= MaxData
  BY DEF MakingInv, CallOK, Record
<1>2. /\ c.frame \in [cmd : Bytes, data : Seq(Bytes)] /\ c.manner \in Manner
  BY <1>1 DEF Record
<1>3. PICK n \in 0 .. MaxData : n = rf_uart_tx_buf[LENGTH_LOW]
  <2>1. LENGTH_LOW \in 1 .. DATA_START + MaxData
    OBVIOUS
  <2>2. rf_uart_tx_buf[LENGTH_LOW] \in Bytes
    BY <1>1, <2>1
  <2> QED
    BY <1>1, <2>2
<1>4. b = [i \in 1 .. DATA_START + n |-> rf_uart_tx_buf[i]]
  BY <1>3 DEF ToSend
<1>5. b \in [1 .. DATA_START + n -> Bytes]
  BY <1>1, <1>4
<1>6. b \in Wire
  BY <1>5 DEF Wire
<1>7. b[LENGTH_LOW] = n /\ DOMAIN b = 1 .. DATA_START + b[LENGTH_LOW]
  <2>1. LENGTH_LOW \in 1 .. DATA_START + n
    OBVIOUS
  <2> QED
    BY <1>3, <1>4, <2>1
<1>8. ASSUME c.manner # "cut"
      PROVE  Says(b, c.frame)
  <2>1. Made(t)
    BY <1>1, <1>8
  <2>2. DataDone(t) = Len(c.frame.data) /\ TypeDone(t) /\ LengthDone(t)
    BY DEF DataDone, TypeDone, LengthDone
  <2>3. n = Len(c.frame.data)
    BY <2>1, <2>2, <1>3 DEF Made
  <2>4. b[FRAME_TYPE] = c.frame.cmd
    <3>1. FRAME_TYPE \in 1 .. DATA_START + n
      OBVIOUS
    <3> QED
      BY <3>1, <2>1, <2>2, <1>4 DEF Made
  <2>5. ASSUME NEW i \in 1 .. n
        PROVE  b[DATA_START + i - 1] = c.frame.data[i]
    <3>1. DATA_START + i - 1 \in 1 .. DATA_START + n
      OBVIOUS
    <3>2. rf_uart_tx_buf[DATA_START + i - 1] = c.frame.data[i]
      BY <2>1, <2>2, <2>3 DEF Made
    <3> QED
      BY <3>1, <3>2, <1>4
  <2> QED
    BY <2>3, <2>4, <2>5, <1>7 DEF Says
<1> QED
  BY <1>2, <1>6, <1>7, <1>8 DEF Entries

LEMMA QueuePut ==
  ASSUME MakingInv, QueueInv, NEW t \in Threads, rf_uart_write_data(t)
  PROVE  QueueInv'
<1>1. PICK e : e = [bytes |-> ToSend(rf_uart_tx_buf), meant |-> call[t].frame,
                    manner |-> call[t].manner]
  OBVIOUS
<1>2. e \in Entries
  BY <1>1, EntryMade DEF rf_uart_write_data, At
<1>3. queue_data_tx \in Seq(Entries) /\ Len(queue_data_tx) <= QueueLen
  BY DEF QueueInv
<1>4. queue_data_tx' \in Seq(Entries) /\ Len(queue_data_tx') <= QueueLen
  <2>1. CASE Len(queue_data_tx) < QueueLen
    <3>1. queue_data_tx' = Append(queue_data_tx, e)
      BY <2>1, <1>1 DEF rf_uart_write_data
    <3>2. /\ Append(queue_data_tx, e) \in Seq(Entries)
          /\ Len(Append(queue_data_tx, e)) = Len(queue_data_tx) + 1
      BY <1>2, <1>3, AppendProperties
    <3>3. Len(queue_data_tx) \in Nat
      BY <1>3
    <3> QED
      BY <2>1, <3>1, <3>2, <3>3
  <2>2. CASE ~(Len(queue_data_tx) < QueueLen)
    BY <1>3, <2>2 DEF rf_uart_write_data
  <2> QED
    BY <2>1, <2>2
<1>5. previous' \in Bytes \cup {None}
  <2>1. SEQ_LOW \in 1 .. DATA_START + MaxData
    OBVIOUS
  <2>2. rf_uart_tx_buf[SEQ_LOW] \in Bytes
    BY <2>1 DEF MakingInv
  <2> QED
    BY <2>2 DEF rf_uart_write_data
<1> QED
  BY <1>4, <1>5 DEF QueueInv

LEMMA QueueStep == MakingInv /\ QueueInv /\ [Next]_vars => QueueInv'
<1> SUFFICES ASSUME MakingInv, QueueInv, [Next]_vars
             PROVE  QueueInv'
  OBVIOUS
<1>1. CASE UNCHANGED <<queue_data_tx, previous>>
  BY <1>1 DEF QueueInv
<1>2. CASE parking_message
  <2>1. /\ queue_data_tx \in Seq(Entries) /\ queue_data_tx # <<>>
        /\ Len(queue_data_tx) <= QueueLen /\ queue_data_tx' = Tail(queue_data_tx)
    BY <1>2 DEF QueueInv, parking_message
  <2>2. /\ Tail(queue_data_tx) \in Seq(Entries)
        /\ Len(Tail(queue_data_tx)) = Len(queue_data_tx) - 1
    BY <2>1, HeadTailProperties
  <2>3. Len(queue_data_tx) \in Nat
    BY <2>1
  <2> QED
    BY <1>2, <2>1, <2>2, <2>3 DEF QueueInv, parking_message
<1>3. ASSUME NEW t \in Threads, Start(t) \/ set_rf_uart_byte(t) \/ rf_uart_write_frame(t)
      PROVE  QueueInv'
  <2>1. CASE rf_uart_write_data(t)
    BY <2>1, QueuePut
  <2>2. CASE ~rf_uart_write_data(t)
    <3>1. UNCHANGED <<queue_data_tx, previous>>
      BY <1>3, <2>2 DEF Start, set_rf_uart_byte, rf_uart_write_frame, seq_num_get,
         LoadNumber, StoreNumber, TestNumber, WrapNumber, ReadNumber, SetHead,
         get_check_sum, SetCheckSum
    <3> QED
      BY <3>1, <1>1
  <2> QED
    BY <2>1, <2>2
<1> QED
  BY <1>1, <1>2, <1>3 DEF Next, vars

LEMMA QueueStart == Init => QueueInv
<1> SUFFICES ASSUME Init
             PROVE  QueueInv
  OBVIOUS
<1>1. queue_data_tx \in Seq(Entries) /\ Len(queue_data_tx) = 0 /\ previous = None
  BY DEF Init
<1> QED
  BY <1>1 DEF QueueInv

-----------------------------------------------------------------------------
(***************************************************************************)
(* The sequence numbers and the check sums.  Sums are added byte by byte,  *)
(* so facts about them are proved by the least length they fail for.       *)
(***************************************************************************)
LEMMA ByteOfNumber ==
  ASSUME NEW g \in Nat
  PROVE  g % Byte \in 0 .. Byte - 1 /\ g % Byte # None
BY DEF None

\* An action of thread t keeps the numbers in order if it does so for t's own frame:
\* the others are idle, or cut.
LEMMA OwnNumberStep ==
  ASSUME MakingInv, NumberInv, NEW t \in Threads, NEW c, GoOn(t, c), WrapDue',
         Alone(t)' => OwnNumber(t)' /\ \A u \in Others(t) : ~Busy(u),
         ~Busy(t)' => previous' \in {global_seq_num' % Byte, None}
  PROVE  NumberInv'
<1>1. ASSUME NEW u \in Others(t)
      PROVE  /\ ~Alone(u)'
             /\ ~Busy(u) => ~Busy(u)'
  <2>1. u \in Threads /\ u # t
    BY DEF Others
  <2>2. CASE Busy(u)
    <3>1. call'[u] = [call[u] EXCEPT !.manner = "cut"]
      BY <2>1, <2>2 DEF GoOn
    <3>2. call[u] \in Record
      BY <2>1 DEF MakingInv, CallOK, Record
    <3>3. call'[u].manner = "cut"
      BY <3>1, <3>2 DEF Record
    <3> QED
      BY <2>2, <3>3 DEF Alone
  <2>3. CASE ~Busy(u)
    <3>1. call'[u] = call[u]
      BY <2>1, <2>3 DEF GoOn
    <3> QED
      BY <2>3, <3>1 DEF Alone, Busy
  <2> QED
    BY <2>2, <2>3
<1>2. ASSUME NEW u \in Threads, Alone(u)'
      PROVE  OwnNumber(u)' /\ \A v \in Others(u) : ~Busy(v)'
  <2>1. u = t
    BY <1>1, <1>2 DEF Others
  <2> QED
    BY <1>1, <1>2, <2>1
<1> QED
  BY <1>2, Zenon DEF NumberInv, Others

\* Threads other than t that see a counter past SeqTop still do.
LEMMA WrapStillDue ==
  ASSUME MakingInv, WrapDue, NEW t \in Threads, NEW c, GoOn(t, c),
         global_seq_num' = global_seq_num,
         call[t].pc \in {"test", "wrap"} /\ global_seq_num > SeqTop
           => c.pc \in {"test", "wrap"}
  PROVE  WrapDue'
<1> SUFFICES ASSUME global_seq_num > SeqTop
             PROVE  \E u \in Threads : call'[u].pc \in {"test", "wrap"}
  BY DEF WrapDue
<1>1. PICK u \in Threads : call[u].pc \in {"test", "wrap"}
  BY DEF WrapDue
<1>2. CASE u = t
  BY <1>1, <1>2 DEF GoOn
<1>3. CASE u # t
  <2>1. Busy(u)
    BY <1>1 DEF Busy
  <2>2. call'[u] = [call[u] EXCEPT !.manner = "cut"]
    BY <1>3, <2>1 DEF GoOn
  <2>3. call[u] \in Record
    BY DEF MakingInv, CallOK, Record
  <2>4. call'[u].pc = call[u].pc
    BY <2>2, <2>3 DEF Record
  <2> QED
    BY <1>1, <2>4
<1> QED
  BY <1>2, <1>3

\* A frame is begun with the number of the frame before it in the counter.
LEMMA NumberStart ==
  ASSUME MakingInv, NumberInv, NEW t \in Threads, Start(t)
  PROVE  NumberInv'
<1> DEFINE Begun(f) == [Idle EXCEPT !.pc = IF f.data = <<>> THEN "load" ELSE "data",
                                   !.frame = f,
                                   !.manner = IF \E u \in Others(t) : Busy(u)
                                              THEN "nested" ELSE "alone"]
<1>0. PICK f \in Frames[t] : GoOn(t, Begun(f))
  BY DEF Start
<1>1. PICK c \in {Begun(f)} : c = Begun(f) /\ GoOn(t, c)
  BY <1>0
<1>2. /\ c.pc \in {"load", "data"} /\ call[t].pc = "idle"
      /\ c.manner = "alone" => \A u \in Others(t) : ~Busy(u)
  BY <1>1 DEF Idle, Start, At
<1>3. /\ call'[t] = c /\ global_seq_num' = global_seq_num /\ previous' = previous
      /\ rf_uart_tx_buf' = rf_uart_tx_buf
  BY <1>1 DEF GoOn, Start
<1>4. WrapDue'
  BY <1>1, <1>2, <1>3, WrapStillDue DEF NumberInv
<1>5. ASSUME Alone(t)'
      PROVE  OwnNumber(t)' /\ \A u \in Others(t) : ~Busy(u)
  <2>1. \A u \in Others(t) : ~Busy(u)
    BY <1>2, <1>3, <1>5 DEF Alone
  <2>2. \A u \in Threads : ~Busy(u)
    BY <1>2, <2>1 DEF Others, Busy
  <2>3. previous \in {global_seq_num % Byte, None}
    BY <2>2 DEF NumberInv
  <2> QED
    BY <1>2, <1>3, <2>1, <2>3 DEF OwnNumber, NumberDone
<1>6. Busy(t)'
  BY <1>2, <1>3 DEF Busy
<1> QED
  BY <1>1, <1>4, <1>5, <1>6, OwnNumberStep

\* What it takes for a step of a frame that is under way: its number, if it is made
\* alone.
LEMMA BusyNumberStep ==
  ASSUME MakingInv, NumberInv, NEW t \in Threads, Busy(t), NEW c, GoOn(t, c), WrapDue',
         c.manner = call[t].manner, c.pc # "idle",
         c.manner = "alone" /\ OwnNumber(t) => OwnNumber(t)'
  PROVE  NumberInv'
<1>1. call'[t] = c
  BY DEF GoOn
<1>2. ASSUME Alone(t)'
      PROVE  OwnNumber(t)' /\ \A u \in Others(t) : ~Busy(u)
  <2>1. Alone(t)
    BY <1>1, <1>2 DEF Alone
  <2>2. OwnNumber(t) /\ \A u \in Others(t) : ~Busy(u)
    BY <2>1 DEF NumberInv
  <2> QED
    BY <2>1, <2>2 DEF Alone
<1>3. Busy(t)'
  BY <1>1 DEF Busy
<1> QED
  BY <1>2, <1>3, OwnNumberStep

LEMMA NumberLoad ==
  ASSUME MakingInv, NumberInv, NEW t \in Threads, LoadNumber(t)
  PROVE  NumberInv'
<1>1. PICK c : /\ c = [call[t] EXCEPT !.pc = "store", !.num = (global_seq_num + 1) % Short]
               /\ GoOn(t, c)
  BY DEF LoadNumber
<1>2. call[t] \in Record /\ call[t].pc = "load" /\ Busy(t)
  BY DEF LoadNumber, At, MakingInv, CallOK, Record, Busy
<1>3. /\ c.pc = "store" /\ c.num = (global_seq_num + 1) % Short
      /\ c.manner = call[t].manner /\ c.pos = call[t].pos
  BY <1>1, <1>2 DEF Record
<1>4. /\ call'[t] = c /\ global_seq_num' = global_seq_num /\ previous' = previous
      /\ rf_uart_tx_buf' = rf_uart_tx_buf
  BY <1>1 DEF GoOn, LoadNumber
<1>5. WrapDue'
  BY <1>1, <1>2, <1>4, WrapStillDue DEF NumberInv
<1>6. ASSUME c.manner = "alone", OwnNumber(t)
      PROVE  OwnNumber(t)'
  <2>1. \A u \in Threads : call[u].pc \notin {"test", "wrap"}
    BY <1>2, <1>3, <1>6 DEF NumberInv, Alone, Others, Busy
  <2>2. global_seq_num <= SeqTop /\ global_seq_num \in 0 .. Short - 1
    BY <2>1 DEF NumberInv, WrapDue, MakingInv
  <2>3. (global_seq_num + 1) % Short = global_seq_num + 1
    BY <2>2, NumberAssumption
  <2>4. previous \in {global_seq_num % Byte, None}
    BY <1>2, <1>6 DEF OwnNumber
  <2> QED
    BY <1>3, <1>4, <2>2, <2>3, <2>4 DEF OwnNumber, NumberDone
<1> QED
  BY <1>1, <1>2, <1>3, <1>5, <1>6, BusyNumberStep

LEMMA NumberStore ==
  ASSUME MakingInv, NumberInv, NEW t \in Threads, StoreNumber(t)
  PROVE  NumberInv'
<1>1. PICK c : c = [call[t] EXCEPT !.pc = "test", !.num = 0] /\ GoOn(t, c)
  BY DEF StoreNumber
<1>2. call[t] \in Record /\ call[t].pc = "store" /\ Busy(t)
  BY DEF StoreNumber, At, MakingInv, CallOK, Record, Busy
<1>3. c.pc = "test" /\ c.manner = call[t].manner
  BY <1>1, <1>2 DEF Record
<1>4. /\ call'[t] = c /\ global_seq_num' = call[t].num /\ previous' = previous
      /\ rf_uart_tx_buf' = rf_uart_tx_buf
  BY <1>1 DEF GoOn, StoreNumber
<1>5. WrapDue'
  BY <1>3, <1>4 DEF WrapDue
<1>6. ASSUME c.manner = "alone", OwnNumber(t)
      PROVE  OwnNumber(t)'
  <2>1. /\ call[t].num = global_seq_num + 1 /\ global_seq_num <= SeqTop
        /\ previous \in {global_seq_num % Byte, None}
    BY <1>2, <1>6 DEF OwnNumber
  <2>2. global_seq_num \in 0 .. Short - 1
    BY DEF MakingInv
  <2>3. call[t].num - 1 = global_seq_num /\ call[t].num \in 1 .. SeqTop + 1
    BY <2>1, <2>2
  <2> QED
    BY <1>3, <1>4, <2>1, <2>3 DEF OwnNumber, NumberDone
<1> QED
  BY <1>1, <1>2, <1>3, <1>5, <1>6, BusyNumberStep

LEMMA NumberTest ==
  ASSUME MakingInv, NumberInv, NEW t \in Threads, TestNumber(t)
  PROVE  NumberInv'
<1>1. PICK pc : pc = IF global_seq_num > SeqTop THEN "wrap" ELSE "read"
  OBVIOUS
<1>2. PICK c : c = [call[t] EXCEPT !.pc = pc] /\ GoOn(t, c)
  BY <1>1, Zenon DEF TestNumber
<1>3. call[t] \in Record /\ call[t].pc = "test" /\ Busy(t)
  BY DEF TestNumber, At, MakingInv, CallOK, Record, Busy
<1>4. c.pc = pc /\ c.manner = call[t].manner
  BY <1>2, <1>3 DEF Record
<1>5. /\ call'[t] = c /\ global_seq_num' = global_seq_num /\ previous' = previous
      /\ rf_uart_tx_buf' = rf_uart_tx_buf
  BY <1>2 DEF GoOn, TestNumber
<1>6. WrapDue'
  BY <1>1, <1>2, <1>4, <1>5, WrapStillDue DEF NumberInv
<1>7. ASSUME c.manner = "alone", OwnNumber(t)
      PROVE  OwnNumber(t)'
  <2>1. PICK g \in Nat : g = global_seq_num - 1 /\ g + 1 = global_seq_num
    BY <1>3, <1>7 DEF OwnNumber
  <2>2. previous \in {g % Byte, None} /\ g <= SeqTop
    BY <1>3, <1>7, <2>1 DEF OwnNumber
  <2>3. CASE pc = "wrap"
    <3>1. g = SeqTop
      BY <1>1, <2>1, <2>2, <2>3
    <3>2. previous \in {SeqTop % Byte, None}
      BY <2>2, <3>1
    <3> QED
      BY <1>4, <1>5, <2>3, <3>2 DEF OwnNumber, NumberDone
  <2>4. CASE pc = "read"
    <3>1. previous # (g + 1) % Byte
      <4>1. g % Byte # (g + 1) % Byte
        BY NextByteOf
      <4>2. (g + 1) % Byte # None
        BY ByteOfNumber, g + 1 \in Nat, Zenon
      <4> QED
        BY <2>2, <4>1, <4>2, Zenon
    <3>2. previous # global_seq_num % Byte
      BY <2>1, <3>1, Zenon
    <3> QED
      BY <1>4, <1>5, <2>4, <3>2 DEF OwnNumber, NumberDone
  <2> QED
    BY <1>1, <2>3, <2>4
<1>8. c.pc # "idle"
  BY <1>1, <1>4
<1> QED
  BY <1>2, <1>3, <1>4, <1>6, <1>7, <1>8, BusyNumberStep

LEMMA NumberWrap ==
  ASSUME MakingInv, NumberInv, NEW t \in Threads, WrapNumber(t)
  PROVE  NumberInv'
<1>1. PICK c : c = [call[t] EXCEPT !.pc = "read"] /\ GoOn(t, c)
  BY DEF WrapNumber
<1>2. call[t] \in Record /\ call[t].pc = "wrap" /\ Busy(t)
  BY DEF WrapNumber, At, MakingInv, CallOK, Record, Busy
<1>3. c.pc = "read" /\ c.manner = call[t].manner
  BY <1>1, <1>2 DEF Record
<1>4. /\ call'[t] = c /\ global_seq_num' = 1 /\ previous' = previous
      /\ rf_uart_tx_buf' = rf_uart_tx_buf
  BY <1>1 DEF GoOn, WrapNumber
<1>5. WrapDue'
  BY <1>4 DEF WrapDue
<1>6. ASSUME c.manner = "alone", OwnNumber(t)
      PROVE  OwnNumber(t)'
  <2>1. previous \in {SeqTop % Byte, None}
    BY <1>2, <1>6 DEF OwnNumber
  <2>2. 1 % Byte = 1 /\ SeqTop % Byte # 1 /\ None # 1
    BY NumberAssumption DEF None
  <2>3. previous # 1 % Byte
    BY <2>1, <2>2, Zenon
  <2>4. previous' # global_seq_num' % Byte
    BY <1>4, <2>3, Zenon
  <2> QED
    BY <1>3, <1>4, <2>4 DEF OwnNumber, NumberDone
<1> QED
  BY <1>1, <1>2, <1>3, <1>5, <1>6, BusyNumberStep

LEMMA NumberRead ==
  ASSUME MakingInv, NumberInv, NEW t \in Threads, ReadNumber(t)
  PROVE  NumberInv'
<1>1. PICK c : c = [call[t] EXCEPT !.pc = "head", !.num = global_seq_num] /\ GoOn(t, c)
  BY DEF ReadNumber
<1>2. call[t] \in Record /\ call[t].pc = "read" /\ call[t].pos = 1 /\ Busy(t)
  BY DEF ReadNumber, At, MakingInv, CallOK, Record, Busy
<1>3. /\ c.pc = "head" /\ c.manner = call[t].manner /\ c.num = global_seq_num
      /\ c.pos = 1
  BY <1>1, <1>2 DEF Record
<1>4. /\ call'[t] = c /\ global_seq_num' = global_seq_num /\ previous' = previous
      /\ rf_uart_tx_buf' = rf_uart_tx_buf
  BY <1>1 DEF GoOn, ReadNumber
<1>5. WrapDue'
  BY <1>1, <1>2, <1>4, WrapStillDue DEF NumberInv
<1>6. ASSUME c.manner = "alone", OwnNumber(t)
      PROVE  OwnNumber(t)'
  <2>1. previous # global_seq_num % Byte
    BY <1>2, <1>6 DEF OwnNumber
  <2> QED
    BY <1>3, <1>4, <2>1 DEF OwnNumber, NumberDone
<1> QED
  BY <1>1, <1>2, <1>3, <1>5, <1>6, BusyNumberStep

\* The number is the first byte of the head.
LEMMA NumberHead ==
  ASSUME MakingInv, NumberInv, NEW t \in Threads, SetHead(t)
  PROVE  NumberInv'
<1> DEFINE b == call[t]
           last == b.pos = LENGTH_LOW
<1>1. PICK pc, pos, num : /\ pc = IF last THEN "sum" ELSE "head"
                          /\ pos = IF last THEN 1 ELSE b.pos + 1
                          /\ num = IF b.pos = SEQ_LOW THEN 0 ELSE b.num
  OBVIOUS
<1>2. PICK c : c = [b EXCEPT !.pc = pc, !.pos = pos, !.num = num] /\ GoOn(t, c)
  BY <1>1, Zenon DEF SetHead
<1>3. b \in Record /\ b.pc = "head" /\ b.pos \in 1 .. LENGTH_LOW /\ Busy(t)
  <2>1. b \in Record /\ b.pc = "head" /\ b.pos <= LENGTH_LOW /\ Busy(t)
    BY DEF SetHead, At, MakingInv, CallOK, Record, Busy
  <2>2. b.pos \in Nat \ {0}
    BY <2>1 DEF Record
  <2> QED
    BY <2>1, <2>2
<1>4. c.pc = pc /\ c.pos = pos /\ c.manner = b.manner
  BY <1>2, <1>3 DEF Record
<1>5. /\ pc \in {"head", "sum"}
      /\ pc = "head" => pos = b.pos + 1
  BY <1>1
<1>6. /\ call'[t] = c /\ global_seq_num' = global_seq_num /\ previous' = previous
      /\ rf_uart_tx_buf' = [rf_uart_tx_buf EXCEPT ![b.pos] = Head3(b)[b.pos]]
  BY <1>2 DEF GoOn, SetHead
<1>7. WrapDue'
  BY <1>2, <1>3, <1>6, WrapStillDue DEF NumberInv
<1>8. ASSUME c.manner = "alone", OwnNumber(t)
      PROVE  OwnNumber(t)'
  <2>1. previous # global_seq_num % Byte
    BY <1>3, <1>8 DEF OwnNumber
  <2>2. rf_uart_tx_buf \in [1 .. DATA_START + MaxData -> Bytes]
    BY DEF MakingInv
  <2>3. rf_uart_tx_buf'[SEQ_LOW] = global_seq_num % Byte
    <3>1. CASE b.pos = SEQ_LOW
      <4>1. b.num = global_seq_num
        BY <1>3, <1>8, <3>1 DEF OwnNumber
      <4>2. Head3(b)[1] = b.num % Byte
        BY DEF Head3
      <4>3. rf_uart_tx_buf'[SEQ_LOW] = Head3(b)[1]
        <5>1. PICK byte : byte = Head3(b)[b.pos]
          OBVIOUS
        <5>2. rf_uart_tx_buf' = [rf_uart_tx_buf EXCEPT ![SEQ_LOW] = byte]
          BY <1>6, <3>1, <5>1, Zenon
        <5>3. rf_uart_tx_buf'[SEQ_LOW] = byte
          BY <2>2, <5>2
        <5> QED
          BY <3>1, <5>1, <5>3, Zenon
      <4> QED
        BY <4>1, <4>2, <4>3, Zenon
    <3>2. CASE b.pos # SEQ_LOW
      <4>1. NumberDone(t)
        BY <1>3, <3>2 DEF NumberDone
      <4>2. rf_uart_tx_buf[SEQ_LOW] = global_seq_num % Byte
        BY <1>8, <4>1 DEF OwnNumber
      <4>3. rf_uart_tx_buf'[SEQ_LOW] = rf_uart_tx_buf[SEQ_LOW]
        BY <1>6, <2>2, <3>2
      <4> QED
        BY <4>2, <4>3, Zenon
    <3> QED
      BY <3>1, <3>2
  <2>4. pos = SEQ_LOW => pc # "head"
    BY <1>3, <1>5
  <2> QED
    BY <1>4, <1>5, <1>6, <2>1, <2>3, <2>4 DEF OwnNumber, NumberDone
<1> QED
  BY <1>2, <1>3, <1>4, <1>5, <1>7, <1>8, BusyNumberStep

\* The data, the sum and the check sum's byte leave the number alone.
LEMMA NumberData ==
  ASSUME MakingInv, NumberInv, NEW t \in Threads, set_rf_uart_byte(t)
  PROVE  NumberInv'
<1> DEFINE b == call[t]
           last == b.pos = Len(b.frame.data)
<1>1. PICK pc, pos, c : /\ pc = IF last THEN "load" ELSE "data"
                        /\ c = [b EXCEPT !.pc = pc, !.pos = pos]
                        /\ GoOn(t, c)
  <2>1. \E pc, pos : /\ pc = IF last THEN "load" ELSE "data"
                     /\ pos = IF last THEN 1 ELSE b.pos + 1
    OBVIOUS
  <2> QED
    BY <2>1, Zenon DEF set_rf_uart_byte
<1>2. b \in Record /\ b.pc = "data" /\ Busy(t)
  BY DEF set_rf_uart_byte, At, MakingInv, CallOK, Record, Busy
<1>3. c.pc = pc /\ c.manner = b.manner /\ pc \in {"load", "data"}
  BY <1>1, <1>2 DEF Record
<1>4. call'[t] = c /\ global_seq_num' = global_seq_num /\ previous' = previous
  BY <1>1 DEF GoOn, set_rf_uart_byte
<1>5. WrapDue'
  BY <1>1, <1>2, <1>4, WrapStillDue DEF NumberInv
<1>6. ASSUME c.manner = "alone", OwnNumber(t)
      PROVE  OwnNumber(t)'
  <2>1. previous \in {global_seq_num % Byte, None}
    BY <1>2, <1>6 DEF OwnNumber
  <2> QED
    BY <1>3, <1>4, <2>1 DEF OwnNumber, NumberDone
<1>7. c.pc # "idle"
  BY <1>3
<1> QED
  BY <1>1, <1>2, <1>3, <1>5, <1>6, <1>7, BusyNumberStep

LEMMA NumberSum ==
  ASSUME MakingInv, NumberInv, NEW t \in Threads, get_check_sum(t)
  PROVE  NumberInv'
<1> DEFINE b == call[t]
           last == b.pos = SumEnd(b)
<1>1. PICK pc, pos, sum, c : /\ pc = IF last THEN "check" ELSE "sum"
                             /\ c = [b EXCEPT !.pc = pc, !.pos = pos, !.sum = sum]
                             /\ GoOn(t, c)
  <2>1. \E pc, pos, sum : /\ pc = IF last THEN "check" ELSE "sum"
                          /\ pos = IF last THEN 1 ELSE b.pos + 1
                          /\ sum = Add(b.sum, rf_uart_tx_buf[b.pos])
    OBVIOUS
  <2> QED
    BY <2>1, Zenon DEF get_check_sum
<1>2. b \in Record /\ b.pc = "sum" /\ Busy(t)
  BY DEF get_check_sum, At, MakingInv, CallOK, Record, Busy
<1>3. c.pc = pc /\ c.manner = b.manner /\ pc \in {"check", "sum"}
  BY <1>1, <1>2 DEF Record
<1>4. /\ call'[t] = c /\ global_seq_num' = global_seq_num /\ previous' = previous
      /\ rf_uart_tx_buf' = rf_uart_tx_buf
  BY <1>1 DEF GoOn, get_check_sum
<1>5. WrapDue'
  BY <1>1, <1>2, <1>4, WrapStillDue DEF NumberInv
<1>6. ASSUME c.manner = "alone", OwnNumber(t)
      PROVE  OwnNumber(t)'
  <2>1. /\ previous # global_seq_num % Byte
        /\ rf_uart_tx_buf[SEQ_LOW] = global_seq_num % Byte
    BY <1>2, <1>6 DEF OwnNumber, NumberDone
  <2> QED
    BY <1>3, <1>4, <2>1 DEF OwnNumber, NumberDone
<1>7. c.pc # "idle"
  BY <1>3
<1> QED
  BY <1>1, <1>2, <1>3, <1>5, <1>6, <1>7, BusyNumberStep

LEMMA NumberCheck ==
  ASSUME MakingInv, NumberInv, NEW t \in Threads, SetCheckSum(t)
  PROVE  NumberInv'
<1> DEFINE b == call[t]
<1>1. PICK c : c = [b EXCEPT !.pc = "put", !.sum = 0] /\ GoOn(t, c)
  BY DEF SetCheckSum
<1>2. b \in Record /\ b.pc = "check" /\ Busy(t)
  BY DEF SetCheckSum, At, MakingInv, CallOK, Record, Busy
<1>3. c.pc = "put" /\ c.manner = b.manner
  BY <1>1, <1>2 DEF Record
<1>4. /\ call'[t] = c /\ global_seq_num' = global_seq_num /\ previous' = previous
      /\ rf_uart_tx_buf' = [rf_uart_tx_buf EXCEPT ![DATA_START + Len(b.frame.data)] = b.sum]
  BY <1>1 DEF GoOn, SetCheckSum
<1>5. WrapDue'
  BY <1>1, <1>2, <1>4, WrapStillDue DEF NumberInv
<1>6. ASSUME c.manner = "alone", OwnNumber(t)
      PROVE  OwnNumber(t)'
  <2>1. /\ previous # global_seq_num % Byte
        /\ rf_uart_tx_buf[SEQ_LOW] = global_seq_num % Byte
    BY <1>2, <1>6 DEF OwnNumber, NumberDone
  <2>2. rf_uart_tx_buf'[SEQ_LOW] = rf_uart_tx_buf[SEQ_LOW]
    <3>1. rf_uart_tx_buf \in [1 .. DATA_START + MaxData -> Bytes]
      BY DEF MakingInv
    <3>2. Len(b.frame.data) \in Nat
      <4>1. b.frame.data \in Seq(Bytes)
        BY <1>2 DEF Record
      <4> QED
        BY <4>1
    <3>3. DATA_START + Len(b.frame.data) # SEQ_LOW
      BY <3>2
    <3> QED
      BY <1>4, <3>1, <3>3
  <2> QED
    BY <1>3, <1>4, <2>1, <2>2 DEF OwnNumber, NumberDone
<1> QED
  BY <1>1, <1>2, <1>3, <1>5, <1>6, BusyNumberStep

\* A frame made alone is the one the next is compared with.
LEMMA NumberPut ==
  ASSUME MakingInv, NumberInv, NEW t \in Threads, rf_uart_write_data(t)
  PROVE  NumberInv'
<1>1. call[t] \in Record /\ call[t].pc = "put" /\ Busy(t)
  BY DEF rf_uart_write_data, At, MakingInv, CallOK, Record, Busy
<1>2. /\ GoOn(t, Idle) /\ call'[t] = Idle /\ global_seq_num' = global_seq_num
      /\ previous' = IF call[t].manner = "alone" THEN rf_uart_tx_buf[SEQ_LOW] ELSE None
  BY DEF GoOn, rf_uart_write_data
<1>3. WrapDue'
  BY <1>1, <1>2, WrapStillDue DEF NumberInv
<1>4. ~Busy(t)'
  BY <1>2 DEF Busy, Idle
<1>5. call[t].manner = "alone" => rf_uart_tx_buf[SEQ_LOW] = global_seq_num % Byte
  BY <1>1 DEF NumberInv, Alone, OwnNumber, NumberDone
<1>6. previous' \in {global_seq_num' % Byte, None}
  <2>1. CASE call[t].manner = "alone"
    BY <1>2, <1>5, <2>1, Zenon
  <2>2. CASE call[t].manner # "alone"
    BY <1>2, <2>2, Zenon
  <2> QED
    BY <2>1, <2>2
<1> QED
  BY <1>2, <1>3, <1>4, <1>6, OwnNumberStep DEF Alone

LEMMA NumberNext == MakingInv /\ NumberInv /\ [Next]_vars => NumberInv'
<1> SUFFICES ASSUME MakingInv, NumberInv, [Next]_vars
             PROVE  NumberInv'
  OBVIOUS
<1>1. ASSUME NEW t \in Threads, Start(t) \/ set_rf_uart_byte(t) \/ rf_uart_write_frame(t)
      PROVE  NumberInv'
  BY <1>1, NumberStart, NumberData, NumberLoad, NumberStore, NumberTest, NumberWrap,
     NumberRead, NumberHead, NumberSum, NumberCheck, NumberPut
     DEF rf_uart_write_frame, seq_num_get
<1>2. CASE UNCHANGED <<rf_uart_tx_buf, global_seq_num, call, previous>>
  BY <1>2 DEF NumberInv, WrapDue, Alone, OwnNumber, NumberDone, Others, Busy
<1> QED
  BY <1>1, <1>2 DEF Next, parking_message, vars

LEMMA NumberInit == Init => NumberInv
<1> SUFFICES ASSUME Init
             PROVE  NumberInv
  OBVIOUS
<1>1. \A t \in Threads : ~Busy(t)
  BY DEF Init, Busy, Idle
<1>2. global_seq_num = 0 /\ previous = None
  BY DEF Init
<1>3. WrapDue
  BY <1>2 DEF WrapDue
<1> QED
  BY <1>1, <1>2, <1>3 DEF NumberInv, Alone

-----------------------------------------------------------------------------
LEMMA LeastNatural ==
  ASSUME NEW T, T \subseteq Nat, T # {}
  PROVE  \E n \in T : \A m \in T : n <= m
<1> DEFINE R == {p \in Nat \X Nat : p[1] < p[2]}
<1>1. IsWellFoundedOn(R, Nat)
  BY NatLessThanWellFounded DEF OpToRel
<1>2. PICK n \in T : \A m \in T : ~ (<<m, n>> \in R)
  <2> HIDE DEF R
  <2> QED
    BY <1>1, WFMin, Zenon
<1>3. ASSUME NEW m \in T
      PROVE  n <= m
  <2>1. ~(m < n)
    BY <1>2, <1>3
  <2> QED
    BY <1>3, <2>1
<1> QED
  BY <1>3

\* The sums of a sequence of bytes, as SumOf works them out for the first n.
IsSums(s, b, n) == s = [k \in 0 .. n |-> IF k = 0 THEN 0 ELSE (s[k - 1] + b[k]) % Byte]

LEMMA SumsExist ==
  ASSUME NEW b
  PROVE  \A n \in Nat : \E s : IsSums(s, b, n)
<1> DEFINE T == {n \in Nat : ~\E s : IsSums(s, b, n)}
<1> SUFFICES ASSUME T # {}
             PROVE  FALSE
  OBVIOUS
<1>1. PICK n \in T : \A m \in T : n <= m
  <2> HIDE DEF T
  <2>1. T \subseteq Nat
    BY DEF T
  <2> QED
    BY <2>1, LeastNatural
<1>2. n # 0
  <2>1. IsSums([k \in 0 .. 0 |-> 0], b, 0)
    BY DEF IsSums
  <2> QED
    BY <2>1
<1>3. PICK s : IsSums(s, b, n - 1)
  BY <1>1, <1>2
<1>4. IsSums([k \in 0 .. n |-> IF k = n THEN (s[n - 1] + b[n]) % Byte ELSE s[k]], b, n)
  BY <1>2, <1>3 DEF IsSums
<1> QED
  BY <1>4

\* SumOf is one of them.
LEMMA SumOfIsSum ==
  ASSUME NEW b, NEW n \in Nat
  PROVE  \E s : IsSums(s, b, n) /\ SumOf(b, n) = s[n]
<1> DEFINE S == CHOOSE x : IsSums(x, b, n)
<1>1. IsSums(S, b, n)
  BY SumsExist, Zenon
<1>2. SumOf(b, n) = S[n]
  BY Zenon DEF SumOf, IsSums
<1> QED
  BY <1>1, <1>2

\* Two sums over the same bytes are the same.
LEMMA SumsAgree ==
  ASSUME NEW b, NEW d, NEW s, NEW r, NEW n \in Nat,
         IsSums(s, b, n), IsSums(r, d, n), \A k \in 1 .. n : b[k] = d[k]
  PROVE  s[n] = r[n]
<1> DEFINE T == {k \in Nat : k <= n /\ s[k] # r[k]}
<1> SUFFICES ASSUME T # {}
             PROVE  FALSE
  OBVIOUS
<1>1. PICK k \in T : \A j \in T : k <= j
  <2> HIDE DEF T
  <2>1. T \subseteq Nat
    BY DEF T
  <2> QED
    BY <2>1, LeastNatural
<1>2. k \in 0 .. n /\ s[k] # r[k]
  OBVIOUS
<1>3. k # 0
  BY <1>2 DEF IsSums
<1>4. s[k - 1] = r[k - 1] /\ b[k] = d[k]
  BY <1>1, <1>3
<1>5. s[k] = (s[k - 1] + b[k]) % Byte /\ r[k] = (r[k - 1] + d[k]) % Byte
  BY <1>2, <1>3 DEF IsSums
<1> QED
  BY <1>2, <1>4, <1>5

\* SumOf adds up: its value for no byte, and for one byte more.
LEMMA SumOfNone ==
  ASSUME NEW b
  PROVE  SumOf(b, 0) = 0
BY SumOfIsSum DEF IsSums

LEMMA SumOfNext ==
  ASSUME NEW b, NEW n \in Nat
  PROVE  SumOf(b, n + 1) = (SumOf(b, n) + b[n + 1]) % Byte
<1>1. PICK s : IsSums(s, b, n + 1) /\ SumOf(b, n + 1) = s[n + 1]
  BY SumOfIsSum, n + 1 \in Nat
<1>2. PICK r : IsSums(r, b, n) /\ SumOf(b, n) = r[n]
  BY SumOfIsSum
<1>3. PICK q : q = [k \in 0 .. n |-> s[k]]
  OBVIOUS
<1>4. IsSums(q, b, n) /\ q[n] = s[n]
  BY <1>1, <1>3 DEF IsSums
<1>5. q[n] = r[n]
  BY <1>2, <1>4, SumsAgree, SMTT(30)
<1>6. s[n + 1] = (s[n] + b[n + 1]) % Byte
  BY <1>1 DEF IsSums
<1> QED
  BY <1>1, <1>2, <1>4, <1>5, <1>6

\* It depends on no other byte.
LEMMA SumOfSame ==
  ASSUME NEW b, NEW d, NEW n \in Nat, \A k \in 1 .. n : b[k] = d[k]
  PROVE  SumOf(b, n) = SumOf(d, n)
<1>1. PICK s : IsSums(s, b, n) /\ SumOf(b, n) = s[n]
  BY SumOfIsSum
<1>2. PICK r : IsSums(r, d, n) /\ SumOf(d, n) = r[n]
  BY SumOfIsSum
<1>3. s[n] = r[n]
  BY <1>1, <1>2, SumsAgree, SMTT(30)
<1> QED
  BY <1>1, <1>2, <1>3

-----------------------------------------------------------------------------
\* An action of thread t keeps the check sums if it does so for t's own frame.
LEMMA OwnSumStep ==
  ASSUME MakingInv, SumInv, NEW t \in Threads, NEW c, GoOn(t, c), ValidUnlessCut',
         call'[t].manner # "cut" => Summed(t)'
  PROVE  SumInv'
<1>1. ASSUME NEW u \in Threads, u # t, call'[u].manner # "cut"
      PROVE  Summed(u)'
  <2>1. call[u] \in Record
    BY DEF MakingInv, CallOK, Record
  <2>2. ~Busy(u)
    <3>1. SUFFICES ASSUME Busy(u)
                   PROVE  FALSE
      OBVIOUS
    <3>2. call'[u] = [call[u] EXCEPT !.manner = "cut"]
      BY <1>1, <3>1 DEF GoOn
    <3> QED
      BY <1>1, <2>1, <3>2 DEF Record
  <2>3. call'[u] = call[u]
    BY <1>1, <2>2 DEF GoOn
  <2>4. Summed(u)
    BY <1>1, <2>3 DEF SumInv
  <2> QED
    BY <2>2, <2>3, <2>4 DEF Summed, Busy
<1> QED
  BY <1>1 DEF SumInv

\* Before the sum is begun.
LEMMA NoSumYet ==
  ASSUME MakingInv, SumInv, NEW t \in Threads, NEW c, GoOn(t, c),
         UNCHANGED queue_data_tx, call[t].pc \notin {"sum", "check", "put"},
         c.pc \notin {"sum", "check", "put"}, c.sum = call[t].sum,
         c.manner = call[t].manner
  PROVE  SumInv'
<1>1. call'[t] = c
  BY DEF GoOn
<1>2. ValidUnlessCut'
  BY DEF SumInv, ValidUnlessCut
<1>3. ASSUME c.manner # "cut"
      PROVE  Summed(t)'
  <2>1. call[t].sum = 0
    BY <1>3 DEF SumInv, Summed
  <2> QED
    BY <1>1, <2>1 DEF Summed
<1> QED
  BY <1>1, <1>2, <1>3, OwnSumStep

LEMMA SumStart ==
  ASSUME MakingInv, SumInv, NEW t \in Threads, Start(t)
  PROVE  SumInv'
<1> DEFINE Begun(f) == [Idle EXCEPT !.pc = IF f.data = <<>> THEN "load" ELSE "data",
                                   !.frame = f,
                                   !.manner = IF \E u \in Others(t) : Busy(u)
                                              THEN "nested" ELSE "alone"]
<1>0. PICK f \in Frames[t] : GoOn(t, Begun(f))
  BY DEF Start
<1>1. PICK c \in {Begun(f)} : c = Begun(f) /\ GoOn(t, c)
  BY <1>0
<1>2. c.pc \in {"load", "data"} /\ c.sum = 0
  BY <1>1 DEF Idle
<1>3. call'[t] = c /\ queue_data_tx' = queue_data_tx
  BY <1>1 DEF GoOn, Start
<1>4. ValidUnlessCut'
  BY <1>3 DEF SumInv, ValidUnlessCut
<1>5. Summed(t)'
  BY <1>2, <1>3 DEF Summed
<1> QED
  BY <1>1, <1>4, <1>5, OwnSumStep

LEMMA SumData ==
  ASSUME MakingInv, SumInv, NEW t \in Threads, set_rf_uart_byte(t)
  PROVE  SumInv'
<1> DEFINE b == call[t]
           last == b.pos = Len(b.frame.data)
<1>1. PICK pc, pos, c : /\ pc = IF last THEN "load" ELSE "data"
                        /\ c = [b EXCEPT !.pc = pc, !.pos = pos]
                        /\ GoOn(t, c)
  <2>1. \E pc, pos : /\ pc = IF last THEN "load" ELSE "data"
                     /\ pos = IF last THEN 1 ELSE b.pos + 1
    OBVIOUS
  <2> QED
    BY <2>1, Zenon DEF set_rf_uart_byte
<1>2. b \in Record /\ b.pc = "data" /\ UNCHANGED queue_data_tx
  BY DEF set_rf_uart_byte, At, MakingInv, CallOK, Record
<1>3. c.pc = pc /\ c.manner = b.manner /\ c.sum = b.sum /\ pc \in {"load", "data"}
  BY <1>1, <1>2 DEF Record
<1>4. c.pc \notin {"sum", "check", "put"}
  BY <1>3
<1> QED
  BY <1>1, <1>2, <1>3, <1>4, NoSumYet

LEMMA SumNumber ==
  ASSUME MakingInv, SumInv, NEW t \in Threads, seq_num_get(t)
  PROVE  SumInv'
<1>1. /\ call[t] \in Record /\ UNCHANGED queue_data_tx
      /\ call[t].pc \notin {"sum", "check", "put"}
  BY DEF seq_num_get, LoadNumber, StoreNumber, TestNumber, WrapNumber, ReadNumber, At,
         MakingInv, CallOK, Record
<1>2. CASE LoadNumber(t)
  <2>1. PICK c : c = [call[t] EXCEPT !.pc = "store", !.num = (global_seq_num + 1) % Short] /\ GoOn(t, c)
    BY <1>2 DEF LoadNumber
  <2>2. c.pc = "store" /\ c.manner = call[t].manner /\ c.sum = call[t].sum
    BY <1>1, <2>1 DEF Record
  <2> QED
    BY <1>1, <2>1, <2>2, NoSumYet
<1>3. CASE StoreNumber(t)
  <2>1. PICK c : c = [call[t] EXCEPT !.pc = "test", !.num = 0] /\ GoOn(t, c)
    BY <1>3 DEF StoreNumber
  <2>2. c.pc = "test" /\ c.manner = call[t].manner /\ c.sum = call[t].sum
    BY <1>1, <2>1 DEF Record
  <2> QED
    BY <1>1, <2>1, <2>2, NoSumYet
<1>4. CASE TestNumber(t)
  <2>1. PICK pc, c : /\ pc = IF global_seq_num > SeqTop THEN "wrap" ELSE "read"
                     /\ c = [call[t] EXCEPT !.pc = pc] /\ GoOn(t, c)
    <3>1. \E pc : pc = IF global_seq_num > SeqTop THEN "wrap" ELSE "read"
      OBVIOUS
    <3> QED
      BY <1>4, <3>1, Zenon DEF TestNumber
  <2>2. c.pc = pc /\ c.manner = call[t].manner /\ c.sum = call[t].sum
    BY <1>1, <2>1 DEF Record
  <2>3. c.pc \notin {"sum", "check", "put"}
    BY <2>1, <2>2
  <2> QED
    BY <1>1, <2>1, <2>2, <2>3, NoSumYet
<1>5. CASE WrapNumber(t)
  <2>1. PICK c : c = [call[t] EXCEPT !.pc = "read"] /\ GoOn(t, c)
    BY <1>5 DEF WrapNumber
  <2>2. c.pc = "read" /\ c.manner = call[t].manner /\ c.sum = call[t].sum
    BY <1>1, <2>1 DEF Record
  <2> QED
    BY <1>1, <2>1, <2>2, NoSumYet
<1>6. CASE ReadNumber(t)
  <2>1. PICK c : c = [call[t] EXCEPT !.pc = "head", !.num = global_seq_num] /\ GoOn(t, c)
    BY <1>6 DEF ReadNumber
  <2>2. c.pc = "head" /\ c.manner = call[t].manner /\ c.sum = call[t].sum
    BY <1>1, <2>1 DEF Record
  <2> QED
    BY <1>1, <2>1, <2>2, NoSumYet
<1> QED
  BY <1>2, <1>3, <1>4, <1>5, <1>6 DEF seq_num_get

\* With the last byte of the head the sum begins, at the first.
LEMMA SumHead ==
  ASSUME MakingInv, SumInv, NEW t \in Threads, SetHead(t)
  PROVE  SumInv'
<1> DEFINE b == call[t]
           last == b.pos = LENGTH_LOW
<1>1. PICK pc, pos, c : /\ pc = IF last THEN "sum" ELSE "head"
                        /\ pos = IF last THEN 1 ELSE b.pos + 1
                        /\ \E num : c = [b EXCEPT !.pc = pc, !.pos = pos, !.num = num]
                        /\ GoOn(t, c)
  <2>1. \E pc, pos, num : /\ pc = IF last THEN "sum" ELSE "head"
                          /\ pos = IF last THEN 1 ELSE b.pos + 1
                          /\ num = IF b.pos = SEQ_LOW THEN 0 ELSE b.num
    OBVIOUS
  <2> QED
    BY <2>1, Zenon DEF SetHead
<1>2. b \in Record /\ b.pc = "head"
  BY DEF SetHead, At, MakingInv, CallOK, Record
<1>3. c.pc = pc /\ c.pos = pos /\ c.manner = b.manner /\ c.sum = b.sum
  BY <1>1, <1>2 DEF Record
<1>4. call'[t] = c /\ queue_data_tx' = queue_data_tx
  BY <1>1 DEF GoOn, SetHead
<1>5. ValidUnlessCut'
  BY <1>4 DEF SumInv, ValidUnlessCut
<1>6. ASSUME c.manner # "cut"
      PROVE  Summed(t)'
  <2>1. c.sum = 0
    BY <1>2, <1>3, <1>6 DEF SumInv, Summed
  <2>2. CASE pc = "head"
    BY <1>3, <1>4, <2>1, <2>2 DEF Summed
  <2>3. CASE pc = "sum"
    <3>1. c.pos - 1 = 0
      BY <1>1, <1>3, <2>3
    <3>2. SumOf(rf_uart_tx_buf', 0) = 0
      BY SumOfNone
    <3> QED
      BY <1>3, <1>4, <2>1, <2>3, <3>1, <3>2 DEF Summed
  <2> QED
    BY <1>1, <2>2, <2>3
<1> QED
  BY <1>1, <1>4, <1>5, <1>6, OwnSumStep

LEMMA SumByte ==
  ASSUME MakingInv, SumInv, NEW t \in Threads, get_check_sum(t)
  PROVE  SumInv'
<1> DEFINE b == call[t]
           last == b.pos = SumEnd(b)
<1>1. PICK pc, pos, sum, c : /\ pc = IF last THEN "check" ELSE "sum"
                             /\ pos = IF last THEN 1 ELSE b.pos + 1
                             /\ sum = Add(b.sum, rf_uart_tx_buf[b.pos])
                             /\ c = [b EXCEPT !.pc = pc, !.pos = pos, !.sum = sum]
                             /\ GoOn(t, c)
  <2>1. \E pc, pos, sum : /\ pc = IF last THEN "check" ELSE "sum"
                          /\ pos = IF last THEN 1 ELSE b.pos + 1
                          /\ sum = Add(b.sum, rf_uart_tx_buf[b.pos])
    OBVIOUS
  <2> QED
    BY <2>1, Zenon DEF get_check_sum
<1>2. b \in Record /\ b.pc = "sum"
  BY DEF get_check_sum, At, MakingInv, CallOK, Record
<1>3. /\ c.pc = pc /\ c.pos = pos /\ c.manner = b.manner /\ c.sum = sum
      /\ c.frame = b.frame
  BY <1>1, <1>2 DEF Record
<1>4. /\ call'[t] = c /\ queue_data_tx' = queue_data_tx
      /\ rf_uart_tx_buf' = rf_uart_tx_buf
  BY <1>1 DEF GoOn, get_check_sum
<1>5. ValidUnlessCut'
  BY <1>4 DEF SumInv, ValidUnlessCut
<1>6. ASSUME c.manner # "cut"
      PROVE  Summed(t)'
  <2>1. b.sum = SumOf(rf_uart_tx_buf, b.pos - 1)
    BY <1>2, <1>3, <1>6 DEF SumInv, Summed
  <2>2. PICK n \in Nat : n = b.pos - 1 /\ n + 1 = b.pos
    <3>1. b.pos \in Nat \ {0}
      BY <1>2 DEF Record
    <3> QED
      BY <3>1
  <2>3. SumOf(rf_uart_tx_buf, n + 1) = (SumOf(rf_uart_tx_buf, n) + rf_uart_tx_buf[n + 1]) % Byte
    BY SumOfNext
  <2>4. sum = SumOf(rf_uart_tx_buf, b.pos)
    BY <1>1, <2>1, <2>2, <2>3, Zenon DEF Add
  <2>5. CASE last
    BY <1>1, <1>3, <1>4, <2>4, <2>5 DEF Summed, SumEnd
  <2>6. CASE ~last
    <3>1. c.pc = "sum" /\ c.pos - 1 = b.pos
      BY <1>1, <1>3, <2>2, <2>6
    <3> QED
      BY <1>3, <1>4, <2>4, <3>1 DEF Summed
  <2> QED
    BY <2>5, <2>6
<1> QED
  BY <1>1, <1>4, <1>5, <1>6, OwnSumStep

\* The length of a frame's data.
LEMMA LengthOfData ==
  ASSUME NEW s \in Seq(Bytes), Len(s) <= MaxData
  PROVE  Len(s) \in 0 .. MaxData
<1>1. Len(s) \in Nat /\ MaxData \in Nat
  BY LenProperties
<1> QED
  BY <1>1

LEMMA SumDone ==
  ASSUME MakingInv, SumInv, NEW t \in Threads, SetCheckSum(t)
  PROVE  SumInv'
<1> DEFINE b == call[t]
<1>1. PICK c : c = [b EXCEPT !.pc = "put", !.sum = 0] /\ GoOn(t, c)
  BY DEF SetCheckSum
<1>2. b \in Record /\ b.pc = "check" /\ Len(b.frame.data) <= MaxData
  BY DEF SetCheckSum, At, MakingInv, CallOK, Record
<1>3. c.pc = "put" /\ c.manner = b.manner /\ c.sum = 0 /\ c.frame = b.frame
  BY <1>1, <1>2 DEF Record
<1>4. /\ call'[t] = c /\ queue_data_tx' = queue_data_tx
      /\ rf_uart_tx_buf' = [rf_uart_tx_buf EXCEPT ![DATA_START + Len(b.frame.data)] = b.sum]
  BY <1>1 DEF GoOn, SetCheckSum
<1>5. ValidUnlessCut'
  BY <1>4 DEF SumInv, ValidUnlessCut
<1>6. ASSUME c.manner # "cut"
      PROVE  Summed(t)'
  <2>1. PICK n \in 0 .. MaxData : n = Len(b.frame.data)
    <3>1. b.frame.data \in Seq(Bytes)
      BY <1>2 DEF Record
    <3>2. Len(b.frame.data) \in 0 .. MaxData
      BY <1>2, <3>1, LengthOfData
    <3> QED
      BY <3>2
  <2>2. PICK e \in Nat : e = LENGTH_LOW + n /\ e = SumEnd(b) /\ e + 1 = DATA_START + n
    BY <2>1 DEF SumEnd
  <2>3. SumEnd(c) = e
    BY <1>3, <2>2 DEF SumEnd
  <2>4. b.sum = SumOf(rf_uart_tx_buf, e)
    BY <1>2, <1>3, <1>6, <2>2 DEF SumInv, Summed
  <2>5. rf_uart_tx_buf \in [1 .. DATA_START + MaxData -> Bytes]
    BY DEF MakingInv
  <2>6. /\ rf_uart_tx_buf'[e + 1] = b.sum
        /\ \A k \in 1 .. e : rf_uart_tx_buf'[k] = rf_uart_tx_buf[k]
    <3>1. rf_uart_tx_buf' = [rf_uart_tx_buf EXCEPT ![e + 1] = b.sum]
      BY <1>4, <2>1, <2>2
    <3>2. e + 1 \in 1 .. DATA_START + MaxData
      BY <2>1, <2>2
    <3> QED
      BY <2>5, <3>1, <3>2
  <2>7. SumOf(rf_uart_tx_buf', e) = SumOf(rf_uart_tx_buf, e)
    BY <2>6, SumOfSame
  <2> QED
    BY <1>3, <1>4, <2>3, <2>4, <2>6, <2>7 DEF Summed
<1> QED
  BY <1>1, <1>4, <1>5, <1>6, OwnSumStep

\* The frame that is queued says what its sum is.
LEMMA SumPut ==
  ASSUME MakingInv, QueueInv, SumInv, NEW t \in Threads, rf_uart_write_data(t)
  PROVE  SumInv'
<1> DEFINE b == ToSend(rf_uart_tx_buf)
<1>1. /\ call[t] \in Record /\ call[t].pc = "put" /\ Len(call[t].frame.data) <= MaxData
      /\ rf_uart_tx_buf \in [1 .. DATA_START + MaxData -> Bytes]
      /\ call[t].manner # "cut" => Made(t)
  BY DEF rf_uart_write_data, At, MakingInv, CallOK, Record
<1>2. ASSUME call[t].manner # "cut"
      PROVE  Valid(b)
  <2>1. PICK n \in 0 .. MaxData : n = Len(call[t].frame.data)
    <3>1. call[t].frame.data \in Seq(Bytes)
      BY <1>1 DEF Record
    <3>2. Len(call[t].frame.data) \in 0 .. MaxData
      BY <1>1, <3>1, LengthOfData
    <3> QED
      BY <3>2
  <2>2. rf_uart_tx_buf[LENGTH_LOW] = n
    BY <1>1, <1>2, <2>1 DEF Made, LengthDone
  <2>3. PICK e \in Nat : e = LENGTH_LOW + n /\ e + 1 = DATA_START + n /\ e = SumEnd(call[t])
    BY <2>1 DEF SumEnd
  <2>4. b = [i \in 1 .. e + 1 |-> rf_uart_tx_buf[i]]
    BY <2>2, <2>3, Zenon DEF ToSend
  <2>5. Len(b) = e + 1 /\ Len(b) - 1 = e
    <3> HIDE DEF b
    <3>1. DATA_START + n <= DATA_START + MaxData
      BY <2>1
    <3>2. \A k \in 1 .. e + 1 : rf_uart_tx_buf[k] \in Bytes
      BY <1>1, <2>3, <3>1
    <3>3. b \in [1 .. e + 1 -> Bytes]
      BY <2>4, <3>2
    <3>4. e + 1 \in Nat
      BY <2>3
    <3>5. b \in Seq(Bytes) /\ Len(b) = e + 1
      BY <3>3, <3>4
    <3> QED
      BY <2>3, <3>5
  <2>6. b[e + 1] = rf_uart_tx_buf[e + 1] /\ \A k \in 1 .. e : b[k] = rf_uart_tx_buf[k]
    <3> HIDE DEF b
    <3> QED
      BY <2>3, <2>4
  <2>7. SumOf(b, e) = SumOf(rf_uart_tx_buf, e)
    <3> HIDE DEF b
    <3> QED
      BY <2>6, SumOfSame
  <2>8. rf_uart_tx_buf[e + 1] = SumOf(rf_uart_tx_buf, e)
    BY <1>1, <1>2, <2>3 DEF SumInv, Summed
  <2> QED
    BY <2>5, <2>6, <2>7, <2>8, Zenon DEF Valid
<1>3. PICK entry : /\ entry = [bytes |-> b, meant |-> call[t].frame, manner |-> call[t].manner]
                   /\ entry.manner # "cut" => Valid(entry.bytes)
  <2> HIDE DEF b
  <2>1. PICK entry : entry = [bytes |-> b, meant |-> call[t].frame, manner |-> call[t].manner]
    OBVIOUS
  <2>2. entry.bytes = b /\ entry.manner = call[t].manner
    BY <2>1
  <2>3. entry.manner # "cut" => Valid(entry.bytes)
    BY <1>2, <2>2
  <2> QED
    BY <2>1, <2>3
<1>4. ValidUnlessCut
  BY DEF SumInv
<1>5. queue_data_tx \in Seq(Entries)
  BY DEF QueueInv
<1>6. ValidUnlessCut'
  <2>1. CASE Len(queue_data_tx) < QueueLen
    <3>1. queue_data_tx' = Append(queue_data_tx, entry)
      BY <1>3, <2>1 DEF rf_uart_write_data
    <3>2. ASSUME NEW i \in 1 .. Len(queue_data_tx'), queue_data_tx'[i].manner # "cut"
          PROVE  Valid(queue_data_tx'[i].bytes)
      <4>1. \/ i \in 1 .. Len(queue_data_tx) /\ queue_data_tx'[i] = queue_data_tx[i]
            \/ queue_data_tx'[i] = entry
        <5> HIDE DEF b
        <5> QED
          BY <1>5, <3>1
      <4> QED
        BY <1>3, <1>4, <3>2, <4>1, Zenon DEF ValidUnlessCut
    <3> QED
      BY <3>2 DEF ValidUnlessCut
  <2>2. CASE ~(Len(queue_data_tx) < QueueLen)
    <3>1. queue_data_tx' = queue_data_tx
      BY <2>2 DEF rf_uart_write_data
    <3> QED
      BY <1>4, <3>1 DEF ValidUnlessCut
  <2> QED
    BY <2>1, <2>2
<1>7. GoOn(t, Idle) /\ call'[t] = Idle
  BY DEF GoOn, rf_uart_write_data
<1>8. Summed(t)'
  BY <1>7 DEF Summed, Idle
<1> QED
  BY <1>6, <1>7, <1>8, OwnSumStep

LEMMA SumNext == MakingInv /\ QueueInv /\ SumInv /\ [Next]_vars => SumInv'
<1> SUFFICES ASSUME MakingInv, QueueInv, SumInv, [Next]_vars
             PROVE  SumInv'
  OBVIOUS
<1>1. ASSUME NEW t \in Threads, Start(t) \/ set_rf_uart_byte(t) \/ rf_uart_write_frame(t)
      PROVE  SumInv'
  BY <1>1, SumStart, SumData, SumNumber, SumHead, SumByte, SumDone, SumPut
     DEF rf_uart_write_frame
<1>2. CASE UNCHANGED vars
  BY <1>2 DEF vars, SumInv, Summed, SumEnd, ValidUnlessCut
<1>3. CASE parking_message
  <2>1. /\ queue_data_tx' = Tail(queue_data_tx) /\ queue_data_tx # <<>>
        /\ UNCHANGED <<call, rf_uart_tx_buf>>
    BY <1>3 DEF parking_message
  <2>2. ValidUnlessCut /\ queue_data_tx \in Seq(Entries)
    BY DEF SumInv, QueueInv
  <2>3. ASSUME NEW i \in 1 .. Len(queue_data_tx')
        PROVE  i + 1 \in 1 .. Len(queue_data_tx) /\ queue_data_tx'[i] = queue_data_tx[i + 1]
    BY <2>1, <2>2
  <2>4. ValidUnlessCut'
    BY <2>2, <2>3 DEF ValidUnlessCut
  <2> QED
    BY <2>1, <2>4 DEF SumInv, Summed, SumEnd
<1> QED
  BY <1>1, <1>2, <1>3 DEF Next

LEMMA SumInit == Init => SumInv
<1> SUFFICES ASSUME Init
             PROVE  SumInv
  OBVIOUS
<1>1. ValidUnlessCut
  BY DEF Init, ValidUnlessCut
<1>2. ASSUME NEW t \in Threads
      PROVE  Summed(t)
  BY DEF Init, Idle, Summed
<1> QED
  BY <1>1, <1>2 DEF SumInv

-----------------------------------------------------------------------------
\* Whatever the threads, their frames and the preemption: what a thread that was
\* not stopped has written of its frame stays in the buffer until it is queued, and
\* every entry of the queue is as long as its length byte says.
THEOREM FramesAreMade == Spec => []FrameInv
<1>1. Init => FrameInv
  BY MakingStart, QueueStart DEF FrameInv
<1>2. FrameInv /\ [Next]_vars => FrameInv'
  BY MakingStep, QueueStep DEF FrameInv
<1> QED
  BY <1>1, <1>2, PTL DEF Spec

LEMMA EntryOK ==
  ASSUME FrameInv, NEW i \in 1 .. Len(queue_data_tx)
  PROVE  queue_data_tx[i] \in Entries
BY ElementOfSeq DEF FrameInv, QueueInv

\* The buffer, the counter, the queue and the threads' calls keep their types.
THEOREM TypesOfTx == Spec => []TypeOK
<1>1. FrameInv => TypeOK
  <2> SUFFICES ASSUME FrameInv
               PROVE  TypeOK
    OBVIOUS
  <2>1. ASSUME NEW i \in 1 .. Len(queue_data_tx)
        PROVE  LET b == queue_data_tx[i].bytes
               IN DOMAIN b = 1 .. DATA_START + b[LENGTH_LOW]
                  /\ \A j \in DOMAIN b : b[j] \in Bytes
    <3>1. PICK e : e = queue_data_tx[i]
      OBVIOUS
    <3>2. e.bytes \in Wire /\ DOMAIN e.bytes = 1 .. DATA_START + e.bytes[LENGTH_LOW]
      BY <3>1, EntryOK DEF Entries
    <3>3. \A j \in DOMAIN e.bytes : e.bytes[j] \in Bytes
      BY <3>2 DEF Wire
    <3> QED
      BY <3>1, <3>2, <3>3
  <2>2. ASSUME NEW t \in Threads
        PROVE  call[t].sum \in Bytes /\ call[t].manner \in Manner
    BY DEF FrameInv, MakingInv, CallOK
  <2> QED
    BY <2>1, <2>2 DEF TypeOK, FrameInv, MakingInv, QueueInv
<1> QED
  BY <1>1, FramesAreMade, PTL

\* A frame whose maker was not stopped on the way is queued as it was meant, whatever
\* the other threads had left in the shared buffer.
THEOREM UncutFramesAreMeant == Spec => []MeantUnlessCut
<1>1. FrameInv => MeantUnlessCut
  BY EntryOK DEF MeantUnlessCut, Entries
<1> QED
  BY <1>1, FramesAreMade, PTL

\* The counter, the numbers read from it and the sums of the calls under way, in
\* every reachable state.
LEMMA NumbersAndSums == Spec => [](FrameInv /\ NumberInv /\ SumInv)
<1>1. Init => FrameInv /\ NumberInv /\ SumInv
  BY MakingStart, QueueStart, NumberInit, SumInit DEF FrameInv
<1>2. FrameInv /\ NumberInv /\ SumInv /\ [Next]_vars => (FrameInv /\ NumberInv /\ SumInv)'
  BY MakingStep, QueueStep, NumberNext, SumNext DEF FrameInv
<1> QED
  BY <1>1, <1>2, PTL DEF Spec

\* get_check_sum is right for every frame whose maker was not stopped, for data of
\* any length and whatever the shared buffer held before.
THEOREM SumsAreRight == Spec => []ValidUnlessCut
<1>1. SumInv => ValidUnlessCut
  BY DEF SumInv
<1> QED
  BY <1>1, NumbersAndSums, PTL

\* A frame no other thread met has another number than the frame before it, also where
\* seq_num_get starts again: the counter passes SeqTop only for a thread that is about
\* to start it again, and one step of it always changes the byte that is sent.
THEOREM NumbersAreNew == Spec => []NewNumber
<1>1. NumberInv => NewNumber
  <2> SUFFICES ASSUME NumberInv, NEW t \in Threads,
                      call[t].pc = "put", call[t].manner = "alone"
               PROVE  rf_uart_tx_buf[SEQ_LOW] # previous
    BY DEF NewNumber
  <2>1. OwnNumber(t)
    BY DEF NumberInv, Alone, Busy
  <2>2. previous # global_seq_num % Byte /\ rf_uart_tx_buf[SEQ_LOW] = global_seq_num % Byte
    BY <2>1, Zenon DEF OwnNumber, NumberDone
  <2> QED
    BY <2>2, Zenon
<1> QED
  BY <1>1, NumbersAndSums, PTL
=============================================================================
