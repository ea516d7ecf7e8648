---------------------------- MODULE RxRingProofs ----------------------------
(***************************************************************************)
(* Theorems about the receive ring, for every size of the array, every     *)
(* address of it, both ways of starting it up and every arrival pattern.   *)
(***************************************************************************)
EXTENDS RxRing, TLAPS, SequenceTheorems

\* Where the pointers start, and where the array ends.
LEMMA Bounds ==
  /\ Start \in Nat /\ Start <= Base
  /\ End \in Nat /\ End = Base + Size
  /\ Base \in Nat /\ Base >= 1
  /\ Size \in Nat /\ Size >= 2
  /\ MaxBytes \in Nat /\ MaxBacklog \in Nat
<1>1. CASE InitCalled
  BY <1>1, RxRingAssumption DEF Start, End
<1>2. CASE ~InitCalled
  BY <1>2, RxRingAssumption DEF Start, End
<1>3. QED
  BY <1>1, <1>2

\* The two distances between the pointers are numbers of bytes of the array.
LEMMA Distances == RingInv => /\ Unread \in Int /\ Unread \in 0 .. Size
                             /\ Ahead \in Int /\ Ahead \in 0 .. Size
<1> SUFFICES ASSUME RingInv
             PROVE  /\ Unread \in Int /\ Unread \in 0 .. Size
                    /\ Ahead \in Int /\ Ahead \in 0 .. Size
  OBVIOUS
<1> USE Bounds
<1>1. Unread \in Int /\ Unread \in 0 .. Size
  BY DEF RingInv, TypeOK, PointersInv, Linear, Wrapped, Unread
<1>2. QED
  BY <1>1 DEF Ahead

\* Before the first byte the ring satisfies the invariant.
LEMMA RingInit == Init => RingInv
<1> SUFFICES ASSUME Init PROVE RingInv
  OBVIOUS
<1> USE Bounds DEF Init
<1>1. TypeOK
  <2>1. mem \in [0 .. End - 1 -> 0 .. MaxBytes]
    OBVIOUS
  <2>2. uninit \in BOOLEAN
    OBVIOUS
  <2>3. QED
    BY <2>1, <2>2 DEF TypeOK
<1>2. NewestBehindIn
  BY DEF NewestBehindIn
<1>3. PointersInv
  BY DEF PointersInv, Linear, Unread, Committed
<1>4. OrderInv
  BY DEF OrderInv, Ahead, Unread, Committed
<1>5. QED
  BY <1>1, <1>2, <1>3, <1>4 DEF RingInv

\* A byte that does not fit changes nothing but the count of refused bytes.
LEMMA RefuseKeepsInv == RingInv /\ Refuse => RingInv'
<1> SUFFICES ASSUME RingInv, Refuse PROVE RingInv'
  OBVIOUS
<1> USE DEF Refuse
<1>1. TypeOK'
  BY Bounds DEF RingInv, TypeOK, ByteArrives
<1>2. NewestBehindIn'
  BY DEF RingInv, NewestBehindIn, Back, Linear
<1>3. PointersInv'
  BY DEF RingInv, PointersInv, Linear, Wrapped, Unread, Committed
<1>4. OrderInv'
  BY DEF RingInv, OrderInv, Ahead, Unread, Committed
<1>5. QED
  BY <1>1, <1>2, <1>3, <1>4 DEF RingInv

\* Storing a byte keeps the invariant, also when it laps the reader.
LEMMA StoreKeepsInv == RingInv /\ Store => RingInv'
<1> SUFFICES ASSUME RingInv, Store PROVE RingInv'
  OBVIOUS
<1> USE Bounds
<1>1. /\ TypeOK
      /\ NewestBehindIn
      /\ PointersInv
      /\ OrderInv
  BY DEF RingInv
<1>2. InSlot \in 0 .. End - 1
  BY <1>1 DEF TypeOK, InSlot
<1>3. TypeOK'
  BY <1>1, <1>2 DEF TypeOK, Store, ByteArrives, InSlot
<1>4. NewestBehindIn'
  <2> SUFFICES ASSUME NEW k \in 1 .. Size, k <= accepted'
               PROVE  mem'[Back(k)'] = accepted' - k + 1
    BY DEF NewestBehindIn
  <2>1. CASE k = 1
    <3>1. Back(k)' = InSlot
      BY <1>1, <2>1 DEF TypeOK, PointersInv, Wrapped, Store, InSlot, Back, Linear
    <3>2. QED
      BY <1>1, <1>2, <2>1, <3>1 DEF TypeOK, Store
  <2>2. CASE k > 1
    <3>1. k - 1 \in 1 .. Size /\ k - 1 <= accepted
      BY <1>1, <2>2 DEF TypeOK, Store
    <3>2. mem[Back(k - 1)] = accepted' - k + 1
      BY <1>1, <3>1 DEF NewestBehindIn, TypeOK, Store
    <3>3. Back(k)' = Back(k - 1)
      BY <1>1, <3>1, <2>2 DEF TypeOK, PointersInv, Wrapped, Store, InSlot, Back, Linear
    <3>4. Back(k - 1) # InSlot
      BY <1>1, <3>1, <2>2 DEF TypeOK, PointersInv, Wrapped, InSlot, Back, Linear
    <3>5. Back(k - 1) \in 0 .. End - 1
      BY <1>1, <3>1, <2>2 DEF TypeOK, PointersInv, Wrapped, Back, Linear
    <3>6. QED
      BY <1>1, <1>2, <3>2, <3>3, <3>4, <3>5 DEF TypeOK, Store
  <2>3. QED
    BY <2>1, <2>2
<1>5. PointersInv'
  BY <1>1 DEF TypeOK, PointersInv, Linear, Wrapped, Unread, Committed, Store, InSlot, QueueFull
<1>6. /\ Unread \in 0 .. Size /\ Unread' \in 0 .. Size
      /\ Unread \in Int /\ Unread' \in Int
      /\ Unread' = Unread + 1 \/ (Unread = Size - 1 /\ Unread' = 0)
  BY <1>1, <1>5 DEF TypeOK, PointersInv, Linear, Wrapped, Unread, Store, InSlot, QueueFull
<1>7. /\ accepted \in Int /\ accepted' \in Int
      /\ last \in Int /\ value \in Int
      /\ accepted' = accepted + 1
      /\ pc' = pc /\ last' = last /\ value' = value
      /\ queue_out' = queue_out
  BY <1>1 DEF TypeOK, Store
<1>8. OrderInv'
  <2>1. CASE pc = "load"
    <3>1. InSlot # queue_out - 1 \/ (InSlot = queue_out - 1 /\ Unread' = 0)
      BY <1>1, <2>1 DEF TypeOK, PointersInv, Linear, Wrapped, Unread, Store, InSlot, QueueFull
    <3>2. InSlot = queue_out - 1 => mem'[queue_out - 1] = accepted'
      BY <1>1, <1>2 DEF TypeOK, Store
    <3>3. InSlot # queue_out - 1 => Unread' = Unread + 1
      BY <1>1, <1>6, <2>1 DEF TypeOK, PointersInv, Linear, Wrapped, Unread, Store, InSlot, QueueFull
    <3>4. queue_out - 1 \in 0 .. End - 1
      BY <1>1, <2>1 DEF TypeOK, PointersInv
    <3>5. InSlot # queue_out - 1 => mem'[queue_out - 1] = mem[queue_out - 1]
      BY <1>1, <1>2, <3>4 DEF TypeOK, Store
    <3>6. mem[queue_out - 1] = accepted - Unread /\ last < accepted - Unread
      BY <1>1, <2>1 DEF OrderInv
    <3>7. mem'[queue_out - 1] = accepted' - Unread'
      BY <1>6, <1>7, <3>1, <3>2, <3>3, <3>5, <3>6
    <3>8. last < accepted' - Unread'
      <4>1. CASE Unread' = Unread + 1
        BY <1>6, <1>7, <3>6, <4>1
      <4>2. CASE Unread = Size - 1 /\ Unread' = 0
        BY <1>6, <1>7, <3>6, <4>2
      <4>3. QED
        BY <1>6, <4>1, <4>2
    <3>9. QED
      BY <1>7, <2>1, <3>7, <3>8 DEF OrderInv
  <2>2. CASE pc # "load"
    <3>1. Committed' = Committed
      BY <1>7 DEF Committed
    <3>2. Ahead \in Int /\ Ahead' \in Int
      BY <1>6 DEF Ahead
    <3>3. Ahead' <= Ahead + 1
      <4>1. CASE Committed /\ Unread = 0
        BY <1>6, <3>2, <4>1 DEF Ahead
      <4>2. CASE Committed /\ Unread # 0
        BY <1>6, <3>1, <3>2, <4>2 DEF Ahead
      <4>3. CASE ~Committed
        BY <1>6, <3>1, <4>3 DEF Ahead
      <4>4. QED
        BY <4>1, <4>2, <4>3
    <3>4. PICK m \in Int : m = Ahead
      BY <3>2
    <3>5. PICK n \in Int : n = Ahead'
      BY <3>2
    <3>6. n <= m + 1
      BY <3>3, <3>4, <3>5
    <3>7. /\ pc \notin {"advance", "load"} => last <= accepted - m
          /\ pc = "advance" => last < value /\ value <= accepted - m + 1
      BY <1>1, <3>4 DEF OrderInv
    <3>8. /\ pc \notin {"advance", "load"} => last <= accepted' - n
          /\ pc = "advance" => last < value /\ value <= accepted' - n + 1
      BY <1>7, <3>6, <3>7
    <3>9. QED
      BY <1>7, <2>2, <3>5, <3>8 DEF OrderInv
  <2>3. QED
    BY <2>1, <2>2
<1>9. QED
  BY <1>3, <1>4, <1>5, <1>8 DEF RingInv

\* The tests before the read only move the program counter, but from the second
\* one on the reader is committed: the ring was not empty then.
LEMMA TestsKeepInv ==
  RingInv /\ (with_data_rxbuff \/ TestNotEmpty \/ ReturnUninitialised) => RingInv'
<1> SUFFICES ASSUME RingInv, with_data_rxbuff \/ TestNotEmpty \/ ReturnUninitialised
             PROVE  RingInv'
  OBVIOUS
<1> USE Bounds DEF with_data_rxbuff, TestNotEmpty, ReturnUninitialised
<1>1. TypeOK'
  BY DEF RingInv, TypeOK
<1>2. NewestBehindIn'
  BY DEF RingInv, NewestBehindIn, Back, Linear
<1>3. /\ UNCHANGED <<queue_in, queue_out, accepted, mem, last>>
      /\ pc # "advance" /\ pc # "load" /\ pc' \in {"idle", "called", "wrap"}
      /\ ~Committed
      /\ pc' = "wrap" => queue_in # queue_out
  BY DEF Committed
<1>4. Unread' = Unread /\ (Committed' => Unread # 0)
  BY <1>3 DEF RingInv, TypeOK, PointersInv, Linear, Wrapped, Unread, Committed
<1>5. PointersInv'
  BY <1>3, <1>4 DEF RingInv, TypeOK, PointersInv, Linear, Wrapped
<1>6. Ahead' = Ahead
  BY <1>3, <1>4 DEF Ahead
<1>7. OrderInv'
  BY <1>3, <1>6 DEF RingInv, OrderInv
<1>8. QED
  BY <1>1, <1>2, <1>5, <1>7 DEF RingInv

\* Wrapping queue_out does not change how many bytes are ahead of the reader.
LEMMA WrapKeepsInv == RingInv /\ WrapOut => RingInv'
<1> SUFFICES ASSUME RingInv, WrapOut PROVE RingInv'
  OBVIOUS
<1> USE Bounds DEF WrapOut
<1>1. TypeOK'
  BY DEF RingInv, TypeOK
<1>2. NewestBehindIn'
  BY DEF RingInv, NewestBehindIn, Back, Linear
<1>3. Unread' = Unread
  BY DEF RingInv, TypeOK, PointersInv, Linear, Wrapped, Unread, Committed
<1>4. PointersInv'
  BY <1>3 DEF RingInv, TypeOK, PointersInv, Linear, Wrapped, Unread, Committed
<1>5. OrderInv'
  BY <1>3 DEF RingInv, TypeOK, OrderInv, Ahead, Committed
<1>6. QED
  BY <1>1, <1>2, <1>4, <1>5 DEF RingInv

\* A committed reader finds at queue_out the oldest byte ahead of it.
LEMMA OldestAtOut ==
  RingInv /\ pc = "read" => /\ queue_out \in 0 .. End - 1
                            /\ Ahead \in 1 .. Size
                            /\ mem[queue_out] = accepted - Ahead + 1
<1> SUFFICES ASSUME RingInv, pc = "read"
             PROVE  /\ queue_out \in 0 .. End - 1
                    /\ Ahead \in 1 .. Size
                    /\ mem[queue_out] = accepted - Ahead + 1
  OBVIOUS
<1> USE Bounds
<1>1. TypeOK /\ NewestBehindIn /\ PointersInv
  BY DEF RingInv
<1>2. queue_out \in 0 .. End - 1
  BY <1>1 DEF TypeOK, PointersInv
<1>3. Committed
  BY DEF Committed
<1>4. Unread \in 0 .. Size
  BY <1>1 DEF TypeOK, PointersInv, Linear, Wrapped, Unread
<1>5. Ahead \in 1 .. Size
  BY <1>3, <1>4 DEF Ahead
<1>6. Ahead <= accepted
  BY <1>1, <1>3 DEF TypeOK, PointersInv, Linear, Wrapped, Unread, Ahead
<1>7. Back(Ahead) = queue_out
  BY <1>1, <1>2, <1>3 DEF TypeOK, PointersInv, Linear, Wrapped, Unread, Ahead, Back
<1>8. mem[Back(Ahead)] = accepted - Ahead + 1
  BY <1>1, <1>5, <1>6 DEF NewestBehindIn
<1>9. QED
  BY <1>2, <1>5, <1>7, <1>8

\* Reading the byte first and storing the pointer afterwards keeps the invariant.
LEMMA LoadThenAdvanceKeepsInv == RingInv /\ LoadThenAdvance => RingInv'
<1> SUFFICES ASSUME RingInv, LoadThenAdvance PROVE RingInv'
  OBVIOUS
<1> USE Bounds
<1>1. CASE pc = "read"
  <2> USE <1>1 DEF LoadThenAdvance
  <2>1. TypeOK'
    BY OldestAtOut DEF RingInv, TypeOK
  <2>2. NewestBehindIn'
    BY DEF RingInv, NewestBehindIn, Back, Linear
  <2>3. PointersInv'
    BY DEF RingInv, TypeOK, PointersInv, Linear, Wrapped, Unread, Committed
  <2>4. Ahead' = Ahead
    BY DEF Ahead, Unread, Committed
  <2>5. OrderInv'
    BY <2>4, OldestAtOut DEF RingInv, TypeOK, OrderInv
  <2>6. QED
    BY <2>1, <2>2, <2>3, <2>5 DEF RingInv
<1>2. CASE pc = "advance"
  <2> USE <1>2 DEF LoadThenAdvance
  <2>1. TypeOK'
    BY DEF RingInv, TypeOK, PointersInv
  <2>2. NewestBehindIn'
    BY DEF RingInv, NewestBehindIn, Back, Linear
  <2>3. PointersInv'
    BY DEF RingInv, TypeOK, PointersInv, Linear, Wrapped, Unread, Committed
  <2>4. PICK n \in Int : n = Ahead
    BY Distances
  <2>5. Unread' = n - 1 /\ Ahead' = Unread'
    BY <2>4 DEF RingInv, TypeOK, PointersInv, Linear, Wrapped, Ahead, Unread, Committed
  <2>6. value <= accepted - n + 1
    BY <2>4 DEF RingInv, OrderInv
  <2>7. OrderInv'
    BY <2>5, <2>6 DEF RingInv, TypeOK, OrderInv
  <2>8. QED
    BY <2>1, <2>2, <2>3, <2>7 DEF RingInv
<1>3. QED
  BY <1>1, <1>2 DEF LoadThenAdvance

\* So does storing the pointer first.
LEMMA AdvanceThenLoadKeepsInv == RingInv /\ AdvanceThenLoad => RingInv'
<1> SUFFICES ASSUME RingInv, AdvanceThenLoad PROVE RingInv'
  OBVIOUS
<1> USE Bounds
<1>1. CASE pc = "read"
  <2> USE <1>1 DEF AdvanceThenLoad
  <2>1. TypeOK'
    BY DEF RingInv, TypeOK, PointersInv
  <2>2. NewestBehindIn'
    BY DEF RingInv, NewestBehindIn, Back, Linear
  <2>3. PointersInv'
    BY DEF RingInv, TypeOK, PointersInv, Linear, Wrapped, Unread, Committed
  <2>4. PICK n \in Int : n = Ahead
    BY Distances
  <2>5. Unread' = n - 1
    BY <2>4 DEF RingInv, TypeOK, PointersInv, Linear, Wrapped, Ahead, Unread, Committed
  <2>6. last <= accepted - n /\ mem[queue_out] = accepted - n + 1
    BY <2>4, OldestAtOut DEF RingInv, OrderInv
  <2>7. (queue_out - 1)' = queue_out
    BY DEF RingInv, TypeOK
  <2>8. OrderInv'
    BY <2>5, <2>6, <2>7 DEF RingInv, TypeOK, OrderInv
  <2>9. QED
    BY <2>1, <2>2, <2>3, <2>8 DEF RingInv
<1>2. CASE pc = "load"
  <2> USE <1>2 DEF AdvanceThenLoad
  <2>1. queue_out - 1 \in 0 .. End - 1
    BY DEF RingInv, TypeOK, PointersInv
  <2>2. TypeOK'
    BY <2>1 DEF RingInv, TypeOK
  <2>3. NewestBehindIn'
    BY DEF RingInv, NewestBehindIn, Back, Linear
  <2>4. PointersInv'
    BY DEF RingInv, TypeOK, PointersInv, Linear, Wrapped, Unread, Committed
  <2>5. Unread' = Unread /\ Ahead' = Unread
    BY DEF Ahead, Unread, Committed
  <2>6. PICK n \in Int : n = Unread
    BY Distances
  <2>7. mem[queue_out - 1] = accepted - n
    BY <2>6 DEF RingInv, OrderInv
  <2>8. OrderInv'
    BY <2>5, <2>6, <2>7 DEF RingInv, TypeOK, OrderInv
  <2>9. QED
    BY <2>2, <2>3, <2>4, <2>8 DEF RingInv
<1>3. QED
  BY <1>1, <1>2 DEF AdvanceThenLoad

-----------------------------------------------------------------------------
\* Wherever the interrupt preempts the reader, and whether or not the reader
\* keeps up, queue_in, queue_out and the buffer satisfy RingInv: the newest bytes
\* lie behind queue_in in order, and what was handed out is older than they are.
THEOREM RingInvariant == Spec => []RingInv
<1>1. RingInv /\ [Next]_vars => RingInv'
  <2> SUFFICES ASSUME RingInv, [Next]_vars PROVE RingInv'
    OBVIOUS
  <2>1. CASE Refuse
    BY <2>1, RefuseKeepsInv
  <2>2. CASE Store
    BY <2>2, StoreKeepsInv
  <2>3. CASE with_data_rxbuff \/ TestNotEmpty \/ ReturnUninitialised
    BY <2>3, TestsKeepInv
  <2>4. CASE WrapOut
    BY <2>4, WrapKeepsInv
  <2>5. CASE LoadThenAdvance
    BY <2>5, LoadThenAdvanceKeepsInv
  <2>6. CASE AdvanceThenLoad
    BY <2>6, AdvanceThenLoadKeepsInv
  <2>7. CASE UNCHANGED vars
    BY <2>7 DEF vars, RingInv, TypeOK, NewestBehindIn, Back, PointersInv, OrderInv,
                Linear, Wrapped, Unread, Ahead, Committed
  <2>8. QED
    BY <2>1, <2>2, <2>3, <2>4, <2>5, <2>6, <2>7
    DEF Next, uart_receive_input, Reader, Queue_Read_Byte
<1>2. QED
  BY <1>1, RingInit, PTL DEF Spec

-----------------------------------------------------------------------------
\* No byte reaches the parser twice or behind a newer one, however far
\* Queue_Read_Byte lags behind uart_receive_input.
THEOREM RingNoReplay == Spec => NoReplay
<1>1. RingInv /\ [Next]_vars => [last' # last => last' > last]_vars
  <2> SUFFICES ASSUME RingInv, Next, last' # last PROVE last' > last
    BY DEF vars
  <2> USE Bounds
  <2>1. CASE pc = "advance" /\ LoadThenAdvance
    BY <2>1 DEF LoadThenAdvance, RingInv, OrderInv, TypeOK
  <2>2. CASE pc = "load" /\ AdvanceThenLoad
    <3>1. PICK n \in Int : n = Unread
      BY Distances
    <3>2. last < accepted - n /\ last' = accepted - n
      BY <2>2, <3>1 DEF AdvanceThenLoad, RingInv, OrderInv
    <3>3. QED
      BY <3>2 DEF RingInv, TypeOK
  <2>3. QED
    BY <2>1, <2>2 DEF Next, uart_receive_input, Refuse, Store, Reader, with_data_rxbuff,
       Queue_Read_Byte, TestNotEmpty, ReturnUninitialised, WrapOut,
       LoadThenAdvance, AdvanceThenLoad
<1>2. QED
  BY <1>1, RingInvariant, PTL DEF Spec, NoReplay

-----------------------------------------------------------------------------
\* A byte that arrives while the reader keeps up is stored, behind the others.
LEMMA PromptStore ==
  ASSUME MaxBacklog <= Size - 2, RingInv, PromptInv, uart_receive_input
  PROVE  PromptInv'
<1> USE Bounds
<1>1. Unread <= Size - 2 /\ Unread \in Int
  BY Distances DEF uart_receive_input, Refuse, Store, ByteArrives
<1>2. ~QueueFull
  BY <1>1 DEF RingInv, TypeOK, QueueFull, Unread
<1>3. Store
  BY <1>2 DEF uart_receive_input, Refuse
<1>4. Unread' = Unread + 1
  BY <1>1, <1>3 DEF RingInv, TypeOK, PointersInv, Linear, Wrapped, QueueFull, Unread, Store, InSlot
<1>5. PICK n \in Int : n = Unread /\ n <= Size - 2
  BY <1>1
<1>6. Unread' = n + 1
  BY <1>4, <1>5
<1>7. /\ refused = 0 /\ ~uninit
      /\ accepted = last + InHand + n
      /\ pc = "called" \/ Committed => n >= 1
      /\ pc = "advance" => value = last + 1
  BY <1>5 DEF PromptInv, NothingLost
<1>8. /\ accepted' = accepted + 1
      /\ UNCHANGED <<refused, uninit, last, pc, value, InHand>>
      /\ Committed' = Committed
  BY <1>3 DEF Store, Committed, InHand
<1>9. accepted' = last' + InHand' + Unread'
  BY <1>6, <1>7, <1>8 DEF RingInv, TypeOK, InHand
<1>10. QED
  BY <1>5, <1>6, <1>7, <1>8, <1>9 DEF PromptInv, NothingLost

\* Until it takes a byte the reader changes nothing that PromptInv is about.
LEMMA PromptTests ==
  ASSUME RingInv, PromptInv,
         with_data_rxbuff \/ TestNotEmpty \/ ReturnUninitialised \/ WrapOut
  PROVE  PromptInv' /\ last' = last
<1> USE Bounds
<1>1. ~ReturnUninitialised
  BY DEF ReturnUninitialised, PromptInv, RingInv, TypeOK, Unread
<1>2. /\ UNCHANGED <<accepted, refused, uninit, last, value>>
      /\ pc \notin {"load", "advance"} /\ pc' \in {"called", "wrap", "read"}
  BY <1>1 DEF with_data_rxbuff, TestNotEmpty, WrapOut
<1>3. Unread' = Unread /\ Unread >= 1
  <2>1. CASE with_data_rxbuff \/ TestNotEmpty
    <3>1. UNCHANGED <<queue_in, queue_out>> /\ queue_in # queue_out
      BY <2>1 DEF with_data_rxbuff, TestNotEmpty
    <3>2. QED
      BY <3>1 DEF RingInv, TypeOK, PointersInv, Linear, Wrapped, Unread
  <2>2. CASE WrapOut
    <3>1. Unread >= 1
      BY <2>2 DEF WrapOut, PromptInv, Committed
    <3>2. Unread' = Unread
      BY <2>2, <3>1 DEF WrapOut, RingInv, TypeOK, PointersInv, Linear, Wrapped, Unread
    <3>3. QED
      BY <3>1, <3>2
  <2>3. QED
    BY <1>1, <2>1, <2>2
<1>4. InHand = 0 /\ InHand' = 0
  BY <1>2 DEF InHand
<1>5. QED
  BY <1>2, <1>3, <1>4 DEF PromptInv, NothingLost

\* Taking the byte at queue_out hands over the successor of the last one.
LEMMA PromptTake ==
  ASSUME RingInv, PromptInv, LoadThenAdvance \/ AdvanceThenLoad
  PROVE  PromptInv' /\ (last' = last \/ last' = last + 1)
<1> USE Bounds
<1>1. PICK n \in Int : n = Unread
  BY Distances
<1>2. /\ refused = 0 /\ ~uninit
      /\ accepted = last + InHand + n
      /\ n <= Size - 1
      /\ pc \in {"read", "advance"} => n >= 1
      /\ pc = "advance" => value = last + 1
  BY <1>1 DEF PromptInv, NothingLost, Committed
<1>3. pc = "read" => mem[queue_out] = accepted - n + 1
  BY <1>1, <1>2, OldestAtOut DEF Ahead
<1>4. pc = "load" => mem[queue_out - 1] = accepted - n
  BY <1>1 DEF RingInv, OrderInv
<1>5. accepted \in Int /\ last \in Int /\ value \in Int
  BY DEF RingInv, TypeOK
<1>6. CASE pc = "read" /\ LoadThenAdvance
  <2>1. /\ Unread' = n /\ InHand = 0 /\ InHand' = 0 /\ value' = accepted - n + 1
        /\ pc' = "advance" /\ UNCHANGED <<accepted, refused, uninit, last>>
    BY <1>1, <1>3, <1>6 DEF LoadThenAdvance, Unread, InHand
  <2>2. accepted = last + n /\ n >= 1
    BY <1>2, <1>5, <1>6, <2>1
  <2>3. value' = last + 1
    BY <1>5, <2>1, <2>2
  <2>4. NothingLost'
    BY <1>2, <1>5, <2>1, <2>2 DEF NothingLost
  <2>5. QED
    BY <1>2, <2>1, <2>2, <2>3, <2>4 DEF PromptInv
<1>7. CASE pc = "advance" /\ LoadThenAdvance
  <2>1. Unread' = n - 1
    BY <1>1, <1>2, <1>7 DEF LoadThenAdvance, RingInv, TypeOK, PointersInv, Linear, Wrapped, Unread
  <2>2. /\ InHand = 0 /\ InHand' = 0 /\ last' = last + 1 /\ ~Committed'
        /\ pc' = "idle" /\ UNCHANGED <<accepted, refused, uninit>>
    BY <1>2, <1>7 DEF LoadThenAdvance, InHand, Committed
  <2>3. QED
    BY <1>2, <1>5, <2>1, <2>2 DEF PromptInv, NothingLost
<1>8. CASE pc = "read" /\ AdvanceThenLoad
  <2>1. Unread' = n - 1
    BY <1>1, <1>2, <1>8 DEF AdvanceThenLoad, RingInv, TypeOK, PointersInv, Linear, Wrapped, Unread
  <2>2. /\ InHand = 0 /\ InHand' = 1 /\ ~Committed'
        /\ pc' = "load" /\ UNCHANGED <<accepted, refused, uninit, last>>
    BY <1>8 DEF AdvanceThenLoad, InHand, Committed
  <2>3. QED
    BY <1>2, <1>5, <2>1, <2>2 DEF PromptInv, NothingLost
<1>9. CASE pc = "load" /\ AdvanceThenLoad
  <2>1. /\ Unread' = n /\ InHand = 1 /\ InHand' = 0 /\ last' = accepted - n /\ ~Committed'
        /\ pc' = "idle" /\ UNCHANGED <<accepted, refused, uninit>>
    BY <1>1, <1>4, <1>9 DEF AdvanceThenLoad, Unread, InHand, Committed
  <2>2. last' = last + 1
    BY <1>2, <1>5, <2>1
  <2>3. QED
    BY <1>2, <1>5, <2>1, <2>2 DEF PromptInv, NothingLost
<1>10. QED
  BY <1>6, <1>7, <1>8, <1>9 DEF LoadThenAdvance, AdvanceThenLoad

\* What a reader that keeps up preserves.
LEMMA PromptInvariant == MaxBacklog <= Size - 2 => (Spec => []PromptInv)
<1> SUFFICES ASSUME MaxBacklog <= Size - 2 PROVE Spec => []PromptInv
  OBVIOUS
<1>1. Init => PromptInv
  BY Bounds DEF Init, PromptInv, NothingLost, InHand, Unread, Committed
<1>2. RingInv /\ PromptInv /\ [Next]_vars => PromptInv'
  <2> SUFFICES ASSUME RingInv, PromptInv, [Next]_vars PROVE PromptInv'
    OBVIOUS
  <2>1. CASE UNCHANGED vars
    BY <2>1 DEF vars, PromptInv, NothingLost, InHand, Unread, Committed
  <2>2. QED
    BY <2>1, PromptStore, PromptTests, PromptTake DEF Next, Reader, Queue_Read_Byte
<1>3. QED
  BY <1>1, <1>2, RingInvariant, PTL DEF Spec

\* While at most Size - 2 bytes wait when a byte arrives, uart_receive_input
\* refuses nothing and Queue_Read_Byte loses nothing.
THEOREM RingNothingLost == MaxBacklog <= Size - 2 => (Spec => []NothingLost)
<1>1. PromptInv => NothingLost
  BY DEF PromptInv
<1>2. QED
  BY <1>1, PromptInvariant, PTL

\* Under the same condition the parser gets the bytes one by one as they came.
THEOREM RingNextInLine == MaxBacklog <= Size - 2 => (Spec => NextInLine)
<1> SUFFICES ASSUME MaxBacklog <= Size - 2 PROVE Spec => NextInLine
  OBVIOUS
<1>1. RingInv /\ PromptInv /\ [Next]_vars => [last' # last => last' = last + 1]_vars
  <2> SUFFICES ASSUME RingInv, PromptInv, Next, last' # last PROVE last' = last + 1
    BY DEF vars
  <2>1. ~uart_receive_input
    BY DEF uart_receive_input, Refuse, Store
  <2>2. QED
    BY <2>1, PromptTests, PromptTake DEF Next, Reader, Queue_Read_Byte
<1>2. QED
  BY <1>1, RingInvariant, PromptInvariant, PTL DEF Spec, NextInLine

-----------------------------------------------------------------------------
(***************************************************************************)
(* The refinement.  The queue of ByteQueue holds consecutive numbers.      *)
(***************************************************************************)
From(l, a) == [k \in 1 .. a - l |-> l + k]

LEMMA FromIsSeq ==
  ASSUME NEW l \in Nat, NEW a \in Nat, l <= a
  PROVE  /\ From(l, a) \in Seq(Nat) /\ Len(From(l, a)) = a - l
         /\ \A k \in 1 .. a - l : From(l, a)[k] = l + k
<1>1. PICK n \in Nat : n = a - l
  OBVIOUS
<1>2. [k \in 1 .. n |-> l + k] \in Seq(Nat) /\ Len([k \in 1 .. n |-> l + k]) = n
  OBVIOUS
<1> QED
  BY <1>1, <1>2 DEF From

LEMMA FromEmpty == ASSUME NEW l \in Nat PROVE From(l, l) = <<>>
<1>1. From(l, l) \in Seq(Nat) /\ Len(From(l, l)) = 0
  BY FromIsSeq
<1> QED
  BY <1>1, EmptySeq

LEMMA FromAppend ==
  ASSUME NEW l \in Nat, NEW a \in Nat, l <= a
  PROVE  From(l, a + 1) = Append(From(l, a), a + 1)
<1>1. PICK n \in Nat : n = a - l /\ (a + 1) - l = n + 1 /\ l <= a + 1
  OBVIOUS
<1> DEFINE s == From(l, a)  t == From(l, a + 1)
<1>2. s \in Seq(Nat) /\ Len(s) = n /\ \A k \in 1 .. n : s[k] = l + k
  BY <1>1, FromIsSeq
<1>3. t \in Seq(Nat) /\ Len(t) = n + 1 /\ \A k \in 1 .. n + 1 : t[k] = l + k
  BY <1>1, FromIsSeq
<1> HIDE DEF s, t
<1>4. /\ Append(s, a + 1) \in Seq(Nat) /\ Len(Append(s, a + 1)) = n + 1
      /\ \A k \in 1 .. n : Append(s, a + 1)[k] = s[k]
      /\ Append(s, a + 1)[n + 1] = a + 1
  BY <1>2, AppendProperties
<1>5. \A k \in 1 .. n + 1 : t[k] = Append(s, a + 1)[k]
  BY <1>1, <1>2, <1>3, <1>4
<1>6. t = Append(s, a + 1)
  BY <1>3, <1>4, <1>5, SeqEqual
<1> QED
  BY <1>6 DEF s, t

LEMMA FromTake ==
  ASSUME NEW l \in Nat, NEW a \in Nat, l < a
  PROVE  /\ From(l, a) # <<>> /\ Head(From(l, a)) = l + 1
         /\ Tail(From(l, a)) = From(l + 1, a)
<1>1. PICK n \in Nat : n = a - (l + 1) /\ a - l = n + 1
  OBVIOUS
<1> DEFINE s == From(l, a)  t == From(l + 1, a)
<1>2. s \in Seq(Nat) /\ Len(s) = n + 1 /\ \A k \in 1 .. n + 1 : s[k] = l + k
  BY <1>1, FromIsSeq
<1>3. t \in Seq(Nat) /\ Len(t) = n /\ \A k \in 1 .. n : t[k] = l + 1 + k
  BY <1>1, FromIsSeq
<1> HIDE DEF s, t
<1>4. s # <<>> /\ Head(s) = l + 1
  BY <1>2
<1>5. Tail(s) \in Seq(Nat) /\ Len(Tail(s)) = n /\ \A k \in 1 .. n : Tail(s)[k] = s[k + 1]
  BY <1>2, <1>4, HeadTailProperties
<1>6. \A k \in 1 .. n : Tail(s)[k] = t[k]
  BY <1>2, <1>3, <1>5
<1>7. Tail(s) = t
  BY <1>3, <1>5, <1>6, SeqEqual
<1> QED
  BY <1>4, <1>7 DEF s, t

\* The bytes ahead of a reader that keeps up are in memory, in order.
WaitingOK == /\ Waiting = From(last, accepted)
             /\ last \in Nat /\ accepted \in Nat /\ last <= accepted
             /\ accepted = last + InHand + Unread

LEMMA WaitingBytes == RingInv /\ PromptInv => WaitingOK
<1> SUFFICES ASSUME RingInv, PromptInv PROVE WaitingOK
  OBVIOUS
<1> USE Bounds
<1>1. PICK n \in Nat : n = Unread /\ n <= Size - 1
  BY Distances DEF PromptInv
<1>2. PICK h \in {0, 1} : h = InHand
  BY DEF InHand
<1>3. last \in Nat /\ accepted \in Nat /\ accepted = last + h + n
  BY <1>1, <1>2 DEF PromptInv, NothingLost, RingInv, TypeOK
<1>4. /\ queue_in \in Nat /\ queue_out \in Nat /\ queue_in <= End /\ queue_out <= End
      /\ queue_in \in Start .. End
  BY DEF RingInv, TypeOK
<1>5. ASSUME NEW k \in 1 .. n + h PROVE mem[OutSlot(k)] = last + k
  <2>1. CASE h = 1 /\ k = 1
    <3>1. pc = "load"
      BY <1>2, <2>1 DEF InHand
    <3>2. mem[queue_out - 1] = accepted - Unread
      BY <3>1 DEF RingInv, OrderInv
    <3>3. OutSlot(k) = queue_out - 1
      BY <1>2, <1>4, <2>1 DEF OutSlot
    <3>4. mem[OutSlot(k)] = accepted - n
      BY <1>1, <3>2, <3>3
    <3> QED
      BY <1>3, <2>1, <3>4
  <2>2. CASE h = 0 \/ k > 1
    <3>1. PICK j \in 1 .. Size : j = n + h - k + 1
      BY <1>1
    <3>2. mem[Back(j)] = accepted - j + 1
      BY <1>3, <3>1 DEF RingInv, NewestBehindIn
    <3>3. OutSlot(k) = LET a == queue_out - h + k - 1 IN IF a >= End THEN a - Size ELSE a
      BY <1>2 DEF OutSlot
    <3>4. CASE queue_in >= queue_out
      <4>1. n = queue_in - queue_out
        BY <1>1, <1>4, <3>4 DEF Unread
      <4>2. queue_in - j = queue_out - h + k - 1 /\ queue_in - j < End
        BY <1>4, <3>1, <4>1
      <4>3. Linear \/ queue_in - j >= Base
        BY <1>4, <2>2, <4>2 DEF RingInv, PointersInv
      <4>4. Back(j) = queue_in - j
        BY <4>3 DEF Back
      <4>5. OutSlot(k) = queue_in - j
        BY <1>4, <3>3, <4>2
      <4> QED
        BY <1>3, <3>1, <3>2, <4>4, <4>5
    <3>5. CASE queue_in < queue_out
      <4>1. n = queue_in - queue_out + Size
        BY <1>1, <1>4, <3>5 DEF Unread
      <4>2. ~Linear
        BY <1>4, <3>5 DEF RingInv, PointersInv
      <4>3. queue_in - j = queue_out - h + k - 1 - Size
        BY <1>4, <3>1, <4>1
      <4>4. Back(j) = IF queue_in - j >= Base THEN queue_in - j ELSE queue_in - j + Size
        BY <4>2 DEF Back
      <4>5. OutSlot(k) = Back(j)
        BY <1>4, <3>3, <4>3, <4>4
      <4> QED
        BY <1>3, <3>1, <3>2, <4>5
    <3> QED
      BY <1>4, <3>4, <3>5
  <2> QED
    BY <1>2, <2>1, <2>2
<1>6. accepted - last = n + h
  BY <1>3
<1>7. Waiting = From(last, accepted)
  BY <1>1, <1>2, <1>5, <1>6 DEF Waiting, From
<1> QED
  BY <1>1, <1>2, <1>3, <1>7 DEF WaitingOK

\* While at most Size - 2 bytes wait when a byte arrives, the ring and its reader
\* implement the queue of bytes: every step stores the newest, takes the oldest or
\* is no step of the queue.
THEOREM RingIsQueue == MaxBacklog <= Size - 2 => (Spec => Queue!Spec)
<1> SUFFICES ASSUME MaxBacklog <= Size - 2 PROVE Spec => Queue!Spec
  OBVIOUS
<1> USE Bounds
<1>1. Init => Queue!Init
  <2> SUFFICES ASSUME Init PROVE Queue!Init
    OBVIOUS
  <2>1. accepted = 0 /\ last = 0 /\ Unread = 0 /\ InHand = 0
    BY DEF Init, Unread, InHand
  <2>2. Waiting = From(0, 0)
    BY <2>1 DEF Waiting, From
  <2> QED
    BY <2>1, <2>2, FromEmpty DEF Queue!Init
<1>2. RingInv /\ PromptInv /\ WaitingOK /\ WaitingOK' /\ [Next]_vars
        => [Queue!Next]_Queue!vars
  <2> SUFFICES ASSUME RingInv, PromptInv, WaitingOK, WaitingOK', [Next]_vars
               PROVE  [Queue!Next]_Queue!vars
    OBVIOUS
  <2>1. PICK l \in Nat, a \in Nat :
          l = last /\ a = accepted /\ l <= a /\ Waiting = From(l, a)
    BY DEF WaitingOK
  <2>2. Waiting' = From(last', accepted')
    BY DEF WaitingOK
  <2>3. CASE uart_receive_input
    <3>1. a - l < Size
      <4>1. Unread <= Size - 2 /\ Unread \in Int
        BY <2>3, Distances DEF uart_receive_input, Refuse, Store, ByteArrives
      <4>2. a = l + InHand + Unread
        BY <2>1 DEF WaitingOK
      <4>3. InHand \in {0, 1}
        BY DEF InHand
      <4> QED
        BY <4>1, <4>2, <4>3
    <3>2. Store
      <4>1. Unread <= Size - 2
        BY <2>3, Distances DEF uart_receive_input, Refuse, Store, ByteArrives
      <4>2. ~QueueFull
        BY <4>1 DEF RingInv, TypeOK, QueueFull, Unread
      <4> QED
        BY <2>3, <4>2 DEF uart_receive_input, Refuse
    <3>3. accepted' = a + 1 /\ last' = l
      BY <2>1, <3>2 DEF Store
    <3>4. Waiting' = Append(Waiting, a + 1)
      BY <2>1, <2>2, <3>3, FromAppend
    <3>5. Len(Waiting) = a - l
      BY <2>1, FromIsSeq
    <3> QED
      BY <2>1, <3>1, <3>3, <3>4, <3>5 DEF Queue!Next, Queue!Arrive
  <2>4. CASE Reader \/ UNCHANGED vars
    <3>1. accepted' = a
      BY <2>1, <2>4 DEF vars, Reader, with_data_rxbuff, Queue_Read_Byte, TestNotEmpty,
        ReturnUninitialised, WrapOut, LoadThenAdvance, AdvanceThenLoad
    <3>2. last' = l \/ last' = l + 1
      BY <2>1, <2>4, PromptTests, PromptTake DEF vars, Reader, Queue_Read_Byte
    <3>3. CASE last' = l
      BY <2>1, <2>2, <3>1, <3>3 DEF Queue!vars
    <3>4. CASE last' = l + 1
      <4>1. last' <= accepted'
        BY DEF WaitingOK
      <4>2. l < a
        BY <3>1, <3>4, <4>1
      <4>3. Waiting # <<>> /\ Head(Waiting) = l + 1 /\ Tail(Waiting) = Waiting'
        BY <2>1, <2>2, <3>1, <3>4, <4>2, FromTake
      <4> QED
        BY <2>1, <3>1, <3>4, <4>3 DEF Queue!Next, Queue!Take
    <3> QED
      BY <3>2, <3>3, <3>4
  <2> QED
    BY <2>3, <2>4 DEF Next
<1> QED
  BY <1>1, <1>2, RingInvariant, PromptInvariant, WaitingBytes, PTL DEF Spec, Queue!Spec
=============================================================================
