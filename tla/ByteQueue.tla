----------------------------- MODULE ByteQueue -----------------------------
(***************************************************************************)
(* What the receive ring promises the frame parser: a queue that hands out *)
(* the bytes of the line one by one, each of them once and in the order in *)
(* which they arrived, and that does not keep a byte for ever.  RxRing     *)
(* implements it as long as the parser keeps up.                           *)
(***************************************************************************)
EXTENDS Integers, Sequences

CONSTANT Room   \* bytes that may wait

VARIABLES
  arrived,   \* how many bytes have arrived; the i-th one is i
  waiting,   \* the bytes that have not been taken
  taken      \* the byte taken last, 0 if none was

vars == <<arrived, waiting, taken>>

Init == arrived = 0 /\ waiting = <<>> /\ taken = 0

Arrive ==
  /\ Len(waiting) < Room
  /\ arrived' = arrived + 1
  /\ waiting' = Append(waiting, arrived + 1)
  /\ UNCHANGED taken

Take ==
  /\ waiting # <<>>
  /\ taken' = Head(waiting)
  /\ waiting' = Tail(waiting)
  /\ UNCHANGED arrived

Next == Arrive \/ Take

Spec == Init /\ [][Next]_vars

FairSpec == Spec /\ WF_vars(Take)
=============================================================================
