------------------------------ MODULE MCTxPath ------------------------------
(***************************************************************************)
(* TxPath for TLC: the two threads with frames of different length, so     *)
(* that the check sum of one lies in the data of the other.                *)
(***************************************************************************)
EXTENDS TxPath, TLC

CONSTANTS chip, app

MCThreads == {chip, app}

\* A switch command (on or off) on the CHIP thread, the product query on the
\* application thread, in bytes of two values.
SmallFrames ==
  (chip :> {[cmd |-> 1, data |-> <<v>>] : v \in {0, 1}}) @@
  (app  :> {[cmd |-> 0, data |-> <<>>]})

BothPreempt == MCThreads \X MCThreads
=============================================================================
