------------------------------ MODULE MCRxRing ------------------------------
(***************************************************************************)
(* RxRing for TLC.  A ring of a few bytes behaves like the one of 509: all *)
(* that matters is the pointers' distance to each other and to the end of  *)
(* the array.  The bounds let the pointers go round more than twice.       *)
(***************************************************************************)
EXTENDS RxRing
=============================================================================
