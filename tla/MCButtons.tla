----------------------------- MODULE MCButtons -----------------------------
(***************************************************************************)
(* Buttons for TLC: the three buttons of the build, in the order of        *)
(* InitButtons (factory reset, BLE, Thread), on the matrix of two rows and *)
(* two columns; the fourth key has no button.                              *)
(***************************************************************************)
EXTENDS Buttons

Key(r, c) == [row |-> r, col |-> c]

MCMatrix == <<Key(1, 1), Key(2, 2), Key(2, 1)>>
MCOthers == {Key(1, 2)}
=============================================================================
