---------------------------- MODULE MCAppEvents ----------------------------
(***************************************************************************)
(* AppEvents for TLC.  Nothing but the room in the queue bounds the        *)
(* environment: any button, effect or timer may come at any time.          *)
(***************************************************************************)
EXTENDS AppEvents
=============================================================================
