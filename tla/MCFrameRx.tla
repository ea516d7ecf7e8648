----------------------------- MODULE MCFrameRx -----------------------------
(***************************************************************************)
(* FrameRx for TLC.  The streams are made of up to Pieces of the pieces     *)
(* below: frames, and all that a line which loses and corrupts bytes can    *)
(* leave of them.                                                           *)
(***************************************************************************)
EXTENDS FrameRx

CONSTANTS Pieces, PieceSet

LOCAL INSTANCE SequencesExt

\* A frame of the given data, check sum and all.
Frame(data) ==
  LET s == <<85, 170, 2, 0, 1, 4, 0, Len(data)>> \o data
  IN  Append(s, get_check_sum(s))

Piece ==
  [ empty     |-> Frame(<<>>),
    good      |-> Frame(<<85>>),                       \* its data looks like a head
    nested    |-> Frame(Frame(<<>>)),                  \* a frame in a frame
    stray     |-> <<85>>,                              \* what noise can leave of a head
    heads     |-> <<85, 170>>,
    old       |-> <<85, 170, 1, 0>>,                   \* protocol version 1
    oversize  |-> <<85, 170, 2, 0, 0, 4, 0, 16>>,      \* one byte more than fits
    swallow   |-> <<85, 170, 2, 0, 0, 4, 0, 9>>,       \* its length covers the next frame
    wrapped   |-> <<85, 170, 2, 1, 0, 4, 255, 251>>,   \* its length wraps to 4
    bad       |-> SubSeq(Frame(<<7>>), 1, 9) \o <<0>>,  \* a wrong check sum
    cut       |-> SubSeq(Frame(<<7>>), 1, 8) ]         \* its last bytes are lost

MCStreams ==
  {FlattenSeq([i \in DOMAIN k |-> Piece[k[i]]]) : k \in UNION {[1 .. n -> PieceSet] : n \in 1 .. Pieces}}
=============================================================================
