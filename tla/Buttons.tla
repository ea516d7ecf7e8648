------------------------------ MODULE Buttons ------------------------------
(***************************************************************************)
(* The key matrix (ButtonManager.cpp, AppTaskCommon.cpp).  A cooperative   *)
(* thread polls one button after the other: it stops driving the column    *)
(* of the button before, drives the button's own, reads its row, calls     *)
(* the callback when the row has gone high, and sleeps.  Nothing else runs *)
(* between two sleeps, so a poll is one step.  It starts before the main   *)
(* thread adds the buttons, and only the thread's priority orders the two: *)
(* a poll may come anywhere in AddButton, whose push_back may move the     *)
(* buttons to a new storage and free the old one.                          *)
(***************************************************************************)
EXTENDS Integers, Sequences

CONSTANTS
  Matrix,  \* where the buttons are, in the order of AddButton
  Others   \* the keys of the matrix without a button

Position == [row : Nat, col : Nat]

ASSUME ButtonsAssumption ==
  /\ Matrix \in Seq(Position)
  /\ Others \subseteq Position
  /\ \A k, l \in DOMAIN Matrix : Matrix[k] = Matrix[l] => k = l
  /\ \A k \in DOMAIN Matrix : Matrix[k] \notin Others

Keys == {Matrix[k] : k \in DOMAIN Matrix} \cup Others

VARIABLES
  down,      \* the keys that are held
  driven,    \* the columns configured as outputs
  mButtons,  \* the mPreviousState of each button
  moved,     \* the storage that push_back is filling, or NotMoving
  polled,    \* the button whose Poll sleeps, 0 for the sleep after a round
  previous,  \* the button polled before the sleep after a round, Null or Freed
  owed,      \* keys pressed since their callback was last called
  untrusted  \* rounds until the scan has recovered from a storage moved or freed under it

storage == <<mButtons, moved>>
vars    == <<down, driven, storage, polled, previous, owed, untrusted>>

Null  == 0
Freed == -1
NotMoving == <<>>

-----------------------------------------------------------------------------
Init ==
  /\ down \in SUBSET Keys
  /\ driven = {}
  /\ mButtons = <<>> /\ moved = NotMoving
  /\ polled = 0 /\ previous = Null
  /\ owed = down
  /\ untrusted = 0

(***************************************************************************)
(* The user.                                                               *)
(***************************************************************************)
Press(key) ==
  /\ key \notin down
  /\ down' = down \cup {key}
  /\ owed' = owed \cup {key}
  /\ UNCHANGED <<driven, storage, polled, previous, untrusted>>

Release(key) ==
  /\ key \in down
  /\ down' = down \ {key}
  /\ UNCHANGED <<driven, storage, polled, previous, owed, untrusted>>

(***************************************************************************)
(* The main thread: InitButtons configures each button of Matrix and adds  *)
(* a copy of it, whose mPreviousState is low.                              *)
(***************************************************************************)
AddInPlace ==
  /\ moved = NotMoving
  /\ Len(mButtons) < Len(Matrix)
  /\ mButtons' = Append(mButtons, FALSE)
  /\ UNCHANGED <<down, driven, moved, polled, previous, owed, untrusted>>

BeginMove ==
  /\ moved = NotMoving
  /\ Len(mButtons) < Len(Matrix)
  /\ moved' = Append(mButtons, FALSE)
  /\ UNCHANGED <<down, driven, mButtons, polled, previous, owed, untrusted>>

EndMove ==
  /\ moved # NotMoving
  /\ mButtons' = moved
  /\ moved' = NotMoving
  /\ previous' = IF previous = Null THEN Null ELSE Freed
  /\ UNCHANGED <<down, driven, polled, owed, untrusted>>

AddButton == AddInPlace \/ BeginMove \/ EndMove

(***************************************************************************)
(* The button thread.                                                      *)
(***************************************************************************)
Columns == {Matrix[k].col : k \in DOMAIN Matrix}

\* What may stop being driven, each possibility a set of columns: the column of the
\* button that previous points to; what a freed one says is anybody's guess.
Deinit ==
  CASE polled # 0                    -> {{Matrix[polled].col}}
    [] polled = 0 /\ previous = Null -> {{}}
    [] polled = 0 /\ previous > 0    -> {{Matrix[previous].col}}
    [] OTHER                         -> {{}} \cup {{c} : c \in Columns}

\* Mutant of Driven: the column of the button before is driven on.
DrivenOn(k, gone) == driven \cup {Matrix[k].col}

\* The outputs once button k is initialised.
Driven(k, gone) == (driven \ gone) \cup {Matrix[k].col}

\* gpio_pin_get_dt: a held key connects its row to its column.
High(k, out) == \E key \in down : key.row = Matrix[k].row /\ key.col \in out

\* Init and gpio_pin_get_dt of button k; its callback when the row has gone high.
Poll(k) ==
  \E gone \in Deinit :
    LET high == High(k, Driven(k, gone))
    IN  /\ driven' = Driven(k, gone)
        /\ mButtons' = [mButtons EXCEPT ![k] = high]
        /\ owed' = IF high /\ ~mButtons[k] THEN owed \ {Matrix[k]} ELSE owed
        /\ polled' = k
        /\ untrusted' = IF moved # NotMoving \/ (polled = 0 /\ previous = Freed)
                          THEN 2 ELSE untrusted
        /\ UNCHANGED <<down, moved, previous>>

\* Mutant of PollNext: the last button left out.
PollAllButLast == polled + 1 < Len(mButtons) /\ Poll(polled + 1)

PollNext == polled < Len(mButtons) /\ Poll(polled + 1)

\* Mutant of EndRound: previous set once only.
PreviousStays ==
  /\ polled # 0 /\ polled >= Len(mButtons)
  /\ polled' = 0
  /\ previous' = IF previous = Null THEN polled ELSE previous
  /\ untrusted' = IF untrusted = 0 THEN 0 ELSE untrusted - 1
  /\ UNCHANGED <<down, driven, storage, owed>>

EndRound ==
  /\ polled # 0 /\ polled >= Len(mButtons)
  /\ polled' = 0
  /\ previous' = polled
  /\ untrusted' = IF untrusted = 0 THEN 0 ELSE untrusted - 1
  /\ UNCHANGED <<down, driven, storage, owed>>

ButtonThread == PollNext \/ EndRound

Next ==
  \/ \E key \in Keys : Press(key) \/ Release(key)
  \/ AddButton
  \/ ButtonThread

Spec == Init /\ [][Next]_vars

\* The thread has a cooperative priority and sleeps for a fixed time, so it always
\* goes on; the main thread ends InitButtons.
FairSpec == Spec /\ WF_vars(ButtonThread) /\ WF_vars(AddButton)

-----------------------------------------------------------------------------
(***************************************************************************)
(* Properties.                                                             *)
(***************************************************************************)
TypeOK ==
  /\ down \subseteq Keys /\ owed \subseteq Keys
  /\ driven \subseteq Columns
  /\ mButtons \in Seq(BOOLEAN) /\ Len(mButtons) <= Len(Matrix)
  /\ \/ moved = NotMoving
     \/ /\ moved \in Seq(BOOLEAN)
        /\ Len(moved) = Len(mButtons) + 1 /\ Len(moved) <= Len(Matrix)
  /\ polled \in 0 .. Len(mButtons)
  /\ previous \in {Null, Freed} \cup 1 .. Len(mButtons)
  /\ untrusted \in 0 .. 2

\* Has the scan just called the callback of button k?  (A move that no poll meets
\* leaves what the buttons remember as it is.)
Called(k) == mButtons'[k] /\ ~mButtons[k]

\* A callback means its own key, and one press of it: the key is held at that moment,
\* and was pressed since the callback was called last, whichever other keys are held
\* in the same row or column.  Exempt is only a scan that met the buttons while
\* AddButton moved them, or used the one that a move had freed, with the round in
\* which that happened and the next one (113-134, 159-165).
CallsAreMeant ==
  [][untrusted' = 0 => \A k \in DOMAIN mButtons :
        Called(k) => Matrix[k] \in down /\ Matrix[k] \in owed]_vars

\* And such a scan recovers once InitButtons is done: the freed button is not used
\* again, and what a move lost is read anew.
Recovers == <>[](untrusted = 0)

\* A key that is pressed after the scan has seen it up, or before its button is added,
\* and then held, is seen: the thread always comes back to it (161-167).
HeldIsSeen ==
  \A k \in DOMAIN Matrix :
    Matrix[k] \in down /\ (k \in DOMAIN mButtons => ~mButtons[k])
      ~> Matrix[k] \notin down \/ (k \in DOMAIN mButtons /\ mButtons[k])
=============================================================================
