--------------------------- MODULE ButtonsProofs ---------------------------
(***************************************************************************)
(* Proofs about Buttons, for every matrix of distinct keys: a callback     *)
(* means its own key and one press of it, but for a scan that has not yet  *)
(* recovered from a storage moved or freed under it.                       *)
(***************************************************************************)
EXTENDS Buttons, TLAPS

Has(l) == l \in 1 .. Len(mButtons)

\* Between two polls of a round only the columns of the buttons polled before the
\* current one are known to be off; after a round only the last button's can be on,
\* whatever the scan went through.
DrivenInv ==
  /\ driven \subseteq {Matrix[l].col : l \in 1 .. Len(mButtons)}
  /\ \A l \in 1 .. polled - 1 :
        Matrix[l].col \in driven => Matrix[l].col = Matrix[polled].col
  /\ polled # 0 /\ untrusted < 2 => driven = {Matrix[polled].col}
  /\ polled = 0 /\ previous = Null => driven = {}
  /\ polled = 0 /\ previous > 0 => driven \subseteq {Matrix[previous].col}

\* Is what button l remembers what the scan last read?
Trusted(l) == untrusted = 0 \/ (untrusted = 1 /\ l <= polled)

\* A held key that its button does not remember has been pressed since the last call.
OwedInv ==
  /\ \A l \in 1 .. Len(Matrix) :
        l > Len(mButtons) /\ Matrix[l] \in down => Matrix[l] \in owed
  /\ \A l \in 1 .. Len(mButtons) :
        Trusted(l) /\ ~mButtons[l] /\ Matrix[l] \in down => Matrix[l] \in owed

\* A move that no poll has met copies what the buttons remember.
MovedInv ==
  moved # NotMoving /\ (untrusted = 0 \/ (untrusted = 1 /\ polled # 0))
    => \A l \in 1 .. Len(mButtons) : moved[l] = mButtons[l]

IInv == TypeOK /\ DrivenInv /\ OwedInv /\ MovedInv

-----------------------------------------------------------------------------
\* Every button has a place in the matrix, and no two share one.
LEMMA MatrixFacts ==
  /\ Len(Matrix) \in Nat
  /\ DOMAIN Matrix = 1 .. Len(Matrix)
  /\ \A l \in 1 .. Len(Matrix) : Matrix[l] \in Position /\ Matrix[l] \in Keys
  /\ \A k, l \in 1 .. Len(Matrix) : Matrix[k] = Matrix[l] => k = l
  /\ Keys \subseteq Position
<1>1. Matrix \in Seq(Position)
  BY ButtonsAssumption
<1>2. Len(Matrix) \in Nat /\ DOMAIN Matrix = 1 .. Len(Matrix)
  BY <1>1
<1>3. \A l \in 1 .. Len(Matrix) : Matrix[l] \in Position
  BY <1>1
<1>4. Others \subseteq Position
  BY ButtonsAssumption
<1>5. Keys \subseteq Position
  BY <1>2, <1>3, <1>4 DEF Keys
<1> QED
  BY <1>2, <1>3, <1>5, ButtonsAssumption DEF Keys

\* What the scan remembers is a sequence no longer than the matrix.
LEMMA TypeFacts ==
  ASSUME TypeOK
  PROVE  /\ Len(mButtons) \in Nat /\ Len(mButtons) <= Len(Matrix)
         /\ DOMAIN mButtons = 1 .. Len(mButtons)
         /\ polled \in Nat /\ polled <= Len(mButtons)
         /\ previous \in Int /\ previous <= Len(mButtons)
         /\ untrusted \in {0, 1, 2}
<1>1. mButtons \in Seq(BOOLEAN)
  BY DEF TypeOK
<1>2. Len(mButtons) \in Nat /\ DOMAIN mButtons = 1 .. Len(mButtons)
  BY <1>1
<1> QED
  BY <1>2 DEF TypeOK, Null, Freed

\* Appending a button changes no other.
LEMMA AppendedButton ==
  ASSUME NEW s \in Seq(BOOLEAN)
  PROVE  /\ Append(s, FALSE) \in Seq(BOOLEAN)
         /\ Len(Append(s, FALSE)) = Len(s) + 1
         /\ \A l \in 1 .. Len(s) : Append(s, FALSE)[l] = s[l]
         /\ Append(s, FALSE) # NotMoving
<1>1. Append(s, FALSE) \in Seq(BOOLEAN) /\ Len(Append(s, FALSE)) = Len(s) + 1
  OBVIOUS
<1>2. \A l \in 1 .. Len(s) : Append(s, FALSE)[l] = s[l]
  OBVIOUS
<1>3. Len(s) \in Nat
  OBVIOUS
<1>4. Len(NotMoving) = 0
  BY DEF NotMoving
<1>5. Append(s, FALSE) # NotMoving
  <2>1. SUFFICES ASSUME Append(s, FALSE) = NotMoving PROVE FALSE
    OBVIOUS
  <2>2. Len(Append(s, FALSE)) = 0
    BY <1>4, <2>1
  <2> QED
    BY <1>1, <1>3, <2>2
<1> QED
  BY <1>1, <1>2, <1>5

\* With one column driven, a high row means the button's own key.
LEMMA HighIsOwn ==
  ASSUME TypeOK, NEW k \in 1 .. Len(Matrix),
         NEW out, out = {Matrix[k].col}
  PROVE  High(k, out) <=> Matrix[k] \in down
<1>1. Matrix[k] \in Position /\ down \subseteq Position
  BY MatrixFacts DEF TypeOK
<1>2. ASSUME NEW key \in down, key.row = Matrix[k].row, key.col \in out
      PROVE  key = Matrix[k]
  <2>1. key \in Position
    BY <1>1
  <2>2. key.row = Matrix[k].row /\ key.col = Matrix[k].col
    BY <1>2
  <2> QED
    BY <1>1, <2>1, <2>2 DEF Position
<1> QED
  BY <1>2 DEF High

-----------------------------------------------------------------------------
LEMMA InitIInv == Init => IInv
<1> SUFFICES ASSUME Init PROVE IInv
  OBVIOUS
<1>1. mButtons = <<>> /\ Len(mButtons) = 0
  BY DEF Init
<1>2. TypeOK
  BY <1>1, MatrixFacts DEF Init, TypeOK, Null, Freed, NotMoving
<1>3. DrivenInv
  BY <1>1 DEF Init, DrivenInv, Null
<1>4. OwedInv
  BY <1>1 DEF Init, OwedInv
<1>5. MovedInv
  BY DEF Init, MovedInv
<1> QED
  BY <1>2, <1>3, <1>4, <1>5 DEF IInv

-----------------------------------------------------------------------------
(***************************************************************************)
(* One lemma per actor, and in it one step per action or part of IInv.     *)
(***************************************************************************)
LEMMA UserStep ==
  ASSUME IInv, NEW key \in Keys, Press(key) \/ Release(key)
  PROVE  IInv'
<1>1. TypeOK /\ DrivenInv /\ OwedInv /\ MovedInv
  BY DEF IInv
<1>2. UNCHANGED <<driven, mButtons, moved, polled, previous, untrusted>>
  BY DEF Press, Release, storage
<1>3. down' \subseteq down \cup {key} /\ owed \subseteq owed'
      /\ owed' \subseteq owed \cup {key}
      /\ (key \in down' => key \in owed')
  BY DEF Press, Release
<1>4. TypeOK'
  <2>1. down' \subseteq Keys /\ owed' \subseteq Keys
    BY <1>1, <1>3 DEF TypeOK
  <2> QED
    BY <1>1, <1>2, <2>1 DEF TypeOK
<1>5. DrivenInv'
  BY <1>1, <1>2 DEF DrivenInv
<1>6. OwedInv'
  BY <1>1, <1>2, <1>3 DEF OwedInv, Trusted
<1>7. MovedInv'
  BY <1>1, <1>2 DEF MovedInv
<1> QED
  BY <1>4, <1>5, <1>6, <1>7 DEF IInv

LEMMA AddInPlaceStep ==
  ASSUME IInv, AddInPlace
  PROVE  IInv'
<1>1. TypeOK /\ DrivenInv /\ OwedInv /\ MovedInv
  BY DEF IInv
<1>2. /\ UNCHANGED <<down, driven, moved, polled, previous, owed, untrusted>>
      /\ moved = NotMoving /\ Len(mButtons) < Len(Matrix)
      /\ mButtons' = Append(mButtons, FALSE)
  BY DEF AddInPlace
<1>3. mButtons \in Seq(BOOLEAN)
  BY <1>1 DEF TypeOK
<1>4. /\ mButtons' \in Seq(BOOLEAN) /\ Len(mButtons') = Len(mButtons) + 1
      /\ \A l \in 1 .. Len(mButtons) : mButtons'[l] = mButtons[l]
  BY <1>2, <1>3, AppendedButton
<1>5. TypeOK'
  BY <1>1, <1>2, <1>4, TypeFacts, MatrixFacts DEF TypeOK, Null, Freed
<1>6. DrivenInv'
  <2>1. 1 .. Len(mButtons) \subseteq 1 .. Len(mButtons')
    BY <1>1, <1>4, TypeFacts
  <2>2. driven' \subseteq {Matrix[l].col : l \in 1 .. Len(mButtons')}
    BY <1>1, <1>2, <2>1 DEF DrivenInv
  <2> QED
    BY <1>1, <1>2, <2>2 DEF DrivenInv
<1>7. OwedInv'
  <2>1. ASSUME NEW l \in 1 .. Len(Matrix), l > Len(mButtons'), Matrix[l] \in down'
        PROVE  Matrix[l] \in owed'
    BY <1>1, <1>2, <1>4, <2>1, TypeFacts DEF OwedInv
  <2>2. ASSUME NEW l \in 1 .. Len(mButtons'), Trusted(l)', ~mButtons'[l], Matrix[l] \in down'
        PROVE  Matrix[l] \in owed'
    <3>1. CASE l \in 1 .. Len(mButtons)
      <4>1. Trusted(l)
        BY <1>2, <2>2 DEF Trusted
      <4>2. ~mButtons[l]
        BY <1>4, <2>2, <3>1
      <4> QED
        BY <1>1, <1>2, <2>2, <3>1, <4>1, <4>2 DEF OwedInv
    <3>2. CASE l \notin 1 .. Len(mButtons)
      <4>1. l \in 1 .. Len(Matrix) /\ l > Len(mButtons)
        BY <1>1, <1>2, <1>4, <3>2, TypeFacts, MatrixFacts
      <4> QED
        BY <1>1, <1>2, <2>2, <4>1 DEF OwedInv
    <3> QED
      BY <3>1, <3>2
  <2> QED
    BY <2>1, <2>2 DEF OwedInv
<1>8. MovedInv'
  BY <1>2 DEF MovedInv
<1> QED
  BY <1>5, <1>6, <1>7, <1>8 DEF IInv

LEMMA BeginMoveStep ==
  ASSUME IInv, BeginMove
  PROVE  IInv'
<1>1. TypeOK /\ DrivenInv /\ OwedInv /\ MovedInv
  BY DEF IInv
<1>2. /\ UNCHANGED <<down, driven, mButtons, polled, previous, owed, untrusted>>
      /\ Len(mButtons) < Len(Matrix)
      /\ moved' = Append(mButtons, FALSE)
  BY DEF BeginMove
<1>3. mButtons \in Seq(BOOLEAN)
  BY <1>1 DEF TypeOK
<1>4. /\ moved' \in Seq(BOOLEAN) /\ Len(moved') = Len(mButtons) + 1
      /\ \A l \in 1 .. Len(mButtons) : moved'[l] = mButtons[l]
  BY <1>2, <1>3, AppendedButton
<1>5. TypeOK'
  <2>1. Len(moved') = Len(mButtons') + 1 /\ Len(moved') <= Len(Matrix)
    BY <1>1, <1>2, <1>4, TypeFacts, MatrixFacts
  <2>2. moved' \in Seq(BOOLEAN)
    BY <1>4
  <2> QED
    BY <1>1, <1>2, <2>1, <2>2 DEF TypeOK
<1>6. DrivenInv'
  BY <1>1, <1>2 DEF DrivenInv
<1>7. OwedInv'
  BY <1>1, <1>2 DEF OwedInv, Trusted
<1>8. MovedInv'
  BY <1>2, <1>4 DEF MovedInv
<1> QED
  BY <1>5, <1>6, <1>7, <1>8 DEF IInv

\* A move that polls have met loses what they read; then nothing is trusted.
LEMMA EndMoveStep ==
  ASSUME IInv, EndMove
  PROVE  IInv' /\ (untrusted' = 0 => \A k \in DOMAIN mButtons : ~Called(k))
<1>1. TypeOK /\ DrivenInv /\ OwedInv /\ MovedInv
  BY DEF IInv
<1>2. /\ UNCHANGED <<down, driven, polled, owed, untrusted>>
      /\ moved # NotMoving /\ moved' = NotMoving
      /\ mButtons' = moved
      /\ previous' = IF previous = Null THEN Null ELSE Freed
  BY DEF EndMove
<1>3. /\ moved \in Seq(BOOLEAN)
      /\ Len(moved) = Len(mButtons) + 1 /\ Len(moved) <= Len(Matrix)
  BY <1>1, <1>2 DEF TypeOK
<1>4. Len(mButtons') = Len(mButtons) + 1
  BY <1>2, <1>3
<1>5. TypeOK'
  BY <1>1, <1>2, <1>3, <1>4, TypeFacts, MatrixFacts DEF TypeOK, Null, Freed
<1>6. DrivenInv'
  <2>1. 1 .. Len(mButtons) \subseteq 1 .. Len(mButtons')
    BY <1>1, <1>4, TypeFacts
  <2>2. driven' \subseteq {Matrix[l].col : l \in 1 .. Len(mButtons')}
    BY <1>1, <1>2, <2>1 DEF DrivenInv
  <2>3. ~(previous' > 0) /\ (previous' = Null => previous = Null)
    BY <1>2 DEF Null, Freed
  <2> QED
    BY <1>1, <1>2, <2>2, <2>3 DEF DrivenInv
<1>7. ASSUME NEW l \in 1 .. Len(mButtons), Trusted(l)
      PROVE  mButtons'[l] = mButtons[l]
  <2>1. untrusted = 0 \/ (untrusted = 1 /\ polled # 0)
    BY <1>1, <1>7, TypeFacts DEF Trusted
  <2> QED
    BY <1>1, <1>2, <2>1 DEF MovedInv
<1>8. OwedInv'
  <2>1. ASSUME NEW l \in 1 .. Len(Matrix), l > Len(mButtons'), Matrix[l] \in down'
        PROVE  Matrix[l] \in owed'
    BY <1>1, <1>2, <1>4, <2>1, TypeFacts DEF OwedInv
  <2>2. ASSUME NEW l \in 1 .. Len(mButtons'), Trusted(l)', ~mButtons'[l], Matrix[l] \in down'
        PROVE  Matrix[l] \in owed'
    <3>1. Trusted(l)
      BY <1>2, <2>2 DEF Trusted
    <3>2. CASE l \in 1 .. Len(mButtons)
      <4>1. ~mButtons[l]
        BY <1>7, <2>2, <3>1, <3>2
      <4> QED
        BY <1>1, <1>2, <2>2, <3>1, <3>2, <4>1 DEF OwedInv
    <3>3. CASE l \notin 1 .. Len(mButtons)
      <4>1. l \in 1 .. Len(Matrix) /\ l > Len(mButtons)
        BY <1>1, <1>2, <1>3, <1>4, <3>3, TypeFacts, MatrixFacts
      <4> QED
        BY <1>1, <1>2, <2>2, <4>1 DEF OwedInv
    <3> QED
      BY <3>2, <3>3
  <2> QED
    BY <2>1, <2>2 DEF OwedInv
<1>9. MovedInv'
  BY <1>2 DEF MovedInv
<1>10. untrusted' = 0 => \A k \in DOMAIN mButtons : ~Called(k)
  <2>1. SUFFICES ASSUME untrusted' = 0, NEW k \in 1 .. Len(mButtons) PROVE ~Called(k)
    BY <1>1, TypeFacts
  <2>2. Trusted(k)
    BY <1>2, <2>1 DEF Trusted
  <2>3. mButtons'[k] = mButtons[k]
    BY <1>7, <2>1, <2>2
  <2> QED
    BY <2>3 DEF Called
<1> QED
  BY <1>5, <1>6, <1>8, <1>9, <1>10 DEF IInv

LEMMA EndRoundStep ==
  ASSUME IInv, EndRound
  PROVE  IInv'
<1>1. TypeOK /\ DrivenInv /\ OwedInv /\ MovedInv
  BY DEF IInv
<1>2. /\ UNCHANGED <<down, driven, mButtons, moved, owed>>
      /\ polled # 0 /\ polled >= Len(mButtons)
      /\ polled' = 0 /\ previous' = polled
      /\ untrusted' = IF untrusted = 0 THEN 0 ELSE untrusted - 1
  BY DEF EndRound, storage
<1>3. polled = Len(mButtons) /\ polled \in 1 .. Len(mButtons)
  BY <1>1, <1>2, TypeFacts
<1>4. TypeOK'
  BY <1>1, <1>2, <1>3, TypeFacts DEF TypeOK, Null, Freed
<1>5. DrivenInv'
  <2>1. ASSUME NEW c \in driven PROVE c = Matrix[polled].col
    <3>1. PICK l \in 1 .. Len(mButtons) : c = Matrix[l].col
      BY <1>1 DEF DrivenInv
    <3>2. CASE l = polled
      BY <3>1, <3>2
    <3>3. CASE l # polled
      <4>1. l \in 1 .. polled - 1
        BY <1>1, <1>3, <3>3, TypeFacts
      <4> QED
        BY <1>1, <3>1, <4>1 DEF DrivenInv
    <3> QED
      BY <3>2, <3>3
  <2>2. driven' \subseteq {Matrix[l].col : l \in 1 .. Len(mButtons')}
    BY <1>1, <1>2 DEF DrivenInv
  <2>3. driven' \subseteq {Matrix[previous'].col}
    BY <1>2, <2>1
  <2>4. 1 .. polled' - 1 = {} /\ previous' # Null
    BY <1>2 DEF Null
  <2> QED
    BY <1>2, <2>2, <2>3, <2>4 DEF DrivenInv
<1>6. OwedInv'
  <2>1. ASSUME NEW l \in 1 .. Len(mButtons), Trusted(l)' PROVE Trusted(l)
    <3>1. untrusted' = 0
      BY <1>2, <2>1 DEF Trusted
    <3>2. untrusted = 0 \/ untrusted = 1
      BY <1>1, <1>2, <3>1, TypeFacts
    <3>3. l <= polled
      BY <1>3
    <3> QED
      BY <3>2, <3>3 DEF Trusted
  <2> QED
    BY <1>1, <1>2, <2>1 DEF OwedInv
<1>7. MovedInv'
  <2>1. SUFFICES ASSUME moved' # NotMoving, untrusted' = 0
                 PROVE  \A l \in 1 .. Len(mButtons) : moved[l] = mButtons[l]
    BY <1>2 DEF MovedInv
  <2>2. untrusted = 0 \/ (untrusted = 1 /\ polled # 0)
    BY <1>1, <1>2, <2>1, TypeFacts
  <2> QED
    BY <1>1, <1>2, <2>1, <2>2 DEF MovedInv
<1> QED
  BY <1>4, <1>5, <1>6, <1>7 DEF IInv

-----------------------------------------------------------------------------
\* What Deinit switches off belongs to the button polled before.
LEMMA DeinitFacts ==
  ASSUME TypeOK, NEW gone \in Deinit
  PROVE  /\ polled # 0 => gone = {Matrix[polled].col}
         /\ polled = 0 /\ previous > 0 => gone = {Matrix[previous].col}
<1>1. CASE polled # 0
  BY <1>1 DEF Deinit
<1>2. CASE polled = 0 /\ previous > 0
  BY <1>2 DEF Deinit, Null
<1> QED
  BY <1>1, <1>2

\* The parts of a poll that the lemmas below use.
LEMMA PollFacts ==
  ASSUME TypeOK, PollNext
  PROVE  \E k \in 1 .. Len(mButtons) : \E gone \in Deinit :
           /\ k = polled + 1 /\ polled' = k
           /\ driven' = Driven(k, gone)
           /\ mButtons' = [mButtons EXCEPT ![k] = High(k, driven')]
           /\ owed' = IF High(k, driven') /\ ~mButtons[k] THEN owed \ {Matrix[k]} ELSE owed
           /\ untrusted' = IF moved # NotMoving \/ (polled = 0 /\ previous = Freed)
                             THEN 2 ELSE untrusted
           /\ UNCHANGED <<down, moved, previous>>
<1> DEFINE k == polled + 1
<1>1. k \in 1 .. Len(mButtons)
  BY TypeFacts DEF PollNext
<1>2. Poll(k)
  BY DEF PollNext
<1>3. PICK gone \in Deinit :
           /\ driven' = Driven(k, gone)
           /\ mButtons' = [mButtons EXCEPT ![k] = High(k, Driven(k, gone))]
           /\ owed' = IF High(k, Driven(k, gone)) /\ ~mButtons[k]
                        THEN owed \ {Matrix[k]} ELSE owed
           /\ polled' = k
           /\ untrusted' = IF moved # NotMoving \/ (polled = 0 /\ previous = Freed)
                             THEN 2 ELSE untrusted
           /\ UNCHANGED <<down, moved, previous>>
  BY <1>2 DEF Poll
<1>4. Driven(k, gone) = driven'
  BY <1>3
<1>5. /\ mButtons' = [mButtons EXCEPT ![k] = High(k, driven')]
      /\ owed' = IF High(k, driven') /\ ~mButtons[k] THEN owed \ {Matrix[k]} ELSE owed
  BY <1>3, <1>4
<1>6. WITNESS k \in 1 .. Len(mButtons)
<1>7. WITNESS gone \in Deinit
<1> QED
  BY <1>3, <1>5

\* While the scan can be trusted, or will be within a round, a poll leaves one column
\* driven.
LEMMA OneColumn ==
  ASSUME IInv, NEW k \in 1 .. Len(mButtons), NEW gone \in Deinit,
         k = polled + 1, untrusted < 2, ~(polled = 0 /\ previous = Freed)
  PROVE  Driven(k, gone) = {Matrix[k].col}
<1>1. TypeOK /\ DrivenInv
  BY DEF IInv
<1>2. driven \subseteq gone \/ driven = {}
  <2>1. CASE polled # 0
    <3>1. gone = {Matrix[polled].col}
      BY <1>1, <2>1, DeinitFacts
    <3> QED
      BY <1>1, <2>1, <3>1 DEF DrivenInv
  <2>2. CASE polled = 0 /\ previous = Null
    BY <1>1, <2>2 DEF DrivenInv
  <2>3. CASE polled = 0 /\ previous # Null
    <3>1. previous > 0
      BY <1>1, <2>3, TypeFacts DEF TypeOK, Null, Freed
    <3>2. gone = {Matrix[previous].col}
      BY <1>1, <2>3, <3>1, DeinitFacts
    <3> QED
      BY <1>1, <2>3, <3>1, <3>2 DEF DrivenInv
  <2> QED
    BY <2>1, <2>2, <2>3
<1> QED
  BY <1>2 DEF Driven

LEMMA PollStep ==
  ASSUME IInv, PollNext
  PROVE  IInv' /\ (untrusted' = 0 => \A l \in DOMAIN mButtons :
                     Called(l) => Matrix[l] \in down /\ Matrix[l] \in owed)
<1>1. TypeOK /\ DrivenInv /\ OwedInv /\ MovedInv
  BY DEF IInv
<1>2. PICK k \in 1 .. Len(mButtons), gone \in Deinit :
           /\ k = polled + 1 /\ polled' = k
           /\ driven' = Driven(k, gone)
           /\ mButtons' = [mButtons EXCEPT ![k] = High(k, driven')]
           /\ owed' = IF High(k, driven') /\ ~mButtons[k] THEN owed \ {Matrix[k]} ELSE owed
           /\ untrusted' = IF moved # NotMoving \/ (polled = 0 /\ previous = Freed)
                             THEN 2 ELSE untrusted
           /\ UNCHANGED <<down, moved, previous>>
  BY <1>1, PollFacts
<1>3. mButtons \in Seq(BOOLEAN) /\ High(k, driven') \in BOOLEAN
  BY <1>1 DEF TypeOK, High
<1>4. /\ mButtons' \in Seq(BOOLEAN) /\ Len(mButtons') = Len(mButtons)
      /\ mButtons'[k] = High(k, driven')
      /\ \A l \in 1 .. Len(mButtons) : l # k => mButtons'[l] = mButtons[l]
  BY <1>2, <1>3
<1>5. k \in 1 .. Len(Matrix) /\ Matrix[k].col \in Columns
  BY <1>1, TypeFacts, MatrixFacts DEF Columns
<1>6. driven' = (driven \ gone) \cup {Matrix[k].col}
  BY <1>2 DEF Driven
<1>7. TypeOK'
  <2>1. down' \subseteq Keys /\ owed' \subseteq Keys /\ driven' \subseteq Columns
    BY <1>1, <1>2, <1>5, <1>6 DEF TypeOK
  <2>2. polled' \in 0 .. Len(mButtons')
    BY <1>2, <1>4
  <2>3. untrusted' \in 0 .. 2
    BY <1>1, <1>2 DEF TypeOK
  <2> QED
    BY <1>1, <1>2, <1>4, <2>1, <2>2, <2>3 DEF TypeOK
<1>8. untrusted' < 2 => driven' = {Matrix[k].col}
  <2>1. SUFFICES ASSUME untrusted' < 2 PROVE driven' = {Matrix[k].col}
    OBVIOUS
  <2>2. untrusted < 2 /\ ~(polled = 0 /\ previous = Freed)
    BY <1>2, <2>1
  <2> QED
    BY <1>2, <2>2, OneColumn
<1>9. DrivenInv'
  <2>1. driven' \subseteq {Matrix[l].col : l \in 1 .. Len(mButtons')}
    BY <1>1, <1>4, <1>6 DEF DrivenInv
  <2>2. ASSUME NEW l \in 1 .. polled' - 1, Matrix[l].col \in driven'
        PROVE  Matrix[l].col = Matrix[polled'].col
    <3>1. SUFFICES ASSUME Matrix[l].col \in driven, Matrix[l].col \notin gone
                   PROVE  Matrix[l].col = Matrix[k].col
      BY <1>2, <1>6, <2>2
    <3>2. polled # 0 /\ l \in 1 .. polled
      BY <1>1, <1>2, <2>2, TypeFacts
    <3>3. gone = {Matrix[polled].col}
      BY <1>1, <3>2, DeinitFacts
    <3>4. l # polled
      BY <3>1, <3>3
    <3>5. l \in 1 .. polled - 1
      BY <1>1, <3>2, <3>4, TypeFacts
    <3> QED
      BY <1>1, <3>1, <3>3, <3>5 DEF DrivenInv
  <2>3. polled' # 0
    BY <1>2
  <2> QED
    BY <1>2, <1>8, <2>1, <2>2, <2>3 DEF DrivenInv
<1>10. ASSUME untrusted' < 2
       PROVE  High(k, driven') <=> Matrix[k] \in down
  BY <1>1, <1>5, <1>8, <1>10, HighIsOwn
<1>11. \A l \in 1 .. Len(Matrix) : l # k => (Matrix[l] \in owed' <=> Matrix[l] \in owed)
  BY <1>2, <1>5, MatrixFacts
<1>12. OwedInv'
  <2>1. ASSUME NEW l \in 1 .. Len(Matrix), l > Len(mButtons'), Matrix[l] \in down'
        PROVE  Matrix[l] \in owed'
    <3>1. l # k /\ l > Len(mButtons)
      BY <1>1, <1>4, <2>1, TypeFacts
    <3> QED
      BY <1>1, <1>2, <1>11, <2>1, <3>1 DEF OwedInv
  <2>2. ASSUME NEW l \in 1 .. Len(mButtons'), Trusted(l)', ~mButtons'[l], Matrix[l] \in down'
        PROVE  Matrix[l] \in owed'
    <3>1. untrusted' < 2 /\ untrusted' = untrusted
      BY <1>2, <2>2 DEF Trusted
    <3>2. l # k
      BY <1>2, <1>4, <1>10, <2>2, <3>1
    <3>3. l \in 1 .. Len(mButtons) /\ ~mButtons[l] /\ Matrix[l] \in down
      BY <1>2, <1>4, <2>2, <3>2
    <3>4. Trusted(l)
      BY <1>1, <1>2, <2>2, <3>1, <3>2, TypeFacts DEF Trusted
    <3>5. l \in 1 .. Len(Matrix)
      BY <1>1, <3>3, TypeFacts, MatrixFacts
    <3> QED
      BY <1>1, <1>11, <3>2, <3>3, <3>4, <3>5 DEF OwedInv
  <2> QED
    BY <2>1, <2>2 DEF OwedInv
<1>13. MovedInv'
  <2>1. moved' # NotMoving => untrusted' = 2
    BY <1>2
  <2> QED
    BY <2>1 DEF MovedInv
<1>14. ASSUME untrusted' = 0, NEW l \in DOMAIN mButtons, Called(l)
       PROVE  Matrix[l] \in down /\ Matrix[l] \in owed
  <2>1. l \in 1 .. Len(mButtons) /\ mButtons'[l] /\ ~mButtons[l]
    BY <1>1, <1>14, TypeFacts DEF Called
  <2>2. l = k
    BY <1>4, <2>1
  <2>3. Matrix[k] \in down
    BY <1>4, <1>10, <1>14, <2>1, <2>2
  <2>4. Trusted(k)
    BY <1>2, <1>14 DEF Trusted
  <2> QED
    BY <1>1, <2>1, <2>2, <2>3, <2>4 DEF OwedInv
<1> QED
  BY <1>7, <1>9, <1>12, <1>13, <1>14 DEF IInv

-----------------------------------------------------------------------------
\* Every step keeps the invariant and calls only what is meant.
LEMMA NextIInv ==
  ASSUME IInv, [Next]_vars
  PROVE  IInv' /\ (untrusted' = 0 => \A k \in DOMAIN mButtons :
                     Called(k) => Matrix[k] \in down /\ Matrix[k] \in owed)
<1> DEFINE Meant == untrusted' = 0 => \A k \in DOMAIN mButtons :
                      Called(k) => Matrix[k] \in down /\ Matrix[k] \in owed
<1>1. CASE UNCHANGED vars
  <2>1. UNCHANGED <<down, driven, mButtons, moved, polled, previous, owed, untrusted>>
    BY <1>1 DEF vars, storage
  <2>2. IInv'
    BY <2>1 DEF IInv, TypeOK, DrivenInv, OwedInv, MovedInv, Trusted
  <2> QED
    BY <2>1, <2>2 DEF Called
<1>2. ASSUME NEW key \in Keys, Press(key) \/ Release(key) PROVE IInv' /\ Meant
  <2>1. IInv'
    BY <1>2, UserStep
  <2>2. mButtons' = mButtons
    BY <1>2 DEF Press, Release, storage
  <2> QED
    BY <2>1, <2>2 DEF Called
<1>3. CASE AddInPlace
  <2>1. TypeOK /\ mButtons' = Append(mButtons, FALSE)
    BY <1>3 DEF AddInPlace, IInv
  <2>2. mButtons \in Seq(BOOLEAN)
    BY <2>1 DEF TypeOK
  <2>3. \A l \in DOMAIN mButtons : mButtons'[l] = mButtons[l]
    BY <2>1, <2>2, AppendedButton, TypeFacts
  <2>4. Meant
    BY <2>3 DEF Called
  <2> QED
    BY <1>3, <2>4, AddInPlaceStep
<1>4. CASE BeginMove
  <2>1. IInv'
    BY <1>4, BeginMoveStep
  <2>2. mButtons' = mButtons
    BY <1>4 DEF BeginMove
  <2> QED
    BY <2>1, <2>2 DEF Called
<1>5. CASE EndMove
  BY <1>5, EndMoveStep
<1>6. CASE PollNext
  BY <1>6, PollStep
<1>7. CASE EndRound
  <2>1. IInv'
    BY <1>7, EndRoundStep
  <2>2. mButtons' = mButtons
    BY <1>7 DEF EndRound, storage
  <2> QED
    BY <2>1, <2>2 DEF Called
<1> QED
  BY <1>1, <1>2, <1>3, <1>4, <1>5, <1>6, <1>7 DEF Next, AddButton, ButtonThread

\* The invariant holds in every reachable state, type correctness with it: previous
\* never points past the buttons that there are.
THEOREM SpecIInv == Spec => []IInv
<1>1. IInv /\ [Next]_vars => IInv'
  BY NextIInv
<1> QED
  BY InitIInv, <1>1, PTL DEF Spec

\* A callback means its own key, held and pressed since the last call, for every
\* matrix and every number of buttons (the property CallsAreMeant of the run).
THEOREM SpecCallsAreMeant == Spec => CallsAreMeant
<1>1. IInv /\ [Next]_vars =>
        [untrusted' = 0 => \A k \in DOMAIN mButtons :
           Called(k) => Matrix[k] \in down /\ Matrix[k] \in owed]_vars
  BY NextIInv
<1> QED
  BY SpecIInv, <1>1, PTL DEF Spec, CallsAreMeant
=============================================================================
