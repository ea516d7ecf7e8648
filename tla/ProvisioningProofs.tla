------------------------- MODULE ProvisioningProofs -------------------------
(***************************************************************************)
(* Provisioning for every bound: wherever a fault or a reset cuts in, only *)
(* the last byte of the page makes it count as written, and that byte is   *)
(* stored after the others.                                                *)
(***************************************************************************)
EXTENDS Provisioning, TLAPS

USE ProvisioningAssumption

LEMMA Constants ==
  /\ Blank \in Infos /\ Torn \in Infos /\ Static \in Infos
  /\ ~Written(Blank) /\ ~Written(Torn)
BY DEF Infos, Blank, Torn, Static, Written

\* What an interrupted write leaves is fit whenever the whole would be.
LEMMA PrefixesFit ==
  ASSUME NEW info \in Infos, NEW p \in Prefixes(info)
  PROVE  p \in Infos /\ Fit(p)
<1>1. CASE p \in {Blank, Torn}
  BY <1>1, Constants DEF Fit
<1>2. CASE p = [info EXCEPT !.num_channels = 255]
  <2>1. p \in Infos /\ p.num_channels = 255
    BY <1>2 DEF Infos
  <2> QED
    BY <2>1 DEF Fit, Written
<1> QED
  BY <1>1, <1>2 DEF Prefixes

LEMMA ToldFits ==
  ASSUME mcu \in Replies, NEW info \in IF mcu.p THEN Told ELSE {product_info},
         product_info \in Infos, mcu.p \/ Fit(product_info)
  PROVE  info \in Infos /\ Fit(info) /\ (mcu.p => info \in Whole)
<1>1. CASE mcu.p
  <2>1. PICK n \in mcu.c : info = [name |-> "lamp", num_channels |-> n]
    BY <1>1 DEF Told
  <2>2. n \in Numbers
    BY <1>1, <2>1 DEF Replies
  <2>3. info \in Infos
    BY <2>1, <2>2 DEF Infos
  <2> QED
    BY <1>1, <2>3 DEF Fit, Whole
<1>2. CASE ~mcu.p
  BY <1>2
<1> QED
  BY <1>1, <1>2

\* Every way to come up again: with a page a write may have left, or with flash_read
\* failing.
LEMMA BootKeeps ==
  ASSUME InfoInv, NEW p \in Infos, Fit(p), NEW failed \in BOOLEAN,
         Boot(p, failed), mcu' = mcu
  PROVE  /\ page' \in Infos /\ Fit(page)'
         /\ product_info' \in Infos /\ IsInitApp' \in BOOLEAN
         /\ misread' \in BOOLEAN /\ resetPending' = FALSE /\ pc' = "loop" /\ received' = 0
         /\ ~(mcu.p /\ misread)' => Fit(product_info)'
         /\ InfoIsWhole'
<1>1. mcu \in Replies
  BY DEF InfoInv, TypeOK
<1>2. Whole' = Whole
  BY DEF Whole, Told
<1>3. Written(p) \in BOOLEAN /\ Written(Static) \in BOOLEAN
  BY DEF Written
<1>4. CASE failed = TRUE
  <2>1. ~mcu.p => Static \in Whole
    BY <1>1 DEF Whole
  <2> QED
    BY <1>1, <1>2, <1>3, <1>4, <2>1, Constants DEF Boot, InfoIsWhole, Fit
<1>5. CASE failed = FALSE
  BY <1>2, <1>3, <1>5 DEF Boot, InfoIsWhole, Fit
<1> QED
  BY <1>4, <1>5

LEMMA Rebooted ==
  ASSUME InfoInv, NEW p \in Infos, Fit(p), NEW failed \in BOOLEAN,
         Boot(p, failed), mcu' = mcu, faults' = faults \/ Fault,
         (asked' = asked /\ replies' = replies) \/ (asked' = 0 /\ replies' = 0)
  PROVE  InfoInv'
<1>1. /\ page' \in Infos /\ Fit(page)'
      /\ product_info' \in Infos /\ IsInitApp' \in BOOLEAN
      /\ misread' \in BOOLEAN /\ resetPending' = FALSE /\ pc' = "loop" /\ received' = 0
      /\ ~(mcu.p /\ misread)' => Fit(product_info)'
      /\ InfoIsWhole'
  BY BootKeeps
<1>2. /\ mcu \in Replies /\ faults \in 0 .. MaxFaults
      /\ asked \in Nat /\ replies \in Nat /\ received \in Nat
      /\ asked + replies + received <= MaxOutstanding
  BY DEF InfoInv, TypeOK
<1>3. faults' \in 0 .. MaxFaults
  BY <1>2 DEF Fault
<1>4. /\ asked' \in Nat /\ replies' \in Nat
      /\ asked' + replies' + received' <= MaxOutstanding
  BY <1>1, <1>2
<1> QED
  BY <1>1, <1>2, <1>3, <1>4 DEF InfoInv, TypeOK

LEMMA InfoStart == Init => InfoInv
<1> SUFFICES ASSUME Init
             PROVE  InfoInv
  OBVIOUS
<1>1. Blank \in Infos /\ Fit(Blank)
  BY Constants DEF Fit
<1>2. /\ asked + replies + received <= MaxOutstanding
      /\ faults \in 0 .. MaxFaults /\ received \in Nat
  BY DEF Init
<1> QED
  BY <1>1, <1>2 DEF Init, InfoInv, TypeOK, InfoIsWhole

LEMMA InfoStep == InfoInv /\ [Next]_vars => InfoInv'
<1> SUFFICES ASSUME InfoInv, [Next]_vars
             PROVE  InfoInv'
  OBVIOUS
<1>1. mcu \in Replies /\ product_info \in Infos /\ page \in Infos /\ Fit(page)
  BY DEF InfoInv, TypeOK
<1>0. mcu' = mcu => Whole' = Whole
  BY DEF Whole, Told
<1>2. CASE UpdateNumberDevice
  BY <1>0, <1>2 DEF UpdateNumberDevice,
         InfoInv, TypeOK, InfoIsWhole, Fit
<1>3. CASE McuReplies
  BY <1>0, <1>3 DEF McuReplies,
         InfoInv, TypeOK, InfoIsWhole, Fit
<1>4. CASE Arrives
  BY <1>0, <1>4 DEF Arrives,
         InfoInv, TypeOK, InfoIsWhole, Fit
<1>5. CASE Lost
  BY <1>0, <1>5 DEF Lost, Fault,
         InfoInv, TypeOK, InfoIsWhole, Fit
<1>6. CASE get_product_info
  <2>1. PICK info \in IF mcu.p THEN Told ELSE {product_info} : product_info' = info
    BY <1>6 DEF get_product_info
  <2>2. mcu.p \/ Fit(product_info)
    BY DEF InfoInv
  <2>3. info \in Infos /\ Fit(info) /\ (mcu.p => info \in Whole)
    BY <1>1, <2>2, ToldFits
  <2>4. mcu' = mcu /\ misread' = misread /\ IsInitApp' = IsInitApp /\ page' = page
    BY <1>6 DEF get_product_info
  <2>5. InfoIsWhole'
    BY <1>0, <2>1, <2>3, <2>4 DEF InfoInv, InfoIsWhole
  <2>6. Fit(product_info)' /\ Fit(page)'
    BY <1>0, <1>1, <2>1, <2>3, <2>4 DEF Fit
  <2>7. TypeOK'
    BY <1>6, <2>1, <2>3 DEF get_product_info, line, InfoInv, TypeOK
  <2> QED
    BY <2>5, <2>6, <2>7 DEF InfoInv
<1>7. CASE FlashErase
  BY <1>0, <1>7, Constants DEF FlashErase, Fault, line,
         InfoInv, TypeOK, InfoIsWhole, Fit
<1>8. CASE FlashWrite
  <2>1. page' \in {product_info} \cup Prefixes(product_info)
    BY <1>8 DEF FlashWrite
  <2>2. Fit(product_info)
    BY <1>8 DEF FlashWrite, InfoInv
  <2>3. page' \in Infos /\ (Written(page') => page' \in Whole)
    <3>1. CASE page' = product_info
      BY <1>1, <2>2, <3>1 DEF Fit
    <3>2. CASE page' \in Prefixes(product_info)
      BY <1>1, <3>2, PrefixesFit DEF Fit
    <3> QED
      BY <2>1, <3>1, <3>2
  <2> QED
    BY <1>0, <1>8, <2>3 DEF FlashWrite, Fault, line, InfoInv, TypeOK, InfoIsWhole, Fit
<1>9. CASE ScheduleFactoryReset
  BY <1>0, <1>9 DEF ScheduleFactoryReset, line,
         InfoInv, TypeOK, InfoIsWhole, Fit
<1>10. \A p \in Left : p \in Infos /\ Fit(p)
  <2>1. \A p \in Prefixes(product_info) : p \in Infos /\ Fit(p)
    BY <1>1, PrefixesFit
  <2> QED
    BY <1>1, <2>1 DEF Left
<1>11. CASE FactoryReset
  <2>1. /\ mcu' = mcu /\ asked' = asked /\ replies' = replies
        /\ \/ (\E p \in Left : Boot(p, FALSE)) /\ faults' = faults
           \/ Boot(page, TRUE) /\ Fault
    BY <1>11 DEF FactoryReset, line
  <2>2. CASE Boot(page, TRUE) /\ Fault
    BY <1>1, <2>1, <2>2, Rebooted
  <2>3. CASE (\E p \in Left : Boot(p, FALSE)) /\ faults' = faults
    <3>1. PICK p \in Left : Boot(p, FALSE)
      BY <2>3
    <3> QED
      BY <1>10, <2>1, <2>3, <3>1, Rebooted
  <2> QED
    BY <2>1, <2>2, <2>3
<1>12. CASE PowerFails
  <2>1. PICK p \in Left : Boot(p, FALSE)
    BY <1>12 DEF PowerFails
  <2>2. mcu' = mcu /\ asked' = 0 /\ replies' = 0 /\ Fault
    BY <1>12 DEF PowerFails
  <2> QED
    BY <1>10, <2>1, <2>2, Rebooted
<1>13. CASE ControlCMD \/ OnFabricRemoved
  <2>1. /\ mcu' = mcu /\ page' = page /\ product_info' = product_info
        /\ IsInitApp' = IsInitApp /\ asked' = asked /\ replies' = replies
        /\ received' = received /\ pc' = pc /\ misread' = misread
        /\ resetPending' = TRUE /\ Fault
    BY <1>13 DEF ControlCMD, OnFabricRemoved, ScheduleElsewhere, line
  <2>2. faults' \in 0 .. MaxFaults
    BY <1>1, <2>1 DEF Fault, InfoInv, TypeOK
  <2>3. TypeOK'
    BY <2>1, <2>2 DEF InfoInv, TypeOK
  <2>4. InfoIsWhole'
    BY <1>0, <2>1 DEF InfoInv, InfoIsWhole
  <2> QED
    BY <1>0, <2>1, <2>3, <2>4 DEF InfoInv, Fit
<1>14. CASE UNCHANGED vars
  BY <1>0, <1>14 DEF vars, InfoInv, TypeOK, InfoIsWhole, Fit
<1> QED
  BY <1>2, <1>3, <1>4, <1>5, <1>6, <1>7, <1>8, <1>9, <1>11, <1>12, <1>13,
     <1>14
     DEF Next, App, write_product_info

-----------------------------------------------------------------------------
\* UserInit, UpdateNumberDevice and get_product_info keep their variables in range,
\* and no more queries and replies are under way than were sent.
THEOREM TypesOfProvisioning == Spec => []TypeOK
BY InfoStart, InfoStep, PTL DEF Spec, InfoInv

\* UserInit never takes a page that was not written to its end for one that was,
\* whatever the replies carry or leave out.
THEOREM NoHalfWrittenInfo == Spec => []InfoIsWhole
BY InfoStart, InfoStep, PTL DEF Spec, InfoInv
=============================================================================
