---------------------------- MODULE Provisioning ----------------------------
(***************************************************************************)
(* How the lamp learns what it is (mainCommon.cpp, mcu_api.cpp,            *)
(* AppTaskCommon.cpp, AppTask.cpp).  At boot UserInit reads the product    *)
(* info from a flash page; while the page is blank a timer asks            *)
(* the MCU every second.  Each reply is stored in RAM, the page is erased  *)
(* and written, and a factory reset is scheduled, which reboots the lamp   *)
(* from the CHIP thread whatever the application thread is doing, and      *)
(* which other parts may ask for too.  Power may fail at any point, and    *)
(* every flash operation, whose result the code ignores or acts on too     *)
(* late, may fail.                                                        *)
(***************************************************************************)
EXTENDS Integers

CONSTANTS
  Numbers,         \* numbers of channels that a reply may give, or NULL be read as
  MaxOutstanding,  \* queries and replies under way at a time
  MaxFaults        \* bound on power failures, flash errors, lost frames and the
                   \* resets that have nothing to do with the product info

ASSUME ProvisioningAssumption ==
  /\ Numbers \subseteq 0 .. 255
  /\ MaxOutstanding \in Nat \ {0} /\ MaxFaults \in Nat

\* A ProductInfo_t: product_id as a name and the number of channels in the last byte.
\* The version between them, which nothing reads, is left out.  An erased page reads
\* 0xFF in every byte.
Blank  == [name |-> "blank",   num_channels |-> 255]
Torn   == [name |-> "torn",    num_channels |-> 255]   \* written half way
Static == [name |-> "unknown", num_channels |-> 1]     \* the initialiser in RAM

\* The replies an MCU may give: with a product id ("p") or without, and with the
\* numbers of channels that get_product_info may read from them.  It reads the number
\* only from a reply with "p", and without looking whether there is a "c": without one
\* it reads what lies at the address 5.  A character that is no digit gives a number
\* too, '/' the 255 of an erased page.
Replies ==
  [p : {TRUE}, c : {{n} : n \in Numbers} \cup {Numbers}] \cup [p : {FALSE}, c : {{}}]

VARIABLES
  mcu,           \* what the MCU replies
  page,          \* what is in the flash page
  product_info,  \* the copy in RAM
  IsInitApp,     \* was the page found written at boot?
  asked,         \* queries on their way to the MCU or in it
  replies,       \* replies on the line
  received,      \* replies in queue_data_rx
  pc,            \* what get_product_info does next
  resetPending,  \* has a factory reset been scheduled?
  misread,       \* did flash_read fail at boot?
  faults         \* faults so far

vars == <<mcu, page, product_info, IsInitApp, asked, replies, received, pc,
          resetPending, misread, faults>>

line == <<asked, replies>>
-----------------------------------------------------------------------------
\* Mutant: the lamp is never found initialised.
NeverWritten(info) == FALSE

\* UserInit's test of the last byte.
Written(info) == info.num_channels # 255

\* main up to the event loop: UserInit reads the page p; when flash_read fails the
\* static initialiser stays in RAM.
Boot(p, failed) ==
  LET info == IF failed THEN Static ELSE p
  IN /\ page' = p
     /\ product_info' = info
     /\ IsInitApp' = Written(info)
     /\ misread' = failed
     /\ received' = 0
     /\ pc' = "loop"
     /\ resetPending' = FALSE

Init ==
  /\ mcu \in Replies
  /\ page = Blank
  /\ product_info = Blank
  /\ IsInitApp = FALSE
  /\ asked = 0 /\ replies = 0 /\ received = 0
  /\ pc = "loop"
  /\ resetPending = FALSE
  /\ misread = FALSE
  /\ faults = 0

Fault == faults < MaxFaults /\ faults' = faults + 1

-----------------------------------------------------------------------------
(***************************************************************************)
(* The line and the MCU.                                                   *)
(***************************************************************************)
\* update_number_device_timer runs only when the page was blank at boot.
UpdateNumberDevice ==
  /\ pc = "loop"
  /\ ~IsInitApp
  /\ asked + replies + received < MaxOutstanding
  /\ asked' = asked + 1
  /\ UNCHANGED <<mcu, page, product_info, IsInitApp, replies, received, pc,
                 resetPending, misread, faults>>

McuReplies ==
  /\ asked > 0
  /\ asked' = asked - 1
  /\ replies' = replies + 1
  /\ UNCHANGED <<mcu, page, product_info, IsInitApp, received, pc, resetPending,
                 misread, faults>>

Arrives ==
  /\ replies > 0
  /\ replies' = replies - 1
  /\ received' = received + 1
  /\ UNCHANGED <<mcu, page, product_info, IsInitApp, asked, pc, resetPending,
                 misread, faults>>

Lost ==
  /\ Fault
  /\ \/ asked > 0 /\ asked' = asked - 1 /\ UNCHANGED replies
     \/ replies > 0 /\ replies' = replies - 1 /\ UNCHANGED asked
  /\ UNCHANGED <<mcu, page, product_info, IsInitApp, received, pc, resetPending, misread>>

-----------------------------------------------------------------------------
(***************************************************************************)
(* The application thread.                                                 *)
(***************************************************************************)
\* What a reply with "p" leaves in RAM.
Told == {[name |-> "lamp", num_channels |-> n] : n \in mcu.c}

\* ControlCMD calls get_product_info, which takes the reply over into RAM.  One without
\* "p" changes nothing, but what RAM holds is written and the lamp reset all the same.
get_product_info ==
  /\ pc = "loop"
  /\ received > 0
  /\ received' = received - 1
  /\ product_info' \in IF mcu.p THEN Told ELSE {product_info}
  /\ pc' = IF product_info'.num_channels # 0 THEN "erase" ELSE "loop"
  /\ UNCHANGED <<mcu, page, IsInitApp, line, resetPending, misread, faults>>

\* write_product_info gives up when flash_erase fails, its caller does not.
FlashErase ==
  /\ pc = "erase"
  /\ \/ page' = Blank /\ pc' = "write" /\ UNCHANGED faults
     \/ Fault /\ pc' = "schedule" /\ UNCHANGED page
  /\ UNCHANGED <<mcu, product_info, IsInitApp, line, received, resetPending, misread>>

\* Mutant: the number of channels is stored first.
NumberFirst(info) == {Blank, [name |-> "torn", num_channels |-> info.num_channels]}

\* What an interrupted flash_write of info may leave: it goes from the first byte to
\* the last.
Prefixes(info) == {Blank, Torn, [info EXCEPT !.num_channels = 255]}

FlashWrite ==
  /\ pc = "write"
  /\ \/ page' = product_info /\ UNCHANGED faults
     \/ Fault /\ page' \in Prefixes(product_info)
  /\ pc' = "schedule"
  /\ UNCHANGED <<mcu, product_info, IsInitApp, line, received, resetPending, misread>>

\* Mutant: the new info is used without a reboot.
ScheduleNothing ==
  /\ pc = "schedule"
  /\ pc' = "loop"
  /\ UNCHANGED <<mcu, page, product_info, IsInitApp, line, received, resetPending,
                 misread, faults>>

ScheduleFactoryReset ==
  /\ pc = "schedule"
  /\ resetPending' = TRUE
  /\ pc' = "loop"
  /\ UNCHANGED <<mcu, page, product_info, IsInitApp, line, received, misread, faults>>

write_product_info == FlashErase \/ FlashWrite

App == get_product_info \/ write_product_info \/ ScheduleFactoryReset

-----------------------------------------------------------------------------
(***************************************************************************)
(* Reboots.  The factory reset runs on the CHIP thread and may come while  *)
(* get_product_info is working on the next reply; what the MCU still has   *)
(* to say then reaches the lamp after the reboot.                          *)
(***************************************************************************)
\* A reset asked for elsewhere.
ScheduleElsewhere ==
  /\ Fault
  /\ resetPending' = TRUE
  /\ UNCHANGED <<mcu, page, product_info, IsInitApp, line, received, pc, misread>>

\* By the MCU's factory-new or configuration command, one frame at a time on the
\* application thread.
ControlCMD == pc = "loop" /\ ScheduleElsewhere

\* By the CHIP thread, when the last fabric goes after a session that failed.
OnFabricRemoved == ScheduleElsewhere

\* What the page may hold when the lamp is stopped now.
Left == {page} \cup (IF pc = "write" THEN Prefixes(product_info) ELSE {})

FactoryReset ==
  /\ resetPending
  /\ \/ (\E p \in Left : Boot(p, FALSE)) /\ UNCHANGED faults
     \/ Fault /\ Boot(page, TRUE)
  /\ UNCHANGED <<mcu, line>>

\* A power failure takes the MCU with it, and may interrupt a write.
PowerFails ==
  /\ Fault
  /\ \E p \in Left : Boot(p, FALSE)
  /\ asked' = 0 /\ replies' = 0
  /\ UNCHANGED mcu

Next ==
  \/ UpdateNumberDevice \/ McuReplies \/ Arrives \/ Lost
  \/ App \/ ControlCMD
  \/ OnFabricRemoved \/ FactoryReset \/ PowerFails

Spec == Init /\ [][Next]_vars

\* The timer, the event loop and the CHIP thread run, the MCU answers, the line
\* carries; faults need not happen.
FairSpec ==
  /\ Spec
  /\ WF_vars(UpdateNumberDevice) /\ WF_vars(McuReplies) /\ WF_vars(Arrives)
  /\ WF_vars(App) /\ WF_vars(FactoryReset)

-----------------------------------------------------------------------------
(***************************************************************************)
(* Properties.                                                             *)
(***************************************************************************)
Infos == [name : {"blank", "torn", "lamp", "unknown"}, num_channels : Numbers \cup {1, 255}]

TypeOK ==
  /\ mcu \in Replies
  /\ page \in Infos
  /\ product_info \in Infos
  /\ IsInitApp \in BOOLEAN
  /\ asked \in Nat /\ replies \in Nat /\ received \in Nat
  /\ asked + replies + received <= MaxOutstanding
  /\ pc \in {"loop", "erase", "write", "schedule"}
  /\ resetPending \in BOOLEAN /\ misread \in BOOLEAN
  /\ faults \in 0 .. MaxFaults

\* Wherever power fails, a flash operation fails or the factory reset of an earlier
\* reply cuts in, UserInit never takes a half-written page for a written one: a lamp
\* that does not ask any more has what a reply left (unless flash_read itself failed,
\* which the code ignores).  Replies without "p" leave nothing; with them a page can
\* only have been written with the initialiser, after an earlier flash_read failed.
Whole       == IF mcu.p THEN Told ELSE {Static}
InfoIsWhole == IsInitApp /\ ~misread => product_info \in Whole

\* The invariant behind it: a page that reads as written is whole, and so is what is
\* about to be written.
Fit(info) == Written(info) => info \in Whole

InfoInv ==
  /\ TypeOK
  /\ Fit(page)
  /\ pc \in {"erase", "write"} => Fit(product_info)
  /\ ~(mcu.p /\ misread) => Fit(product_info)
  /\ InfoIsWhole

\* The timing the code relies on: in the end a reset comes before the next reply is
\* taken up, or after it was stored.  Without it the resets may go on for ever, each
\* of them between the erase and the write that follow another reply.
ResetsDoNotCutIn == <>[](resetPending => pc \in {"loop", "schedule"})

\* The replies the code relies on: they have a product id, and a number of channels
\* that an erased page does not have.  Every other reply leaves 255 in the last byte, or
\* may leave it: a lamp that gets those writes its page and resets at every boot, for
\* ever.
TellsNumber == mcu.p /\ 255 \notin mcu.c

\* Then, with replies that tell the number, get_product_info stops resetting the lamp
\* once the faults are over: the replies to queries of an earlier boot, each of which
\* resets it again, run out.
ResetsStop == TellsNumber /\ ResetsDoNotCutIn => <>[]~resetPending

\* And with replies that tell a number other than 0, a lamp with a blank, torn or
\* half-written page gets its product info from the MCU in the end, and keeps it.
GetsItsInfo ==
  TellsNumber /\ 0 \notin mcu.c /\ ResetsDoNotCutIn =>
    <>[](IsInitApp /\ (misread \/ page \in Told))
=============================================================================
