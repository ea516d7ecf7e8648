------------------------------- MODULE McuOta -------------------------------
(***************************************************************************)
(* The update of the MCU's firmware over the serial line (protocol_define  *)
(* .cpp and system_define.cpp, compiled with SUPPORT_MCU_OTA).  The RF     *)
(* module offers an image (response_mcu_ota_notify_event), the board asks  *)
(* for it packet by packet (mcu_ota_fw_request, whose comment wants a      *)
(* timer to call it again when no answer came), and each packet is added   *)
(* to the check sum and stored (mcu_ota_fw_request_event); after the last  *)
(* one the result is reported.                                             *)
(*                                                                         *)
(* External are the timer, the flash behind ota_fw_data_handle, and the    *)
(* other side: it offers images, and answers requests in the order they    *)
(* came, once, twice, with an error, or not at all.                        *)
(***************************************************************************)
EXTENDS Integers, Sequences

CONSTANTS
  Pid,              \* the product this firmware is for, PRODUCT_KEY
  CurrentVersion,   \* get_current_mcu_fw_ver()
  Packet,           \* FW_SINGLE_PACKET_SIZE, 48 in the build
  MaxSize,          \* bound: the largest image
  Contents,         \* Contents[v]: the bytes of the image of version v
  Sums,             \* Sums[v][k]: the first k of them added up
  Offers,           \* the offers the other side may make, see OfferType
  MaxOffers,        \* bound: how often it makes one
  MaxAsked          \* bound: requests that are not answered yet

Versions == DOMAIN Contents
Positions == 0 .. MaxSize - 1

\* What the frame of an offer says: for which product, the version, the size and the
\* check sum of the image.
OfferType == [pid : {Pid, "other"}, ver : Versions, size : 0 .. MaxSize, checksum : Nat]

\* An offer that gives a size gives the image's; the check sum may be wrong.
ASSUME OtaAssumption ==
  /\ Packet \in Nat \ {0} /\ MaxSize \in Nat /\ MaxOffers \in Nat /\ MaxAsked \in Nat
  /\ Versions \subseteq Nat \ {0} /\ CurrentVersion \in Nat
  /\ Pid # "other" /\ Pid # "none"
  /\ \A v \in Versions :
       /\ Contents[v] \in Seq(Nat) /\ Len(Contents[v]) <= MaxSize
       /\ Sums[v] \in [0 .. Len(Contents[v]) -> Nat] /\ Sums[v][0] = 0
       /\ \A k \in 1 .. Len(Contents[v]) : Sums[v][k] = Sums[v][k - 1] + Contents[v][k]
  /\ Offers \subseteq OfferType
  /\ \A o \in Offers : o.size \in {0, Len(Contents[o.ver])}

Blank == -1

VARIABLES
  ota_fw_info,      \* the offer that came last
  mcu_current_offset, \* and how much of it has come (a field of ota_fw_info)
  current_mcu_pid,  \* set by the first offer
  current_checksum, \* a static variable of mcu_ota_fw_request_event
  asked,            \* the requests the other side has not answered yet
  flash,            \* the bytes given to ota_fw_data_handle
  reported,         \* the results reported since the offer, the first two of them
  offers            \* the offers made

otaVars == <<ota_fw_info, mcu_current_offset, current_mcu_pid, current_checksum,
             asked, flash, reported, offers>>

NoOffer == [pid |-> "none", ver |-> 0, size |-> 0, checksum |-> 0]

OtaInit ==
  /\ ota_fw_info = NoOffer
  /\ mcu_current_offset = 0
  /\ current_mcu_pid = "none"
  /\ current_checksum = 0
  /\ asked = <<>>
  /\ flash = [p \in Positions |-> Blank]
  /\ reported = <<>>
  /\ offers = 0

-----------------------------------------------------------------------------
\* Whether an offer is answered with OK.
Accepts(o) == o.pid = Pid /\ o.ver > CurrentVersion /\ o.size > 0

\* An offer starts from the first byte, a refused one as well.
OffsetAfterOffer(o) == 0

\* ota_fw_info is filled from the frame before the offer is judged.
response_mcu_ota_notify_event(o) ==
  /\ current_mcu_pid' = Pid
  /\ ota_fw_info' = o
  /\ mcu_current_offset' = OffsetAfterOffer(o)
  /\ reported' = <<>>
  /\ UNCHANGED <<current_checksum, asked, flash>>

Offer == \E o \in Offers :
  /\ offers < MaxOffers
  /\ offers' = offers + 1
  /\ response_mcu_ota_notify_event(o)

\* The request carries product, version and offset, and asks for Packet bytes.
mcu_ota_fw_request ==
  /\ mcu_current_offset < ota_fw_info.size
  /\ Len(asked) < MaxAsked
  /\ asked' = Append(asked, [pid |-> ota_fw_info.pid, ver |-> ota_fw_info.ver,
                             offset |-> mcu_current_offset])
  /\ UNCHANGED <<ota_fw_info, mcu_current_offset, current_mcu_pid, current_checksum,
                 flash, reported, offers>>

-----------------------------------------------------------------------------
\* Mutant: the version is compared with the one that runs.
IsForThisVersion(request) ==
  /\ request.pid = current_mcu_pid
  /\ request.ver = CurrentVersion
  /\ request.offset = mcu_current_offset

\* The frame passes the tests of pid and version, and is the next one.
IsExpected(request) ==
  /\ request.pid = current_mcu_pid
  /\ request.ver = ota_fw_info.ver
  /\ request.offset = mcu_current_offset

Left == ota_fw_info.size - mcu_current_offset

IsFull == Left \div Packet # 0

\* The bytes of the image that are taken from the frame.
Length == IF IsFull THEN Packet ELSE Left

OffsetAfterPacket == mcu_current_offset + Length

\* Mutant: the sum goes on from the last update.
SumGoesOn == current_checksum

\* A full packet at offset 0 starts the sum; a short one does not.
SumBefore == IF IsFull /\ mcu_current_offset = 0 THEN 0 ELSE current_checksum

SumAfter(ver) ==
  SumBefore + Sums[ver][mcu_current_offset + Length] - Sums[ver][mcu_current_offset]

\* Mutant: ota_fw_data_handle gets the offset behind the packet.
StoreAtNext == mcu_current_offset + Length

\* ota_fw_data_handle gets the offset the frame was asked for, not the new one.
StoreAt == mcu_current_offset

ota_fw_data_handle(ver) ==
  flash' = [p \in Positions |->
              IF p \in StoreAt .. StoreAt + Length - 1
              THEN Contents[ver][mcu_current_offset + p - StoreAt + 1] ELSE flash[p]]

Result(ver) == IF ota_fw_info.checksum = SumAfter(ver) THEN "success" ELSE "failed"

\* A frame that answers a request with the bytes of the image.  The last one, when
\* it is shorter than a packet, has the result reported and the sum cleared.
mcu_ota_fw_request_event(request) ==
  IF IsExpected(request)
  THEN /\ mcu_current_offset' = OffsetAfterPacket
       /\ current_checksum' = IF IsFull THEN SumAfter(request.ver) ELSE 0
       /\ reported' = IF IsFull \/ Len(reported) = 2 THEN reported
                      ELSE Append(reported, Result(request.ver))
       /\ ota_fw_data_handle(request.ver)
       /\ UNCHANGED <<ota_fw_info, current_mcu_pid>>
  ELSE UNCHANGED <<ota_fw_info, mcu_current_offset, current_mcu_pid, current_checksum,
                   flash, reported>>

\* The other side answers its oldest request.
Answer ==
  /\ asked # <<>>
  /\ mcu_ota_fw_request_event(asked[1])
  /\ asked' = Tail(asked)
  /\ UNCHANGED offers

\* It answers the same request once more later on.
AnswerTwice ==
  /\ asked # <<>>
  /\ mcu_ota_fw_request_event(asked[1])
  /\ UNCHANGED <<asked, offers>>

\* It has no answer, or an error, at which mcu_ota_fw_request_event returns at once.
NoAnswer ==
  /\ asked # <<>>
  /\ asked' = Tail(asked)
  /\ UNCHANGED <<ota_fw_info, mcu_current_offset, current_mcu_pid, current_checksum,
                 flash, reported, offers>>

OtaNext == Offer \/ mcu_ota_fw_request \/ Answer \/ AnswerTwice \/ NoAnswer

-----------------------------------------------------------------------------
Request == [pid : {Pid, "other"}, ver : Versions, offset : Nat]

OtaTypeOK ==
  /\ ota_fw_info \in Offers \cup {NoOffer}
  /\ mcu_current_offset \in Nat
  /\ current_mcu_pid \in {"none", Pid}
  /\ current_checksum \in Int
  /\ asked \in Seq(Request)
  /\ flash \in [Positions -> Nat \cup {Blank}]
  /\ reported \in Seq({"success", "failed"})
  /\ offers \in 0 .. MaxOffers

\* Whatever answers are late, repeated or missing, and however often an update is cut
\* off by the next offer: the part of the image that counts as received (up to
\* mcu_current_offset, from which the next request goes on) is in the flash, byte for
\* byte, and never reaches over the end of the image, where the unsigned difference
\* in mcu_ota_fw_request_event would wrap.
ImageInOrder ==
  /\ mcu_current_offset <= ota_fw_info.size
  /\ \A p \in 0 .. mcu_current_offset - 1 : flash[p] = Contents[ota_fw_info.ver][p + 1]

\* Success is reported only when the whole image is in the flash; when the image has
\* at least one full packet, the result says whether the check sum of the offer is the
\* image's, whatever was received of other images before (the sum is not cleared for
\* a shorter image, which fails after an update that was cut off); and answers that
\* come twice do not report the result of an image twice.
ResultIsRight ==
  /\ ota_fw_info.size > 0 => Len(reported) <= 1
  /\ \A n \in 1 .. Len(reported) :
       /\ reported[n] = "success" => mcu_current_offset = ota_fw_info.size
       /\ ota_fw_info.size >= Packet =>
            (reported[n] = "success"
               <=> ota_fw_info.checksum = Sums[ota_fw_info.ver][ota_fw_info.size])

\* The board keeps asking, so an image that was accepted comes to its result, unless
\* another offer takes its place.  (An image of whole packets never does: only a
\* short packet makes mcu_ota_fw_request_event report.)
UpdateEnds == \A k \in 1 .. MaxOffers :
  (offers = k /\ Accepts(ota_fw_info) /\ ota_fw_info.size % Packet # 0)
    ~> (reported # <<>> \/ offers > k)

=============================================================================
