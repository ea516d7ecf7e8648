---------------------------- MODULE McuSdkProofs ----------------------------
(***************************************************************************)
(* The MCU's end of the line, for every lamp, frame, image and time that   *)
(* the assumptions allow.                                                  *)
(*                                                                         *)
(* The update: a step of McuSdk is a step of McuOta or leaves its          *)
(* variables alone; OtaInv adds to the two properties what the check sum   *)
(* is in the middle of an image, and that no request asks for more than an *)
(* image has.  The clock: the two loops of RTC_Get turn every day's number *)
(* into its date.  The data points: what the bytes of a point and of a     *)
(* number decode to, what the table and the handlers answer to a point     *)
(* (PointSays), and SdkInv, which says how far the loops have come in a    *)
(* frame and that the answers are what its points so far are owed.         *)
(***************************************************************************)
EXTENDS McuSdk, SequenceTheorems, WellFoundedInduction, TLAPS

\* An update goes on only as a step of McuOta, whatever else data_handle does.
LEMMA OnlyOtaUpdates ==
  ASSUME [Next]_vars
  PROVE  [OtaNext]_otaVars
<1>1. CASE Receive
  BY <1>1 DEF Receive
<1>2. CASE data_handle
  BY <1>2 DEF data_handle, rf_data_point_handle, rf_data_respond_handle, HandlePoint,
              handler_status_device, Handled
<1>3. CASE Reply \/ mcu_write_rtctime \/ BoardReports
  BY <1>3 DEF Reply, mcu_write_rtctime, BoardReports
<1>4. CASE Updating(OtaNext)
  BY <1>4 DEF Updating
<1>5. CASE UNCHANGED vars
  BY <1>5 DEF vars
<1> QED
  BY <1>1, <1>2, <1>3, <1>4, <1>5 DEF Next

-----------------------------------------------------------------------------
\* No request is for an offset behind the end of its image.
AskedInside == \A n \in 1 .. Len(asked) :
  asked[n].offset < Len(Contents[asked[n].ver])

\* In the middle of an image of at least one full packet, the sum is that of the part
\* received, and no result was reported.
SumIsPrefix ==
  /\ ota_fw_info.size >= Packet /\ mcu_current_offset \in 1 .. ota_fw_info.size - 1
       => current_checksum = Sums[ota_fw_info.ver][mcu_current_offset]
  /\ mcu_current_offset < ota_fw_info.size => reported = <<>>

OtaInv == OtaTypeOK /\ ImageInOrder /\ ResultIsRight /\ AskedInside /\ SumIsPrefix

-----------------------------------------------------------------------------
\* What an offer says; one that gives a size gives the image's.
LEMMA OfferKnown ==
  ASSUME ota_fw_info \in Offers \cup {NoOffer}
  PROVE  /\ ota_fw_info.size \in Nat /\ ota_fw_info.checksum \in Nat
         /\ ota_fw_info.ver \in Nat
         /\ ota_fw_info.size > 0 => /\ ota_fw_info.ver \in Versions
                                    /\ ota_fw_info.size = Len(Contents[ota_fw_info.ver])
<1>1. CASE ota_fw_info = NoOffer
  BY <1>1 DEF NoOffer
<1>2. CASE ota_fw_info \in Offers
  <2>1. ota_fw_info \in OfferType
    BY <1>2, OtaAssumption
  <2>2. ota_fw_info.size \in {0, Len(Contents[ota_fw_info.ver])}
    BY <1>2, OtaAssumption
  <2>3. Versions \subseteq Nat /\ MaxSize \in Nat
    BY OtaAssumption
  <2>4. /\ ota_fw_info.size \in 0 .. MaxSize /\ ota_fw_info.checksum \in Nat
        /\ ota_fw_info.ver \in Versions
    BY <2>1 DEF OfferType
  <2>5. ota_fw_info.size \in Nat
    BY <2>3, <2>4
  <2>6. ota_fw_info.ver \in Nat
    BY <2>3, <2>4, Zenon
  <2> QED
    BY <2>2, <2>4, <2>5, <2>6
<1> QED
  BY <1>1, <1>2

LEMMA InitInv ==
  ASSUME OtaInit
  PROVE  OtaInv
<1>1. OtaTypeOK
  BY OtaAssumption DEF OtaInit, OtaTypeOK
<1>2. ImageInOrder /\ SumIsPrefix
  BY DEF OtaInit, ImageInOrder, SumIsPrefix, NoOffer
<1>3. ResultIsRight /\ AskedInside
  BY DEF OtaInit, ResultIsRight, AskedInside, NoOffer
<1> QED
  BY <1>1, <1>2, <1>3 DEF OtaInv

LEMMA OfferKeeps ==
  ASSUME OtaInv, Offer
  PROVE  OtaInv'
<1>1. PICK o \in Offers : /\ offers < MaxOffers /\ offers' = offers + 1
                          /\ response_mcu_ota_notify_event(o)
  BY DEF Offer
<1>2. /\ ota_fw_info' = o /\ mcu_current_offset' = 0 /\ reported' = <<>>
      /\ current_mcu_pid' = Pid /\ UNCHANGED <<current_checksum, asked, flash>>
  BY <1>1 DEF response_mcu_ota_notify_event, OffsetAfterOffer
<1>3. offers' \in 0 .. MaxOffers
  BY <1>1, OtaAssumption DEF OtaInv, OtaTypeOK
<1>4. OtaTypeOK'
  BY <1>2, <1>3 DEF OtaInv, OtaTypeOK
<1>5. o.size \in Nat
  BY OtaAssumption DEF OfferType
<1>6. Len(reported') = 0
  BY <1>2
<1>7. ImageInOrder' /\ SumIsPrefix'
  BY <1>2, <1>5 DEF ImageInOrder, SumIsPrefix
<1>8. ResultIsRight'
  BY <1>6 DEF ResultIsRight
<1>9. AskedInside'
  BY <1>2 DEF OtaInv, AskedInside
<1> QED
  BY <1>4, <1>7, <1>8, <1>9 DEF OtaInv

LEMMA AskKeeps ==
  ASSUME OtaInv, mcu_ota_fw_request
  PROVE  OtaInv'
<1> DEFINE r == [pid |-> ota_fw_info.pid, ver |-> ota_fw_info.ver,
                 offset |-> mcu_current_offset]
<1>1. /\ mcu_current_offset < ota_fw_info.size /\ asked' = Append(asked, r)
      /\ UNCHANGED <<ota_fw_info, mcu_current_offset, current_mcu_pid, current_checksum,
                     flash, reported, offers>>
  BY DEF mcu_ota_fw_request
<1>2. mcu_current_offset \in Nat /\ ota_fw_info \in Offers \cup {NoOffer}
      /\ asked \in Seq(Request)
  BY DEF OtaInv, OtaTypeOK
<1>3. /\ ota_fw_info.size > 0 /\ ota_fw_info.ver \in Versions
      /\ mcu_current_offset < Len(Contents[ota_fw_info.ver])
  BY <1>1, <1>2, OfferKnown
<1>4. ota_fw_info \in Offers
  BY <1>2, <1>3 DEF NoOffer
<1>5. r \in Request
  <2>1. ota_fw_info \in OfferType
    BY <1>4, OtaAssumption
  <2> QED
    BY <2>1, <1>2 DEF OfferType, Request
<1>6. /\ Append(asked, r) \in Seq(Request) /\ Len(Append(asked, r)) = Len(asked) + 1
      /\ \A n \in 1 .. Len(asked) : Append(asked, r)[n] = asked[n]
      /\ Append(asked, r)[Len(asked) + 1] = r
  BY <1>2, <1>5, AppendProperties
<1>7. OtaTypeOK'
  BY <1>1, <1>6 DEF OtaInv, OtaTypeOK
<1>8. ASSUME NEW n \in 1 .. Len(asked')
      PROVE  asked'[n].offset < Len(Contents[asked'[n].ver])
  <2>1. CASE n \in 1 .. Len(asked)
    BY <1>1, <1>6, <2>1 DEF OtaInv, AskedInside
  <2>2. CASE n = Len(asked) + 1
    BY <1>1, <1>3, <1>6, <2>2
  <2> QED
    BY <2>1, <2>2, <1>1, <1>2, <1>6
<1>9. ImageInOrder' /\ ResultIsRight' /\ SumIsPrefix'
  BY <1>1 DEF OtaInv, ImageInOrder, ResultIsRight, SumIsPrefix
<1> QED
  BY <1>7, <1>8, <1>9 DEF OtaInv, AskedInside

-----------------------------------------------------------------------------
(***************************************************************************)
(* A frame with bytes of the image.                                        *)
(***************************************************************************)
LEMMA FullHasRoom ==
  ASSUME NEW left \in Nat, NEW packet \in Nat \ {0}
  PROVE  left \div packet # 0 <=> left >= packet
OBVIOUS

\* What a frame takes of the image that is expected.
LEMMA LengthFits ==
  ASSUME OtaInv
  PROVE  /\ mcu_current_offset \in Nat /\ ota_fw_info.size \in Nat /\ Length \in Nat
         /\ IsFull => /\ Length = Packet /\ Length > 0
                      /\ mcu_current_offset + Length <= ota_fw_info.size
         /\ ~IsFull => /\ mcu_current_offset + Length = ota_fw_info.size
                       /\ mcu_current_offset + Packet > ota_fw_info.size
<1>1. /\ mcu_current_offset \in Nat /\ ota_fw_info.size \in Nat /\ Packet \in Nat \ {0}
      /\ mcu_current_offset <= ota_fw_info.size
  BY OfferKnown, OtaAssumption DEF OtaInv, OtaTypeOK, ImageInOrder
<1>2. Left \in Nat /\ mcu_current_offset + Left = ota_fw_info.size
  BY <1>1 DEF Left
<1>3. IsFull <=> Left >= Packet
  BY <1>1, <1>2, FullHasRoom DEF IsFull
<1>4. CASE IsFull
  <2>1. Length = Packet
    BY <1>4 DEF Length
  <2> QED
    BY <1>1, <1>2, <1>3, <1>4, <2>1
<1>5. CASE ~IsFull
  <2>1. Length = Left
    BY <1>5 DEF Length
  <2> QED
    BY <1>1, <1>2, <1>3, <1>5, <2>1
<1> QED
  BY <1>4, <1>5

\* An expected frame moves the part received on by Length bytes of the image.
LEMMA StoreKeeps ==
  ASSUME OtaInv, NEW ver, ver = ota_fw_info.ver, ota_fw_data_handle(ver),
         ota_fw_info' = ota_fw_info, mcu_current_offset' = mcu_current_offset + Length
  PROVE  ImageInOrder' /\ flash' \in [Positions -> Nat \cup {Blank}]
<1>1. /\ mcu_current_offset \in Nat /\ ota_fw_info.size \in Nat /\ Length \in Nat
      /\ mcu_current_offset + Length <= ota_fw_info.size
  BY LengthFits
<1>2. ota_fw_info.size > 0 => /\ ver \in Versions /\ Contents[ver] \in Seq(Nat)
                             /\ ota_fw_info.size = Len(Contents[ver])
                             /\ Len(Contents[ver]) <= MaxSize
  BY OfferKnown, OtaAssumption DEF OtaInv, OtaTypeOK
<1>3. ASSUME NEW p \in Positions
      PROVE  flash'[p] = IF p \in mcu_current_offset .. mcu_current_offset + Length - 1
                         THEN Contents[ver][p + 1] ELSE flash[p]
  <2>1. p \in Nat
    BY OtaAssumption DEF Positions
  <2>2. mcu_current_offset + p - mcu_current_offset + 1 = p + 1
    BY <1>1, <2>1
  <2> QED
    BY <2>2 DEF ota_fw_data_handle, StoreAt
<1>4. ASSUME NEW p \in 0 .. mcu_current_offset' - 1
      PROVE  flash'[p] = Contents[ota_fw_info'.ver][p + 1]
  <2>1. p \in Positions
    BY <1>1, <1>2, OtaAssumption DEF Positions
  <2>2. p \in 0 .. mcu_current_offset - 1 => flash[p] = Contents[ver][p + 1]
    BY DEF OtaInv, ImageInOrder
  <2>3. \/ p \in 0 .. mcu_current_offset - 1
        \/ p \in mcu_current_offset .. mcu_current_offset + Length - 1
    BY <1>1
  <2>4. p \in 0 .. mcu_current_offset - 1 =>
          p \notin mcu_current_offset .. mcu_current_offset + Length - 1
    BY <1>1
  <2> QED
    BY <1>3, <2>1, <2>2, <2>3, <2>4
<1>5. ImageInOrder'
  BY <1>1, <1>4 DEF ImageInOrder
<1>6. ASSUME NEW p \in Positions
      PROVE  flash'[p] \in Nat \cup {Blank}
  <2>1. CASE p \in mcu_current_offset .. mcu_current_offset + Length - 1
    <3>1. p + 1 \in 1 .. Len(Contents[ver]) /\ Contents[ver] \in Seq(Nat)
      BY <1>1, <1>2, <2>1
    <3>2. Contents[ver][p + 1] \in Nat
      BY <3>1, ElementOfSeq
    <3> QED
      BY <1>3, <2>1, <3>2
  <2>2. CASE p \notin mcu_current_offset .. mcu_current_offset + Length - 1
    BY <1>3, <2>2 DEF OtaInv, OtaTypeOK
  <2> QED
    BY <2>1, <2>2
<1>7. flash' \in [Positions -> Nat \cup {Blank}]
  BY <1>6 DEF ota_fw_data_handle
<1> QED
  BY <1>5, <1>7

\* The sum of an image with a full packet is the sum of the part received: the first
\* packet is a full one and starts it again.
LEMMA SumGrows ==
  ASSUME OtaInv, NEW ver, ver = ota_fw_info.ver, ota_fw_info.size >= Packet,
         mcu_current_offset < ota_fw_info.size
  PROVE  SumAfter(ver) = Sums[ver][mcu_current_offset + Length]
<1>1. /\ mcu_current_offset \in Nat /\ ota_fw_info.size \in Nat /\ Length \in Nat
      /\ mcu_current_offset + Length <= ota_fw_info.size
      /\ ~IsFull => mcu_current_offset + Packet > ota_fw_info.size
      /\ Packet \in Nat \ {0}
  BY LengthFits, OtaAssumption
<1>2. /\ ver \in Versions /\ ota_fw_info.size = Len(Contents[ver])
  BY <1>1, OfferKnown DEF OtaInv, OtaTypeOK
<1>3. Sums[ver] \in [0 .. ota_fw_info.size -> Nat] /\ Sums[ver][0] = 0
  BY <1>2, OtaAssumption
<1>4. /\ Sums[ver][mcu_current_offset] \in Nat
      /\ Sums[ver][mcu_current_offset + Length] \in Nat
  BY <1>1, <1>3
<1>5. SumBefore = Sums[ver][mcu_current_offset]
  <2>1. CASE mcu_current_offset = 0
    BY <1>1, <1>3, <2>1 DEF SumBefore
  <2>2. CASE mcu_current_offset # 0
    BY <1>1, <2>2 DEF SumBefore, OtaInv, SumIsPrefix
  <2> QED
    BY <2>1, <2>2
<1> QED
  BY <1>4, <1>5 DEF SumAfter

\* What an expected frame leaves of the reports: nothing was reported before it, unless
\* the offer gave no size.
LEMMA EventReports ==
  ASSUME OtaInv, NEW request, IsExpected(request), mcu_ota_fw_request_event(request),
         ota_fw_info.size > 0, mcu_current_offset < ota_fw_info.size
  PROVE  /\ ResultIsRight'
         /\ mcu_current_offset' < ota_fw_info.size => reported' = <<>>
<1>1. /\ mcu_current_offset' = mcu_current_offset + Length
      /\ reported' = IF IsFull \/ Len(reported) = 2 THEN reported
                     ELSE Append(reported, Result(request.ver))
      /\ ota_fw_info' = ota_fw_info
  BY DEF mcu_ota_fw_request_event, OffsetAfterPacket
<1>2. reported = <<>> /\ Len(reported) = 0
  BY DEF OtaInv, SumIsPrefix
<1>3. CASE IsFull
  <2>1. reported' = <<>> /\ Len(reported') = 0
    BY <1>1, <1>2, <1>3
  <2> QED
    BY <2>1 DEF ResultIsRight
<1>4. CASE ~IsFull
  <2>1. mcu_current_offset' = ota_fw_info.size
    BY <1>1, <1>4, LengthFits
  <2>2. reported' = <<Result(request.ver)>>
    BY <1>1, <1>2, <1>4
  <2>3. Len(reported') = 1 /\ reported'[1] = Result(request.ver)
    BY <2>2
  <2>4. ota_fw_info.size >= Packet =>
          (Result(request.ver) = "success"
             <=> ota_fw_info.checksum = Sums[ota_fw_info.ver][ota_fw_info.size])
    <3>1. request.ver = ota_fw_info.ver
      BY DEF IsExpected
    <3>2. mcu_current_offset + Length = ota_fw_info.size
      BY <1>1, <2>1
    <3>3. ASSUME ota_fw_info.size >= Packet
          PROVE  SumAfter(request.ver) = Sums[ota_fw_info.ver][ota_fw_info.size]
      BY <3>1, <3>2, <3>3, SumGrows
    <3> QED
      BY <3>3 DEF Result
  <2>5. ota_fw_info.size \in Nat
    BY LengthFits
  <2>6. ResultIsRight'
    <3>1. ASSUME NEW n \in 1 .. Len(reported')
          PROVE  /\ n = 1 /\ reported'[n] = Result(request.ver)
                 /\ mcu_current_offset' = ota_fw_info'.size
      <4>1. n = 1
        BY <2>3
      <4>2. ota_fw_info'.size = ota_fw_info.size
        BY <1>1
      <4> QED
        BY <2>1, <2>3, <4>1, <4>2, Zenon
    <3>2. ota_fw_info'.size > 0 => Len(reported') <= 1
      BY <2>3
    <3>3. ASSUME NEW n \in 1 .. Len(reported'), ota_fw_info'.size >= Packet
          PROVE  reported'[n] = "success"
                   <=> ota_fw_info'.checksum = Sums[ota_fw_info'.ver][ota_fw_info'.size]
      <4>1. reported'[n] = Result(request.ver)
        BY <3>1
      <4>2. ota_fw_info'.checksum = ota_fw_info.checksum /\ ota_fw_info'.ver = ota_fw_info.ver
            /\ ota_fw_info'.size = ota_fw_info.size
        BY <1>1
      <4> QED
        BY <2>4, <3>3, <4>1, <4>2
    <3> QED
      BY <3>1, <3>2, <3>3 DEF ResultIsRight
  <2> QED
    BY <2>1, <2>5, <2>6
<1> QED
  BY <1>3, <1>4

\* The parts of OtaTypeOK an answer disturbs.
LEMMA EventTypes ==
  ASSUME OtaInv, NEW request, IsExpected(request), mcu_ota_fw_request_event(request),
         ota_fw_info.size > 0
  PROVE  current_checksum' \in Int /\ reported' \in Seq({"success", "failed"})
<1>1. /\ current_checksum' = IF IsFull THEN SumAfter(request.ver) ELSE 0
      /\ reported' = IF IsFull \/ Len(reported) = 2 THEN reported
                     ELSE Append(reported, Result(request.ver))
  BY DEF mcu_ota_fw_request_event
<1>2. /\ mcu_current_offset \in Nat /\ ota_fw_info.size \in Nat /\ Length \in Nat
      /\ mcu_current_offset + Length <= ota_fw_info.size
  BY LengthFits
<1>3. request.ver \in Versions /\ ota_fw_info.size = Len(Contents[request.ver])
  BY OfferKnown DEF IsExpected, OtaInv, OtaTypeOK
<1>4. Sums[request.ver] \in [0 .. ota_fw_info.size -> Nat]
  BY <1>3, OtaAssumption
<1>5. /\ Sums[request.ver][mcu_current_offset] \in Nat
      /\ Sums[request.ver][mcu_current_offset + Length] \in Nat
  BY <1>2, <1>4
<1>6. SumBefore \in Int
  BY DEF SumBefore, OtaInv, OtaTypeOK
<1>7. SumAfter(request.ver) \in Int
  BY <1>5, <1>6 DEF SumAfter
<1>8. Result(request.ver) \in {"success", "failed"}
  BY DEF Result
<1>9. reported \in Seq({"success", "failed"})
  BY DEF OtaInv, OtaTypeOK
<1>10. Append(reported, Result(request.ver)) \in Seq({"success", "failed"})
  BY <1>8, <1>9, AppendProperties
<1> QED
  BY <1>1, <1>7, <1>9, <1>10

\* An expected frame keeps everything but what is asked.
LEMMA ExpectedKeeps ==
  ASSUME OtaInv, NEW request \in Request, request.offset < Len(Contents[request.ver]),
         IsExpected(request), mcu_ota_fw_request_event(request)
  PROVE  /\ ImageInOrder' /\ ResultIsRight' /\ SumIsPrefix'
         /\ ota_fw_info' = ota_fw_info /\ current_mcu_pid' = current_mcu_pid
         /\ mcu_current_offset' \in Nat
         /\ current_checksum' \in Int
         /\ flash' \in [Positions -> Nat \cup {Blank}]
         /\ reported' \in Seq({"success", "failed"})
<1>1. /\ mcu_current_offset' = mcu_current_offset + Length
      /\ current_checksum' = IF IsFull THEN SumAfter(request.ver) ELSE 0
      /\ reported' = IF IsFull \/ Len(reported) = 2 THEN reported
                     ELSE Append(reported, Result(request.ver))
      /\ ota_fw_data_handle(request.ver)
      /\ ota_fw_info' = ota_fw_info /\ current_mcu_pid' = current_mcu_pid
  BY DEF mcu_ota_fw_request_event, OffsetAfterPacket
<1>2. request.ver = ota_fw_info.ver /\ request.offset = mcu_current_offset
  BY DEF IsExpected
<1>3. /\ ImageInOrder' /\ flash' \in [Positions -> Nat \cup {Blank}]
  BY <1>1, <1>2, StoreKeeps
<1>4. mcu_current_offset' \in Nat /\ mcu_current_offset \in Nat /\ Length \in Nat
  BY <1>1, LengthFits
<1>5. CASE ota_fw_info.size > 0
  <2>1. mcu_current_offset < ota_fw_info.size
    BY <1>2, <1>5, OfferKnown DEF OtaInv, OtaTypeOK
  <2>2. /\ ResultIsRight'
        /\ mcu_current_offset' < ota_fw_info.size => reported' = <<>>
    BY <1>5, <2>1, EventReports
  <2>3. current_checksum' \in Int /\ reported' \in Seq({"success", "failed"})
    BY <1>5, EventTypes
  <2>4. ASSUME ota_fw_info.size >= Packet,
               mcu_current_offset' \in 1 .. ota_fw_info.size - 1
        PROVE  current_checksum' = Sums[ota_fw_info.ver][mcu_current_offset']
    <3>1. ota_fw_info.size \in Nat
      BY LengthFits
    <3>2. mcu_current_offset' # ota_fw_info.size
      BY <2>4, <3>1
    <3>3. IsFull
      BY <1>1, <3>2, LengthFits
    <3>4. SumAfter(request.ver) = Sums[request.ver][mcu_current_offset + Length]
      BY <1>2, <2>1, <2>4, SumGrows
    <3> QED
      BY <1>1, <1>2, <3>3, <3>4
  <2>5. SumIsPrefix'
    BY <1>1, <2>2, <2>4 DEF SumIsPrefix
  <2> QED
    BY <1>1, <1>3, <1>4, <2>2, <2>3, <2>5
<1>6. CASE ~(ota_fw_info.size > 0)
  <2>1. ota_fw_info.size = 0 /\ mcu_current_offset' = 0 /\ ~IsFull
    <3>1. ota_fw_info.size \in Nat /\ Packet \in Nat \ {0}
      BY LengthFits, OtaAssumption
    <3>2. mcu_current_offset + Length <= ota_fw_info.size
      BY LengthFits
    <3>3. IsFull => Length > 0
      BY LengthFits
    <3> QED
      BY <1>1, <1>4, <1>6, <3>1, <3>2, <3>3
  <2>2. current_checksum' = 0
    BY <1>1, <2>1
  <2>3. reported' \in Seq({"success", "failed"})
    <3>1. Result(request.ver) \in {"success", "failed"}
      BY DEF Result
    <3>2. reported \in Seq({"success", "failed"})
      BY DEF OtaInv, OtaTypeOK
    <3>3. Append(reported, Result(request.ver)) \in Seq({"success", "failed"})
      BY <3>1, <3>2, AppendProperties
    <3> QED
      BY <1>1, <3>2, <3>3
  <2>4. ResultIsRight'
    <3>1. Packet \in Nat \ {0}
      BY OtaAssumption
    <3>2. ~(0 >= Packet)
      BY <3>1
    <3> QED
      BY <1>1, <2>1, <3>2 DEF ResultIsRight
  <2>5. SumIsPrefix'
    BY <1>1, <2>1 DEF SumIsPrefix
  <2> QED
    BY <1>1, <1>3, <1>4, <2>2, <2>3, <2>4, <2>5
<1> QED
  BY <1>5, <1>6

\* Whatever the oldest request asked for, its answer keeps the invariant but for what is
\* asked.
LEMMA EventKeeps ==
  ASSUME OtaInv, asked # <<>>, mcu_ota_fw_request_event(asked[1]), offers' = offers,
         asked' \in Seq(Request), AskedInside'
  PROVE  OtaInv'
<1>1. asked[1] \in Request /\ asked[1].offset < Len(Contents[asked[1].ver])
  <2>1. asked \in Seq(Request)
    BY DEF OtaInv, OtaTypeOK
  <2>2. 1 \in 1 .. Len(asked)
    BY <2>1
  <2>3. asked[1] \in Request
    BY <2>1, <2>2, ElementOfSeq
  <2> QED
    BY <2>2, <2>3 DEF OtaInv, AskedInside
<1>2. CASE IsExpected(asked[1])
  BY <1>1, <1>2, ExpectedKeeps DEF OtaInv, OtaTypeOK
<1>3. CASE ~IsExpected(asked[1])
  <2>1. /\ ota_fw_info' = ota_fw_info /\ mcu_current_offset' = mcu_current_offset
        /\ current_mcu_pid' = current_mcu_pid /\ current_checksum' = current_checksum
        /\ flash' = flash /\ reported' = reported
    BY <1>3 DEF mcu_ota_fw_request_event
  <2>2. OtaTypeOK'
    BY <2>1 DEF OtaInv, OtaTypeOK
  <2>3. ImageInOrder' /\ ResultIsRight' /\ SumIsPrefix'
    BY <2>1 DEF OtaInv, ImageInOrder, ResultIsRight, SumIsPrefix
  <2> QED
    BY <2>2, <2>3 DEF OtaInv
<1> QED
  BY <1>2, <1>3

\* The requests that are left when the oldest is gone.
LEMMA TailKeeps ==
  ASSUME OtaInv, asked # <<>>, asked' = Tail(asked)
  PROVE  asked' \in Seq(Request) /\ AskedInside'
<1>1. asked \in Seq(Request)
  BY DEF OtaInv, OtaTypeOK
<1>2. /\ Tail(asked) \in Seq(Request) /\ Len(Tail(asked)) = Len(asked) - 1
      /\ \A n \in 1 .. Len(Tail(asked)) : Tail(asked)[n] = asked[n + 1]
  BY <1>1, HeadTailProperties
<1>3. Len(asked) \in Nat
  BY <1>1
<1>4. ASSUME NEW n \in 1 .. Len(asked')
      PROVE  asked'[n].offset < Len(Contents[asked'[n].ver])
  <2>1. n + 1 \in 1 .. Len(asked) /\ asked'[n] = asked[n + 1]
    BY <1>2, <1>3
  <2> QED
    BY <2>1 DEF OtaInv, AskedInside
<1> QED
  BY <1>2, <1>4 DEF AskedInside

LEMMA NextKeeps ==
  ASSUME OtaInv, [OtaNext]_otaVars
  PROVE  OtaInv'
<1>1. CASE Offer
  BY <1>1, OfferKeeps
<1>2. CASE mcu_ota_fw_request
  BY <1>2, AskKeeps
<1>3. CASE Answer
  <2>1. asked # <<>> /\ asked' = Tail(asked) /\ mcu_ota_fw_request_event(asked[1])
        /\ offers' = offers
    BY <1>3 DEF Answer
  <2>2. asked' \in Seq(Request) /\ AskedInside'
    BY <2>1, TailKeeps
  <2> QED
    BY <2>1, <2>2, EventKeeps
<1>4. CASE AnswerTwice
  <2>1. asked # <<>> /\ asked' = asked /\ mcu_ota_fw_request_event(asked[1])
        /\ offers' = offers
    BY <1>4 DEF AnswerTwice
  <2>2. asked' \in Seq(Request) /\ AskedInside'
    BY <2>1 DEF OtaInv, OtaTypeOK, AskedInside
  <2> QED
    BY <2>1, <2>2, EventKeeps
<1>5. CASE NoAnswer
  <2>1. /\ asked # <<>> /\ asked' = Tail(asked) /\ ota_fw_info' = ota_fw_info
        /\ mcu_current_offset' = mcu_current_offset /\ current_mcu_pid' = current_mcu_pid
        /\ current_checksum' = current_checksum /\ flash' = flash
        /\ reported' = reported /\ offers' = offers
    BY <1>5 DEF NoAnswer
  <2>2. asked' \in Seq(Request) /\ AskedInside'
    BY <2>1, TailKeeps
  <2>3. OtaTypeOK'
    BY <2>1, <2>2 DEF OtaInv, OtaTypeOK
  <2>4. ImageInOrder' /\ ResultIsRight' /\ SumIsPrefix'
    BY <2>1 DEF OtaInv, ImageInOrder, ResultIsRight, SumIsPrefix
  <2> QED
    BY <2>2, <2>3, <2>4 DEF OtaInv
<1>6. CASE UNCHANGED otaVars
  BY <1>6 DEF otaVars, OtaInv, OtaTypeOK, ImageInOrder, ResultIsRight, AskedInside,
              SumIsPrefix
<1> QED
  BY <1>1, <1>2, <1>3, <1>4, <1>5, <1>6 DEF OtaNext

-----------------------------------------------------------------------------
\* data_handle with everything it calls implements the update by itself (McuOta): the
\* data points, the reports and the clock leave the update alone.
THEOREM UpdateImplemented == Spec => OtaInit /\ [][OtaNext]_otaVars
<1>1. Init => OtaInit
  BY DEF Init
<1>2. [Next]_vars => [OtaNext]_otaVars
  BY OnlyOtaUpdates
<1> QED
  BY <1>1, <1>2, PTL DEF Spec

\* The invariant of the update, for every set of images, offers and late answers.
THEOREM OtaInvariant == Spec => []OtaInv
<1>1. OtaInit => OtaInv
  BY InitInv
<1>2. OtaInv /\ [OtaNext]_otaVars => OtaInv'
  BY NextKeeps
<1> QED
  BY <1>1, <1>2, UpdateImplemented, PTL

\* The part of an image that counts as received is in the flash, byte for byte, and the
\* offset of mcu_ota_fw_request never runs over the end of the image.
THEOREM SpecImageInOrder == Spec => []ImageInOrder
<1>1. OtaInv => ImageInOrder
  BY DEF OtaInv
<1> QED
  BY <1>1, OtaInvariant, PTL

\* The result that mcu_ota_fw_request_event reports is that of the image it took, and is
\* reported once.
THEOREM SpecResultIsRight == Spec => []ResultIsRight
<1>1. OtaInv => ResultIsRight
  BY DEF OtaInv
<1> QED
  BY <1>1, OtaInvariant, PTL

-----------------------------------------------------------------------------
(***************************************************************************)
(* The calendar.  The loops of RTC_Get end, with the day they began with,  *)
(* counted from the beginning of the year and of the month it lies in.     *)
(***************************************************************************)
\* Every set of natural numbers has a least one.
LEMMA LeastNatural ==
  ASSUME NEW T, T \subseteq Nat, T # {}
  PROVE  \E n \in T : \A m \in T : n <= m
<1> DEFINE R == {p \in Nat \X Nat : p[1] < p[2]}
<1>1. IsWellFoundedOn(R, Nat)
  BY NatLessThanWellFounded DEF OpToRel
<1>2. PICK n \in T : \A m \in T : ~ (<<m, n>> \in R)
  <2> HIDE DEF R
  <2> QED
    BY <1>1, WFMin, Zenon
<1>3. ASSUME NEW m \in T
      PROVE  n <= m
  <2>1. ~(m < n)
    BY <1>2, <1>3
  <2> QED
    BY <1>3, <2>1
<1> QED
  BY <1>3

\* The days before a year, and before a month of a year.
Before(year) == 365 * year + LeapsUntil(year - 1)

BeforeMonth(year, month) ==
  DaysBeforeMonth[month] + IF Is_Leap_Year(year) /\ month > 2 THEN 1 ELSE 0

LEMMA YearAdds ==
  ASSUME NEW y \in Nat
  PROVE  /\ DaysOfYear(y) \in Nat /\ DaysOfYear(y) >= 365
         /\ Before(y) \in Int /\ Before(y + 1) = Before(y) + DaysOfYear(y)
<1>1. LeapsUntil(y) = LeapsUntil(y - 1) + (IF Is_Leap_Year(y) THEN 1 ELSE 0)
  BY DEF LeapsUntil, Is_Leap_Year
<1>2. (y + 1) - 1 = y
  OBVIOUS
<1>3. LeapsUntil(y - 1) \in Int
  BY DEF LeapsUntil
<1>4. CASE Is_Leap_Year(y)
  BY <1>1, <1>2, <1>3, <1>4 DEF Before, DaysOfYear
<1>5. CASE ~Is_Leap_Year(y)
  BY <1>1, <1>2, <1>3, <1>5 DEF Before, DaysOfYear
<1> QED
  BY <1>4, <1>5

LEMMA MonthTypes ==
  ASSUME NEW y \in Nat, NEW m \in 1 .. 12
  PROVE  DaysOfMonth(y, m) \in 1 .. 31 /\ BeforeMonth(y, m) \in Nat
<1> PICK leap \in BOOLEAN : leap = Is_Leap_Year(y)
  BY DEF Is_Leap_Year
<1> QED
  BY DEF DaysOfMonth, BeforeMonth, mon_table, DaysBeforeMonth

LEMMA MonthAdds ==
  ASSUME NEW y \in Nat, NEW m \in 1 .. 11
  PROVE  BeforeMonth(y, m + 1) = BeforeMonth(y, m) + DaysOfMonth(y, m)
<1> PICK leap \in BOOLEAN : leap = Is_Leap_Year(y)
  BY DEF Is_Leap_Year
<1> QED
  BY DEF DaysOfMonth, BeforeMonth, mon_table, DaysBeforeMonth

LEMMA YearHasMonths ==
  ASSUME NEW y \in Nat
  PROVE  /\ BeforeMonth(y, 1) = 0
         /\ DaysOfYear(y) = BeforeMonth(y, 12) + DaysOfMonth(y, 12)
<1> PICK leap \in BOOLEAN : leap = Is_Leap_Year(y)
  BY DEF Is_Leap_Year
<1> QED
  BY DEF DaysOfMonth, BeforeMonth, DaysOfYear, mon_table, DaysBeforeMonth

\* A later year begins after an earlier one has ended.
LEMMA YearsFollow ==
  ASSUME NEW a \in Nat, NEW b \in Nat, a < b
  PROVE  Before(a + 1) <= Before(b)
<1>1. (a + 1) - 1 = a
  OBVIOUS
<1> QED
  BY <1>1 DEF Before, LeapsUntil

\* A day lies in one year.
LiesIn(t, y) == y \in Nat /\ Before(y) <= t /\ t < Before(y + 1)

LEMMA LiesInOne ==
  ASSUME NEW t \in Int, NEW a, NEW b, LiesIn(t, a), LiesIn(t, b)
  PROVE  a = b
<1>1. a \in Nat /\ b \in Nat
  BY DEF LiesIn
<1>2. /\ Before(a) \in Int /\ Before(b) \in Int
      /\ Before(a + 1) \in Int /\ Before(b + 1) \in Int
  BY <1>1, YearAdds
<1>3. a < b => Before(a + 1) <= Before(b)
  BY <1>1, YearsFollow
<1>4. b < a => Before(b + 1) <= Before(a)
  BY <1>1, YearsFollow
<1> QED
  BY <1>1, <1>2, <1>3, <1>4 DEF LiesIn

LEMMA LiesInSome ==
  ASSUME NEW t \in Int, t >= Before(0)
  PROVE  \E y : LiesIn(t, y)
<1> DEFINE T == {y \in Nat : t < Before(y + 1)}
<1>1. Before(0) \in Int /\ Before(0) >= -1
  <2>1. Before(0) \in Int /\ Before(0 + 1) = Before(0) + DaysOfYear(0)
    BY YearAdds
  <2>2. LeapsUntil(0) = 0
    BY DEF LeapsUntil
  <2>3. Before(1) = 365
    BY <2>2 DEF Before
  <2>4. DaysOfYear(0) \in {365, 366}
    BY DEF DaysOfYear
  <2> QED
    BY <2>1, <2>3, <2>4
<1>2. t + 1 \in T
  <2>1. t + 1 \in Nat /\ ((t + 1) + 1) - 1 = t + 1
    BY <1>1
  <2>2. LeapsUntil(t + 1) \in Int /\ LeapsUntil(t + 1) >= 0
    BY <2>1 DEF LeapsUntil
  <2>3. t < Before((t + 1) + 1)
    BY <2>1, <2>2 DEF Before
  <2> QED
    BY <2>1, <2>3
<1>3. PICK y \in T : \A n \in T : y <= n
  <2> HIDE DEF T
  <2>1. T \subseteq Nat
    BY DEF T
  <2> QED
    BY <1>2, <2>1, LeastNatural
<1>4. CASE y = 0
  BY <1>3, <1>4 DEF LiesIn
<1>5. CASE y # 0
  <2>1. y - 1 \in Nat /\ ~(y <= y - 1) /\ (y - 1) + 1 = y
    BY <1>3, <1>5
  <2>2. ~(t < Before(y))
    BY <1>3, <2>1
  <2>3. Before(y) \in Int
    BY <1>3, YearAdds
  <2> QED
    BY <1>3, <2>2, <2>3 DEF LiesIn
<1> QED
  BY <1>4, <1>5

\* The loop over the years ends, so there is the function YearOf.
NextYear(c) == [year |-> c.year + 1, days |-> c.days - DaysOfYear(c.year)]
IsYearOf(f) == f = [c \in YearType |->
                      IF c.days < DaysOfYear(c.year) THEN c ELSE f[NextYear(c)]]

LEMMA NextYearKeeps ==
  ASSUME NEW c \in YearType, ~(c.days < DaysOfYear(c.year))
  PROVE  /\ NextYear(c) \in YearType /\ NextYear(c).days < c.days
         /\ Before(NextYear(c).year) + NextYear(c).days = Before(c.year) + c.days
<1>1. c.year \in Nat /\ c.days \in Nat
  BY DEF YearType
<1>2. PICK n \in Nat : n = DaysOfYear(c.year) /\ n >= 365
  BY <1>1, YearAdds
<1>3. PICK b \in Int : b = Before(c.year) /\ Before(c.year + 1) = b + n
  BY <1>1, <1>2, YearAdds
<1> QED
  BY <1>1, <1>2, <1>3 DEF NextYear, YearType

LEMMA YearOfExists == \E f : IsYearOf(f)
<1> DEFINE Day(c)  == Before(c.year) + c.days
           Y(t)    == CHOOSE y : LiesIn(t, y)
           Ends(t) == [year |-> Y(t), days |-> t - Before(Y(t))]
<1>1. PICK f : f = [c \in YearType |-> Ends(Day(c))]
  OBVIOUS
<1>2. ASSUME NEW c \in YearType
      PROVE  f[c] = IF c.days < DaysOfYear(c.year) THEN c ELSE f[NextYear(c)]
  <2>1. CASE c.days < DaysOfYear(c.year)
    <3>1. c.year \in Nat /\ c.days \in Nat
      BY DEF YearType
    <3>2. PICK n \in Nat, b \in Int : /\ n = DaysOfYear(c.year) /\ b = Before(c.year)
                                      /\ Before(c.year + 1) = b + n
      BY <3>1, YearAdds
    <3>3. LiesIn(Day(c), c.year) /\ Day(c) \in Int
      BY <2>1, <3>1, <3>2 DEF LiesIn
    <3>4. LiesIn(Day(c), Y(Day(c)))
      BY <3>3, Zenon
    <3>5. Y(Day(c)) = c.year
      BY <3>3, <3>4, LiesInOne, Zenon
    <3>6. Ends(Day(c)) = [year |-> c.year, days |-> Day(c) - Before(c.year)]
      BY <3>5, Zenon
    <3>7. Day(c) - Before(c.year) = c.days
      BY <3>1, <3>2
    <3>8. c = [year |-> c.year, days |-> c.days]
      BY DEF YearType
    <3>9. f[c] = Ends(Day(c))
      BY <1>1, Zenon
    <3> QED
      BY <2>1, <3>6, <3>7, <3>8, <3>9, Zenon
  <2>2. CASE ~(c.days < DaysOfYear(c.year))
    <3>1. NextYear(c) \in YearType /\ Day(NextYear(c)) = Day(c)
      BY <2>2, NextYearKeeps
    <3>2. f[c] = Ends(Day(c)) /\ f[NextYear(c)] = Ends(Day(NextYear(c)))
      BY <1>1, <3>1, Zenon
    <3>3. f[c] = f[NextYear(c)]
      BY <3>1, <3>2, Zenon
    <3> QED
      BY <2>2, <3>3, Zenon
  <2> QED
    BY <2>1, <2>2
<1>3. f = [c \in YearType |-> f[c]]
  BY <1>1, Zenon
<1>4. [c \in YearType |-> f[c]]
      = [c \in YearType |-> IF c.days < DaysOfYear(c.year) THEN c ELSE f[NextYear(c)]]
  BY <1>2, Zenon
<1> QED
  BY <1>3, <1>4, Zenon DEF IsYearOf

LEMMA YearOfFacts ==
  ASSUME NEW c \in YearType
  PROVE  YearOf[c] = IF c.days < DaysOfYear(c.year) THEN c ELSE YearOf[NextYear(c)]
<1>1. YearOf = CHOOSE f : IsYearOf(f)
  BY Zenon DEF YearOf, IsYearOf, YearType, NextYear
<1>2. IsYearOf(YearOf)
  BY <1>1, YearOfExists, Zenon
<1> QED
  BY <1>2, Zenon DEF IsYearOf

\* What the loop over the years ends with: the same day, in a year it lies in.
LEMMA YearOfIsRight ==
  ASSUME NEW c \in YearType
  PROVE  LET y == YearOf[c]
         IN  /\ y \in YearType /\ y.days < DaysOfYear(y.year)
             /\ Before(y.year) + y.days = Before(c.year) + c.days
             /\ y.year >= c.year
<1> DEFINE Good(d) == LET y == YearOf[d]
                      IN  /\ y \in YearType /\ y.days < DaysOfYear(y.year)
                          /\ Before(y.year) + y.days = Before(d.year) + d.days
                          /\ y.year >= d.year
           T == {n \in Nat : \E d \in YearType : d.days = n /\ ~Good(d)}
<1>1. T = {}
  <2> SUFFICES ASSUME T # {}
               PROVE  FALSE
    OBVIOUS
  <2>1. PICK n \in T : \A m \in T : n <= m
    <3> HIDE DEF T
    <3>1. T \subseteq Nat
      BY DEF T
    <3> QED
      BY <3>1, LeastNatural
  <2>2. PICK d \in YearType : d.days = n /\ ~Good(d)
    BY <2>1
  <2>3. ~(d.days < DaysOfYear(d.year))
    <3>1. SUFFICES ASSUME d.days < DaysOfYear(d.year)
                   PROVE  Good(d)
      BY <2>2
    <3>2. YearOf[d] = d
      BY <3>1, YearOfFacts
    <3>3. d.year >= d.year
      BY DEF YearType
    <3> QED
      BY <3>1, <3>2, <3>3
  <2>4. YearOf[d] = YearOf[NextYear(d)]
    BY <2>3, YearOfFacts
  <2>5. /\ NextYear(d) \in YearType /\ NextYear(d).days < d.days
        /\ Before(NextYear(d).year) + NextYear(d).days = Before(d.year) + d.days
    BY <2>3, NextYearKeeps
  <2>6. NextYear(d).days \in Nat /\ d.days \in Nat /\ NextYear(d).year = d.year + 1 /\ d.year \in Nat
    BY <2>5 DEF YearType, NextYear
  <2>7. Good(NextYear(d))
    <3>1. NextYear(d).days \notin T
      BY <2>1, <2>2, <2>5, <2>6
    <3> QED
      BY <2>5, <2>6, <3>1
  <2>8. YearOf[d].year \in Nat
    BY <2>4, <2>7 DEF YearType
  <2>9. YearOf[d].year >= d.year
    BY <2>4, <2>6, <2>7, <2>8
  <2> QED
    BY <2>2, <2>4, <2>5, <2>7, <2>9
<1>2. c.days \in Nat
  BY DEF YearType
<1> QED
  BY <1>1, <1>2

-----------------------------------------------------------------------------
\* The months.
\* A later month begins after an earlier one has ended.
LEMMA MonthsFollow ==
  ASSUME NEW y \in Nat, NEW a \in 1 .. 12, NEW b \in 1 .. 12, a < b
  PROVE  BeforeMonth(y, a + 1) <= BeforeMonth(y, b)
<1> PICK leap \in BOOLEAN : leap = Is_Leap_Year(y)
  BY DEF Is_Leap_Year
<1> QED
  BY DEF BeforeMonth, DaysBeforeMonth

\* A day lies in one month of a year; what does not lie in the others, in the last.
LiesInMonth(y, t, m) ==
  m \in 1 .. 12 /\ BeforeMonth(y, m) <= t /\ (m = 12 \/ t < BeforeMonth(y, m + 1))

LEMMA LiesInOneMonth ==
  ASSUME NEW y \in Nat, NEW t \in Int, NEW a, NEW b, LiesInMonth(y, t, a), LiesInMonth(y, t, b)
  PROVE  a = b
<1>1. a \in 1 .. 12 /\ b \in 1 .. 12
  BY DEF LiesInMonth
<1>2. /\ BeforeMonth(y, a) \in Int /\ BeforeMonth(y, b) \in Int
      /\ a < 12 => BeforeMonth(y, a + 1) \in Int
      /\ b < 12 => BeforeMonth(y, b + 1) \in Int
  <2>1. BeforeMonth(y, a) \in Nat /\ BeforeMonth(y, b) \in Nat
    BY <1>1, MonthTypes
  <2>2. a < 12 => BeforeMonth(y, a + 1) \in Nat
    <3>1. a < 12 => a + 1 \in 1 .. 12
      BY <1>1
    <3> QED
      BY <3>1, MonthTypes
  <2>3. b < 12 => BeforeMonth(y, b + 1) \in Nat
    <3>1. b < 12 => b + 1 \in 1 .. 12
      BY <1>1
    <3> QED
      BY <3>1, MonthTypes
  <2> QED
    BY <2>1, <2>2, <2>3
<1>3. a < b => BeforeMonth(y, a + 1) <= BeforeMonth(y, b)
  BY <1>1, MonthsFollow
<1>4. b < a => BeforeMonth(y, b + 1) <= BeforeMonth(y, a)
  BY <1>1, MonthsFollow
<1> QED
  BY <1>1, <1>2, <1>3, <1>4 DEF LiesInMonth

\* The loop over the months ends, so there is the function MonthOf.
NextMonth(c) == [year |-> c.year, month |-> c.month + 1,
                 days |-> c.days - DaysOfMonth(c.year, c.month)]
MonthFound(c) == c.month = 12 \/ c.days < DaysOfMonth(c.year, c.month)
IsMonthOf(f) == f = [c \in MonthType |-> IF MonthFound(c) THEN c ELSE f[NextMonth(c)]]
DayOf(c) == BeforeMonth(c.year, c.month) + c.days

LEMMA NextMonthKeeps ==
  ASSUME NEW c \in MonthType, ~MonthFound(c)
  PROVE  /\ NextMonth(c) \in MonthType /\ NextMonth(c).year = c.year
         /\ NextMonth(c).month = c.month + 1 /\ DayOf(NextMonth(c)) = DayOf(c)
<1>1. c.year \in Nat /\ c.days \in Nat /\ c.month \in 1 .. 12 /\ c.month # 12
  BY DEF MonthType, MonthFound
<1>2. PICK n \in Nat : n = DaysOfMonth(c.year, c.month)
  <2>1. DaysOfMonth(c.year, c.month) \in 1 .. 31
    BY <1>1, MonthTypes, Zenon
  <2> QED
    BY <2>1
<1>3. PICK b \in Nat : b = BeforeMonth(c.year, c.month) /\ BeforeMonth(c.year, c.month + 1) = b + n
  <2>1. c.month \in 1 .. 11
    BY <1>1
  <2>2. BeforeMonth(c.year, c.month) \in Nat
    BY <1>1, MonthTypes, Zenon
  <2>3. BeforeMonth(c.year, c.month + 1)
        = BeforeMonth(c.year, c.month) + DaysOfMonth(c.year, c.month)
    BY <1>1, <2>1, MonthAdds, Zenon
  <2> QED
    BY <1>2, <2>2, <2>3
<1>4. ~(c.days < n)
  BY <1>2 DEF MonthFound
<1> QED
  BY <1>1, <1>2, <1>3, <1>4 DEF NextMonth, MonthType, DayOf

LEMMA MonthOfExists == \E f : IsMonthOf(f)
<1> DEFINE M(y, t)    == CHOOSE m : LiesInMonth(y, t, m)
           Ends(y, t) == [year |-> y, month |-> M(y, t), days |-> t - BeforeMonth(y, M(y, t))]
<1>1. PICK f : f = [c \in MonthType |->
                      IF MonthFound(c) THEN c ELSE Ends(c.year, DayOf(c))]
  OBVIOUS
<1>2. ASSUME NEW c \in MonthType, MonthFound(c)
      PROVE  c = Ends(c.year, DayOf(c))
  <2>1. c.year \in Nat /\ c.days \in Nat /\ c.month \in 1 .. 12
    BY DEF MonthType
  <2>2. PICK b \in Nat : /\ b = BeforeMonth(c.year, c.month)
                         /\ c.month < 12 => BeforeMonth(c.year, c.month + 1)
                                            = b + DaysOfMonth(c.year, c.month)
    <3>1. BeforeMonth(c.year, c.month) \in Nat
      BY <2>1, MonthTypes, Zenon
    <3>2. c.month < 12 => c.month \in 1 .. 11
      BY <2>1
    <3> QED
      BY <2>1, <3>1, <3>2, MonthAdds, Zenon
  <2>3. PICK n \in Nat : n = DaysOfMonth(c.year, c.month)
    <3>1. DaysOfMonth(c.year, c.month) \in 1 .. 31
      BY <2>1, MonthTypes, Zenon
    <3> QED
      BY <3>1
  <2>4. LiesInMonth(c.year, DayOf(c), c.month) /\ DayOf(c) \in Int
    BY <1>2, <2>1, <2>2, <2>3 DEF LiesInMonth, DayOf, MonthFound
  <2>5. LiesInMonth(c.year, DayOf(c), M(c.year, DayOf(c)))
    BY <2>4, Zenon
  <2>6. M(c.year, DayOf(c)) = c.month
    BY <2>1, <2>4, <2>5, LiesInOneMonth, Zenon
  <2>7. Ends(c.year, DayOf(c)) = [year |-> c.year, month |-> c.month,
                                  days |-> DayOf(c) - BeforeMonth(c.year, c.month)]
    BY <2>6, Zenon
  <2>8. DayOf(c) - BeforeMonth(c.year, c.month) = c.days
    BY <2>1, <2>2 DEF DayOf
  <2>9. c = [year |-> c.year, month |-> c.month, days |-> c.days]
    BY DEF MonthType
  <2> QED
    BY <2>7, <2>8, <2>9, Zenon
<1>3. ASSUME NEW c \in MonthType
      PROVE  f[c] = IF MonthFound(c) THEN c ELSE f[NextMonth(c)]
  <2>1. CASE MonthFound(c)
    BY <1>1, <2>1, Zenon
  <2>2. CASE ~MonthFound(c)
    <3>1. /\ NextMonth(c) \in MonthType /\ NextMonth(c).year = c.year
          /\ DayOf(NextMonth(c)) = DayOf(c)
      BY <2>2, NextMonthKeeps
    <3>2. f[c] = Ends(c.year, DayOf(c))
      BY <1>1, <2>2, Zenon
    <3>3. f[NextMonth(c)] = Ends(NextMonth(c).year, DayOf(NextMonth(c)))
      <4>1. CASE MonthFound(NextMonth(c))
        BY <1>1, <1>2, <3>1, <4>1, Zenon
      <4>2. CASE ~MonthFound(NextMonth(c))
        BY <1>1, <3>1, <4>2, Zenon
      <4> QED
        BY <4>1, <4>2
    <3>4. f[c] = f[NextMonth(c)]
      BY <3>1, <3>2, <3>3, Zenon
    <3> QED
      BY <2>2, <3>4, Zenon
  <2> QED
    BY <2>1, <2>2
<1>4. f = [c \in MonthType |-> f[c]]
  BY <1>1, Zenon
<1>5. [c \in MonthType |-> f[c]]
      = [c \in MonthType |-> IF MonthFound(c) THEN c ELSE f[NextMonth(c)]]
  BY <1>3, Zenon
<1> QED
  BY <1>4, <1>5, Zenon DEF IsMonthOf

LEMMA MonthOfFacts ==
  ASSUME NEW c \in MonthType
  PROVE  MonthOf[c] = IF MonthFound(c) THEN c ELSE MonthOf[NextMonth(c)]
<1>1. MonthOf = CHOOSE f : IsMonthOf(f)
  BY Zenon DEF MonthOf, IsMonthOf, MonthType, NextMonth, MonthFound
<1>2. IsMonthOf(MonthOf)
  BY <1>1, MonthOfExists, Zenon
<1> QED
  BY <1>2, Zenon DEF IsMonthOf

\* What the loop over the months ends with: the same day of the same year, in a month
\* that is found unless it is the last.
LEMMA MonthOfIsRight ==
  ASSUME NEW c \in MonthType
  PROVE  LET m == MonthOf[c]
         IN  m \in MonthType /\ MonthFound(m) /\ m.year = c.year /\ DayOf(m) = DayOf(c)
<1> DEFINE Good(d) == LET m == MonthOf[d]
                      IN  /\ m \in MonthType /\ MonthFound(m) /\ m.year = d.year
                          /\ DayOf(m) = DayOf(d)
           T == {n \in Nat : \E d \in MonthType : n = 12 - d.month /\ ~Good(d)}
<1>1. T = {}
  <2> SUFFICES ASSUME T # {}
               PROVE  FALSE
    OBVIOUS
  <2>1. PICK n \in T : \A m \in T : n <= m
    <3> HIDE DEF T
    <3>1. T \subseteq Nat
      BY DEF T
    <3> QED
      BY <3>1, LeastNatural
  <2>2. PICK d \in MonthType : n = 12 - d.month /\ ~Good(d)
    BY <2>1
  <2>3. ~MonthFound(d)
    <3>1. SUFFICES ASSUME MonthFound(d)
                   PROVE  Good(d)
      BY <2>2
    <3>2. MonthOf[d] = d
      BY <3>1, MonthOfFacts
    <3> QED
      BY <3>1, <3>2
  <2>4. MonthOf[d] = MonthOf[NextMonth(d)]
    BY <2>3, MonthOfFacts
  <2>5. /\ NextMonth(d) \in MonthType /\ NextMonth(d).year = d.year
        /\ NextMonth(d).month = d.month + 1 /\ DayOf(NextMonth(d)) = DayOf(d)
    BY <2>3, NextMonthKeeps
  <2>6. Good(NextMonth(d))
    <3>1. d.month \in 1 .. 12 /\ NextMonth(d).month \in 1 .. 12
      BY <2>5 DEF MonthType
    <3>2. PICK k \in Nat : k = 12 - NextMonth(d).month /\ k < n
      BY <2>2, <2>5, <3>1
    <3>3. k \notin T
      <4> HIDE DEF T
      <4>1. ~(n <= k) /\ n \in Nat
        BY <3>2, <2>1 DEF T
      <4> QED
        BY <2>1, <4>1
    <3> QED
      BY <2>5, <3>2, <3>3
  <2> QED
    BY <2>2, <2>4, <2>5, <2>6
<1>2. c.month \in 1 .. 12
  BY DEF MonthType
<1>3. 12 - c.month \in Nat
  BY <1>2
<1> QED
  BY <1>1, <1>3

-----------------------------------------------------------------------------
\* The two loops together turn a day's number into its date.
LEMMA CalendarIsRight ==
  ASSUME NEW day \in Nat
  PROVE  /\ CalendarOf(day).dayCount = day
         /\ IsDate(CalendarOf(day)) /\ DayNumber(CalendarOf(day)) = day
<1>1. PICK y, d : /\ y = YearOf[[year |-> 1970, days |-> day]].year
                  /\ d = YearOf[[year |-> 1970, days |-> day]].days
                  /\ y \in Nat /\ d \in Nat /\ d < DaysOfYear(y) /\ y >= 1970
                  /\ Before(y) + d = Before(1970) + day
  <2> DEFINE s == [year |-> 1970, days |-> day]
  <2>1. s \in YearType /\ s.year = 1970 /\ s.days = day
    BY DEF YearType
  <2> HIDE DEF s
  <2>3. /\ YearOf[s] \in YearType /\ YearOf[s].days < DaysOfYear(YearOf[s].year)
        /\ Before(YearOf[s].year) + YearOf[s].days = Before(s.year) + s.days
        /\ YearOf[s].year >= s.year
    BY <2>1, YearOfIsRight
  <2>4. PICK r \in YearType : r = YearOf[s]
    BY <2>3
  <2>5. r.year \in Nat /\ r.days \in Nat
    BY DEF YearType
  <2> QED
    BY <2>1, <2>3, <2>4, <2>5 DEF s
<1>2. PICK m, e : /\ m = MonthOf[[year |-> y, month |-> 1, days |-> d]].month
                  /\ e = MonthOf[[year |-> y, month |-> 1, days |-> d]].days
                  /\ m \in 1 .. 12 /\ e \in Nat
                  /\ m = 12 \/ e < DaysOfMonth(y, m)
                  /\ BeforeMonth(y, m) + e = BeforeMonth(y, 1) + d
  <2> DEFINE f == [year |-> y, month |-> 1, days |-> d]
  <2>1. f \in MonthType /\ f.year = y /\ f.month = 1 /\ f.days = d
    BY <1>1 DEF MonthType
  <2> HIDE DEF f
  <2>3. /\ MonthOf[f] \in MonthType /\ MonthFound(MonthOf[f])
        /\ MonthOf[f].year = f.year /\ DayOf(MonthOf[f]) = DayOf(f)
    BY <2>1, MonthOfIsRight
  <2>4. PICK r \in MonthType : r = MonthOf[f]
    BY <2>3
  <2>5. r.month \in 1 .. 12 /\ r.days \in Nat
    BY DEF MonthType
  <2>6. r.month = 12 \/ r.days < DaysOfMonth(y, r.month)
    BY <2>1, <2>3, <2>4 DEF MonthFound
  <2>7. BeforeMonth(y, r.month) + r.days = BeforeMonth(y, 1) + d
    BY <2>1, <2>3, <2>4 DEF DayOf
  <2> QED
    BY <2>4, <2>5, <2>6, <2>7 DEF f
<1>3. /\ CalendarOf(day).dayCount = day /\ CalendarOf(day).w_year = y
      /\ CalendarOf(day).w_month = m /\ CalendarOf(day).w_date = e + 1
  BY <1>1, <1>2 DEF CalendarOf
<1>4. PICK b, n : /\ b = BeforeMonth(y, m) /\ n = DaysOfMonth(y, m)
                  /\ b \in Nat /\ n \in 1 .. 31 /\ e < n /\ b + e = d
  <2>1. BeforeMonth(y, m) \in Nat /\ DaysOfMonth(y, m) \in 1 .. 31
    <3>1. y \in Nat /\ m \in 1 .. 12
      BY <1>1, <1>2
    <3> QED
      BY <3>1, MonthTypes, Zenon
  <2>2. /\ BeforeMonth(y, 1) = 0
        /\ DaysOfYear(y) = BeforeMonth(y, 12) + DaysOfMonth(y, 12)
    BY <1>1, YearHasMonths
  <2>3. BeforeMonth(y, m) + e = d
    BY <1>1, <1>2, <2>2
  <2>4. e < DaysOfMonth(y, m)
    BY <1>1, <1>2, <2>1, <2>2, <2>3
  <2> QED
    BY <2>1, <2>3, <2>4
<1>5. IsDate(CalendarOf(day))
  BY <1>2, <1>3, <1>4 DEF IsDate
<1>6. PICK l, a, z : /\ l = LeapsUntil(y) /\ a = LeapsUntil(y - 1) /\ z = LeapsUntil(1969)
                     /\ l \in Int /\ a \in Int /\ z \in Int
                     /\ l = a + (IF Is_Leap_Year(y) THEN 1 ELSE 0)
  <2>1. LeapsUntil(y) = LeapsUntil(y - 1) + (IF Is_Leap_Year(y) THEN 1 ELSE 0)
    BY <1>1 DEF LeapsUntil, Is_Leap_Year
  <2>2. LeapsUntil(y) \in Int /\ LeapsUntil(y - 1) \in Int /\ LeapsUntil(1969) \in Int
    BY <1>1 DEF LeapsUntil
  <2> QED
    BY <2>1, <2>2
<1>7. Before(y) = 365 * y + a /\ Before(1970) = 365 * 1970 + z
  <2>1. 1970 - 1 = 1969
    OBVIOUS
  <2> QED
    BY <1>6, <2>1 DEF Before
<1>8. PICK k : /\ k = DaysBeforeMonth[m] /\ k \in Nat
               /\ b = k + (IF Is_Leap_Year(y) /\ m > 2 THEN 1 ELSE 0)
  <2>1. DaysBeforeMonth[m] \in Nat
    BY <1>2 DEF DaysBeforeMonth
  <2> QED
    BY <1>4, <2>1 DEF BeforeMonth
<1>9. Is_Leap_Year(y) <=> l > a
  BY <1>6
<1>10. PICK j \in {0, 1} : j = IF l > a /\ m > 2 THEN 1 ELSE 0
  OBVIOUS
<1>11. DayNumber(CalendarOf(day)) = 365 * (y - 1970) + a - z + k + (e + 1) - 1 + j
  BY <1>3, <1>6, <1>8, <1>10 DEF DayNumber
<1>12. DayNumber(CalendarOf(day)) = day
  <2>1. b = k + j
    BY <1>8, <1>9, <1>10
  <2>2. 365 * y + a + d = 365 * 1970 + z + day
    BY <1>1, <1>7
  <2>3. k \in Int /\ a \in Int /\ z \in Int /\ y \in Int /\ e \in Int
    BY <1>1, <1>2, <1>6, <1>8
  <2>4. d = (k + j) + e
    BY <1>4, <2>1
  <2>5. 365 * (y - 1970) + a - z + k + (e + 1) - 1 + j = day
    BY <2>2, <2>3, <2>4
  <2> QED
    BY <1>11, <2>5
<1> QED
  BY <1>3, <1>5, <1>12

-----------------------------------------------------------------------------
\* The day count that is kept is that of the time that came last, and so is the date.
TimeShown == /\ clock.time.hour * 3600 + clock.time.min * 60 + clock.time.sec = shown.secs
             /\ clock.time.min < 60 /\ clock.time.sec < 60

ClockInv ==
  /\ shown.day \in Nat /\ clock.calendar.dayCount = shown.day
  /\ \/ clock.calendar = NoCalendar
     \/ IsDate(clock.calendar) /\ DayNumber(clock.calendar) = shown.day
  /\ TimeShown

LEMMA TimeIsRight ==
  ASSUME NEW secs \in Nat, secs < 86400
  PROVE  /\ TimeOf(secs).hour * 3600 + TimeOf(secs).min * 60 + TimeOf(secs).sec = secs
         /\ TimeOf(secs).min < 60 /\ TimeOf(secs).sec < 60
<1>1. PICK h, r \in Nat : h = secs \div 3600 /\ r = secs % 3600 /\ secs = 3600 * h + r
  OBVIOUS
<1>2. r \div 60 < 60 \/ r >= 3600
  BY <1>1
<1>3. r = 60 * (r \div 60) + (r % 60) /\ r % 60 < 60 /\ r < 3600
  BY <1>1
<1> QED
  BY <1>1, <1>2, <1>3 DEF TimeOf

LEMMA ClockInitInv ==
  ASSUME Init
  PROVE  ClockInv
BY DEF Init, ClockInv, TimeShown, NoCalendar, NoTime, NoTimeYet

LEMMA SettingKeeps ==
  ASSUME ClockInv, mcu_write_rtctime
  PROVE  ClockInv'
<1>1. PICK time \in Times : clock' = RTC_Get(time, clock) /\ shown' = time
  BY DEF mcu_write_rtctime
<1>2. time.day \in Nat /\ time.secs \in Nat /\ time.secs < 86400
  BY TimesAssumption
<1>3. /\ clock'.calendar = CalendarAfter(clock.calendar, time.day)
      /\ clock'.time = TimeOf(time.secs)
  BY <1>1 DEF RTC_Get
<1>4. TimeShown'
  BY <1>1, <1>2, <1>3, TimeIsRight DEF TimeShown
<1>5. CASE clock.calendar.dayCount = time.day
  <2>1. clock'.calendar = clock.calendar
    BY <1>3, <1>5 DEF CalendarAfter
  <2> QED
    BY <1>1, <1>2, <1>4, <1>5, <2>1 DEF ClockInv
<1>6. CASE clock.calendar.dayCount # time.day
  <2>1. clock'.calendar = CalendarOf(time.day)
    BY <1>3, <1>6 DEF CalendarAfter
  <2>2. /\ CalendarOf(time.day).dayCount = time.day
        /\ IsDate(CalendarOf(time.day)) /\ DayNumber(CalendarOf(time.day)) = time.day
    BY <1>2, CalendarIsRight
  <2> QED
    BY <1>1, <1>2, <1>4, <2>1, <2>2 DEF ClockInv
<1> QED
  BY <1>5, <1>6

\* Nothing but a time that comes sets the clock.
LEMMA OnlyTimesSet ==
  ASSUME [Next]_vars, ~mcu_write_rtctime
  PROVE  UNCHANGED <<clock, shown>>
<1>1. CASE data_handle
  BY <1>1 DEF data_handle, rf_data_point_handle, rf_data_respond_handle, HandlePoint,
              handler_status_device, Handled
<1>2. CASE Receive \/ Reply \/ BoardReports
  BY <1>2 DEF Receive, Reply, BoardReports
<1>3. CASE Updating(OtaNext) \/ UNCHANGED vars
  BY <1>3 DEF Updating, vars, sdkVars
<1> QED
  BY <1>1, <1>2, <1>3 DEF Next

\* mcu_write_rtctime: for every sequence of times, of any day since 1970, the calendar
\* shows the date of the time that came last, and the clock its seconds: RTC_Get's loops
\* over years and months and the day count it keeps are right for each of them, and the
\* month loop never reads behind mon_table.
THEOREM SpecDateIsRight == Spec => []DateIsRight
<1>1. Init => ClockInv
  BY ClockInitInv
<1>2. ClockInv /\ [Next]_vars => ClockInv'
  <2>1. ASSUME ClockInv, [Next]_vars, ~mcu_write_rtctime
        PROVE  ClockInv'
    BY <2>1, OnlyTimesSet DEF ClockInv, TimeShown
  <2> QED
    BY <2>1, SettingKeeps
<1>3. ClockInv => DateIsRight
  BY DEF ClockInv, DateIsRight, Shows, TimeShown, NoCalendar
<1> QED
  BY <1>1, <1>2, <1>3, PTL DEF Spec
-----------------------------------------------------------------------------
(***************************************************************************)
(* The bytes of a frame, for every number and every list of data points.   *)
(***************************************************************************)
LEMMA ByteRange == \A b : b \in Byte <=> b \in Int /\ 0 <= b /\ b <= 255
BY DEF Byte

\* Dividing by what a byte can hold.
LEMMA DivMod ==
  ASSUME NEW n \in Nat
  PROVE  /\ n \div 256 \in Nat /\ n % 256 \in Byte
         /\ n = (n \div 256) * 256 + (n % 256)
<1>1. n % 256 \in Int /\ 0 <= n % 256 /\ n % 256 <= 255
  OBVIOUS
<1>2. n % 256 \in Byte
  BY <1>1, ByteRange
<1>3. n \div 256 \in Nat /\ n = (n \div 256) * 256 + (n % 256)
  BY SMTT(30)
<1> QED
  BY <1>2, <1>3

\* Dividing by 256 again takes the next byte away.
LEMMA DivDiv ==
  ASSUME NEW n \in Nat
  PROVE  /\ (n \div 256) \div 256 = n \div 65536
         /\ (n \div 65536) \div 256 = n \div 16777216
<1>1. (n \div 256) \div 256 = n \div 65536
  BY SMTT(30)
<1>2. (n \div 65536) \div 256 = n \div 16777216
  BY SMTT(60)
<1> QED
  BY <1>1, <1>2

\* The two bytes of a short.
LEMMA ShortBytes ==
  ASSUME NEW n \in Short
  PROVE  /\ n \div 256 \in Byte /\ n % 256 \in Byte
         /\ short_to_byte(n) = <<n \div 256, n % 256>>
         /\ n = (n \div 256) * 256 + (n % 256)
<1>1. n \in Nat /\ n < 65536
  BY DEF Short
<1>2. n \div 256 \in Nat /\ n \div 256 <= 255
  BY <1>1
<1>3. n \div 256 \in Byte
  BY <1>2, ByteRange
<1>4. (n \div 256) % 256 = n \div 256
  BY <1>2
<1> QED
  BY <1>1, <1>3, <1>4, DivMod DEF short_to_byte

\* The four bytes of an unsigned long.
LEMMA LongBytes ==
  ASSUME NEW n \in Long
  PROVE  \E a \in Byte, b \in Byte, c \in Byte, d \in Byte :
           /\ int_to_byte(n) = <<a, b, c, d>>
           /\ n = ((a * 256 + b) * 256 + c) * 256 + d
<1>1. n \in Nat /\ n \div 16777216 < 256
  BY DEF Long
<1>2. PICK x \in Nat : x = n \div 256
  BY <1>1, DivMod
<1>3. PICK y \in Nat : y = x \div 256
  BY DivMod
<1>4. PICK z \in Nat : z = y \div 256
  BY DivMod
<1>5. y = n \div 65536 /\ z = n \div 16777216
  BY <1>1, <1>2, <1>3, <1>4, DivDiv
<1>6. z < 256 /\ z % 256 = z
  BY <1>1, <1>5
<1>7. z \in Byte
  BY <1>6, ByteRange
<1>8. PICK b \in Byte : b = y % 256 /\ y = z * 256 + b
  BY <1>4, DivMod
<1>9. PICK c \in Byte : c = x % 256 /\ x = y * 256 + c
  BY <1>3, DivMod
<1>10. PICK d \in Byte : d = n % 256 /\ n = x * 256 + d
  BY <1>1, <1>2, DivMod
<1>11. int_to_byte(n) = <<z, b, c, d>>
  BY <1>2, <1>5, <1>6, <1>8, <1>9, <1>10 DEF int_to_byte
<1>12. n = ((z * 256 + b) * 256 + c) * 256 + d
  BY <1>8, <1>9, <1>10
<1> QED
  BY <1>7, <1>11, <1>12

\* The recursion of Number, for the lengths that a number has.
LEMMA NumberFacts ==
  /\ \A a \in Byte : Number(<<a>>) = a
  /\ \A a \in Byte, b \in Byte : Number(<<a, b>>) = a * 256 + b
  /\ \A a \in Byte, b \in Byte, c \in Byte, d \in Byte :
       Number(<<a, b, c, d>>) = ((a * 256 + b) * 256 + c) * 256 + d
<1> DEFINE Counts(f, bytes) == f = [k \in 0 .. Len(bytes) |->
                                      IF k = 0 THEN 0 ELSE f[k - 1] * 256 + bytes[k]]
<1>1. ASSUME NEW bytes \in Seq(Byte), \E f : Counts(f, bytes)
      PROVE  \E f : Counts(f, bytes) /\ Number(bytes) = f[Len(bytes)]
  BY <1>1 DEF Number
<1>2. ASSUME NEW a \in Byte
      PROVE  Number(<<a>>) = a
  <2> DEFINE s == <<a>>
             g == [k \in 0 .. 1 |-> IF k = 0 THEN 0 ELSE a]
  <2>1. s \in Seq(Byte) /\ Len(s) = 1 /\ s[1] = a /\ a \in Int
    BY ByteRange
  <2>2. Counts(g, s)
    <3>1. \A k \in 0 .. 1 : g[k] = IF k = 0 THEN 0 ELSE g[k - 1] * 256 + s[k]
      BY <2>1
    <3> QED
      BY <2>1, <3>1
  <2>3. PICK f : Counts(f, s) /\ Number(s) = f[Len(s)]
    <3> HIDE DEF s, g, Counts
    <3> QED
      BY <1>1, <2>1, <2>2
  <2>4. f[0] = 0 /\ f[1] = f[0] * 256 + s[1]
    BY <2>1, <2>3
  <2> QED
    BY <2>1, <2>3, <2>4
<1>3. ASSUME NEW a \in Byte, NEW b \in Byte
      PROVE  Number(<<a, b>>) = a * 256 + b
  <2> DEFINE s == <<a, b>>
             g == [k \in 0 .. 2 |-> IF k = 0 THEN 0 ELSE IF k = 1 THEN a ELSE a * 256 + b]
  <2>1. s \in Seq(Byte) /\ Len(s) = 2 /\ s[1] = a /\ s[2] = b /\ a \in Int /\ b \in Int
    BY ByteRange
  <2>2. Counts(g, s)
    <3>1. \A k \in 0 .. 2 : g[k] = IF k = 0 THEN 0 ELSE g[k - 1] * 256 + s[k]
      BY <2>1
    <3> QED
      BY <2>1, <3>1
  <2>3. PICK f : Counts(f, s) /\ Number(s) = f[Len(s)]
    <3> HIDE DEF s, g, Counts
    <3> QED
      BY <1>1, <2>1, <2>2
  <2>4. f[0] = 0 /\ f[1] = f[0] * 256 + s[1] /\ f[2] = f[1] * 256 + s[2]
    BY <2>1, <2>3
  <2> QED
    BY <2>1, <2>3, <2>4
<1>4. ASSUME NEW a \in Byte, NEW b \in Byte, NEW c \in Byte, NEW d \in Byte
      PROVE  Number(<<a, b, c, d>>) = ((a * 256 + b) * 256 + c) * 256 + d
  <2> DEFINE s == <<a, b, c, d>>
             g == [k \in 0 .. 4 |-> IF k = 0 THEN 0 ELSE IF k = 1 THEN a
                                    ELSE IF k = 2 THEN a * 256 + b
                                    ELSE IF k = 3 THEN (a * 256 + b) * 256 + c
                                    ELSE ((a * 256 + b) * 256 + c) * 256 + d]
  <2>1. /\ s \in Seq(Byte) /\ Len(s) = 4 /\ s[1] = a /\ s[2] = b /\ s[3] = c /\ s[4] = d
        /\ a \in Int /\ b \in Int /\ c \in Int /\ d \in Int
    BY ByteRange
  <2>2. Counts(g, s)
    <3>1. \A k \in 0 .. 4 : g[k] = IF k = 0 THEN 0 ELSE g[k - 1] * 256 + s[k]
      BY <2>1
    <3> QED
      BY <2>1, <3>1
  <2>3. PICK f : Counts(f, s) /\ Number(s) = f[Len(s)]
    <3> HIDE DEF s, g, Counts
    <3> QED
      BY <1>1, <2>1, <2>2
  <2>4. /\ f[0] = 0 /\ f[1] = f[0] * 256 + s[1] /\ f[2] = f[1] * 256 + s[2]
        /\ f[3] = f[2] * 256 + s[3] /\ f[4] = f[3] * 256 + s[4]
    BY <2>1, <2>3
  <2> QED
    BY <2>1, <2>3, <2>4
<1> QED
  BY <1>2, <1>3, <1>4

\* The bytes of a short and of an unsigned long give it back.
LEMMA NumbersDecode ==
  /\ \A n \in Byte  : Number(<<n>>) = n
  /\ \A n \in Short : Number(short_to_byte(n)) = n /\ short_to_byte(n) \in Byte \X Byte
  /\ \A n \in Long  : /\ Number(int_to_byte(n)) = n
                      /\ int_to_byte(n) \in Byte \X Byte \X Byte \X Byte
<1>1. ASSUME NEW n \in Short
      PROVE  Number(short_to_byte(n)) = n /\ short_to_byte(n) \in Byte \X Byte
  <2>1. PICK h \in Byte, l \in Byte : short_to_byte(n) = <<h, l>> /\ n = h * 256 + l
    BY ShortBytes
  <2> QED
    BY <2>1, NumberFacts
<1>2. ASSUME NEW n \in Long
      PROVE  /\ Number(int_to_byte(n)) = n
             /\ int_to_byte(n) \in Byte \X Byte \X Byte \X Byte
  BY LongBytes, NumberFacts
<1> QED
  BY <1>1, <1>2, NumberFacts

\* A data point is four bytes and its value.
LEMMA PointBytes ==
  ASSUME NEW id \in Byte, NEW type \in Byte, NEW value \in Seq(Byte), Len(value) \in Short
  PROVE  LET p == Point(id, type, value)
         IN  /\ p \in Seq(Byte) /\ Len(p) = 4 + Len(value)
             /\ p[1] = id /\ p[2] = type /\ byte_to_short(<<p[3], p[4]>>) = Len(value)
             /\ \A n \in 1 .. Len(value) : p[4 + n] = value[n]
<1> DEFINE p == Point(id, type, value)
           len == Len(value)
<1>1. PICK h \in Byte, l \in Byte : short_to_byte(len) = <<h, l>> /\ len = h * 256 + l
  <2> HIDE DEF len
  <2>1. len \in Short
    BY DEF len
  <2> QED
    BY <2>1, ShortBytes
<1>2. p = <<id, type, h, l>> \o value
  BY <1>1 DEF Point
<1>3. /\ p \in Seq(Byte) /\ Len(p) = 4 + len /\ p[1] = id /\ p[2] = type /\ p[3] = h
      /\ p[4] = l /\ \A n \in 1 .. len : p[4 + n] = value[n]
  BY <1>2
<1> HIDE DEF p
<1>4. byte_to_short(<<p[3], p[4]>>) = len
  BY <1>1, <1>3 DEF byte_to_short
<1> QED
  BY <1>3, <1>4 DEF p

\* A data point lies at offset i, with some bytes after it.
PointLies(data, i, id, type, value, after) ==
  /\ Point(id, type, value) \in Seq(Byte) /\ Len(Point(id, type, value)) = 4 + Len(value)
  /\ data \in Seq(Byte) /\ Len(data) = i + 4 + Len(value) + Len(after)
  /\ dp_id(data, i) = id /\ dp_type(data, i) = type /\ dp_len(data, i) = Len(value)
  /\ \A n \in 1 .. Len(value) : data[i + 4 + n] = value[n]

\* A data point anywhere in the data of a frame: its parts are found where they lie.
LEMMA PointParts ==
  ASSUME NEW id \in Byte, NEW type \in Byte, NEW value \in Seq(Byte), Len(value) \in Short,
         NEW before \in Seq(Byte), NEW after \in Seq(Byte),
         NEW data, data = (before \o Point(id, type, value)) \o after
  PROVE  PointLies(data, Len(before), id, type, value, after)
<1> DEFINE i == Len(before)
           p == Point(id, type, value)
           len == Len(value)
<1>3. /\ p \in Seq(Byte) /\ Len(p) = 4 + len /\ p[1] = id /\ p[2] = type
      /\ byte_to_short(<<p[3], p[4]>>) = len /\ \A n \in 1 .. len : p[4 + n] = value[n]
  BY PointBytes
<1> HIDE DEF p
<1>4. i \in Nat /\ len \in Nat /\ Len(after) \in Nat
  OBVIOUS
<1>5. /\ before \o p \in Seq(Byte) /\ Len(before \o p) = i + (4 + len)
      /\ \A n \in 1 .. i + (4 + len) :
           (before \o p)[n] = IF n <= i THEN before[n] ELSE p[n - i]
  <2>1. Len(before) + Len(p) = i + (4 + len)
    BY <1>3
  <2>2. /\ before \o p \in Seq(Byte) /\ Len(before \o p) = Len(before) + Len(p)
        /\ \A n \in 1 .. Len(before) + Len(p) :
             (before \o p)[n] = IF n <= Len(before) THEN before[n] ELSE p[n - Len(before)]
    <3>1. p \in Seq(Byte)
      BY <1>3
    <3> QED
      BY <3>1, ConcatProperties
  <2> QED
    BY <2>1, <2>2
<1>6. data = (before \o p) \o after
  BY DEF p
<1>10. /\ data \in Seq(Byte) /\ Len(data) = i + (4 + len) + Len(after)
       /\ \A n \in 1 .. i + (4 + len) : data[n] = (before \o p)[n]
  <2> HIDE DEF i, len
  <2>1. \A n \in 1 .. i + (4 + len) : n \in 1 .. i + (4 + len) + Len(after) /\ n <= i + (4 + len)
    BY <1>4
  <2> QED
    BY <1>5, <1>6, <2>1, ConcatProperties
<1> HIDE DEF i, len
<1>11. \A n \in 1 .. 4 + len : data[i + n] = p[n]
  <2> SUFFICES ASSUME NEW n \in 1 .. 4 + len PROVE data[i + n] = p[n]
    OBVIOUS
  <2>1. i + n \in 1 .. i + (4 + len) /\ ~(i + n <= i) /\ (i + n) - i = n
    BY <1>4
  <2> QED
    BY <1>5, <1>10, <2>1
<1>12. {1, 2, 3, 4} \subseteq 1 .. 4 + len
  BY <1>4
<1>7. data[i + 1] = id /\ data[i + 2] = type /\ data[i + 3] = p[3] /\ data[i + 4] = p[4]
  BY <1>3, <1>11, <1>12
<1>8. \A n \in 1 .. len : data[i + 4 + n] = value[n]
  <2> SUFFICES ASSUME NEW n \in 1 .. len PROVE data[i + 4 + n] = value[n]
    OBVIOUS
  <2>1. 4 + n \in 1 .. 4 + len /\ i + (4 + n) = i + 4 + n
    BY <1>4
  <2> QED
    BY <1>3, <1>11, <2>1
<1>9. dp_len(data, i) = len
  BY <1>3, <1>7 DEF dp_len
<1>13. i + (4 + len) + Len(after) = i + 4 + len + Len(after)
  BY <1>4
<1>14. dp_id(data, i) = id /\ dp_type(data, i) = type
  BY <1>7 DEF dp_id, dp_type
<1> QED
  BY <1>3, <1>8, <1>9, <1>10, <1>13, <1>14 DEF p, i, len, PointLies

\* A frame is a command and bytes.
FrameType == [cmd : Int, data : Seq(Byte)]

\* What a receiver reads from a frame of one point is what was put in.
LEMMA PointDecodes ==
  ASSUME NEW cmd \in Int, NEW id \in Byte, NEW type \in Byte, NEW value \in Seq(Byte),
         Len(value) \in Short
  PROVE  /\ Frame(cmd, Point(id, type, value)) \in FrameType
         /\ Decoded(Frame(cmd, Point(id, type, value))) =
              [id |-> id, type |-> type, number |-> Number(value)]
         /\ Len(Point(id, type, value)) = 4 + dp_len(Point(id, type, value), 0)
<1> DEFINE p == Point(id, type, value)
<1>2. p \in Seq(Byte)
  BY PointBytes
<1>4. /\ Len(p) = 4 + Len(value)
      /\ dp_id(p, 0) = id /\ dp_type(p, 0) = type /\ dp_len(p, 0) = Len(value)
      /\ \A n \in 1 .. Len(value) : p[4 + n] = value[n]
  BY PointBytes DEF dp_id, dp_type, dp_len
<1>5. SubSeq(p, 5, 4 + Len(value)) = value
  <2> HIDE DEF p
  <2>1. SubSeq(p, 5, 4 + Len(value)) = [n \in 1 .. Len(value) |-> p[4 + n]]
    BY <1>2, <1>4
  <2>2. \A n \in 1 .. Len(value) : p[4 + n] = value[n]
    BY <1>4
  <2>3. value = [n \in 1 .. Len(value) |-> value[n]]
    OBVIOUS
  <2> QED
    BY <2>1, <2>2, <2>3
<1>6. Frame(cmd, p) = [cmd |-> cmd, data |-> p]
  BY DEF Frame
<1> HIDE DEF p
<1>7. Frame(cmd, p) \in FrameType
  BY <1>2, <1>6 DEF FrameType
<1>8. Decoded(Frame(cmd, p)) = [id |-> id, type |-> type, number |-> Number(value)]
  <2>1. Frame(cmd, p).data = p
    BY <1>6
  <2>2. SubSeq(p, 5, 4 + dp_len(p, 0)) = value
    BY <1>4, <1>5, Zenon
  <2> QED
    BY <1>4, <2>1, <2>2, Zenon DEF Decoded
<1> QED
  BY <1>4, <1>7, <1>8 DEF p

\* The reports of numbers, of whatever they are made.
ReportOf(frame, id, type, number) ==
  /\ frame \in FrameType
  /\ Decoded(frame) = [id |-> id, type |-> type, number |-> number]
  /\ Len(frame.data) = 4 + dp_len(frame.data, 0)

\* A frame of one point, whatever its value.
LEMMA PointReports ==
  ASSUME NEW cmd \in Int, NEW id \in Byte, NEW type \in Byte, NEW value \in Seq(Byte),
         Len(value) \in Short
  PROVE  ReportOf(Frame(cmd, Point(id, type, value)), id, type, Number(value))
<1> DEFINE p == Point(id, type, value)
<1>1. /\ Frame(cmd, p) \in FrameType /\ Len(p) = 4 + dp_len(p, 0)
      /\ Decoded(Frame(cmd, p)) = [id |-> id, type |-> type, number |-> Number(value)]
  BY PointDecodes
<1> HIDE DEF p
<1>2. Frame(cmd, p).data = p
  BY DEF Frame
<1> QED
  BY <1>1, <1>2 DEF ReportOf, p

LEMMA SmallLengths == {1, 2, 4} \subseteq Short
BY DEF Short

\* A value of one byte is read as it was, ...
LEMMA ByteReports ==
  ASSUME NEW id \in Byte, NEW n \in Byte, NEW type \in Byte, NEW cmd \in Int
  PROVE  ReportOf(Frame(cmd, Point(id, type, <<n>>)), id, type, n)
<1>1. <<n>> \in Seq(Byte) /\ Len(<<n>>) \in Short /\ Number(<<n>>) = n
  BY NumbersDecode, SmallLengths
<1> QED
  BY <1>1, PointReports

\* ... of two, ...
LEMMA ShortReports ==
  ASSUME NEW id \in Byte, NEW n \in Short, NEW type \in Byte, NEW cmd \in Int
  PROVE  ReportOf(Frame(cmd, Point(id, type, short_to_byte(n))), id, type, n)
<1>1. /\ short_to_byte(n) \in Seq(Byte) /\ Len(short_to_byte(n)) \in Short
      /\ Number(short_to_byte(n)) = n
  <2>1. PICK h \in Byte, l \in Byte : short_to_byte(n) = <<h, l>>
    BY ShortBytes
  <2> QED
    BY <2>1, NumbersDecode, SmallLengths
<1> QED
  BY <1>1, PointReports

\* ... of four, ...
LEMMA LongReports ==
  ASSUME NEW id \in Byte, NEW n \in Long, NEW type \in Byte, NEW cmd \in Int
  PROVE  ReportOf(Frame(cmd, Point(id, type, int_to_byte(n))), id, type, n)
<1>1. /\ int_to_byte(n) \in Seq(Byte) /\ Len(int_to_byte(n)) \in Short
      /\ Number(int_to_byte(n)) = n
  <2>1. PICK a \in Byte, b \in Byte, c \in Byte, d \in Byte : int_to_byte(n) = <<a, b, c, d>>
    BY LongBytes
  <2> QED
    BY <2>1, NumbersDecode, SmallLengths
<1> QED
  BY <1>1, PointReports

\* ... and of as many as a bitmap needs.
LEMMA BitmapReports ==
  ASSUME NEW id \in Byte, NEW n \in Long, NEW type \in Byte, NEW cmd \in Int
  PROVE  ReportOf(Frame(cmd, Point(id, type, bitmap_to_byte(n))), id, type, n)
<1>1. n \in Nat
  BY DEF Long
<1>2. CASE n < 256
  <2>1. n \in Byte /\ bitmap_to_byte(n) = <<n>>
    BY <1>1, <1>2, ByteRange DEF bitmap_to_byte
  <2> QED
    BY <2>1, ByteReports
<1>3. CASE ~(n < 256) /\ n < 65536
  <2>1. n \in Short /\ bitmap_to_byte(n) = short_to_byte(n)
    BY <1>1, <1>3 DEF bitmap_to_byte, Short
  <2> QED
    BY <2>1, ShortReports
<1>4. CASE ~(n < 256) /\ ~(n < 65536)
  <2>1. bitmap_to_byte(n) = int_to_byte(n)
    BY <1>4 DEF bitmap_to_byte
  <2> QED
    BY <2>1, LongReports
<1> QED
  BY <1>2, <1>3, <1>4

\* What the board's reports send.
LEMMA BoardFrames ==
  ASSUME NEW r \in Reports
  PROVE  \E type \in Byte :
           ReportOf(ReportFrame(r[1], r[2], r[3]), r[2], type,
                    IF r[1] \in {"bool", "network"} THEN (IF r[3] = 0 THEN 0 ELSE 1) ELSE r[3])
<1> DEFINE id == r[2]
           n  == r[3]
<1>1. IsReport(r) /\ id \in Byte
  BY SdkAssumption DEF IsReport
<1>2. {DP_TYPE_RAW, DP_TYPE_BOOL, DP_TYPE_VALUE, DP_TYPE_STRING, DP_TYPE_ENUM,
       DP_TYPE_BITMAP, 0, 1} \subseteq Byte
  BY ByteRange DEF DP_TYPE_RAW, DP_TYPE_BOOL, DP_TYPE_VALUE, DP_TYPE_STRING, DP_TYPE_ENUM,
                   DP_TYPE_BITMAP
<1>3. {ZIGBEE_DATA_REQ_CMD, DATA_REPORT_CMD, ZIGBEE_STATE_CMD} \subseteq Int
  BY DEF ZIGBEE_DATA_REQ_CMD, DATA_REPORT_CMD, ZIGBEE_STATE_CMD
<1>4. n \in Byte => n % 256 = n
  BY ByteRange
<1> HIDE DEF id, n
<1>5. CASE (r[1] = "bool" /\ n \in Byte) \/ (r[1] = "network" /\ n \in Long)
  <2> DEFINE b == IF n = 0 THEN 0 ELSE 1
  <2>1. b \in Byte
    BY <1>2
  <2>2. \/ ReportFrame(r[1], id, n) = Frame(ZIGBEE_DATA_REQ_CMD, Point(id, DP_TYPE_BOOL, <<b>>))
        \/ ReportFrame(r[1], id, n) = Frame(ZIGBEE_STATE_CMD, Point(id, DP_TYPE_BOOL, <<b>>))
    BY <1>4, <1>5 DEF ReportFrame, mcu_dp_bool_update, mcu_dp_report_network, BoolByte
  <2> HIDE DEF b
  <2>3. ReportOf(ReportFrame(r[1], id, n), id, DP_TYPE_BOOL, b)
    BY <1>1, <1>2, <1>3, <2>1, <2>2, ByteReports
  <2> QED
    BY <1>2, <1>5, <2>3 DEF b, id, n
<1>6. CASE r[1] = "enum" /\ n \in Byte
  <2>1. ReportFrame(r[1], id, n) = Frame(DATA_REPORT_CMD, Point(id, DP_TYPE_ENUM, <<n>>))
    BY <1>4, <1>6 DEF ReportFrame, mcu_dp_enum_update
  <2>2. ReportOf(ReportFrame(r[1], id, n), id, DP_TYPE_ENUM, n)
    BY <1>1, <1>2, <1>3, <1>6, <2>1, ByteReports
  <2> QED
    BY <1>2, <1>6, <2>2 DEF id, n
<1>7. CASE r[1] \in {"raw", "string", "hue"} /\ n \in Short
  <2>1. \E type \in {DP_TYPE_RAW, DP_TYPE_STRING, DP_TYPE_VALUE},
           cmd \in {ZIGBEE_DATA_REQ_CMD, DATA_REPORT_CMD} :
             ReportFrame(r[1], id, n) = Frame(cmd, Point(id, type, short_to_byte(n)))
    BY <1>7 DEF ReportFrame, mcu_dp_raw_update, mcu_dp_string_update,
                mcu_dp_hsl_value_hue_update
  <2>2. PICK type \in Byte, cmd \in Int :
               ReportFrame(r[1], id, n) = Frame(cmd, Point(id, type, short_to_byte(n)))
    BY <1>2, <1>3, <2>1
  <2>3. ReportOf(ReportFrame(r[1], id, n), id, type, n)
    BY <1>1, <1>7, <2>2, ShortReports
  <2> QED
    BY <1>7, <2>3 DEF id, n
<1>8. CASE r[1] \in {"bitmap", "fault"} /\ n \in Long
  <2>1. \E cmd \in {ZIGBEE_DATA_REQ_CMD, DATA_REPORT_CMD} :
             ReportFrame(r[1], id, n) = Frame(cmd, Point(id, DP_TYPE_BITMAP, bitmap_to_byte(n)))
    BY <1>8 DEF ReportFrame, mcu_dp_bitmap_update, mcu_dp_fault_update
  <2>2. PICK cmd \in Int :
             ReportFrame(r[1], id, n) = Frame(cmd, Point(id, DP_TYPE_BITMAP, bitmap_to_byte(n)))
    BY <1>3, <2>1
  <2>3. ReportOf(ReportFrame(r[1], id, n), id, DP_TYPE_BITMAP, n)
    BY <1>1, <1>2, <1>8, <2>2, BitmapReports
  <2> QED
    BY <1>2, <1>8, <2>3 DEF id, n
<1>9. CASE r[1] = "value" /\ n \in Long
  <2>1. ReportFrame(r[1], id, n) =
          Frame(ZIGBEE_DATA_REQ_CMD, Point(id, DP_TYPE_VALUE, int_to_byte(n)))
    BY <1>9 DEF ReportFrame, mcu_dp_value_update
  <2>2. ReportOf(ReportFrame(r[1], id, n), id, DP_TYPE_VALUE, n)
    BY <1>1, <1>2, <1>3, <1>9, <2>1, LongReports
  <2> QED
    BY <1>2, <1>9, <2>2 DEF id, n
<1> QED
  <2>1. \/ (r[1] = "bool" /\ n \in Byte) \/ (r[1] = "network" /\ n \in Long)
        \/ r[1] = "enum" /\ n \in Byte
        \/ r[1] \in {"raw", "string", "hue"} /\ n \in Short
        \/ r[1] \in {"bitmap", "fault"} /\ n \in Long
        \/ r[1] = "value" /\ n \in Long
    BY <1>1 DEF IsReport, n
  <2> QED
    BY <1>5, <1>6, <1>7, <1>8, <1>9, <2>1

-----------------------------------------------------------------------------
(***************************************************************************)
(* FlattenSeq, one sequence after the other.                               *)
(***************************************************************************)
First(s, k) == [n \in 1 .. k |-> s[n]]

IsFlat(f, s, k) == f = [i \in 1 .. k |-> IF i = 1 THEN s[i] ELSE f[i - 1] \o s[i]]

\* The first k of a sequence.
LEMMA FirstFacts ==
  ASSUME NEW S, NEW s \in Seq(S), NEW k \in 0 .. Len(s)
  PROVE  /\ First(s, k) \in Seq(S) /\ Len(First(s, k)) = k
         /\ \A n \in 1 .. k : First(s, k)[n] = s[n]
         /\ k = Len(s) => First(s, k) = s
<1>1. \A n \in 1 .. k : s[n] \in S
  OBVIOUS
<1>2. First(s, k) \in Seq(S)
  BY <1>1 DEF First
<1>3. k = Len(s) => First(s, k) = s
  BY DEF First
<1> QED
  BY <1>2, <1>3 DEF First

\* FlattenSeq is defined by the choice of a recursive function: there is one, ...
LEMMA FlatExists ==
  ASSUME NEW S, NEW s \in Seq(S), NEW k \in 0 .. Len(s)
  PROVE  \E f : IsFlat(f, s, k)
<1> DEFINE Fails == {m \in 0 .. Len(s) : ~\E f : IsFlat(f, s, m)}
<1> SUFFICES ASSUME Fails # {}
             PROVE  FALSE
  OBVIOUS
<1>1. Fails \subseteq Nat
  OBVIOUS
<1>2. PICK m \in Fails : \A n \in Fails : m <= n
  <2> HIDE DEF Fails
  <2> QED
    BY <1>1, LeastNatural
<1>3. IsFlat(<<>>, s, 0)
  BY DEF IsFlat
<1>4. m \in 1 .. Len(s)
  BY <1>2, <1>3
<1>5. m - 1 \in 0 .. Len(s) /\ ~(m <= m - 1)
  BY <1>4
<1>6. PICK f : IsFlat(f, s, m - 1)
  BY <1>2, <1>5
<1> DEFINE last == IF m = 1 THEN s[m] ELSE f[m - 1] \o s[m]
           g == [i \in 1 .. m |-> IF i = m THEN last ELSE f[i]]
<1>7. ASSUME NEW i \in 1 .. m
      PROVE  g[i] = IF i = 1 THEN s[i] ELSE g[i - 1] \o s[i]
  <2>1. CASE i = m
    <3>1. m # 1 => m - 1 \in 1 .. m /\ m - 1 # m
      BY <1>4
    <3> QED
      BY <2>1, <3>1
  <2>2. CASE i # m
    <3>1. i \in 1 .. m - 1 /\ (i # 1 => i - 1 \in 1 .. m /\ i - 1 # m)
      BY <1>4, <2>2
    <3>2. f[i] = IF i = 1 THEN s[i] ELSE f[i - 1] \o s[i]
      BY <1>6, <3>1 DEF IsFlat
    <3> HIDE DEF last
    <3> QED
      BY <2>2, <3>1, <3>2
  <2> QED
    BY <2>1, <2>2
<1>8. IsFlat(g, s, m)
  <2>1. g = [i \in 1 .. m |-> g[i]]
    OBVIOUS
  <2> HIDE DEF g
  <2> QED
    BY <1>7, <2>1 DEF IsFlat
<1> QED
  BY <1>2, <1>8

\* ... and only one, also between a sequence and its beginning.
LEMMA FlatUnique ==
  ASSUME NEW S, NEW s \in Seq(S), NEW k \in 0 .. Len(s), NEW m \in 0 .. Len(s), k <= m,
         NEW f, IsFlat(f, s, k), NEW g, IsFlat(g, s, m), NEW i \in 1 .. k
  PROVE  f[i] = g[i]
<1> DEFINE Differ == {n \in 1 .. k : f[n] # g[n]}
<1> SUFFICES ASSUME Differ # {}
             PROVE  FALSE
  OBVIOUS
<1>1. Differ \subseteq Nat
  OBVIOUS
<1>2. PICK n \in Differ : \A o \in Differ : n <= o
  <2> HIDE DEF Differ
  <2> QED
    BY <1>1, LeastNatural
<1>3. n \in 1 .. k /\ n \in 1 .. m /\ (n # 1 => n - 1 \in 1 .. k /\ ~(n <= n - 1))
  BY <1>2
<1>4. n # 1 => f[n - 1] = g[n - 1]
  BY <1>2, <1>3
<1>5. /\ f[n] = IF n = 1 THEN s[n] ELSE f[n - 1] \o s[n]
      /\ g[n] = IF n = 1 THEN s[n] ELSE g[n - 1] \o s[n]
  BY <1>3 DEF IsFlat
<1>6. f[n] = g[n]
  BY <1>4, <1>5
<1> QED
  BY <1>2, <1>6

\* The concatenation of the first k of them is the last value of that function.
LEMMA FlattenIsLast ==
  ASSUME NEW S, NEW s \in Seq(S), NEW k \in 1 .. Len(s), NEW f, IsFlat(f, s, k)
  PROVE  FlattenSeq(First(s, k)) = f[k]
<1> DEFINE t == First(s, k)
           Flat(g) == g = [i \in 1 .. Len(t) |-> IF i = 1 THEN t[i] ELSE g[i - 1] \o t[i]]
<1>1. k \in 0 .. Len(s) /\ k <= k /\ k \in 1 .. k
  OBVIOUS
<1>2. Len(t) = k /\ \A n \in 1 .. k : t[n] = s[n]
  BY <1>1, FirstFacts
<1> HIDE DEF t
<1>3. ASSUME NEW g
      PROVE  Flat(g) <=> IsFlat(g, s, k)
  BY <1>2 DEF IsFlat
<1>4. FlattenSeq(t) = (CHOOSE g : Flat(g))[k]
  BY <1>2 DEF FlattenSeq
<1>5. Flat(CHOOSE g : Flat(g))
  <2>1. \E g : Flat(g)
    BY <1>3
  <2> HIDE DEF Flat
  <2> QED
    BY <2>1
<1>6. PICK g : IsFlat(g, s, k) /\ FlattenSeq(t) = g[k]
  <2> HIDE DEF Flat
  <2> QED
    BY <1>3, <1>4, <1>5
<1> QED
  BY <1>1, <1>6, FlatUnique DEF t

\* What a concatenation of sequences is, one sequence at a time.
LEMMA FlattenSteps ==
  ASSUME NEW T, NEW s \in Seq(Seq(T))
  PROVE  /\ FlattenSeq(First(s, 0)) = <<>> /\ FlattenSeq(First(s, Len(s))) = FlattenSeq(s)
         /\ \A k \in 0 .. Len(s) - 1 :
              FlattenSeq(First(s, k + 1)) = FlattenSeq(First(s, k)) \o s[k + 1]
<1>1. Len(s) \in Nat
  OBVIOUS
<1>2. First(s, 0) = <<>> /\ First(s, Len(s)) = s
  <2>1. First(s, Len(s)) = s
    BY <1>1, FirstFacts
  <2> QED
    BY <2>1 DEF First
<1>3. FlattenSeq(<<>>) = <<>>
  BY DEF FlattenSeq
<1>4. ASSUME NEW k \in 0 .. Len(s) - 1
      PROVE  FlattenSeq(First(s, k + 1)) = FlattenSeq(First(s, k)) \o s[k + 1]
  <2>1. k \in 0 .. Len(s) /\ k + 1 \in 1 .. Len(s) /\ k + 1 \in 0 .. Len(s) /\ k <= k + 1
    BY <1>1
  <2>2. PICK f : IsFlat(f, s, k + 1)
    BY <2>1, FlatExists
  <2>3. FlattenSeq(First(s, k + 1)) = f[k + 1]
    BY <2>1, <2>2, FlattenIsLast
  <2>4. f[k + 1] = IF k + 1 = 1 THEN s[k + 1] ELSE f[(k + 1) - 1] \o s[k + 1]
    <3>1. k + 1 \in 1 .. k + 1
      BY <2>1
    <3> QED
      BY <2>2, <3>1 DEF IsFlat
  <2>5. CASE k = 0
    <3>1. s[k + 1] \in Seq(T)
      BY <2>1
    <3>2. <<>> \o s[k + 1] = s[k + 1]
      BY <3>1
    <3> QED
      BY <1>2, <1>3, <2>3, <2>4, <2>5, <3>2
  <2>6. CASE k # 0
    <3>1. k \in 1 .. Len(s) /\ k \in 1 .. k /\ (k + 1) - 1 = k /\ k + 1 # 1
      BY <2>1, <2>6
    <3>2. PICK g : IsFlat(g, s, k)
      BY <2>1, FlatExists
    <3>3. FlattenSeq(First(s, k)) = g[k]
      BY <3>1, <3>2, FlattenIsLast
    <3>4. g[k] = f[k]
      BY <2>1, <2>2, <3>1, <3>2, FlatUnique
    <3> QED
      BY <2>3, <2>4, <3>1, <3>3, <3>4
  <2> QED
    BY <2>5, <2>6
<1> QED
  BY <1>2, <1>3, <1>4

\* A concatenation holds what the sequences hold ...
LEMMA FlattenTypes ==
  ASSUME NEW T, NEW s \in Seq(Seq(T)), NEW k \in 0 .. Len(s)
  PROVE  FlattenSeq(First(s, k)) \in Seq(T)
<1> DEFINE Fails == {m \in 0 .. Len(s) : FlattenSeq(First(s, m)) \notin Seq(T)}
<1> SUFFICES ASSUME Fails # {}
             PROVE  FALSE
  OBVIOUS
<1>1. Fails \subseteq Nat
  OBVIOUS
<1>2. PICK m \in Fails : \A n \in Fails : m <= n
  <2> HIDE DEF Fails
  <2> QED
    BY <1>1, LeastNatural
<1>3. FlattenSeq(First(s, 0)) \in Seq(T)
  <2>1. <<>> \in Seq(T)
    OBVIOUS
  <2> QED
    BY <2>1, FlattenSteps, Zenon
<1>4. m \in 1 .. Len(s)
  BY <1>2, <1>3
<1>5. /\ m - 1 \in 0 .. Len(s) /\ m - 1 \in 0 .. Len(s) - 1 /\ (m - 1) + 1 = m
      /\ ~(m <= m - 1) /\ s[m] \in Seq(T)
  BY <1>4
<1>6. FlattenSeq(First(s, m - 1)) \in Seq(T)
  BY <1>2, <1>5
<1>7. FlattenSeq(First(s, m)) = FlattenSeq(First(s, m - 1)) \o s[m]
  BY <1>5, FlattenSteps, Zenon
<1>8. FlattenSeq(First(s, m)) \in Seq(T)
  BY <1>5, <1>6, <1>7, ConcatProperties
<1> QED
  BY <1>2, <1>8

\* ... and begins with the concatenation of the first of them.
LEMMA FlattenPrefix ==
  ASSUME NEW T, NEW s \in Seq(Seq(T)), NEW k \in 0 .. Len(s)
  PROVE  \E rest \in Seq(T) : FlattenSeq(s) = FlattenSeq(First(s, k)) \o rest
<1> DEFINE F(m) == FlattenSeq(First(s, m))
           Follows(m) == \E rest \in Seq(T) : F(m) = F(k) \o rest
           Fails == {m \in k .. Len(s) : ~Follows(m)}
<1>1. ASSUME Fails # {}
      PROVE  FALSE
  <2>1. Fails \subseteq Nat
    OBVIOUS
  <2>2. PICK m \in Fails : \A n \in Fails : m <= n
    <3> HIDE DEF Fails
    <3> QED
      BY <1>1, <2>1, LeastNatural
  <2>3. Follows(k)
    <3>1. F(k) \in Seq(T) /\ <<>> \in Seq(T)
      BY FlattenTypes
    <3>2. F(k) \o <<>> = F(k)
      BY <3>1, ConcatEmptySeq
    <3> QED
      BY <3>1, <3>2
  <2>4. m # k
    BY <2>2, <2>3
  <2>5. /\ m - 1 \in k .. Len(s) /\ m - 1 \in 0 .. Len(s) - 1 /\ (m - 1) + 1 = m
        /\ ~(m <= m - 1) /\ s[m] \in Seq(T)
    BY <2>2, <2>4
  <2>6. PICK rest \in Seq(T) : F(m - 1) = F(k) \o rest
    BY <2>2, <2>5
  <2>7. F(m) = F(m - 1) \o s[m]
    BY <2>5, FlattenSteps, Zenon
  <2>8. F(m) = F(k) \o (rest \o s[m]) /\ rest \o s[m] \in Seq(T)
    <3>1. F(k) \in Seq(T)
      BY FlattenTypes
    <3>2. rest \o s[m] \in Seq(T)
      BY <2>5, ConcatProperties
    <3>3. (F(k) \o rest) \o s[m] = F(k) \o (rest \o s[m])
      <4>1. PICK u \in Seq(T), v \in Seq(T) : u = F(k) /\ v = s[m]
        BY <2>5, <3>1
      <4>2. (u \o rest) \o v = u \o (rest \o v)
        BY ConcatAssociative
      <4> QED
        BY <4>1, <4>2
    <3> HIDE DEF F
    <3> QED
      BY <2>6, <2>7, <3>2, <3>3
  <2> QED
    BY <2>2, <2>8
<1>2. Follows(Len(s))
  <2>1. Len(s) \in k .. Len(s)
    OBVIOUS
  <2> HIDE DEF Follows
  <2> QED
    BY <1>1, <2>1
<1>3. F(Len(s)) = FlattenSeq(s)
  BY FlattenSteps
<1> QED
  BY <1>2, <1>3

-----------------------------------------------------------------------------
(***************************************************************************)
(* What the queue takes.                                                   *)
(***************************************************************************)
LEMMA FirstOfFacts ==
  ASSUME NEW S, NEW list \in Seq(S)
  PROVE  /\ FirstOf(list) \in Seq(S) /\ Len(FirstOf(list)) <= QueueLen
         /\ Len(FirstOf(list)) = IF Len(list) > QueueLen THEN QueueLen ELSE Len(list)
         /\ \A n \in 1 .. Len(FirstOf(list)) : FirstOf(list)[n] = list[n]
<1>1. QueueLen \in Nat
  BY SdkAssumption
<1>2. CASE Len(list) > QueueLen
  <2>1. FirstOf(list) = [n \in 1 .. QueueLen |-> list[n]]
    BY <1>1, <1>2 DEF FirstOf
  <2>2. \A n \in 1 .. QueueLen : list[n] \in S
    BY <1>1, <1>2
  <2> QED
    BY <1>1, <1>2, <2>1, <2>2
<1>3. CASE ~(Len(list) > QueueLen)
  <2>1. FirstOf(list) = list
    BY <1>3 DEF FirstOf
  <2> QED
    BY <1>1, <1>3, <2>1
<1> QED
  BY <1>2, <1>3

\* What was lost before stays lost.
LEMMA FirstOfConcat ==
  ASSUME NEW S, NEW a \in Seq(S), NEW b \in Seq(S)
  PROVE  FirstOf(FirstOf(a) \o b) = FirstOf(a \o b)
<1>1. QueueLen \in Nat
  BY SdkAssumption
<1>2. CASE Len(a) > QueueLen
  <2> DEFINE c == FirstOf(a)
             l == FirstOf(c \o b)
             r == FirstOf(a \o b)
  <2>1. c \in Seq(S) /\ Len(c) = QueueLen /\ \A n \in 1 .. QueueLen : c[n] = a[n]
    BY <1>2, FirstOfFacts
  <2> HIDE DEF c
  <2>2. /\ c \o b \in Seq(S) /\ Len(c \o b) >= QueueLen
        /\ \A n \in 1 .. QueueLen : (c \o b)[n] = a[n]
    BY <1>1, <2>1
  <2>3. /\ a \o b \in Seq(S) /\ Len(a \o b) >= QueueLen
        /\ \A n \in 1 .. QueueLen : (a \o b)[n] = a[n]
    BY <1>1, <1>2
  <2>4. ASSUME NEW s \in Seq(S), Len(s) >= QueueLen, \A n \in 1 .. QueueLen : s[n] = a[n]
        PROVE  /\ FirstOf(s) \in Seq(S) /\ Len(FirstOf(s)) = QueueLen
               /\ \A n \in 1 .. QueueLen : FirstOf(s)[n] = a[n]
    <3>1. Len(FirstOf(s)) = QueueLen
      BY <1>1, <2>4, FirstOfFacts
    <3> QED
      BY <2>4, <3>1, FirstOfFacts
  <2>5. /\ l \in Seq(S) /\ Len(l) = QueueLen /\ \A n \in 1 .. QueueLen : l[n] = a[n]
    BY <2>2, <2>4
  <2>6. /\ r \in Seq(S) /\ Len(r) = QueueLen /\ \A n \in 1 .. QueueLen : r[n] = a[n]
    BY <2>3, <2>4
  <2> HIDE DEF l, r
  <2>7. l = r
    BY <2>5, <2>6, SeqEqual
  <2> QED
    BY <2>7 DEF l, r, c
<1>3. CASE ~(Len(a) > QueueLen)
  BY <1>3 DEF FirstOf
<1> QED
  BY <1>2, <1>3

\* What a receiver reads from the frames of the queue.
Readings(list) == [n \in 1 .. Len(list) |-> Decoded(list[n])]

\* What a receiver reads from the frame of a data point.
Reading == [id : Byte, type : Byte, number : Int]

IsRead(list) == /\ list \in Seq(FrameType)
                /\ \A n \in 1 .. Len(list) : Decoded(list[n]) \in Reading

\* There are as many readings as frames.
LEMMA ReadingsFacts ==
  ASSUME NEW list, IsRead(list)
  PROVE  Readings(list) \in Seq(Reading) /\ Len(Readings(list)) = Len(list)
<1>1. Len(list) \in Nat
  BY DEF IsRead
<1>2. \A n \in 1 .. Len(list) : Decoded(list[n]) \in Reading
  BY DEF IsRead
<1> QED
  BY <1>1, <1>2 DEF Readings

\* The readings of two queues in a row.
LEMMA ReadingsConcat ==
  ASSUME NEW a, NEW b, IsRead(a), IsRead(b)
  PROVE  IsRead(a \o b) /\ Readings(a \o b) = Readings(a) \o Readings(b)
<1>1. a \in Seq(FrameType) /\ b \in Seq(FrameType)
  BY DEF IsRead
<1>2. /\ a \o b \in Seq(FrameType) /\ Len(a \o b) = Len(a) + Len(b)
      /\ \A n \in 1 .. Len(a) + Len(b) :
           (a \o b)[n] = IF n <= Len(a) THEN a[n] ELSE b[n - Len(a)]
  BY <1>1, ConcatProperties
<1>3. /\ Len(a) \in Nat /\ Len(b) \in Nat
      /\ \A n \in 1 .. Len(a) + Len(b) : n \in 1 .. Len(a) \/ n - Len(a) \in 1 .. Len(b)
      /\ \A n \in 1 .. Len(a) + Len(b) : n <= Len(a) => n \in 1 .. Len(a)
      /\ \A n \in 1 .. Len(a) + Len(b) : ~(n <= Len(a)) => n - Len(a) \in 1 .. Len(b)
  BY <1>1
<1>4. IsRead(a \o b)
  BY <1>2, <1>3 DEF IsRead
<1>5. /\ Readings(a) \in Seq(Reading) /\ Len(Readings(a)) = Len(a)
      /\ Readings(b) \in Seq(Reading) /\ Len(Readings(b)) = Len(b)
      /\ Readings(a \o b) \in Seq(Reading) /\ Len(Readings(a \o b)) = Len(a) + Len(b)
  BY <1>2, <1>4, ReadingsFacts
<1> DEFINE r == Readings(a) \o Readings(b)
<1>6. /\ r \in Seq(Reading) /\ Len(r) = Len(a) + Len(b)
      /\ \A n \in 1 .. Len(a) + Len(b) :
           r[n] = IF n <= Len(a) THEN Readings(a)[n] ELSE Readings(b)[n - Len(a)]
  <2>1. PICK x \in Seq(Reading), y \in Seq(Reading) :
             x = Readings(a) /\ y = Readings(b) /\ Len(x) = Len(a) /\ Len(y) = Len(b)
    BY <1>5
  <2>2. /\ x \o y \in Seq(Reading) /\ Len(x \o y) = Len(x) + Len(y)
        /\ \A n \in 1 .. Len(x) + Len(y) :
             (x \o y)[n] = IF n <= Len(x) THEN x[n] ELSE y[n - Len(x)]
    BY ConcatProperties
  <2> QED
    BY <2>1, <2>2
<1>7. /\ \A n \in 1 .. Len(a) : Readings(a)[n] = Decoded(a[n])
      /\ \A n \in 1 .. Len(b) : Readings(b)[n] = Decoded(b[n])
      /\ \A n \in 1 .. Len(a) + Len(b) : Readings(a \o b)[n] = Decoded((a \o b)[n])
  BY <1>2 DEF Readings
<1> HIDE DEF r
<1>8. ASSUME NEW n \in 1 .. Len(a) + Len(b)
      PROVE  Readings(a \o b)[n] = r[n]
  <2>1. CASE n <= Len(a)
    BY <1>2, <1>3, <1>6, <1>7, <2>1
  <2>2. CASE ~(n <= Len(a))
    BY <1>2, <1>3, <1>6, <1>7, <2>2
  <2> QED
    BY <2>1, <2>2
<1>9. Readings(a \o b) = r
  BY <1>5, <1>6, <1>8, SeqEqual
<1> QED
  BY <1>4, <1>9 DEF r

\* The readings of what a queue has room for.
LEMMA ReadingsFirst ==
  ASSUME NEW list, IsRead(list)
  PROVE  IsRead(FirstOf(list)) /\ Readings(FirstOf(list)) = FirstOf(Readings(list))
<1> DEFINE f == FirstOf(list)
           r == Readings(list)
           g == FirstOf(r)
<1>1. list \in Seq(FrameType)
  BY DEF IsRead
<1>2. /\ f \in Seq(FrameType) /\ \A n \in 1 .. Len(f) : f[n] = list[n]
      /\ Len(f) = IF Len(list) > QueueLen THEN QueueLen ELSE Len(list)
  BY <1>1, FirstOfFacts
<1>3. r \in Seq(Reading) /\ Len(r) = Len(list)
  BY ReadingsFacts
<1>4. \A n \in 1 .. Len(list) : r[n] = Decoded(list[n])
  BY DEF Readings
<1> HIDE DEF r
<1>5. /\ g \in Seq(Reading) /\ \A n \in 1 .. Len(g) : g[n] = r[n]
      /\ Len(g) = IF Len(list) > QueueLen THEN QueueLen ELSE Len(list)
  BY <1>3, FirstOfFacts
<1> HIDE DEF f, g
<1>6. Len(f) \in Nat /\ Len(f) = Len(g) /\ \A n \in 1 .. Len(f) : n \in 1 .. Len(list)
  <2>1. QueueLen \in Nat /\ Len(list) \in Nat
    BY <1>1, SdkAssumption
  <2> QED
    BY <1>2, <1>5, <2>1
<1>7. IsRead(f)
  BY <1>2, <1>6 DEF IsRead
<1>8. Readings(f) \in Seq(Reading) /\ Len(Readings(f)) = Len(f)
  BY <1>7, ReadingsFacts
<1>9. \A n \in 1 .. Len(f) : Readings(f)[n] = g[n]
  BY <1>2, <1>4, <1>5, <1>6 DEF Readings
<1>10. Readings(f) = g
  BY <1>5, <1>6, <1>8, <1>9, SeqEqual
<1> QED
  BY <1>7, <1>10 DEF f, g, r

-----------------------------------------------------------------------------
(***************************************************************************)
(* The table of the known data points.                                     *)
(***************************************************************************)
KnownPoints == {SWITCH_LED, BRIGHT_VALUE, BRIGHTNESS_MIN, LED_TYPE, BRIGHTNESS_MAX,
                TRANSACTION, LIGHT_MODE, DEVICE_STATUS, CCT_OR_HSL, TERMP_OR_HUE, SATURATION}

\* The line of PointTypes for a point: there is none for LIGHTNESS.
LineOf(point) == IF point < LIGHTNESS THEN point ELSE point - 1
TypeOf(point) == PointTypes[LineOf(point)][2]

\* The numbers of the data points and of their types.
LEMMA PointNumbers ==
  /\ SWITCH_LED = 1 /\ BRIGHT_VALUE = 2 /\ BRIGHTNESS_MIN = 3 /\ LED_TYPE = 4
  /\ BRIGHTNESS_MAX = 5 /\ TRANSACTION = 6 /\ LIGHT_MODE = 7 /\ DEVICE_STATUS = 8
  /\ CCT_OR_HSL = 9 /\ LIGHTNESS = 10 /\ TERMP_OR_HUE = 11 /\ SATURATION = 12
  /\ DPID_RESTART_STATUS = 200 /\ Channels = 0 .. 7
  /\ DP_TYPE_RAW = 0 /\ DP_TYPE_BOOL = 1 /\ DP_TYPE_VALUE = 2 /\ DP_TYPE_STRING = 3
  /\ DP_TYPE_ENUM = 4 /\ DP_TYPE_BITMAP = 5
BY DEF SWITCH_LED, BRIGHT_VALUE, BRIGHTNESS_MIN, LED_TYPE, BRIGHTNESS_MAX, TRANSACTION,
       LIGHT_MODE, DEVICE_STATUS, CCT_OR_HSL, LIGHTNESS, TERMP_OR_HUE, SATURATION,
       DPID_RESTART_STATUS, Channels, NUMBER_CHANNEL_IN_DEVICE, DP_TYPE_RAW, DP_TYPE_BOOL,
       DP_TYPE_VALUE, DP_TYPE_STRING, DP_TYPE_ENUM, DP_TYPE_BITMAP

\* The type of each data point.
LEMMA TypesOfPoints ==
  /\ TypeOf(SWITCH_LED) = DP_TYPE_BOOL /\ TypeOf(BRIGHT_VALUE) = DP_TYPE_VALUE
  /\ TypeOf(BRIGHTNESS_MIN) = DP_TYPE_VALUE /\ TypeOf(LED_TYPE) = DP_TYPE_ENUM
  /\ TypeOf(BRIGHTNESS_MAX) = DP_TYPE_VALUE /\ TypeOf(TRANSACTION) = DP_TYPE_VALUE
  /\ TypeOf(LIGHT_MODE) = DP_TYPE_ENUM /\ TypeOf(DEVICE_STATUS) = DP_TYPE_VALUE
  /\ TypeOf(CCT_OR_HSL) = DP_TYPE_RAW /\ TypeOf(TERMP_OR_HUE) = DP_TYPE_VALUE
  /\ TypeOf(SATURATION) = DP_TYPE_VALUE
BY PointNumbers DEF TypeOf, LineOf, PointTypes

\* The lines of PointTypes are those of the known points, each its own.
LEMMA PointLines ==
  /\ Len(PointTypes) = 11
  /\ \A j \in 1 .. 11 : \E point \in KnownPoints :
       j = LineOf(point) /\ PointTypes[j] = <<point, TypeOf(point)>>
  /\ \A point \in KnownPoints : /\ LineOf(point) \in 1 .. 11 /\ point \in 1 .. 12
                                /\ PointTypes[LineOf(point)] = <<point, TypeOf(point)>>
<1>1. Len(PointTypes) = 11
  BY DEF PointTypes
<1>2. ASSUME NEW point \in KnownPoints
      PROVE  /\ LineOf(point) \in 1 .. 11 /\ point \in 1 .. 12
             /\ PointTypes[LineOf(point)] = <<point, TypeOf(point)>>
  BY PointNumbers DEF KnownPoints, LineOf, PointTypes, TypeOf
<1>3. ASSUME NEW j \in 1 .. 11
      PROVE  \E point \in KnownPoints : j = LineOf(point)
  <2> DEFINE point == IF j < 10 THEN j ELSE j + 1
  <2>1. point \in KnownPoints /\ j = LineOf(point)
    BY PointNumbers DEF KnownPoints, LineOf
  <2> QED
    BY <2>1
<1> QED
  BY <1>1, <1>2, <1>3

\* The lines of download_cmd: eleven for each channel, and the last.
LEMMA TableLines ==
  /\ Len(download_cmd) = 89 /\ DOMAIN download_cmd = 1 .. 89
  /\ download_cmd[89] = <<200, DP_TYPE_ENUM>>
  /\ \A n \in 1 .. 88 : \E point \in KnownPoints, c \in Channels :
       n = 11 * c + LineOf(point) /\ download_cmd[n] = <<point + c * 16, TypeOf(point)>>
  /\ \A point \in KnownPoints, c \in Channels :
       /\ 11 * c + LineOf(point) \in 1 .. 88
       /\ download_cmd[11 * c + LineOf(point)] = <<point + c * 16, TypeOf(point)>>
<1> DEFINE row(n) == LET point == PointTypes[((n - 1) % 11) + 1]
                     IN  <<Dpid(point[1], (n - 1) \div 11), point[2]>>
           rows == [n \in 1 .. 88 |-> row(n)]
           last == <<DPID_RESTART_STATUS, DP_TYPE_ENUM>>
<1>1. download_cmd = rows \o <<last>>
  BY PointLines DEF download_cmd, NUMBER_CHANNEL_IN_DEVICE
<1>2. /\ Len(download_cmd) = 89 /\ DOMAIN download_cmd = 1 .. 89 /\ download_cmd[89] = last
      /\ \A n \in 1 .. 88 : download_cmd[n] = row(n)
  <2> HIDE DEF row, last
  <2> QED
    BY <1>1
<1>3. ASSUME NEW n \in 1 .. 88
      PROVE  /\ ((n - 1) % 11) + 1 \in 1 .. 11 /\ (n - 1) \div 11 \in 0 .. 7
             /\ n = 11 * ((n - 1) \div 11) + (((n - 1) % 11) + 1)
  BY SMTT(30)
<1>4. ASSUME NEW c \in 0 .. 7, NEW j \in 1 .. 11
      PROVE  /\ 11 * c + j \in 1 .. 88 /\ (((11 * c + j) - 1) % 11) + 1 = j
             /\ ((11 * c + j) - 1) \div 11 = c
  BY SMTT(30)
<1>5. ASSUME NEW n \in 1 .. 88
      PROVE  \E point \in KnownPoints, c \in Channels :
               n = 11 * c + LineOf(point) /\ download_cmd[n] = <<point + c * 16, TypeOf(point)>>
  <2>1. PICK j \in 1 .. 11, c \in Channels :
             j = ((n - 1) % 11) + 1 /\ c = (n - 1) \div 11 /\ n = 11 * c + j
    BY <1>3, PointNumbers
  <2>2. PICK point \in KnownPoints :
             j = LineOf(point) /\ PointTypes[j] = <<point, TypeOf(point)>>
    BY PointLines
  <2>3. download_cmd[n] = <<point + c * 16, TypeOf(point)>>
    <3>1. download_cmd[n] = <<Dpid(PointTypes[j][1], c), PointTypes[j][2]>>
      <4>1. download_cmd[n] = row(n)
        BY <1>2
      <4> QED
        BY <2>1, <2>2, <4>1
    <3>2. PointTypes[j][1] = point /\ PointTypes[j][2] = TypeOf(point)
      BY <2>1, <2>2
    <3> QED
      BY <3>1, <3>2 DEF Dpid
  <2> QED
    BY <2>1, <2>2, <2>3
<1>6. ASSUME NEW point \in KnownPoints, NEW c \in Channels
      PROVE  /\ 11 * c + LineOf(point) \in 1 .. 88
             /\ download_cmd[11 * c + LineOf(point)] = <<point + c * 16, TypeOf(point)>>
  <2>1. PICK j \in 1 .. 11 : j = LineOf(point) /\ PointTypes[j] = <<point, TypeOf(point)>>
    BY PointLines
  <2>2. PICK n \in 1 .. 88 : n = 11 * c + j /\ ((n - 1) % 11) + 1 = j /\ (n - 1) \div 11 = c
    BY <1>4, PointNumbers
  <2>3. download_cmd[n] = <<point + c * 16, TypeOf(point)>>
    <3>1. download_cmd[n] = <<Dpid(PointTypes[j][1], c), PointTypes[j][2]>>
      <4>1. download_cmd[n] = row(n)
        BY <1>2
      <4> QED
        BY <2>1, <2>2, <4>1
    <3>2. PointTypes[j][1] = point /\ PointTypes[j][2] = TypeOf(point)
      BY <2>1, <2>2
    <3> QED
      BY <3>1, <3>2 DEF Dpid
  <2> QED
    BY <2>1, <2>2, <2>3
<1> QED
  BY <1>2, <1>5, <1>6, PointNumbers

\* The lines for an id: at most one.
Rows(id) == {n \in 1 .. Len(download_cmd) : download_cmd[n][1] = id}

\* The search of the table finds the only line for an id, or ends behind the table.
LEMMA RowFound ==
  ASSUME NEW id, NEW behind
  PROVE  /\ \A n \in 1 .. 89 : Rows(id) = {n} => TypesOf(id, behind) = {download_cmd[n][2]}
         /\ Rows(id) = {} => TypesOf(id, behind) = {behind}
<1>1. Len(download_cmd) = 89
  BY TableLines
<1>2. get_dowmload_dpid_index(id) =
        LET i == IF Rows(id) # {} THEN Min(Rows(id)) ELSE 0 IN IF i = 0 THEN 90 ELSE i
  BY <1>1 DEF get_dowmload_dpid_index, SelectInSeq, Rows
<1>3. ASSUME NEW n \in 1 .. 89, Rows(id) = {n}
      PROVE  TypesOf(id, behind) = {download_cmd[n][2]}
  <2>1. Min({n}) = n
    BY DEF Min
  <2>2. get_dowmload_dpid_index(id) = n
    BY <1>2, <1>3, <2>1
  <2> QED
    BY <1>1, <2>2 DEF TypesOf
<1>4. ASSUME Rows(id) = {}
      PROVE  TypesOf(id, behind) = {behind}
  <2>1. get_dowmload_dpid_index(id) = 90
    BY <1>2, <1>4
  <2> QED
    BY <1>1, <2>1 DEF TypesOf
<1> QED
  BY <1>3, <1>4

\* The id of a point of a channel tells both.
LEMMA IdParts ==
  ASSUME NEW point \in 1 .. 12, NEW c \in Channels, NEW id, id = point + c * 16
  PROVE  /\ id \in Byte /\ id % 16 = point /\ id \div 16 = c /\ id < 128 /\ id # 200
         /\ \A q \in 1 .. 12 : Is(id, q) <=> q = point
<1>1. c \in 0 .. 7
  BY PointNumbers
<1>2. id \in Int /\ 0 <= id /\ id < 128
  BY <1>1
<1>3. id \in Byte
  BY <1>2, ByteRange
<1>4. id % 16 = point /\ id \div 16 = c
  BY <1>1
<1>5. ASSUME NEW q \in 1 .. 12
      PROVE  Is(id, q) <=> q = point
  <2>1. ASSUME NEW d \in Channels, id = q + d * 16
        PROVE  q = point
    <3>1. d \in 0 .. 7
      BY PointNumbers
    <3> QED
      BY <1>1, <2>1, <3>1
  <2> QED
    BY <2>1 DEF Is, Dpid
<1> QED
  BY <1>2, <1>3, <1>4, <1>5

\* A known point has the type the table gives it, on every channel, and no other.
LEMMA TableKnows ==
  ASSUME NEW point \in KnownPoints, NEW c \in Channels, NEW id, id = point + c * 16
  PROVE  /\ \A behind : TypesOf(id, behind) = {TypeOf(point)}
         /\ \A type : <<id, type>> \in ToSet(download_cmd) <=> type = TypeOf(point)
<1>1. point \in 1 .. 12
  BY PointLines
<1>2. PICK line \in 1 .. 88 : line = 11 * c + LineOf(point)
                              /\ download_cmd[line] = <<id, TypeOf(point)>>
  <2>1. /\ 11 * c + LineOf(point) \in 1 .. 88
        /\ download_cmd[11 * c + LineOf(point)] = <<point + c * 16, TypeOf(point)>>
    BY TableLines, Zenon
  <2> QED
    BY <2>1
<1>3. ASSUME NEW n \in 1 .. 89, download_cmd[n][1] = id
      PROVE  n = line
  <2>1. n # 89
    <3>1. id # 200
      BY <1>1, IdParts
    <3> QED
      BY <1>3, <3>1, TableLines
  <2>2. n \in 1 .. 88
    BY <2>1
  <2>3. PICK q \in KnownPoints, d \in Channels :
             n = 11 * d + LineOf(q) /\ download_cmd[n] = <<q + d * 16, TypeOf(q)>>
    BY <2>2, TableLines
  <2>4. id = q + d * 16 /\ q \in 1 .. 12
    BY <1>3, <2>3, PointLines
  <2>5. q = point /\ d = c
    <3>1. id % 16 = point /\ id \div 16 = c
      BY <1>1, IdParts
    <3>2. id % 16 = q /\ id \div 16 = d
      BY <2>4, IdParts
    <3> QED
      BY <3>1, <3>2
  <2> QED
    BY <1>2, <2>3, <2>5
<1>4. Len(download_cmd) = 89 /\ DOMAIN download_cmd = 1 .. 89 /\ line \in 1 .. 89
  BY TableLines
<1>5. Rows(id) = {line}
  <2>1. line \in Rows(id)
    BY <1>2, <1>4 DEF Rows
  <2>2. \A n \in Rows(id) : n \in 1 .. 89 /\ download_cmd[n][1] = id
    BY <1>4 DEF Rows
  <2>3. \A n \in Rows(id) : n = line
    BY <1>3, <2>2
  <2> QED
    BY <2>1, <2>3
<1>6. \A behind : TypesOf(id, behind) = {TypeOf(point)}
  <2>1. download_cmd[line][2] = TypeOf(point)
    BY <1>2
  <2>2. ASSUME NEW behind
        PROVE  TypesOf(id, behind) = {download_cmd[line][2]}
    BY <1>4, <1>5, RowFound, SMTT(60)
  <2> QED
    BY <2>1, <2>2, Zenon
<1>8. ASSUME NEW type
      PROVE  <<id, type>> \in ToSet(download_cmd) <=> type = TypeOf(point)
  <2>1. ASSUME <<id, type>> \in ToSet(download_cmd)
        PROVE  type = TypeOf(point)
    <3>1. PICK n \in 1 .. 89 : download_cmd[n] = <<id, type>>
      BY <1>4, <2>1 DEF ToSet
    <3>3. download_cmd[n][1] = id /\ download_cmd[n][2] = type
      BY <3>1
    <3>2. n = line
      BY <1>3, <3>3
    <3> QED
      BY <1>2, <3>2, <3>3
  <2>2. <<id, TypeOf(point)>> \in ToSet(download_cmd)
    BY <1>2, <1>4 DEF ToSet
  <2> QED
    BY <2>1, <2>2
<1> QED
  BY <1>6, <1>8

\* The other ids: that of the restart status has the last line, the rest have none.
Lines == 1 .. Len(download_cmd)

\* The last line.
LEMMA LastLine ==
  /\ DOMAIN download_cmd = Lines /\ Len(download_cmd) \in Lines
  /\ download_cmd[Len(download_cmd)] = <<DPID_RESTART_STATUS, DP_TYPE_ENUM>>
<1>1. /\ Len(download_cmd) = 89 /\ DOMAIN download_cmd = 1 .. 89
      /\ download_cmd[89] = <<200, DP_TYPE_ENUM>>
  BY TableLines
<1> QED
  BY <1>1 DEF Lines, DPID_RESTART_STATUS

\* No line but the last is for the id of no known point.
LEMMA OtherLines ==
  ASSUME NEW id, \A point \in KnownPoints, c \in Channels : id # point + c * 16,
         NEW n \in Lines, download_cmd[n][1] = id
  PROVE  n = Len(download_cmd)
<1> SUFFICES ASSUME n # Len(download_cmd)
             PROVE  FALSE
  OBVIOUS
<1>1. n \in 1 .. 88
  BY TableLines DEF Lines
<1>2. PICK q \in KnownPoints, d \in Channels : download_cmd[n] = <<q + d * 16, TypeOf(q)>>
  <2>1. \E q \in KnownPoints, d \in Channels :
          n = 11 * d + LineOf(q) /\ download_cmd[n] = <<q + d * 16, TypeOf(q)>>
    BY <1>1, TableLines
  <2> QED
    BY <2>1
<1>3. id = q + d * 16
  BY <1>2
<1> QED
  BY <1>3

\* The restart status has the type of the last line.
LEMMA RestartLine ==
  /\ \A behind : TypesOf(DPID_RESTART_STATUS, behind) = {DP_TYPE_ENUM}
  /\ \A type : <<DPID_RESTART_STATUS, type>> \in ToSet(download_cmd) <=> type = DP_TYPE_ENUM
<1> DEFINE id == DPID_RESTART_STATUS
           last == Len(download_cmd)
<1>1. DOMAIN download_cmd = Lines /\ last \in Lines /\ download_cmd[last] = <<id, DP_TYPE_ENUM>>
  BY LastLine
<1>2. \A point \in KnownPoints, c \in Channels : id # point + c * 16
  <2>1. \A point \in KnownPoints, c \in Channels : point \in 1 .. 12 /\ c \in 0 .. 7
    BY PointLines, PointNumbers
  <2> QED
    BY <2>1, PointNumbers
<1> HIDE DEF id, last
<1>3. ASSUME NEW n \in Lines, download_cmd[n][1] = id
      PROVE  n = last
  BY <1>2, <1>3, OtherLines DEF last
<1>4. Rows(id) = {last}
  <2>1. last \in Rows(id)
    BY <1>1 DEF Rows, Lines
  <2>2. \A n \in Rows(id) : n \in Lines /\ download_cmd[n][1] = id
    BY DEF Rows, Lines
  <2>3. \A n \in Rows(id) : n = last
    BY <1>3, <2>2
  <2> QED
    BY <2>1, <2>3
<1>5. \A behind : TypesOf(id, behind) = {DP_TYPE_ENUM}
  <2>1. last \in 1 .. 89
    BY TableLines, <1>1 DEF Lines
  <2>2. download_cmd[last][2] = DP_TYPE_ENUM
    BY <1>1
  <2> QED
    BY <1>4, <2>1, <2>2, RowFound
<1>6. ASSUME NEW type, <<id, type>> \in ToSet(download_cmd)
      PROVE  type = DP_TYPE_ENUM
  <2>1. PICK n \in Lines : download_cmd[n] = <<id, type>>
    BY <1>1, <1>6 DEF ToSet
  <2>2. download_cmd[n][1] = id /\ download_cmd[n][2] = type
    BY <2>1
  <2>3. n = last
    BY <1>3, <2>2
  <2> QED
    BY <1>1, <2>2, <2>3
<1>7. <<id, DP_TYPE_ENUM>> \in ToSet(download_cmd)
  BY <1>1 DEF ToSet
<1> QED
  BY <1>5, <1>6, <1>7 DEF id

\* The table has no type for the id of no point.
LEMMA NoLine ==
  ASSUME NEW id, \A point \in KnownPoints, c \in Channels : id # point + c * 16,
         id # DPID_RESTART_STATUS, NEW type
  PROVE  <<id, type>> \notin ToSet(download_cmd)
<1> SUFFICES ASSUME <<id, type>> \in ToSet(download_cmd)
             PROVE  FALSE
  OBVIOUS
<1>1. PICK n \in Lines : download_cmd[n] = <<id, type>>
  BY LastLine DEF ToSet
<1>2. download_cmd[n][1] = id
  BY <1>1
<1>3. n = Len(download_cmd)
  BY <1>2, OtherLines
<1>4. download_cmd[Len(download_cmd)][1] = DPID_RESTART_STATUS
  BY LastLine
<1> QED
  BY <1>2, <1>3, <1>4

-----------------------------------------------------------------------------
(***************************************************************************)
(* What a value of the lamp is answered with.                              *)
(***************************************************************************)
Says(list, readings) == IsRead(list) /\ Readings(list) = readings

\* A report of a number says that number.
LEMMA ReportSays ==
  ASSUME NEW frame, NEW id \in Byte, NEW type \in Byte, NEW n \in Int,
         ReportOf(frame, id, type, n)
  PROVE  Says(<<frame>>, <<[id |-> id, type |-> type, number |-> n]>>)
<1>1. frame \in FrameType /\ Decoded(frame) = [id |-> id, type |-> type, number |-> n]
  BY DEF ReportOf
<1>2. IsRead(<<frame>>)
  BY <1>1 DEF IsRead, Reading
<1>3. Readings(<<frame>>) = <<Decoded(frame)>>
  BY DEF Readings
<1> QED
  BY <1>1, <1>2, <1>3 DEF Says

\* A byte is a short, and a short a long.
LEMMA Widths == Byte \subseteq Int /\ Short \subseteq Long /\ Long \subseteq Int
<1>1. Byte \subseteq Int
  BY DEF Byte
<1>2. ASSUME NEW n \in Short
      PROVE  n \in Long
  BY DEF Short, Long
<1> QED
  BY <1>1, <1>2 DEF Long

LEMMA CommandsAndTypes ==
  /\ {DP_TYPE_RAW, DP_TYPE_BOOL, DP_TYPE_VALUE, DP_TYPE_STRING, DP_TYPE_ENUM,
      DP_TYPE_BITMAP, 0, 1} \subseteq Byte
  /\ {ZIGBEE_DATA_REQ_CMD, DATA_REPORT_CMD, ZIGBEE_STATE_CMD} \subseteq Int
BY ByteRange DEF DP_TYPE_RAW, DP_TYPE_BOOL, DP_TYPE_VALUE, DP_TYPE_STRING, DP_TYPE_ENUM,
                 DP_TYPE_BITMAP, ZIGBEE_DATA_REQ_CMD, DATA_REPORT_CMD, ZIGBEE_STATE_CMD

\* What the reports of the handlers say: a number, ...
LEMMA ValueSays ==
  ASSUME NEW id \in Byte, NEW n \in Long
  PROVE  Says(<<mcu_dp_value_update(id, n)>>,
              <<[id |-> id, type |-> DP_TYPE_VALUE, number |-> n]>>)
<1>1. ReportOf(mcu_dp_value_update(id, n), id, DP_TYPE_VALUE, n)
  BY CommandsAndTypes, LongReports DEF mcu_dp_value_update
<1> QED
  BY <1>1, Widths, CommandsAndTypes, ReportSays

\* ... an enumeration, ...
LEMMA EnumSays ==
  ASSUME NEW id \in Byte, NEW n \in Byte
  PROVE  Says(<<mcu_dp_enum_update(id, n)>>,
              <<[id |-> id, type |-> DP_TYPE_ENUM, number |-> n]>>)
<1>1. n % 256 = n
  BY ByteRange
<1>2. ReportOf(mcu_dp_enum_update(id, n), id, DP_TYPE_ENUM, n)
  BY <1>1, CommandsAndTypes, ByteReports DEF mcu_dp_enum_update
<1> QED
  BY <1>2, Widths, CommandsAndTypes, ReportSays

\* ... a switch, ...
LEMMA SwitchSays ==
  ASSUME NEW id \in Byte, NEW n \in {0, 1}
  PROVE  Says(<<mcu_dp_bool_update(id, n)>>,
              <<[id |-> id, type |-> DP_TYPE_BOOL, number |-> n]>>)
<1>1. BoolByte(n) = n /\ n \in Byte /\ n \in Int
  BY CommandsAndTypes DEF BoolByte
<1>2. ReportOf(mcu_dp_bool_update(id, n), id, DP_TYPE_BOOL, n)
  BY <1>1, CommandsAndTypes, ByteReports DEF mcu_dp_bool_update
<1> QED
  BY <1>1, <1>2, CommandsAndTypes, ReportSays

\* ... and two shorts in a row, as one number.
LEMMA RawSays ==
  ASSUME NEW id \in Byte, NEW n \in Short, NEW m \in Short
  PROVE  Says(<<mcu_dp_raw_update(id, short_to_byte(n) \o short_to_byte(m))>>,
              <<[id |-> id, type |-> DP_TYPE_RAW, number |-> n * 65536 + m]>>)
<1>1. PICK a \in Byte, b \in Byte : short_to_byte(n) = <<a, b>> /\ n = a * 256 + b
  BY ShortBytes
<1>2. PICK c \in Byte, d \in Byte : short_to_byte(m) = <<c, d>> /\ m = c * 256 + d
  BY ShortBytes
<1>3. short_to_byte(n) \o short_to_byte(m) = <<a, b, c, d>>
  <2> DEFINE s == <<a, b>>
             t == <<c, d>>
             u == <<a, b, c, d>>
  <2>1. s \in Seq(Byte) /\ t \in Seq(Byte) /\ u \in Seq(Byte)
    OBVIOUS
  <2>2. /\ Len(s) = 2 /\ s[1] = a /\ s[2] = b /\ Len(t) = 2 /\ t[1] = c /\ t[2] = d
        /\ Len(u) = 4 /\ u[1] = a /\ u[2] = b /\ u[3] = c /\ u[4] = d
    OBVIOUS
  <2> HIDE DEF s, t, u
  <2>3. /\ s \o t \in Seq(Byte) /\ Len(s \o t) = 2 + 2
        /\ \A i \in 1 .. 2 + 2 : (s \o t)[i] = IF i <= 2 THEN s[i] ELSE t[i - 2]
    <3>1. /\ s \o t \in Seq(Byte) /\ Len(s \o t) = Len(s) + Len(t)
          /\ \A i \in 1 .. Len(s) + Len(t) :
               (s \o t)[i] = IF i <= Len(s) THEN s[i] ELSE t[i - Len(s)]
      BY <2>1, ConcatProperties
    <3> QED
      BY <2>2, <3>1
  <2>4. s \o t = u
    BY <2>1, <2>2, <2>3, SeqEqual, SMTT(60)
  <2> QED
    BY <1>1, <1>2, <2>4, Zenon DEF s, t, u
<1>4. Number(<<a, b, c, d>>) = n * 65536 + m
  <2>1. a \in Int /\ b \in Int /\ c \in Int /\ d \in Int
    BY Widths
  <2>2. Number(<<a, b, c, d>>) = ((a * 256 + b) * 256 + c) * 256 + d
    BY NumberFacts
  <2> QED
    BY <1>1, <1>2, <2>1, <2>2
<1>5. <<a, b, c, d>> \in Seq(Byte) /\ Len(<<a, b, c, d>>) \in Short
  BY SmallLengths
<1>6. ReportOf(mcu_dp_raw_update(id, <<a, b, c, d>>), id, DP_TYPE_RAW, n * 65536 + m)
  <2> DEFINE v == <<a, b, c, d>>
  <2> HIDE DEF v
  <2>1. v \in Seq(Byte) /\ Len(v) \in Short /\ Number(v) = n * 65536 + m
    BY <1>4, <1>5 DEF v
  <2>2. ReportOf(Frame(DATA_REPORT_CMD, Point(id, DP_TYPE_RAW, v)), id, DP_TYPE_RAW, Number(v))
    BY <2>1, CommandsAndTypes, PointReports
  <2> QED
    BY <2>1, <2>2 DEF mcu_dp_raw_update, v
<1>7. n * 65536 + m \in Int
  BY Widths
<1> QED
  BY <1>3, <1>6, <1>7, CommandsAndTypes, ReportSays

\* The reading of a single report.
Single(point, c, type, number) ==
  <<[id |-> point + c * 16, type |-> type, number |-> number]>>

\* The values of the lamp as reports, for every channel.
LEMMA LampSays ==
  ASSUME NEW lamps \in Drivers, NEW c \in Channels
  PROVE  /\ Says(ReportSwitch(lamps, SWITCH_LED, c),
                 Single(SWITCH_LED, c, DP_TYPE_BOOL, lamps[c][SWITCH_LED]))
         /\ Says(ReportSwitch(lamps, LIGHT_MODE, c),
                 Single(LIGHT_MODE, c, DP_TYPE_BOOL, lamps[c][LIGHT_MODE]))
         /\ Says(ReportEnum(lamps, LED_TYPE, c),
                 Single(LED_TYPE, c, DP_TYPE_ENUM, lamps[c][LED_TYPE]))
         /\ Says(ReportEnum(lamps, LIGHT_MODE, c),
                 Single(LIGHT_MODE, c, DP_TYPE_ENUM, lamps[c][LIGHT_MODE]))
         /\ Says(ReportValue(lamps, BRIGHT_VALUE, c),
                 Single(BRIGHT_VALUE, c, DP_TYPE_VALUE, lamps[c][BRIGHT_VALUE]))
         /\ Says(ReportValue(lamps, BRIGHTNESS_MIN, c),
                 Single(BRIGHTNESS_MIN, c, DP_TYPE_VALUE, lamps[c][BRIGHTNESS_MIN]))
         /\ Says(ReportValue(lamps, BRIGHTNESS_MAX, c),
                 Single(BRIGHTNESS_MAX, c, DP_TYPE_VALUE, lamps[c][BRIGHTNESS_MAX]))
         /\ Says(ReportValue(lamps, TRANSACTION, c),
                 Single(TRANSACTION, c, DP_TYPE_VALUE, lamps[c][TRANSACTION]))
         /\ Says(ReportValue(lamps, TERMP_OR_HUE, c),
                 Single(TERMP_OR_HUE, c, DP_TYPE_VALUE, lamps[c][TERMP_OR_HUE]))
         /\ Says(ReportValue(lamps, SATURATION, c),
                 Single(SATURATION, c, DP_TYPE_VALUE, lamps[c][SATURATION]))
         /\ Says(respond_cct_or_hsl(lamps, c),
                 Single(CCT_OR_HSL, c, DP_TYPE_RAW,
                        lamps[c][BRIGHT_VALUE] * 65536 + lamps[c][TERMP_OR_HUE]))
<1>1. IsLamp(lamps[c])
  BY SdkAssumption
<1>2. \A point \in 1 .. 12 : point + c * 16 \in Byte /\ Dpid(point, c) = point + c * 16
  BY IdParts DEF Dpid
<1>3. ASSUME NEW point \in {SWITCH_LED, LIGHT_MODE}
      PROVE  Says(ReportSwitch(lamps, point, c),
                  Single(point, c, DP_TYPE_BOOL, lamps[c][point]))
  <2>1. point \in 1 .. 12 /\ lamps[c][point] \in {0, 1}
    BY <1>1, PointNumbers DEF IsLamp
  <2> QED
    BY <1>2, <2>1, SwitchSays DEF ReportSwitch, Single
<1>4. ASSUME NEW point \in {LED_TYPE, LIGHT_MODE}
      PROVE  Says(ReportEnum(lamps, point, c),
                  Single(point, c, DP_TYPE_ENUM, lamps[c][point]))
  <2>1. point \in 1 .. 12 /\ lamps[c][point] \in Byte
    BY <1>1, PointNumbers, CommandsAndTypes DEF IsLamp
  <2> QED
    BY <1>2, <2>1, EnumSays DEF ReportEnum, Single
<1>5. ASSUME NEW point \in {BRIGHT_VALUE, BRIGHTNESS_MIN, BRIGHTNESS_MAX, TRANSACTION,
                            TERMP_OR_HUE, SATURATION}
      PROVE  Says(ReportValue(lamps, point, c),
                  Single(point, c, DP_TYPE_VALUE, lamps[c][point]))
  <2>1. lamps[c][point] \in Long
    <3>1. CASE point = TRANSACTION
      BY <1>1, <3>1 DEF IsLamp
    <3>2. CASE point \in {BRIGHT_VALUE, BRIGHTNESS_MIN, BRIGHTNESS_MAX, TERMP_OR_HUE, SATURATION}
      BY <1>1, <3>2, Widths DEF IsLamp
    <3> QED
      BY <3>1, <3>2
  <2>2. point \in 1 .. 12
    BY PointNumbers
  <2> QED
    BY <1>2, <2>1, <2>2, ValueSays DEF ReportValue, Single
<1>6. Says(respond_cct_or_hsl(lamps, c),
           Single(CCT_OR_HSL, c, DP_TYPE_RAW,
                  lamps[c][BRIGHT_VALUE] * 65536 + lamps[c][TERMP_OR_HUE]))
  <2>1. /\ lamps[c][BRIGHT_VALUE] \in Short /\ lamps[c][TERMP_OR_HUE] \in Short
        /\ CCT_OR_HSL \in 1 .. 12
    BY <1>1, PointNumbers DEF IsLamp
  <2> QED
    BY <1>2, <2>1, RawSays DEF respond_cct_or_hsl, Single
<1> QED
  BY <1>3, <1>4, <1>5, <1>6

\* The answer about the restart status.
LEMMA RestartSays ==
  ASSUME NEW lamps \in Drivers
  PROVE  Says(dp_download_restart_status_handle(lamps),
              <<[id |-> DPID_RESTART_STATUS, type |-> DP_TYPE_ENUM,
                number |-> lamps[0][DPID_RESTART_STATUS]]>>)
<1>1. 0 \in Channels
  BY PointNumbers
<1>2. lamps[0][DPID_RESTART_STATUS] \in Byte /\ DPID_RESTART_STATUS \in Byte
  <2>1. IsLamp(lamps[0])
    BY <1>1, SdkAssumption
  <2>2. lamps[0][DPID_RESTART_STATUS] \in Byte
    BY <2>1 DEF IsLamp
  <2>3. 200 \in Byte
    BY ByteRange
  <2> QED
    BY <2>2, <2>3 DEF DPID_RESTART_STATUS
<1> QED
  BY <1>2, PointNumbers, EnumSays DEF dp_download_restart_status_handle

\* Two answers in a row.
LEMMA BothSay ==
  ASSUME NEW a, NEW b, NEW ra, NEW rb, Says(a, ra), Says(b, rb)
  PROVE  Says(a \o b, ra \o rb)
BY ReadingsConcat DEF Says

\* A value that comes back is read from the bytes behind the head of its point.
LEMMA ValueComesBack ==
  ASSUME NEW value \in Seq(Byte), Len(value) = 4, NEW rest \in Seq(Byte)
  PROVE  /\ mcu_get_dp_download_value(value \o rest) = Number(value)
         /\ Number(value) \in Long
<1> DEFINE v == value \o rest
<1>1. PICK a \in Byte, b \in Byte, c \in Byte, d \in Byte : value = <<a, b, c, d>>
  <2>1. value[1] \in Byte /\ value[2] \in Byte /\ value[3] \in Byte /\ value[4] \in Byte
    <3>1. {1, 2, 3, 4} \subseteq 1 .. Len(value)
      OBVIOUS
    <3>2. \A i \in 1 .. Len(value) : value[i] \in Byte
      BY Zenon, ElementOfSeq
    <3> QED
      BY <3>1, <3>2
  <2>2. value = <<value[1], value[2], value[3], value[4]>>
    <3> DEFINE u == <<value[1], value[2], value[3], value[4]>>
    <3>1. u \in Seq(Byte) /\ Len(u) = 4 /\ \A i \in 1 .. 4 : value[i] = u[i]
      BY <2>1
    <3> HIDE DEF u
    <3>2. value = u
      BY <3>1, SeqEqual
    <3> QED
      BY <3>2 DEF u
  <2> QED
    BY <2>1, <2>2
<1>2. /\ v \in Seq(Byte) /\ Len(v) = 4 + Len(rest)
      /\ v[1] = a /\ v[2] = b /\ v[3] = c /\ v[4] = d
  <2>1. /\ v \in Seq(Byte) /\ Len(v) = Len(value) + Len(rest)
        /\ \A i \in 1 .. Len(value) + Len(rest) :
             v[i] = IF i <= Len(value) THEN value[i] ELSE rest[i - Len(value)]
    BY ConcatProperties
  <2>2. Len(rest) \in Nat
    OBVIOUS
  <2> HIDE DEF v
  <2>3. v[1] = value[1] /\ v[2] = value[2] /\ v[3] = value[3] /\ v[4] = value[4]
    BY <2>1, <2>2
  <2> QED
    BY <1>1, <2>1, <2>3
<1> HIDE DEF v
<1>3. /\ Tail(Tail(v))[1] = c /\ Tail(Tail(v))[2] = d
  <2>1. Len(rest) \in Nat
    OBVIOUS
  <2>2. Tail(v) \in Seq(Byte) /\ Len(Tail(v)) = 3 + Len(rest)
        /\ Tail(v)[2] = c /\ Tail(v)[3] = d
    BY <1>2, <2>1
  <2> QED
    BY <2>1, <2>2
<1>4. a \in 0 .. 255 /\ b \in 0 .. 255 /\ c \in 0 .. 255 /\ d \in 0 .. 255
  BY DEF Byte
<1>5. Number(value) = ((a * 256 + b) * 256 + c) * 256 + d
  BY <1>1, NumberFacts
<1>6. mcu_get_dp_download_value(v) = (a * 256 + b) * 65536 + (c * 256 + d)
  BY <1>2, <1>3 DEF mcu_get_dp_download_value, byte_to_int, byte_to_short
<1>7. mcu_get_dp_download_value(v) = Number(value)
  BY <1>4, <1>5, <1>6
<1>8. Number(value) \in Long
  <2> DEFINE low == b * 65536 + c * 256 + d
  <2>1. low \in Nat /\ low < 16777216 /\ Number(value) = a * 16777216 + low
    BY <1>4, <1>5
  <2> HIDE DEF low
  <2>2. (a * 16777216 + low) \div 16777216 = a
    BY <1>4, <2>1
  <2> QED
    BY <1>4, <2>1, <2>2 DEF Long
<1> QED
  BY <1>7, <1>8 DEF v

\* No answer.
LEMMA NothingSays == Says(<<>>, <<>>)
<1>1. IsRead(<<>>)
  BY DEF IsRead
<1>2. Readings(<<>>) = <<>>
  BY DEF Readings
<1> QED
  BY <1>1, <1>2 DEF Says

\* What a known data point is owed, with its id taken apart.
OwedNumber(cmd, point, c, value) ==
  IF point = CCT_OR_HSL THEN driver[c][BRIGHT_VALUE] * 65536 + driver[c][TERMP_OR_HUE]
  ELSE IF cmd = ZIGBEE_DATA_REQ_CMD /\ point \in {TERMP_OR_HUE, SATURATION} THEN Number(value)
  ELSE driver[c][point]

OwedReading(cmd, point, c, value) ==
  [id |-> point + c * 16,
   type |-> IF cmd = DATA_DATA_RES_CMD /\ point = LIGHT_MODE THEN DP_TYPE_BOOL ELSE TypeOf(point),
   number |-> OwedNumber(cmd, point, c, value)]

LevelReading(c) == [id |-> BRIGHT_VALUE + c * 16, type |-> DP_TYPE_VALUE,
                    number |-> driver[c][BRIGHT_VALUE]]

WithLevel(cmd, point, c) ==
  cmd = ZIGBEE_DATA_REQ_CMD /\ point = SWITCH_LED /\ driver[c][SWITCH_LED] # 0

\* Which handlers an id of a known point is for: those of its point.
LEMMA KnownId ==
  ASSUME NEW point \in KnownPoints, NEW c \in Channels, NEW id, id = point + c * 16
  PROVE  /\ ChannelOf(id) = c /\ id \in Byte /\ id < 128 /\ id # DPID_RESTART_STATUS
         /\ id % 16 = point /\ Dpid(point, c) = id
         /\ \A q \in KnownPoints : Is(id, q) <=> q = point
<1>1. point \in 1 .. 12 /\ KnownPoints \subseteq 1 .. 12
  BY PointLines
<1>2. \A q \in 1 .. 12 : Is(id, q) <=> q = point
  BY <1>1, IdParts
<1>3. id \in Byte /\ id < 128 /\ id % 16 = point /\ id \div 16 = c /\ id # 200
  BY <1>1, IdParts
<1> QED
  BY <1>1, <1>2, <1>3 DEF ChannelOf, DPID_RESTART_STATUS, Dpid

\* A known point of another type than that of the table is owed nothing, ...
LEMMA OwedMistyped ==
  ASSUME NEW point \in KnownPoints, NEW c \in Channels, NEW id, id = point + c * 16,
         NEW value, NEW cmd, NEW t, t # TypeOf(point)
  PROVE  Owed(cmd, <<id, t, value>>) = <<>>
<1>1. <<id, t>> \notin ToSet(download_cmd)
  BY TableKnows
<1>2. <<id, t, value>>[1] = id /\ <<id, t, value>>[2] = t
  OBVIOUS
<1> QED
  BY <1>1, <1>2 DEF Owed

\* ... and one of its own type an answer, or two.
LEMMA OwedKnown ==
  ASSUME NEW point \in KnownPoints, NEW c \in Channels, NEW id, id = point + c * 16,
         NEW value, NEW cmd
  PROVE  Owed(cmd, <<id, TypeOf(point), value>>) =
           IF point = DEVICE_STATUS THEN <<>>
           ELSE IF WithLevel(cmd, point, c)
           THEN <<OwedReading(cmd, point, c, value), LevelReading(c)>>
           ELSE <<OwedReading(cmd, point, c, value)>>
<1>1. ChannelOf(id) = c /\ id < 128 /\ id # DPID_RESTART_STATUS /\ id % 16 = point
  BY KnownId
<1>2. \A t : <<id, t>> \in ToSet(download_cmd) <=> t = TypeOf(point)
  BY TableKnows
<1>3. OwedValue(cmd, id, point, value) = OwedNumber(cmd, point, c, value)
  BY <1>1, PointNumbers DEF OwedValue, OwedNumber
<1>4. ASSUME NEW t
      PROVE  /\ <<id, t, value>>[1] = id /\ <<id, t, value>>[2] = t
             /\ <<id, t, value>>[3] = value
  OBVIOUS
<1>6. <<id, TypeOf(point)>> \in ToSet(download_cmd)
  BY <1>2
<1>7. point = SWITCH_LED => id + 1 = BRIGHT_VALUE + c * 16
  <2>1. c \in Int
    BY PointNumbers
  <2> QED
    BY <2>1, PointNumbers
<1> DEFINE p == <<id, TypeOf(point), value>>
           first == [id |-> id,
                     type |-> IF cmd = DATA_DATA_RES_CMD /\ id < 128 /\ point = LIGHT_MODE
                              THEN DP_TYPE_BOOL ELSE TypeOf(point),
                     number |-> OwedValue(cmd, id, point, value)]
           second == [id |-> id + 1, type |-> DP_TYPE_VALUE,
                      number |-> driver[c][BRIGHT_VALUE]]
<1>8. Owed(cmd, p) = IF point = DEVICE_STATUS THEN <<>>
                     ELSE IF WithLevel(cmd, point, c) THEN <<first, second>> ELSE <<first>>
  <2>1. p[1] = id /\ p[2] = TypeOf(point) /\ p[3] = value
    BY <1>4
  <2> HIDE DEF p
  <2> QED
    BY <1>1, <1>6, <2>1 DEF Owed, WithLevel
<1>9. first = OwedReading(cmd, point, c, value)
  BY <1>1, <1>3 DEF OwedReading
<1>10. WithLevel(cmd, point, c) => second = LevelReading(c)
  BY <1>7 DEF WithLevel, LevelReading
<1> HIDE DEF first, second
<1> QED
  BY <1>8, <1>9, <1>10

\* A known data point that is set.
LEMMA DownloadSays ==
  ASSUME driver \in Drivers, NEW point \in KnownPoints, NEW c \in Channels,
         NEW id, id = point + c * 16, NEW value \in Seq(Byte), NEW rest \in Seq(Byte),
         point \in {TERMP_OR_HUE, SATURATION} => Len(value) = 4
  PROVE  Says(dp_download_handle(driver, id, value \o rest),
              Owed(ZIGBEE_DATA_REQ_CMD, <<id, TypeOf(point), value>>))
<1> DEFINE v == value \o rest
           owed == Owed(ZIGBEE_DATA_REQ_CMD, <<id, TypeOf(point), value>>)
           reading == OwedReading(ZIGBEE_DATA_REQ_CMD, point, c, value)
<1>1. ZIGBEE_DATA_REQ_CMD # DATA_DATA_RES_CMD
  BY DEF ZIGBEE_DATA_REQ_CMD, DATA_DATA_RES_CMD
<1>2. owed = IF point = DEVICE_STATUS THEN <<>>
             ELSE IF WithLevel(ZIGBEE_DATA_REQ_CMD, point, c) THEN <<reading, LevelReading(c)>>
             ELSE <<reading>>
  BY OwedKnown
<1>3. reading = [id |-> point + c * 16, type |-> TypeOf(point),
                 number |-> OwedNumber(ZIGBEE_DATA_REQ_CMD, point, c, value)]
  BY <1>1 DEF OwedReading
<1>4. /\ ChannelOf(id) = c /\ id \in Byte /\ id # DPID_RESTART_STATUS /\ Dpid(point, c) = id
      /\ \A q \in KnownPoints : Is(id, q) <=> q = point
  BY KnownId
<1>5. /\ Is(id, SWITCH_LED) <=> point = SWITCH_LED
      /\ Is(id, BRIGHT_VALUE) <=> point = BRIGHT_VALUE
      /\ Is(id, BRIGHTNESS_MIN) <=> point = BRIGHTNESS_MIN
      /\ Is(id, LED_TYPE) <=> point = LED_TYPE
      /\ Is(id, BRIGHTNESS_MAX) <=> point = BRIGHTNESS_MAX
      /\ Is(id, TRANSACTION) <=> point = TRANSACTION
      /\ Is(id, LIGHT_MODE) <=> point = LIGHT_MODE
      /\ Is(id, CCT_OR_HSL) <=> point = CCT_OR_HSL
      /\ Is(id, TERMP_OR_HUE) <=> point = TERMP_OR_HUE
      /\ Is(id, SATURATION) <=> point = SATURATION
  BY <1>4 DEF KnownPoints
<1> HIDE DEF owed, v, reading
<1>6. CASE point = SWITCH_LED
  <2>1. dp_download_handle(driver, id, v) = dp_download_switch_led_handle(driver, c)
    BY <1>4, <1>5, <1>6, PointNumbers DEF dp_download_handle
  <2>2. Says(ReportSwitch(driver, SWITCH_LED, c), <<reading>>)
    <3>1. <<reading>> = Single(SWITCH_LED, c, DP_TYPE_BOOL, driver[c][SWITCH_LED])
      BY <1>3, <1>6, PointNumbers, TypesOfPoints DEF OwedNumber, Single
    <3> QED
      BY <3>1, LampSays
  <2>3. Says(ReportValue(driver, BRIGHT_VALUE, c), <<LevelReading(c)>>)
    <3>1. <<LevelReading(c)>> = Single(BRIGHT_VALUE, c, DP_TYPE_VALUE, driver[c][BRIGHT_VALUE])
      BY DEF LevelReading, Single
    <3> QED
      BY <3>1, LampSays
  <2>4. CASE driver[c][SWITCH_LED] # 0
    <3>1. dp_download_switch_led_handle(driver, c) =
            ReportSwitch(driver, SWITCH_LED, c) \o ReportValue(driver, BRIGHT_VALUE, c)
      BY <2>4 DEF dp_download_switch_led_handle
    <3>2. owed = <<reading>> \o <<LevelReading(c)>>
      <4>1. owed = <<reading, LevelReading(c)>>
        BY <1>2, <1>6, <2>4, PointNumbers DEF WithLevel
      <4> QED
        BY <4>1
    <3> QED
      BY <2>1, <2>2, <2>3, <3>1, <3>2, BothSay DEF owed, v
  <2>5. CASE ~(driver[c][SWITCH_LED] # 0)
    <3>1. dp_download_switch_led_handle(driver, c) = ReportSwitch(driver, SWITCH_LED, c) \o <<>>
      BY <2>5 DEF dp_download_switch_led_handle
    <3>2. owed = <<reading>> \o <<>>
      <4>1. owed = <<reading>>
        BY <1>2, <1>6, <2>5, PointNumbers DEF WithLevel
      <4> QED
        BY <4>1
    <3> QED
      BY <2>1, <2>2, <3>1, <3>2, BothSay, NothingSays DEF owed, v
  <2> QED
    BY <2>4, <2>5
<1>7. CASE point = BRIGHT_VALUE
  <2>1. dp_download_handle(driver, id, v) = ReportValue(driver, BRIGHT_VALUE, c)
    BY <1>4, <1>5, <1>7, PointNumbers
       DEF dp_download_handle, dp_download_bright_value_handle
  <2>2. owed = Single(BRIGHT_VALUE, c, DP_TYPE_VALUE, driver[c][BRIGHT_VALUE])
    BY <1>2, <1>3, <1>7, PointNumbers, TypesOfPoints DEF OwedNumber, WithLevel, Single
  <2> QED
    BY <2>1, <2>2, LampSays DEF owed, v
<1>8. CASE point = BRIGHTNESS_MIN
  <2>1. dp_download_handle(driver, id, v) = ReportValue(driver, BRIGHTNESS_MIN, c)
    BY <1>4, <1>5, <1>8, PointNumbers
       DEF dp_download_handle, dp_download_brightness_min_handle
  <2>2. owed = Single(BRIGHTNESS_MIN, c, DP_TYPE_VALUE, driver[c][BRIGHTNESS_MIN])
    BY <1>2, <1>3, <1>8, PointNumbers, TypesOfPoints DEF OwedNumber, WithLevel, Single
  <2> QED
    BY <2>1, <2>2, LampSays DEF owed, v
<1>9. CASE point = LED_TYPE
  <2>1. dp_download_handle(driver, id, v) = ReportEnum(driver, LED_TYPE, c)
    BY <1>4, <1>5, <1>9, PointNumbers
       DEF dp_download_handle, dp_download_led_type_handle
  <2>2. owed = Single(LED_TYPE, c, DP_TYPE_ENUM, driver[c][LED_TYPE])
    BY <1>2, <1>3, <1>9, PointNumbers, TypesOfPoints DEF OwedNumber, WithLevel, Single
  <2> QED
    BY <2>1, <2>2, LampSays DEF owed, v
<1>10. CASE point = BRIGHTNESS_MAX
  <2>1. dp_download_handle(driver, id, v) = ReportValue(driver, BRIGHTNESS_MAX, c)
    BY <1>4, <1>5, <1>10, PointNumbers
       DEF dp_download_handle, dp_download_brightness_max_handle
  <2>2. owed = Single(BRIGHTNESS_MAX, c, DP_TYPE_VALUE, driver[c][BRIGHTNESS_MAX])
    BY <1>2, <1>3, <1>10, PointNumbers, TypesOfPoints DEF OwedNumber, WithLevel, Single
  <2> QED
    BY <2>1, <2>2, LampSays DEF owed, v
<1>11. CASE point = TRANSACTION
  <2>1. dp_download_handle(driver, id, v) = ReportValue(driver, TRANSACTION, c)
    BY <1>4, <1>5, <1>11, PointNumbers
       DEF dp_download_handle, dp_download_transaction_time_handle
  <2>2. owed = Single(TRANSACTION, c, DP_TYPE_VALUE, driver[c][TRANSACTION])
    BY <1>2, <1>3, <1>11, PointNumbers, TypesOfPoints DEF OwedNumber, WithLevel, Single
  <2> QED
    BY <2>1, <2>2, LampSays DEF owed, v
<1>12. CASE point = LIGHT_MODE
  <2>1. dp_download_handle(driver, id, v) = ReportEnum(driver, LIGHT_MODE, c)
    BY <1>4, <1>5, <1>12, PointNumbers
       DEF dp_download_handle, dp_download_light_mode_handle
  <2>2. owed = Single(LIGHT_MODE, c, DP_TYPE_ENUM, driver[c][LIGHT_MODE])
    BY <1>2, <1>3, <1>12, PointNumbers, TypesOfPoints DEF OwedNumber, WithLevel, Single
  <2> QED
    BY <2>1, <2>2, LampSays DEF owed, v
<1>13. CASE point = DEVICE_STATUS
  <2>1. dp_download_handle(driver, id, v) = <<>>
    BY <1>4, <1>5, <1>13, PointNumbers DEF dp_download_handle
  <2>2. owed = <<>>
    BY <1>2, <1>13
  <2> QED
    BY <2>1, <2>2, NothingSays DEF owed, v
<1>14. CASE point = CCT_OR_HSL
  <2>1. dp_download_handle(driver, id, v) = respond_cct_or_hsl(driver, c)
    BY <1>4, <1>5, <1>14, PointNumbers
       DEF dp_download_handle, dp_download_cct_or_hsl_value_handle
  <2>2. owed = Single(CCT_OR_HSL, c, DP_TYPE_RAW,
                      driver[c][BRIGHT_VALUE] * 65536 + driver[c][TERMP_OR_HUE])
    BY <1>2, <1>3, <1>14, PointNumbers, TypesOfPoints DEF OwedNumber, WithLevel, Single
  <2> QED
    BY <2>1, <2>2, LampSays DEF owed, v
<1>15. CASE point = TERMP_OR_HUE
  <2>1. dp_download_handle(driver, id, v) =
          <<mcu_dp_value_update(id, mcu_get_dp_download_value(v))>>
    BY <1>4, <1>5, <1>15, PointNumbers
       DEF dp_download_handle, dp_download_hue_or_tempercolor_value_handle
  <2>2. owed = <<[id |-> id, type |-> DP_TYPE_VALUE, number |-> Number(value)]>>
    BY <1>2, <1>3, <1>15, PointNumbers, TypesOfPoints DEF OwedNumber, WithLevel, Single
  <2>3. mcu_get_dp_download_value(v) = Number(value) /\ Number(value) \in Long
    BY <1>15, ValueComesBack DEF v
  <2> QED
    BY <1>4, <2>1, <2>2, <2>3, ValueSays DEF owed, v
<1>16. CASE point = SATURATION
  <2>1. dp_download_handle(driver, id, v) =
          <<mcu_dp_value_update(id, mcu_get_dp_download_value(v))>>
    BY <1>4, <1>5, <1>16, PointNumbers
       DEF dp_download_handle, dp_download_saturation_value_handle
  <2>2. owed = <<[id |-> id, type |-> DP_TYPE_VALUE, number |-> Number(value)]>>
    BY <1>2, <1>3, <1>16, PointNumbers, TypesOfPoints DEF OwedNumber, WithLevel, Single
  <2>3. mcu_get_dp_download_value(v) = Number(value) /\ Number(value) \in Long
    BY <1>16, ValueComesBack DEF v
  <2> QED
    BY <1>4, <2>1, <2>2, <2>3, ValueSays DEF owed, v
<1> QED
  BY <1>6, <1>7, <1>8, <1>9, <1>10, <1>11, <1>12, <1>13,
     <1>14, <1>15, <1>16 DEF KnownPoints

\* A known data point that is asked for.
LEMMA RespondSays ==
  ASSUME driver \in Drivers, NEW point \in KnownPoints, NEW c \in Channels,
         NEW id, id = point + c * 16, NEW value
  PROVE  Says(dp_respond_handle(driver, id),
              Owed(DATA_DATA_RES_CMD, <<id, TypeOf(point), value>>))
<1> DEFINE owed == Owed(DATA_DATA_RES_CMD, <<id, TypeOf(point), value>>)
           reading == OwedReading(DATA_DATA_RES_CMD, point, c, value)
<1>1. ZIGBEE_DATA_REQ_CMD # DATA_DATA_RES_CMD
  BY DEF ZIGBEE_DATA_REQ_CMD, DATA_DATA_RES_CMD
<1>2. owed = IF point = DEVICE_STATUS THEN <<>> ELSE <<reading>>
  <2>1. ~WithLevel(DATA_DATA_RES_CMD, point, c)
    BY <1>1 DEF WithLevel
  <2>2. owed = IF point = DEVICE_STATUS THEN <<>>
               ELSE IF WithLevel(DATA_DATA_RES_CMD, point, c)
               THEN <<reading, LevelReading(c)>> ELSE <<reading>>
    BY OwedKnown
  <2> HIDE DEF owed, reading
  <2> QED
    BY <2>1, <2>2
<1>3. reading = [id |-> point + c * 16,
                 type |-> IF point = LIGHT_MODE THEN DP_TYPE_BOOL ELSE TypeOf(point),
                 number |-> OwedNumber(DATA_DATA_RES_CMD, point, c, value)]
  BY DEF OwedReading
<1>4. /\ ChannelOf(id) = c /\ id # DPID_RESTART_STATUS /\ id % 16 = point
      /\ \A q \in KnownPoints : Is(id, q) <=> q = point
  BY KnownId
<1>5. /\ Is(id, SWITCH_LED) <=> point = SWITCH_LED
      /\ Is(id, BRIGHT_VALUE) <=> point = BRIGHT_VALUE
      /\ Is(id, BRIGHTNESS_MIN) <=> point = BRIGHTNESS_MIN
      /\ Is(id, LED_TYPE) <=> point = LED_TYPE
      /\ Is(id, BRIGHTNESS_MAX) <=> point = BRIGHTNESS_MAX
      /\ Is(id, TRANSACTION) <=> point = TRANSACTION
      /\ Is(id, LIGHT_MODE) <=> point = LIGHT_MODE
      /\ Is(id, CCT_OR_HSL) <=> point = CCT_OR_HSL
      /\ Is(id, TERMP_OR_HUE) <=> point = TERMP_OR_HUE
      /\ Is(id, SATURATION) <=> point = SATURATION
  BY <1>4 DEF KnownPoints
<1> HIDE DEF owed, reading
<1>6. CASE point = SWITCH_LED
  <2>1. dp_respond_handle(driver, id) = ReportSwitch(driver, SWITCH_LED, c)
    BY <1>4, <1>5, <1>6, PointNumbers DEF dp_respond_handle
  <2>2. owed = Single(SWITCH_LED, c, DP_TYPE_BOOL, driver[c][SWITCH_LED])
    BY <1>1, <1>2, <1>3, <1>6, PointNumbers, TypesOfPoints DEF OwedNumber, Single
  <2> QED
    BY <2>1, <2>2, LampSays DEF owed
<1>7. CASE point = BRIGHT_VALUE
  <2>1. dp_respond_handle(driver, id) = ReportValue(driver, BRIGHT_VALUE, c)
    BY <1>4, <1>5, <1>7, PointNumbers DEF dp_respond_handle
  <2>2. owed = Single(BRIGHT_VALUE, c, DP_TYPE_VALUE, driver[c][BRIGHT_VALUE])
    BY <1>1, <1>2, <1>3, <1>7, PointNumbers, TypesOfPoints DEF OwedNumber, Single
  <2> QED
    BY <2>1, <2>2, LampSays DEF owed
<1>8. CASE point = BRIGHTNESS_MIN
  <2>1. dp_respond_handle(driver, id) = ReportValue(driver, BRIGHTNESS_MIN, c)
    BY <1>4, <1>5, <1>8, PointNumbers DEF dp_respond_handle
  <2>2. owed = Single(BRIGHTNESS_MIN, c, DP_TYPE_VALUE, driver[c][BRIGHTNESS_MIN])
    BY <1>1, <1>2, <1>3, <1>8, PointNumbers, TypesOfPoints DEF OwedNumber, Single
  <2> QED
    BY <2>1, <2>2, LampSays DEF owed
<1>9. CASE point = LED_TYPE
  <2>1. dp_respond_handle(driver, id) = ReportEnum(driver, LED_TYPE, c)
    BY <1>4, <1>5, <1>9, PointNumbers DEF dp_respond_handle
  <2>2. owed = Single(LED_TYPE, c, DP_TYPE_ENUM, driver[c][LED_TYPE])
    BY <1>1, <1>2, <1>3, <1>9, PointNumbers, TypesOfPoints DEF OwedNumber, Single
  <2> QED
    BY <2>1, <2>2, LampSays DEF owed
<1>10. CASE point = BRIGHTNESS_MAX
  <2>1. dp_respond_handle(driver, id) = ReportValue(driver, BRIGHTNESS_MAX, c)
    BY <1>4, <1>5, <1>10, PointNumbers DEF dp_respond_handle
  <2>2. owed = Single(BRIGHTNESS_MAX, c, DP_TYPE_VALUE, driver[c][BRIGHTNESS_MAX])
    BY <1>1, <1>2, <1>3, <1>10, PointNumbers, TypesOfPoints DEF OwedNumber, Single
  <2> QED
    BY <2>1, <2>2, LampSays DEF owed
<1>11. CASE point = TRANSACTION
  <2>1. dp_respond_handle(driver, id) = ReportValue(driver, TRANSACTION, c)
    BY <1>4, <1>5, <1>11, PointNumbers DEF dp_respond_handle
  <2>2. owed = Single(TRANSACTION, c, DP_TYPE_VALUE, driver[c][TRANSACTION])
    BY <1>1, <1>2, <1>3, <1>11, PointNumbers, TypesOfPoints DEF OwedNumber, Single
  <2> QED
    BY <2>1, <2>2, LampSays DEF owed
<1>12. CASE point = LIGHT_MODE
  <2>1. dp_respond_handle(driver, id) = ReportSwitch(driver, LIGHT_MODE, c)
    BY <1>4, <1>5, <1>12, PointNumbers DEF dp_respond_handle
  <2>2. owed = Single(LIGHT_MODE, c, DP_TYPE_BOOL, driver[c][LIGHT_MODE])
    BY <1>1, <1>2, <1>3, <1>12, PointNumbers, TypesOfPoints DEF OwedNumber, Single
  <2> QED
    BY <2>1, <2>2, LampSays DEF owed
<1>13. CASE point = TERMP_OR_HUE
  <2>1. dp_respond_handle(driver, id) = ReportValue(driver, TERMP_OR_HUE, c)
    BY <1>4, <1>5, <1>13, PointNumbers DEF dp_respond_handle
  <2>2. owed = Single(TERMP_OR_HUE, c, DP_TYPE_VALUE, driver[c][TERMP_OR_HUE])
    BY <1>1, <1>2, <1>3, <1>13, PointNumbers, TypesOfPoints DEF OwedNumber, Single
  <2> QED
    BY <2>1, <2>2, LampSays DEF owed
<1>14. CASE point = SATURATION
  <2>1. dp_respond_handle(driver, id) = ReportValue(driver, SATURATION, c)
    BY <1>4, <1>5, <1>14, PointNumbers DEF dp_respond_handle
  <2>2. owed = Single(SATURATION, c, DP_TYPE_VALUE, driver[c][SATURATION])
    BY <1>1, <1>2, <1>3, <1>14, PointNumbers, TypesOfPoints DEF OwedNumber, Single
  <2> QED
    BY <2>1, <2>2, LampSays DEF owed
<1>15. CASE point = CCT_OR_HSL
  <2>1. dp_respond_handle(driver, id) = respond_cct_or_hsl(driver, c)
    BY <1>4, <1>5, <1>15, PointNumbers DEF dp_respond_handle
  <2>2. owed = Single(CCT_OR_HSL, c, DP_TYPE_RAW,
                      driver[c][BRIGHT_VALUE] * 65536 + driver[c][TERMP_OR_HUE])
    BY <1>1, <1>2, <1>3, <1>15, PointNumbers, TypesOfPoints DEF OwedNumber, Single
  <2> QED
    BY <2>1, <2>2, LampSays DEF owed
<1>16. CASE point = DEVICE_STATUS
  <2>1. dp_respond_handle(driver, id) = <<>>
    BY <1>4, <1>5, <1>16, PointNumbers DEF dp_respond_handle
  <2>2. owed = <<>>
    BY <1>2, <1>16
  <2> QED
    BY <2>1, <2>2, NothingSays DEF owed
<1> QED
  BY <1>6, <1>7, <1>8, <1>9, <1>10, <1>11, <1>12, <1>13,
     <1>14, <1>15, <1>16 DEF KnownPoints

\* Whatever a data point is, it is answered with what it is owed.
LEMMA PointSays ==
  ASSUME driver \in Drivers, NEW p \in Byte \X Byte \X Seq(Byte), IsPoint(p),
         NEW rest \in Seq(Byte), NEW behind
  PROVE  /\ Says(IF p[2] \in TypesOf(p[1], behind)
                 THEN dp_download_handle(driver, p[1], p[3] \o rest) ELSE <<>>,
                 Owed(ZIGBEE_DATA_REQ_CMD, p))
         /\ Says(IF p[2] \in TypesOf(p[1], behind)
                 THEN dp_respond_handle(driver, p[1]) ELSE <<>>,
                 Owed(DATA_DATA_RES_CMD, p))
<1>1. PICK id \in Byte, type \in Byte, value \in Seq(Byte) : p = <<id, type, value>>
  OBVIOUS
<1>2. p[1] = id /\ p[2] = type /\ p[3] = value
  BY <1>1
<1>3. (id % 16 \in {TERMP_OR_HUE, SATURATION} /\ type = DP_TYPE_VALUE) => Len(value) = 4
  BY <1>2 DEF IsPoint
<1>4. CASE \E point \in KnownPoints, c \in Channels : id = point + c * 16
  <2>1. PICK point \in KnownPoints, c \in Channels : id = point + c * 16
    BY <1>4
  <2>2. TypesOf(id, behind) = {TypeOf(point)}
    BY <2>1, TableKnows
  <2>3. CASE type = TypeOf(point)
    <3>1. Says(dp_download_handle(driver, id, value \o rest), Owed(ZIGBEE_DATA_REQ_CMD, p))
      <4>1. point \in {TERMP_OR_HUE, SATURATION} => Len(value) = 4
        BY <1>3, <2>1, <2>3, KnownId, TypesOfPoints
      <4> QED
        BY <1>1, <2>1, <2>3, <4>1, DownloadSays
    <3>2. Says(dp_respond_handle(driver, id), Owed(DATA_DATA_RES_CMD, p))
      BY <1>1, <2>1, <2>3, RespondSays
    <3> QED
      BY <1>2, <2>2, <2>3, <3>1, <3>2
  <2>4. CASE type # TypeOf(point)
    <3>1. Owed(ZIGBEE_DATA_REQ_CMD, p) = <<>> /\ Owed(DATA_DATA_RES_CMD, p) = <<>>
      <4>1. ASSUME NEW cmd
            PROVE  Owed(cmd, <<id, type, value>>) = <<>>
        BY <2>1, <2>4, OwedMistyped
      <4> QED
        BY <1>1, <4>1
    <3> QED
      BY <1>2, <2>2, <2>4, <3>1, NothingSays
  <2> QED
    BY <2>3, <2>4
<1>5. CASE ~\E point \in KnownPoints, c \in Channels : id = point + c * 16
  <2>1. \A point \in KnownPoints, c \in Channels : id # point + c * 16
    BY <1>5
  <2>2. \A q \in KnownPoints : ~Is(id, q)
    BY <2>1 DEF Is, Dpid
  <2>3. /\ dp_download_handle(driver, id, value \o rest) =
             IF id = DPID_RESTART_STATUS THEN dp_download_restart_status_handle(driver) ELSE <<>>
        /\ dp_respond_handle(driver, id) =
             IF id = DPID_RESTART_STATUS THEN dp_download_restart_status_handle(driver) ELSE <<>>
    <3>1. /\ ~Is(id, SWITCH_LED) /\ ~Is(id, BRIGHT_VALUE) /\ ~Is(id, BRIGHTNESS_MIN)
          /\ ~Is(id, LED_TYPE) /\ ~Is(id, BRIGHTNESS_MAX) /\ ~Is(id, TRANSACTION)
          /\ ~Is(id, LIGHT_MODE) /\ ~Is(id, CCT_OR_HSL)
          /\ ~Is(id, TERMP_OR_HUE) /\ ~Is(id, SATURATION)
      BY <2>2 DEF KnownPoints
    <3> QED
      BY <3>1 DEF dp_download_handle, dp_respond_handle, DPID_RESTART_STATUS
  <2>4. CASE id = DPID_RESTART_STATUS /\ type = DP_TYPE_ENUM
    <3>1. ASSUME NEW cmd
          PROVE  Owed(cmd, p) = <<[id |-> DPID_RESTART_STATUS, type |-> DP_TYPE_ENUM,
                                   number |-> driver[0][DPID_RESTART_STATUS]]>>
      <4>1. <<p[1], p[2]>> \in ToSet(download_cmd) /\ ~(p[1] < 128) /\ p[1] % 16 = 8
            /\ p[1] = DPID_RESTART_STATUS
        BY <1>2, <2>4, RestartLine DEF DPID_RESTART_STATUS
      <4>2. OwedValue(cmd, p[1], p[1] % 16, p[3]) = driver[0][DPID_RESTART_STATUS]
        BY <1>2, <2>4, <4>1, PointNumbers DEF OwedValue
      <4> QED
        BY <1>2, <2>4, <4>1, <4>2 DEF Owed
    <3> QED
      BY <1>2, <2>3, <2>4, <3>1, RestartSays, RestartLine
  <2>5. CASE id = DPID_RESTART_STATUS /\ type # DP_TYPE_ENUM
    <3>1. ASSUME NEW cmd
          PROVE  Owed(cmd, p) = <<>>
      BY <1>2, <2>5, RestartLine DEF Owed
    <3> QED
      BY <1>2, <2>5, <3>1, NothingSays, RestartLine
  <2>6. CASE id # DPID_RESTART_STATUS
    <3>1. ASSUME NEW cmd
          PROVE  Owed(cmd, p) = <<>>
      <4>1. <<id, type>> \notin ToSet(download_cmd)
        BY <2>1, <2>6, NoLine
      <4> QED
        BY <1>2, <4>1 DEF Owed
    <3> QED
      BY <1>2, <2>3, <2>6, <3>1, NothingSays
  <2> QED
    BY <2>4, <2>5, <2>6
<1> QED
  BY <1>4, <1>5
-----------------------------------------------------------------------------
(***************************************************************************)
(* The way of the loops through the data of a frame: the offset is always  *)
(* at the head of one of its points, or behind the last.                   *)
(***************************************************************************)
Bytes(points) == [n \in 1 .. Len(points) |-> Point(points[n][1], points[n][2], points[n][3])]

\* Where the k-th point ends.
EndOf(points, k) == Len(FlattenSeq(First(Bytes(points), k)))

\* The points of a frame.
LEMMA PointsTyped ==
  ASSUME NEW points \in PointFrames, NEW n \in 1 .. Len(points)
  PROVE  points[n] \in Byte \X Byte \X Seq(Byte) /\ IsPoint(points[n])
<1>1. points \in Seq(Byte \X Byte \X Seq(Byte)) /\ IsPoint(points[n])
  BY SdkAssumption
<1> QED
  BY <1>1, ElementOfSeq

\* The data of a frame, point by point.
LEMMA BytesFacts ==
  ASSUME NEW points \in PointFrames
  PROVE  /\ Bytes(points) \in Seq(Seq(Byte)) /\ Len(Bytes(points)) = Len(points)
         /\ Len(points) \in Nat \ {0} /\ Data(points) = FlattenSeq(Bytes(points))
<1>1. points \in Seq(Byte \X Byte \X Seq(Byte)) /\ points # <<>>
  BY SdkAssumption
<1>2. Len(points) \in Nat \ {0}
  BY <1>1, EmptySeq
<1>3. ASSUME NEW n \in 1 .. Len(points)
      PROVE  Point(points[n][1], points[n][2], points[n][3]) \in Seq(Byte)
  <2>1. /\ points[n][1] \in Byte /\ points[n][2] \in Byte /\ points[n][3] \in Seq(Byte)
        /\ Len(points[n][3]) \in Short
    BY PointsTyped DEF IsPoint
  <2> QED
    BY <2>1, PointBytes
<1>4. Bytes(points) \in Seq(Seq(Byte)) /\ Len(Bytes(points)) = Len(points)
  BY <1>2, <1>3 DEF Bytes
<1> QED
  BY <1>2, <1>4 DEF Data, Bytes

\* The first point begins at 0, and the last ends with the data.
LEMMA Ends ==
  ASSUME NEW points \in PointFrames
  PROVE  /\ EndOf(points, 0) = 0 /\ EndOf(points, Len(points)) = Len(Data(points))
         /\ Data(points) \in Seq(Byte) /\ Len(Data(points)) \in Short
<1>1. PICK s \in Seq(Seq(Byte)) : /\ s = Bytes(points) /\ Len(s) = Len(points)
                                  /\ Data(points) = FlattenSeq(s)
  BY BytesFacts
<1>2. FlattenSeq(First(s, 0)) = <<>> /\ FlattenSeq(First(s, Len(s))) = FlattenSeq(s)
  BY FlattenSteps, Zenon
<1>3. FlattenSeq(First(s, Len(s))) \in Seq(Byte)
  <2>1. Len(s) \in 0 .. Len(s)
    OBVIOUS
  <2> QED
    BY <2>1, FlattenTypes, Zenon
<1>4. Len(Data(points)) \in Short
  BY SdkAssumption
<1> QED
  BY <1>1, <1>2, <1>3, <1>4 DEF EndOf

\* No point ends beyond the data.
LEMMA EndsInside ==
  ASSUME NEW points \in PointFrames, NEW k \in 0 .. Len(points)
  PROVE  EndOf(points, k) \in Nat /\ EndOf(points, k) <= Len(Data(points))
<1>1. PICK s \in Seq(Seq(Byte)) : /\ s = Bytes(points) /\ Len(s) = Len(points)
                                  /\ Data(points) = FlattenSeq(s)
  BY BytesFacts
<1>2. k \in 0 .. Len(s)
  BY <1>1
<1>3. PICK upto \in Seq(Byte) : upto = FlattenSeq(First(s, k))
  BY <1>2, FlattenTypes, Zenon
<1>4. PICK rest \in Seq(Byte) : FlattenSeq(s) = FlattenSeq(First(s, k)) \o rest
  BY <1>2, FlattenPrefix, Zenon
<1>5. Len(upto \o rest) = Len(upto) + Len(rest) /\ Len(upto) \in Nat /\ Len(rest) \in Nat
  BY ConcatProperties
<1>6. EndOf(points, k) = Len(upto) /\ Len(Data(points)) = Len(upto \o rest)
  BY <1>1, <1>3, <1>4 DEF EndOf
<1> QED
  BY <1>5, <1>6

\* An offset that fits a short does not wrap.
LEMMA NextInShort ==
  ASSUME NEW i \in Nat, NEW l \in Nat, i + l + 4 \in Short
  PROVE  NextPoint(i, l) = i + l + 4
<1>1. PICK q \in Nat : q = i + l + 4 /\ q < 65536
  BY DEF Short
<1>2. q % 65536 = q
  BY <1>1
<1> QED
  BY <1>1, <1>2 DEF NextPoint

\* A function on the numbers up to m is a sequence.
LEMMA IsASequence ==
  ASSUME NEW S, NEW m \in Nat, NEW f \in [1 .. m -> S]
  PROVE  f \in Seq(S) /\ Len(f) = m
OBVIOUS

\* What a handler gets is the buffer from behind the head of the point on.
LEMMA ValueBytes ==
  ASSUME NEW data \in Seq(Byte), NEW i \in Nat, i + 4 <= Len(data)
  PROVE  dp_value(data, i) = [n \in 1 .. Len(data) - (i + 4) |-> data[i + 4 + n]]
<1>1. PICK b \in Nat, e \in Nat, r \in Nat :
        b = i + 5 /\ e = Len(data) /\ e - b + 1 = r /\ r = Len(data) - (i + 4)
  <2>1. PICK b \in Nat, e \in Nat : b = i + 5 /\ e = Len(data) /\ b <= e + 1
    <3>1. i + 5 \in Nat /\ Len(data) \in Nat /\ i + 5 <= Len(data) + 1
      OBVIOUS
    <3> QED
      BY <3>1
  <2>2. PICK r \in Nat : r = e - b + 1
    <3>1. e - b + 1 \in Nat
      BY <2>1
    <3> QED
      BY <3>1
  <2>3. r = Len(data) - (i + 4)
    BY <2>1, <2>2
  <2> QED
    BY <2>1, <2>2, <2>3
<1>2. SubSeq(data, b, e) = [n \in 1 .. e - b + 1 |-> data[b + n - 1]]
  OBVIOUS
<1>3. \A n \in 1 .. r : b + n - 1 = i + 4 + n
  BY <1>1
<1>4. dp_value(data, i) = SubSeq(data, b, e)
  BY <1>1 DEF dp_value
<1> QED
  BY <1>1, <1>2, <1>3, <1>4

\* Three pieces of a buffer.
LEMMA Regrouped ==
  ASSUME NEW a \in Seq(Byte), NEW b \in Seq(Byte), NEW c \in Seq(Byte)
  PROVE  (a \o b) \o c = a \o (b \o c)
BY ConcatAssociative, SMTT(60)

\* A loop at offset i finds this point, which ends at end.
PointFound(data, i, end, id, type, value, after) ==
  /\ i \in Nat /\ i < end
  /\ dp_id(data, i) = id /\ dp_type(data, i) = type
  /\ NextPoint(i, dp_len(data, i)) = end
  /\ dp_value(data, i) = value \o after

\* The value that a handler is given goes on to the end of the buffer.
LEMMA PointInData ==
  ASSUME NEW id \in Byte, NEW type \in Byte, NEW value \in Seq(Byte), Len(value) \in Short,
         NEW before \in Seq(Byte), NEW rest \in Seq(Byte),
         NEW data, data = (before \o Point(id, type, value)) \o rest,
         Len(before \o Point(id, type, value)) \in Short,
         NEW i, i = Len(before)
  PROVE  PointFound(data, i, Len(before \o Point(id, type, value)), id, type, value, rest)
<1>1. PICK p \in Seq(Byte) : /\ p = Point(id, type, value) /\ Len(p) = 4 + Len(value)
      /\ data \in Seq(Byte) /\ Len(data) = i + 4 + Len(value) + Len(rest)
      /\ dp_id(data, i) = id /\ dp_type(data, i) = type /\ dp_len(data, i) = Len(value)
      /\ \A n \in 1 .. Len(value) : data[i + 4 + n] = value[n]
  <2>1. PointLies(data, Len(before), id, type, value, rest)
    BY PointParts
  <2>2. PointLies(data, i, id, type, value, rest)
    BY <2>1
  <2> QED
    BY <2>2, Zenon DEF PointLies
<1>2. PICK l \in Nat, r \in Nat : l = Len(value) /\ r = Len(rest) /\ i \in Nat
  BY LenProperties
<1>3. PICK upto \in Seq(Byte) : /\ upto = before \o Point(id, type, value)
                               /\ Len(upto) = i + (4 + l)
  <2>1. before \o Point(id, type, value) = before \o p
    BY <1>1
  <2>2. before \o p \in Seq(Byte) /\ Len(before \o p) = Len(before) + Len(p)
    BY <1>1, ConcatProperties
  <2> QED
    BY <1>1, <1>2, <2>1, <2>2
<1>4. /\ Len(data) = i + 4 + l + r
      /\ \A n \in 1 .. l : data[i + 4 + n] = value[n]
  BY <1>1, <1>2
<1>5. \A n \in 1 .. (i + (4 + l)) + r :
        data[n] = IF n <= i + (4 + l) THEN upto[n] ELSE rest[n - (i + (4 + l))]
  <2>1. \A n \in 1 .. Len(upto) + Len(rest) :
          data[n] = IF n <= Len(upto) THEN upto[n] ELSE rest[n - Len(upto)]
    BY <1>3, ConcatProperties
  <2> QED
    BY <1>2, <1>3, <2>1
<1>6. NextPoint(i, dp_len(data, i)) = Len(upto)
  <2>1. i + l + 4 \in Short
    <3>1. i + l + 4 = Len(upto)
      BY <1>2, <1>3
    <3> QED
      BY <1>3, <3>1
  <2>2. NextPoint(i, l) = i + l + 4
    BY <1>2, <2>1, NextInShort
  <2>3. i + l + 4 = i + (4 + l)
    BY <1>2
  <2> QED
    BY <1>1, <1>2, <1>3, <2>2, <2>3
<1>7. PICK v \in Seq(Byte) : /\ v = dp_value(data, i) /\ Len(v) = l + r
                            /\ \A n \in 1 .. l + r : v[n] = data[i + 4 + n]
  <2>1. PICK m \in Nat : m = l + r /\ Len(data) = i + 4 + m
    BY <1>2, <1>4
  <2>2. dp_value(data, i) = [n \in 1 .. m |-> data[i + 4 + n]]
    <3>1. i + 4 <= Len(data) /\ Len(data) - (i + 4) = m
      BY <1>2, <2>1
    <3> QED
      BY <1>1, <1>2, <3>1, ValueBytes
  <2>3. \A n \in 1 .. m : data[i + 4 + n] \in Byte
    <3>1. \A n \in 1 .. m : i + 4 + n \in 1 .. Len(data)
      BY <1>2, <2>1
    <3> QED
      BY <1>1, <3>1, ElementOfSeq
  <2>4. PICK v : v = [n \in 1 .. m |-> data[i + 4 + n]]
    OBVIOUS
  <2>5. v \in Seq(Byte) /\ Len(v) = m /\ \A n \in 1 .. m : v[n] = data[i + 4 + n]
    <3>1. v \in [1 .. m -> Byte]
      BY <2>3, <2>4
    <3>2. v \in Seq(Byte) /\ Len(v) = m
      BY <3>1, IsASequence
    <3>3. \A n \in 1 .. m : v[n] = data[i + 4 + n]
      BY <2>4
    <3> QED
      BY <3>2, <3>3
  <2> QED
    BY <2>1, <2>2, <2>4, <2>5
<1>8. PICK w \in Seq(Byte) : /\ w = value \o rest /\ Len(w) = l + r
                            /\ \A n \in 1 .. l + r :
                                 w[n] = IF n <= l THEN value[n] ELSE rest[n - l]
  <2>1. PICK w : w = value \o rest
    OBVIOUS
  <2>2. /\ w \in Seq(Byte) /\ Len(w) = Len(value) + Len(rest)
        /\ \A n \in 1 .. Len(value) + Len(rest) :
             w[n] = IF n <= Len(value) THEN value[n] ELSE rest[n - Len(value)]
    BY <2>1, ConcatProperties
  <2> QED
    BY <1>2, <2>1, <2>2
<1>9. ASSUME NEW n \in 1 .. l + r
      PROVE  v[n] = w[n]
  <2>1. CASE n <= l
    <3>1. n \in 1 .. l
      BY <1>2, <2>1
    <3> QED
      BY <1>4, <1>7, <1>8, <2>1, <3>1
  <2>2. CASE ~(n <= l)
    <3>1. /\ i + 4 + n \in 1 .. (i + (4 + l)) + r /\ ~(i + 4 + n <= i + (4 + l))
          /\ i + 4 + n - (i + (4 + l)) = n - l
      BY <1>2, <2>2
    <3>2. PICK j \in 1 .. (i + (4 + l)) + r : j = i + 4 + n
      BY <3>1
    <3>3. PICK m \in Nat : m = n - l /\ m = j - (i + (4 + l))
      <4>1. n \in Nat /\ l \in Nat /\ i \in Nat /\ l < n
        BY <1>2, <2>2
      <4>2. n - l \in Nat
        BY <4>1
      <4>3. j - (i + (4 + l)) = n - l
        BY <3>2, <4>1
      <4> QED
        BY <4>2, <4>3
    <3>4. data[j] = rest[m]
      BY <1>5, <3>1, <3>2, <3>3
    <3>5. v[n] = data[j] /\ w[n] = rest[m]
      BY <1>7, <1>8, <2>2, <3>2, <3>3
    <3> QED
      BY <3>4, <3>5
  <2> QED
    BY <2>1, <2>2
<1>10. v = w
  BY <1>2, <1>7, <1>8, <1>9, SeqEqual
<1>11. i < Len(upto)
  BY <1>2, <1>3
<1> QED
  BY <1>1, <1>2, <1>3, <1>6, <1>7, <1>8, <1>10, <1>11 DEF PointFound

\* The same, whatever follows the point.
HasPoint(data, i, end, p) ==
  \E rest \in Seq(Byte) : PointFound(data, i, end, p[1], p[2], p[3], rest)

\* Where one point ends the loop finds the next, as it was put in.
LEMMA PointAt ==
  ASSUME NEW points \in PointFrames, NEW k \in 0 .. Len(points) - 1,
         NEW behind \in Seq(Byte), NEW data, data = Data(points) \o behind,
         NEW i, i = EndOf(points, k), NEW p, p = points[k + 1]
  PROVE  HasPoint(data, i, EndOf(points, k + 1), p)
<1>1. PICK s \in Seq(Seq(Byte)) : /\ s = Bytes(points) /\ Len(s) = Len(points)
                                  /\ Data(points) = FlattenSeq(s)
  BY BytesFacts
<1>2. k \in 0 .. Len(s) - 1 /\ k \in 0 .. Len(s) /\ k + 1 \in 0 .. Len(s)
      /\ k + 1 \in 1 .. Len(points)
  BY <1>1
<1>3. PICK before \in Seq(Byte) : before = FlattenSeq(First(s, k))
  BY <1>2, FlattenTypes, Zenon
<1>4. PICK m \in 0 .. Len(s) : m = k + 1
  BY <1>2
<1>5. PICK upto \in Seq(Byte) : upto = FlattenSeq(First(s, m))
  BY FlattenTypes, Zenon
<1>6. PICK rest \in Seq(Byte) : data = upto \o rest
  <2>1. PICK others \in Seq(Byte) : FlattenSeq(s) = FlattenSeq(First(s, m)) \o others
    BY FlattenPrefix, Zenon
  <2>2. data = (upto \o others) \o behind
    BY <1>1, <1>5, <2>1
  <2>3. (upto \o others) \o behind = upto \o (others \o behind)
    BY Regrouped
  <2>4. others \o behind \in Seq(Byte)
    BY ConcatProperties
  <2> QED
    BY <2>2, <2>3, <2>4
<1>7. upto = before \o s[k + 1]
  BY <1>2, <1>3, <1>4, <1>5, FlattenSteps, Zenon
<1>8. PICK id \in Byte, type \in Byte, value \in Seq(Byte) :
        p[1] = id /\ p[2] = type /\ p[3] = value /\ Len(value) \in Short
  <2>1. p \in Byte \X Byte \X Seq(Byte) /\ IsPoint(p)
    BY <1>2, PointsTyped
  <2> QED
    BY <2>1 DEF IsPoint
<1>9. s[k + 1] = Point(id, type, value)
  BY <1>1, <1>2, <1>8 DEF Bytes
<1>10. i = Len(before) /\ EndOf(points, k + 1) = Len(upto)
  BY <1>1, <1>3, <1>4, <1>5 DEF EndOf
<1>11. Len(upto) \in Short
  <2>1. EndOf(points, m) \in Nat /\ EndOf(points, m) <= Len(Data(points))
    BY <1>1, EndsInside
  <2>2. Len(Data(points)) \in Short
    BY Ends
  <2> QED
    BY <1>4, <1>10, <2>1, <2>2 DEF Short
<1>12. upto = before \o Point(id, type, value)
       /\ data = (before \o Point(id, type, value)) \o rest
  BY <1>6, <1>7, <1>9
<1>13. PointFound(data, i, Len(before \o Point(id, type, value)), id, type, value, rest)
  BY <1>3, <1>8, <1>10, <1>11, <1>12, PointInData
<1> QED
  BY <1>8, <1>10, <1>12, <1>13 DEF HasPoint
-----------------------------------------------------------------------------
(***************************************************************************)
(* The invariant of the frames with data points.                           *)
(***************************************************************************)
PointCmds == {ZIGBEE_DATA_REQ_CMD, DATA_DATA_RES_CMD}
FrameCmds == {ZIGBEE_DATA_REQ_CMD, DATA_DATA_RES_CMD, DATA_REPORT_CMD}

\* What the points of a frame are owed, one by one.
OwedList(cmd, points) == [n \in 1 .. Len(points) |-> Owed(cmd, points[n])]

\* Some points are behind the offset, and the answers are what is owed to them.
Through(points, i, cmd, list, owed) ==
  \E k \in 0 .. Len(points) :
    /\ i = EndOf(points, k)
    /\ cmd \in PointCmds => Says(list, FirstOf(FlattenSeq(First(owed, k))))

\* A frame of which the loop has come to offset i.
At(cmd, points, data, rest, i) ==
  [cmd |-> cmd, points |-> points, data |-> data \o rest, len |-> Len(data), i |-> i]

\* A loop is at the end of one of the points, and has answered those before.
PointsHandled ==
  \E cmd \in FrameCmds, points \in PointFrames, rest \in Rests, i \in Nat :
    /\ handling = At(cmd, points, Data(points), rest, i)
    /\ Through(points, i, cmd, answers, OwedList(cmd, points))

\* A loop through a frame whose lengths are not right may be anywhere.
RawHandled ==
  \E cmd \in FrameCmds, raw \in RawFrames, rest \in Rests, i \in Short :
    handling = At(cmd, <<>>, raw, rest, i)

HandlingInv == handling = NoFrame \/ PointsHandled \/ RawHandled

AnswersInv == answers \in Seq(FrameType) /\ Len(answers) <= QueueLen

ReportInv == /\ report # NoReport =>
                  report \in Reports /\ answers = <<ReportFrame(report[1], report[2], report[3])>>
             /\ Busy => report = NoReport

SdkInv == /\ driver \in Drivers /\ session \in Sessions
          /\ HandlingInv /\ AnswersInv /\ ReportInv

\* What answers say are readings.
LEMMA SaysTyped ==
  ASSUME NEW list, NEW readings, Says(list, readings)
  PROVE  readings \in Seq(Reading) /\ list \in Seq(FrameType)
BY ReadingsFacts DEF Says, IsRead

\* What a frame is owed are readings, point by point.
LEMMA OwedTyped ==
  ASSUME driver \in Drivers, NEW cmd \in PointCmds, NEW points \in PointFrames
  PROVE  /\ OwedList(cmd, points) \in Seq(Seq(Reading))
         /\ Len(OwedList(cmd, points)) = Len(points)
         /\ \A n \in 1 .. Len(points) : OwedList(cmd, points)[n] = Owed(cmd, points[n])
<1>1. ASSUME NEW n \in 1 .. Len(points)
      PROVE  Owed(cmd, points[n]) \in Seq(Reading)
  <2>1. PICK p \in Byte \X Byte \X Seq(Byte) : p = points[n] /\ IsPoint(p)
    BY PointsTyped
  <2>2. PICK rest \in Seq(Byte) : rest = <<>>
    BY EmptySeq
  <2>3. \E list : Says(list, Owed(cmd, p))
    <3>1. /\ \E list : Says(list, Owed(ZIGBEE_DATA_REQ_CMD, p))
          /\ \E list : Says(list, Owed(DATA_DATA_RES_CMD, p))
      BY <2>1, PointSays
    <3> QED
      BY <3>1 DEF PointCmds
  <2> QED
    BY <2>1, <2>3, SaysTyped
<1>2. Len(points) \in Nat
  BY BytesFacts
<1>3. OwedList(cmd, points) \in [1 .. Len(points) -> Seq(Reading)]
  BY <1>1 DEF OwedList
<1>4. \A n \in 1 .. Len(points) : OwedList(cmd, points)[n] = Owed(cmd, points[n])
  BY DEF OwedList
<1> QED
  BY <1>2, <1>3, <1>4, IsASequence

\* What the queue has no room for is missing at the end, also after more was put in.
LEMMA PutSays ==
  ASSUME NEW list, NEW owed \in Seq(Reading), Says(list, FirstOf(owed)),
         NEW frames, NEW more, Says(frames, more)
  PROVE  Says(Put(list, frames), FirstOf(owed \o more))
<1>1. Says(list \o frames, FirstOf(owed) \o more)
  BY BothSay
<1>2. IsRead(list \o frames) /\ Readings(list \o frames) = FirstOf(owed) \o more
  BY <1>1 DEF Says
<1>3. /\ IsRead(FirstOf(list \o frames))
      /\ Readings(FirstOf(list \o frames)) = FirstOf(Readings(list \o frames))
  BY <1>2, ReadingsFirst
<1>4. more \in Seq(Reading)
  BY SaysTyped
<1>5. FirstOf(FirstOf(owed) \o more) = FirstOf(owed \o more)
  BY <1>4, FirstOfConcat
<1> QED
  BY <1>2, <1>3, <1>5 DEF Says, Put

\* Nothing put into the queue leaves it as it is.
LEMMA PutNothing ==
  ASSUME NEW list \in Seq(FrameType), Len(list) <= QueueLen
  PROVE  Put(list, <<>>) = list
<1>1. list \o <<>> = list
  BY ConcatEmptySeq
<1> QED
  BY <1>1, SdkAssumption DEF Put, FirstOf

\* The queue holds frames, and no more than it has room for.
LEMMA PutTyped ==
  ASSUME NEW list \in Seq(FrameType), NEW frames \in Seq(FrameType)
  PROVE  Put(list, frames) \in Seq(FrameType) /\ Len(Put(list, frames)) <= QueueLen
<1>1. list \o frames \in Seq(FrameType)
  BY ConcatProperties
<1> QED
  BY <1>1, FirstOfFacts DEF Put

\* A frame that was just received.
LEMMA NothingYet ==
  ASSUME driver \in Drivers, NEW cmd \in FrameCmds, NEW points \in PointFrames
  PROVE  Through(points, 0, cmd, <<>>, OwedList(cmd, points))
<1>1. Len(points) \in Nat
  BY BytesFacts
<1>2. 0 \in 0 .. Len(points) /\ 0 = EndOf(points, 0)
  BY <1>1, Ends
<1>3. ASSUME cmd \in PointCmds
      PROVE  Says(<<>>, FirstOf(FlattenSeq(First(OwedList(cmd, points), 0))))
  <2>1. PICK owed \in Seq(Seq(Reading)) : owed = OwedList(cmd, points)
    BY <1>3, OwedTyped
  <2>2. FlattenSeq(First(owed, 0)) = <<>>
    BY FlattenSteps, Zenon
  <2>3. Len(<<>>) = 0 /\ QueueLen \in Nat \ {0}
    BY SdkAssumption
  <2>4. FirstOf(<<>>) = <<>>
    BY <2>3 DEF FirstOf
  <2> QED
    BY <2>1, <2>2, <2>4, NothingSays
<1> QED
  BY <1>2, <1>3 DEF Through

\* What a step of a loop puts behind list for the point at offset i of a buffer.
Answered(cmd, data, i, list, behind, frames, after) ==
  /\ cmd = ZIGBEE_DATA_REQ_CMD =>
       frames = dp_download_handle(driver, dp_id(data, i), dp_value(data, i))
  /\ cmd = DATA_DATA_RES_CMD => frames = dp_respond_handle(driver, dp_id(data, i))
  /\ after = IF dp_type(data, i) \in TypesOf(dp_id(data, i), behind)
             THEN Put(list, frames) ELSE list

\* The queue holds frames, and a step has come as far as next.
Queued(list) == list \in Seq(FrameType) /\ Len(list) <= QueueLen
Reached(points, next, cmd, list) ==
  Through(points, next, cmd, list, OwedList(cmd, points)) /\ next \in Nat /\ Queued(list)

\* One more of its points.
LEMMA OneMore ==
  ASSUME driver \in Drivers, NEW cmd \in PointCmds, NEW points \in PointFrames, NEW i \in Nat,
         NEW list \in Seq(FrameType), Len(list) <= QueueLen,
         Through(points, i, cmd, list, OwedList(cmd, points)),
         NEW tail \in Seq(Byte), NEW data, data = Data(points) \o tail,
         i < Len(Data(points)), NEW behind, NEW frames,
         NEW after, Answered(cmd, data, i, list, behind, frames, after)
  PROVE  Reached(points, NextPoint(i, dp_len(data, i)), cmd, after)
<1>0. /\ cmd = ZIGBEE_DATA_REQ_CMD =>
           frames = dp_download_handle(driver, dp_id(data, i), dp_value(data, i))
      /\ cmd = DATA_DATA_RES_CMD => frames = dp_respond_handle(driver, dp_id(data, i))
      /\ after = IF dp_type(data, i) \in TypesOf(dp_id(data, i), behind)
                 THEN Put(list, frames) ELSE list
  BY DEF Answered
<1>1. PICK k \in 0 .. Len(points) :
        i = EndOf(points, k) /\ Says(list, FirstOf(FlattenSeq(First(OwedList(cmd, points), k))))
  BY DEF Through
<1>2. PICK owed \in Seq(Seq(Reading)) :
        /\ owed = OwedList(cmd, points) /\ Len(owed) = Len(points)
        /\ \A n \in 1 .. Len(points) : owed[n] = Owed(cmd, points[n])
  BY OwedTyped
<1>3. k # Len(points)
  BY <1>1, Ends DEF Short
<1>4. Len(points) \in Nat
  BY BytesFacts
<1>5. k \in 0 .. Len(points) - 1 /\ k + 1 \in 1 .. Len(points) /\ k + 1 \in 0 .. Len(points)
  BY <1>3, <1>4
<1>6. PICK p \in Byte \X Byte \X Seq(Byte) : p = points[k + 1] /\ IsPoint(p)
  BY <1>5, PointsTyped
<1>7. PICK rest \in Seq(Byte) :
        /\ dp_id(data, i) = p[1] /\ dp_type(data, i) = p[2] /\ dp_value(data, i) = p[3] \o rest
        /\ NextPoint(i, dp_len(data, i)) = EndOf(points, k + 1)
  <2>1. k \in 0 .. Len(points) - 1 /\ data = Data(points) \o tail /\ i = EndOf(points, k)
        /\ p = points[k + 1]
    BY <1>1, <1>5, <1>6
  <2>2. HasPoint(data, i, EndOf(points, k + 1), p)
    BY <2>1, PointAt
  <2>3. PICK rest \in Seq(Byte) :
          PointFound(data, i, EndOf(points, k + 1), p[1], p[2], p[3], rest)
    BY <2>2 DEF HasPoint
  <2> QED
    BY <2>3 DEF PointFound
<1>8. PICK said : /\ said = IF p[2] \in TypesOf(p[1], behind) THEN frames ELSE <<>>
                  /\ Says(said, Owed(cmd, p))
  <2>1. /\ Says(IF p[2] \in TypesOf(p[1], behind)
                THEN dp_download_handle(driver, p[1], p[3] \o rest) ELSE <<>>,
                Owed(ZIGBEE_DATA_REQ_CMD, p))
        /\ Says(IF p[2] \in TypesOf(p[1], behind)
                THEN dp_respond_handle(driver, p[1]) ELSE <<>>,
                Owed(DATA_DATA_RES_CMD, p))
    BY <1>6, PointSays
  <2>2. CASE cmd = ZIGBEE_DATA_REQ_CMD
    BY <1>0, <1>7, <2>1, <2>2
  <2>3. CASE cmd = DATA_DATA_RES_CMD
    BY <1>0, <1>7, <2>1, <2>3
  <2> QED
    BY <2>2, <2>3 DEF PointCmds
<1>9. after = Put(list, said)
  BY <1>0, <1>7, <1>8, PutNothing
<1>10. PICK f \in Seq(Reading) : f = FlattenSeq(First(owed, k))
  <2>1. k \in 0 .. Len(owed)
    BY <1>2
  <2> QED
    BY <2>1, FlattenTypes, Zenon
<1>11. FlattenSeq(First(owed, k + 1)) = f \o Owed(cmd, p)
  <2>1. k \in 0 .. Len(owed) - 1
    BY <1>2, <1>5
  <2>2. FlattenSeq(First(owed, k + 1)) = FlattenSeq(First(owed, k)) \o owed[k + 1]
    BY <2>1, FlattenSteps, Zenon
  <2>3. owed[k + 1] = Owed(cmd, p)
    BY <1>2, <1>5, <1>6
  <2> QED
    BY <1>10, <2>2, <2>3
<1>12. Says(after, FirstOf(f \o Owed(cmd, p)))
  <2>1. Says(list, FirstOf(f))
    BY <1>1, <1>2, <1>10
  <2> QED
    BY <1>8, <1>9, <2>1, PutSays
<1>13. Through(points, NextPoint(i, dp_len(data, i)), cmd, after, OwedList(cmd, points))
  BY <1>2, <1>5, <1>7, <1>11, <1>12 DEF Through
<1>14. said \in Seq(FrameType)
  BY <1>8, SaysTyped
<1>15. after \in Seq(FrameType) /\ Len(after) <= QueueLen
  BY <1>9, <1>14, PutTyped
<1>16. NextPoint(i, dp_len(data, i)) \in Nat
  <2>1. EndOf(points, k + 1) \in Nat
    <3>1. PICK s \in Seq(Seq(Byte)) : s = Bytes(points) /\ k + 1 \in 0 .. Len(s)
      BY <1>5, BytesFacts
    <3>2. PICK m \in 0 .. Len(s) : m = k + 1
      BY <3>1
    <3>3. FlattenSeq(First(s, m)) \in Seq(Byte)
      BY FlattenTypes, Zenon
    <3> QED
      BY <3>1, <3>2, <3>3 DEF EndOf
  <2> QED
    BY <1>7, <2>1
<1> QED
  BY <1>13, <1>15, <1>16 DEF Reached, Queued

\* A buffer of at least m bytes is m bytes and others.
LEMMA SplitsAt ==
  ASSUME NEW v \in Seq(Byte), NEW m \in Nat, m <= Len(v)
  PROVE  \E value \in Seq(Byte), others \in Seq(Byte) : v = value \o others /\ Len(value) = m
<1>1. PICK l \in Nat, r \in Nat : l = Len(v) /\ l = m + r
  <2>1. Len(v) \in Nat /\ Len(v) - m \in Nat
    OBVIOUS
  <2> QED
    BY <2>1
<1>2. \A n \in 1 .. l : v[n] \in Byte
  BY <1>1, ElementOfSeq
<1>3. PICK value \in Seq(Byte) : Len(value) = m /\ \A n \in 1 .. m : value[n] = v[n]
  <2>1. PICK f : f = [n \in 1 .. m |-> v[n]]
    OBVIOUS
  <2>2. f \in [1 .. m -> Byte] /\ \A n \in 1 .. m : f[n] = v[n]
    BY <1>1, <1>2, <2>1
  <2>3. f \in Seq(Byte) /\ Len(f) = m
    BY <2>2, IsASequence
  <2> QED
    BY <2>2, <2>3
<1>4. PICK others \in Seq(Byte) : Len(others) = r /\ \A n \in 1 .. r : others[n] = v[m + n]
  <2>1. PICK f : f = [n \in 1 .. r |-> v[m + n]]
    OBVIOUS
  <2>2. f \in [1 .. r -> Byte] /\ \A n \in 1 .. r : f[n] = v[m + n]
    BY <1>1, <1>2, <2>1
  <2>3. f \in Seq(Byte) /\ Len(f) = r
    BY <2>2, IsASequence
  <2> QED
    BY <2>2, <2>3
<1>5. PICK w : w = value \o others
  OBVIOUS
<1>6. /\ w \in Seq(Byte) /\ Len(w) = m + r
      /\ \A n \in 1 .. m + r : w[n] = IF n <= m THEN value[n] ELSE others[n - m]
  <2>1. /\ w \in Seq(Byte) /\ Len(w) = Len(value) + Len(others)
        /\ \A n \in 1 .. Len(value) + Len(others) :
             w[n] = IF n <= Len(value) THEN value[n] ELSE others[n - Len(value)]
    BY <1>5, ConcatProperties
  <2> QED
    BY <1>3, <1>4, <2>1
<1>7. ASSUME NEW n \in 1 .. l
      PROVE  v[n] = w[n]
  <2>1. CASE n <= m
    BY <1>1, <1>3, <1>6, <2>1
  <2>2. CASE ~(n <= m)
    <3>1. PICK k \in 1 .. r : k = n - m /\ n = m + k
      BY <1>1, <2>2
    <3> QED
      BY <1>1, <1>4, <1>6, <2>2, <3>1
  <2> QED
    BY <2>1, <2>2
<1>8. v = w
  BY <1>1, <1>6, <1>7, SeqEqual
<1> QED
  BY <1>3, <1>4, <1>5, <1>8

\* A head and at least four bytes are at offset i.
RawRead(data, i) ==
  /\ dp_id(data, i) \in Byte /\ dp_type(data, i) \in Byte /\ dp_len(data, i) \in Nat
  /\ \E value \in Seq(Byte), others \in Seq(Byte) :
       dp_value(data, i) = value \o others /\ Len(value) = 4

LEMMA BufferReads ==
  ASSUME NEW data \in Seq(Byte), NEW i \in Nat, i + 8 <= Len(data)
  PROVE  RawRead(data, i)
<1>1. PICK l \in Nat : l = Len(data) /\ i + 8 <= l
  OBVIOUS
<1>2. data[i + 1] \in Byte /\ data[i + 2] \in Byte /\ data[i + 3] \in Byte /\ data[i + 4] \in Byte
  <2>1. {i + 1, i + 2, i + 3, i + 4} \subseteq 1 .. Len(data)
    BY <1>1
  <2>2. \A n \in 1 .. Len(data) : data[n] \in Byte
    BY ElementOfSeq
  <2> QED
    BY <2>1, <2>2
<1>3. dp_id(data, i) \in Byte /\ dp_type(data, i) \in Byte /\ dp_len(data, i) \in Nat
  <2>1. PICK high \in Nat, low \in Nat : high = data[i + 3] /\ low = data[i + 4]
    <3>1. \A b \in Byte : b \in Nat
      BY DEF Byte
    <3>2. data[i + 3] \in Nat /\ data[i + 4] \in Nat
      BY <1>2, <3>1, Zenon
    <3> QED
      BY <3>2, Zenon
  <2>2. dp_len(data, i) \in Nat
    <3>1. byte_to_short(<<high, low>>) = high * 256 + low
      BY DEF byte_to_short
    <3>2. dp_len(data, i) = byte_to_short(<<high, low>>)
      BY <2>1 DEF dp_len
    <3> QED
      BY <3>1, <3>2
  <2> QED
    BY <1>2, <2>2 DEF dp_id, dp_type
<1>4. PICK m \in Nat : m = l - (i + 4) /\ 4 <= m
  <2>1. l - (i + 4) \in Nat /\ 4 <= l - (i + 4)
    BY <1>1
  <2> QED
    BY <2>1
<1>5. dp_value(data, i) = [n \in 1 .. m |-> data[i + 4 + n]]
  <2>1. i + 4 <= Len(data) /\ Len(data) - (i + 4) = m
    BY <1>1, <1>4
  <2> QED
    BY <2>1, ValueBytes
<1>6. PICK v \in Seq(Byte) : v = dp_value(data, i) /\ Len(v) = m
  <2>1. \A n \in 1 .. m : data[i + 4 + n] \in Byte
    <3>1. \A n \in 1 .. m : i + 4 + n \in 1 .. Len(data)
      BY <1>1, <1>4
    <3> QED
      BY <3>1, ElementOfSeq
  <2>2. PICK v : v = [n \in 1 .. m |-> data[i + 4 + n]]
    OBVIOUS
  <2>3. v \in [1 .. m -> Byte]
    BY <2>1, <2>2
  <2>4. v \in Seq(Byte) /\ Len(v) = m
    BY <2>3, IsASequence
  <2> QED
    BY <1>5, <2>2, <2>4
<1>7. \E value \in Seq(Byte), others \in Seq(Byte) : v = value \o others /\ Len(value) = 4
  BY <1>4, <1>6, SplitsAt
<1> QED
  BY <1>3, <1>6, <1>7 DEF RawRead

\* The buffer goes on behind a frame, so they are there whatever the offset.
LEMMA RawReads ==
  ASSUME NEW raw \in RawFrames, NEW tail \in Rests, NEW i \in Nat, i < Len(raw),
         NEW data, data = raw \o tail
  PROVE  RawRead(data, i)
<1>1. raw \in Seq(Byte) /\ tail \in Seq(Byte) /\ Len(tail) >= 7
  BY SdkAssumption
<1>2. PICK buffer \in Seq(Byte) : buffer = data /\ Len(buffer) = Len(raw) + Len(tail)
  BY <1>1, ConcatProperties
<1>3. Len(raw) \in Nat /\ Len(tail) \in Nat
  BY <1>1
<1>4. i + 8 <= Len(buffer)
  BY <1>1, <1>2, <1>3
<1> QED
  BY <1>2, <1>4, BufferReads

\* One more step through a frame whose lengths are not right.
LEMMA RawMore ==
  ASSUME driver \in Drivers, NEW cmd \in PointCmds, NEW raw \in RawFrames,
         NEW tail \in Rests, NEW i \in Nat, i < Len(raw), NEW data, data = raw \o tail,
         NEW list \in Seq(FrameType), Len(list) <= QueueLen, NEW behind, NEW frames,
         NEW after, Answered(cmd, data, i, list, behind, frames, after)
  PROVE  NextPoint(i, dp_len(data, i)) \in Short /\ Queued(after)
<1>0. /\ cmd = ZIGBEE_DATA_REQ_CMD =>
           frames = dp_download_handle(driver, dp_id(data, i), dp_value(data, i))
      /\ cmd = DATA_DATA_RES_CMD => frames = dp_respond_handle(driver, dp_id(data, i))
      /\ after = IF dp_type(data, i) \in TypesOf(dp_id(data, i), behind)
                 THEN Put(list, frames) ELSE list
  BY DEF Answered
<1>1. PICK id \in Byte, type \in Byte, len \in Nat, value \in Seq(Byte), others \in Seq(Byte) :
        /\ dp_id(data, i) = id /\ dp_type(data, i) = type /\ dp_len(data, i) = len
        /\ dp_value(data, i) = value \o others /\ Len(value) = 4
  <2>1. /\ dp_id(data, i) \in Byte /\ dp_type(data, i) \in Byte /\ dp_len(data, i) \in Nat
        /\ \E value \in Seq(Byte), others \in Seq(Byte) :
             dp_value(data, i) = value \o others /\ Len(value) = 4
    <3>1. RawRead(data, i)
      BY RawReads
    <3> QED
      BY <3>1 DEF RawRead
  <2>2. PICK value \in Seq(Byte), others \in Seq(Byte) :
          dp_value(data, i) = value \o others /\ Len(value) = 4
    BY <2>1
  <2> QED
    BY <2>1, <2>2
<1>2. NextPoint(i, len) \in Short
  <2>1. PICK n \in Nat : n = i + len + 4
    OBVIOUS
  <2>2. n % 65536 \in Nat /\ n % 65536 < 65536
    OBVIOUS
  <2> QED
    BY <2>1, <2>2 DEF NextPoint, Short
<1>3. PICK p \in Byte \X Byte \X Seq(Byte) :
        p = <<id, type, value>> /\ p[1] = id /\ p[2] = type /\ p[3] = value /\ IsPoint(p)
  <2>1. <<id, type, value>> \in Byte \X Byte \X Seq(Byte)
    OBVIOUS
  <2>2. IsPoint(<<id, type, value>>)
    BY <1>1, SmallLengths DEF IsPoint
  <2> QED
    BY <2>1, <2>2
<1>4. PICK said : /\ said = IF type \in TypesOf(id, behind) THEN frames ELSE <<>>
                  /\ Says(said, Owed(cmd, p))
  <2>1. /\ Says(IF p[2] \in TypesOf(p[1], behind)
                THEN dp_download_handle(driver, p[1], p[3] \o others) ELSE <<>>,
                Owed(ZIGBEE_DATA_REQ_CMD, p))
        /\ Says(IF p[2] \in TypesOf(p[1], behind)
                THEN dp_respond_handle(driver, p[1]) ELSE <<>>,
                Owed(DATA_DATA_RES_CMD, p))
    BY <1>3, PointSays
  <2>2. CASE cmd = ZIGBEE_DATA_REQ_CMD
    BY <1>0, <1>1, <1>3, <2>1, <2>2
  <2>3. CASE cmd = DATA_DATA_RES_CMD
    BY <1>0, <1>1, <1>3, <2>1, <2>3
  <2> QED
    BY <2>2, <2>3 DEF PointCmds
<1>5. after = Put(list, said)
  BY <1>0, <1>1, <1>4, PutNothing
<1>6. said \in Seq(FrameType)
  BY <1>4, SaysTyped
<1>7. after \in Seq(FrameType) /\ Len(after) <= QueueLen
  BY <1>5, <1>6, PutTyped
<1> QED
  BY <1>1, <1>2, <1>7 DEF Queued

\* SdkInv holds at first, and every step keeps it.
LEMMA SdkInitInv ==
  ASSUME Init
  PROVE  SdkInv
<1>1. AnswersInv
  BY EmptySeq, SdkAssumption DEF Init, AnswersInv
<1>2. HandlingInv /\ ReportInv
  BY DEF Init, HandlingInv, ReportInv, Busy, NoFrame
<1> QED
  BY <1>1, <1>2 DEF Init, SdkInv

\* What is owed depends on the lamp only, which no step changes.
LEMMA OwedStays ==
  ASSUME driver' = driver, NEW cmd, NEW points
  PROVE  OwedList(cmd, points)' = OwedList(cmd, points)
<1>1. ASSUME NEW id, NEW point, NEW value
      PROVE  OwedValue(cmd, id, point, value)' = OwedValue(cmd, id, point, value)
  BY DEF OwedValue
<1>2. ASSUME NEW p
      PROVE  Owed(cmd, p)' = Owed(cmd, p)
  BY <1>1 DEF Owed
<1> QED
  BY <1>2 DEF OwedList

LEMMA ReceiveKeeps ==
  ASSUME SdkInv, Receive
  PROVE  SdkInv'
<1>1. PICK cmd \in FrameCmds, rest \in Rests :
        /\ \/ \E points \in PointFrames :
                handling' = Received(cmd, points, Data(points), rest)
           \/ \E raw \in RawFrames : handling' = Received(cmd, <<>>, raw, rest)
        /\ answers' = <<>> /\ report' = NoReport /\ driver' = driver /\ session' = session
  BY DEF Receive, FrameCmds
<1>2. HandlingInv'
  <2>1. ASSUME NEW points \in PointFrames,
               handling' = Received(cmd, points, Data(points), rest)
        PROVE  HandlingInv'
    <3>1. Through(points, 0, cmd, <<>>, OwedList(cmd, points))
      BY NothingYet DEF SdkInv
    <3>2. Through(points, 0, cmd, answers', OwedList(cmd, points)')
      BY <1>1, <3>1, OwedStays
    <3>3. handling' = At(cmd, points, Data(points), rest, 0)
      BY <2>1 DEF Received, At
    <3> QED
      BY <3>2, <3>3 DEF HandlingInv, PointsHandled
  <2>2. ASSUME NEW raw \in RawFrames, handling' = Received(cmd, <<>>, raw, rest)
        PROVE  HandlingInv'
    <3>1. handling' = At(cmd, <<>>, raw, rest, 0)
      BY <2>2 DEF Received, At
    <3>2. 0 \in Short
      BY DEF Short
    <3> QED
      BY <3>1, <3>2 DEF HandlingInv, RawHandled
  <2> QED
    BY <1>1, <2>1, <2>2
<1>3. AnswersInv' /\ ReportInv'
  <2>1. answers' \in Seq(FrameType) /\ Len(answers') = 0
    BY <1>1, EmptySeq
  <2> QED
    BY <1>1, <2>1, SdkAssumption DEF AnswersInv, ReportInv
<1> QED
  BY <1>1, <1>2, <1>3 DEF SdkInv

\* What a step of a loop does to a frame at offset i, when buffer is what it reads.
Steps(cmd, points, data, rest, i, buffer) ==
  \E frames, behind, after :
    /\ Answered(cmd, buffer, i, answers, behind, frames, after)
    /\ answers' = after
    /\ handling' = At(cmd, points, data, rest, NextPoint(i, dp_len(buffer, i)))
    /\ UNCHANGED <<driver, report, session>>

LEMMA LoopSteps ==
  ASSUME rf_data_point_handle \/ rf_data_respond_handle,
         NEW cmd, NEW points, NEW data, NEW rest, NEW i,
         handling = At(cmd, points, data, rest, i), NEW buffer, buffer = data \o rest
  PROVE  cmd \in PointCmds /\ i < Len(data) /\ Steps(cmd, points, data, rest, i, buffer)
<1>1. /\ handling.cmd = cmd /\ handling.data = buffer /\ handling.i = i
      /\ handling.len = Len(data)
  BY DEF At
<1>2. cmd \in PointCmds /\ i < Len(data)
  BY <1>1 DEF rf_data_point_handle, rf_data_respond_handle, PointCmds, More
<1>3. ZIGBEE_DATA_REQ_CMD # DATA_DATA_RES_CMD
  BY DEF ZIGBEE_DATA_REQ_CMD, DATA_DATA_RES_CMD
<1>4. PICK frames : /\ HandlePoint(frames)
                    /\ cmd = ZIGBEE_DATA_REQ_CMD => frames =
                         dp_download_handle(driver, dp_id(buffer, i), dp_value(buffer, i))
                    /\ cmd = DATA_DATA_RES_CMD =>
                         frames = dp_respond_handle(driver, dp_id(buffer, i))
  BY <1>1, <1>3 DEF rf_data_point_handle, rf_data_respond_handle
<1>5. PICK behind :
        /\ answers' = IF dp_type(handling.data, handling.i)
                           \in TypesOf(dp_id(handling.data, handling.i), behind)
                      THEN Put(answers, frames) ELSE answers
        /\ handling' = [handling EXCEPT
                         !.i = NextPoint(handling.i, dp_len(handling.data, handling.i))]
        /\ UNCHANGED <<driver, report, session>>
  BY <1>4 DEF HandlePoint
<1>6. PICK next : next = NextPoint(i, dp_len(buffer, i))
  OBVIOUS
<1>7. handling' = [handling EXCEPT !.i = next]
  BY <1>1, <1>5, <1>6
<1>8. handling' = At(cmd, points, data, rest, next)
  BY <1>7 DEF At
<1>9. answers' = IF dp_type(buffer, i) \in TypesOf(dp_id(buffer, i), behind)
                 THEN Put(answers, frames) ELSE answers
  BY <1>1, <1>5
<1>10. PICK after : after = answers'
  OBVIOUS
<1>11. Answered(cmd, buffer, i, answers, behind, frames, after)
  BY <1>4, <1>9, <1>10 DEF Answered
<1>12. Steps(cmd, points, data, rest, i, buffer)
  BY <1>5, <1>6, <1>8, <1>10, <1>11 DEF Steps
<1> QED
  BY <1>2, <1>12

LEMMA LoopKeeps ==
  ASSUME SdkInv, rf_data_point_handle \/ rf_data_respond_handle
  PROVE  SdkInv'
<1>1. handling.cmd \in PointCmds
  BY DEF rf_data_point_handle, rf_data_respond_handle, PointCmds
<1>2. Busy
  BY <1>1 DEF Busy, PointCmds, ZIGBEE_DATA_REQ_CMD, DATA_DATA_RES_CMD
<1>3. answers \in Seq(FrameType) /\ Len(answers) <= QueueLen /\ driver \in Drivers
  BY DEF SdkInv, AnswersInv
<1>4. CASE PointsHandled
  <2>1. PICK cmd \in FrameCmds, points \in PointFrames, rest \in Rests, i \in Nat :
          /\ handling = At(cmd, points, Data(points), rest, i)
          /\ Through(points, i, cmd, answers, OwedList(cmd, points))
    BY <1>4 DEF PointsHandled
  <2>2. PICK data : data = Data(points) \o rest
    OBVIOUS
  <2>3. PICK frames, behind, after :
          /\ Answered(cmd, data, i, answers, behind, frames, after)
          /\ answers' = after
          /\ handling' = At(cmd, points, Data(points), rest, NextPoint(i, dp_len(data, i)))
          /\ UNCHANGED <<driver, report, session>>
    <3>1. Steps(cmd, points, Data(points), rest, i, data)
      BY <2>1, <2>2, LoopSteps
    <3> QED
      BY <3>1 DEF Steps
  <2>4. cmd \in PointCmds /\ i < Len(Data(points)) /\ rest \in Seq(Byte)
    BY <2>1, LoopSteps, SdkAssumption
  <2>5. PICK next : next = NextPoint(i, dp_len(data, i))
    OBVIOUS
  <2>6. /\ Through(points, next, cmd, after, OwedList(cmd, points)) /\ next \in Nat
        /\ after \in Seq(FrameType) /\ Len(after) <= QueueLen
    <3>1. Reached(points, NextPoint(i, dp_len(data, i)), cmd, after)
      BY <1>3, <2>1, <2>2, <2>3, <2>4, OneMore
    <3> QED
      BY <2>5, <3>1 DEF Reached, Queued
  <2>7. Through(points, next, cmd, answers', OwedList(cmd, points)')
    BY <2>3, <2>6, OwedStays
  <2>8. HandlingInv'
    BY <2>3, <2>5, <2>6, <2>7 DEF HandlingInv, PointsHandled
  <2>9. AnswersInv' /\ ReportInv'
    BY <1>2, <2>3, <2>6 DEF AnswersInv, ReportInv, SdkInv
  <2> QED
    BY <2>3, <2>8, <2>9 DEF SdkInv
<1>5. CASE RawHandled
  <2>1. PICK cmd \in FrameCmds, raw \in RawFrames, rest \in Rests, i \in Nat :
          handling = At(cmd, <<>>, raw, rest, i)
    BY <1>5 DEF RawHandled, Short
  <2>2. PICK data : data = raw \o rest
    OBVIOUS
  <2>3. PICK frames, behind, after :
          /\ Answered(cmd, data, i, answers, behind, frames, after)
          /\ answers' = after
          /\ handling' = At(cmd, <<>>, raw, rest, NextPoint(i, dp_len(data, i)))
          /\ UNCHANGED <<driver, report, session>>
    <3>1. Steps(cmd, <<>>, raw, rest, i, data)
      BY <2>1, <2>2, LoopSteps
    <3> QED
      BY <3>1 DEF Steps
  <2>4. cmd \in PointCmds /\ i < Len(raw)
    BY <2>1, LoopSteps
  <2>5. PICK next : next = NextPoint(i, dp_len(data, i))
    OBVIOUS
  <2>6. next \in Short /\ after \in Seq(FrameType) /\ Len(after) <= QueueLen
    BY <1>3, <2>1, <2>2, <2>3, <2>4, <2>5, RawMore DEF Queued
  <2>7. HandlingInv'
    BY <2>3, <2>5, <2>6 DEF HandlingInv, RawHandled
  <2>8. AnswersInv' /\ ReportInv'
    BY <1>2, <2>3, <2>6 DEF AnswersInv, ReportInv, SdkInv
  <2> QED
    BY <2>3, <2>7, <2>8 DEF SdkInv
<1>6. handling # NoFrame
  BY <1>1 DEF NoFrame, PointCmds, ZIGBEE_DATA_REQ_CMD, DATA_DATA_RES_CMD
<1> QED
  BY <1>4, <1>5, <1>6 DEF SdkInv, HandlingInv

LEMMA EndKeeps ==
  ASSUME SdkInv, handler_status_device \/ Handled
  PROVE  SdkInv'
<1>1. handling' = NoFrame /\ UNCHANGED <<driver, answers, report, session>>
  BY DEF handler_status_device, Handled
<1>2. HandlingInv' /\ AnswersInv' /\ ReportInv'
  BY <1>1 DEF SdkInv, HandlingInv, AnswersInv, ReportInv, Busy, NoFrame
<1> QED
  BY <1>1, <1>2 DEF SdkInv

\* The frames without data points.
LEMMA RepliesTyped ==
  ASSUME driver \in Drivers, NEW frames \in Replies
  PROVE  frames \in Seq(FrameType)
<1>1. ASSUME NEW cmd \in Int, NEW b \in Byte
      PROVE  <<Frame(cmd, <<b>>)>> \in Seq(FrameType)
  <2>1. PICK data \in Seq(Byte) : data = <<b>>
    <3>1. <<b>> \in Seq(Byte)
      OBVIOUS
    <3> QED
      BY <3>1
  <2>2. Frame(cmd, data) \in FrameType
    BY DEF Frame, FrameType
  <2> QED
    BY <2>1, <2>2
<1>2. {ZIGBEE_FACTORY_NEW_CMD, MCU_OTA_VERSION_CMD, CHECK_MCU_TYPE_CMD} \subseteq Int
  BY DEF ZIGBEE_FACTORY_NEW_CMD, MCU_OTA_VERSION_CMD, CHECK_MCU_TYPE_CMD
<1>3. {1, CurrentVersion, McuType} \subseteq Byte
  BY SdkAssumption, CommandsAndTypes
<1>4. /\ rf_notify_factory_new_hanlde \in Seq(FrameType)
      /\ response_mcu_ota_version_event \in Seq(FrameType)
      /\ response_mcu_type \in Seq(FrameType)
  BY <1>1, <1>2, <1>3
     DEF rf_notify_factory_new_hanlde, response_mcu_ota_version_event, response_mcu_type
<1>5. all_data_update(driver) \in Seq(FrameType)
  <2> DEFINE s == [n \in 1 .. NUMBER_CHANNEL_IN_DEVICE |->
                     ReportSwitch(driver, SWITCH_LED, n - 1)
                     \o ReportValue(driver, BRIGHT_VALUE, n - 1)]
  <2>1. ASSUME NEW n \in 1 .. NUMBER_CHANNEL_IN_DEVICE
        PROVE  ReportSwitch(driver, SWITCH_LED, n - 1)
               \o ReportValue(driver, BRIGHT_VALUE, n - 1) \in Seq(FrameType)
    <3>1. PICK c \in Channels : c = n - 1
      BY DEF Channels, NUMBER_CHANNEL_IN_DEVICE
    <3>2. /\ ReportSwitch(driver, SWITCH_LED, c) \in Seq(FrameType)
          /\ ReportValue(driver, BRIGHT_VALUE, c) \in Seq(FrameType)
      BY LampSays, SaysTyped
    <3> QED
      BY <3>1, <3>2, ConcatProperties
  <2>2. NUMBER_CHANNEL_IN_DEVICE \in Nat
    BY DEF NUMBER_CHANNEL_IN_DEVICE
  <2>3. s \in [1 .. NUMBER_CHANNEL_IN_DEVICE -> Seq(FrameType)]
    BY <2>1
  <2>4. all_data_update(driver) = FlattenSeq(s)
    BY DEF all_data_update
  <2> HIDE DEF s
  <2>5. s \in Seq(Seq(FrameType))
    BY <2>2, <2>3, IsASequence
  <2>6. PICK m \in 0 .. Len(s) : m = Len(s)
    BY <2>5
  <2>7. FlattenSeq(First(s, m)) \in Seq(FrameType)
    BY <2>5, FlattenTypes, Zenon
  <2>8. FlattenSeq(First(s, Len(s))) = FlattenSeq(s)
    BY <2>5, FlattenSteps, Zenon
  <2> QED
    BY <2>4, <2>6, <2>7, <2>8
<1> QED
  BY <1>4, <1>5, EmptySeq DEF Replies

\* Between two frames.
LEMMA Idle ==
  ASSUME SdkInv, ~Busy
  PROVE  handling = NoFrame
<1>1. ASSUME NEW cmd \in FrameCmds, NEW points, NEW data, NEW rest, NEW i,
             handling = At(cmd, points, data, rest, i)
      PROVE  FALSE
  BY <1>1 DEF Busy, At, FrameCmds, ZIGBEE_DATA_REQ_CMD, DATA_DATA_RES_CMD, DATA_REPORT_CMD
<1>2. ~PointsHandled /\ ~RawHandled
  BY <1>1 DEF PointsHandled, RawHandled
<1> QED
  BY <1>2 DEF SdkInv, HandlingInv

LEMMA ReplyKeeps ==
  ASSUME SdkInv, Reply
  PROVE  SdkInv'
<1>1. PICK frames \in Replies :
        /\ answers' = Put(<<>>, frames) /\ report' = NoReport /\ ~Busy
        /\ UNCHANGED <<driver, handling, session>>
  BY DEF Reply
<1>2. <<>> \in Seq(FrameType)
  BY EmptySeq
<1>3. frames \in Seq(FrameType)
  BY RepliesTyped DEF SdkInv
<1>4. AnswersInv'
  BY <1>1, <1>2, <1>3, PutTyped DEF AnswersInv
<1>5. handling = NoFrame
  BY <1>1, Idle
<1>6. HandlingInv' /\ ReportInv'
  BY <1>1, <1>5 DEF HandlingInv, ReportInv
<1> QED
  BY <1>1, <1>4, <1>6 DEF SdkInv

LEMMA BoardKeeps ==
  ASSUME SdkInv, BoardReports
  PROVE  SdkInv'
<1>1. PICK r \in Reports :
        /\ answers' = <<ReportFrame(r[1], r[2], r[3])>> /\ report' = r /\ ~Busy
        /\ UNCHANGED <<driver, handling, session>>
  BY DEF BoardReports
<1>2. ReportFrame(r[1], r[2], r[3]) \in FrameType
  BY BoardFrames DEF ReportOf
<1>3. AnswersInv'
  <2>1. answers' \in Seq(FrameType) /\ Len(answers') = 1
    BY <1>1, <1>2
  <2> QED
    BY <2>1, SdkAssumption DEF AnswersInv
<1>4. handling = NoFrame
  BY <1>1, Idle
<1>5. HandlingInv' /\ ReportInv'
  BY <1>1, <1>4 DEF HandlingInv, ReportInv, Busy
<1> QED
  BY <1>1, <1>3, <1>5 DEF SdkInv

LEMMA SdkStepKeeps ==
  ASSUME SdkInv, [Next]_vars
  PROVE  SdkInv'
<1>1. CASE data_handle
  BY <1>1, LoopKeeps, EndKeeps DEF data_handle
<1>2. CASE Receive \/ Reply \/ BoardReports
  BY <1>2, ReceiveKeeps, ReplyKeeps, BoardKeeps
<1>3. CASE mcu_write_rtctime \/ Updating(OtaNext) \/ UNCHANGED vars
  <2>1. UNCHANGED <<driver, handling, answers, report, session>>
    BY <1>3 DEF mcu_write_rtctime, Updating, vars, sdkVars
  <2>2. HandlingInv'
    <3>1. CASE handling = NoFrame \/ RawHandled
      BY <2>1, <3>1 DEF HandlingInv, RawHandled
    <3>2. CASE PointsHandled
      <4>1. PICK cmd \in FrameCmds, points \in PointFrames, rest \in Rests, i \in Nat :
              /\ handling = At(cmd, points, Data(points), rest, i)
              /\ Through(points, i, cmd, answers, OwedList(cmd, points))
        BY <3>2 DEF PointsHandled
      <4>2. Through(points, i, cmd, answers', OwedList(cmd, points)')
        BY <2>1, <4>1, OwedStays
      <4> QED
        BY <2>1, <4>1, <4>2 DEF HandlingInv, PointsHandled
    <3> QED
      BY <3>1, <3>2 DEF SdkInv, HandlingInv
  <2> QED
    BY <2>1, <2>2 DEF SdkInv, AnswersInv, ReportInv, Busy
<1> QED
  BY <1>1, <1>2, <1>3 DEF Next

LEMMA SdkInvariant == Spec => []SdkInv
<1>1. Init => SdkInv
  BY SdkInitInv
<1>2. SdkInv /\ [Next]_vars => SdkInv'
  BY SdkStepKeeps
<1> QED
  BY <1>1, <1>2, PTL DEF Spec

\* What follows from the invariant.
LEMMA SdkInvTypes ==
  ASSUME SdkInv, OtaTypeOK
  PROVE  TypeOK
<1>1. handling.i \in Short /\ (handling.points # <<>> => handling.i <= handling.len)
  <2>1. CASE handling = NoFrame
    <3>1. handling.i = 0 /\ handling.points = <<>>
      BY <2>1 DEF NoFrame
    <3> QED
      BY <3>1 DEF Short
  <2>2. CASE PointsHandled
    <3>1. PICK cmd \in FrameCmds, points \in PointFrames, rest \in Rests, i \in Nat :
            /\ handling = At(cmd, points, Data(points), rest, i)
            /\ Through(points, i, cmd, answers, OwedList(cmd, points))
      BY <2>2 DEF PointsHandled
    <3>2. PICK k \in 0 .. Len(points) : i = EndOf(points, k)
      BY <3>1 DEF Through
    <3>3. i <= Len(Data(points)) /\ Len(Data(points)) \in Short
      BY <3>2, Ends, EndsInside
    <3>4. handling.i = i /\ handling.len = Len(Data(points))
      BY <3>1 DEF At
    <3> QED
      BY <3>3, <3>4 DEF Short
  <2>3. CASE RawHandled
    <3>1. handling.i \in Short /\ handling.points = <<>>
      BY <2>3 DEF RawHandled, At
    <3> QED
      BY <3>1
  <2> QED
    BY <2>1, <2>2, <2>3 DEF SdkInv, HandlingInv
<1>2. ASSUME NEW n \in 1 .. Len(answers)
      PROVE  answers[n].data \in Seq(0 .. 255)
  <2>1. answers[n] \in FrameType
    BY ElementOfSeq DEF SdkInv, AnswersInv
  <2> QED
    BY <2>1 DEF FrameType, Byte
<1> QED
  BY <1>1, <1>2 DEF TypeOK, SdkInv, AnswersInv

LEMMA SdkInvAnswers ==
  ASSUME SdkInv
  PROVE  PointsAnswered
<1>1. SUFFICES ASSUME Busy, handling.points # <<>>, handling.cmd # DATA_REPORT_CMD, ~More
               PROVE  [n \in 1 .. Len(answers) |-> Decoded(answers[n])] =
                        FirstOf(FlattenSeq([n \in 1 .. Len(handling.points) |->
                                              Owed(handling.cmd, handling.points[n])]))
  BY DEF PointsAnswered
<1>2. PICK cmd \in FrameCmds, points \in PointFrames, rest \in Rests, i \in Nat :
        /\ handling = At(cmd, points, Data(points), rest, i)
        /\ Through(points, i, cmd, answers, OwedList(cmd, points))
  <2>1. ~RawHandled
    BY <1>1 DEF RawHandled, At
  <2>2. handling # NoFrame
    BY <1>1 DEF NoFrame
  <2> QED
    BY <2>1, <2>2 DEF SdkInv, HandlingInv, PointsHandled
<1>3. /\ handling.cmd = cmd /\ handling.points = points /\ cmd \in PointCmds
      /\ ~(i < Len(Data(points)))
  <2>1. /\ handling.cmd = cmd /\ handling.points = points /\ handling.i = i
        /\ handling.len = Len(Data(points))
    BY <1>2 DEF At
  <2> QED
    BY <1>1, <2>1 DEF FrameCmds, PointCmds, More
<1>4. PICK k \in 0 .. Len(points) :
        i = EndOf(points, k) /\ Says(answers, FirstOf(FlattenSeq(First(OwedList(cmd, points), k))))
  BY <1>2, <1>3 DEF Through
<1>5. k = Len(points)
  <2>1. Len(points) \in Nat
    BY BytesFacts
  <2>2. CASE k # Len(points)
    <3>1. k \in 0 .. Len(points) - 1
      BY <2>1, <2>2
    <3>2. PICK data, p : data = Data(points) \o rest /\ p = points[k + 1]
      OBVIOUS
    <3>3. HasPoint(data, i, EndOf(points, k + 1), p)
      <4>1. rest \in Seq(Byte)
        BY SdkAssumption
      <4> QED
        BY <1>4, <3>1, <3>2, <4>1, PointAt
    <3>4. i < EndOf(points, k + 1)
      BY <3>3 DEF HasPoint, PointFound
    <3>5. /\ EndOf(points, k + 1) \in Nat /\ EndOf(points, k + 1) <= Len(Data(points))
          /\ Len(Data(points)) \in Nat
      <4>1. PICK m \in 0 .. Len(points) : m = k + 1
        BY <2>1, <3>1
      <4> QED
        BY <4>1, Ends, EndsInside DEF Short
    <3> QED
      BY <1>2, <1>3, <3>4, <3>5
  <2> QED
    BY <2>2
<1>6. PICK owed \in Seq(Seq(Reading)) : owed = OwedList(cmd, points) /\ Len(owed) = Len(points)
  BY <1>3, OwedTyped DEF SdkInv
<1>7. FlattenSeq(First(owed, Len(owed))) = FlattenSeq(owed)
  BY FlattenSteps, Zenon
<1>8. Readings(answers) = FirstOf(FlattenSeq(OwedList(cmd, points)))
  BY <1>4, <1>5, <1>6, <1>7 DEF Says
<1>9. Readings(answers) = [n \in 1 .. Len(answers) |-> Decoded(answers[n])]
  BY DEF Readings
<1>10. OwedList(cmd, points) = [n \in 1 .. Len(handling.points) |->
                                  Owed(handling.cmd, handling.points[n])]
  BY <1>3 DEF OwedList
<1> QED
  BY <1>8, <1>9, <1>10

LEMMA SdkInvReports ==
  ASSUME SdkInv
  PROVE  ReportsDecode
<1>1. SUFFICES ASSUME report # NoReport
               PROVE  /\ Decoded(answers[1]).id = report[2]
                      /\ Len(answers[1].data) = 4 + dp_len(answers[1].data, 0)
                      /\ Decoded(answers[1]).number =
                           IF report[1] \in {"bool", "network"}
                           THEN (IF report[3] = 0 THEN 0 ELSE 1) ELSE report[3]
  BY DEF ReportsDecode
<1>2. /\ report \in Reports
      /\ answers = <<ReportFrame(report[1], report[2], report[3])>>
  BY <1>1 DEF SdkInv, ReportInv
<1>3. PICK type \in Byte :
        ReportOf(ReportFrame(report[1], report[2], report[3]), report[2], type,
                 IF report[1] \in {"bool", "network"} THEN (IF report[3] = 0 THEN 0 ELSE 1)
                 ELSE report[3])
  BY <1>2, BoardFrames
<1>4. answers[1] = ReportFrame(report[1], report[2], report[3])
  BY <1>2
<1> QED
  BY <1>3, <1>4 DEF ReportOf

-----------------------------------------------------------------------------
\* The loops of data_handle, whatever the frame - points whose lengths are right, or any bytes
\* with any dp_len, which nothing there compares with the frame - whatever lies behind it in
\* the buffer and behind the table, and for every lamp: what is sent are bytes, also of a
\* value that is not all there, the offset stays a short, and the queue never holds more
\* than it has room for; if the lengths are right, the loops stay inside the data.
THEOREM SpecTypeOK == Spec => []TypeOK
<1>1. SdkInv /\ OtaTypeOK => TypeOK
  BY SdkInvTypes
<1>2. OtaInv => OtaTypeOK
  BY DEF OtaInv
<1> QED
  BY <1>1, <1>2, SdkInvariant, OtaInvariant, PTL

\* rf_data_point_handle and rf_data_respond_handle, with the 89 lines of download_cmd and
\* the handlers of the data points: for every list of points, known, unknown or of a wrong
\* type, for every lamp and every size of the queue, a frame that was gone through has been
\* answered as it was owed, point by point, for its own channel, until the queue was full.
THEOREM SpecPointsAnswered == Spec => []PointsAnswered
<1>1. SdkInv => PointsAnswered
  BY SdkInvAnswers
<1> QED
  BY <1>1, SdkInvariant, PTL

\* The report functions of mcu_api.cpp: every number that their parameters can hold is
\* read from the frame as it was given, of every width a bitmap may take.
THEOREM SpecReportsDecode == Spec => []ReportsDecode
<1>1. SdkInv => ReportsDecode
  BY SdkInvReports
<1> QED
  BY <1>1, SdkInvariant, PTL
=============================================================================
