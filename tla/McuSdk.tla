------------------------------- MODULE McuSdk -------------------------------
(***************************************************************************)
(* data_handle of system_define.cpp with everything it calls: what the MCU *)
(* side of the SDK does with a frame.  The light that this repository      *)
(* builds does not call it (the call in mcu_api.cpp:847 is commented out); *)
(* it is the counterpart the repository gives to what LightSync and TxPath *)
(* send, and it is modelled with SUPPORT_MCU_OTA, SUPPORT_MCU_RTC_CHECK    *)
(* and CHECK_MCU_TYPE.                                                     *)
(*                                                                         *)
(* A frame with data points is handled one point per step.  Nothing in the *)
(* repository changes deviceInfo.driver (the calls of DIM_SetPara are      *)
(* commented out).  The frames that answer go to queue_data_tx, which      *)
(* nobody empties before data_handle returns: the same thread sends.       *)
(***************************************************************************)
EXTENDS DataPoints, McuOta, McuClock

CONSTANTS
  Drivers,       \* the values deviceInfo.driver may have
  PointFrames,   \* the lists of data points a frame may bring, <<id, type, value>> each
  RawFrames,     \* the data of other frames: lengths that lie, values cut short, no points
  Rests,         \* what may lie behind the data of a frame, in rf_uart_rx_buf or in a copy
  Times,         \* the times TIME_GET_CMD may bring
  McuType,       \* mcu_type
  Reports,       \* what the board may report by itself, <<kind, id, value>>
  QueueLen,      \* entries of queue_data_tx, 10 in the build
  Behind,        \* the bytes that may lie behind the table
  Sessions       \* bound: what the other side does in one behaviour, a set of subsets
                 \* of {"points", "reports", "update", "clock"}

\* time_stamp is an unsigned int, given as its days and the seconds of the last of them.
ASSUME TimesAssumption == Times \subseteq [day : Nat, secs : {s \in Nat : s < 86400}]

Byte  == 0 .. 255
Short == {n \in Nat : n < 65536}

\* An unsigned long, by the highest of its four bytes.
Long == {n \in Nat : n \div 16777216 < 256}

\* The fields of driver_info, as they are sent.  A switch is off or on, a light mode
\* independent or mixed.
IsLamp(lamp) ==
  /\ lamp[SWITCH_LED] \in {0, 1} /\ lamp[LIGHT_MODE] \in {0, 1}
  /\ lamp[LED_TYPE] \in Byte /\ lamp[DPID_RESTART_STATUS] \in Byte
  /\ lamp[TRANSACTION] \in Long
  /\ \A point \in {BRIGHT_VALUE, BRIGHTNESS_MIN, BRIGHTNESS_MAX, TERMP_OR_HUE, SATURATION} :
       lamp[point] \in Short

\* A data point of a frame whose lengths are right: a hue and a saturation come with the
\* four bytes that are read of them.  (The light sends them with two, mcu_api.cpp:567:
\* such frames are among RawFrames.)
IsPoint(p) ==
  /\ Len(p[3]) \in Short
  /\ (p[1] % 16 \in {TERMP_OR_HUE, SATURATION} /\ p[2] = DP_TYPE_VALUE) => Len(p[3]) = 4

\* What the parameters of the reports of mcu_api.cpp can hold.
IsReport(r) ==
  /\ r[2] \in Byte
  /\ \/ r[1] \in {"bool", "enum"} /\ r[3] \in Byte
     \/ r[1] \in {"raw", "string", "hue"} /\ r[3] \in Short
     \/ r[1] \in {"bitmap", "fault", "value", "network"} /\ r[3] \in Long

\* The data of a frame with these points.
Data(points) == FlattenSeq([n \in 1 .. Len(points) |->
                              Point(points[n][1], points[n][2], points[n][3])])

\* The length of a frame is a short.  The handlers read up to eight bytes from the offset of
\* a point on, wherever the frame ends: rf_uart_rx_buf goes on.
ASSUME SdkAssumption ==
  /\ QueueLen \in Nat \ {0} /\ McuType \in Byte /\ CurrentVersion \in Byte
  /\ \A lamps \in Drivers : \A c \in Channels : IsLamp(lamps[c])
  /\ \A points \in PointFrames :
       /\ points \in Seq(Byte \X Byte \X Seq(Byte)) /\ points # <<>>
       /\ \A n \in 1 .. Len(points) : IsPoint(points[n])
       /\ Len(Data(points)) \in Short
  /\ \A raw \in RawFrames : raw \in Seq(Byte) /\ Len(raw) \in Short
  /\ \A rest \in Rests : rest \in Seq(Byte) /\ Len(rest) >= 7
  /\ \A r \in Reports : IsReport(r)

VARIABLES
  driver,      \* deviceInfo.driver
  handling,    \* the frame with data points that is being handled
  answers,     \* what data_handle has put into queue_data_tx for this frame
  controlled,  \* the data points given to dp_handle_device for this frame
  report,      \* what the board reports, if that is what answers holds
  clock,       \* _time, and the static dayCount behind it
  shown,       \* the time that came last
  session

sdkVars == <<driver, handling, answers, controlled, report, clock, shown, session>>
vars == <<sdkVars, otaVars>>

NoFrame == [cmd |-> -1, points |-> <<>>, data |-> <<>>, len |-> 0, i |-> 0]
NoReport == <<>>
NoTimeYet == [day |-> 0, secs |-> 0]

Init ==
  /\ OtaInit
  /\ driver \in Drivers
  /\ handling = NoFrame /\ answers = <<>> /\ controlled = <<>> /\ report = NoReport
  /\ clock = [calendar |-> NoCalendar, time |-> NoTime] /\ shown = NoTimeYet
  /\ session \in Sessions

-----------------------------------------------------------------------------
\* k_msgq_put with K_NO_WAIT: what the queue has no room for is lost.
FirstOf(list) == IF Len(list) > QueueLen THEN SubSeq(list, 1, QueueLen) ELSE list

\* Mutant: the queue has room for everything.
PutAll(queue, frames) == queue \o frames

Put(queue, frames) == FirstOf(queue \o frames)

Busy == handling.cmd # -1
More == handling.i < handling.len

\* A frame: its points (none if its lengths are not right), the buffer from its data on, and
\* total_len.
Received(cmd, points, data, rest) ==
  [cmd |-> cmd, points |-> points, data |-> data \o rest, len |-> Len(data), i |-> 0]

\* A frame arrives when the one before it was handled.
Receive == \E cmd \in {ZIGBEE_DATA_REQ_CMD, DATA_DATA_RES_CMD, DATA_REPORT_CMD} :
           \E rest \in Rests :
  /\ "points" \in session /\ ~Busy
  /\ \/ \E points \in PointFrames :
          handling' = Received(cmd, points, Data(points), rest)
     \/ \E raw \in RawFrames : handling' = Received(cmd, <<>>, raw, rest)
  /\ answers' = <<>> /\ controlled' = <<>> /\ report' = NoReport
  /\ UNCHANGED <<driver, clock, shown, session, otaVars>>

\* The offset of the next point, an unsigned short.  Nothing compares dp_len with what is
\* left of the frame.
NextPoint(i, len) == (i + len + 4) % 65536

\* A step of the loops: answered with these frames, if the type is the table's.
HandlePoint(frames) == \E behind \in Behind :
  LET data == handling.data
      i    == handling.i
      good == dp_type(data, i) \in TypesOf(dp_id(data, i), behind)
  IN  /\ answers' = IF good THEN Put(answers, frames) ELSE answers
      /\ handling' = [handling EXCEPT !.i = NextPoint(i, dp_len(data, i))]
      /\ UNCHANGED <<driver, controlled, report, clock, shown, session, otaVars>>

\* The next data point of a frame that sets some, or that asks for some.
rf_data_point_handle ==
  /\ handling.cmd = ZIGBEE_DATA_REQ_CMD /\ More
  /\ HandlePoint(dp_download_handle(driver, dp_id(handling.data, handling.i),
                                    dp_value(handling.data, handling.i)))

rf_data_respond_handle ==
  /\ handling.cmd = DATA_DATA_RES_CMD /\ More
  /\ HandlePoint(dp_respond_handle(driver, dp_id(handling.data, handling.i)))

\* The first data point of a report goes to dp_handle_device (not in the repository).
\* The loop over what is asked for has no break and ends here as well.  It reads a copy of
\* the frame on the stack, which holds anything behind the data.
handler_status_device == \E behind \in Behind, rest \in Rests :
  LET data == SubSeq(handling.data, 1, handling.len) \o rest IN
  /\ \/ handling.cmd = DATA_REPORT_CMD
     \/ handling.cmd = DATA_DATA_RES_CMD /\ ~More
  /\ controlled' = IF dp_type(data, 0) \in TypesOf(dp_id(data, 0), behind)
                   THEN Append(controlled, dp_id(data, 0)) ELSE controlled
  /\ handling' = NoFrame
  /\ UNCHANGED <<driver, answers, report, clock, shown, session, otaVars>>

Handled ==
  /\ handling.cmd = ZIGBEE_DATA_REQ_CMD /\ ~More
  /\ handling' = NoFrame
  /\ UNCHANGED <<driver, answers, controlled, report, clock, shown, session, otaVars>>

-----------------------------------------------------------------------------
(***************************************************************************)
(* The frames without data points.                                         *)
(***************************************************************************)
MCU_VER == <<48, 46, 48, 46, 49, 0>>

\* A character that is no digit gives -1, as a char: noDigit is -1 where char is
\* signed, and 255 where it is not.
assic_to_hex(char, noDigit) == IF char \in 48 .. 57 THEN char - 48 ELSE noDigit

\* Two bits, two bits and four; a last number of one digit is told by the -1, so with
\* an unsigned char the end of the string is taken for a digit.
get_current_mcu_fw_ver(ver, noDigit) ==
  LET digit(n) == assic_to_hex(ver[n], noDigit)
      low == IF digit(6) = -1 THEN digit(5) ELSE digit(5) * 10 + digit(6)
  IN  (digit(1) % 4) * 64 + (digit(3) % 4) * 16 + (low % 16)

rf_notify_factory_new_hanlde   == <<Frame(ZIGBEE_FACTORY_NEW_CMD, <<1>>)>>
response_mcu_ota_version_event == <<Frame(MCU_OTA_VERSION_CMD, <<CurrentVersion>>)>>
response_mcu_type              == <<Frame(CHECK_MCU_TYPE_CMD, <<McuType>>)>>

\* Of the other commands data_handle knows, PRODUCT_INFO_CMD is the module
\* Provisioning, and nothing is done for the rest.
Replies == {rf_notify_factory_new_hanlde, response_mcu_ota_version_event,
            response_mcu_type, all_data_update(driver), <<>>}

Reply == \E frames \in Replies :
  /\ "points" \in session /\ ~Busy
  /\ answers' = Put(<<>>, frames)
  /\ controlled' = <<>> /\ report' = NoReport
  /\ UNCHANGED <<driver, handling, clock, shown, session, otaVars>>

mcu_write_rtctime == \E time \in Times :
  /\ "clock" \in session /\ ~Busy
  /\ clock' = RTC_Get(time, clock)
  /\ shown' = time
  /\ UNCHANGED <<driver, handling, answers, controlled, report, session, otaVars>>

\* A step of the update, between two frames with data points.
Updating(step) == "update" \in session /\ ~Busy /\ step /\ UNCHANGED sdkVars

\* The board reports by itself, outside data_handle.
ReportFrame(kind, dpid, value) ==
  CASE kind = "bool"    -> mcu_dp_bool_update(dpid, value)
    [] kind = "enum"    -> mcu_dp_enum_update(dpid, value)
    [] kind = "bitmap"  -> mcu_dp_bitmap_update(dpid, value)
    [] kind = "fault"   -> mcu_dp_fault_update(dpid, value)
    [] kind = "raw"     -> mcu_dp_raw_update(dpid, short_to_byte(value))
    [] kind = "string"  -> mcu_dp_string_update(dpid, short_to_byte(value))
    [] kind = "value"   -> mcu_dp_value_update(dpid, value)
    [] kind = "hue"     -> mcu_dp_hsl_value_hue_update(dpid, value)
    [] kind = "network" -> mcu_dp_report_network(dpid, value)

BoardReports == \E r \in Reports :
  /\ "reports" \in session /\ ~Busy
  /\ report' = r
  /\ answers' = <<ReportFrame(r[1], r[2], r[3])>>
  /\ controlled' = <<>>
  /\ UNCHANGED <<driver, handling, clock, shown, session, otaVars>>

-----------------------------------------------------------------------------
data_handle == \/ rf_data_point_handle \/ rf_data_respond_handle
               \/ handler_status_device \/ Handled

Next == Receive \/ data_handle \/ Reply \/ mcu_write_rtctime \/ Updating(OtaNext) \/ BoardReports

\* The loops go on.  The timer asks again, and not every answer is lost; both may have
\* to wait for frames with data points.
Spec == /\ Init /\ [][Next]_vars
        /\ WF_vars(data_handle)
        /\ SF_vars(Updating(mcu_ota_fw_request)) /\ SF_vars(Updating(Answer))

-----------------------------------------------------------------------------
(***************************************************************************)
(* Properties.                                                             *)
(***************************************************************************)
\* The bytes of a value as a number.
Number(bytes) ==
  LET number[k \in 0 .. Len(bytes)] ==
        IF k = 0 THEN 0 ELSE number[k - 1] * 256 + bytes[k]
  IN  number[Len(bytes)]

\* What a receiver reads from the frame of a single data point.
Decoded(frame) == [id |-> dp_id(frame.data, 0), type |-> dp_type(frame.data, 0),
                   number |-> Number(SubSeq(frame.data, 5, 4 + dp_len(frame.data, 0)))]

\* The answers a data point is owed: with its own number, of the type the table gives
\* it, with the lamp's value - except that hue and saturation come back as they were
\* set, and that a light mode that was asked for comes as a switch.
OwedValue(cmd, id, point, value) ==
  LET lamp == driver[ChannelOf(id)]
  IN  CASE point = CCT_OR_HSL -> lamp[BRIGHT_VALUE] * 65536 + lamp[TERMP_OR_HUE]
        [] cmd = ZIGBEE_DATA_REQ_CMD /\ point \in {TERMP_OR_HUE, SATURATION} -> Number(value)
        [] id = DPID_RESTART_STATUS -> driver[0][id]
        [] OTHER -> lamp[point]

Owed(cmd, p) ==
  LET point == p[1] % 16
      first == [id |-> p[1],
                type |-> IF cmd = DATA_DATA_RES_CMD /\ p[1] < 128 /\ point = LIGHT_MODE
                         THEN DP_TYPE_BOOL ELSE p[2],
                number |-> OwedValue(cmd, p[1], point, p[3])]
  IN  IF <<p[1], p[2]>> \notin ToSet(download_cmd) \/ (p[1] < 128 /\ point = DEVICE_STATUS)
      THEN <<>>
      ELSE IF cmd = ZIGBEE_DATA_REQ_CMD /\ p[1] < 128 /\ point = SWITCH_LED
              /\ driver[ChannelOf(p[1])][SWITCH_LED] # 0
      THEN <<first, [id |-> p[1] + 1, type |-> DP_TYPE_VALUE,
                     number |-> driver[ChannelOf(p[1])][BRIGHT_VALUE]]>>
      ELSE <<first>>

\* When a frame whose lengths are right has been gone through, every point of it that
\* the table knows by this type was answered, in the order of the frame, for its own
\* channel, and unknown or mistyped points in between cost no other point its answer.
\* What the queue had no room for is missing at the end.
PointsAnswered ==
  Busy /\ handling.points # <<>> /\ handling.cmd # DATA_REPORT_CMD /\ ~More =>
    [n \in 1 .. Len(answers) |-> Decoded(answers[n])] =
      FirstOf(FlattenSeq([n \in 1 .. Len(handling.points) |->
                            Owed(handling.cmd, handling.points[n])]))

\* A report carries the number it was called with, in a value whose length is the one
\* the frame gives, also where a number needs one more byte.
ReportsDecode ==
  report # NoReport =>
    /\ Decoded(answers[1]).id = report[2] /\ Len(answers[1].data) = 4 + dp_len(answers[1].data, 0)
    /\ Decoded(answers[1]).number = IF report[1] \in {"bool", "network"}
                                    THEN (IF report[3] = 0 THEN 0 ELSE 1) ELSE report[3]

\* Whatever times came before, the calendar shows the one that came last, over leap
\* years and the ends of months; the kept day count never leaves an old date behind.
DateIsRight == clock.time # NoTime \/ clock.calendar # NoCalendar => Shows(clock, shown)

\* Whatever the frame, also one whose lengths lie, what is sent are bytes and the queue is
\* never above its limit; in a frame whose lengths are right the loops end with its data.
TypeOK ==
  /\ OtaTypeOK
  /\ driver \in Drivers /\ session \in Sessions
  /\ handling.i \in Short
  /\ handling.points # <<>> => handling.i <= handling.len
  /\ \A n \in 1 .. Len(answers) : answers[n].data \in Seq(0 .. 255)
  /\ Len(answers) <= QueueLen
=============================================================================
