----------------------------- MODULE DataPoints -----------------------------
(***************************************************************************)
(* The data points of the serial protocol: how the reports of mcu_api.cpp  *)
(* put one into a frame, how a received one is taken apart, the table of   *)
(* the known ones (system_define.cpp), and what the MCU side of the SDK    *)
(* answers to each (protocol_define.cpp).                                  *)
(*                                                                         *)
(* A frame is its command and its data; rf_uart_write_frame puts the head, *)
(* the number and the check sum around them, which is the module TxPath.   *)
(* A data point is its id, its type, the two bytes of its length, and its  *)
(* value.  A value of deviceInfo.driver is named by its data point.        *)
(***************************************************************************)
EXTENDS Integers, Sequences, SequencesExt

NUMBER_CHANNEL_IN_DEVICE == 8

\* What the frames of this module and of McuSdk are for.
ZIGBEE_FACTORY_NEW_CMD == 0
PRODUCT_INFO_CMD       == 1
ZIGBEE_STATE_CMD       == 2
ZIGBEE_CFG_CMD         == 3
ZIGBEE_DATA_REQ_CMD    == 4
DATA_DATA_RES_CMD      == 5
DATA_REPORT_CMD        == 6
ZIGBEE_RF_TEST_CMD     == 8
MCU_OTA_VERSION_CMD    == 11
TIME_GET_CMD           == 36
CHECK_MCU_TYPE_CMD     == 37
READ_MCU_DP_DATA_CMD   == 40

DP_TYPE_RAW    == 0
DP_TYPE_BOOL   == 1
DP_TYPE_VALUE  == 2
DP_TYPE_STRING == 3
DP_TYPE_ENUM   == 4
DP_TYPE_BITMAP == 5

\* The points of the first channel; those of channel c are 16 * c further.
SWITCH_LED     == 1
BRIGHT_VALUE   == 2
BRIGHTNESS_MIN == 3
LED_TYPE       == 4
BRIGHTNESS_MAX == 5
TRANSACTION    == 6
LIGHT_MODE     == 7
DEVICE_STATUS  == 8
CCT_OR_HSL     == 9
LIGHTNESS      == 10
TERMP_OR_HUE   == 11
SATURATION     == 12
DPID_RESTART_STATUS == 200

Channels == 0 .. NUMBER_CHANNEL_IN_DEVICE - 1

Dpid(point, channel) == point + channel * 16

-----------------------------------------------------------------------------
(***************************************************************************)
(* The bytes of a number, and back.                                        *)
(***************************************************************************)
int_to_byte(number) == <<(number \div 16777216) % 256, (number \div 65536) % 256,
                         (number \div 256) % 256, number % 256>>

short_to_byte(number) == <<(number \div 256) % 256, number % 256>>

byte_to_short(value) == value[1] * 256 + value[2]

byte_to_int(value) == byte_to_short(value) * 65536 + byte_to_short(Tail(Tail(value)))

\* Mutant: 256 goes into one byte.
bitmap_to_few(number) == IF number <= 256 THEN <<number % 256>>
                         ELSE IF number < 65536 THEN short_to_byte(number)
                         ELSE int_to_byte(number)

\* As few bytes as a bitmap needs; three are sent as four.
bitmap_to_byte(number) == IF number < 256 THEN <<number>>
                          ELSE IF number < 65536 THEN short_to_byte(number)
                          ELSE int_to_byte(number)

-----------------------------------------------------------------------------
(***************************************************************************)
(* The reports.                                                            *)
(***************************************************************************)
Point(dpid, type, value) == <<dpid, type>> \o short_to_byte(Len(value)) \o value

Frame(cmd, data) == [cmd |-> cmd, data |-> data]

BoolByte(value) == IF value % 256 = 0 THEN 0 ELSE 1

mcu_dp_bool_update(dpid, value) ==
  Frame(ZIGBEE_DATA_REQ_CMD, Point(dpid, DP_TYPE_BOOL, <<BoolByte(value)>>))

mcu_dp_enum_update(dpid, value) ==
  Frame(DATA_REPORT_CMD, Point(dpid, DP_TYPE_ENUM, <<value % 256>>))

mcu_dp_bitmap_update(dpid, value) ==
  Frame(ZIGBEE_DATA_REQ_CMD, Point(dpid, DP_TYPE_BITMAP, bitmap_to_byte(value)))

mcu_dp_fault_update(dpid, value) ==
  Frame(DATA_REPORT_CMD, Point(dpid, DP_TYPE_BITMAP, bitmap_to_byte(value)))

mcu_dp_raw_update(dpid, value) ==
  Frame(DATA_REPORT_CMD, Point(dpid, DP_TYPE_RAW, value))

mcu_dp_string_update(dpid, value) ==
  Frame(DATA_REPORT_CMD, Point(dpid, DP_TYPE_STRING, value))

mcu_dp_value_update(dpid, value) ==
  Frame(ZIGBEE_DATA_REQ_CMD, Point(dpid, DP_TYPE_VALUE, int_to_byte(value)))

mcu_dp_hsl_value_update(dpid, hue, saturation, level) ==
  Frame(ZIGBEE_DATA_REQ_CMD,
        Point(dpid, DP_TYPE_RAW, short_to_byte(hue) \o short_to_byte(saturation)
                                 \o short_to_byte(level)))

\* The three of them send the same frame, a value of only two bytes.
mcu_dp_hsl_value_hue_update(dpid, hue) ==
  Frame(ZIGBEE_DATA_REQ_CMD, Point(dpid, DP_TYPE_VALUE, short_to_byte(hue)))
mcu_dp_hsl_value_saturation_update(dpid, saturation) ==
  mcu_dp_hsl_value_hue_update(dpid, saturation)
mcu_dp_hsl_value_level_update(dpid, level) ==
  mcu_dp_hsl_value_hue_update(dpid, level)

mcu_dp_report_network(dpid, value) ==
  Frame(ZIGBEE_STATE_CMD, Point(dpid, DP_TYPE_BOOL, <<IF value = 0 THEN 0 ELSE 1>>))

mcu_start_rf_test(channel) == Frame(ZIGBEE_RF_TEST_CMD, <<channel>>)
mcu_reset_rf               == Frame(ZIGBEE_CFG_CMD, <<0>>)
mcu_exit_rf                == mcu_reset_rf
mcu_network_get_status     == Frame(ZIGBEE_CFG_CMD, <<1>>)
mcu_join_rf                == mcu_network_get_status
mcu_get_rf_state           == Frame(ZIGBEE_STATE_CMD, <<>>)

-----------------------------------------------------------------------------
(***************************************************************************)
(* A received point, at offset i of the data of a frame, and the table of  *)
(* the known ones.                                                         *)
(***************************************************************************)
dp_id(data, i)   == data[i + 1]
dp_type(data, i) == data[i + 2]
dp_len(data, i)  == byte_to_short(<<data[i + 3], data[i + 4]>>)
dp_value(data, i) == SubSeq(data, i + 5, Len(data))

mcu_get_dp_download_value(value) == byte_to_int(value)

PointTypes ==
  <<<<SWITCH_LED, DP_TYPE_BOOL>>, <<BRIGHT_VALUE, DP_TYPE_VALUE>>,
    <<BRIGHTNESS_MIN, DP_TYPE_VALUE>>, <<LED_TYPE, DP_TYPE_ENUM>>,
    <<BRIGHTNESS_MAX, DP_TYPE_VALUE>>, <<TRANSACTION, DP_TYPE_VALUE>>,
    <<LIGHT_MODE, DP_TYPE_ENUM>>, <<DEVICE_STATUS, DP_TYPE_VALUE>>,
    <<CCT_OR_HSL, DP_TYPE_RAW>>, <<TERMP_OR_HUE, DP_TYPE_VALUE>>,
    <<SATURATION, DP_TYPE_VALUE>>>>

\* LIGHTNESS has a number but no line in the table.
download_cmd ==
  [n \in 1 .. NUMBER_CHANNEL_IN_DEVICE * Len(PointTypes) |->
     LET point == PointTypes[((n - 1) % Len(PointTypes)) + 1]
     IN  <<Dpid(point[1], (n - 1) \div Len(PointTypes)), point[2]>>]
  \o <<<<DPID_RESTART_STATUS, DP_TYPE_ENUM>>>>

\* One past the table for an unknown data point.
get_dowmload_dpid_index(dpid) ==
  LET index == SelectInSeq(download_cmd, LAMBDA line : line[1] = dpid)
  IN  IF index = 0 THEN Len(download_cmd) + 1 ELSE index

\* The types the table can give for a data point: one, or whatever lies behind it.
TypesOf(dpid, behind) ==
  LET index == get_dowmload_dpid_index(dpid)
  IN  IF index > Len(download_cmd) THEN {behind} ELSE {download_cmd[index][2]}

-----------------------------------------------------------------------------
(***************************************************************************)
(* What is answered to a data point that is set (download) and to one that *)
(* is asked for (respond), when driver holds the values of the lamp.  Only *)
(* the number of the point and the hue and saturation of a download reach  *)
(* the answer: the calls that would set the lamp are commented out.        *)
(***************************************************************************)
respond_cct_or_hsl(driver, channel) ==
  <<mcu_dp_raw_update(Dpid(CCT_OR_HSL, channel),
      short_to_byte(driver[channel][BRIGHT_VALUE])
      \o short_to_byte(driver[channel][TERMP_OR_HUE]))>>

\* The report of a value of the lamp as a number, as an enumeration, as a switch.
ReportValue(driver, point, channel) ==
  <<mcu_dp_value_update(Dpid(point, channel), driver[channel][point])>>
ReportEnum(driver, point, channel) ==
  <<mcu_dp_enum_update(Dpid(point, channel), driver[channel][point])>>
ReportSwitch(driver, point, channel) ==
  <<mcu_dp_bool_update(Dpid(point, channel), driver[channel][point])>>

\* A lamp that is on reports its level with its switch.
dp_download_switch_led_handle(driver, channel) ==
  ReportSwitch(driver, SWITCH_LED, channel)
  \o IF driver[channel][SWITCH_LED] # 0
     THEN ReportValue(driver, BRIGHT_VALUE, channel) ELSE <<>>

dp_download_bright_value_handle(driver, channel) ==
  ReportValue(driver, BRIGHT_VALUE, channel)
dp_download_brightness_min_handle(driver, channel) ==
  ReportValue(driver, BRIGHTNESS_MIN, channel)
dp_download_led_type_handle(driver, channel) ==
  ReportEnum(driver, LED_TYPE, channel)
dp_download_brightness_max_handle(driver, channel) ==
  ReportValue(driver, BRIGHTNESS_MAX, channel)
dp_download_transaction_time_handle(driver, channel) ==
  ReportValue(driver, TRANSACTION, channel)
dp_download_light_mode_handle(driver, channel) ==
  ReportEnum(driver, LIGHT_MODE, channel)
dp_download_cct_or_hsl_value_handle(driver, channel) ==
  respond_cct_or_hsl(driver, channel)
dp_download_hue_or_tempercolor_value_handle(channel, value) ==
  <<mcu_dp_value_update(Dpid(TERMP_OR_HUE, channel), mcu_get_dp_download_value(value))>>
dp_download_saturation_value_handle(channel, value) ==
  <<mcu_dp_value_update(Dpid(SATURATION, channel), mcu_get_dp_download_value(value))>>
dp_download_restart_status_handle(driver) ==
  <<mcu_dp_enum_update(DPID_RESTART_STATUS, driver[0][DPID_RESTART_STATUS])>>

ChannelOf(dpid) == dpid \div 16

\* Mutant: the loop over the channels leaves out the last one.
IsButLast(dpid, point) ==
  \E c \in Channels \ {NUMBER_CHANNEL_IN_DEVICE - 1} : dpid = Dpid(point, c)

\* dpid is this point of some channel.
Is(dpid, point) == \E c \in Channels : dpid = Dpid(point, c)

dp_download_handle(driver, dpid, value) ==
  LET c == ChannelOf(dpid)
  IN  CASE Is(dpid, SWITCH_LED)     -> dp_download_switch_led_handle(driver, c)
        [] Is(dpid, BRIGHT_VALUE)   -> dp_download_bright_value_handle(driver, c)
        [] Is(dpid, BRIGHTNESS_MIN) -> dp_download_brightness_min_handle(driver, c)
        [] Is(dpid, LED_TYPE)       -> dp_download_led_type_handle(driver, c)
        [] Is(dpid, BRIGHTNESS_MAX) -> dp_download_brightness_max_handle(driver, c)
        [] Is(dpid, TRANSACTION)    -> dp_download_transaction_time_handle(driver, c)
        [] Is(dpid, LIGHT_MODE)     -> dp_download_light_mode_handle(driver, c)
        [] Is(dpid, CCT_OR_HSL)     -> dp_download_cct_or_hsl_value_handle(driver, c)
        [] Is(dpid, TERMP_OR_HUE)   -> dp_download_hue_or_tempercolor_value_handle(c, value)
        [] Is(dpid, SATURATION)     -> dp_download_saturation_value_handle(c, value)
        [] dpid = DPID_RESTART_STATUS -> dp_download_restart_status_handle(driver)
        [] OTHER -> <<>>

\* The light mode is an enumeration in the table and a switch in this answer.
dp_respond_handle(driver, dpid) ==
  LET c == ChannelOf(dpid)
      p == dpid % 16
  IN  CASE \E q \in {SWITCH_LED, LIGHT_MODE} : Is(dpid, q) -> ReportSwitch(driver, p, c)
        [] \E q \in {BRIGHT_VALUE, BRIGHTNESS_MIN, BRIGHTNESS_MAX, TRANSACTION,
                      TERMP_OR_HUE, SATURATION} : Is(dpid, q) -> ReportValue(driver, p, c)
        [] Is(dpid, LED_TYPE)   -> ReportEnum(driver, p, c)
        [] Is(dpid, CCT_OR_HSL) -> respond_cct_or_hsl(driver, c)
        [] dpid = DPID_RESTART_STATUS -> dp_download_restart_status_handle(driver)
        [] OTHER -> <<>>

\* Everything a gateway that starts again is told.
all_data_update(driver) ==
  FlattenSeq([n \in 1 .. NUMBER_CHANNEL_IN_DEVICE |->
                ReportSwitch(driver, SWITCH_LED, n - 1)
                \o ReportValue(driver, BRIGHT_VALUE, n - 1)])
=============================================================================
