------------------------------ MODULE MCMcuSdk ------------------------------
(***************************************************************************)
(* McuSdk for TLC.  The kinds of work (data points, the board's reports,   *)
(* updates, the clock) share no state but the queue, which every frame     *)
(* finds empty, so each behaviour does one of them.                        *)
(***************************************************************************)
EXTENDS McuSdk

MCSessions == {{"points"}, {"reports"}, {"update"}, {"clock"}}

\* The lamp: a value of its own for every point of every channel; the switch off and on.
Lamp(switch) ==
  [c \in Channels |->
     [p \in 1 .. 12 \cup {DPID_RESTART_STATUS} |->
        CASE p = SWITCH_LED -> switch
          [] p = LIGHT_MODE -> c % 2
          [] p = LED_TYPE   -> c
          [] p = DPID_RESTART_STATUS -> 2
          [] OTHER -> 300 * p + c]]

MCDrivers == {Lamp(switch) : switch \in {0, 1}}

\* Every known point of two channels, the first and the last, as it should come ...
Zeros(type) == CASE type \in {DP_TYPE_BOOL, DP_TYPE_ENUM} -> <<1>>
                 [] type = DP_TYPE_VALUE -> <<0, 1, 2, 3>>
                 [] type = DP_TYPE_RAW   -> <<>>

Good == {<<line[1], line[2], Zeros(line[2])>> :
           line \in {l \in ToSet(download_cmd) : l[1] \in 1 .. 16 \cup 113 .. 200}}

\* ... one that is unknown, and some with another type.
Bad == {<<LIGHTNESS, DP_TYPE_VALUE, <<0, 0, 0, 1>>>>, <<SWITCH_LED, DP_TYPE_ENUM, <<1>>>>,
        <<Dpid(CCT_OR_HSL, 7), DP_TYPE_STRING, <<9, 9>>>>}

MCPointFrames ==
  {<<p>> : p \in Good \cup Bad}
  \cup {<<p, q>> : p \in Good \cup Bad, q \in {<<1, DP_TYPE_BOOL, <<1>>>>, <<116, DP_TYPE_ENUM, <<0>>>>}}
  \cup {<<p, q, p>> : p \in Good, q \in Bad}
  \cup {[n \in 1 .. 6 |-> <<Dpid(SWITCH_LED, n - 1), DP_TYPE_BOOL, <<1>>>>]}

\* Frames whose lengths are not right: a hue, a saturation and a level of two bytes, as
\* mcu_api.cpp:559-614 sends them, and one before another point; lengths that go beyond the
\* frame, end inside the value, or lead back to where they are; a cut value, a cut head, and
\* nothing.
MCRawFrames ==
  {<<TERMP_OR_HUE, DP_TYPE_VALUE, 0, 2, 1, 44>>, <<SATURATION, DP_TYPE_VALUE, 0, 2, 0, 100>>,
   <<BRIGHT_VALUE, DP_TYPE_VALUE, 0, 2, 3, 232>>,
   <<Dpid(SATURATION, 7), DP_TYPE_VALUE, 0, 2, 0, 9, SWITCH_LED, DP_TYPE_BOOL, 0, 1, 1>>,
   <<TERMP_OR_HUE, DP_TYPE_VALUE, 0, 40, 0, 0, 0, 1>>, <<SWITCH_LED, DP_TYPE_BOOL, 255, 255, 1>>,
   <<BRIGHT_VALUE, DP_TYPE_VALUE, 0, 2, 0, 0, 1, 1>>,
   <<LIGHTNESS, DP_TYPE_RAW, 0, 1, 9, SWITCH_LED, DP_TYPE_BOOL, 0, 1>>,
   <<BRIGHT_VALUE, DP_TYPE_VALUE, 255, 252, 0, 0, 0, 1>>, <<SATURATION, DP_TYPE_VALUE>>, <<>>}

\* The check sum and an older frame.
MCRests == {<<7, SWITCH_LED, DP_TYPE_BOOL, 0, 1, 1, 255, 0>>, <<255, 255, 0, 255, 255, 255, 255>>}

\* The boundaries of one, two and four bytes.
MCReports ==
  ({"bool", "network"} \X {1} \X {0, 1})
  \cup ({"enum"} \X {4} \X {0, 255})
  \cup ({"raw", "string", "hue"} \X {9} \X {0, 255, 256, 65535})
  \cup ({"bitmap", "fault", "value"} \X {2}
        \X {0, 255, 256, 65535, 65536, 16777215, 16777216, 2147483647})

\* The first day and its neighbour, the ends of February in leap years and in others,
\* of the months and of years, 2000, 2100, and the last day of 32 bits.
MCTimes ==
  {[day |-> d, secs |-> 0] : d \in {0, 1, 30, 31, 58, 59, 364, 365, 789, 790, 1095, 1096, 1155,
     10956, 10957, 11015, 11016, 11017, 11322, 11323, 47540, 47541, 47847, 49709}}
  \cup {[day |-> 59, secs |-> s] : s \in {59, 60, 3599, 3600, 86399}}

\* "0.0.1" in a build whose char is unsigned, like those for RISC-V and Arm.
MCVersion == get_current_mcu_fw_ver(MCU_VER, 255)

\* Two images of our product: one that ends with a short packet, one below a packet.
MCContents == [v \in {9, 10, 11, 12} |->
  CASE v = 10 -> <<1, 2, 3, 4, 5>> [] v = 11 -> <<9>> [] v = 12 -> <<6, 7, 8>> [] v = 9 -> <<5, 5>>]

MCSums == [v \in DOMAIN MCContents |->
  LET sum[k \in 0 .. Len(MCContents[v])] ==
        IF k = 0 THEN 0 ELSE sum[k - 1] + MCContents[v][k]
  IN  sum]

SumOf(v) == MCSums[v][Len(MCContents[v])]

MCOffers ==
  {[pid |-> Pid, ver |-> v, size |-> Len(MCContents[v]), checksum |-> SumOf(v)] : v \in {9, 10, 11, 12}}
  \cup {[pid |-> Pid, ver |-> 12, size |-> 3, checksum |-> 99],
        [pid |-> Pid, ver |-> 12, size |-> 0, checksum |-> 0],
        [pid |-> "other", ver |-> 10, size |-> 5, checksum |-> 15]}
=============================================================================
