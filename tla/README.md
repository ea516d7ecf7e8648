# A TLA+ model of FL-ColorLamp-Matter

The program is the firmware of a Matter lamp. A Telink SoC runs the Matter (CHIP) stack and this
application; a second microcontroller, the *MCU*, drives the lamp and reads its wall control. The
two talk over a serial line in frames (55 AA, version, sequence, type, length, data, check sum). What
can go wrong here is mostly in the seams: an interrupt and two threads that share data without a
lock, state kept in three places, reports that turn into commands, a flash page that may be half
written, queues that drop what does not fit.

All module names below are files of this directory, all source paths are below `src/`:
`mcu_api.cpp`, `system_define.cpp`, `protocol_define.cpp`, `user_service.cpp`, `UartService.cpp` in `platform/user/src/`;
`AppTask.cpp`, `DeviceDimmer.cpp`, `DataHandler.cpp`, `ZclCallbacks.cpp` in `lighting-app/src/`;
`AppTaskCommon.cpp`, `mainCommon.cpp` in `platform/common/src/`; `PWMDevice.cpp`, `ButtonManager.cpp` in `platform/util/src/`.

## 1. Inventory

| Component | State | Operations | Runs on |
|---|---|---|---|
| Receive ring (`mcu_api.cpp` 720-800) | `rf_queue_buf`, `queue_in`, `queue_out` | `uart_receive_input`, `with_data_rxbuff`, `Queue_Read_Byte`, `rf_protocol_init` | UART interrupt; application thread |
| Frame parser (`rf_uart_service`, 803-866) | `rf_uart_rx_buf`, `rx_in`, `queue_data_rx` | fill, search, queue, keep the rest | application thread, every 10 ms |
| Transmit path (`system_define.cpp` 188-342, `user_service.cpp` 139-149) | `rf_uart_tx_buf`, `global_seq_num`, `queue_data_tx` | `set_rf_uart_byte`, `seq_num_get`, `get_check_sum`, `rf_uart_write_frame`, `rf_uart_write_data`, `parking_message` | CHIP thread and application thread |
| Light state (`AppTask.cpp`, `DeviceDimmer.cpp`, `ZclCallbacks.cpp`) | attributes OnOff, CurrentLevel, CurrentHue, CurrentSaturation; the callback's static `hsv`; `DeviceDimmer` (`mState`, `mLevel`, `mColor`); the lamp itself | `MatterPostAttributeChangeCallback`, `InitiateAction`, `UpdateFromHardware`, the report handlers | CHIP thread (controller); application thread (reports) |
| Event queue, button, identify LED (`AppTaskCommon.cpp`, `PWMDevice.cpp`) | `sAppEventQueue`, `sFactoryResetCntr`, two timers, `mPwmIdentifyLed` | `PostEvent`, `GetEvent`/`DispatchEvent`, the handlers, `UpdateAction` | anything posts; application thread handles |
| Provisioning (`mainCommon.cpp` 105-126, `mcu_api.cpp` 50-90 and 457-509) | the flash page, `product_info`, `IsInitApp` | `UserInit`, `UpdateNumberDevice`, `get_product_info`, `write_product_info`, the factory reset | boot; application thread; CHIP thread (reset) |
| Key matrix (`ButtonManager.cpp`, `AppTaskCommon.cpp` 442-487) | `mButtons` with their `mPreviousState`, the pointer to the button before, the pins | `AddButton`, `Poll`, `Init`, `Deinit` | button thread; `main` adds |
| MCU SDK: frames (`data_handle`, `system_define.cpp` 353-640, `protocol_define.cpp`, the reports of `mcu_api.cpp`) | `deviceInfo.driver`, `queue_data_tx` | the loops over data points, `dp_download_handle`, `dp_respond_handle`, `mcu_dp_..._update` | not called in this build |
| MCU SDK: firmware update (`protocol_define.cpp` 598-735, `system_define.cpp` 901) | `ota_fw_info`, `current_checksum`, `current_mcu_pid` | `response_mcu_ota_notify_event`, `mcu_ota_fw_request`, `mcu_ota_fw_request_event` | the same |
| MCU SDK: clock (`system_define.cpp` 713-850) | `_time`, the static `dayCount` | `mcu_write_rtctime`, `RTC_Get` | the same |
| Network state, commissioning callbacks, status LED, colour conversion, WS2812, sensors, boot counter, RPC | see section 8 | | |

How they interact: the interrupt fills the ring; the application thread's 10 ms timer event runs the
parser, which fills `queue_data_rx`; a 30 ms event takes one frame and dispatches it (`ControlCMD`) to
the light state, to provisioning or to the network commands. A controller's write runs the attribute
callback on the CHIP thread, which changes the `DeviceDimmer` and makes a frame; a report of the MCU
does the same on the application thread, and also writes the attribute, which runs the callback
once more. Frames wait in `queue_data_tx` and are sent, one every 100 ms, by `parking_message`.
Factory resets are asked for by the button, by provisioning, by the MCU and by the removal of the last
fabric, and carried out on the CHIP thread. A thread of its own scans the keys and posts their events.
The repository also holds the other end of the line, the SDK with which an MCU answers the lamp's
frames; it compiles into the same files but is not called here.

What is hard, and what should hold (PROJECT.json lists each hazard at its line):

* *Ring*: an interrupt at every point of the reader; pointers that wrap late, so that they range over
  one position more than the array; equal pointers that may mean empty or a full lap. No byte twice,
  none out of order, none lost while the reader keeps up.
* *Parser*: calls cut the stream anywhere; the line corrupts lengths and heads. No intact frame
  hidden, nothing depends on the cuts, every frame handled once and in order.
* *Transmit path*: two threads in one buffer and one counter. A frame says what was meant, its check
  sum is right, and its number differs from the one before.
* *Light state*: three copies, two threads, echoes. The copies agree when nothing is under way; the
  exchange ends; rounding does not drift.
* *Events*: a full queue drops events, a timer races the press that it should expire before. Presses
  are forgotten in the end; a reset is meant; effects run until the next one and stop when told.
* *Key matrix*: a held key connects a row to a column, so a column that stays driven lets a key call
  the button of another; the scan runs while the buttons are still being added, and moved. A call
  means the key it is made for, a held key is seen, and a disturbed scan recovers.
* *MCU SDK*: loops over bytes that trust the lengths they find, a table searched for points that are
  not in it, static variables kept from one call, or one image, to the next. Every point gets its
  answer, a value reads back as it was sent, the date is right, an image is stored whole, in order and
  with an honest result, whichever packets are late, doubled or lost.
* *Provisioning*: power fails and resets cut in anywhere. A half-written page is never taken for a
  written one; the lamp gets its info and stops resetting.

## 2. The plan

Modules in order of importance. Composition is by state, not by `INSTANCE`: `FrameRx` reads a stream
in order because `RxRing` is shown to implement `ByteQueue`; `LightSync` sends whole commands, which
`TxPath` shows to be right as long as no maker of a frame was stopped in the middle of it.

| Module | Models | State of the work |
|---|---|---|
| `RxRing`, `ByteQueue` | the ring; the queue it promises to be | checked, refinement checked and proved |
| `LightSync` | light state over both threads, queues and the MCU: switch, level, hue and saturation | checked, safety proved but for a colour light whose changes race |
| `FrameRx` | the parser | checked, safety proved |
| `AppEvents` | event queue, button, identify LED | checked, safety proved |
| `TxPath` | making a frame | checked, safety proved |
| `Provisioning` | product info, and the resets others ask for | checked, safety proved |
| `Buttons` | the scan of the key matrix | checked, safety proved |
| `DataPoints`, `McuClock`, `McuOta`, composed by `McuSdk` | the MCU's end of the line | checked, all its safety proved |
| next | an abstract light of one switch and one level that paced `LightSync` implements | planned |
| next | the commissioning callbacks with `sIsCommissioningFailed`; the boot counter and the status LED, with their switches as constants | planned |

Each `MC...` module gives TLC the constants that a .cfg cannot write; each `...Proofs` module holds
the theorems of one component. Definitions marked *Mutant* in the modules are wrong variants of the
definition after them, each a bug this code could plausibly have; with one of them in place the
property it belongs to fails.

## 3. The modules and the code

**RxRing.** The interrupt is `Store` or `Refuse`, atomic, since the thread does not preempt it. The
reader is one action per access to shared memory: the test in `with_data_rxbuff`, the second test in
`Queue_Read_Byte`, the late wrap, the load and the increment of `*queue_out++` in either order, as C
leaves it open. A byte is the ordinal of its arrival, so that loss, repetition and reordering show in
the numbers. `InitCalled` says whether `rf_protocol_init` ran: nothing in this build calls it, so all
runs start both pointers as null; the proofs cover both. The first bytes are then stored from address 0 on,
outside `rf_queue_buf`; the model goes on as if that memory could be written. A reader that is lapped
between its two tests hands over an uninitialised local (`ReturnUninitialised`), which stands for no byte
that arrived: `last` does not count it and `uninit` remembers it, so `NoReplay` is about the bytes of the
ring only, and `NothingLost` says that a reader that keeps up never does it.

**FrameRx.** One iteration of the search is one step, with real bytes, 16-bit lengths and real check
sums. A frame whose 16-bit length wraps to 0 makes the code sum far behind the buffer; the result
is left open. The streams are sequences of pieces: good and nested frames, stray heads, wrong
versions, lengths that are too big, that swallow the next frame or that wrap, in every cut.

**TxPath.** Each access to `rf_uart_tx_buf` and `global_seq_num` is a step; `CanPreempt` says which
thread may run while which other one is in the middle of a frame. (The priorities are not set in this
repository, so it is a constant and not a fact.) A frame carries, besides its bytes, what was meant
and how it was made: *alone*, *nested* inside another thread's frame, or *cut*, that is stopped while
another thread made one. The bytes equal in all frames are left out; the order of the others is kept.

**LightSync.** The attributes, the `DeviceDimmer` and the lamp, on the threads `"chip"` and `"app"`.
Test, assignment, attribute write and command are steps of their own, because the other thread may
come between. Conversions are as in the code: level to thousandths and back with truncation, colour
levels with their bytes exchanged and cut to 8 bits, `Set(kState_On)` with its inverted meaning. The
MCU is outside this repository: it obeys and reports each data point back as it came, as the handlers
in `protocol_define.cpp` do, and tells its brightness when it is switched on.

A colour message carries hue and saturation through `InitiateAction`, whose test compares the hue byte
with the *level* (`DeviceDimmer.cpp` 152), so `ignored` remembers a colour that was passed over; reports
of a colour light bring only their level back, as `HandleHSL` does. The attributes CurrentHue and
CurrentSaturation (`currentColour`) and the static `hsv` in which the callback collects both are two
variables: a write of `EnhancedCurrentHue` puts its high byte and its low byte into the static
(`Split`, `ZclCallbacks.cpp` 98-103) and starts a colour action, so that the saturation on the lamp is no
longer the attribute's (`fromEnhanced`).

A colour is sent as three words: hue, saturation, level (`mcu_api.cpp` 537-557, and the comments in
`DeviceDimmer.cpp` 265-267). The handler that the repository has for an MCU reads and reports level,
hue, saturation (`protocol_define.cpp` 238-280, under `DEVICE_LED_STRING_RGB`, which nothing here sets).
`HslLayout` says which of the two the MCU at the other end does (`Heard`).

**AppEvents.** A handler is one step, since it touches a timer only first or last. A running timer may
expire at any moment. `lost` remembers dropped timer events, because nobody posts those again.

**Provisioning.** The page holds a record whose last byte, the number of channels, is what `UserInit`
tests. A write may be cut after any prefix. `FactoryReset` runs on the CHIP thread and may come while
the application thread is between erase and write of the next reply. The scan of the reply's text is
abstracted to whether it finds a product id and which numbers of channels may be read from it
(`Replies`): `get_product_info` tests `ptrp` where it means `ptrc` (`mcu_api.cpp` 498), so a reply without
an id leaves the number as it was, 255 from a blank page, and one without a number reads it from the
address 5. An erase is taken as done or not done. Resets that have nothing to
do with the info may be scheduled at any moment: by the MCU's commands (`ControlCMD`), one frame at a
time, and by the CHIP thread when the last fabric goes (`OnFabricRemoved`).

**Buttons.** The thread is cooperative, so everything between two sleeps is one step: stop driving
the column of the button before, drive the own one, read the row, call the callback if the row rose.
`AddButton` is one step, or two when `push_back` moves the buttons to new storage, with the scan in
between. `previous` may then point to freed storage; what is read there is left open. `owed` holds the
keys pressed since their last call.

**McuSdk** is `data_handle`. It EXTENDS three modules: **DataPoints** has the table of data points, the
frames of `mcu_dp_..._update` and the answers, **McuOta** the update, **McuClock** the calendar, whose
loops are recursive functions of the days left. A frame with data points is handled one point per
step, at the offset its own length fields lead to, in 16 bits and compared with nothing but the length of
the frame. `PointFrames` are lists of points whose lengths are right. `RawFrames` are any other bytes:
numbers of two bytes, which the light sends and the handlers read as four, lengths that lead beyond
the frame, into a value or back to where they are, and frames that are cut. Reads go beyond the end of such a
frame into `Rests`, what lies behind the data in `rf_uart_rx_buf` or in the copy on the stack. All frames are bytes here, since the properties are
about them. The table is searched with one past its end as the answer for an unknown point; what lies
there is a constant (`Behind`). Versions are compared as in the code, with `char` unsigned.

The map in PROJECT.json names the lines behind each definition. The serial line, the MCU, the
attribute store, the kernel's scheduler and the power supply are outside this code and modelled from
how the code uses them.

## 4. What the runs show

| Run | Shows |
|---|---|
| `RxRing_overload` | an interrupt that laps the reader, from null pointers: no byte twice or out of order (`NoReplay`), the inductive `RingInv` |
| `RxRing_prompt` | a reader that keeps up, from null pointers: nothing lost, the ring implements the fair `ByteQueue`, every byte is read |
| `FrameRx` | no intact frame is skipped, the cuts do not matter (against a recursive reference search of the whole stream), bytes are kept, frames handled in order, once, and in the end all of them |
| `TxPath_preempt` | threads that preempt each other anywhere: a frame whose maker was not cut is what was meant, with its check sum; frames made alone have new numbers |
| `LightSync_paced` | one change at a time, all light types, with hue and saturation: lamp, `DeviceDimmer` and attributes agree at rest (`AllAgree`), rounding does not drift, the exchange ends |
| `LightSync_race` | controller and wall at once, room for two commands: at rest an on/off light's `DeviceDimmer` agrees with the lamp even after dropped commands (`SwitchTracksLamp`), a dimmer's level unless one was dropped (`LevelTracksLamp`) |
| `LightSync_echo` | **fails**: two commands in quick succession start an exchange that never ends |
| `LightSync_lowest_level` | **fails**: level 1 comes back as 0 and switches the device off behind the attribute's back |
| `AppEvents` | counted presses are timed and forgotten, a reset is meant, an effect goes on, a stopped LED is dark, its level stays in range |
| `Provisioning` | a half-written page never counts, whatever the replies carry; with the faults over, resets not cutting in for ever and replies that have a product id and a number of channels, the lamp has its info and stops resetting |
| `Buttons` | a callback means a new press of its own key (`CallsAreMeant`), a held key is seen, a scan that met a move recovers |
| `McuSdk` | every known point of a frame whose lengths are right gets its answer in order, also behind unknown ones (`PointsAnswered`); a frame whose lengths lie makes nothing but bytes and overfills nothing (`TypeOK`); reports read back as they were sent, at every border of one, two and four bytes; the date is right whatever was shown before; an image is stored in order, its result is true, and it comes |

The two failing runs are the findings of PROJECT.json. Other things the runs taught about the code,
kept as conditions of the properties and said at their definitions:

* A frame whose maker was cut by the other thread can leave with a *valid* check sum and a content
  nobody meant: the sum is taken over whatever is in the shared buffer. `MeantUnlessCut` and
  `ValidUnlessCut` therefore speak of the others.
* Numbers can repeat on frames that met another thread's; `NewNumber` is about those that met none.
* `rf_protocol_init` is called by nothing in this build. From the null pointers it starts
  with, `RxRing_overload` and `RxRing_prompt` show what is left: the pointers first pass over all
  addresses below the array and then wrap inside it, and loss and order are as they should be if all
  that memory can be written.
* A colour whose hue byte equals the level is ignored, and the lamp keeps the old one until the next
  change (`ignored` in `ColourTracksLamp`).
* A write of `EnhancedCurrentHue` makes its low byte the saturation of the lamp. `ColourTracksLamp` says
  that the lamp shows what the callback made of the last writes, and that it shows CurrentHue and
  CurrentSaturation as far as no such write overwrote them (`fromEnhanced`).
* An MCU with the repository's own handler for colours takes hue, saturation and level for level, hue and
  saturation, and shows a colour nobody asked for: `ColourTracksLamp` fails in `LightSync_paced.cfg` with
  `HslLayout = "level first"`. `AllAgree` is about an MCU that takes the words as they are sent.
* A reply without a product id is followed by an erase, a write and a factory reset all the same, at
  every boot, for ever, since it leaves the 255 of a blank page; so is one whose number is 255 or may be
  read as 255. `ResetsStop` and `GetsItsInfo` hold for the other replies (`TellsNumber`).
* A `dp_len` of 65532 leads the loops of `data_handle` back to the same point, for ever. Nothing is claimed
  about the end of a frame whose lengths lie.
* A full event queue loses a timer, button or identify event for good: `CountIsTimed`, `ResetIsMeant` and
  `EffectGoesOn` leave out what that causes.
* A colour light at full brightness gets level 255 from `UpdateFromHardware`, whose 16-bit level wraps to
  257. The attribute write after it repairs that when the lamp is on; a switch that comes in between
  leaves it. So `LevelTracksLamp` is checked for colour lights only while changes take turns.
* An image whose size is a multiple of the packet's never gets a result, since only a short packet makes
  one (condition of `UpdateEnds`); an image below one packet does not start its check sum anew
  and fails after an update that was cut off (condition of `ResultIsRight`).
* After a poll that met the buttons being moved, a press may be called twice or for a neighbour, for
  that round and the next one, no longer: the exemption of `CallsAreMeant`, and a smaller one fails.
* Level 32 goes to the lamp and comes back as 31: `NoDrift` promises one step, not equality.
* A colour light at a brightness of 1 to 256 of 65535 is off for one test and on for another, and a
  switch at the wall then starts reports that undo each other for ever (`TooDark`).
* Dimming a lamp switches its `DeviceDimmer` on, whether or not the lamp is; the wall control is
  therefore assumed to dim only a lamp that is lit.
* With changes that race, the OnOff *attribute* may stay different from lamp and `DeviceDimmer`: a
  controller's write can come between `UpdateFromHardware` and the attribute write after it. Hence
  `LightSync_race` speaks of the `DeviceDimmer` and the lamp only.
* Resets may cut, for ever, between the erase and the write that follow another reply; the liveness
  of `Provisioning` assumes that in the end they do not (`ResetsDoNotCutIn`). And a failed
  `flash_read` at boot is ignored: the initialiser then passes for a written page (`misread`).
* A ring whose pointers are equal after a lap is not empty; the reader then waits for the next byte.

## 5. Bounds

Every bound is a constant. `RxRing`: 5 or 6 slots and 16 to 20 bytes, three laps, so that every
combination of wrapped and unwrapped pointers meets every reader position; `MaxBacklog` = `Size`
lets the interrupt lap the reader, `Size - 2` is the exact limit of `NothingLost`. `FrameRx`: up to
three pieces of seven kinds, a buffer of 24 bytes, one above the longest nested frame, `RxDepth`
3, so that all frames fit and `Delivered` is meaningful (a full queue is left to the proof of `InOrder`). `TxPath`: bytes of two values and a counter
that restarts after 2 show every wrap; data of 0 and 1 bytes put the check sum of one frame into the
data of the other; a queue of one entry meets full and empty. `LightSync`: three operations each way
paced, two and two racing, with levels at the ends and where rounding differs, hues of which
one is a level too, and two 16-bit hues (`EnhancedHues`), one of them with bytes of 255, which wrap when they are
scaled; a transmit queue of two is filled. `AppEvents`: room for three
events of seven kinds, enough for a press, a timer and an update to compete; no bound on steps.
`Provisioning`: replies with and without a product id and a number, the number 0 (which is not stored), 1 and
255 (which reads as blank); four queries or replies under way; four faults, among which resets asked for
elsewhere are counted (`MaxFaults`). `Buttons`: the three buttons of the build in the order of `InitButtons`
on two rows and two columns, the fourth key without a button, any keys held: every two buttons share a
row, a column or neither. `McuSdk`: the table of the code with all its 8 channels; frames of up to six
points, known, unknown and mistyped, and six switches, whose twelve answers pass the queue of ten (`QueueLen`); eleven frames whose lengths lie, one for each way
(`RawFrames`), before two different rests;
reports at the borders of their lengths; times at ends of months, leap days, 2000, 2100 and the
last day of 32 bits, in every order; images of 1, 2, 3 and 5 bytes in packets of 2 (`Packet`; below, equal to and
above one packet), three offers (`MaxOffers`), so that an update can be cut off twice, and two unanswered
requests (`MaxAsked`). These kinds of work share nothing but a queue that each frame finds empty, so a
behaviour does one of them (`Sessions`).

`CHECK_DEADLOCK FALSE` is set where the environment is bounded: when the bytes, operations or
queries are used up nothing is left to do.

## 6. Fairness

Weak fairness stands for code that runs again and again by itself: the reader of the ring, the parser
and the event loop (kernel timers re-post their events, the loop never ends), a started kernel timer,
`parking_message` (100 ms timer), both threads of `LightSync`, the query timer of provisioning, the
button thread (cooperative, with fixed sleeps), `InitButtons` in `main`, the loops of `data_handle`. Strong
fairness is used twice. In `FrameRx`, arrival of further bytes and `HandleUartCallback` share the
thread with the 10 ms event, each is enabled only between searches, and the event queue is first in,
first out. In `McuSdk`, the timer that the comment on `mcu_ota_fw_request` asks for, and an answer to a
request: both may have to wait for frames with data points, and not every answer is lost. `Provisioning` also assumes that the MCU answers and the line carries what is not lost.
Controllers, wall controls, buttons, faults and threads in the middle of a frame (`TxPath`, which has no
liveness property) have no fairness.

## 7. What is proved

For every value of the constants that the named assumptions allow:

* **RxRingProofs** (from `RxRingAssumption`; size at least 2): `RingInv` is inductive. `NothingLost`
  alone is not, since it does not say where the bytes lie. `RingInv` adds that the memory behind
  `queue_in` holds the newest bytes whatever `queue_out` is, where the pointers may be before and after
  the first wrap, and that what was handed out is older than everything ahead; the delicate case is
  the interrupt that laps a reader already committed to take a byte. From it follow `NoReplay`, and, with
  the promptness `MaxBacklog <= Size - 2`, `NothingLost`, `NextInLine` and that every step is a step or
  stutter of `ByteQueue`. All of them hold from null pointers too.
* **FrameRxProofs** (any set of streams of bytes, any buffer of at least a head): types, `BufferIsTail`,
  `NoFrameSkipped`, `NoByteDropped`, `InOrder`, `CutsDoNotMatter`. `NoByteDropped` says that the branch at 859-862 is dead code. The argument
  for `NoFrameSkipped` is that no two heads overlap within the two or three bytes of a jump, and that
  what the search sees in the buffer is what is in the stream. `InOrder` follows from the frames
  queued and handled being a subsequence of those recognised, in the order of their places.
  `CutsDoNotMatter` compares with a recursive search of the whole stream; it is shown by the least place where
  the two differ, for streams without a frame whose length field wraps to 0 (`NoEmptyFrame`: a length of
  65527 makes `rx_value_len` 0 and the check sum is read from behind the buffer).
* **TxPathProofs** (any threads, frames and rule of preemption): `FrameInv` is inductive. It says what
  each thread has already written of its frame, unless it was cut. A step of one thread finds the
  others idle or cuts them (`OthersCut`), so only its own part is to be shown (`OwnStep`); in particular
  the check sum lands behind its own data, and every head written leaves a length within the
  buffer. `MeantUnlessCut` and `TypeOK` follow. `SumInv` adds what `get_check_sum` has added up so far, for
  data of any length: `ValidUnlessCut`. `NumberInv` says which frame got which number, and who owes the
  counter its restart: `NewNumber`. It needs `NumberAssumption`, a counter that has more than one value
  between a restart and its limit and a limit that does not end in the byte of the first number;
  `seq_num_get` restarts a 16-bit counter at 0xfff0, which ends in 0xf0.
* **AppEventsProofs** (any queue length, any range of levels, any number of steps): `TypeOK`,
  `CountIsTimed`, `ResetIsMeant`, `StoppedIsDark`, `EffectGoesOn`, `LevelInRange`. `StoppedIsDark` needs
  that a stopped LED has no action left which a late update could continue; `LevelInRange` relates
  level and step counter, also where an interrupted effect left the counter behind.
* **ButtonsProofs** (any matrix, order of buttons and keys without one): `CallsAreMeant`, by `IInv`. Its
  parts say which columns are driven between two polls (`DrivenInv`: no other than that of the button
  polled last, unless the scan has just met a move), that a held key which its button does not remember
  is still owed a call (`OwedInv`), and that a move no poll has met copies what the buttons remember
  (`MovedInv`).
* **McuSdkProofs** (any images, packet size, offers): that every step of `McuSdk` is a step of `McuOta` or
  leaves the update alone, and `ImageInOrder` and `ResultIsRight`, by `OtaInv`. That the offset counts what
  was stored is not inductive alone: `AskedInside` says no request under way lies beyond its image's
  end, `SumIsPrefix` what the check sum is between two packets of an image that has a full one. And
  `DateIsRight`, for any times of day since 1970 (`TimesAssumption`: a day has 86400 seconds): the loops of
  `RTC_Get` over years and months are recursive functions of one record each. That every day lies in exactly one
  year, and every day of a year in one of its months, is shown by the least year or month that begins too late
  (`YearOfIsRight`, `MonthOfIsRight`), and the day count kept between calls is part of `ClockInv`. The
  month loop ends at December, so `mon_table` is never read behind its end.
  For the data points (from `SdkAssumption`: the values of the lamp, the parameters of the reports and the
  length of a frame fit the types that `driver_info`, `mcu_api.h` and the frame give them; in the frames
  of `PointFrames` a hue and a saturation have their four bytes, those of `RawFrames` are any bytes;
  at least seven bytes, of any value, lie behind a frame), `TypeOK`, `PointsAnswered` and `ReportsDecode`, by `SdkInv`. The lemmas go from the
  bytes up: a number is read from its one, two or four bytes as it was (`NumbersDecode`); a point is found
  where it lies between any bytes before and behind it (`PointParts`, `PointInData`); the 89 lines of
  `download_cmd` give each of the 11 points of 8 channels its own type and nothing else one
  (`TableKnows`, `RestartLine`, `NoLine`); so each handler says what its point is owed (`PointSays`).
  `SdkInv` then says that the offset of a loop is where one of the frame's points ends, and that the answers in the
  queue are the first `QueueLen` of what the points so far are owed. That the queue may cut them off
  after each point, and not once at the end, is `FirstOfConcat`. Of a frame of `RawFrames` it says only that
  the offset is 16 bits; while the loop goes on it is below the frame's length, so that what a step reads lies in
  the data or in the bytes behind it (`BufferReads`, `RawReads`).
* **LightSyncProofs**: `SwitchTracksLamp`, given room for one command and for every report that the operations
  can cause. `SwitchInv` says that for an on/off light the last report under way says what the lamp
  does (`LastReport`), and that a lamp that differs from its `DeviceDimmer` has something under way
  that will tell (`Noticed`); `Counted` shows that the receive queue never drops that report. And
  `TypeOK` for all types of light, by `TypeInv`: every conversion between 8 bits, 16 bits and
  thousandths stays in its range, in both queues, at both threads.
  `LevelTracksLamp` for the lights whose level is 8 bits, in every interleaving, by `LevelInv`: while
  nothing was dropped, the last command or report under way carries the level that both sides will have.
  (`dropped` records that a full queue dropped a command or a report.)
  `AllAgree` and `NoDrift` for every type of light while controller and wall take turns, by `TurnsInv`: an operation goes
  through a chain of phases (`NetSwitched`, `NetLevelled`, `LevelSent`, `NetColoured`, `WallSwitched`,
  `LevelReported`, `LevelStored`, `LevelCorrected`) back to `Settled`; each says what is in the queues,
  what each thread works on and which copies have the new value. `TakingTurns` names the values for which
  it holds: an MCU that reads the words of a colour as they are sent (`HslLayout`; with the other order
  the colour part fails), queues that hold one command and three reports (they hold ten), a dimmer's level of at
  least 2 and its brightness of at least 4 thousandths (level 1 is told as level 0, which
  `LightSync_lowest_level` shows), a colour light's brightness of at least 257 (below it one test says
  off and another on), and not one of the 253 16-bit levels that equal some step of 255 with its bytes exchanged:
  such a report may be taken for no news. `LightSync_paced` also runs a colour light at 200. The colour
  part of `AllAgree` is the same for every set of hues, saturations and 16-bit hues: an operation on the
  colour keeps what the callback has collected (`hsv`) and the attributes (`currentColour`) equal in the parts
  that no 16-bit hue has overwritten, and the lamp gets what was collected.
* **ProvisioningProofs** (any bounds): `TypeOK` and `InfoIsWhole`, by `InfoInv`: a page that reads as
  written is what the MCU reported, and so is what is about to be written. The replies may lack a
  product id or a number; one without an id can make a written page only of the initialiser that an
  earlier failed `flash_read` left in RAM.

The types of `Provisioning`, `AppEvents`, `TxPath`, `Buttons` and `LightSync`, and `NextInLine` and
`BufferIsTail`, are proved and no longer run.

Induction over data is done with the library's `WFMin`: a set of counterexamples has a least one
(`LeastNatural`), and a recursive function exists because its restrictions to finite parts do.

Only model-checked: all liveness (it needs fairness, and so `ENABLED`), which includes the fair part of
`ImplementsQueue`, and the colour light's part of `LevelTracksLamp` while controller and wall race.

## 8. What is not modelled

* Network state, `ChipEventHandler`, `AppCallbacks` and the flag `sIsCommissioningFailed`: which sessions fail is
  decided in the CHIP stack. The reset the flag leads to is in `Provisioning`, the answer to a state
  query is a frame of `TxPath`.
* The boot counter: compiled only with a configuration switch that is not set here, and with which
  `AppTask.cpp` would not compile. WS2812 strip and colour conversion: not in this build. The status LED:
  an output without state that anything reads. The sensor manager: not part of the lighting application.
* XY colour and colour temperature end in `SetInitiateAction`, which ignores them in this build. Colour
  changes at the wall do not reach the light state: `HandleHSL` takes only the level of a report.
* Of the MCU SDK: `data_handle` is not called here (the call, `mcu_api.cpp` 847, is commented out) and the
  SUPPORT_MCU switches are not set, so `McuSdk` models the files as they would be built for an MCU.
  `product_info_update`, called by nothing, sends arrays it never fills. `ota_fw_data_handle` is left to the
  product (with an `#error`) and external. The check sum over an image adds up `char`; bytes count
  as unsigned in `McuOta`.
* The copy of a frame longer than an `fl_data_t` (`mcu_api.cpp` 850, `system_define.cpp` 514): its effect is
  outside the language. It is listed as a hazard.
* RPC, logging, console I/O, Thread utilities: I/O and glue.
