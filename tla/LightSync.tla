------------------------------ MODULE LightSync ------------------------------
(***************************************************************************)
(* How the lamp is kept the same in three places: the Matter attributes a  *)
(* controller reads and writes, the DeviceDimmer object, and the external  *)
(* MCU that drives the lamp and reads its wall controls.                   *)
(*                                                                         *)
(* Two threads of the SoC work on it.  The CHIP thread writes an attribute *)
(* for a controller and runs MatterPostAttributeChangeCallback.  The       *)
(* application thread takes the MCU's reports out of queue_data_rx,        *)
(* updates the DeviceDimmer, writes attributes itself (which runs the same *)
(* callback, on its own stack) and sends queue_data_tx to the MCU.  They   *)
(* share everything and lock nothing, so they interleave wherever one      *)
(* reads what the other writes: a test, the assignment that follows it,    *)
(* the attribute write and the command to the MCU are steps of their own.  *)
(*                                                                         *)
(* Booleans are 0 and 1, as in the frames and in the attribute store.      *)
(***************************************************************************)
EXTENDS Integers, Sequences

CONSTANTS
  Lights,     \* the types of light to look at, out of LightTypes
  Levels,     \* type -> levels a controller may ask for, in 1..254
  Brights,    \* type -> brightness values the wall control may be set to
  Hues, Saturations,  \* what a controller may ask a colour light for,
  EnhancedHues,       \* and as 16-bit hues
  HslLayout,  \* which of the three words of a colour the MCU takes for the level
  TxDepth,    \* capacity of queue_data_tx
  RxDepth,    \* capacity of queue_data_rx
  NetOps,     \* bound on the controller's writes
  WallOps,    \* bound on the operations of the wall control
  Paced       \* do controller and wall wait until the last change has settled?

LightTypes == {"OnOff", "LevelControl", "ColorControl"}

uint16_t == {n \in Nat : n <= 65535}

FullBright(type) == IF type = "ColorControl" THEN 65535 ELSE 1000

ASSUME LightSyncAssumption ==
  /\ Lights \subseteq LightTypes
  /\ \A type \in Lights : /\ Levels[type] \subseteq 1 .. 254
                          /\ Brights[type] \subseteq 0 .. FullBright(type)
  /\ "OnOff" \in Lights => Brights["OnOff"] = {}  \* nothing to dim at the wall
  /\ Hues \subseteq 0 .. 254 /\ Saturations \subseteq 0 .. 254
  /\ EnhancedHues \subseteq uint16_t
  /\ HslLayout \in {"hue first", "level first"}
  /\ TxDepth \in Nat /\ RxDepth \in Nat
  /\ NetOps \in Nat /\ WallOps \in Nat
  /\ Paced \in BOOLEAN

VARIABLES
  onOff, currentLevel,          \* the attributes OnOff and CurrentLevel
  currentColour,                \* the attributes CurrentHue and CurrentSaturation
  hsv,                          \* the static in which the callback collects hue and saturation
  fromEnhanced,                 \* what of hsv was last set by a write of EnhancedCurrentHue
  mType,                        \* DeviceDimmer's type, from product_id[3] of the boot
  mState, mLevel, mColorLevel,  \* DeviceDimmer's state
  mColor,                       \* its hue and saturation
  tx, rx,                       \* queue_data_tx and queue_data_rx
  lampOn, lampBright,           \* the lamp, as the MCU drives it
  lampColor,                    \* its hue and saturation
  pc,                           \* thread -> what it does next
  job,                          \* thread -> the attribute write it is working on
  report,                       \* the report the application thread is working on
  asked,                        \* the level the controller asked for last, 0 if the wall has since
  ignored,                      \* has InitiateAction ignored the colour asked for last?
  dropped,                      \* has a full queue dropped a command or a report?
  netLeft, wallLeft             \* operations the environment may still start

colour     == <<currentColour, hsv, fromEnhanced>>
attributes == <<onOff, currentLevel, currentColour, hsv, fromEnhanced>>
dimmer     == <<mType, mState, mLevel, mColorLevel, mColor>>
lamp       == <<lampOn, lampBright, lampColor>>
threads    == <<pc, job, report>>
budget     == <<asked, ignored, dropped, netLeft, wallLeft>>
vars       == <<attributes, dimmer, tx, rx, lamp, threads, budget>>

Threads == {"chip", "app"}

-----------------------------------------------------------------------------
(***************************************************************************)
(* DeviceDimmer's values.                                                  *)
(***************************************************************************)
kState_On  == 0
kState_Off == 1

IsTurnedOn == IF mState = kState_On THEN 1 ELSE 0

\* The state after Set(aOn), where any non-zero argument converts to true.
StateAfterSet(aOn) == IF aOn # 0 THEN kState_On ELSE kState_Off

\* mColor.level after SetLevel(aLevel): a uint16_t, kept only by a colour light.
ColorLevelAfterSet(aLevel) ==
  IF mType = "ColorControl" THEN ((aLevel * 65535) \div 254) % 65536
                                ELSE mColorLevel

Switch(b)     == [dp |-> "switch", v |-> b]
Level(v)      == [dp |-> "level", v |-> v]
Colour(hs, v) == [dp |-> "colour", hs |-> hs, v |-> v]

NoJob == Switch(0)

\* k_msgq_put(..., K_NO_WAIT): a full queue drops the message and nobody is told.
Put(queue, depth, msg) == IF Len(queue) < depth THEN Append(queue, msg) ELSE queue

-----------------------------------------------------------------------------
Init ==
  /\ onOff = 0 /\ currentLevel = 0
  /\ hsv = [h |-> 0, s |-> 0] /\ mColor = hsv /\ lampColor = hsv
  /\ currentColour = hsv /\ fromEnhanced = {}
  /\ mType \in Lights
  /\ mState = kState_Off /\ mLevel = 0 /\ mColorLevel = 0
  /\ tx = <<>> /\ rx = <<>>
  /\ lampOn = 0 /\ lampBright = 0
  /\ pc = [t \in Threads |-> "idle"]
  /\ job = [t \in Threads |-> NoJob]
  /\ report = NoJob
  /\ asked = 0 /\ ignored = FALSE /\ dropped = FALSE
  /\ netLeft = NetOps /\ wallLeft = WallOps

\* Nothing is on its way between the three copies.
Quiet == tx = <<>> /\ rx = <<>> /\ \A t \in Threads : pc[t] = "idle"

-----------------------------------------------------------------------------
(***************************************************************************)
(* MatterPostAttributeChangeCallback, on the thread t that wrote job[t].   *)
(***************************************************************************)
\* DeviceDimmer::InitiateAction acts on a switch that changes mState, on a level that
\* differs from mLevel, which the callback passes on only while the lamp is on, and
\* on a colour whose hue byte differs from mLevel.  An on/off light has nothing to do
\* for a level.
Initiates(j) ==
  CASE j.dp = "switch" -> j.v # IsTurnedOn
    [] j.dp = "level"  -> IsTurnedOn = 1 /\ j.v # mLevel /\ mType # "OnOff"
    [] j.dp = "colour" -> mType = "ColorControl" /\ j.hs.h # mLevel

\* The level handler of a colour light may have written OnOff first.
AfterCallback(t) ==
  IF t = "app" /\ job[t].dp = "switch" /\ report.dp # "switch" THEN "level" ELSE "idle"

Decide(t) ==
  /\ pc[t] = "decide"
  /\ pc' = [pc EXCEPT ![t] = IF Initiates(job[t]) THEN "set" ELSE AfterCallback(t)]
  /\ ignored' = IF job[t].dp = "colour" THEN ~Initiates(job[t]) ELSE ignored
  /\ UNCHANGED <<attributes, dimmer, tx, rx, lamp, job, report, asked, dropped, netLeft, wallLeft>>

\* SetColor's hue and saturation for the bytes of the attributes: uint16_t, in which
\* the byte 255 wraps.
ColorWord(byte) == ((byte * 65535) \div 254) % 65536
ColorOf(hs) == [h |-> ColorWord(hs.h), s |-> ColorWord(hs.s)]

SetDevice(t) ==
  /\ pc[t] = "set"
  /\ \/ /\ job[t].dp = "switch"
        /\ mState' = StateAfterSet(job[t].v)
        /\ UNCHANGED <<mLevel, mColorLevel, mColor>>
     \/ /\ job[t].dp = "level"
        /\ mLevel' = job[t].v
        /\ mColorLevel' = ColorLevelAfterSet(job[t].v)
        /\ UNCHANGED <<mState, mColor>>
     \/ /\ job[t].dp = "colour"
        /\ mColor' = ColorOf(job[t].hs)
        /\ UNCHANGED <<mState, mLevel, mColorLevel>>
  /\ pc' = [pc EXCEPT ![t] = "send"]
  /\ UNCHANGED <<mType, attributes, tx, rx, lamp, job, report, budget>>

\* Mutant: the level scaled by 256.
CommandBy256(j) ==
  CASE j.dp = "switch" -> Switch(IsTurnedOn)
    [] j.dp = "colour" -> Colour(mColor, mColorLevel)
    [] OTHER           -> Level((mLevel * 1000) \div 256)

\* The frame carries what the DeviceDimmer holds by now, not what was set.
Command(j) ==
  CASE j.dp = "switch" -> Switch(IsTurnedOn)
    [] j.dp = "colour" -> Colour(mColor, mColorLevel)
    [] j.dp = "level"  -> Level(IF mType = "ColorControl" THEN mColorLevel
                                                          ELSE (mLevel * 1000) \div 254)

SendToMcu(t) ==
  /\ pc[t] = "send"
  /\ tx' = Put(tx, TxDepth, Command(job[t]))
  /\ dropped' = (dropped \/ Len(tx) >= TxDepth)
  /\ pc' = [pc EXCEPT ![t] = AfterCallback(t)]
  /\ UNCHANGED <<attributes, dimmer, rx, lamp, job, report, asked, ignored, netLeft, wallLeft>>

Callback(t) == Decide(t) \/ SetDevice(t) \/ SendToMcu(t)

-----------------------------------------------------------------------------
(***************************************************************************)
(* The application thread: HandleUartCallback and the handlers below it.   *)
(***************************************************************************)
HandleUartCallback ==
  /\ pc["app"] = "idle"
  /\ rx # <<>>
  /\ rx' = Tail(rx)
  /\ report' = Head(rx)
  /\ pc' = [pc EXCEPT !["app"] = "compare"]
  /\ UNCHANGED <<attributes, dimmer, tx, lamp, job, budget>>

\* HandleBrightValue: the level in 0..254 for a brightness in thousandths, in a
\* uint8_t.
LevelOf(bright) == LET l == ((bright * 255) \div 1000) % 256
                   IN  IF l >= 255 THEN 254 ELSE l

\* HandleHSL takes no more than the level out of a colour light's report and treats it
\* as HandleBrightValue does.  A colour light's level is a uint16_t, which
\* UpdateFromHardware reads with its two bytes exchanged; the attribute is computed
\* from the level as it came.
Swapped(w) == (w % 256) * 256 + w \div 256
HsvV(w)    == LET v == (w * 255) \div 65535 IN IF v >= 255 THEN 254 ELSE v

HardwareLevel  == IF mType = "ColorControl" THEN Swapped(report.v) ELSE LevelOf(report.v)
AttributeLevel == IF mType = "ColorControl" THEN HsvV(report.v) ELSE LevelOf(report.v)

\* Mutants: only switching on is news; the level is compared with
\* the attribute and not with the device; a colour level only with its bytes exchanged.
OnIsNews    == report.dp = "switch" /\ report.v = 1 /\ IsTurnedOn = 0
StaleNews   == IF report.dp = "switch" THEN report.v # IsTurnedOn
                                       ELSE AttributeLevel # currentLevel
SwappedNews == IF report.dp = "switch" THEN report.v # IsTurnedOn
                                       ELSE HardwareLevel # mColorLevel

\* A report of what the device holds already goes no further, and neither does a
\* brightness for an on/off light.
IsNews ==
  IF report.dp = "switch" THEN report.v # IsTurnedOn
  ELSE CASE mType = "LevelControl" -> report.dp = "level" /\ HardwareLevel # mLevel
         [] mType = "ColorControl" -> mColorLevel \notin {report.v, HardwareLevel}
         [] OTHER                      -> FALSE

Compare ==
  /\ pc["app"] = "compare"
  /\ pc' = [pc EXCEPT !["app"] = IF IsNews THEN "update" ELSE "idle"]
  /\ UNCHANGED <<attributes, dimmer, tx, rx, lamp, job, report, budget>>

\* UpdateFromHardware.  For a switch it passes the enumerators kState_On (0) and
\* kState_Off (1) where Set expects true and false.  A level is stored first; the
\* device is then switched off with level 0 and on with any other.
UpdateSwitch ==
  /\ pc["app"] = "update" /\ report.dp = "switch"
  /\ mState' = StateAfterSet(IF report.v = 1 THEN kState_On ELSE kState_Off)
  /\ pc' = [pc EXCEPT !["app"] = "write"]
  /\ UNCHANGED <<mType, attributes, mLevel, mColorLevel, mColor, tx, rx, lamp, job, report, budget>>

UpdateLevel ==
  /\ pc["app"] = "update" /\ report.dp # "switch"
  /\ mLevel' = HardwareLevel % 256
  /\ mColorLevel' = ColorLevelAfterSet(HardwareLevel % 256)
  /\ pc' = [pc EXCEPT !["app"] = "turn"]
  /\ UNCHANGED <<mType, attributes, mState, mColor, tx, rx, lamp, job, report, budget>>

TurnWithLevel ==
  /\ pc["app"] = "turn"
  /\ mState' = StateAfterSet(HardwareLevel)
  /\ pc' = [pc EXCEPT !["app"] = "write"]
  /\ UNCHANGED <<mType, attributes, mLevel, mColorLevel, mColor, tx, rx, lamp, job, report, budget>>

UpdateFromHardware == UpdateSwitch \/ UpdateLevel \/ TurnWithLevel

\* The attribute store: it keeps the value and calls the callback on the thread
\* that writes, whether or not the value is new.
SetAttribute(t, j) ==
  /\ \/ j.dp = "switch" /\ onOff' = j.v /\ UNCHANGED <<currentLevel, colour>>
     \/ j.dp = "level" /\ currentLevel' = j.v /\ UNCHANGED <<onOff, colour>>
     \/ j.dp = "colour" /\ hsv' = j.hs /\ UNCHANGED <<onOff, currentLevel>>
  /\ job' = [job EXCEPT ![t] = j]
  /\ pc' = [pc EXCEPT ![t] = "decide"]
  /\ UNCHANGED <<dimmer, tx, rx, lamp, report>>

\* A colour light with level 0 that is on is switched off before the level is set.
SwitchesOffFirst == mType = "ColorControl" /\ AttributeLevel = 0 /\ IsTurnedOn = 1

WriteAttribute ==
  \/ /\ pc["app"] = "write"
     /\ SetAttribute("app", IF report.dp = "switch"  THEN report
                            ELSE IF SwitchesOffFirst THEN Switch(0)
                            ELSE Level(AttributeLevel))
     /\ UNCHANGED budget
  \/ /\ pc["app"] = "level"
     /\ SetAttribute("app", Level(AttributeLevel))
     /\ UNCHANGED budget

-----------------------------------------------------------------------------
(***************************************************************************)
(* The MCU, which is not in this repository.  It obeys a command and, as    *)
(* the SDK's handlers in protocol_define.cpp do, reports the data point     *)
(* after processing it, and a lamp that has a brightness reports that too   *)
(* when it is switched on.  parking_message hands it one frame at a time.   *)
(***************************************************************************)
TellsLevel(cmd) == cmd = Switch(1) /\ mType # "OnOff"

\* A colour is three words.  mcu_dp_hsl_value_update sends hue, saturation and level,
\* and HandleHSL reads the level of a report from the third.  An MCU with the SDK's
\* handler for strings takes the first word for the level and the others for hue and
\* saturation; it reports them in its own order, which makes the words sent.
Heard(cmd) ==
  IF cmd.dp = "colour" /\ HslLayout = "level first"
  THEN Colour([h |-> cmd.hs.s, s |-> cmd.v], cmd.hs.h)
  ELSE cmd

Drive(cmd) ==
  /\ lampOn' = IF cmd.dp = "switch" THEN cmd.v ELSE lampOn
  /\ lampBright' = IF cmd.dp = "switch" THEN lampBright ELSE Heard(cmd).v
  /\ lampColor' = IF cmd.dp = "colour" THEN Heard(cmd).hs ELSE lampColor
  /\ rx' = IF TellsLevel(cmd)
             THEN Put(Put(rx, RxDepth, cmd), RxDepth, Level(lampBright))
             ELSE Put(rx, RxDepth, cmd)
  /\ dropped' = (dropped \/ Len(rx) + (IF TellsLevel(cmd) THEN 2 ELSE 1) > RxDepth)

parking_message ==
  /\ tx # <<>>
  /\ tx' = Tail(tx)
  /\ Drive(Head(tx))
  /\ UNCHANGED <<attributes, dimmer, threads, asked, ignored, netLeft, wallLeft>>

(***************************************************************************)
(* The environment.                                                        *)
(***************************************************************************)
Wall(cmd) ==
  /\ wallLeft > 0
  /\ Paced => Quiet
  /\ Drive(cmd)
  /\ wallLeft' = wallLeft - 1
  /\ asked' = IF cmd.dp = "level" THEN 0 ELSE asked
  /\ UNCHANGED <<attributes, dimmer, tx, threads, ignored, netLeft>>

WallSwitch == Wall(Switch(1 - lampOn))
\* The wall control sets the brightness of a lamp that is lit.
WallDim    == lampOn = 1 /\ \E v \in Brights[mType] \ {lampBright} : Wall(Level(v))

Net(j) ==
  /\ netLeft > 0
  /\ Paced => Quiet
  /\ pc["chip"] = "idle"
  /\ SetAttribute("chip", j)
  /\ netLeft' = netLeft - 1
  /\ asked' = IF j.dp = "level" THEN j.v ELSE asked
  /\ UNCHANGED <<ignored, dropped, wallLeft>>

\* The On/Off server writes the attribute only when the command changes it.
NetSwitch == Net(Switch(1 - onOff))
\* The level server writes a new level only while the light is on.
NetLevel  == onOff = 1 /\ \E l \in Levels[mType] \ {currentLevel} : Net(Level(l))
\* What the callback makes of EnhancedCurrentHue: its high byte becomes the hue and
\* its low byte the saturation.
Split(e) == [h |-> e \div 256, s |-> e % 256]

\* The colour server writes its attributes one by one, in any state, the values they
\* have too.
NetColour ==
  /\ mType = "ColorControl"
  /\ \/ \E h \in Hues :
          /\ Net(Colour([hsv EXCEPT !.h = h], 0))
          /\ currentColour' = [currentColour EXCEPT !.h = h]
          /\ fromEnhanced' = fromEnhanced \ {"h"}
     \/ \E s \in Saturations :
          /\ Net(Colour([hsv EXCEPT !.s = s], 0))
          /\ currentColour' = [currentColour EXCEPT !.s = s]
          /\ fromEnhanced' = fromEnhanced \ {"s"}
     \/ \E e \in EnhancedHues :
          /\ Net(Colour(Split(e), 0))
          /\ fromEnhanced' = {"h", "s"}
          /\ UNCHANGED currentColour

-----------------------------------------------------------------------------
App  == HandleUartCallback \/ Compare \/ UpdateFromHardware \/ WriteAttribute \/ Callback("app")
Chip == Callback("chip")

Next == App \/ Chip \/ parking_message \/ WallSwitch \/ WallDim
          \/ NetSwitch \/ NetLevel \/ NetColour

Spec == Init /\ [][Next]_vars

\* Both threads run whenever they have something to do, and the 100 ms timer keeps
\* feeding frames to the MCU.  Nobody has to touch the lamp.
FairSpec == Spec /\ WF_vars(App) /\ WF_vars(Chip) /\ WF_vars(parking_message)

-----------------------------------------------------------------------------
(***************************************************************************)
(* Properties.  They speak of the moments when nothing is under way, which *)
(* is when a reader or a user looks; FairSpec says such moments recur.     *)
(***************************************************************************)
TypeOK ==
  /\ onOff \in 0 .. 1 /\ currentLevel \in 0 .. 254
  /\ mType \in Lights /\ mState \in {kState_On, kState_Off} /\ mLevel \in 0 .. 255
  /\ mColorLevel \in uint16_t
  /\ lampOn \in 0 .. 1 /\ lampBright \in 0 .. FullBright(mType)
  /\ \A q \in {tx, rx} : \A i \in DOMAIN q : q[i].dp \in {"switch", "level", "colour"}
  /\ Len(tx) <= TxDepth /\ Len(rx) <= RxDepth
  /\ pc["chip"] \in {"idle", "decide", "set", "send"}
  /\ pc["app"] \in {"idle", "compare", "update", "turn", "write", "level",
                    "decide", "set", "send"}
  /\ {ignored, dropped} \subseteq BOOLEAN
  /\ fromEnhanced \subseteq {"h", "s"}
  /\ asked \in Levels[mType] \cup {0}
  /\ netLeft \in 0 .. NetOps /\ wallLeft \in 0 .. WallOps

\* DeviceDimmer's state is the lamp's, whichever way InitiateAction and
\* UpdateFromHardware interleave on the two threads, and even when a command is
\* dropped: its report is missing, and the next one repairs the difference.  Only
\* a light without levels has this in every interleaving.
StateTracksLamp == Quiet => lampOn = IsTurnedOn

SwitchTracksLamp == mType = "OnOff" => StateTracksLamp

\* What a controller reads from OnOff is the state of the lamp.
OnOffTracksLamp == Quiet => onOff = lampOn

\* Unless a message is dropped, a dimmer's level is the one HandleBrightValue computes
\* for the lamp's brightness, in every interleaving.  A colour light's 16-bit level,
\* which is rebuilt from 8 bits of it, is within one of 255 steps while controller and
\* wall take turns; when they do not, 255 may stay, whose 16-bit level wraps to 257.
LevelTracksLamp ==
  Quiet /\ ~dropped =>
    CASE mType = "LevelControl" -> mLevel = LevelOf(lampBright)
      [] mType = "ColorControl" -> \/ mColorLevel - lampBright \in 0 .. 257
                                   \/ lampBright - mColorLevel \in 0 .. 257
      [] OTHER                  -> TRUE

\* What a controller reads from CurrentLevel is DeviceDimmer's level.
LevelAgrees == Quiet => currentLevel = mLevel

\* The lamp has the colour that the callback made of the last writes, and, in hue and
\* saturation apart, the one that a controller reads from CurrentHue and
\* CurrentSaturation.  Left out are a change that InitiateAction took for one of the
\* level (its hue byte is mLevel) and ignored, and for the second part what a write of
\* EnhancedCurrentHue left, which overwrites the saturation too.
ColourTracksLamp ==
  Quiet /\ ~dropped /\ ~ignored /\ mType = "ColorControl" =>
    /\ lampColor = ColorOf(hsv)
    /\ \A c \in {"h", "s"} \ fromEnhanced : lampColor[c] = ColorWord(currentColour[c])

\* What holds while controller and wall take turns and the MCU reads a colour in the
\* order in which it is sent: once things settle, the lamp, the DeviceDimmer and the
\* attributes agree, whatever the type of the light.
AllAgree ==
  /\ StateTracksLamp /\ OnOffTracksLamp
  /\ LevelTracksLamp /\ LevelAgrees
  /\ ColourTracksLamp

\* The echo of a level the controller asked for moves CurrentLevel by at most one
\* step, once, however often it is rounded on its way to the lamp and back.
NoDrift == Quiet /\ asked # 0 => currentLevel \in {asked - 1, asked}

\* SoC and MCU stop answering each other.  A colour light below one step of 255 is
\* left out: for it one test says off and another on, and a switch at the wall
\* starts reports that undo each other for ever.
TooDark == mType = "ColorControl" /\ lampBright \in 1 .. 256
Settles == []<>(Quiet \/ TooDark)
=============================================================================
