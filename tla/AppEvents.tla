----------------------------- MODULE AppEvents -----------------------------
(***************************************************************************)
(* The event loop of the application thread (AppTaskCommon.cpp) with the   *)
(* two parts that live on it alone: the factory-reset button and the       *)
(* identify LED (PWMDevice.cpp).                                           *)
(*                                                                         *)
(* Buttons, kernel timers and the Matter server post events into           *)
(* sAppEventQueue from their own contexts; PostEvent drops an event when   *)
(* the queue is full.  The loop takes one event at a time and runs its     *)
(* handler.  A handler starts or stops a timer only as its first or last   *)
(* statement, so a timer that expires during a handler might as well have  *)
(* expired before or after it: a handler is one step.                      *)
(*                                                                         *)
(* Time is abstract: a running timer may expire at any moment.             *)
(***************************************************************************)
EXTENDS Integers, Sequences

CONSTANTS
  kAppEventQueueSize,  \* 10 in the build
  kDefaultMaxLevel,    \* brightest level of the LED, 254 in the build
  kBreatheSteps        \* steps of a breathe cycle, 1000 ms / 10 ms in the build

ASSUME AppEventsAssumption ==
  /\ kAppEventQueueSize \in Nat \ {0}
  /\ kBreatheSteps \in Nat \ {0}
  /\ kDefaultMaxLevel \in kBreatheSteps .. 255

VARIABLES
  sAppEventQueue,    \* what waits for the loop
  lost,              \* the timers' events that PostEvent has dropped
  sFactoryResetCntr, \* button presses counted
  resetTimer,        \* does sFactoryResetTimer run?
  resetScheduled,    \* has ScheduleFactoryReset been called?
  mPwmIdentifyLed,   \* the PWMDevice
  mPwmLedTimer,      \* does its timer run?
  effect             \* the effect whose event was handled last

reset == <<sFactoryResetCntr, resetTimer, resetScheduled>>
led   == <<mPwmIdentifyLed, mPwmLedTimer, effect>>
vars  == <<sAppEventQueue, lost, reset, led>>

-----------------------------------------------------------------------------
kFactoryResetTriggerCntr == 3

\* The periodic timers and the other buttons post events that do nothing here but
\* take up room.
Effects == {"blink", "breathe", "stop"}
TimerEvents == {"timer", "update"}
Kinds == Effects \cup TimerEvents \cup {"press", "other"}

kDefaultMinLevel == 0

-----------------------------------------------------------------------------
(***************************************************************************)
(* PWMDevice, as functions of its state.                                   *)
(***************************************************************************)
Opposite(type) == IF type = "Rising" THEN "Falling" ELSE "Rising"

\* All but mState and mBreatheStepCntr is reset.
ClearAction(d) ==
  [on |-> d.on, cntr |-> d.cntr, level |-> kDefaultMaxLevel, type |-> "Invalid",
   both |-> FALSE, stepLevel |-> 0, stepNumb |-> 0, blink |-> FALSE]

\* The two blink times are set together and only tested for being set.
InitiateBlinkAction(d) == [ClearAction(d) EXCEPT !.blink = TRUE, !.on = ~d.on]

\* kBreatheType_Both, the only type in use: down from the top if the LED is on, up
\* from the bottom if it is off.
InitiateBreatheAction(d) ==
  [ClearAction(d) EXCEPT
     !.stepNumb  = kBreatheSteps,
     !.stepLevel = (kDefaultMaxLevel - kDefaultMinLevel) \div kBreatheSteps,
     !.both      = TRUE,
     !.type      = IF d.on THEN "Falling" ELSE "Rising",
     !.level     = IF d.on THEN kDefaultMaxLevel ELSE kDefaultMinLevel,
     !.on        = TRUE]

StopAction(d) == [ClearAction(d) EXCEPT !.on = FALSE]

Breathing(d) == d.type # "Invalid" /\ d.stepLevel # 0 /\ d.stepNumb # 0

\* Mutant of NextStep: the end of the ramp noticed one step late.
NextStepLate(d) ==
  IF d.cntr > d.stepNumb
    THEN [d EXCEPT !.cntr = 0, !.type = IF d.both THEN Opposite(@) ELSE @]
    ELSE [d EXCEPT !.cntr = @ + 1]

\* The counter of the current ramp; at its end it starts again, the other way.
NextStep(d) ==
  IF d.cntr = d.stepNumb
    THEN [d EXCEPT !.cntr = 0, !.type = IF d.both THEN Opposite(@) ELSE @]
    ELSE [d EXCEPT !.cntr = @ + 1]

\* mLevel is a uint8_t.
Ramp(d) ==
  LET rising == d.type = "Rising"
      first  == IF rising THEN kDefaultMinLevel ELSE kDefaultMaxLevel
      final  == IF rising THEN kDefaultMaxLevel ELSE kDefaultMinLevel
      next   == IF rising THEN d.level + d.stepLevel ELSE d.level - d.stepLevel
  IN  [d EXCEPT !.on = TRUE,
                !.level = CASE d.cntr = d.stepNumb -> final
                            [] d.cntr # d.stepNumb /\ d.cntr = 0 -> first
                            [] OTHER -> next % 256]

\* Mutant of HasAction: the timer restarted for breathing only.
OnlyBreathing(d) == Breathing(d)

\* Is there an action to go on with?  If not, UpdateAction only logs an error.
HasAction(d) == Breathing(d) \/ d.blink

\* Mutant of UpdateAction: whatever does not breathe blinks.
BlinksAnyway(d) == IF Breathing(d) THEN Ramp(NextStep(d)) ELSE [d EXCEPT !.on = ~@]

UpdateAction(d) ==
  CASE Breathing(d)               -> Ramp(NextStep(d))
    [] ~Breathing(d) /\ d.blink   -> [d EXCEPT !.on = ~@]
    [] OTHER                      -> d

-----------------------------------------------------------------------------
Init ==
  /\ sAppEventQueue = <<>> /\ lost = {}
  /\ sFactoryResetCntr = 0 /\ resetTimer = FALSE /\ resetScheduled = FALSE
  /\ mPwmIdentifyLed = [on |-> FALSE, level |-> kDefaultMaxLevel, type |-> "Invalid",
                        both |-> FALSE, stepLevel |-> 0, stepNumb |-> 0, cntr |-> 0,
                        blink |-> FALSE]
  /\ mPwmLedTimer = FALSE
  /\ effect = "stop"

\* Mutant of PostEvent: a queue without its limit.
PostAlways(kind) == sAppEventQueue' = Append(sAppEventQueue, kind) /\ UNCHANGED lost

PostEvent(kind) ==
  IF Len(sAppEventQueue) < kAppEventQueueSize
    THEN sAppEventQueue' = Append(sAppEventQueue, kind) /\ UNCHANGED lost
    ELSE lost' = lost \cup ({kind} \cap TimerEvents) /\ UNCHANGED sAppEventQueue

(***************************************************************************)
(* What posts: the button thread, the Matter server, the timers.           *)
(***************************************************************************)
FactoryResetButtonEventHandler == PostEvent("press") /\ UNCHANGED <<reset, led>>

IdentifyEffectHandler == \E e \in Effects : PostEvent(e) /\ UNCHANGED <<reset, led>>

OtherTimers == PostEvent("other") /\ UNCHANGED <<reset, led>>

FactoryResetTimerTimeoutCallback ==
  /\ resetTimer
  /\ resetTimer' = FALSE
  /\ PostEvent("timer")
  /\ UNCHANGED <<sFactoryResetCntr, resetScheduled, led>>

PwmLedTimerHandler ==
  /\ mPwmLedTimer
  /\ mPwmLedTimer' = FALSE
  /\ PostEvent("update")
  /\ UNCHANGED <<reset, mPwmIdentifyLed, effect>>

(***************************************************************************)
(* The loop: GetEvent, then DispatchEvent.                                 *)
(***************************************************************************)
GetEvent(kind) ==
  /\ sAppEventQueue # <<>> /\ Head(sAppEventQueue) = kind
  /\ sAppEventQueue' = Tail(sAppEventQueue)
  /\ UNCHANGED lost

\* Mutants of FactoryResetHandler: the counter is not reset with the timer; the timer
\* is started for the second press.
CountGoesOn ==
  /\ GetEvent("press")
  /\ sFactoryResetCntr' = (sFactoryResetCntr + 1) % 5
  /\ resetTimer' = ((resetTimer \/ sFactoryResetCntr = 0)
                      /\ sFactoryResetCntr + 1 # kFactoryResetTriggerCntr)
  /\ resetScheduled' = (resetScheduled \/ sFactoryResetCntr + 1 = kFactoryResetTriggerCntr)
  /\ UNCHANGED led

TimerForSecond ==
  /\ GetEvent("press")
  /\ sFactoryResetCntr' = (sFactoryResetCntr + 1) % kFactoryResetTriggerCntr
  /\ resetTimer' = ((resetTimer \/ sFactoryResetCntr = 1)
                      /\ sFactoryResetCntr + 1 # kFactoryResetTriggerCntr)
  /\ resetScheduled' = (resetScheduled \/ sFactoryResetCntr + 1 = kFactoryResetTriggerCntr)
  /\ UNCHANGED led

\* The third press within the window resets; the first opens it.
FactoryResetHandler ==
  /\ GetEvent("press")
  /\ sFactoryResetCntr' = (sFactoryResetCntr + 1) % kFactoryResetTriggerCntr
  /\ resetTimer' = ((resetTimer \/ sFactoryResetCntr = 0)
                      /\ sFactoryResetCntr + 1 # kFactoryResetTriggerCntr)
  /\ resetScheduled' = (resetScheduled \/ sFactoryResetCntr + 1 = kFactoryResetTriggerCntr)
  /\ UNCHANGED led

\* Mutant of FactoryResetTimerEventHandler: it clears nothing.
ClearsNothing == GetEvent("timer") /\ UNCHANGED <<reset, led>>

FactoryResetTimerEventHandler ==
  /\ GetEvent("timer")
  /\ sFactoryResetCntr' = 0
  /\ UNCHANGED <<resetTimer, resetScheduled, led>>

\* Mutant of StartIdentify: an effect relies on the timer of the one before.
StartWithoutTimer(e) ==
  /\ GetEvent(e)
  /\ mPwmIdentifyLed' = CASE e = "blink"   -> InitiateBlinkAction(mPwmIdentifyLed)
                          [] e = "breathe" -> InitiateBreatheAction(mPwmIdentifyLed)
                          [] e = "stop"    -> StopAction(mPwmIdentifyLed)
  /\ mPwmLedTimer' = (e # "stop" /\ ~mPwmLedTimer)
  /\ effect' = e
  /\ UNCHANGED reset

\* Every effect stops the timer of the one before; all but "stop" start it again.
StartIdentify(e) ==
  /\ GetEvent(e)
  /\ mPwmIdentifyLed' = CASE e = "blink"   -> InitiateBlinkAction(mPwmIdentifyLed)
                          [] e = "breathe" -> InitiateBreatheAction(mPwmIdentifyLed)
                          [] e = "stop"    -> StopAction(mPwmIdentifyLed)
  /\ mPwmLedTimer' = (e # "stop")
  /\ effect' = e
  /\ UNCHANGED reset

UpdateIdentifyStateEventHandler ==
  /\ GetEvent("update")
  /\ mPwmIdentifyLed' = UpdateAction(mPwmIdentifyLed)
  /\ mPwmLedTimer' = (mPwmLedTimer \/ HasAction(mPwmIdentifyLed))
  /\ UNCHANGED <<reset, effect>>

OtherEvent == GetEvent("other") /\ UNCHANGED <<reset, led>>

DispatchEvent ==
  \/ FactoryResetHandler
  \/ FactoryResetTimerEventHandler
  \/ \E e \in Effects : StartIdentify(e)
  \/ UpdateIdentifyStateEventHandler
  \/ OtherEvent

Next ==
  \/ FactoryResetButtonEventHandler
  \/ IdentifyEffectHandler
  \/ OtherTimers
  \/ FactoryResetTimerTimeoutCallback
  \/ PwmLedTimerHandler
  \/ DispatchEvent

Spec == Init /\ [][Next]_vars

\* The loop runs for ever, and a timer that is not stopped expires.
FairSpec ==
  /\ Spec
  /\ WF_vars(DispatchEvent)
  /\ WF_vars(FactoryResetTimerTimeoutCallback)
  /\ WF_vars(PwmLedTimerHandler)

-----------------------------------------------------------------------------
(***************************************************************************)
(* Properties.                                                             *)
(***************************************************************************)
Waiting(kind) == \E i \in DOMAIN sAppEventQueue : sAppEventQueue[i] = kind

TypeOK ==
  /\ sAppEventQueue \in Seq(Kinds) /\ Len(sAppEventQueue) <= kAppEventQueueSize
  /\ lost \subseteq TimerEvents
  /\ sFactoryResetCntr \in 0 .. kFactoryResetTriggerCntr - 1
  /\ {resetTimer, resetScheduled, mPwmLedTimer} \subseteq BOOLEAN
  /\ effect \in Effects
  /\ mPwmIdentifyLed \in [on : BOOLEAN, level : 0 .. 255, type : {"Invalid", "Rising", "Falling"},
                          both : BOOLEAN, stepLevel : 0 .. 255, stepNumb : {0, kBreatheSteps},
                          cntr : 0 .. kBreatheSteps, blink : BOOLEAN]

\* Presses that have been counted do not count for ever: unless PostEvent dropped
\* the event that clears them, the timer runs or its event is on the way
\* (FactoryResetHandler starts the timer for the first press only, 639).
CountIsTimed ==
  sFactoryResetCntr # 0 /\ "timer" \notin lost => resetTimer \/ Waiting("timer")

\* A factory reset is meant: unless PostEvent dropped that event, the third press is
\* handled before the expiry of the timer that the first one started (637-654).
ResetIsMeant ==
  [][resetScheduled' /\ ~resetScheduled /\ "timer" \notin lost
       => resetTimer \/ Waiting("timer")]_vars

\* After the stop effect the LED stays dark until another effect starts, although an
\* update of the effect before it may still be in the queue.
StoppedIsDark == effect = "stop" => ~mPwmIdentifyLed.on

\* An effect goes on until another one is asked for: unless PostEvent dropped an
\* update, its timer runs or its update is on the way, whatever effects are
\* started in whatever state of the previous one.
EffectGoesOn ==
  effect # "stop" /\ "update" \notin lost => mPwmLedTimer \/ Waiting("update")

\* The level stays within the LED's range although an interrupted breathe effect
\* leaves its step counter behind and the level is a uint8_t (PWMDevice.cpp 209-253).
LevelInRange == mPwmIdentifyLed.level \in kDefaultMinLevel .. kDefaultMaxLevel

\* Counted presses are forgotten, or lead to a reset, in the end.
CountEnds == sFactoryResetCntr # 0 ~> sFactoryResetCntr = 0 \/ "timer" \in lost

\* A blink effect keeps switching the LED on and off.
Blinks ==
  \A b \in BOOLEAN :
    effect = "blink" /\ mPwmIdentifyLed.on = b
      ~> mPwmIdentifyLed.on # b \/ effect # "blink" \/ "update" \in lost
=============================================================================
