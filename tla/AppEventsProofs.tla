-------------------------- MODULE AppEventsProofs --------------------------
(***************************************************************************)
(* Proofs about AppEvents, for every length of the queue, every range of   *)
(* levels and every number of breathe steps.                               *)
(*                                                                         *)
(* The queue matters only through which events are in it: PostEvent adds   *)
(* one or drops it, GetEvent removes its head.  These are the lemmas; the  *)
(* invariants then follow handler by handler.                              *)
(***************************************************************************)
EXTENDS AppEvents, TLAPS

-----------------------------------------------------------------------------
(***************************************************************************)
(* The queue.                                                              *)
(***************************************************************************)
QueueOK == sAppEventQueue \in Seq(Kinds) /\ Len(sAppEventQueue) <= kAppEventQueueSize

\* PostEvent keeps what waits, and what is posted waits unless it is lost.
LEMMA PostKeeps ==
  ASSUME QueueOK, NEW kind \in Kinds, PostEvent(kind)
  PROVE  /\ QueueOK'
         /\ lost \subseteq lost'
         /\ \A k \in Kinds : Waiting(k) => Waiting(k)'
         /\ kind \in TimerEvents => Waiting(kind)' \/ kind \in lost'
         /\ lost' \subseteq lost \cup TimerEvents
<1> USE DEF QueueOK
<1>1. CASE Len(sAppEventQueue) < kAppEventQueueSize
  <2>1. sAppEventQueue' = Append(sAppEventQueue, kind) /\ lost' = lost
    BY <1>1 DEF PostEvent
  <2>2. Len(sAppEventQueue') = Len(sAppEventQueue) + 1
    BY <2>1
  <2>3. QueueOK'
    BY <1>1, <2>1, <2>2, AppEventsAssumption
  <2>4. \A i \in DOMAIN sAppEventQueue :
           i \in DOMAIN sAppEventQueue' /\ sAppEventQueue'[i] = sAppEventQueue[i]
    BY <2>1
  <2>5. Waiting(kind)'
    <3>1. Len(sAppEventQueue') \in DOMAIN sAppEventQueue'
      BY <2>2, <2>3
    <3>2. sAppEventQueue'[Len(sAppEventQueue')] = kind
      BY <2>1, <2>2
    <3> QED
      BY <3>1, <3>2 DEF Waiting
  <2> QED
    BY <2>1, <2>3, <2>4, <2>5 DEF Waiting
<1>2. CASE ~(Len(sAppEventQueue) < kAppEventQueueSize)
  <2>1. sAppEventQueue' = sAppEventQueue /\ lost' = lost \cup ({kind} \cap TimerEvents)
    BY <1>2 DEF PostEvent
  <2> QED
    BY <2>1 DEF Waiting
<1> QED
  BY <1>1, <1>2

\* Taking an event leaves the others.
LEMMA GetKeeps ==
  ASSUME QueueOK, NEW kind \in Kinds, GetEvent(kind)
  PROVE  /\ QueueOK'
         /\ lost' = lost
         /\ \A k \in Kinds \ {kind} : Waiting(k) => Waiting(k)'
<1> USE DEF QueueOK
<1>1. sAppEventQueue # <<>> /\ sAppEventQueue[1] = kind
      /\ sAppEventQueue' = Tail(sAppEventQueue) /\ lost' = lost
  BY DEF GetEvent
<1>2. Len(sAppEventQueue) \in Nat /\ Len(sAppEventQueue) >= 1
  BY <1>1
<1>3. QueueOK'
  BY <1>1, <1>2, AppEventsAssumption
<1>4. ASSUME NEW k \in Kinds \ {kind}, Waiting(k) PROVE Waiting(k)'
  <2>1. PICK i \in 1 .. Len(sAppEventQueue) : sAppEventQueue[i] = k
    BY <1>4 DEF Waiting
  <2>2. i # 1
    BY <1>1, <1>4, <2>1
  <2>3. i - 1 \in 1 .. Len(sAppEventQueue) - 1
    BY <1>2, <2>1, <2>2
  <2>4. Len(sAppEventQueue') = Len(sAppEventQueue) - 1
    BY <1>1, <1>2
  <2>5. i - 1 \in DOMAIN sAppEventQueue' /\ sAppEventQueue'[i - 1] = k
    BY <1>1, <1>2, <2>1, <2>3, <2>4
  <2> QED
    BY <2>5 DEF Waiting
<1> QED
  BY <1>1, <1>3, <1>4

-----------------------------------------------------------------------------
(***************************************************************************)
(* The LED, as functions of its state.                                     *)
(***************************************************************************)
StepLevel == kDefaultMaxLevel \div kBreatheSteps

PWMDevices ==
  [on : BOOLEAN, level : 0 .. 255, type : {"Invalid", "Rising", "Falling"},
   both : BOOLEAN, stepLevel : 0 .. 255, stepNumb : {0, kBreatheSteps},
   cntr : 0 .. kBreatheSteps, blink : BOOLEAN]

\* What every state of the PWMDevice satisfies: a breathe effect has its step, and a
\* ramp is as far as its counter says or not as far (an interrupted effect leaves
\* the counter behind).
LedOK(d) ==
  /\ d \in PWMDevices
  /\ d.level <= kDefaultMaxLevel
  /\ d.type = "Invalid" => d.stepNumb = 0
  /\ d.type # "Invalid" =>
       d.stepNumb = kBreatheSteps /\ d.stepLevel = StepLevel /\ d.both /\ d.on
  /\ d.type = "Rising" /\ d.cntr # kBreatheSteps => d.level <= d.cntr * StepLevel
  /\ d.type = "Falling" /\ d.cntr # kBreatheSteps
       => d.level + d.cntr * StepLevel >= kDefaultMaxLevel

\* The step is at least one, and the steps do not lead past the end of the ramp.
LEMMA StepFits ==
  /\ StepLevel \in 1 .. 255
  /\ \A c \in 0 .. kBreatheSteps : c * StepLevel \in 0 .. kDefaultMaxLevel
  /\ \A c \in 0 .. kBreatheSteps : (c + 1) * StepLevel = c * StepLevel + StepLevel
<1>1. kBreatheSteps \in Nat \ {0} /\ kDefaultMaxLevel \in kBreatheSteps .. 255
  BY AppEventsAssumption
<1>2. PICK q \in Int : q = StepLevel
  BY <1>1 DEF StepLevel
<1>3. q * kBreatheSteps <= kDefaultMaxLevel /\ kDefaultMaxLevel < (q + 1) * kBreatheSteps
  BY <1>1, <1>2 DEF StepLevel
<1>4. q >= 1
  <2>1. SUFFICES ASSUME q <= 0 PROVE FALSE
    BY <1>2
  <2>2. (q + 1) * kBreatheSteps <= kBreatheSteps
    BY <1>1, <1>2, <2>1
  <2> QED
    BY <1>1, <1>3, <2>2
<1>5. ASSUME NEW c \in 0 .. kBreatheSteps
      PROVE  c * q \in 0 .. kDefaultMaxLevel /\ (c + 1) * q = c * q + q
  <2>1. c * q <= q * kBreatheSteps /\ c * q >= 0
    BY <1>1, <1>2, <1>4
  <2>2. c * q \in Int
    BY <1>1, <1>2
  <2> QED
    BY <1>1, <1>2, <1>3, <2>1, <2>2
<1>6. q <= 255
  <2>1. 1 * q \in 0 .. kDefaultMaxLevel
    BY <1>1, <1>5
  <2> QED
    BY <1>1, <1>2, <2>1
<1> QED
  BY <1>2, <1>4, <1>5, <1>6

LEMMA Cleared ==
  ASSUME NEW d \in PWMDevices
  PROVE  /\ ClearAction(d) \in PWMDevices
         /\ ClearAction(d).on = d.on /\ ClearAction(d).cntr = d.cntr
         /\ ClearAction(d).level = kDefaultMaxLevel
         /\ ClearAction(d).type = "Invalid" /\ ClearAction(d).stepNumb = 0
         /\ ClearAction(d).blink = FALSE
  BY AppEventsAssumption DEF ClearAction, PWMDevices

LEMMA BlinkOK ==
  ASSUME NEW d, LedOK(d)
  PROVE  LedOK(InitiateBlinkAction(d)) /\ InitiateBlinkAction(d).blink
<1>1. PICK c \in PWMDevices : /\ c = ClearAction(d)
                              /\ c.level = kDefaultMaxLevel /\ c.cntr = d.cntr
                              /\ c.on = d.on /\ c.type = "Invalid"
                              /\ c.stepNumb = 0 /\ c.blink = FALSE
  BY Cleared DEF LedOK
<1> DEFINE b == InitiateBlinkAction(d)
<1>2. b = [c EXCEPT !.blink = TRUE, !.on = ~d.on]
  BY <1>1 DEF InitiateBlinkAction
<1>3. b \in PWMDevices
  BY <1>2, ZenonT(60) DEF PWMDevices
<1>4. b.level = kDefaultMaxLevel /\ b.type = "Invalid" /\ b.stepNumb = 0 /\ b.blink = TRUE
  BY <1>1, <1>2 DEF PWMDevices
<1> QED
  BY <1>3, <1>4, AppEventsAssumption DEF LedOK

LEMMA StopOK ==
  ASSUME NEW d, LedOK(d)
  PROVE  /\ LedOK(StopAction(d))
         /\ ~StopAction(d).on /\ ~StopAction(d).blink /\ StopAction(d).type = "Invalid"
<1>1. PICK c \in PWMDevices : /\ c = ClearAction(d)
                              /\ c.level = kDefaultMaxLevel /\ c.cntr = d.cntr
                              /\ c.on = d.on /\ c.type = "Invalid"
                              /\ c.stepNumb = 0 /\ c.blink = FALSE
  BY Cleared DEF LedOK
<1> DEFINE b == StopAction(d)
<1>2. b = [c EXCEPT !.on = FALSE]
  BY <1>1 DEF StopAction
<1>3. b \in PWMDevices
  BY <1>2, ZenonT(60) DEF PWMDevices
<1>4. b.level = kDefaultMaxLevel /\ b.type = "Invalid" /\ b.stepNumb = 0
      /\ b.blink = FALSE /\ b.on = FALSE
  BY <1>1, <1>2 DEF PWMDevices
<1> QED
  BY <1>3, <1>4, AppEventsAssumption DEF LedOK

LEMMA BreatheOK ==
  ASSUME NEW d, LedOK(d)
  PROVE  LedOK(InitiateBreatheAction(d)) /\ InitiateBreatheAction(d).type # "Invalid"
<1>1. PICK c \in PWMDevices : /\ c = ClearAction(d)
                              /\ c.level = kDefaultMaxLevel /\ c.cntr = d.cntr
                              /\ c.on = d.on /\ c.type = "Invalid"
                              /\ c.stepNumb = 0 /\ c.blink = FALSE
  BY Cleared DEF LedOK
<1>2. PICK q \in 1 .. 255 : q = StepLevel
  BY StepFits
<1>3. q = (kDefaultMaxLevel - kDefaultMinLevel) \div kBreatheSteps
  BY <1>2, AppEventsAssumption DEF StepLevel, kDefaultMinLevel
<1> DEFINE b == InitiateBreatheAction(d)
<1>4. b = [c EXCEPT !.stepNumb = kBreatheSteps, !.stepLevel = q, !.both = TRUE,
                    !.type = IF d.on THEN "Falling" ELSE "Rising",
                    !.level = IF d.on THEN kDefaultMaxLevel ELSE 0, !.on = TRUE]
  BY <1>1, <1>3 DEF InitiateBreatheAction, kDefaultMinLevel
<1>5. b.on = TRUE /\ b.both = TRUE /\ b.stepLevel = q /\ b.stepNumb = kBreatheSteps
      /\ b.cntr = d.cntr
      /\ b.type = (IF d.on THEN "Falling" ELSE "Rising")
      /\ b.level = (IF d.on THEN kDefaultMaxLevel ELSE 0)
  BY <1>1, <1>4 DEF PWMDevices
<1>6. b \in PWMDevices
  <2>1. PICK e \in PWMDevices : e = [c EXCEPT !.stepNumb = kBreatheSteps, !.stepLevel = q]
    <3>1. [c EXCEPT !.stepNumb = kBreatheSteps] \in PWMDevices
      BY DEF PWMDevices
    <3>2. ASSUME NEW e \in PWMDevices PROVE [e EXCEPT !.stepLevel = q] \in PWMDevices
      BY <1>2 DEF PWMDevices
    <3> QED
      BY <3>1, <3>2
  <2>2. PICK f \in PWMDevices :
          f = [e EXCEPT !.both = TRUE, !.type = IF d.on THEN "Falling" ELSE "Rising"]
    BY ZenonT(60) DEF PWMDevices
  <2>3. PICK l \in 0 .. 255 : l = IF d.on THEN kDefaultMaxLevel ELSE 0
    BY AppEventsAssumption
  <2>4. [f EXCEPT !.level = l, !.on = TRUE] \in PWMDevices
    BY ZenonT(60) DEF PWMDevices
  <2>5. b = [f EXCEPT !.level = l, !.on = TRUE]
    BY <1>4, <2>1, <2>2, <2>3
  <2> QED
    BY <2>4, <2>5
<1>7. d.cntr * q \in 0 .. kDefaultMaxLevel
  BY <1>2, StepFits DEF LedOK, PWMDevices
<1> QED
  BY <1>2, <1>5, <1>6, <1>7, AppEventsAssumption DEF LedOK

\* Breathing and blinking, in terms of the kind of ramp.
LEMMA Breathes ==
  ASSUME NEW d, LedOK(d)
  PROVE  Breathing(d) <=> d.type # "Invalid"
  BY StepFits, AppEventsAssumption DEF LedOK, Breathing

\* The step counter, and the direction of the ramp.
LEMMA NextStepOK ==
  ASSUME NEW d \in PWMDevices, d.type # "Invalid", d.both, d.stepNumb = kBreatheSteps,
         NEW n, n = NextStep(d)
  PROVE  /\ n \in PWMDevices
         /\ n.level = d.level /\ n.stepLevel = d.stepLevel /\ n.stepNumb = d.stepNumb
         /\ n.both = d.both /\ n.on = d.on
         /\ IF d.cntr = kBreatheSteps
              THEN n.cntr = 0 /\ n.type = Opposite(d.type)
              ELSE n.cntr = d.cntr + 1 /\ n.type = d.type
<1>1. CASE d.cntr = kBreatheSteps
  <2>1. PICK t \in {"Rising", "Falling"} : t = Opposite(d.type)
    BY DEF Opposite
  <2>2. PICK c \in 0 .. kBreatheSteps : c = 0
    BY AppEventsAssumption
  <2>3. n = [d EXCEPT !.cntr = c, !.type = t]
    BY <1>1, <2>1, <2>2 DEF NextStep
  <2>4. n \in PWMDevices
    <3>1. PICK e \in PWMDevices : e = [d EXCEPT !.cntr = c]
      BY ZenonT(60) DEF PWMDevices
    <3>2. [e EXCEPT !.type = t] \in PWMDevices
      BY SMTT(30) DEF PWMDevices
    <3> QED
      BY <2>3, <3>1, <3>2
  <2>5. n.cntr = c /\ n.type = t /\ n.level = d.level /\ n.stepLevel = d.stepLevel
        /\ n.stepNumb = d.stepNumb /\ n.both = d.both /\ n.on = d.on
    BY <2>3, ZenonT(60) DEF PWMDevices
  <2> QED
    BY <1>1, <2>1, <2>2, <2>4, <2>5
<1>2. CASE d.cntr # kBreatheSteps
  <2>1. PICK c \in 0 .. kBreatheSteps : c = d.cntr + 1
    BY <1>2, AppEventsAssumption DEF PWMDevices
  <2>2. n = [d EXCEPT !.cntr = c]
    BY <1>2, <2>1 DEF NextStep
  <2>3. n \in PWMDevices
    BY <2>2, SMTT(30) DEF PWMDevices
  <2>4. n.cntr = c /\ n.type = d.type /\ n.level = d.level /\ n.stepLevel = d.stepLevel
        /\ n.stepNumb = d.stepNumb /\ n.both = d.both /\ n.on = d.on
    BY <2>2, ZenonT(60) DEF PWMDevices
  <2> QED
    BY <1>2, <2>1, <2>3, <2>4
<1> QED
  BY <1>1, <1>2

\* A step of the ramp: to its end, back to its start, or by StepLevel, which neither
\* passes the end nor wraps.
LEMMA BreatheStepOK ==
  ASSUME NEW d, LedOK(d), d.type # "Invalid"
  PROVE  LedOK(Ramp(NextStep(d))) /\ Ramp(NextStep(d)).type # "Invalid"
<1>1. PICK q \in 1 .. 255 : q = StepLevel
  BY StepFits
<1>2. d \in PWMDevices /\ d.both /\ d.on /\ d.stepNumb = kBreatheSteps /\ d.stepLevel = q
  BY <1>1 DEF LedOK
<1>3. PICK n \in PWMDevices :
        /\ n = NextStep(d)
        /\ n.level = d.level /\ n.stepLevel = q /\ n.stepNumb = kBreatheSteps /\ n.both
        /\ IF d.cntr = kBreatheSteps
             THEN n.cntr = 0 /\ n.type = Opposite(d.type)
             ELSE n.cntr = d.cntr + 1 /\ n.type = d.type
  BY <1>2, NextStepOK
<1>4. n.type \in {"Rising", "Falling"}
  BY <1>3 DEF Opposite, PWMDevices
<1> DEFINE next  == IF n.type = "Rising" THEN n.level + q ELSE n.level - q
           value == CASE n.cntr = kBreatheSteps ->
                           (IF n.type = "Rising" THEN kDefaultMaxLevel ELSE 0)
                      [] n.cntr # kBreatheSteps /\ n.cntr = 0 ->
                           (IF n.type = "Rising" THEN 0 ELSE kDefaultMaxLevel)
                      [] OTHER -> next % 256
<1>5. Ramp(n) = [n EXCEPT !.on = TRUE, !.level = value]
  BY <1>3 DEF Ramp, kDefaultMinLevel
<1>6. /\ value \in 0 .. kDefaultMaxLevel
      /\ n.type = "Rising" /\ n.cntr # kBreatheSteps => value <= n.cntr * q
      /\ n.type = "Falling" /\ n.cntr # kBreatheSteps => value + n.cntr * q >= kDefaultMaxLevel
  <2> kDefaultMaxLevel \in 0 .. 255 /\ kBreatheSteps \in Nat \ {0} /\ n.cntr \in 0 .. kBreatheSteps
    BY AppEventsAssumption DEF PWMDevices
  <2>1. CASE n.cntr = kBreatheSteps
    BY <2>1
  <2>2. CASE n.cntr # kBreatheSteps /\ n.cntr = 0
    <3>1. 0 * q = 0
      OBVIOUS
    <3> QED
      BY <1>4, <2>2, <3>1
  <2>3. CASE n.cntr # kBreatheSteps /\ n.cntr # 0
    <3>1. d.cntr \in 0 .. kBreatheSteps /\ d.cntr # kBreatheSteps
          /\ n.cntr = d.cntr + 1 /\ n.type = d.type
      BY <1>2, <1>3, <2>3 DEF PWMDevices
    <3>2. PICK x \in 0 .. kDefaultMaxLevel : x = d.cntr * q
      BY <1>1, <3>1, StepFits
    <3>3. n.cntr * q = x + q /\ x + q <= kDefaultMaxLevel
      <4>1. (d.cntr + 1) * q = x + q
        BY <1>1, <3>1, <3>2, StepFits
      <4>2. n.cntr * q \in 0 .. kDefaultMaxLevel
        BY <1>1, StepFits
      <4> QED
        BY <3>1, <4>1, <4>2
    <3>4. n.level \in 0 .. kDefaultMaxLevel
      BY <1>3 DEF LedOK, PWMDevices
    <3>5. /\ n.type = "Rising" => n.level <= x
          /\ n.type = "Falling" => n.level + x >= kDefaultMaxLevel
      BY <1>1, <1>3, <3>1, <3>2 DEF LedOK
    <3>6. /\ next \in 0 .. kDefaultMaxLevel
          /\ n.type = "Rising" => next <= n.cntr * q
          /\ n.type = "Falling" => next + n.cntr * q >= kDefaultMaxLevel
      BY <1>4, <3>3, <3>4, <3>5
    <3>7. value = next
      BY <2>3, <3>6
    <3> QED
      BY <3>6, <3>7
  <2> QED
    BY <2>1, <2>2, <2>3
<1> HIDE DEF value
<1>7. PICK v \in 0 .. 255 : v = value
  BY <1>6, AppEventsAssumption
<1>8. PICK r : r = Ramp(n) /\ r = [n EXCEPT !.on = TRUE, !.level = v]
  BY <1>5, <1>7
<1>9. r \in PWMDevices
  <2>1. r = [n EXCEPT !.on = TRUE, !.level = v] /\ n \in PWMDevices /\ v \in 0 .. 255
    BY <1>8
  <2> QED
    BY <2>1, ZenonT(60) DEF PWMDevices
<1>10. r.on = TRUE /\ r.level = v /\ r.type = n.type /\ r.cntr = n.cntr
       /\ r.stepLevel = n.stepLevel /\ r.stepNumb = n.stepNumb /\ r.both = n.both
  BY <1>8 DEF PWMDevices
<1>11. LedOK(r) /\ r.type # "Invalid"
  BY <1>1, <1>3, <1>4, <1>6, <1>7, <1>9, <1>10 DEF LedOK
<1> QED
  BY <1>3, <1>8, <1>11

\* UpdateAction keeps the action going, and leaves a LED without one alone.
LEMMA UpdateOK ==
  ASSUME NEW d, LedOK(d)
  PROVE  /\ LedOK(UpdateAction(d))
         /\ HasAction(d) => HasAction(UpdateAction(d))
         /\ ~HasAction(d) => UpdateAction(d) = d
<1>1. CASE d.type # "Invalid"
  <2>1. Breathing(d) /\ UpdateAction(d) = Ramp(NextStep(d))
    BY <1>1, Breathes DEF UpdateAction
  <2> QED
    BY <1>1, <2>1, BreatheStepOK, Breathes DEF HasAction
<1>2. CASE d.type = "Invalid" /\ d.blink
  <2>1. ~Breathing(d) /\ UpdateAction(d) = [d EXCEPT !.on = ~d.on]
    BY <1>2, Breathes DEF UpdateAction
  <2>2. PICK r : r = UpdateAction(d) /\ r = [d EXCEPT !.on = ~d.on]
    BY <2>1
  <2>3. r \in PWMDevices
    BY <2>2 DEF PWMDevices, LedOK
  <2>4. r.level = d.level /\ r.type = d.type /\ r.stepNumb = d.stepNumb /\ r.blink = d.blink
    BY <2>2 DEF PWMDevices, LedOK
  <2>5. LedOK(r) /\ r.blink
    BY <1>2, <2>3, <2>4 DEF LedOK
  <2> QED
    BY <1>2, <2>2, <2>5 DEF HasAction
<1>3. CASE d.type = "Invalid" /\ ~d.blink
  BY <1>3, Breathes DEF UpdateAction, HasAction
<1> QED
  BY <1>1, <1>2, <1>3

-----------------------------------------------------------------------------
(***************************************************************************)
(* The inductive invariant.  EffectGoesOn and StoppedIsDark need to know   *)
(* that the LED has an action just when an effect is asked for: an update  *)
(* that arrives late is then applied to an action or changes nothing.      *)
(***************************************************************************)
ResetOK ==
  /\ sFactoryResetCntr \in 0 .. kFactoryResetTriggerCntr - 1
  /\ resetTimer \in BOOLEAN /\ resetScheduled \in BOOLEAN
  /\ CountIsTimed

EffectOK ==
  /\ LedOK(mPwmIdentifyLed)
  /\ mPwmLedTimer \in BOOLEAN /\ effect \in Effects
  /\ effect # "stop" <=> HasAction(mPwmIdentifyLed)
  /\ StoppedIsDark
  /\ EffectGoesOn

IInv == QueueOK /\ lost \subseteq TimerEvents /\ ResetOK /\ EffectOK

LEMMA InitIInv == Init => IInv
<1> SUFFICES ASSUME Init PROVE IInv
  OBVIOUS
<1>1. QueueOK /\ lost \subseteq TimerEvents
  BY AppEventsAssumption DEF Init, QueueOK
<1>2. ResetOK
  <2>1. sFactoryResetCntr = 0 /\ 0 \in 0 .. kFactoryResetTriggerCntr - 1
    BY DEF Init, kFactoryResetTriggerCntr
  <2> QED
    BY <2>1, Zenon DEF Init, ResetOK, CountIsTimed
<1>3. LedOK(mPwmIdentifyLed) /\ ~HasAction(mPwmIdentifyLed)
  BY AppEventsAssumption DEF Init, LedOK, PWMDevices, HasAction, Breathing
<1>4. EffectOK
  BY <1>3 DEF Init, EffectOK, StoppedIsDark, EffectGoesOn, Effects
<1> QED
  BY <1>1, <1>2, <1>4 DEF IInv

\* What an event in the queue is good for stays so when another one is posted or
\* taken.
LEMMA OthersKeep ==
  ASSUME IInv, NEW kind \in Kinds, PostEvent(kind) \/ GetEvent(kind)
  PROVE  /\ QueueOK' /\ lost' \subseteq TimerEvents /\ lost \subseteq lost'
         /\ \A k \in TimerEvents \ {kind} : Waiting(k) => Waiting(k)'
         /\ PostEvent(kind) /\ (Waiting("timer") \/ (kind = "timer" /\ "timer" \notin lost'))
              => Waiting("timer")'
         /\ PostEvent(kind) /\ (Waiting("update") \/ (kind = "update" /\ "update" \notin lost'))
              => Waiting("update")'
<1> TimerEvents \subseteq Kinds /\ {"timer", "update"} = TimerEvents
  BY DEF TimerEvents, Kinds
<1>1. CASE PostEvent(kind)
  BY <1>1, PostKeeps DEF IInv
<1>2. CASE GetEvent(kind) /\ ~PostEvent(kind)
  BY <1>2, GetKeeps DEF IInv
<1> QED
  BY <1>1, <1>2

\* Steps that do not touch the button's state, and leave its event if there is one.
LEMMA ResetKept ==
  ASSUME ResetOK, UNCHANGED <<sFactoryResetCntr, resetTimer, resetScheduled>>,
         lost \subseteq lost', Waiting("timer") => Waiting("timer")'
  PROVE  ResetOK'
  BY DEF ResetOK, CountIsTimed

LEMMA EffectKept ==
  ASSUME EffectOK, UNCHANGED led, lost \subseteq lost', Waiting("update") => Waiting("update")'
  PROVE  EffectOK'
<1> mPwmIdentifyLed' = mPwmIdentifyLed /\ mPwmLedTimer' = mPwmLedTimer /\ effect' = effect
  BY DEF led
<1> QED
  BY DEF EffectOK, StoppedIsDark, EffectGoesOn

LEMMA StepIInv ==
  ASSUME IInv, [Next]_vars
  PROVE  IInv'
<1> TimerEvents = {"timer", "update"} /\ Effects = {"blink", "breathe", "stop"}
  BY DEF TimerEvents, Effects
<1> Kinds = {"blink", "breathe", "stop", "timer", "update", "press", "other"}
  BY DEF Kinds
<1> DEFINE Q == QueueOK' /\ lost' \subseteq TimerEvents
<1>1. ASSUME NEW kind \in Kinds \ TimerEvents, PostEvent(kind), UNCHANGED <<reset, led>>
      PROVE  IInv'
  <2>1. Q /\ lost \subseteq lost' /\ (Waiting("timer") => Waiting("timer")')
        /\ (Waiting("update") => Waiting("update")')
    BY <1>1, OthersKeep
  <2> QED
    BY <1>1, <2>1, ResetKept, EffectKept DEF IInv, reset
<1>2. ASSUME FactoryResetTimerTimeoutCallback PROVE IInv'
  <2>1. PostEvent("timer") /\ UNCHANGED <<sFactoryResetCntr, resetScheduled, led>>
        /\ resetTimer' = FALSE
    BY <1>2 DEF FactoryResetTimerTimeoutCallback
  <2>2. Q /\ lost \subseteq lost' /\ (Waiting("update") => Waiting("update")')
        /\ ("timer" \notin lost' => Waiting("timer")')
    BY <2>1, OthersKeep
  <2>3. ResetOK'
    BY <2>1, <2>2 DEF IInv, ResetOK, CountIsTimed
  <2> QED
    BY <2>1, <2>2, <2>3, EffectKept DEF IInv
<1>3. ASSUME PwmLedTimerHandler PROVE IInv'
  <2>1. PostEvent("update") /\ UNCHANGED <<reset, mPwmIdentifyLed, effect>>
        /\ mPwmLedTimer' = FALSE
    BY <1>3 DEF PwmLedTimerHandler
  <2>2. Q /\ lost \subseteq lost' /\ (Waiting("timer") => Waiting("timer")')
        /\ ("update" \notin lost' => Waiting("update")')
    BY <2>1, OthersKeep
  <2>3. EffectOK'
    BY <2>1, <2>2 DEF IInv, EffectOK, StoppedIsDark, EffectGoesOn
  <2> QED
    BY <2>1, <2>2, <2>3, ResetKept DEF IInv, reset
<1>4. ASSUME FactoryResetHandler PROVE IInv'
  <2>1. /\ GetEvent("press") /\ UNCHANGED led
        /\ sFactoryResetCntr' = (sFactoryResetCntr + 1) % kFactoryResetTriggerCntr
        /\ resetTimer' = ((resetTimer \/ sFactoryResetCntr = 0)
                             /\ sFactoryResetCntr + 1 # kFactoryResetTriggerCntr)
        /\ resetScheduled' =
             (resetScheduled \/ sFactoryResetCntr + 1 = kFactoryResetTriggerCntr)
    BY <1>4 DEF FactoryResetHandler
  <2>2. Q /\ lost \subseteq lost' /\ (Waiting("update") => Waiting("update")')
        /\ (Waiting("timer") => Waiting("timer")')
    BY <2>1, OthersKeep
  <2>3. ResetOK'
    <3>1. /\ sFactoryResetCntr' \in 0 .. kFactoryResetTriggerCntr - 1
          /\ sFactoryResetCntr' # 0 => sFactoryResetCntr + 1 # kFactoryResetTriggerCntr
      BY <2>1 DEF IInv, ResetOK, kFactoryResetTriggerCntr
    <3>2. resetTimer' \in BOOLEAN /\ resetScheduled' \in BOOLEAN
      BY <2>1, Zenon
    <3>3. CountIsTimed'
      <4>1. SUFFICES ASSUME sFactoryResetCntr' # 0, "timer" \notin lost'
                     PROVE  resetTimer' \/ Waiting("timer")'
        BY DEF CountIsTimed
      <4>2. CASE sFactoryResetCntr = 0
        BY <2>1, <3>1, <4>1, <4>2, Zenon
      <4>3. CASE sFactoryResetCntr # 0
        <5>1. resetTimer \/ Waiting("timer")
          BY <2>2, <4>1, <4>3 DEF IInv, ResetOK, CountIsTimed
        <5> QED
          BY <2>1, <2>2, <3>1, <4>1, <5>1, Zenon
      <4> QED
        BY <4>2, <4>3
    <3> QED
      BY <3>1, <3>2, <3>3 DEF ResetOK
  <2> QED
    BY <2>1, <2>2, <2>3, EffectKept DEF IInv
<1>5. ASSUME FactoryResetTimerEventHandler PROVE IInv'
  <2>1. GetEvent("timer") /\ UNCHANGED <<resetTimer, resetScheduled, led>>
        /\ sFactoryResetCntr' = 0
    BY <1>5 DEF FactoryResetTimerEventHandler
  <2>2. Q /\ lost \subseteq lost' /\ (Waiting("update") => Waiting("update")')
    BY <2>1, OthersKeep
  <2>3. ResetOK'
    BY <2>1 DEF IInv, ResetOK, CountIsTimed, kFactoryResetTriggerCntr
  <2> QED
    BY <2>1, <2>2, <2>3, EffectKept DEF IInv
<1>6. ASSUME NEW e \in Effects, StartIdentify(e) PROVE IInv'
  <2>1. /\ GetEvent(e) /\ UNCHANGED reset
        /\ mPwmIdentifyLed' = CASE e = "blink"   -> InitiateBlinkAction(mPwmIdentifyLed)
                                [] e = "breathe" -> InitiateBreatheAction(mPwmIdentifyLed)
                                [] e = "stop"    -> StopAction(mPwmIdentifyLed)
        /\ mPwmLedTimer' = (e # "stop") /\ effect' = e
    BY <1>6 DEF StartIdentify
  <2>2. Q /\ lost \subseteq lost' /\ (Waiting("timer") => Waiting("timer")')
    BY <2>1, OthersKeep
  <2>3. LedOK(mPwmIdentifyLed)
    BY DEF IInv, EffectOK
  <2>4. LedOK(mPwmIdentifyLed') /\ (e = "stop" => ~mPwmIdentifyLed'.on)
        /\ (e # "stop" <=> HasAction(mPwmIdentifyLed'))
    <3>1. CASE e = "blink"
      <4>1. mPwmIdentifyLed' = InitiateBlinkAction(mPwmIdentifyLed)
        BY <2>1, <3>1
      <4> QED
        BY <2>3, <3>1, <4>1, BlinkOK DEF HasAction
    <3>2. CASE e = "breathe"
      <4>1. mPwmIdentifyLed' = InitiateBreatheAction(mPwmIdentifyLed)
        BY <2>1, <3>2
      <4> QED
        BY <2>3, <3>2, <4>1, BreatheOK, Breathes DEF HasAction
    <3>3. CASE e = "stop"
      <4>1. mPwmIdentifyLed' = StopAction(mPwmIdentifyLed)
        BY <2>1, <3>3
      <4> QED
        BY <2>3, <3>3, <4>1, StopOK, Breathes DEF HasAction
    <3> QED
      BY <3>1, <3>2, <3>3
  <2>5. EffectOK'
    BY <2>1, <2>4 DEF EffectOK, StoppedIsDark, EffectGoesOn
  <2> QED
    BY <2>1, <2>2, <2>5, ResetKept DEF IInv, reset
<1>7. ASSUME UpdateIdentifyStateEventHandler PROVE IInv'
  <2>1. /\ GetEvent("update") /\ UNCHANGED <<reset, effect>>
        /\ mPwmIdentifyLed' = UpdateAction(mPwmIdentifyLed)
        /\ mPwmLedTimer' = (mPwmLedTimer \/ HasAction(mPwmIdentifyLed))
    BY <1>7 DEF UpdateIdentifyStateEventHandler
  <2>2. Q /\ lost \subseteq lost' /\ (Waiting("timer") => Waiting("timer")')
    BY <2>1, OthersKeep
  <2>3. /\ LedOK(mPwmIdentifyLed')
        /\ HasAction(mPwmIdentifyLed') <=> HasAction(mPwmIdentifyLed)
        /\ ~HasAction(mPwmIdentifyLed) => mPwmIdentifyLed' = mPwmIdentifyLed
    BY <2>1, UpdateOK DEF IInv, EffectOK
  <2>4. EffectOK'
    BY <2>1, <2>3 DEF IInv, EffectOK, StoppedIsDark, EffectGoesOn
  <2> QED
    BY <2>1, <2>2, <2>4, ResetKept DEF IInv, reset
<1>8. ASSUME OtherEvent PROVE IInv'
  <2>1. GetEvent("other") /\ UNCHANGED <<reset, led>>
    BY <1>8 DEF OtherEvent
  <2>2. Q /\ lost \subseteq lost' /\ (Waiting("timer") => Waiting("timer")')
        /\ (Waiting("update") => Waiting("update")')
    BY <2>1, OthersKeep
  <2> QED
    BY <2>1, <2>2, ResetKept, EffectKept DEF IInv, reset
<1>9. ASSUME UNCHANGED vars PROVE IInv'
  BY <1>9, ResetKept, EffectKept
     DEF IInv, vars, reset, led, QueueOK, Waiting
<1>10. ASSUME FactoryResetButtonEventHandler \/ IdentifyEffectHandler \/ OtherTimers PROVE IInv'
  BY <1>1, <1>10 DEF FactoryResetButtonEventHandler, IdentifyEffectHandler, OtherTimers
<1> QED
  BY <1>2, <1>3, <1>4, <1>5, <1>6, <1>7, <1>8, <1>9, <1>10 DEF Next, DispatchEvent

THEOREM Invariance == Spec => []IInv
  BY InitIInv, StepIInv, PTL DEF Spec

-----------------------------------------------------------------------------
(***************************************************************************)
(* What follows from it.                                                   *)
(***************************************************************************)

\* The queue stays within its length, the press counter within its range and the LED
\* within its records.
THEOREM TypeCorrect == Spec => []TypeOK
<1>1. IInv => TypeOK
  BY DEF IInv, TypeOK, QueueOK, ResetOK, EffectOK, LedOK, PWMDevices
<1> QED
  BY <1>1, Invariance, PTL

\* Counted presses are timed or their timer's event is on the way (639-641, 656-667).
THEOREM CountTimed == Spec => []CountIsTimed
<1>1. IInv => CountIsTimed
  BY DEF IInv, ResetOK
<1> QED
  BY <1>1, Invariance, PTL

\* The third press counts only within the window of the first.
THEOREM ResetMeant == Spec => ResetIsMeant
<1>1. IInv /\ [Next]_vars
        => (resetScheduled' /\ ~resetScheduled /\ "timer" \notin lost
              => resetTimer \/ Waiting("timer"))
  <2>1. SUFFICES ASSUME IInv, Next, resetScheduled', ~resetScheduled, "timer" \notin lost
                 PROVE  resetTimer \/ Waiting("timer")
    BY DEF vars, reset
  <2>2. FactoryResetHandler
    BY <2>1 DEF Next, DispatchEvent, FactoryResetButtonEventHandler, IdentifyEffectHandler,
      OtherTimers, FactoryResetTimerTimeoutCallback, PwmLedTimerHandler,
      FactoryResetTimerEventHandler, StartIdentify, UpdateIdentifyStateEventHandler,
      OtherEvent, reset
  <2>3. sFactoryResetCntr + 1 = kFactoryResetTriggerCntr
    BY <2>1, <2>2, Zenon DEF FactoryResetHandler
  <2>4. sFactoryResetCntr # 0
    BY <2>3 DEF kFactoryResetTriggerCntr
  <2> QED
    BY <2>1, <2>4 DEF IInv, ResetOK, CountIsTimed
<1> QED
  BY <1>1, Invariance, PTL DEF Spec, ResetIsMeant

\* A stopped LED is dark, whatever updates are still in the queue.
THEOREM StoppedDark == Spec => []StoppedIsDark
<1>1. IInv => StoppedIsDark
  BY DEF IInv, EffectOK
<1> QED
  BY <1>1, Invariance, PTL

\* An effect's timer or its update is always on the way.
THEOREM EffectRuns == Spec => []EffectGoesOn
<1>1. IInv => EffectGoesOn
  BY DEF IInv, EffectOK
<1> QED
  BY <1>1, Invariance, PTL

\* The level of the LED neither passes its ends nor wraps, for every range of levels
\* and number of steps, wherever an interrupted effect left the step counter.
THEOREM LevelStays == Spec => []LevelInRange
<1>1. IInv => LevelInRange
  BY AppEventsAssumption
     DEF IInv, EffectOK, LedOK, PWMDevices, LevelInRange, kDefaultMinLevel
<1> QED
  BY <1>1, Invariance, PTL
=============================================================================
