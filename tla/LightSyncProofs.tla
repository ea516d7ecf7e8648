-------------------------- MODULE LightSyncProofs --------------------------
(***************************************************************************)
(* Proofs about LightSync.  For the on/off light: with room for one command *)
(* and for every report that the controller and the wall can cause, lamp   *)
(* and DeviceDimmer agree whenever nothing is under way, however the two   *)
(* threads interleave and whatever commands are dropped.  For every type   *)
(* of light: the ranges of the attributes, the levels and the messages.    *)
(* For lights with a level: the level follows the lamp in every            *)
(* interleaving that drops nothing.  For all of them: while controller and *)
(* wall take turns, all copies agree and a level does not drift.           *)
(***************************************************************************)
EXTENDS LightSync, SequenceTheorems, TLAPS

\* The assumptions on what the lights may be asked for and on the queues.
LEMMA Limits ==
  /\ Lights \subseteq LightTypes
  /\ \A type \in Lights : /\ Levels[type] \subseteq 1 .. 254
                          /\ Brights[type] \subseteq 0 .. FullBright(type)
  /\ "OnOff" \in Lights => Brights["OnOff"] = {}
  /\ Hues \subseteq 0 .. 254 /\ Saturations \subseteq 0 .. 254
  /\ TxDepth \in Nat /\ RxDepth \in Nat
  /\ NetOps \in Nat /\ WallOps \in Nat
  /\ Paced \in BOOLEAN
BY LightSyncAssumption

Switches == {Switch(0), Switch(1)}

\* Everything an on/off light hears and says is a switch.
SwitchTypes ==
  /\ mType \in Lights
  /\ onOff \in {0, 1} /\ lampOn \in {0, 1} /\ mState \in {kState_On, kState_Off}
  /\ tx \in Seq(Switches) /\ rx \in Seq(Switches)
  /\ pc \in [Threads -> {"idle", "compare", "update", "write", "decide", "set", "send"}]
  /\ pc["chip"] \in {"idle", "decide", "set", "send"}
  /\ pc["app"] # "idle" => report \in Switches
  /\ job \in [Threads -> [dp : {"level"}, v : Int] \cup Switches]
  /\ pc["app"] \in {"decide", "set", "send"} => job["app"] = report
  /\ \A t \in Threads : pc[t] \in {"set", "send"} => job[t] \in Switches
  /\ netLeft \in Nat /\ wallLeft \in Nat

Busy(t) == IF pc[t] = "idle" THEN 0 ELSE 1

Begun == (NetOps - netLeft) + (WallOps - wallLeft)

\* Every operation has at most one message or one thread at work for it.
Counted == Len(tx) + Len(rx) + Busy("chip") + Busy("app") <= Begun

\* The last report says what the lamp does.
LastReport ==
  /\ rx # <<>> => rx[Len(rx)].v = lampOn
  /\ rx = <<>> /\ pc["app"] \in {"compare", "update", "write", "decide", "set"}
       => report.v = lampOn

\* A difference between lamp and DeviceDimmer will be noticed.
Noticed ==
  lampOn # IsTurnedOn => \/ tx # <<>> \/ rx # <<>>
                         \/ pc["chip"] = "send"
                         \/ pc["app"] # "idle"

SwitchInv ==
  mType = "OnOff" => SwitchTypes /\ Counted /\ LastReport /\ Noticed

-----------------------------------------------------------------------------
\* What a switch is.
LEMMA SwitchFacts ==
  /\ \A m \in Switches : m.dp = "switch" /\ m.v \in {0, 1} /\ m = Switch(m.v)
  /\ \A b \in {0, 1} : Switch(b) \in Switches /\ Switch(b).v = b
  /\ \A b : Switch(b).dp = "switch" /\ Switch(b).v = b
BY DEF Switches, Switch

\* A queue with room takes a message at its end, a full one is left as it is.
LEMMA PutFacts ==
  ASSUME NEW S, NEW q \in Seq(S), NEW m \in S, NEW d \in Nat
  PROVE  /\ Put(q, d, m) \in Seq(S)
         /\ Len(q) < d => /\ Len(Put(q, d, m)) = Len(q) + 1
                          /\ Put(q, d, m)[Len(q) + 1] = m
         /\ Len(q) >= d => Put(q, d, m) = q
<1>1. CASE Len(q) < d
  <2>1. Put(q, d, m) = Append(q, m)
    BY <1>1 DEF Put
  <2> QED
    BY <1>1, <2>1, AppendProperties
<1>2. CASE Len(q) >= d
  <2>1. Put(q, d, m) = q
    BY <1>2 DEF Put
  <2> QED
    BY <1>2, <2>1
<1> QED
  BY <1>1, <1>2

\* An empty queue is one of length 0.
LEMMA EmptyFacts ==
  ASSUME NEW S, NEW q \in Seq(S)
  PROVE  /\ Len(q) \in Nat
         /\ q = <<>> <=> Len(q) = 0
BY EmptySeq

-----------------------------------------------------------------------------
\* No more is under way than the queue for the reports can take.
LEMMA RoomForReports ==
  ASSUME SwitchTypes, Counted, RxDepth >= NetOps + WallOps
  PROVE  /\ Len(tx) \in Nat /\ Len(rx) \in Nat
         /\ Busy("chip") \in {0, 1} /\ Busy("app") \in {0, 1}
         /\ Len(tx) + Len(rx) + Busy("chip") + Busy("app") <= RxDepth - netLeft - wallLeft
<1>1. Len(tx) \in Nat /\ Len(rx) \in Nat
  BY DEF SwitchTypes
<1>2. Busy("chip") \in {0, 1} /\ Busy("app") \in {0, 1}
  BY DEF Busy
<1> QED
  BY <1>1, <1>2, Limits DEF SwitchTypes, Counted, Begun

\* A switch that reaches the lamp is obeyed and reported.
LEMMA Driven ==
  ASSUME SwitchTypes, mType = "OnOff", NEW cmd \in Switches, Drive(cmd), Len(rx) < RxDepth
  PROVE  /\ lampOn' = cmd.v /\ lampOn' \in {0, 1}
         /\ rx' \in Seq(Switches) /\ Len(rx') = Len(rx) + 1 /\ rx' # <<>>
         /\ rx'[Len(rx')].v = lampOn'
<1>1. lampOn' = cmd.v /\ lampOn' \in {0, 1}
  <2>1. cmd.dp = "switch" /\ cmd.v \in {0, 1}
    BY SwitchFacts
  <2>2. lampOn' = IF cmd.dp = "switch" THEN cmd.v ELSE lampOn
    BY DEF Drive
  <2> QED
    BY <2>1, <2>2
<1>2. rx' = Put(rx, RxDepth, cmd)
  BY DEF Drive, TellsLevel
<1>3. rx \in Seq(Switches) /\ RxDepth \in Nat
  BY Limits DEF SwitchTypes
<1>4. /\ rx' \in Seq(Switches) /\ Len(rx') = Len(rx) + 1
      /\ rx'[Len(rx) + 1] = cmd
  BY <1>2, <1>3, PutFacts
<1>5. rx' # <<>>
  BY <1>3, <1>4, EmptyFacts
<1> QED
  BY <1>1, <1>4, <1>5

\* The invariant at the start: nothing is under way and the lamp is off.
LEMMA SwitchStart == Init => SwitchInv
<1> SUFFICES ASSUME Init, mType = "OnOff" PROVE SwitchTypes /\ Counted /\ LastReport /\ Noticed
  BY DEF SwitchInv
<1>1. tx = <<>> /\ rx = <<>> /\ Len(tx) = 0 /\ Len(rx) = 0
  BY DEF Init
<1>2. <<>> \in Seq(Switches)
  OBVIOUS
<1>3. pc["chip"] = "idle" /\ pc["app"] = "idle"
  BY DEF Init, Threads
<1>4. job \in [Threads -> [dp : {"level"}, v : Int] \cup Switches]
  BY SwitchFacts DEF Init, NoJob
<1>5. SwitchTypes
  BY <1>1, <1>2, <1>3, <1>4, Limits DEF Init, SwitchTypes, Threads
<1>6. Counted
  BY <1>1, <1>3, Limits DEF Init, Counted, Begun, Busy
<1>7. LastReport
  BY <1>1, <1>3 DEF LastReport
<1>8. Noticed
  BY DEF Init, Noticed, IsTurnedOn, kState_Off, kState_On
<1> QED
  BY <1>5, <1>6, <1>7, <1>8

-----------------------------------------------------------------------------
\* The steps of a thread that is working on an attribute write.
LEMMA CallbackKeeps ==
  ASSUME TxDepth >= 1, RxDepth >= NetOps + WallOps, mType = "OnOff",
         SwitchTypes, Counted, LastReport, Noticed,
         NEW t \in Threads, Callback(t)
  PROVE  SwitchTypes' /\ Counted' /\ LastReport' /\ Noticed'
<1>1. /\ Len(tx) \in Nat /\ Len(rx) \in Nat
      /\ Busy("chip") \in {0, 1} /\ Busy("app") \in {0, 1}
      /\ netLeft \in Nat /\ wallLeft \in Nat /\ NetOps \in Nat /\ WallOps \in Nat
  BY RoomForReports, Limits DEF SwitchTypes
<1>2. t \in {"chip", "app"} /\ "chip" # "app"
  BY DEF Threads
<1>3. pc[t] \in {"decide", "set", "send"} => AfterCallback(t) = "idle"
  BY <1>2, SwitchFacts DEF AfterCallback, SwitchTypes
<1>4. CASE Decide(t)
  <2>1. /\ pc[t] = "decide"
        /\ pc' = [pc EXCEPT ![t] = IF Initiates(job[t]) THEN "set" ELSE "idle"]
        /\ UNCHANGED <<mType, onOff, mState, tx, rx, lampOn, job, report, netLeft, wallLeft>>
    BY <1>3, <1>4 DEF Decide, attributes, dimmer, lamp
  <2>2. /\ job[t].dp \in {"switch", "level"}
        /\ job[t].dp = "switch" => job[t] \in Switches
    BY SwitchFacts DEF SwitchTypes
  <2>3. Initiates(job[t]) => job[t] \in Switches
    BY <2>2 DEF Initiates
  <2>4. SwitchTypes'
    BY <1>2, <2>1, <2>3 DEF SwitchTypes, Threads
  <2>5. Counted'
    BY <1>1, <1>2, <2>1 DEF Counted, Begun, Busy, SwitchTypes, Threads
  <2>6. LastReport'
    BY <1>2, <2>1 DEF LastReport, SwitchTypes, Threads
  <2>7. Noticed'
    <3>1. CASE t = "chip"
      BY <1>2, <2>1, <3>1 DEF Noticed, IsTurnedOn, SwitchTypes, Threads
    <3>2. CASE t = "app"
      <4>1. job["app"] = report /\ report \in Switches
        BY <2>1, <3>2 DEF SwitchTypes
      <4>2. ~Initiates(job["app"]) => report.v = IsTurnedOn
        BY <4>1, SwitchFacts DEF Initiates
      <4>3. rx = <<>> => report.v = lampOn
        BY <2>1, <3>2 DEF LastReport
      <4> QED
        BY <1>2, <2>1, <3>2, <4>2, <4>3 DEF Noticed, IsTurnedOn, SwitchTypes, Threads
    <3> QED
      BY <1>2, <3>1, <3>2
  <2> QED
    BY <2>4, <2>5, <2>6, <2>7
<1>5. CASE SetDevice(t)
  <2>1. pc[t] = "set" /\ job[t] \in Switches
    BY <1>5 DEF SetDevice, SwitchTypes
  <2>2. mState' = StateAfterSet(job[t].v)
    BY <1>5, <2>1, SwitchFacts DEF SetDevice
  <2>3. /\ pc' = [pc EXCEPT ![t] = "send"]
        /\ UNCHANGED <<mType, onOff, tx, rx, lampOn, job, report, netLeft, wallLeft>>
    BY <1>5 DEF SetDevice, attributes, lamp, budget
  <2>4. mState' \in {kState_On, kState_Off}
    BY <2>2 DEF StateAfterSet
  <2>5. SwitchTypes'
    BY <1>2, <2>1, <2>3, <2>4 DEF SwitchTypes, Threads
  <2>6. Counted'
    BY <1>1, <1>2, <2>1, <2>3 DEF Counted, Begun, Busy, SwitchTypes, Threads
  <2>7. LastReport'
    BY <1>2, <2>1, <2>3 DEF LastReport, SwitchTypes, Threads
  <2>8. Noticed'
    BY <1>2, <2>1, <2>3 DEF Noticed, SwitchTypes, Threads
  <2> QED
    BY <2>5, <2>6, <2>7, <2>8
<1>6. CASE SendToMcu(t)
  <2>1. /\ pc[t] = "send" /\ job[t] \in Switches
    BY <1>6 DEF SendToMcu, SwitchTypes
  <2>2. /\ tx' = Put(tx, TxDepth, Command(job[t]))
        /\ pc' = [pc EXCEPT ![t] = "idle"]
        /\ UNCHANGED <<mType, onOff, mState, rx, lampOn, job, report, netLeft, wallLeft>>
    BY <1>3, <1>6, <2>1 DEF SendToMcu, attributes, dimmer, lamp
  <2>3. Command(job[t]) \in Switches
    BY <2>1, SwitchFacts DEF Command, IsTurnedOn
  <2>4. TxDepth \in Nat /\ tx \in Seq(Switches)
    BY Limits DEF SwitchTypes
  <2>5. tx' \in Seq(Switches) /\ Len(tx') \in {Len(tx), Len(tx) + 1} /\ Len(tx') # 0
    <3>1. /\ tx' \in Seq(Switches)
          /\ Len(tx) < TxDepth => Len(tx') = Len(tx) + 1
          /\ Len(tx) >= TxDepth => tx' = tx
      BY <2>2, <2>3, <2>4, PutFacts
    <3> QED
      BY <1>1, <2>4, <3>1
  <2>6. tx' # <<>>
    BY <2>5, EmptyFacts
  <2>7. SwitchTypes'
    BY <1>2, <2>1, <2>2, <2>5 DEF SwitchTypes, Threads
  <2>8. Counted'
    BY <1>1, <1>2, <2>1, <2>2, <2>5 DEF Counted, Begun, Busy, SwitchTypes, Threads
  <2>9. LastReport'
    BY <1>2, <2>1, <2>2 DEF LastReport, SwitchTypes, Threads
  <2>10. Noticed'
    BY <2>6 DEF Noticed
  <2> QED
    BY <2>7, <2>8, <2>9, <2>10
<1> QED
  BY <1>4, <1>5, <1>6 DEF Callback

-----------------------------------------------------------------------------
\* The application thread with a report.
LEMMA ReportKeeps ==
  ASSUME RxDepth >= NetOps + WallOps, mType = "OnOff",
         SwitchTypes, Counted, LastReport, Noticed,
         HandleUartCallback \/ Compare \/ UpdateFromHardware \/ WriteAttribute
  PROVE  SwitchTypes' /\ Counted' /\ LastReport' /\ Noticed'
<1>1. /\ Len(tx) \in Nat /\ Len(rx) \in Nat
      /\ Busy("chip") \in {0, 1} /\ Busy("app") \in {0, 1}
      /\ netLeft \in Nat /\ wallLeft \in Nat /\ NetOps \in Nat /\ WallOps \in Nat
  BY RoomForReports, Limits DEF SwitchTypes
<1>2. "app" \in Threads /\ "chip" \in Threads /\ "chip" # "app"
  BY DEF Threads
<1>3. pc["app"] # "idle" => report \in Switches /\ report.dp = "switch"
  BY SwitchFacts DEF SwitchTypes
<1>4. CASE HandleUartCallback
  <2>1. /\ pc["app"] = "idle" /\ rx # <<>>
        /\ rx' = Tail(rx) /\ report' = Head(rx)
        /\ pc' = [pc EXCEPT !["app"] = "compare"]
        /\ UNCHANGED <<mType, onOff, mState, tx, lampOn, job, netLeft, wallLeft>>
    BY <1>4 DEF HandleUartCallback, attributes, dimmer, lamp, budget
  <2>2. rx \in Seq(Switches)
    BY DEF SwitchTypes
  <2>3. /\ rx' \in Seq(Switches) /\ Len(rx') = Len(rx) - 1 /\ report' = rx[1]
        /\ report' \in Switches
        /\ \A i \in 1 .. Len(rx') : rx'[i] = rx[i + 1]
    BY <2>1, <2>2, HeadTailProperties
  <2>4. SwitchTypes'
    BY <1>2, <2>1, <2>3 DEF SwitchTypes
  <2>5. Counted'
    BY <1>1, <1>2, <2>1, <2>3 DEF Counted, Begun, Busy, SwitchTypes
  <2>6. LastReport'
    <3>1. rx[Len(rx)].v = lampOn /\ Len(rx) > 0
      BY <1>1, <2>1, <2>2, EmptyFacts DEF LastReport
    <3>2. CASE Len(rx) = 1
      <4>1. rx' = <<>> /\ report'.v = lampOn'
        BY <2>1, <2>3, <3>1, <3>2, EmptyFacts
      <4> QED
        BY <4>1 DEF LastReport
    <3>3. CASE Len(rx) # 1
      <4>1. Len(rx') \in 1 .. Len(rx') /\ rx'[Len(rx')] = rx[Len(rx)]
        BY <1>1, <2>3, <3>1, <3>3
      <4>2. rx' # <<>>
        BY <2>3, <4>1, EmptyFacts
      <4> QED
        BY <2>1, <3>1, <4>1, <4>2 DEF LastReport
    <3> QED
      BY <3>2, <3>3
  <2>7. Noticed'
    BY <1>2, <2>1 DEF Noticed, SwitchTypes
  <2> QED
    BY <2>4, <2>5, <2>6, <2>7
<1>5. CASE Compare
  <2>1. /\ pc["app"] = "compare"
        /\ pc' = [pc EXCEPT !["app"] = IF IsNews THEN "update" ELSE "idle"]
        /\ UNCHANGED <<mType, onOff, mState, tx, rx, lampOn, job, report, netLeft, wallLeft>>
    BY <1>5 DEF Compare, attributes, dimmer, lamp, budget
  <2>2. ~IsNews => report.v = IsTurnedOn
    BY <1>3, <2>1 DEF IsNews
  <2>3. SwitchTypes'
    BY <1>2, <2>1 DEF SwitchTypes
  <2>4. Counted'
    BY <1>1, <1>2, <2>1 DEF Counted, Begun, Busy, SwitchTypes
  <2>5. LastReport'
    BY <1>2, <2>1 DEF LastReport, SwitchTypes
  <2>6. Noticed'
    BY <1>2, <2>1, <2>2 DEF Noticed, LastReport, IsTurnedOn, SwitchTypes
  <2> QED
    BY <2>3, <2>4, <2>5, <2>6
<1>6. CASE UpdateFromHardware
  <2>1. CASE UpdateSwitch
    <3>1. /\ pc["app"] = "update"
          /\ pc' = [pc EXCEPT !["app"] = "write"]
          /\ UNCHANGED <<mType, onOff, tx, rx, lampOn, job, report, netLeft, wallLeft>>
      BY <2>1 DEF UpdateSwitch, attributes, lamp, budget
    <3>2. mState' \in {kState_On, kState_Off}
      BY <2>1 DEF UpdateSwitch, StateAfterSet
    <3>3. SwitchTypes'
      BY <1>2, <3>1, <3>2 DEF SwitchTypes
    <3>4. Counted'
      BY <1>1, <1>2, <3>1 DEF Counted, Begun, Busy, SwitchTypes
    <3>5. LastReport' /\ Noticed'
      BY <1>2, <3>1 DEF LastReport, Noticed, SwitchTypes
    <3> QED
      BY <3>3, <3>4, <3>5
  <2>2. ~UpdateLevel
    BY <1>3 DEF UpdateLevel
  <2>3. ~TurnWithLevel
    BY <1>2 DEF TurnWithLevel, SwitchTypes
  <2> QED
    BY <1>6, <2>1, <2>2, <2>3 DEF UpdateFromHardware
<1>7. CASE WriteAttribute
  <2>1. pc["app"] = "write"
    BY <1>2, <1>7 DEF WriteAttribute, SwitchTypes
  <2>2. SetAttribute("app", report) /\ UNCHANGED budget
    BY <1>3, <1>7, <2>1 DEF WriteAttribute
  <2>3. /\ onOff' = report.v
        /\ job' = [job EXCEPT !["app"] = report]
        /\ pc' = [pc EXCEPT !["app"] = "decide"]
        /\ UNCHANGED <<mType, mState, tx, rx, lampOn, report, netLeft, wallLeft>>
    BY <1>3, <2>1, <2>2 DEF SetAttribute, dimmer, lamp, budget
  <2>4. SwitchTypes'
    BY <1>2, <1>3, <2>1, <2>3, SwitchFacts DEF SwitchTypes, Threads
  <2>5. Counted'
    BY <1>1, <1>2, <2>1, <2>3 DEF Counted, Begun, Busy, SwitchTypes
  <2>6. LastReport' /\ Noticed'
    BY <1>2, <2>1, <2>3 DEF LastReport, Noticed, SwitchTypes
  <2> QED
    BY <2>4, <2>5, <2>6
<1> QED
  BY <1>4, <1>5, <1>6, <1>7

-----------------------------------------------------------------------------
\* The lamp: a command or the switch at the wall.
LEMMA LampKeeps ==
  ASSUME RxDepth >= NetOps + WallOps, mType = "OnOff",
         SwitchTypes, Counted, LastReport, Noticed,
         parking_message \/ WallSwitch \/ WallDim
  PROVE  SwitchTypes' /\ Counted' /\ LastReport' /\ Noticed'
<1>1. /\ Len(tx) \in Nat /\ Len(rx) \in Nat
      /\ Busy("chip") \in {0, 1} /\ Busy("app") \in {0, 1}
      /\ netLeft \in Nat /\ wallLeft \in Nat /\ NetOps \in Nat /\ WallOps \in Nat
      /\ Len(tx) + Len(rx) + Busy("chip") + Busy("app") <= RxDepth - netLeft - wallLeft
      /\ RxDepth \in Nat
  BY RoomForReports, Limits DEF SwitchTypes
<1>2. CASE parking_message
  <2>1. /\ tx # <<>> /\ tx' = Tail(tx) /\ Drive(Head(tx))
        /\ UNCHANGED <<mType, onOff, mState, pc, job, report, netLeft, wallLeft>>
    BY <1>2 DEF parking_message, attributes, dimmer, threads
  <2>2. tx \in Seq(Switches)
    BY DEF SwitchTypes
  <2>3. /\ Head(tx) \in Switches /\ tx' \in Seq(Switches)
        /\ Len(tx) > 0 /\ Len(tx') = Len(tx) - 1
    BY <2>1, <2>2, HeadTailProperties, EmptyFacts, <1>1
  <2>4. Len(rx) < RxDepth
    BY <1>1, <2>3
  <2>5. /\ lampOn' \in {0, 1} /\ rx' \in Seq(Switches) /\ Len(rx') = Len(rx) + 1
        /\ rx' # <<>> /\ rx'[Len(rx')].v = lampOn'
    BY <2>1, <2>3, <2>4, Driven
  <2>6. SwitchTypes'
    BY <2>1, <2>3, <2>5 DEF SwitchTypes
  <2>7. Counted'
    BY <1>1, <2>1, <2>3, <2>5 DEF Counted, Begun, Busy
  <2>8. LastReport' /\ Noticed'
    BY <2>5 DEF LastReport, Noticed
  <2> QED
    BY <2>6, <2>7, <2>8
<1>3. CASE WallSwitch
  <2>1. /\ wallLeft > 0 /\ wallLeft' = wallLeft - 1 /\ Drive(Switch(1 - lampOn))
        /\ UNCHANGED <<mType, onOff, mState, tx, pc, job, report, netLeft>>
    BY <1>3 DEF WallSwitch, Wall, attributes, dimmer, threads
  <2>2. Switch(1 - lampOn) \in Switches
    BY SwitchFacts DEF SwitchTypes
  <2>3. Len(rx) < RxDepth
    BY <1>1, <2>1
  <2>4. /\ lampOn' \in {0, 1} /\ rx' \in Seq(Switches) /\ Len(rx') = Len(rx) + 1
        /\ rx' # <<>> /\ rx'[Len(rx')].v = lampOn'
    BY <2>1, <2>2, <2>3, Driven
  <2>5. SwitchTypes'
    <3>1. wallLeft' \in Nat
      BY <1>1, <2>1
    <3> QED
      BY <2>1, <2>4, <3>1 DEF SwitchTypes
  <2>6. Counted'
    <3>1. /\ Busy("chip")' = Busy("chip") /\ Busy("app")' = Busy("app")
          /\ Len(tx') = Len(tx) /\ netLeft' = netLeft
      BY <2>1 DEF Busy
    <3>2. Begun' = Begun + 1
      BY <1>1, <2>1 DEF Begun
    <3>3. Begun \in Int
      BY <1>1 DEF Begun
    <3> QED
      BY <1>1, <2>4, <3>1, <3>2, <3>3 DEF Counted
  <2>7. LastReport' /\ Noticed'
    BY <2>4 DEF LastReport, Noticed
  <2> QED
    BY <2>5, <2>6, <2>7
<1>4. ~WallDim
  BY Limits DEF WallDim, SwitchTypes
<1> QED
  BY <1>2, <1>3, <1>4

-----------------------------------------------------------------------------
\* The controller.
LEMMA NetKeeps ==
  ASSUME mType = "OnOff", SwitchTypes, Counted, LastReport, Noticed,
         NetSwitch \/ NetLevel \/ NetColour
  PROVE  SwitchTypes' /\ Counted' /\ LastReport' /\ Noticed'
<1>1. /\ Len(tx) \in Nat /\ Len(rx) \in Nat
      /\ Busy("chip") \in {0, 1} /\ Busy("app") \in {0, 1}
      /\ netLeft \in Nat /\ wallLeft \in Nat /\ NetOps \in Nat /\ WallOps \in Nat
  BY Limits DEF SwitchTypes, Busy
<1>2. "app" \in Threads /\ "chip" \in Threads /\ "chip" # "app"
  BY DEF Threads
<1>3. PICK j \in [dp : {"level"}, v : Int] \cup Switches : Net(j)
  <2>1. CASE NetSwitch
    BY <2>1, SwitchFacts DEF NetSwitch, SwitchTypes
  <2>2. CASE NetLevel
    <3>1. PICK l \in Levels[mType] : Net(Level(l))
      BY <2>2 DEF NetLevel
    <3>2. l \in Int
      <4>1. Levels[mType] \subseteq 1 .. 254
        BY Limits DEF SwitchTypes
      <4>2. l \in 1 .. 254
        BY <3>1, <4>1
      <4> QED
        BY <4>2
    <3> QED
      BY <3>1, <3>2 DEF Level
  <2>3. ~NetColour
    BY DEF NetColour
  <2> QED
    BY <2>1, <2>2, <2>3
<1>4. /\ netLeft > 0 /\ netLeft' = netLeft - 1
      /\ pc["chip"] = "idle"
      /\ job' = [job EXCEPT !["chip"] = j]
      /\ pc' = [pc EXCEPT !["chip"] = "decide"]
      /\ UNCHANGED <<mType, mState, tx, rx, lampOn, report, wallLeft>>
  BY <1>3 DEF Net, SetAttribute, dimmer, lamp
<1>5. onOff' \in {0, 1}
  <2>1. CASE j \in Switches
    BY <1>3, <2>1, SwitchFacts DEF Net, SetAttribute
  <2>2. CASE j \in [dp : {"level"}, v : Int]
    BY <1>3, <2>2 DEF Net, SetAttribute, SwitchTypes
  <2> QED
    BY <2>1, <2>2
<1>6. netLeft' \in Nat
  BY <1>1, <1>4
<1>7. SwitchTypes'
  BY <1>2, <1>4, <1>5, <1>6 DEF SwitchTypes
<1>8. Counted'
  BY <1>1, <1>2, <1>4 DEF Counted, Begun, Busy, SwitchTypes
<1>9. LastReport' /\ Noticed'
  BY <1>2, <1>4 DEF LastReport, Noticed, IsTurnedOn, SwitchTypes
<1> QED
  BY <1>7, <1>8, <1>9

-----------------------------------------------------------------------------
\* The type of the light is the one of the boot.
LEMMA TypeStays == [Next]_vars => mType' = mType
BY DEF Next, vars, dimmer, App, Chip, Callback, Decide, SetDevice, SendToMcu,
       HandleUartCallback, Compare, UpdateFromHardware, UpdateSwitch, UpdateLevel,
       TurnWithLevel, WriteAttribute, SetAttribute, parking_message, WallSwitch, WallDim,
       Wall, NetSwitch, NetLevel, NetColour, Net

\* Every step preserves the invariant.
LEMMA SwitchStep ==
  ASSUME TxDepth >= 1, RxDepth >= NetOps + WallOps
  PROVE  SwitchInv /\ [Next]_vars => SwitchInv'
<1> SUFFICES ASSUME mType = "OnOff", SwitchTypes, Counted, LastReport, Noticed, [Next]_vars
             PROVE  SwitchTypes' /\ Counted' /\ LastReport' /\ Noticed'
  BY TypeStays DEF SwitchInv
<1>1. CASE \E t \in Threads : Callback(t)
  BY <1>1, CallbackKeeps
<1>2. CASE HandleUartCallback \/ Compare \/ UpdateFromHardware \/ WriteAttribute
  BY <1>2, ReportKeeps
<1>3. CASE parking_message \/ WallSwitch \/ WallDim
  BY <1>3, LampKeeps
<1>4. CASE NetSwitch \/ NetLevel \/ NetColour
  BY <1>4, NetKeeps
<1>5. CASE UNCHANGED vars
  <2>1. UNCHANGED <<mType, onOff, mState, tx, rx, lampOn, pc, job, report, netLeft, wallLeft>>
    BY <1>5 DEF vars, attributes, dimmer, lamp, threads, budget
  <2> QED
    BY <2>1 DEF SwitchTypes, Counted, Begun, Busy, LastReport, Noticed, IsTurnedOn
<1> QED
  BY <1>1, <1>2, <1>3, <1>4, <1>5 DEF Next, App, Chip, Threads

-----------------------------------------------------------------------------
\* Whenever nothing is under way, an on/off light is on when its DeviceDimmer says so,
\* however InitiateAction and UpdateFromHardware interleave and whatever commands a
\* full queue_data_tx has dropped: there is always a report still to come that tells.
THEOREM SpecSwitchTracksLamp ==
  ASSUME TxDepth >= 1, RxDepth >= NetOps + WallOps
  PROVE  Spec => []SwitchTracksLamp
<1>1. SwitchInv => SwitchTracksLamp
  BY DEF SwitchInv, SwitchTracksLamp, StateTracksLamp, Quiet, Noticed, Threads
<1>2. SwitchInv /\ [Next]_vars => SwitchInv'
  BY SwitchStep
<1> QED
  BY <1>1, <1>2, SwitchStart, PTL DEF Spec

-----------------------------------------------------------------------------
(***************************************************************************)
(* The types, for every type of light.                                     *)
(***************************************************************************)
Colours == [h : uint16_t, s : uint16_t]

\* The levels an MCU reports: 16 bits of a colour light, else thousandths.
Lit(type) == 0 .. FullBright(type)

LevelMessages(V)  == [dp : {"level"}, v : V]
ColourMessages(V) == [dp : {"colour"}, hs : Colours, v : V]

\* What may be in a queue, and what a thread may be working on.
Messages(type) ==
  Switches \cup LevelMessages(Lit(type))
           \cup IF type = "ColorControl" THEN ColourMessages(Lit(type)) ELSE {}

Jobs(type) ==
  Switches \cup LevelMessages(0 .. 254)
           \cup IF type = "ColorControl" THEN ColourMessages({0}) ELSE {}

ChipPCs == {"idle", "decide", "set", "send"}
PCs == {"idle", "compare", "update", "turn", "write", "level", "decide", "set", "send"}

ColourTypes == currentColour \in Colours /\ fromEnhanced \subseteq {"h", "s"}

\* Only a colour light's level can be 255: UpdateFromHardware cuts it to 8 bits.
LevelTypes ==
  /\ mLevel \in 0 .. 255 /\ mColorLevel \in uint16_t
  /\ mType # "ColorControl" => mLevel <= 254
  /\ lampBright \in Lit(mType)
  /\ hsv \in Colours /\ mColor \in Colours
  /\ ColourTypes

QueueTypes ==
  /\ tx \in Seq(Messages(mType)) /\ Len(tx) <= TxDepth
  /\ rx \in Seq(Messages(mType)) /\ Len(rx) <= RxDepth

ThreadTypes ==
  /\ pc \in [Threads -> PCs]
  /\ pc["chip"] \in ChipPCs
  /\ job \in [Threads -> Jobs(mType)]
  /\ report \in Messages(mType)

BudgetTypes ==
  /\ asked \in Levels[mType] \cup {0}
  /\ ignored \in BOOLEAN /\ dropped \in BOOLEAN
  /\ netLeft \in 0 .. NetOps /\ wallLeft \in 0 .. WallOps

TypeInv ==
  /\ mType \in Lights
  /\ onOff \in {0, 1} /\ lampOn \in {0, 1} /\ currentLevel \in 0 .. 254
  /\ mState \in {kState_On, kState_Off}
  /\ LevelTypes /\ QueueTypes /\ ThreadTypes /\ BudgetTypes

\* The conversions between 8 bits, 16 bits and thousandths stay in their ranges.
LEMMA LevelOfRange == ASSUME NEW b \in Nat PROVE LevelOf(b) \in 0 .. 254
BY SMTT(30) DEF LevelOf

LEMMA HsvVRange == ASSUME NEW w \in uint16_t PROVE HsvV(w) \in 0 .. 254
<1>1. w \in Nat /\ w <= 65535
  BY DEF uint16_t
<1>2. (w * 255) \div 65535 \in 0 .. 255
  BY <1>1, SMTT(30)
<1> QED
  BY <1>2 DEF HsvV

LEMMA SwappedRange == ASSUME NEW w \in uint16_t PROVE Swapped(w) \in Nat
<1>1. w \in Nat
  BY DEF uint16_t
<1>2. w % 256 \in Nat /\ w \div 256 \in Nat
  BY <1>1, SMTT(30)
<1>3. \A low, high \in Nat : low * 256 + high \in Nat
  OBVIOUS
<1>4. (w % 256) * 256 + w \div 256 \in Nat
  BY <1>2, <1>3, Zenon
<1> QED
  BY <1>4, Zenon DEF Swapped

LEMMA ThousandthsRange ==
  ASSUME NEW l \in 0 .. 254 PROVE (l * 1000) \div 254 \in 0 .. 1000
BY SMTT(30)

LEMMA ColourRange == ASSUME NEW h \in Nat PROVE (h * 65535) \div 254 \in Nat
BY SMTT(30)

LEMMA LightFacts ==
  ASSUME NEW type
  PROVE  /\ \A v \in Lit(type) : v \in Nat
         /\ 0 \in Lit(type) /\ 0 \in uint16_t
         /\ type = "ColorControl" => \A v : v \in Lit(type) <=> v \in uint16_t
         /\ type # "ColorControl" => \A v : v \in Lit(type) <=> v \in 0 .. 1000
<1>1. ASSUME type = "ColorControl"
      PROVE  \A v : v \in Lit(type) <=> v \in uint16_t
  <2> DEFINE top == FullBright(type)
  <2>1. top \in Nat /\ \A n \in Nat : n <= top <=> n <= 65535
    BY <1>1 DEF FullBright
  <2> HIDE DEF top
  <2>2. \A v : v \in 0 .. top <=> v \in Nat /\ v <= top
    BY <2>1
  <2>3. \A v : v \in 0 .. top <=> v \in uint16_t
    BY <2>1, <2>2 DEF uint16_t
  <2> QED
    BY <2>3 DEF Lit, top
<1>2. type # "ColorControl" => \A v : v \in Lit(type) <=> v \in 0 .. 1000
  BY SMTT(20) DEF FullBright, Lit
<1>3. 0 \in uint16_t /\ \A v \in uint16_t : v \in Nat
  BY DEF uint16_t
<1>4. 0 \in 0 .. 1000 /\ \A v \in 0 .. 1000 : v \in Nat
  OBVIOUS
<1>5. CASE type = "ColorControl"
  <2>1. \A v : v \in Lit(type) <=> v \in uint16_t
    BY <1>1, <1>5, Zenon
  <2> QED
    BY <1>3, <1>5, <2>1, Zenon
<1>6. CASE type # "ColorControl"
  <2>1. \A v : v \in Lit(type) <=> v \in 0 .. 1000
    BY <1>2, <1>6, Zenon
  <2> HIDE DEF Lit
  <2>2. 0 \in Lit(type) /\ \A v \in Lit(type) : v \in Nat
    BY <1>4, <2>1
  <2> QED
    BY <1>3, <1>6, <2>1, <2>2
<1> QED
  BY <1>5, <1>6

LEMMA LitIsNat == ASSUME NEW type, NEW v \in Lit(type) PROVE v \in Nat
<1>1. \A u \in Lit(type) : u \in Nat
  BY LightFacts
<1> QED
  BY <1>1

LEMMA LitOfColour ==
  ASSUME NEW type, type = "ColorControl", NEW v
  PROVE  v \in Lit(type) <=> v \in uint16_t
<1>1. \A u : u \in Lit(type) <=> u \in uint16_t
  BY LightFacts
<1> QED
  BY <1>1

\* Messages, one kind at a time.
LEMMA LevelMessageFacts ==
  ASSUME NEW V
  PROVE  /\ \A m \in LevelMessages(V) : m.dp = "level" /\ m.v \in V
         /\ \A v \in V : Level(v) \in LevelMessages(V)
BY DEF LevelMessages, Level

LEMMA ColourMessageFacts ==
  ASSUME NEW V
  PROVE  /\ \A m \in ColourMessages(V) : m.dp = "colour" /\ m.hs \in Colours /\ m.v \in V
         /\ \A hs \in Colours, v \in V : Colour(hs, v) \in ColourMessages(V)
<1>1. \A m \in ColourMessages(V) : m.dp = "colour" /\ m.hs \in Colours /\ m.v \in V
  BY DEF ColourMessages
<1>2. \A hs \in Colours, v \in V : Colour(hs, v) \in ColourMessages(V)
  BY DEF ColourMessages, Colour
<1> QED
  BY <1>1, <1>2

\* A queue with its limit keeps it.
LEMMA PutKeepsLimit ==
  ASSUME NEW S, NEW q \in Seq(S), NEW m \in S, NEW d \in Nat, Len(q) <= d
  PROVE  Put(q, d, m) \in Seq(S) /\ Len(Put(q, d, m)) <= d
<1>1. Len(q) \in Nat
  OBVIOUS
<1>2. /\ Put(q, d, m) \in Seq(S)
      /\ Len(q) < d => Len(Put(q, d, m)) = Len(q) + 1
      /\ Len(q) >= d => Put(q, d, m) = q
  BY PutFacts
<1> QED
  BY <1>1, <1>2

\* What a message or a job can be.
LEMMA MessageKinds ==
  ASSUME NEW type, NEW m \in Messages(type)
  PROVE  \/ m \in Switches /\ m.dp = "switch" /\ m.v \in {0, 1}
         \/ m.dp = "level" /\ m.v \in Lit(type)
         \/ m.dp = "colour" /\ type = "ColorControl" /\ m.hs \in Colours /\ m.v \in Lit(type)
<1>1. \/ m \in Switches
      \/ m \in LevelMessages(Lit(type))
      \/ type = "ColorControl" /\ m \in ColourMessages(Lit(type))
  BY DEF Messages
<1>2. m \in Switches => m.dp = "switch" /\ m.v \in {0, 1}
  BY SwitchFacts, Zenon
<1>3. m \in LevelMessages(Lit(type)) => m.dp = "level" /\ m.v \in Lit(type)
  BY LevelMessageFacts, Zenon
<1>4. m \in ColourMessages(Lit(type)) => m.dp = "colour" /\ m.hs \in Colours /\ m.v \in Lit(type)
  BY ColourMessageFacts, Zenon
<1> QED
  BY <1>1, <1>2, <1>3, <1>4, Zenon

LEMMA JobKinds ==
  ASSUME NEW type, NEW j \in Jobs(type)
  PROVE  \/ j \in Switches /\ j.dp = "switch" /\ j.v \in {0, 1}
         \/ j.dp = "level" /\ j.v \in 0 .. 254
         \/ j.dp = "colour" /\ type = "ColorControl" /\ j.hs \in Colours
<1>1. \/ j \in Switches
      \/ j \in LevelMessages(0 .. 254)
      \/ type = "ColorControl" /\ j \in ColourMessages({0})
  BY DEF Jobs
<1>2. j \in Switches => j.dp = "switch" /\ j.v \in {0, 1}
  BY SwitchFacts, Zenon
<1>3. j \in LevelMessages(0 .. 254) => j.dp = "level" /\ j.v \in 0 .. 254
  BY LevelMessageFacts, Zenon
<1>4. j \in ColourMessages({0}) => j.dp = "colour" /\ j.hs \in Colours
  BY ColourMessageFacts, Zenon
<1> QED
  BY <1>1, <1>2, <1>3, <1>4, Zenon

\* What belongs to them.
LEMMA MessageMembers ==
  ASSUME NEW type
  PROVE  /\ \A b \in {0, 1} : Switch(b) \in Messages(type) /\ Switch(b) \in Jobs(type)
         /\ Switches \subseteq Messages(type) /\ Switches \subseteq Jobs(type)
         /\ \A v \in Lit(type) : Level(v) \in Messages(type)
         /\ \A v \in 0 .. 254 : Level(v) \in Jobs(type)
         /\ type = "ColorControl" =>
              /\ \A hs \in Colours, v \in Lit(type) : Colour(hs, v) \in Messages(type)
              /\ \A hs \in Colours : Colour(hs, 0) \in Jobs(type)
<1>1. /\ Switches \subseteq Messages(type) /\ Switches \subseteq Jobs(type)
      /\ LevelMessages(Lit(type)) \subseteq Messages(type)
      /\ LevelMessages(0 .. 254) \subseteq Jobs(type)
  BY DEF Messages, Jobs
<1>2. \A b \in {0, 1} : Switch(b) \in Messages(type) /\ Switch(b) \in Jobs(type)
  BY <1>1, SwitchFacts
<1>3. \A v \in Lit(type) : Level(v) \in Messages(type)
  BY <1>1, LevelMessageFacts, Zenon
<1>4. \A v \in 0 .. 254 : Level(v) \in Jobs(type)
  BY <1>1, LevelMessageFacts, Zenon
<1>5. ASSUME type = "ColorControl"
      PROVE  /\ \A hs \in Colours, v \in Lit(type) : Colour(hs, v) \in Messages(type)
             /\ \A hs \in Colours : Colour(hs, 0) \in Jobs(type)
  <2>1. ColourMessages(Lit(type)) \subseteq Messages(type) /\ ColourMessages({0}) \subseteq Jobs(type)
    BY <1>5 DEF Messages, Jobs
  <2> QED
    BY <2>1, 0 \in {0}, ColourMessageFacts, Zenon
<1> QED
  BY <1>1, <1>2, <1>3, <1>4, <1>5, Zenon

\* What the conversions of the two directions make of a message and of the levels.
LEMMA HardwareLevelRange ==
  ASSUME report.v \in Lit(mType)
  PROVE  /\ HardwareLevel \in Nat /\ AttributeLevel \in 0 .. 254
         /\ mType # "ColorControl" => HardwareLevel \in 0 .. 254
<1>1. CASE mType = "ColorControl"
  <2>1. report.v \in uint16_t
    BY <1>1, LitOfColour
  <2>2. HardwareLevel = Swapped(report.v) /\ AttributeLevel = HsvV(report.v)
    BY <1>1, Zenon DEF HardwareLevel, AttributeLevel
  <2>3. Swapped(report.v) \in Nat /\ HsvV(report.v) \in 0 .. 254
    BY <2>1, SwappedRange, HsvVRange, Zenon
  <2> QED
    BY <1>1, <2>2, <2>3, Zenon
<1>2. CASE mType # "ColorControl"
  <2>1. report.v \in Nat
    BY LitIsNat
  <2>2. HardwareLevel = LevelOf(report.v) /\ AttributeLevel = LevelOf(report.v)
    BY <1>2, Zenon DEF HardwareLevel, AttributeLevel
  <2>3. LevelOf(report.v) \in 0 .. 254
    BY <2>1, LevelOfRange, Zenon
  <2> QED
    BY <2>2, <2>3
<1> QED
  BY <1>1, <1>2

LEMMA WordRange == ASSUME NEW n \in Nat PROVE n % 65536 \in uint16_t
BY DEF uint16_t

LEMMA ColorLevelRange ==
  ASSUME NEW l \in Nat, mColorLevel \in uint16_t
  PROVE  ColorLevelAfterSet(l) \in uint16_t
<1> DEFINE wide   == (l * 65535) \div 254
           narrow == wide % 65536
<1>1. wide \in Nat
  BY ColourRange
<1>2. ColorLevelAfterSet(l) \in {narrow, mColorLevel}
  BY DEF ColorLevelAfterSet
<1> HIDE DEF wide
<1>3. narrow \in uint16_t
  BY <1>1, WordRange
<1> HIDE DEF narrow
<1> QED
  BY <1>2, <1>3, Zenon

LEMMA WordIsNat == \A n \in uint16_t : n \in Nat
BY DEF uint16_t

\* A colour is scaled to 16 bits whatever its bytes are.
LEMMA ColorWordRange == ASSUME NEW byte \in Nat PROVE ColorWord(byte) \in uint16_t
<1> DEFINE wide == (byte * 65535) \div 254
<1>1. wide \in Nat
  BY ColourRange
<1> HIDE DEF wide
<1>2. wide % 65536 \in uint16_t
  BY <1>1, WordRange
<1> QED
  BY <1>2 DEF ColorWord, wide

LEMMA ColourParts ==
  /\ \A hs \in Colours : hs.h \in uint16_t /\ hs.s \in uint16_t
  /\ \A a, b \in uint16_t : [h |-> a, s |-> b] \in Colours
BY DEF Colours

LEMMA ColorOfType == ASSUME NEW hs \in Colours PROVE ColorOf(hs) \in Colours
<1>1. hs.h \in Nat /\ hs.s \in Nat
  BY ColourParts, WordIsNat, Zenon
<1>2. ColorWord(hs.h) \in uint16_t /\ ColorWord(hs.s) \in uint16_t
  BY <1>1, ColorWordRange, Zenon
<1> QED
  BY <1>2, ColourParts, Zenon DEF ColorOf

\* A part of a colour is replaced.
LEMMA ColourExcept ==
  ASSUME NEW hs \in Colours, NEW w \in uint16_t
  PROVE  /\ [hs EXCEPT !.h = w] \in Colours /\ [hs EXCEPT !.s = w] \in Colours
         /\ [hs EXCEPT !.h = w].h = w /\ [hs EXCEPT !.h = w].s = hs.s
         /\ [hs EXCEPT !.s = w].s = w /\ [hs EXCEPT !.s = w].h = hs.h
BY DEF Colours

\* The bytes that a controller writes, and those of a 16-bit hue.
LEMMA ColourInputs ==
  /\ \A h \in Hues : h \in uint16_t
  /\ \A x \in Saturations : x \in uint16_t
  /\ \A e \in EnhancedHues : Split(e) \in Colours
<1>1. \A n \in 0 .. 254 : n \in uint16_t
  BY DEF uint16_t
<1>2. \A h \in Hues : h \in uint16_t
  BY <1>1, Limits
<1>3. \A x \in Saturations : x \in uint16_t
  BY <1>1, Limits
<1>4. ASSUME NEW e \in EnhancedHues PROVE Split(e) \in Colours
  <2>1. e \in Nat /\ e <= 65535
    <3>1. EnhancedHues \subseteq uint16_t
      BY LightSyncAssumption, Zenon
    <3> QED
      BY <3>1 DEF uint16_t
  <2>2. e \div 256 \in Nat /\ e \div 256 <= 65535 /\ e % 256 \in Nat /\ e % 256 <= 65535
    BY <2>1
  <2>3. e \div 256 \in uint16_t /\ e % 256 \in uint16_t
    BY <2>2 DEF uint16_t
  <2> QED
    BY <2>3, ColourParts, Zenon DEF Split
<1> QED
  BY <1>2, <1>3, <1>4

LEMMA CommandType ==
  ASSUME LevelTypes, mType \in Lights, mState \in {kState_On, kState_Off},
         NEW j \in Jobs(mType)
  PROVE  Command(j) \in Messages(mType)
<1>1. CASE j.dp = "switch"
  <2>1. Command(j) = Switch(IsTurnedOn) /\ IsTurnedOn \in {0, 1}
    BY <1>1 DEF Command, IsTurnedOn
  <2> QED
    BY <2>1, MessageMembers
<1>2. CASE j.dp = "colour"
  <2>1. mType = "ColorControl"
    BY <1>2, JobKinds
  <2>2. Command(j) = Colour(mColor, mColorLevel)
    BY <1>2 DEF Command
  <2>3. mColor \in Colours /\ mColorLevel \in Lit(mType)
    BY <2>1, LitOfColour DEF LevelTypes
  <2> QED
    BY <2>1, <2>2, <2>3, MessageMembers, Zenon
<1>3. CASE j.dp = "level"
  <2> DEFINE v == IF mType = "ColorControl" THEN mColorLevel ELSE (mLevel * 1000) \div 254
  <2>1. Command(j) = Level(v)
    BY <1>3 DEF Command
  <2>2. v \in Lit(mType)
    <3>1. CASE mType = "ColorControl"
      <4>1. mColorLevel \in Lit(mType)
        BY <3>1, LitOfColour DEF LevelTypes
      <4>2. v = mColorLevel
        BY <3>1
      <4> QED
        BY <4>1, <4>2
    <3>2. CASE mType # "ColorControl"
      <4>1. mLevel \in 0 .. 254
        BY <3>2 DEF LevelTypes
      <4>2. (mLevel * 1000) \div 254 \in 0 .. 1000
        BY <4>1, ThousandthsRange
      <4> QED
        BY <3>2, <4>2, LightFacts
    <3> QED
      BY <3>1, <3>2
  <2> HIDE DEF v
  <2> QED
    BY <2>1, <2>2, MessageMembers
<1> QED
  BY <1>1, <1>2, <1>3, JobKinds

-----------------------------------------------------------------------------
LEMMA TypeStart == Init => TypeInv
<1> SUFFICES ASSUME Init PROVE TypeInv
  OBVIOUS
<1>1. mType \in Lights /\ onOff \in {0, 1} /\ lampOn \in {0, 1} /\ currentLevel \in 0 .. 254
      /\ mState \in {kState_On, kState_Off}
  BY DEF Init
<1>2. LevelTypes
  <2>1. 0 \in Lit(mType) /\ 0 \in uint16_t
    BY LightFacts, Zenon
  <2>2. [h |-> 0, s |-> 0] \in Colours
    BY <2>1 DEF Colours
  <2> QED
    BY <2>1, <2>2 DEF Init, LevelTypes, ColourTypes
<1>3. QueueTypes
  BY Limits DEF Init, QueueTypes
<1>4. ThreadTypes
  <2>1. NoJob \in Messages(mType) /\ NoJob \in Jobs(mType)
    BY MessageMembers DEF NoJob
  <2> QED
    BY <2>1 DEF Init, ThreadTypes, Threads, PCs, ChipPCs
<1>5. BudgetTypes
  <2>1. NetOps \in Nat /\ WallOps \in Nat
    BY Limits
  <2>2. asked = 0 /\ ignored = FALSE /\ dropped = FALSE /\ netLeft = NetOps /\ wallLeft = WallOps
    BY DEF Init
  <2>3. netLeft \in 0 .. NetOps /\ wallLeft \in 0 .. WallOps
    BY <2>1, <2>2
  <2>4. ignored \in BOOLEAN /\ dropped \in BOOLEAN
    BY <2>2, Zenon
  <2> QED
    BY <2>2, <2>3, <2>4 DEF BudgetTypes
<1> QED
  BY <1>1, <1>2, <1>3, <1>4, <1>5 DEF TypeInv

\* A thread that goes on to one of its steps.
LEMMA PcMoves ==
  ASSUME pc \in [Threads -> PCs], pc["chip"] \in ChipPCs,
         NEW t \in Threads, NEW next \in PCs, t = "chip" => next \in ChipPCs
  PROVE  /\ [pc EXCEPT ![t] = next] \in [Threads -> PCs]
         /\ [pc EXCEPT ![t] = next]["chip"] \in ChipPCs
BY DEF Threads

\* A callback's steps.
LEMMA CallbackTypes ==
  ASSUME TypeInv, NEW t \in Threads, Callback(t)
  PROVE  TypeInv'
<1>1. AfterCallback(t) \in {"idle", "level"} /\ (t = "chip" => AfterCallback(t) = "idle")
  BY DEF AfterCallback
<1>2. job[t] \in Jobs(mType) /\ t \in {"chip", "app"}
  BY DEF TypeInv, ThreadTypes, Threads
<1>3. CASE Decide(t)
  <2>1. PICK next \in {"set", "idle", "level"} :
           pc' = [pc EXCEPT ![t] = next] /\ (t = "chip" => next \in ChipPCs)
    BY <1>1, <1>3, Zenon DEF Decide, ChipPCs
  <2>2. next \in PCs
    BY DEF PCs
  <2>3. pc' \in [Threads -> PCs] /\ pc'["chip"] \in ChipPCs
    BY <2>1, <2>2, PcMoves DEF TypeInv, ThreadTypes
  <2>4. ThreadTypes'
    BY <1>3, <2>3 DEF Decide, TypeInv, ThreadTypes, dimmer
  <2>5. ignored' \in BOOLEAN
    BY <1>3, Zenon DEF Decide, TypeInv, BudgetTypes
  <2>6. BudgetTypes'
    BY <1>3, <2>5 DEF Decide, TypeInv, BudgetTypes, dimmer
  <2>7. /\ UNCHANGED <<mType, onOff, lampOn, currentLevel, mState>>
        /\ LevelTypes' /\ QueueTypes'
    BY <1>3 DEF Decide, TypeInv, LevelTypes, ColourTypes, QueueTypes, attributes, dimmer, lamp
  <2> QED
    BY <2>4, <2>6, <2>7 DEF TypeInv
<1>4. CASE SetDevice(t)
  <2>1. ThreadTypes'
    BY <1>4 DEF SetDevice, TypeInv, ThreadTypes, PCs, ChipPCs, Threads
  <2>2. QueueTypes' /\ BudgetTypes' /\ UNCHANGED <<mType, onOff, lampOn, currentLevel>>
    BY <1>4 DEF SetDevice, TypeInv, QueueTypes, BudgetTypes, budget, attributes, lamp
  <2>3. mState' \in {kState_On, kState_Off}
    BY <1>4 DEF SetDevice, TypeInv, StateAfterSet
  <2>4. LevelTypes'
    <3>1. CASE job[t].dp = "switch"
      <4>1. UNCHANGED <<mLevel, mColorLevel, mColor, lampBright, hsv, currentColour, fromEnhanced, mType>>
        BY <1>4, <3>1 DEF SetDevice, attributes, lamp
      <4> QED
        BY <4>1 DEF TypeInv, LevelTypes, ColourTypes
    <3>2. CASE job[t].dp = "level"
      <4>1. /\ UNCHANGED <<mColor, lampBright, hsv, currentColour, fromEnhanced, mType>>
            /\ mLevel' = job[t].v /\ mColorLevel' = ColorLevelAfterSet(job[t].v)
        BY <1>4, <3>2 DEF SetDevice, attributes, lamp
      <4>2. job[t].v \in 0 .. 254
        BY <1>2, <3>2, JobKinds
      <4>3. ColorLevelAfterSet(job[t].v) \in uint16_t
        BY <4>2, ColorLevelRange DEF TypeInv, LevelTypes, ColourTypes
      <4> QED
        BY <4>1, <4>2, <4>3 DEF TypeInv, LevelTypes, ColourTypes
    <3>3. CASE job[t].dp = "colour"
      <4>1. /\ UNCHANGED <<mLevel, mColorLevel, lampBright, hsv, currentColour, fromEnhanced, mType>>
            /\ mColor' = ColorOf(job[t].hs)
        BY <1>4, <3>3 DEF SetDevice, attributes, lamp
      <4>2. job[t].hs \in Colours
        BY <1>2, <3>3, JobKinds
      <4>4. ColorOf(job[t].hs) \in Colours
        BY <4>2, ColorOfType
      <4> QED
        BY <4>1, <4>4 DEF TypeInv, LevelTypes, ColourTypes
    <3> QED
      BY <1>2, <3>1, <3>2, <3>3, JobKinds
  <2> QED
    BY <2>1, <2>2, <2>3, <2>4 DEF TypeInv
<1>5. CASE SendToMcu(t)
  <2>1. ThreadTypes'
    <3>1. AfterCallback(t) \in PCs /\ (t = "chip" => AfterCallback(t) \in ChipPCs)
      BY <1>1 DEF PCs, ChipPCs
    <3>2. pc' \in [Threads -> PCs] /\ pc'["chip"] \in ChipPCs
      BY <1>5, <3>1, PcMoves DEF SendToMcu, TypeInv, ThreadTypes
    <3> QED
      BY <1>5, <3>2 DEF SendToMcu, TypeInv, ThreadTypes, dimmer
  <2>2. Command(job[t]) \in Messages(mType)
    BY <1>2, CommandType DEF TypeInv
  <2>3. QueueTypes'
    <3>1. Put(tx, TxDepth, Command(job[t])) \in Seq(Messages(mType))
          /\ Len(Put(tx, TxDepth, Command(job[t]))) <= TxDepth
      BY <2>2, PutKeepsLimit, Limits DEF TypeInv, QueueTypes
    <3> QED
      BY <1>5, <3>1 DEF SendToMcu, TypeInv, QueueTypes, dimmer
  <2>4. BudgetTypes'
    BY <1>5 DEF SendToMcu, TypeInv, BudgetTypes, dimmer
  <2>5. /\ UNCHANGED <<mType, onOff, lampOn, currentLevel, mState>>
        /\ LevelTypes'
    BY <1>5 DEF SendToMcu, TypeInv, LevelTypes, ColourTypes, attributes, dimmer, lamp
  <2> QED
    BY <2>1, <2>3, <2>4, <2>5 DEF TypeInv
<1> QED
  BY <1>3, <1>4, <1>5 DEF Callback

-----------------------------------------------------------------------------
\* The application thread's steps before the attribute write.
LEMMA UartTypes ==
  ASSUME TypeInv, HandleUartCallback \/ Compare PROVE TypeInv'
<1>0. UNCHANGED <<attributes, dimmer, lamp, budget>>
  BY DEF HandleUartCallback, Compare
<1>1. /\ UNCHANGED <<mType, onOff, lampOn, currentLevel, mState>>
      /\ LevelTypes' /\ BudgetTypes'
  BY <1>0 DEF TypeInv, LevelTypes, ColourTypes, BudgetTypes, attributes, dimmer, lamp, budget
<1>2. PICK next \in {"compare", "update", "idle"} : pc' = [pc EXCEPT !["app"] = next]
  BY Zenon DEF HandleUartCallback, Compare
<1>3. pc' \in [Threads -> PCs] /\ pc'["chip"] \in ChipPCs
  <2>1. next \in PCs /\ "app" \in Threads /\ "app" # "chip"
    BY DEF PCs, Threads
  <2> QED
    BY <1>2, <2>1, PcMoves DEF TypeInv, ThreadTypes
<1>4. CASE HandleUartCallback
  <2>1. rx \in Seq(Messages(mType)) /\ rx # <<>>
    BY <1>4 DEF HandleUartCallback, TypeInv, QueueTypes
  <2>2. /\ Head(rx) \in Messages(mType)
        /\ Tail(rx) \in Seq(Messages(mType)) /\ Len(Tail(rx)) = Len(rx) - 1
    BY <2>1, HeadTailProperties
  <2>3. Len(Tail(rx)) <= RxDepth
    BY <2>1, <2>2, EmptyFacts, Limits DEF TypeInv, QueueTypes
  <2>4. QueueTypes' /\ ThreadTypes'
    BY <1>3, <1>4, <2>2, <2>3 DEF HandleUartCallback, TypeInv, QueueTypes, ThreadTypes, dimmer
  <2> QED
    BY <1>1, <2>4 DEF TypeInv
<1>5. CASE Compare
  <2>1. QueueTypes' /\ ThreadTypes'
    BY <1>3, <1>5 DEF Compare, TypeInv, QueueTypes, ThreadTypes, dimmer
  <2> QED
    BY <1>1, <2>1 DEF TypeInv
<1> QED
  BY <1>4, <1>5

\* What a report carries is in the range of the light's levels, even a switch.
LEMMA ReportLevel ==
  ASSUME TypeInv PROVE report.v \in Lit(mType)
<1>1. 1 \in uint16_t /\ 1 \in 0 .. 1000
  BY DEF uint16_t
<1>2. 0 \in Lit(mType) /\ 1 \in Lit(mType)
  BY <1>1, LightFacts
<1> QED
  BY <1>2, MessageKinds DEF TypeInv, ThreadTypes

LEMMA UpdateTypes ==
  ASSUME TypeInv, UpdateFromHardware PROVE TypeInv'
<1>1. /\ UNCHANGED <<mType, onOff, lampOn, currentLevel>>
      /\ QueueTypes' /\ BudgetTypes'
  BY DEF UpdateFromHardware, UpdateSwitch, UpdateLevel, TurnWithLevel, TypeInv, QueueTypes,
         BudgetTypes, attributes, lamp, budget
<1>2. PICK next \in {"write", "turn"} : pc' = [pc EXCEPT !["app"] = next]
  BY DEF UpdateFromHardware, UpdateSwitch, UpdateLevel, TurnWithLevel
<1>3. ThreadTypes'
  <2>1. next \in PCs /\ "app" \in Threads /\ "app" # "chip"
    BY DEF PCs, Threads
  <2>2. pc' \in [Threads -> PCs] /\ pc'["chip"] \in ChipPCs
    BY <1>2, <2>1, PcMoves DEF TypeInv, ThreadTypes
  <2> QED
    BY <1>1, <2>2 DEF UpdateFromHardware, UpdateSwitch, UpdateLevel, TurnWithLevel,
                      TypeInv, ThreadTypes
<1>4. CASE UpdateSwitch \/ TurnWithLevel
  <2>1. mState' \in {kState_On, kState_Off}
    BY <1>4 DEF UpdateSwitch, TurnWithLevel, StateAfterSet
  <2>2. LevelTypes'
    <3>1. UNCHANGED <<mType, mLevel, mColorLevel, mColor, lampBright, hsv, currentColour,
                      fromEnhanced>>
      BY <1>4 DEF UpdateSwitch, TurnWithLevel, attributes, lamp
    <3> QED
      BY <3>1 DEF TypeInv, LevelTypes, ColourTypes
  <2> QED
    BY <1>1, <1>3, <2>1, <2>2 DEF TypeInv
<1>5. CASE UpdateLevel
  <2> DEFINE l == HardwareLevel % 256
  <2>1. HardwareLevel \in Nat /\ (mType # "ColorControl" => HardwareLevel \in 0 .. 254)
    BY ReportLevel, HardwareLevelRange
  <2>2. l \in 0 .. 255 /\ (mType # "ColorControl" => l <= 254)
    BY <2>1
  <2>3. ColorLevelAfterSet(l) \in uint16_t
    BY <2>2, ColorLevelRange DEF TypeInv, LevelTypes, ColourTypes
  <2>4. /\ mLevel' = l /\ mColorLevel' = ColorLevelAfterSet(l)
        /\ UNCHANGED <<mType, mState, mColor, hsv, currentColour, fromEnhanced, lampBright>>
    BY <1>5 DEF UpdateLevel, attributes, lamp
  <2> HIDE DEF l
  <2>5. LevelTypes'
    BY <2>2, <2>3, <2>4 DEF TypeInv, LevelTypes, ColourTypes
  <2> QED
    BY <1>1, <1>3, <2>4, <2>5 DEF TypeInv
<1> QED
  BY <1>4, <1>5 DEF UpdateFromHardware

\* An attribute write of a job of its type.
LEMMA WriteTypes ==
  ASSUME TypeInv, NEW t \in Threads, NEW j \in Jobs(mType), SetAttribute(t, j), BudgetTypes',
         ColourTypes'
  PROVE  TypeInv'
<1>1. /\ UNCHANGED <<mType, mState, mLevel, mColorLevel, mColor, lampOn, lampBright, tx, rx, report>>
      /\ pc' = [pc EXCEPT ![t] = "decide"] /\ job' = [job EXCEPT ![t] = j]
  BY DEF SetAttribute, dimmer, lamp
<1>2. onOff' \in {0, 1} /\ currentLevel' \in 0 .. 254 /\ hsv' \in Colours
  <2>1. CASE j.dp = "switch"
    BY <2>1, JobKinds DEF SetAttribute, colour, TypeInv, LevelTypes
  <2>2. CASE j.dp = "level"
    BY <2>2, JobKinds DEF SetAttribute, colour, TypeInv, LevelTypes
  <2>3. CASE j.dp = "colour"
    BY <2>3, JobKinds DEF SetAttribute, TypeInv, LevelTypes
  <2> QED
    BY <2>1, <2>2, <2>3, JobKinds
<1>3. pc' \in [Threads -> PCs] /\ pc'["chip"] \in ChipPCs
  <2>1. "decide" \in PCs /\ "decide" \in ChipPCs
    BY DEF PCs, ChipPCs
  <2> QED
    BY <1>1, <2>1, PcMoves DEF TypeInv, ThreadTypes
<1>4. ThreadTypes'
  BY <1>1, <1>3 DEF TypeInv, ThreadTypes
<1>5. LevelTypes' /\ QueueTypes'
  BY <1>1, <1>2 DEF TypeInv, LevelTypes, ColourTypes, QueueTypes
<1> QED
  BY <1>1, <1>2, <1>4, <1>5 DEF TypeInv

LEMMA AppWriteTypes ==
  ASSUME TypeInv, WriteAttribute PROVE TypeInv'
<1>1. BudgetTypes'
  <2>1. UNCHANGED <<budget, mType>>
    BY DEF WriteAttribute, SetAttribute, dimmer
  <2> QED
    BY <2>1 DEF TypeInv, BudgetTypes, budget
<1>2. Level(AttributeLevel) \in Jobs(mType)
  BY ReportLevel, HardwareLevelRange, MessageMembers, Zenon
<1>3. Switch(0) \in Jobs(mType)
  BY MessageMembers
<1>4. report.dp = "switch" => report \in Jobs(mType)
  BY MessageKinds, MessageMembers DEF TypeInv, ThreadTypes
<1>5. PICK j \in Jobs(mType) : SetAttribute("app", j) /\ j.dp # "colour"
  <2>1. Level(AttributeLevel).dp = "level" /\ Switch(0).dp = "switch"
    BY DEF Level, Switch
  <2>2. "switch" # "colour" /\ "level" # "colour"
    OBVIOUS
  <2> QED
    BY <1>2, <1>3, <1>4, <2>1, <2>2, Zenon DEF WriteAttribute
<1>6. ColourTypes'
  BY <1>5 DEF SetAttribute, colour, TypeInv, LevelTypes, ColourTypes
<1> QED
  BY <1>1, <1>5, <1>6, WriteTypes DEF Threads

\* A controller's writes.
LEMMA NetTypes ==
  ASSUME TypeInv, NetSwitch \/ NetLevel \/ NetColour PROVE TypeInv'
<1>1. PICK j \in Jobs(mType) : Net(j) /\ (j.dp = "level" => j.v \in Levels[mType])
  <2>1. CASE NetSwitch
    <3>1. Switch(1 - onOff) \in Jobs(mType) /\ Switch(1 - onOff).dp = "switch"
      BY MessageMembers, SwitchFacts DEF TypeInv
    <3> QED
      BY <2>1, <3>1 DEF NetSwitch
  <2>2. CASE NetLevel
    <3>1. PICK l \in Levels[mType] : Net(Level(l))
      BY <2>2 DEF NetLevel
    <3>2. l \in 0 .. 254
      BY Limits DEF TypeInv
    <3>3. Level(l) \in Jobs(mType) /\ Level(l).v = l
      BY <3>2, MessageMembers DEF Level
    <3> QED
      BY <3>1, <3>3
  <2>3. CASE NetColour
    <3>1. hsv \in Colours /\ mType = "ColorControl"
      BY <2>3 DEF NetColour, TypeInv, LevelTypes, ColourTypes
    <3>3. PICK hs \in Colours : Net(Colour(hs, 0))
      <4>1. \A h \in Hues : [hsv EXCEPT !.h = h] \in Colours
        BY <3>1, ColourInputs, ColourExcept, Zenon
      <4>2. \A x \in Saturations : [hsv EXCEPT !.s = x] \in Colours
        BY <3>1, ColourInputs, ColourExcept, Zenon
      <4>3. \A e \in EnhancedHues : Split(e) \in Colours
        BY ColourInputs
      <4> QED
        BY <2>3, <4>1, <4>2, <4>3, Zenon DEF NetColour
    <3>4. Colour(hs, 0) \in Jobs(mType) /\ Colour(hs, 0).dp = "colour"
      BY <3>1, MessageMembers DEF Colour
    <3> QED
      BY <3>3, <3>4
  <2> QED
    BY <2>1, <2>2, <2>3
<1>2. SetAttribute("chip", j) /\ UNCHANGED mType
  BY <1>1 DEF Net, SetAttribute, dimmer
<1>4. ColourTypes'
  <2>1. CASE NetSwitch
    <3>1. Switch(1 - onOff).dp = "switch"
      BY DEF Switch
    <3> QED
      BY <2>1, <3>1 DEF NetSwitch, Net, SetAttribute, colour, TypeInv, LevelTypes, ColourTypes
  <2>2. CASE NetLevel
    <3>1. \A l : Level(l).dp = "level"
      BY DEF Level
    <3> QED
      BY <2>2, <3>1 DEF NetLevel, Net, SetAttribute, colour, TypeInv, LevelTypes, ColourTypes
  <2>3. CASE NetColour
    <3>1. currentColour \in Colours
      BY DEF TypeInv, LevelTypes, ColourTypes
    <3>2. currentColour' \in Colours
      <4>1. \A h \in Hues : [currentColour EXCEPT !.h = h] \in Colours
        BY <3>1, ColourInputs, ColourExcept, Zenon
      <4>2. \A x \in Saturations : [currentColour EXCEPT !.s = x] \in Colours
        BY <3>1, ColourInputs, ColourExcept, Zenon
      <4> QED
        BY <2>3, <3>1, <4>1, <4>2, Zenon DEF NetColour
    <3>3. fromEnhanced' \subseteq {"h", "s"}
      BY <2>3 DEF NetColour, TypeInv, LevelTypes, ColourTypes
    <3> QED
      BY <3>2, <3>3 DEF ColourTypes
  <2> QED
    BY <2>1, <2>2, <2>3
<1>3. BudgetTypes'
  <2>1. netLeft' \in 0 .. NetOps
    BY <1>1, Limits DEF Net, TypeInv, BudgetTypes
  <2>2. asked' \in Levels[mType] \cup {0}
    BY <1>1 DEF Net, TypeInv, BudgetTypes
  <2> QED
    BY <1>1, <1>2, <2>1, <2>2 DEF Net, TypeInv, BudgetTypes
<1> QED
  BY <1>2, <1>3, <1>4, WriteTypes DEF Threads

\* The lamp's steps.
LEMMA DriveTypes ==
  ASSUME TypeInv, NEW cmd \in Messages(mType), Drive(cmd)
  PROVE  /\ lampOn' \in {0, 1} /\ lampBright' \in Lit(mType)
         /\ rx' \in Seq(Messages(mType)) /\ Len(rx') <= RxDepth
<1>1. lampOn' \in {0, 1}
  BY MessageKinds DEF Drive, TypeInv
<1>2. lampBright' \in Lit(mType)
  <2>1. CASE cmd.dp = "switch"
    BY <2>1 DEF Drive, TypeInv, LevelTypes
  <2>2. CASE cmd.dp = "level"
    BY <2>2, MessageKinds DEF Drive, Heard
  <2>3. CASE cmd.dp = "colour"
    <3>1. mType = "ColorControl" /\ cmd.hs \in Colours /\ cmd.v \in Lit(mType)
      BY <2>3, MessageKinds
    <3>2. cmd.hs.h \in Lit(mType)
      BY <3>1, ColourParts, LitOfColour
    <3>3. Heard(cmd).v \in {cmd.v, cmd.hs.h}
      BY DEF Heard, Colour
    <3> QED
      BY <2>3, <3>1, <3>2, <3>3 DEF Drive
  <2> QED
    BY <2>1, <2>2, <2>3, MessageKinds
<1>3. RxDepth \in Nat /\ rx \in Seq(Messages(mType)) /\ Len(rx) <= RxDepth
  BY Limits DEF TypeInv, QueueTypes
<1> DEFINE once == Put(rx, RxDepth, cmd)
<1>4. once \in Seq(Messages(mType)) /\ Len(once) <= RxDepth
  BY <1>3, PutKeepsLimit
<1>5. Level(lampBright) \in Messages(mType)
  BY MessageMembers DEF TypeInv, LevelTypes, ColourTypes
<1>6. rx' \in {once, Put(once, RxDepth, Level(lampBright))}
  BY DEF Drive
<1> HIDE DEF once
<1>7. /\ Put(once, RxDepth, Level(lampBright)) \in Seq(Messages(mType))
      /\ Len(Put(once, RxDepth, Level(lampBright))) <= RxDepth
  BY <1>3, <1>4, <1>5, PutKeepsLimit
<1> QED
  BY <1>1, <1>2, <1>4, <1>6, <1>7

LEMMA LampTypes ==
  ASSUME TypeInv, parking_message \/ WallSwitch \/ WallDim PROVE TypeInv'
<1>1. PICK cmd \in Messages(mType) : Drive(cmd)
  <2>1. CASE parking_message
    <3>1. Head(tx) \in Messages(mType)
      BY <2>1, HeadTailProperties DEF parking_message, TypeInv, QueueTypes
    <3> QED
      BY <2>1, <3>1 DEF parking_message
  <2>2. CASE WallSwitch
    <3>1. Switch(1 - lampOn) \in Messages(mType)
      BY MessageMembers DEF TypeInv
    <3> QED
      BY <2>2, <3>1 DEF WallSwitch, Wall
  <2>3. CASE WallDim
    <3>1. PICK v \in Brights[mType] : Wall(Level(v))
      BY <2>3 DEF WallDim
    <3>2. v \in Lit(mType)
      BY Limits DEF TypeInv, Lit
    <3> QED
      BY <3>1, <3>2, MessageMembers DEF Wall
  <2> QED
    BY <2>1, <2>2, <2>3
<1>2. UNCHANGED <<attributes, dimmer, threads>>
  BY DEF parking_message, WallSwitch, WallDim, Wall
<1>3. /\ UNCHANGED <<mType, onOff, currentLevel, mState, mLevel, mColorLevel, mColor, hsv,
                   currentColour, fromEnhanced>>
      /\ ThreadTypes'
  BY <1>2 DEF attributes, dimmer, threads, TypeInv, ThreadTypes
<1>4. /\ lampOn' \in {0, 1} /\ lampBright' \in Lit(mType)
      /\ rx' \in Seq(Messages(mType)) /\ Len(rx') <= RxDepth
  BY <1>1, DriveTypes
<1>5. LevelTypes'
  BY <1>3, <1>4 DEF TypeInv, LevelTypes, ColourTypes
<1>6. tx' \in Seq(Messages(mType)) /\ Len(tx') <= TxDepth
  <2>1. CASE tx' = tx
    BY <2>1 DEF TypeInv, QueueTypes
  <2>2. CASE tx # <<>> /\ tx' = Tail(tx)
    <3>1. tx' \in Seq(Messages(mType)) /\ Len(tx') = Len(tx) - 1
      BY <2>2, HeadTailProperties DEF TypeInv, QueueTypes
    <3>2. Len(tx) \in Nat /\ Len(tx) <= TxDepth /\ TxDepth \in Nat
      BY Limits DEF TypeInv, QueueTypes
    <3> QED
      BY <3>1, <3>2
  <2> QED
    BY <2>1, <2>2 DEF parking_message, WallSwitch, WallDim, Wall
<1>7. QueueTypes'
  BY <1>3, <1>4, <1>6 DEF QueueTypes
<1>8. BudgetTypes'
  <2>1. CASE parking_message
    <3>1. UNCHANGED <<ignored, netLeft, asked, wallLeft>>
      BY <2>1 DEF parking_message
    <3> QED
      BY <1>1, <1>3, <3>1 DEF Drive, TypeInv, BudgetTypes
  <2>2. CASE WallSwitch \/ WallDim
    <3>1. /\ UNCHANGED <<ignored, netLeft>> /\ asked' \in {0, asked}
          /\ wallLeft' = wallLeft - 1 /\ wallLeft > 0
      BY <2>2 DEF WallSwitch, WallDim, Wall
    <3>2. wallLeft' \in 0 .. WallOps
      BY <3>1, Limits DEF TypeInv, BudgetTypes
    <3> QED
      BY <1>1, <1>3, <3>1, <3>2 DEF Drive, TypeInv, BudgetTypes
  <2> QED
    BY <2>1, <2>2
<1> QED
  BY <1>3, <1>4, <1>5, <1>7, <1>8 DEF TypeInv

LEMMA TypeStep == TypeInv /\ [Next]_vars => TypeInv'
<1> SUFFICES ASSUME TypeInv, [Next]_vars PROVE TypeInv'
  OBVIOUS
<1>1. CASE \E t \in Threads : Callback(t)
  BY <1>1, CallbackTypes
<1>2. CASE HandleUartCallback \/ Compare
  BY <1>2, UartTypes
<1>3. CASE UpdateFromHardware
  BY <1>3, UpdateTypes
<1>4. CASE WriteAttribute
  BY <1>4, AppWriteTypes
<1>5. CASE parking_message \/ WallSwitch \/ WallDim
  BY <1>5, LampTypes
<1>6. CASE NetSwitch \/ NetLevel \/ NetColour
  BY <1>6, NetTypes
<1>7. CASE UNCHANGED vars
  <2>1. UNCHANGED <<attributes, dimmer, tx, rx, lamp, threads, budget>>
    BY <1>7 DEF vars
  <2> QED
    BY <2>1 DEF TypeInv, LevelTypes, ColourTypes, QueueTypes, ThreadTypes, BudgetTypes,
                attributes, dimmer, lamp, threads, budget
<1> QED
  BY <1>1, <1>2, <1>3, <1>4, <1>5, <1>6, <1>7 DEF Next, App, Chip, Threads

-----------------------------------------------------------------------------
\* Every attribute, level and message stays in its range on every type of light,
\* whatever the two threads and the MCU do to them.
THEOREM SpecTypeOK == Spec => []TypeOK
<1>1. TypeInv => TypeOK
  <2> SUFFICES ASSUME TypeInv PROVE TypeOK
    OBVIOUS
  <2>1. \A m \in Messages(mType) : m.dp \in {"switch", "level", "colour"}
    BY MessageKinds
  <2>2. \A q \in {tx, rx} : \A i \in DOMAIN q : q[i].dp \in {"switch", "level", "colour"}
    BY <2>1, ElementOfSeq DEF TypeInv, QueueTypes
  <2>3. mColorLevel \in uint16_t /\ lampBright \in 0 .. FullBright(mType)
    <3>1. mColorLevel \in uint16_t /\ lampBright \in Lit(mType)
      BY DEF TypeInv, LevelTypes
    <3>3. lampBright \in 0 .. FullBright(mType)
      BY <3>1 DEF Lit
    <3> QED
      BY <3>1, <3>3
  <2>4. pc["chip"] \in {"idle", "decide", "set", "send"} /\ pc["app"] \in PCs
    BY DEF TypeInv, ThreadTypes, ChipPCs, Threads
  <2>5. /\ onOff \in 0 .. 1 /\ currentLevel \in 0 .. 254 /\ mLevel \in 0 .. 255
        /\ lampOn \in 0 .. 1 /\ mType \in Lights /\ mState \in {kState_On, kState_Off}
    BY DEF TypeInv, LevelTypes
  <2>6. {ignored, dropped} \subseteq BOOLEAN
    BY Zenon DEF TypeInv, BudgetTypes
  <2>7. /\ Len(tx) <= TxDepth /\ Len(rx) <= RxDepth /\ asked \in Levels[mType] \cup {0}
        /\ netLeft \in 0 .. NetOps /\ wallLeft \in 0 .. WallOps
    BY Zenon DEF TypeInv, QueueTypes, BudgetTypes
  <2>9. fromEnhanced \subseteq {"h", "s"}
    BY DEF TypeInv, LevelTypes, ColourTypes
  <2>8. pc["app"] \in {"idle", "compare", "update", "turn", "write", "level",
                      "decide", "set", "send"}
    BY <2>4, Zenon DEF PCs
  <2> QED
    BY <2>2, <2>3, <2>4, <2>5, <2>6, <2>7, <2>8, <2>9 DEF TypeOK
<1> QED
  BY <1>1, TypeStart, TypeStep, PTL DEF Spec
-----------------------------------------------------------------------------
(***************************************************************************)
(* The level of a dimmer: as long as no message is dropped, a level that   *)
(* differs from the lamp's has a command or a report ahead of it, and the  *)
(* last report of a brightness is that of the lamp.                        *)
(***************************************************************************)
HasLevel(q) == \E i \in 1 .. Len(q) : q[i].dp = "level"

LastLevelIs(q, v) ==
  \A i \in 1 .. Len(q) :
    q[i].dp = "level" /\ (\A k \in i + 1 .. Len(q) : q[k].dp # "level") => q[i].v = v

\* The application thread has taken a brightness and not stored it yet.
InHand == pc["app"] \in {"compare", "update"} /\ report.dp = "level"

LastLevel == /\ LastLevelIs(rx, lampBright)
             /\ InHand /\ ~HasLevel(rx) => report.v = lampBright

SendsLevel(t) == pc[t] = "send" /\ job[t].dp = "level"

LevelAhead ==
  mLevel # LevelOf(lampBright) =>
    HasLevel(tx) \/ HasLevel(rx) \/ InHand \/ \E t \in Threads : SendsLevel(t)

LevelInv == mType = "LevelControl" /\ ~dropped => LastLevel /\ LevelAhead

\* What a queue says of the level when a message joins it or leaves it.
LEMMA LevelAppended ==
  ASSUME NEW S, NEW q \in Seq(S), NEW m \in S
  PROVE  /\ HasLevel(q) => HasLevel(Append(q, m))
         /\ m.dp = "level" => HasLevel(Append(q, m)) /\ LastLevelIs(Append(q, m), m.v)
         /\ m.dp # "level" => \A v : LastLevelIs(q, v) => LastLevelIs(Append(q, m), v)
<1>1. PICK n \in Nat : n = Len(q)
  OBVIOUS
<1>2. PICK r : r = Append(q, m)
  OBVIOUS
<1>3. Len(r) = n + 1 /\ r[n + 1] = m /\ \A i \in 1 .. n : r[i] = q[i]
  BY <1>1, <1>2, AppendProperties
<1>4. HasLevel(q) => HasLevel(r)
  BY <1>1, <1>3 DEF HasLevel
<1>5. m.dp = "level" => HasLevel(r) /\ LastLevelIs(r, m.v)
  BY <1>3 DEF HasLevel, LastLevelIs
<1>6. ASSUME m.dp # "level", NEW v, LastLevelIs(q, v)
      PROVE  LastLevelIs(r, v)
  <2> SUFFICES ASSUME NEW i \in 1 .. n + 1, r[i].dp = "level",
                      \A k \in i + 1 .. n + 1 : r[k].dp # "level"
               PROVE  r[i].v = v
    BY <1>3 DEF LastLevelIs
  <2>1. i \in 1 .. n
    BY <1>3, <1>6
  <2>2. \A k \in i + 1 .. n : q[k].dp # "level"
    BY <1>3, <2>1
  <2>3. q[i].dp = "level"
    BY <1>3, <2>1
  <2>4. q[i].v = v
    BY <1>1, <1>6, <2>1, <2>2, <2>3 DEF LastLevelIs
  <2> QED
    BY <1>3, <2>1, <2>4
<1> QED
  BY <1>2, <1>4, <1>5, <1>6

LEMMA LevelTaken ==
  ASSUME NEW S, NEW q \in Seq(S), q # <<>>
  PROVE  /\ HasLevel(q) => HasLevel(Tail(q)) \/ Head(q).dp = "level"
         /\ \A v : LastLevelIs(q, v) =>
              /\ LastLevelIs(Tail(q), v)
              /\ Head(q).dp = "level" /\ ~HasLevel(Tail(q)) => Head(q).v = v
<1>1. PICK n \in Nat : Len(q) = n + 1
  <2>1. Len(q) \in Nat \ {0}
    BY EmptyFacts
  <2>2. Len(q) - 1 \in Nat /\ Len(q) = (Len(q) - 1) + 1
    BY <2>1
  <2> QED
    BY <2>2
<1>2. PICK r : r = Tail(q)
  OBVIOUS
<1>3. Len(r) = n /\ \A i \in 1 .. n : r[i] = q[i + 1]
  BY <1>1, <1>2, HeadTailProperties
<1>4. Head(q) = q[1]
  BY <1>1
<1>5. ASSUME HasLevel(q)
      PROVE  HasLevel(r) \/ Head(q).dp = "level"
  <2>1. PICK i \in 1 .. n + 1 : q[i].dp = "level"
    BY <1>1, <1>5 DEF HasLevel
  <2>2. CASE i = 1
    BY <1>4, <2>1, <2>2
  <2>3. CASE i # 1
    <3>1. i - 1 \in 1 .. n /\ (i - 1) + 1 = i
      BY <2>3
    <3>2. r[i - 1] = q[i]
      BY <1>3, <3>1
    <3> QED
      BY <1>3, <2>1, <3>1, <3>2 DEF HasLevel
  <2> QED
    BY <2>2, <2>3
<1>6. ASSUME NEW v, LastLevelIs(q, v)
      PROVE  LastLevelIs(r, v)
  <2> SUFFICES ASSUME NEW i \in 1 .. n, r[i].dp = "level",
                      \A k \in i + 1 .. n : r[k].dp # "level"
               PROVE  r[i].v = v
    BY <1>3 DEF LastLevelIs
  <2>1. q[i + 1].dp = "level" /\ i + 1 \in 1 .. n + 1
    BY <1>3
  <2>2. ASSUME NEW k \in (i + 1) + 1 .. n + 1
        PROVE  q[k].dp # "level"
    <3>1. k - 1 \in i + 1 .. n /\ (k - 1) + 1 = k /\ k - 1 \in 1 .. n
      BY <2>2
    <3> QED
      BY <1>3, <3>1
  <2>3. q[i + 1].v = v
    BY <1>1, <1>6, <2>1, <2>2 DEF LastLevelIs
  <2> QED
    BY <1>3, <2>3
<1>7. ASSUME NEW v, LastLevelIs(q, v), Head(q).dp = "level", ~HasLevel(r)
      PROVE  Head(q).v = v
  <2>1. ASSUME NEW k \in 2 .. n + 1
        PROVE  q[k].dp # "level"
    <3>1. k - 1 \in 1 .. n /\ (k - 1) + 1 = k
      BY <2>1
    <3> QED
      BY <1>3, <1>7, <3>1 DEF HasLevel
  <2>2. q[1].dp = "level" /\ 1 \in 1 .. n + 1 /\ 1 + 1 = 2
    BY <1>4, <1>7
  <2>3. q[1].v = v
    BY <1>1, <1>7, <2>1, <2>2 DEF LastLevelIs
  <2> QED
    BY <1>4, <2>3
<1> QED
  BY <1>2, <1>5, <1>6, <1>7

\* A step that leaves the queues, the lamp and the level alone, brings no brightness in
\* hand and finishes none, and after which every thread sends what it was sending.
LEMMA LevelCarried ==
  ASSUME UNCHANGED <<tx, rx, lampBright, mLevel>>, LastLevel, LevelAhead,
         InHand' <=> InHand, InHand => report' = report,
         \A t \in Threads : SendsLevel(t) => SendsLevel(t)'
  PROVE  LastLevel' /\ LevelAhead'
BY DEF LastLevel, LevelAhead

\* The steps of a callback.
LEMMA CallbackLevel ==
  ASSUME TypeInv, mType = "LevelControl", LastLevel, LevelAhead, ~dropped',
         NEW t \in Threads, Callback(t)
  PROVE  LastLevel' /\ LevelAhead'
<1>1. pc \in [Threads -> PCs] /\ t \in {"chip", "app"} /\ "app" \in Threads
  BY DEF TypeInv, ThreadTypes, Threads
<1>2. AfterCallback(t) \in {"idle", "level"}
  BY DEF AfterCallback
<1>3. ASSUME NEW next \in {"set", "idle", "level", "send"}, pc[t] \in {"decide", "set", "send"},
             pc' = [pc EXCEPT ![t] = next], UNCHANGED <<job, report>>
      PROVE  /\ InHand' <=> InHand
             /\ InHand => report' = report
             /\ \A u \in Threads \ {t} : SendsLevel(u)' <=> SendsLevel(u)
  BY <1>1, <1>3 DEF InHand, SendsLevel
<1>4. CASE Decide(t)
  <2>1. PICK next \in {"set", "idle", "level"} : pc' = [pc EXCEPT ![t] = next]
    BY <1>2, <1>4, Zenon DEF Decide
  <2>2. pc[t] = "decide" /\ UNCHANGED <<tx, rx, lampBright, mLevel, job, report>>
    BY <1>4 DEF Decide, lamp, dimmer
  <2>3. ~SendsLevel(t)
    BY <2>2 DEF SendsLevel
  <2> QED
    BY <1>3, <2>1, <2>2, <2>3, LevelCarried
<1>5. CASE SetDevice(t)
  <2>1. /\ pc[t] = "set" /\ pc' = [pc EXCEPT ![t] = "send"]
        /\ UNCHANGED <<tx, rx, lampBright, job, report>>
    BY <1>5 DEF SetDevice, lamp
  <2>2. CASE mLevel' = mLevel
    <3>1. ~SendsLevel(t)
      BY <2>1 DEF SendsLevel
    <3> QED
      BY <1>3, <2>1, <2>2, <3>1, LevelCarried
  <2>3. CASE job[t].dp = "level"
    <3>1. SendsLevel(t)'
      BY <1>1, <2>1, <2>3 DEF SendsLevel
    <3>2. LastLevel'
      BY <1>3, <2>1 DEF LastLevel
    <3> QED
      BY <3>1, <3>2 DEF LevelAhead
  <2> QED
    BY <1>5, <2>2, <2>3 DEF SetDevice
<1>6. CASE SendToMcu(t)
  <2>1. /\ pc[t] = "send" /\ pc' = [pc EXCEPT ![t] = AfterCallback(t)]
        /\ tx' = Put(tx, TxDepth, Command(job[t])) /\ Len(tx) < TxDepth
        /\ UNCHANGED <<rx, lampBright, mLevel, job, report>>
    <3>1. ~(Len(tx) >= TxDepth)
      BY <1>6 DEF SendToMcu
    <3>2. Len(tx) \in Nat /\ TxDepth \in Nat
      BY Limits DEF TypeInv, QueueTypes
    <3> QED
      BY <1>6, <3>1, <3>2 DEF SendToMcu, lamp, dimmer
  <2>2. Command(job[t]) \in Messages(mType) /\ tx \in Seq(Messages(mType))
    BY CommandType DEF TypeInv, ThreadTypes, QueueTypes
  <2>3. tx' = Append(tx, Command(job[t]))
    BY <2>1 DEF Put
  <2>4. HasLevel(tx) => HasLevel(tx)'
    BY <2>2, <2>3, LevelAppended DEF HasLevel
  <2>5. SendsLevel(t) => HasLevel(tx)'
    <3>1. SendsLevel(t) => Command(job[t]).dp = "level"
      BY DEF SendsLevel, Command, Level
    <3> QED
      BY <2>2, <2>3, <3>1, LevelAppended DEF HasLevel
  <2>6. LastLevel'
    BY <1>2, <1>3, <2>1 DEF LastLevel
  <2>7. LevelAhead'
    BY <1>2, <1>3, <2>1, <2>4, <2>5 DEF LevelAhead
  <2> QED
    BY <2>6, <2>7
<1> QED
  BY <1>4, <1>5, <1>6 DEF Callback

\* The steps with a report.
LEMMA ReportLevelStep ==
  ASSUME TypeInv, mType = "LevelControl", LastLevel, LevelAhead,
         HandleUartCallback \/ Compare \/ UpdateFromHardware
  PROVE  LastLevel' /\ LevelAhead'
<1>1. pc \in [Threads -> PCs] /\ Threads = {"chip", "app"} /\ "chip" # "app"
  BY DEF TypeInv, ThreadTypes, Threads
<1>2. report.dp # "switch" => report.dp = "level"
  BY MessageKinds DEF TypeInv, ThreadTypes
<1>3. ASSUME NEW next \in PCs, next # "send", pc["app"] # "send",
             pc' = [pc EXCEPT !["app"] = next], job' = job
      PROVE  \A u \in Threads : SendsLevel(u)' <=> SendsLevel(u)
  BY <1>1, <1>3 DEF SendsLevel
<1>4. CASE HandleUartCallback
  <2>1. /\ pc["app"] = "idle" /\ rx # <<>> /\ rx' = Tail(rx) /\ report' = Head(rx)
        /\ pc' = [pc EXCEPT !["app"] = "compare"]
        /\ UNCHANGED <<tx, lampBright, mLevel, job>>
    BY <1>4 DEF HandleUartCallback, dimmer, lamp
  <2>2. rx \in Seq(Messages(mType))
    BY DEF TypeInv, QueueTypes
  <2>3. InHand' <=> report'.dp = "level"
    BY <1>1, <2>1 DEF InHand
  <2>4. HasLevel(rx) => HasLevel(rx)' \/ InHand'
    BY <2>1, <2>2, <2>3, LevelTaken DEF HasLevel
  <2>5. LastLevel'
    <3>1. LastLevelIs(rx', lampBright)
      BY <2>1, <2>2, LevelTaken DEF LastLevel
    <3>2. Head(rx).dp = "level" /\ ~HasLevel(Tail(rx)) => Head(rx).v = lampBright
      BY <2>1, <2>2, LevelTaken DEF LastLevel
    <3>3. HasLevel(rx)' <=> HasLevel(Tail(rx))
      BY <2>1 DEF HasLevel
    <3>4. LastLevelIs(rx, lampBright)' <=> LastLevelIs(rx', lampBright)
      BY <2>1 DEF LastLevelIs
    <3> QED
      BY <2>1, <2>3, <3>1, <3>2, <3>3, <3>4 DEF LastLevel
  <2>6. LevelAhead'
    <3>1. "compare" \in PCs /\ ~InHand
      BY <2>1 DEF PCs, InHand
    <3>2. \A u \in Threads : SendsLevel(u)' <=> SendsLevel(u)
      BY <1>3, <2>1, <3>1
    <3>3. HasLevel(tx)' <=> HasLevel(tx)
      BY <2>1 DEF HasLevel
    <3> QED
      BY <2>1, <2>4, <3>1, <3>2, <3>3 DEF LevelAhead
  <2> QED
    BY <2>5, <2>6
<1>5. CASE Compare
  <2>1. /\ pc["app"] = "compare"
        /\ pc' = [pc EXCEPT !["app"] = IF IsNews THEN "update" ELSE "idle"]
        /\ UNCHANGED <<tx, rx, lampBright, mLevel, job, report>>
    BY <1>5 DEF Compare, dimmer, lamp
  <2>2. \A u \in Threads : SendsLevel(u)' <=> SendsLevel(u)
    BY <1>3, <2>1 DEF PCs
  <2>3. CASE IsNews
    <3>1. InHand' <=> InHand
      BY <1>1, <2>1, <2>3 DEF InHand
    <3> QED
      BY <2>1, <2>2, <3>1, LevelCarried
  <2>4. CASE ~IsNews
    <3>1. ~InHand'
      BY <1>1, <2>1, <2>4 DEF InHand
    <3>2. LastLevel'
      BY <2>1, <3>1 DEF LastLevel
    <3>3. InHand /\ ~HasLevel(rx) => mLevel = LevelOf(lampBright)
      <4>1. InHand => mLevel = LevelOf(report.v)
        BY <2>4 DEF InHand, IsNews, HardwareLevel
      <4> QED
        BY <4>1, Zenon DEF LastLevel
    <3> QED
      BY <2>1, <2>2, <3>2, <3>3 DEF LevelAhead
  <2> QED
    BY <2>3, <2>4
<1>6. CASE UpdateSwitch \/ TurnWithLevel
  <2>1. /\ pc["app"] = "turn" \/ (pc["app"] = "update" /\ report.dp = "switch")
        /\ pc' = [pc EXCEPT !["app"] = "write"]
        /\ UNCHANGED <<tx, rx, lampBright, mLevel, job, report>>
    <3>1. CASE UpdateSwitch
      BY <3>1 DEF UpdateSwitch, lamp
    <3>2. CASE TurnWithLevel
      BY <3>2 DEF TurnWithLevel, lamp
    <3> QED
      BY <1>6, <3>1, <3>2
  <2>2. \A u \in Threads : SendsLevel(u)' <=> SendsLevel(u)
    BY <1>3, <2>1 DEF PCs
  <2>3. ~InHand /\ ~InHand'
    BY <1>1, <2>1 DEF InHand
  <2> QED
    BY <2>1, <2>2, <2>3, LevelCarried
<1>7. CASE UpdateLevel
  <2>1. /\ pc["app"] = "update" /\ report.dp = "level"
        /\ pc' = [pc EXCEPT !["app"] = "turn"]
        /\ mLevel' = HardwareLevel % 256
        /\ UNCHANGED <<tx, rx, lampBright, job, report>>
    BY <1>2, <1>7 DEF UpdateLevel, lamp
  <2>2. mLevel' = LevelOf(report.v)
    <3>1. PICK l \in 0 .. 254 : l = HardwareLevel
      BY ReportLevel, HardwareLevelRange
    <3>2. l % 256 = l
      OBVIOUS
    <3>3. mLevel' = l
      BY <2>1, <3>1, <3>2, Zenon
    <3> QED
      BY <3>1, <3>3, Zenon DEF HardwareLevel
  <2>3. InHand /\ ~InHand'
    BY <1>1, <2>1 DEF InHand
  <2>4. LastLevel'
    BY <2>1, <2>3 DEF LastLevel
  <2>5. HasLevel(rx)' \/ mLevel' = LevelOf(lampBright')
    BY <2>1, <2>2, <2>3 DEF LastLevel
  <2>6. LevelAhead'
    BY <2>5 DEF LevelAhead, LevelOf
  <2> QED
    BY <2>4, <2>6
<1> QED
  BY <1>4, <1>5, <1>6, <1>7 DEF UpdateFromHardware

\* A thread that begins an attribute write had nothing to send and no brightness in hand.
LEMMA WriteLevel ==
  ASSUME TypeInv, LastLevel, LevelAhead,
         NEW t \in Threads, NEW j, SetAttribute(t, j), pc[t] \in {"idle", "write", "level"}
  PROVE  LastLevel' /\ LevelAhead'
<1>1. pc \in [Threads -> PCs] /\ job \in [Threads -> Jobs(mType)] /\ "app" \in Threads
  BY DEF TypeInv, ThreadTypes, Threads
<1>2. /\ pc' = [pc EXCEPT ![t] = "decide"] /\ job' = [job EXCEPT ![t] = j]
      /\ UNCHANGED <<tx, rx, lampBright, mLevel, report>>
  BY DEF SetAttribute, dimmer, lamp
<1>3. InHand' <=> InHand
  BY <1>1, <1>2 DEF InHand
<1>4. \A u \in Threads : SendsLevel(u) => SendsLevel(u)'
  BY <1>1, <1>2 DEF SendsLevel
<1> QED
  BY <1>2, <1>3, <1>4, LevelCarried

\* A command or a hand at the wall: what the lamp does is reported.
LEMMA DrivenLevel ==
  ASSUME TypeInv, mType = "LevelControl", LastLevel, NEW cmd \in Messages(mType), Drive(cmd),
         ~dropped', UNCHANGED <<pc, report>>
  PROVE  /\ LastLevel'
         /\ HasLevel(rx) => HasLevel(rx)'
         /\ cmd.dp = "level" => HasLevel(rx)'
         /\ cmd.dp # "level" => lampBright' = lampBright
<1>1. rx \in Seq(Messages(mType)) /\ RxDepth \in Nat /\ Len(rx) \in Nat
  BY Limits DEF TypeInv, QueueTypes
<1>2. PICK full : full = Level(lampBright)
  OBVIOUS
<1>3. full \in Messages(mType) /\ full.dp = "level" /\ full.v = lampBright
  BY <1>2, MessageMembers DEF TypeInv, LevelTypes, Level
<1>4. PICK r \in Seq(Messages(mType)) : r = Append(rx, cmd) /\ Len(r) = Len(rx) + 1
  BY <1>1, AppendProperties
<1>5. /\ Len(rx) < RxDepth
      /\ TellsLevel(cmd) => Len(r) < RxDepth
  <2>1. ~(Len(rx) + (IF TellsLevel(cmd) THEN 2 ELSE 1) > RxDepth)
    BY DEF Drive
  <2> QED
    BY <1>1, <1>4, <2>1
<1>6. rx' = IF TellsLevel(cmd) THEN Append(r, full) ELSE r
  <2>1. Put(rx, RxDepth, cmd) = r /\ (TellsLevel(cmd) => Put(r, RxDepth, full) = Append(r, full))
    BY <1>4, <1>5 DEF Put
  <2> QED
    BY <1>2, <2>1 DEF Drive
<1>7. CASE cmd.dp = "level"
  <2>1. ~TellsLevel(cmd) /\ lampBright' = cmd.v
    BY <1>7 DEF TellsLevel, Switch, Drive, Heard
  <2>2. HasLevel(r) /\ LastLevelIs(r, cmd.v)
    BY <1>1, <1>4, <1>7, LevelAppended
  <2>3. rx' = r
    BY <1>6, <2>1
  <2>4. HasLevel(rx)' /\ LastLevelIs(rx, lampBright)'
    BY <2>1, <2>2, <2>3 DEF HasLevel, LastLevelIs
  <2> QED
    BY <1>7, <2>4 DEF LastLevel
<1>8. CASE cmd.dp # "level"
  <2>1. lampBright' = lampBright
    BY <1>8, MessageKinds DEF Drive
  <2>2. LastLevelIs(r, lampBright) /\ (HasLevel(rx) => HasLevel(r))
    BY <1>1, <1>4, <1>8, LevelAppended DEF LastLevel
  <2>3. CASE TellsLevel(cmd)
    <3>1. rx' = Append(r, full)
      BY <1>6, <2>3
    <3>2. HasLevel(rx') /\ LastLevelIs(rx', lampBright)
      BY <1>3, <1>4, <3>1, LevelAppended
    <3>3. HasLevel(rx)' /\ LastLevelIs(rx, lampBright)'
      BY <2>1, <3>2 DEF HasLevel, LastLevelIs
    <3> QED
      BY <1>8, <2>1, <3>3 DEF LastLevel
  <2>4. CASE ~TellsLevel(cmd)
    <3>1. rx' = r
      BY <1>6, <2>4
    <3>2. LastLevelIs(rx, lampBright)' /\ (HasLevel(rx) => HasLevel(rx)')
      BY <2>1, <2>2, <3>1 DEF HasLevel, LastLevelIs
    <3>3. (InHand' <=> InHand) /\ report' = report
      BY DEF InHand
    <3> QED
      BY <1>8, <2>1, <3>2, <3>3 DEF LastLevel
  <2> QED
    BY <2>3, <2>4
<1> QED
  BY <1>7, <1>8

LEMMA LampLevel ==
  ASSUME TypeInv, mType = "LevelControl", LastLevel, LevelAhead, ~dropped',
         parking_message \/ WallSwitch \/ WallDim
  PROVE  LastLevel' /\ LevelAhead'
<1>1. UNCHANGED <<mLevel, pc, job, report>>
  BY DEF parking_message, WallSwitch, WallDim, Wall, dimmer, threads
<1>2. (InHand' <=> InHand) /\ \A t \in Threads : SendsLevel(t)' <=> SendsLevel(t)
  BY <1>1 DEF InHand, SendsLevel
<1>3. CASE parking_message
  <2>1. tx # <<>> /\ tx' = Tail(tx) /\ Drive(Head(tx)) /\ tx \in Seq(Messages(mType))
    BY <1>3 DEF parking_message, TypeInv, QueueTypes
  <2>2. Head(tx) \in Messages(mType)
    BY <2>1, HeadTailProperties
  <2>3. /\ LastLevel'
        /\ HasLevel(rx) => HasLevel(rx)'
        /\ Head(tx).dp = "level" => HasLevel(rx)'
        /\ Head(tx).dp # "level" => lampBright' = lampBright
    BY <1>1, <2>1, <2>2, DrivenLevel
  <2>4. HasLevel(tx) => HasLevel(tx)' \/ Head(tx).dp = "level"
    BY <2>1, LevelTaken DEF HasLevel
  <2> QED
    BY <1>1, <1>2, <2>3, <2>4 DEF LevelAhead, LevelOf
<1>4. CASE WallSwitch \/ WallDim
  <2>1. PICK cmd \in Messages(mType) : Drive(cmd) /\ tx' = tx
    <3>1. Switch(1 - lampOn) \in Messages(mType)
      BY MessageMembers DEF TypeInv
    <3>2. \A v \in Brights[mType] : Level(v) \in Messages(mType)
      BY MessageMembers, Limits DEF TypeInv, Lit
    <3> QED
      BY <1>4, <3>1, <3>2 DEF WallSwitch, WallDim, Wall
  <2>2. /\ LastLevel'
        /\ HasLevel(rx) => HasLevel(rx)'
        /\ cmd.dp = "level" => HasLevel(rx)'
        /\ cmd.dp # "level" => lampBright' = lampBright
    BY <1>1, <2>1, DrivenLevel
  <2>3. HasLevel(tx)' <=> HasLevel(tx)
    BY <2>1 DEF HasLevel
  <2> QED
    BY <1>1, <1>2, <2>2, <2>3 DEF LevelAhead, LevelOf
<1> QED
  BY <1>3, <1>4

LEMMA LevelStep == TypeInv /\ LevelInv /\ [Next]_vars => LevelInv'
<1> SUFFICES ASSUME TypeInv, LevelInv, [Next]_vars, mType' = "LevelControl", ~dropped'
             PROVE  LastLevel' /\ LevelAhead'
  BY DEF LevelInv
<1>1. mType = "LevelControl"
  BY TypeStays
<1>2. ~dropped
  BY DEF Next, App, Chip, Callback, Decide, SetDevice, SendToMcu, HandleUartCallback, Compare,
         UpdateFromHardware, UpdateSwitch, UpdateLevel, TurnWithLevel, WriteAttribute,
         parking_message, WallSwitch, WallDim, Wall, Drive, NetSwitch, NetLevel, NetColour,
         Net, budget, vars
<1>3. LastLevel /\ LevelAhead
  BY <1>1, <1>2 DEF LevelInv
<1>4. ASSUME NEW t \in Threads, Callback(t)
      PROVE  LastLevel' /\ LevelAhead'
  BY <1>1, <1>3, <1>4, CallbackLevel
<1>5. CASE HandleUartCallback \/ Compare \/ UpdateFromHardware
  BY <1>1, <1>3, <1>5, ReportLevelStep
<1>6. CASE WriteAttribute
  <2>1. "app" \in Threads
    BY DEF Threads
  <2> QED
    BY <1>3, <1>6, <2>1, WriteLevel DEF WriteAttribute
<1>7. CASE NetSwitch \/ NetLevel \/ NetColour
  <2>1. "chip" \in Threads
    BY DEF Threads
  <2>2. \E j : SetAttribute("chip", j) /\ pc["chip"] = "idle"
    BY <1>7 DEF NetSwitch, NetLevel, NetColour, Net
  <2> QED
    BY <1>3, <2>1, <2>2, WriteLevel
<1>8. CASE parking_message \/ WallSwitch \/ WallDim
  BY <1>1, <1>3, <1>8, LampLevel
<1>9. CASE UNCHANGED vars
  BY <1>3, <1>9 DEF vars, LastLevel, LevelAhead, LastLevelIs, HasLevel, InHand, SendsLevel,
     LevelOf, dimmer, lamp, threads
<1> QED
  BY <1>4, <1>5, <1>6, <1>7, <1>8, <1>9 DEF Next, App, Chip, Threads

LEMMA LevelStart == Init => LevelInv
<1> SUFFICES ASSUME Init PROVE LastLevel /\ LevelAhead
  BY DEF LevelInv
<1>1. rx = <<>> /\ Len(rx) = 0 /\ ~InHand
  BY DEF Init, InHand, Threads
<1>2. LevelOf(0) = 0
  BY SMTT(30) DEF LevelOf
<1> QED
  BY <1>1, <1>2 DEF Init, LastLevel, LastLevelIs, LevelAhead

\* Unless a full queue drops a command or a report, a dimmer's level is the one
\* HandleBrightValue computes for the lamp's brightness whenever nothing is under way:
\* for all levels and brightnesses, in every interleaving of the two threads.  (The
\* 16-bit level of a colour light is left to the runs.)
THEOREM SpecLevelTracksLamp == Spec => [](mType # "ColorControl" => LevelTracksLamp)
<1>1. TypeInv /\ LevelInv => (mType # "ColorControl" => LevelTracksLamp)
  <2> SUFFICES ASSUME LevelInv, mType = "LevelControl", Quiet, ~dropped
               PROVE  mLevel = LevelOf(lampBright)
    BY DEF LevelTracksLamp
  <2>1. ~HasLevel(tx) /\ ~HasLevel(rx)
    BY DEF Quiet, HasLevel
  <2>2. ~InHand /\ \A t \in Threads : ~SendsLevel(t)
    BY DEF Quiet, InHand, SendsLevel, Threads
  <2> QED
    BY <2>1, <2>2 DEF LevelInv, LevelAhead
<1>2. TypeInv /\ LevelInv /\ [Next]_vars => (TypeInv /\ LevelInv)'
  BY TypeStep, LevelStep
<1> QED
  BY <1>1, <1>2, TypeStart, LevelStart, PTL DEF Spec

-----------------------------------------------------------------------------
(***************************************************************************)
(* Controller and wall take turns.  From one moment at which nothing is    *)
(* under way to the next, an operation goes through a chain of phases; in  *)
(* each of them it is known what is in the queues, what the two threads    *)
(* work on and which of the copies has the new value already.              *)
(***************************************************************************)
IsDimmer == mType = "LevelControl"
IsColour == mType = "ColorControl"

\* The 16-bit level of a colour light for one of 255 steps.
Wide(k) == (k * 65535) \div 254

\* The values for which taking turns is enough.  A dimmer's level 1 and a brightness of
\* less than four thousandths are told as level 0, and so is a 16-bit level below 257;
\* a 16-bit level that is some step's with its bytes exchanged is taken for no news.
TakingTurns ==
  /\ HslLayout = "hue first"
  /\ Paced /\ TxDepth >= 1 /\ RxDepth >= 3
  /\ "OnOff" \in Lights => Levels["OnOff"] = {}
  /\ "LevelControl" \in Lights => /\ \A l \in Levels["LevelControl"] : l >= 2
                                  /\ \A v \in Brights["LevelControl"] : v >= 4
  /\ "ColorControl" \in Lights =>
       \A v \in Brights["ColorControl"] :
         v >= 257 /\ \A k \in 0 .. 254 : Swapped(v) = Wide(k) => v = Wide(k)

\* All three copies of the switch are the same.
Agree(on) == lampOn = on /\ onOff = on /\ IsTurnedOn = on

\* A brightness of which a colour light's DeviceDimmer and attribute make the same step.
Refreshes == lampBright >= 257 /\ lampBright \div 256 = mLevel /\ HsvV(lampBright) = mLevel

Fits ==
  /\ currentLevel = mLevel
  /\ IsDimmer => mLevel = LevelOf(lampBright)
  /\ IsColour => mColorLevel = Wide(mLevel) /\ (mColorLevel = lampBright \/ Refreshes)

NearAsked == asked # 0 => currentLevel \in {asked - 1, asked}

Coloured == IsColour /\ ~ignored => lampColor = ColorOf(hsv)

Consistent == Fits /\ NearAsked /\ Coloured

Idle(t) == pc[t] = "idle"

\* What is reported when everybody knows it already.
Echoes(on) == {m \in Messages(mType) :
                 \/ m = Switch(on)
                 \/ m.dp # "switch" /\ m.v = lampBright /\ (on = 1 \/ m.v = mColorLevel)}

\* Only echoes are under way.  A colour light may take its level for news once more.
Settled(on) ==
  /\ Agree(on) /\ Consistent
  /\ Idle("chip")
  /\ tx \in {<<>>, <<Switch(on)>>} /\ Len(rx) + 2 * Len(tx) <= 3
  /\ rx \in Seq(Echoes(on))
  /\ \/ Idle("app")
     \/ pc["app"] = "compare" /\ report \in Echoes(on)
     \/ /\ on = 1 /\ IsColour /\ Refreshes /\ report.dp # "switch" /\ report.v = lampBright
        /\ pc["app"] \in {"update", "turn", "write"}
     \/ on = 1 /\ pc["app"] = "decide" /\ job["app"] = Level(currentLevel)

\* Only the CHIP thread, or the command it has sent, is at work.
ChipOnly == rx = <<>> /\ Idle("app")

\* The controller has switched the light to v.
NetSwitched(v) ==
  /\ Consistent /\ ChipOnly
  /\ lampOn = 1 - v /\ onOff = v
  /\ \/ /\ tx = <<>> /\ job["chip"] = Switch(v)
        /\ \/ pc["chip"] \in {"decide", "set"} /\ IsTurnedOn = 1 - v
           \/ pc["chip"] = "send" /\ IsTurnedOn = v
     \/ tx = <<Switch(v)>> /\ Idle("chip") /\ IsTurnedOn = v

\* The controller has asked for level l ...
NetLevelled(l) ==
  /\ Agree(1) /\ Coloured /\ ChipOnly /\ tx = <<>>
  /\ job["chip"] = Level(l) /\ currentLevel = l /\ asked = l
  /\ l \in Levels[mType] /\ mType # "OnOff"
  /\ \/ pc["chip"] \in {"decide", "set"} /\ mLevel # l
     \/ pc["chip"] = "send" /\ mLevel = l /\ (IsColour => mColorLevel = Wide(l))

\* What SendToMcu says of the level.
LevelCommand == Level(IF IsColour THEN mColorLevel ELSE (mLevel * 1000) \div 254)

\* ... or one was corrected, and the command for it is under way.
LevelSent ==
  /\ Agree(1) /\ Coloured /\ NearAsked /\ ChipOnly /\ Idle("chip")
  /\ currentLevel = mLevel /\ mLevel \in 1 .. 254
  /\ tx = <<LevelCommand>>
  /\ IsDimmer => mLevel >= 2 /\ asked = mLevel
  /\ IsColour => mColorLevel = Wide(mLevel)
  /\ mType # "OnOff"

\* The controller has changed hue or saturation.
NetColoured(on) ==
  /\ Agree(on) /\ Fits /\ NearAsked /\ IsColour /\ ChipOnly
  /\ \/ /\ tx = <<>> /\ job["chip"].dp = "colour" /\ job["chip"].hs = hsv
        /\ \/ pc["chip"] = "decide"
           \/ pc["chip"] = "set" /\ ~ignored
           \/ pc["chip"] = "send" /\ ~ignored /\ mColor = ColorOf(hsv)
     \/ tx = <<Colour(ColorOf(hsv), mColorLevel)>> /\ Idle("chip") /\ ~ignored

\* Only the application thread, or the reports ahead of it, are at work.
AppOnly == tx = <<>> /\ Idle("chip")

\* What follows the report of a switch at the wall.
Rest(v) == IF v = 1 /\ mType # "OnOff" THEN <<Level(lampBright)>> ELSE <<>>

\* The lamp was switched to v at the wall.
WallSwitched(v) ==
  /\ Consistent /\ AppOnly
  /\ lampOn = v
  /\ \/ /\ IsTurnedOn = 1 - v /\ onOff = 1 - v
        /\ \/ Idle("app") /\ rx = <<Switch(v)>> \o Rest(v)
           \/ pc["app"] \in {"compare", "update", "write"} /\ report = Switch(v) /\ rx = Rest(v)
     \/ /\ onOff = v /\ rx = Rest(v) /\ report = Switch(v) /\ job["app"] = Switch(v)
        /\ \/ pc["app"] \in {"decide", "set"} /\ IsTurnedOn = 1 - v
           \/ pc["app"] = "send" /\ IsTurnedOn = v

\* A brightness may be reported that is news.
MayBeTold ==
  /\ Agree(1) /\ Coloured /\ AppOnly /\ mType # "OnOff"
  /\ IsDimmer => /\ LevelOf(lampBright) >= 1
                 /\ asked # 0 => LevelOf(lampBright) \in {asked - 1, asked}
  /\ IsColour => lampBright >= 257 /\ asked = 0

\* The report is ahead, or not looked at yet, ...
LevelReported ==
  /\ MayBeTold
  /\ \/ Idle("app") /\ rx = <<Level(lampBright)>>
     \/ pc["app"] \in {"compare", "update"} /\ rx = <<>> /\ report = Level(lampBright)
  /\ currentLevel = mLevel /\ mLevel \in 0 .. 254 /\ (IsDimmer /\ asked # 0 => asked = mLevel)
  /\ IsColour => /\ mColorLevel = Wide(mLevel)
                 /\ Swapped(lampBright) = Wide(mLevel) => lampBright = Wide(mLevel)

\* ... the DeviceDimmer has it, ...
LevelStored ==
  /\ MayBeTold
  /\ rx = <<>> /\ report = Level(lampBright) /\ pc["app"] \in {"turn", "write"}
  /\ IsDimmer => mLevel = LevelOf(lampBright)
  /\ IsColour => mLevel = lampBright \div 256 /\ mColorLevel = Wide(mLevel) % 65536

\* ... and a colour light's attribute is another step, which the callback sets.
LevelCorrected ==
  /\ MayBeTold /\ IsColour
  /\ rx = <<>> /\ report = Level(lampBright)
  /\ job["app"] = Level(currentLevel) /\ currentLevel \in 1 .. 254
  /\ \/ pc["app"] \in {"decide", "set"} /\ mLevel # currentLevel
     \/ pc["app"] = "send" /\ mLevel = currentLevel /\ mColorLevel = Wide(mLevel)

Phase ==
  \/ \E v \in {0, 1} : Settled(v) \/ NetSwitched(v) \/ NetColoured(v) \/ WallSwitched(v)
  \/ \E l \in Levels[mType] : NetLevelled(l)
  \/ LevelSent \/ LevelReported \/ LevelStored \/ LevelCorrected

TurnsInv == ~dropped /\ Phase

\* The conversions where taking turns relies on them.
LEMMA WideFacts ==
  ASSUME NEW k \in 0 .. 254
  PROVE  Wide(k) \in Nat /\ Wide(k) <= 65535 /\ Wide(k) % 65536 = Wide(k)
<1>1. (k * 65535) \div 254 \in Nat /\ (k * 65535) \div 254 <= 65535
  BY SMTT(30)
<1>2. \A w \in Nat : w <= 65535 => w % 65536 = w
  BY SMTT(30)
<1>3. PICK w \in Nat : w = Wide(k) /\ w <= 65535
  BY <1>1 DEF Wide
<1> QED
  BY <1>2, <1>3

LEMMA ThereAndBack ==
  ASSUME NEW l \in 2 .. 254
  PROVE  /\ LevelOf((l * 1000) \div 254) \in {l - 1, l}
         /\ LevelOf((l * 1000) \div 254) >= 1
<1>1. PICK b \in Nat : b = (l * 1000) \div 254
  BY SMTT(30)
<1>2. 254 * b <= 1000 * l /\ 1000 * l < 254 * b + 254
  BY <1>1, SMTT(30)
<1>3. PICK n \in Nat : n = (b * 255) \div 1000
  BY SMTT(30)
<1>4. 1000 * n <= 255 * b /\ 255 * b < 1000 * n + 1000
  BY <1>3, SMTT(30)
<1>5. n \in {l - 1, l} \/ (l = 254 /\ n = 255)
  BY <1>2, <1>4, SMTT(30)
<1>6. n % 256 = n
  BY <1>5, SMTT(30)
<1>7. LevelOf(b) = IF n >= 255 THEN 254 ELSE n
  BY <1>3, <1>6 DEF LevelOf
<1> QED
  BY <1>1, <1>5, <1>7

LEMMA LitHasLevel ==
  ASSUME NEW b \in 4 .. 1000
  PROVE  LevelOf(b) \in 1 .. 254
BY SMTT(30) DEF LevelOf

LEMMA SwappedFacts ==
  ASSUME NEW w \in uint16_t, w >= 257
  PROVE  /\ Swapped(w) \in Nat /\ Swapped(w) # 0
         /\ Swapped(w) % 256 = w \div 256 /\ w \div 256 \in 1 .. 255
<1>1. w \in Nat /\ w <= 65535
  BY DEF uint16_t
<1>2. PICK low, high \in Nat : /\ low = w % 256 /\ high = w \div 256
                               /\ w = 256 * high + low /\ low < 256
  BY <1>1, SMTT(30)
<1>3. high \in 1 .. 255
  BY <1>1, <1>2
<1>4. Swapped(w) = 256 * low + high
  BY <1>2 DEF Swapped
<1>5. (256 * low + high) % 256 = high
  BY <1>2, <1>3, SMTT(30)
<1> QED
  BY <1>2, <1>3, <1>4, <1>5

LEMMA HsvVFacts ==
  ASSUME NEW w \in uint16_t, w >= 257
  PROVE  HsvV(w) \in 1 .. 254
<1>1. w \in Nat /\ w <= 65535
  BY DEF uint16_t
<1>2. (w * 255) \div 65535 \in 1 .. 255
  BY <1>1, SMTT(30)
<1> QED
  BY <1>2 DEF HsvV

\* A level and a brightness of the same step differ by less than a step.
LEMMA RefreshedIsNear ==
  ASSUME NEW w \in uint16_t, w >= 257, NEW k \in 0 .. 254, w \div 256 = k, HsvV(w) = k
  PROVE  Wide(k) - w \in 0 .. 257 \/ w - Wide(k) \in 0 .. 257
<1>1. w \in Nat /\ w <= 65535
  BY DEF uint16_t
<1>2. PICK x \in Nat : x = (w * 255) \div 65535 /\ x >= k
  <2>1. (w * 255) \div 65535 \in Nat
    BY <1>1, SMTT(30)
  <2> QED
    BY <2>1 DEF HsvV
<1>3. w * 255 >= 65535 * k
  BY <1>1, <1>2, SMTT(30)
<1>4. w >= 257 * k
  BY <1>1, <1>3
<1>5. w <= 256 * k + 255
  BY <1>1, SMTT(30)
<1>6. 254 * Wide(k) <= k * 65535 /\ k * 65535 < 254 * Wide(k) + 254 /\ Wide(k) \in Nat
  BY SMTT(30) DEF Wide
<1>7. Wide(k) >= 258 * k /\ Wide(k) <= 258 * k + 3
  BY <1>6, SMTT(30)
<1>8. PICK d \in Nat : d = Wide(k)
  BY <1>6
<1>9. d - w <= 257 /\ w - d <= 257
  BY <1>1, <1>4, <1>5, <1>7, <1>8
<1>10. d - w \in Int /\ w - d \in Int /\ (d - w >= 0 \/ w - d >= 0)
  BY <1>1, <1>8
<1> QED
  BY <1>8, <1>9, <1>10

-----------------------------------------------------------------------------
\* What the steps of a callback and of the lamp do to a phase: small facts first.
LEMMA TurnTypes ==
  ASSUME TypeInv
  PROVE  /\ mType \in LightTypes /\ onOff \in {0, 1} /\ lampOn \in {0, 1}
         /\ currentLevel \in 0 .. 254 /\ mLevel \in 0 .. 255
         /\ mState \in {0, 1} /\ IsTurnedOn \in {0, 1} /\ mState = 1 - IsTurnedOn
         /\ mColorLevel \in uint16_t /\ lampBright \in Lit(mType) /\ lampBright \in Nat
         /\ tx \in Seq(Messages(mType)) /\ rx \in Seq(Messages(mType))
         /\ pc \in [{"chip", "app"} -> PCs] /\ job \in [{"chip", "app"} -> Jobs(mType)]
         /\ pc["chip"] \in ChipPCs
         /\ report \in Messages(mType)
         /\ asked \in Levels[mType] \cup {0} /\ asked \in Nat
         /\ ignored \in BOOLEAN /\ dropped \in BOOLEAN
<1>1. /\ mType \in Lights /\ LightTypes = LightTypes
      /\ onOff \in {0, 1} /\ lampOn \in {0, 1} /\ currentLevel \in 0 .. 254
      /\ mState \in {0, 1} /\ IsTurnedOn \in {0, 1} /\ mState = 1 - IsTurnedOn
  BY DEF TypeInv, IsTurnedOn, kState_On, kState_Off
<1>2. /\ mLevel \in 0 .. 255 /\ mColorLevel \in uint16_t /\ lampBright \in Lit(mType)
  BY DEF TypeInv, LevelTypes
<1>3. lampBright \in Nat
  BY <1>2, LitIsNat
<1>4. tx \in Seq(Messages(mType)) /\ rx \in Seq(Messages(mType))
  BY DEF TypeInv, QueueTypes
<1>5. /\ pc \in [{"chip", "app"} -> PCs] /\ job \in [{"chip", "app"} -> Jobs(mType)]
      /\ pc["chip"] \in ChipPCs /\ report \in Messages(mType)
  BY DEF TypeInv, ThreadTypes, Threads
<1>6. asked \in Levels[mType] \cup {0} /\ ignored \in BOOLEAN /\ dropped \in BOOLEAN
  BY DEF TypeInv, BudgetTypes
<1>7. mType \in LightTypes /\ Levels[mType] \subseteq 1 .. 254
  BY <1>1, Limits
<1>8. asked \in Nat
  BY <1>6, <1>7
<1> QED
  BY <1>1, <1>2, <1>3, <1>4, <1>5, <1>6, <1>7, <1>8

LEMMA OneMessage ==
  ASSUME NEW m
  PROVE  <<m>> # <<>> /\ Len(<<m>>) = 1 /\ Head(<<m>>) = m /\ Tail(<<m>>) = <<>>
OBVIOUS

\* While nothing is reported and the application thread is idle, the CHIP thread or the
\* MCU makes the next step, for the environment waits.
LEMMA OnlyChipMoves ==
  ASSUME TypeInv, TakingTurns, ChipOnly, ~(tx = <<>> /\ Idle("chip")), [Next]_vars
  PROVE  parking_message \/ Callback("chip") \/ UNCHANGED vars
<1>1. ~Quiet /\ Paced
  BY DEF ChipOnly, Quiet, Idle, Threads, TakingTurns
<1>2. ~(WallSwitch \/ WallDim \/ NetSwitch \/ NetLevel \/ NetColour)
  BY <1>1 DEF WallSwitch, WallDim, NetSwitch, NetLevel, NetColour, Wall, Net
<1>3. ~App
  <2>1. pc["app"] = "idle" /\ rx = <<>>
    BY DEF ChipOnly, Idle
  <2>2. ~(HandleUartCallback \/ Compare)
    BY <2>1 DEF HandleUartCallback, Compare
  <2>3. ~UpdateFromHardware
    BY <2>1 DEF UpdateFromHardware, UpdateSwitch, UpdateLevel, TurnWithLevel
  <2>4. ~WriteAttribute
    BY <2>1 DEF WriteAttribute
  <2>5. ~Callback("app")
    BY <2>1 DEF Callback, Decide, SetDevice, SendToMcu
  <2> QED
    BY <2>2, <2>3, <2>4, <2>5 DEF App
<1> QED
  BY <1>2, <1>3 DEF Next, Chip

\* The same for the application thread, while no command is under way.
LEMMA OnlyAppMoves ==
  ASSUME TypeInv, TakingTurns, AppOnly, ~(rx = <<>> /\ Idle("app")), [Next]_vars
  PROVE  App \/ UNCHANGED vars
<1>1. ~Quiet /\ Paced
  BY DEF AppOnly, Quiet, Idle, Threads, TakingTurns
<1>2. ~(WallSwitch \/ WallDim \/ NetSwitch \/ NetLevel \/ NetColour)
  BY <1>1 DEF WallSwitch, WallDim, NetSwitch, NetLevel, NetColour, Wall, Net
<1>3. ~Callback("chip") /\ ~parking_message
  <2>1. pc["chip"] = "idle" /\ tx = <<>>
    BY DEF AppOnly, Idle
  <2>2. ~parking_message
    BY <2>1 DEF parking_message
  <2>3. ~Callback("chip")
    BY <2>1 DEF Callback, Decide, SetDevice, SendToMcu
  <2> QED
    BY <2>2, <2>3
<1> QED
  BY <1>2, <1>3 DEF Next, Chip

\* What stays consistent.
Copies == <<currentLevel, mLevel, mColorLevel, mType, lampBright, asked, hsv, lampColor>>

LEMMA ConsistentKept ==
  ASSUME Consistent, UNCHANGED Copies, ignored' = ignored
  PROVE  Consistent'
BY DEF Consistent, Copies, Fits, NearAsked, Coloured, IsDimmer, IsColour, Refreshes

LEMMA FitsKept ==
  ASSUME Fits, NearAsked, UNCHANGED <<currentLevel, mLevel, mColorLevel, mType, lampBright, asked>>
  PROVE  Fits' /\ NearAsked'
BY DEF Fits, NearAsked, IsDimmer, IsColour, Refreshes

\* A thread's own step.
LEMMA ThreadMoves ==
  ASSUME TypeInv, NEW t \in {"chip", "app"}, NEW next, pc' = [pc EXCEPT ![t] = next]
  PROVE  /\ pc'[t] = next
         /\ t = "chip" => pc'["app"] = pc["app"]
         /\ t = "app" => pc'["chip"] = pc["chip"]
<1>1. pc \in [{"chip", "app"} -> PCs]
  BY TurnTypes
<1> QED
  BY <1>1

\* A command finds room, and with it the reports that the lamp answers.
LEMMA RoomToSend ==
  ASSUME TypeInv, TakingTurns, NEW t \in {"chip", "app"}, SendToMcu(t), tx = <<>>
  PROVE  tx' = <<Command(job[t])>> /\ dropped' = dropped
<1>1. TxDepth \in Nat /\ TxDepth >= 1 /\ Len(tx) = 0
  BY Limits DEF TakingTurns
<1>2. dropped' = dropped
  BY <1>1, TurnTypes DEF SendToMcu
<1>3. tx' = Append(tx, Command(job[t]))
  BY <1>1 DEF SendToMcu, Put
<1> QED
  BY <1>2, <1>3

LEMMA RoomToTell ==
  ASSUME TypeInv, TakingTurns, NEW cmd \in Messages(mType), Drive(cmd), Len(rx) <= 1
  PROVE  /\ rx' = (IF TellsLevel(cmd) THEN rx \o <<cmd, Level(lampBright)>> ELSE rx \o <<cmd>>)
         /\ dropped' = dropped
<1>1. /\ RxDepth \in Nat /\ RxDepth >= 3 /\ rx \in Seq(Messages(mType)) /\ Len(rx) \in Nat
      /\ Level(lampBright) \in Messages(mType)
  <2>1. lampBright \in Lit(mType) /\ rx \in Seq(Messages(mType))
    BY TurnTypes
  <2>2. Level(lampBright) \in Messages(mType)
    BY <2>1, MessageMembers
  <2>3. RxDepth \in Nat
    BY Limits, Zenon
  <2>4. RxDepth >= 3
    BY DEF TakingTurns
  <2> QED
    BY <2>1, <2>2, <2>3, <2>4
<1>2. dropped' = dropped
  BY <1>1, TurnTypes DEF Drive
<1>3. Put(rx, RxDepth, cmd) = Append(rx, cmd) /\ Len(Append(rx, cmd)) = Len(rx) + 1
  BY <1>1, AppendProperties DEF Put
<1>4. Append(rx, cmd) = rx \o <<cmd>>
  BY <1>1, AppendIsConcat
<1>5. CASE TellsLevel(cmd)
  <2>1. rx' = Append(Append(rx, cmd), Level(lampBright))
    BY <1>1, <1>3, <1>5 DEF Drive, Put
  <2>2. Append(Append(rx, cmd), Level(lampBright)) = rx \o <<cmd, Level(lampBright)>>
    BY <1>1
  <2> QED
    BY <1>2, <1>5, <2>1, <2>2
<1>6. CASE ~TellsLevel(cmd)
  BY <1>2, <1>3, <1>4, <1>6 DEF Drive
<1> QED
  BY <1>5, <1>6

-----------------------------------------------------------------------------
(***************************************************************************)
(* The phases, one lemma for the steps of each.                            *)
(***************************************************************************)
LEMMA OneAhead ==
  ASSUME NEW S, NEW m \in S, NEW q \in Seq(S)
  PROVE  /\ <<m>> \o q \in Seq(S) /\ Len(<<m>> \o q) = Len(q) + 1
         /\ <<m>> \o q # <<>> /\ Head(<<m>> \o q) = m /\ Tail(<<m>> \o q) = q
<1>1. <<m>> \in Seq(S) /\ Len(<<m>>) = 1 /\ <<m>>[1] = m
  OBVIOUS
<1>2. /\ <<m>> \o q \in Seq(S) /\ Len(<<m>> \o q) = Len(q) + 1
      /\ (<<m>> \o q)[1] = m
      /\ \A i \in 1 .. Len(q) : (<<m>> \o q)[i + 1] = q[i]
  BY <1>1
<1>3. Tail(<<m>> \o q) = q
  BY <1>2
<1> QED
  BY <1>2, <1>3

LEMMA TwoAhead ==
  ASSUME NEW S, NEW a \in S, NEW b \in S
  PROVE  <<>> \o <<a, b>> = <<a>> \o <<b>> /\ <<>> \o <<a>> = <<a>> \o <<>>
<1>1. /\ <<a, b>> \in Seq(S) /\ Len(<<a, b>>) = 2 /\ <<a, b>>[1] = a /\ <<a, b>>[2] = b
      /\ <<a>> \in Seq(S) /\ <<b>> \in Seq(S)
  OBVIOUS
<1>2. <<>> \o <<a, b>> = <<a, b>> /\ <<>> \o <<a>> = <<a>> /\ <<a>> \o <<>> = <<a>>
  BY <1>1, ConcatEmptySeq
<1>3. <<a>> \o <<b>> = Append(<<a>>, b)
  BY <1>1, AppendIsConcat
<1>4. /\ Append(<<a>>, b) \in Seq(S) /\ Len(Append(<<a>>, b)) = 2
      /\ Append(<<a>>, b)[1] = a /\ Append(<<a>>, b)[2] = b
  BY <1>1, AppendProperties
<1>5. Append(<<a>>, b) = <<a, b>>
  <2>1. /\ Len(Append(<<a>>, b)) = Len(<<a, b>>)
        /\ \A i \in 1 .. Len(Append(<<a>>, b)) : Append(<<a>>, b)[i] = <<a, b>>[i]
    BY <1>1, <1>4
  <2> QED
    BY <1>1, <1>4, <2>1, SeqEqual
<1> QED
  BY <1>2, <1>3, <1>5

\* Echoes stay echoes while what they are compared with stays the same.
LEMMA EchoesKept ==
  ASSUME NEW v, UNCHANGED <<mType, lampBright, mColorLevel>>
  PROVE  Echoes(v)' = Echoes(v) /\ Rest(v)' = Rest(v)
BY DEF Echoes, Rest

LEMMA RestIsEcho ==
  ASSUME TypeInv, NEW v \in {0, 1}
  PROVE  /\ Rest(v) \in Seq(Echoes(v)) /\ Len(Rest(v)) \in {0, 1}
         /\ <<Switch(v)>> \o Rest(v) \in Seq(Echoes(v))
         /\ Len(<<Switch(v)>> \o Rest(v)) \in {1, 2}
         /\ Switch(v) \in Echoes(v)
         /\ Len(<<Switch(v)>>) = 1 /\ <<Switch(v)>> \in Seq(Echoes(v))
<1>1. lampBright \in Lit(mType)
  BY TurnTypes
<1>2. Switch(v) \in Messages(mType) /\ Level(lampBright) \in Messages(mType)
  BY <1>1, MessageMembers
<1>3. Switch(v) \in Echoes(v)
  BY <1>2 DEF Echoes
<1>4. v = 1 => Level(lampBright) \in Echoes(v)
  BY <1>2 DEF Echoes, Level
<1>5. Rest(v) \in Seq(Echoes(v)) /\ Len(Rest(v)) \in {0, 1}
  BY <1>4 DEF Rest
<1>6. <<Switch(v)>> \in Seq(Echoes(v)) /\ Len(<<Switch(v)>>) = 1
  BY <1>3
<1>7. <<Switch(v)>> \o Rest(v) \in Seq(Echoes(v)) /\ Len(<<Switch(v)>> \o Rest(v)) \in {1, 2}
  BY <1>3, <1>5, OneAhead
<1> QED
  BY <1>3, <1>5, <1>6, <1>7

\* What the lamp reports of a switch that it obeys while the queue is empty.
LEMMA SwitchTold ==
  ASSUME TypeInv, TakingTurns, NEW v \in {0, 1}, Drive(Switch(v)), rx = <<>>
  PROVE  /\ rx' = <<Switch(v)>> \o Rest(v)
         /\ dropped' = dropped /\ lampOn' = v /\ UNCHANGED <<lampBright, lampColor>>
<1>1. /\ Switch(v) \in Messages(mType) /\ Len(rx) = 0
      /\ Level(lampBright) \in Messages(mType)
  BY TurnTypes, MessageMembers
<1>2. /\ rx' = (IF TellsLevel(Switch(v)) THEN <<>> \o <<Switch(v), Level(lampBright)>>
                                       ELSE <<>> \o <<Switch(v)>>)
      /\ dropped' = dropped
  BY <1>1, RoomToTell
<1>3. TellsLevel(Switch(v)) <=> v = 1 /\ mType # "OnOff"
  BY DEF TellsLevel, Switch
<1>4. CASE TellsLevel(Switch(v))
  <2>1. rx' = <<>> \o <<Switch(v), Level(lampBright)>> /\ Rest(v) = <<Level(lampBright)>>
    BY <1>2, <1>3, <1>4 DEF Rest
  <2>2. <<>> \o <<Switch(v), Level(lampBright)>> = <<Switch(v)>> \o <<Level(lampBright)>>
    BY <1>1, TwoAhead
  <2> QED
    BY <1>2, <2>1, <2>2, SwitchFacts DEF Drive
<1>5. CASE ~TellsLevel(Switch(v))
  <2>1. rx' = <<>> \o <<Switch(v)>> /\ Rest(v) = <<>>
    BY <1>2, <1>3, <1>5 DEF Rest
  <2>2. <<>> \o <<Switch(v)>> = <<Switch(v)>> \o <<>>
    BY <1>1, TwoAhead
  <2> QED
    BY <1>2, <2>1, <2>2, SwitchFacts DEF Drive
<1> QED
  BY <1>4, <1>5

LEMMA SwitchObeyed ==
  ASSUME TypeInv, TypeInv', TakingTurns, NEW v \in {0, 1}, Consistent, ChipOnly, Idle("chip"),
         tx = <<Switch(v)>>, IsTurnedOn = v, onOff = v, parking_message
  PROVE  dropped' = dropped /\ Settled(v)'
<1>1. /\ tx' = <<>> /\ Drive(Switch(v)) /\ rx = <<>>
      /\ UNCHANGED <<onOff, mState, pc>>
  BY OneMessage DEF parking_message, ChipOnly, attributes, dimmer, threads
<1>2. /\ rx' = <<Switch(v)>> \o Rest(v)
      /\ dropped' = dropped /\ lampOn' = v /\ UNCHANGED <<lampBright, lampColor>>
  BY <1>1, SwitchTold
<1>3. UNCHANGED Copies /\ ignored' = ignored
  BY <1>2 DEF parking_message, attributes, dimmer, Copies
<1>4. Consistent'
  BY <1>3, ConsistentKept
<1>5. rx' \in Seq(Echoes(v)) /\ Len(rx') \in {1, 2} /\ Echoes(v)' = Echoes(v)
  BY <1>2, <1>3, RestIsEcho, EchoesKept DEF Copies
<1>6. Agree(v)' /\ Idle("chip")' /\ Idle("app")'
  BY <1>1, <1>2 DEF Agree, IsTurnedOn, ChipOnly, Idle
<1>7. tx' \in {<<>>, <<Switch(v)>>} /\ Len(rx') + 2 * Len(tx') <= 3
  <2>1. tx' = <<>> /\ Len(tx') = 0
    BY <1>1
  <2>2. \A n \in {1, 2} : n + 2 * Len(tx') <= 3
    BY <2>1
  <2>3. Len(rx') + 2 * Len(tx') <= 3
    BY <1>5, <2>2, Zenon
  <2> QED
    BY <2>1, <2>3
<1> QED
  BY <1>2, <1>4, <1>5, <1>6, <1>7 DEF Settled

LEMMA NetSwitchedSteps ==
  ASSUME TypeInv, TypeInv', TakingTurns, NEW v \in {0, 1}, NetSwitched(v),
         parking_message \/ Callback("chip")
  PROVE  dropped' = dropped /\ (NetSwitched(v)' \/ Settled(v)')
<1>1. Consistent /\ rx = <<>> /\ pc["app"] = "idle" /\ lampOn = 1 - v /\ onOff = v
  BY DEF NetSwitched, ChipOnly, Idle
<1>2. CASE tx = <<Switch(v)>> /\ Idle("chip")
  <2>1. ~Callback("chip")
    BY <1>2 DEF Idle, Callback, Decide, SetDevice, SendToMcu
  <2>2. IsTurnedOn = v
    BY <1>2 DEF NetSwitched, Idle
  <2> QED
    BY <1>1, <1>2, <2>1, <2>2, SwitchObeyed DEF NetSwitched
<1>3. CASE tx = <<>>
  <2>1. /\ job["chip"] = Switch(v)
        /\ \/ pc["chip"] \in {"decide", "set"} /\ IsTurnedOn = 1 - v
           \/ pc["chip"] = "send" /\ IsTurnedOn = v
    BY <1>3, OneMessage DEF NetSwitched
  <2>2. ~parking_message
    BY <1>3 DEF parking_message
  <2>3. job["chip"].dp = "switch" /\ job["chip"].v = v
    BY <2>1, SwitchFacts
  <2>4. CASE Decide("chip")
    <3>1. Initiates(job["chip"]) /\ IsTurnedOn = 1 - v
      BY <2>1, <2>3, <2>4 DEF Initiates, Decide
    <3>2. /\ pc' = [pc EXCEPT !["chip"] = "set"] /\ ignored' = ignored
          /\ UNCHANGED <<Copies, tx, rx, job, mState, onOff, lampOn, dropped>>
      BY <2>3, <2>4, <3>1 DEF Decide, Copies, attributes, dimmer, lamp
    <3>3. pc'["chip"] = "set" /\ pc'["app"] = "idle"
      BY <1>1, <3>2, ThreadMoves
    <3>4. Consistent'
      BY <1>1, <3>2, ConsistentKept
    <3>5. IsTurnedOn' = 1 - v
      BY <3>1, <3>2 DEF IsTurnedOn
    <3> QED
      BY <1>1, <1>3, <2>1, <3>2, <3>3, <3>4, <3>5 DEF NetSwitched, ChipOnly, Idle
  <2>5. CASE SetDevice("chip")
    <3>1. /\ pc' = [pc EXCEPT !["chip"] = "send"] /\ ignored' = ignored
          /\ mState' = StateAfterSet(v)
          /\ UNCHANGED <<Copies, tx, rx, job, onOff, lampOn, dropped>>
      BY <2>3, <2>5 DEF SetDevice, Copies, attributes, lamp, budget
    <3>3. pc'["chip"] = "send" /\ pc'["app"] = "idle"
      BY <1>1, <3>1, ThreadMoves
    <3>4. Consistent'
      BY <1>1, <3>1, ConsistentKept
    <3>5. IsTurnedOn' = v
      BY <3>1 DEF IsTurnedOn, StateAfterSet, kState_On, kState_Off
    <3> QED
      BY <1>1, <1>3, <2>1, <3>1, <3>3, <3>4, <3>5 DEF NetSwitched, ChipOnly, Idle
  <2>6. CASE SendToMcu("chip")
    <3>1. /\ pc' = [pc EXCEPT !["chip"] = "idle"] /\ ignored' = ignored
          /\ UNCHANGED <<Copies, rx, mState, onOff, lampOn>>
      BY <2>6 DEF SendToMcu, AfterCallback, Copies, attributes, dimmer, lamp
    <3>2. IsTurnedOn = v
      BY <2>1, <2>6 DEF SendToMcu
    <3>3. tx' = <<Switch(v)>> /\ dropped' = dropped
      <4>1. Command(job["chip"]) = Switch(v)
        BY <2>3, <3>2 DEF Command
      <4> QED
        BY <1>3, <2>6, <4>1, RoomToSend
    <3>4. pc'["chip"] = "idle" /\ pc'["app"] = "idle"
      BY <1>1, <3>1, ThreadMoves
    <3>5. Consistent'
      BY <1>1, <3>1, ConsistentKept
    <3>6. IsTurnedOn' = v
      BY <3>1, <3>2 DEF IsTurnedOn
    <3> QED
      BY <1>1, <3>1, <3>3, <3>4, <3>5, <3>6 DEF NetSwitched, ChipOnly, Idle
  <2> QED
    BY <2>2, <2>4, <2>5, <2>6 DEF Callback
<1> QED
  BY <1>2, <1>3 DEF NetSwitched

LEMMA LevelFacts == \A v : Level(v).dp = "level" /\ Level(v).v = v
BY DEF Level

LEMMA ColourFacts == \A hs, v : /\ Colour(hs, v).dp = "colour"
                                /\ Colour(hs, v).hs = hs /\ Colour(hs, v).v = v
BY DEF Colour

\* The levels that may be asked for, by type.
LEMMA AskedLevels ==
  ASSUME TypeInv, TakingTurns, NEW l \in Levels[mType]
  PROVE  /\ l \in 1 .. 254 /\ l \in Nat /\ mType # "OnOff"
         /\ IsDimmer => l >= 2
<1>1. mType \in Lights
  BY DEF TypeInv
<1>2. Levels[mType] \subseteq 1 .. 254
  BY <1>1, Limits, Zenon
<1>3. l \in 1 .. 254
  BY <1>2
<1>4. mType # "OnOff" /\ (mType = "LevelControl" => l >= 2)
  BY <1>1, Zenon DEF TakingTurns
<1> QED
  BY <1>3, <1>4 DEF IsDimmer

\* What SetDevice makes of a level.
LEMMA LevelSet ==
  ASSUME TypeInv, NEW t \in {"chip", "app"}, SetDevice(t), job[t].dp = "level",
         job[t].v \in 0 .. 254
  PROVE  /\ mLevel' = job[t].v
         /\ mColorLevel' = IF IsColour THEN Wide(job[t].v) ELSE mColorLevel
         /\ pc' = [pc EXCEPT ![t] = "send"]
         /\ UNCHANGED <<mType, mState, mColor, onOff, currentLevel, hsv, tx, rx, lampOn, lampBright,
                        lampColor, job, report, asked, ignored, dropped>>
<1>1. Wide(job[t].v) % 65536 = Wide(job[t].v)
  BY WideFacts
<1>2. ((job[t].v * 65535) \div 254) % 65536 = Wide(job[t].v)
  BY <1>1 DEF Wide
<1>3. mColorLevel' = ColorLevelAfterSet(job[t].v) /\ mLevel' = job[t].v
  BY DEF SetDevice
<1>4. ColorLevelAfterSet(job[t].v) = IF IsColour THEN Wide(job[t].v) ELSE mColorLevel
  BY <1>2 DEF ColorLevelAfterSet, IsColour
<1> QED
  BY <1>3, <1>4 DEF SetDevice, attributes, lamp, budget

LEMMA NetLevelledSteps ==
  ASSUME TypeInv, TypeInv', TakingTurns, NEW l \in Levels[mType], NetLevelled(l),
         parking_message \/ Callback("chip")
  PROVE  dropped' = dropped /\ (NetLevelled(l)' \/ LevelSent')
<1>1. /\ rx = <<>> /\ tx = <<>> /\ pc["app"] = "idle" /\ job["chip"] = Level(l)
      /\ currentLevel = l /\ asked = l /\ lampOn = 1 /\ onOff = 1 /\ IsTurnedOn = 1
      /\ job["chip"].dp = "level" /\ job["chip"].v = l
  BY LevelFacts DEF NetLevelled, ChipOnly, Idle, Agree
<1>2. l \in 1 .. 254 /\ mType # "OnOff" /\ l \in 0 .. 254 /\ (IsDimmer => l >= 2)
  BY AskedLevels
<1>3. ~parking_message
  BY <1>1 DEF parking_message
<1>4. CASE Decide("chip")
  <2>1. Initiates(job["chip"])
    BY <1>1, <1>2, <1>4 DEF Initiates, Decide, NetLevelled
  <2>2. /\ pc' = [pc EXCEPT !["chip"] = "set"] /\ ignored' = ignored
        /\ UNCHANGED <<Copies, tx, rx, job, mState, onOff, lampOn, dropped>>
    BY <1>1, <1>4, <2>1 DEF Decide, Copies, attributes, dimmer, lamp
  <2>3. pc'["chip"] = "set" /\ pc'["app"] = "idle"
    BY <1>1, <2>2, ThreadMoves
  <2>4. Agree(1)' /\ Coloured'
    BY <1>1, <2>2 DEF Agree, IsTurnedOn, Coloured, Copies, IsColour, NetLevelled
  <2>5. mLevel # l
    BY <1>4 DEF NetLevelled, Decide
  <2> QED
    BY <1>1, <1>2, <2>2, <2>3, <2>4, <2>5 DEF NetLevelled, ChipOnly, Idle, Copies
<1>5. CASE SetDevice("chip")
  <2>1. /\ mLevel' = l
        /\ mColorLevel' = IF IsColour THEN Wide(l) ELSE mColorLevel
        /\ pc' = [pc EXCEPT !["chip"] = "send"]
        /\ UNCHANGED <<mType, mState, mColor, onOff, currentLevel, hsv, tx, rx, lampOn, lampBright,
                       lampColor, job, report, asked, ignored, dropped>>
    <3>1. job["chip"].dp = "level" /\ job["chip"].v = l /\ job["chip"].v \in 0 .. 254
      BY <1>1, <1>2
    <3>2. /\ mLevel' = job["chip"].v
          /\ mColorLevel' = IF IsColour THEN Wide(job["chip"].v) ELSE mColorLevel
          /\ pc' = [pc EXCEPT !["chip"] = "send"]
          /\ UNCHANGED <<mType, mState, mColor, onOff, currentLevel, hsv, tx, rx, lampOn, lampBright,
                         lampColor, job, report, asked, ignored, dropped>>
      BY <1>5, <3>1, LevelSet
    <3> QED
      BY <3>1, <3>2
  <2>2. pc'["chip"] = "send" /\ pc'["app"] = "idle"
    BY <1>1, <2>1, ThreadMoves
  <2>3. Agree(1)' /\ Coloured'
    BY <1>1, <2>1 DEF Agree, IsTurnedOn, Coloured, IsColour, NetLevelled
  <2> QED
    BY <1>1, <1>2, <2>1, <2>2, <2>3 DEF NetLevelled, ChipOnly, Idle, IsColour
<1>6. CASE SendToMcu("chip")
  <2>1. /\ pc' = [pc EXCEPT !["chip"] = "idle"] /\ ignored' = ignored
        /\ UNCHANGED <<Copies, rx, mState, onOff, lampOn>>
    BY <1>6 DEF SendToMcu, AfterCallback, Copies, attributes, dimmer, lamp
  <2>2. mLevel = l /\ (IsColour => mColorLevel = Wide(l))
    BY <1>6 DEF NetLevelled, SendToMcu
  <2>3. tx' = <<LevelCommand>> /\ dropped' = dropped
    <3>1. Command(job["chip"]) = LevelCommand
      BY <1>1 DEF Command, LevelCommand, IsColour
    <3> QED
      BY <1>1, <1>6, <3>1, RoomToSend
  <2>4. pc'["chip"] = "idle" /\ pc'["app"] = "idle"
    BY <1>1, <2>1, ThreadMoves
  <2>5. Agree(1)' /\ Coloured' /\ NearAsked'
    BY <1>1, <1>2, <2>1 DEF Agree, IsTurnedOn, Coloured, IsColour, NetLevelled, NearAsked, Copies
  <2>6. ChipOnly' /\ Idle("chip")'
    BY <1>1, <2>1, <2>4 DEF ChipOnly, Idle
  <2>7. UNCHANGED <<mType, mLevel, mColorLevel, currentLevel, asked>>
    BY <2>1 DEF Copies
  <2>8. LevelCommand' = LevelCommand
    BY <2>7 DEF LevelCommand, IsColour
  <2>9. mLevel' \in 1 .. 254 /\ (IsDimmer' => mLevel' >= 2 /\ asked' = mLevel')
    BY <1>1, <1>2, <2>2, <2>7 DEF IsDimmer
  <2>10. IsColour' => mColorLevel' = Wide(mLevel')
    BY <2>2, <2>7 DEF IsColour
  <2> QED
    BY <1>1, <1>2, <2>2, <2>3, <2>5, <2>6, <2>7, <2>8, <2>9, <2>10 DEF LevelSent
<1> QED
  BY <1>3, <1>4, <1>5, <1>6 DEF Callback

\* What the lamp reports of a command that is not for the switch.
LEMMA ValueTold ==
  ASSUME TypeInv, TakingTurns, NEW cmd \in Messages(mType), Drive(cmd), rx = <<>>,
         cmd.dp # "switch"
  PROVE  /\ rx' = <<cmd>> /\ dropped' = dropped
         /\ lampOn' = lampOn /\ lampBright' = cmd.v
         /\ lampColor' = IF cmd.dp = "colour" THEN cmd.hs ELSE lampColor
<1>0. Heard(cmd) = cmd
  BY DEF TakingTurns, Heard
<1>1. Len(rx) = 0
  OBVIOUS
<1>2. ~TellsLevel(cmd)
  BY SwitchFacts DEF TellsLevel
<1>3. rx' = <<>> \o <<cmd>> /\ dropped' = dropped
  BY <1>1, <1>2, RoomToTell
<1>4. <<>> \o <<cmd>> = <<cmd>>
  BY ConcatEmptySeq
<1> QED
  BY <1>0, <1>3, <1>4 DEF Drive

LEMMA LevelSentSteps ==
  ASSUME TypeInv, TypeInv', TakingTurns, LevelSent, parking_message \/ Callback("chip")
  PROVE  dropped' = dropped /\ (LevelReported' \/ Settled(1)')
<1> DEFINE b == IF IsColour THEN mColorLevel ELSE (mLevel * 1000) \div 254
<1>1. /\ rx = <<>> /\ pc["app"] = "idle" /\ pc["chip"] = "idle"
      /\ tx = <<Level(b)>> /\ lampOn = 1 /\ onOff = 1 /\ IsTurnedOn = 1
      /\ Coloured /\ NearAsked /\ currentLevel = mLevel /\ mLevel \in 1 .. 254
      /\ (IsDimmer => mLevel >= 2 /\ asked = mLevel)
      /\ (IsColour => mColorLevel = Wide(mLevel)) /\ mType # "OnOff"
  BY DEF LevelSent, LevelCommand, ChipOnly, Idle, Agree
<1> HIDE DEF b
<1>2. ~Callback("chip")
  BY <1>1 DEF Callback, Decide, SetDevice, SendToMcu
<1>3. Level(b) \in Messages(mType) /\ Level(b).dp = "level" /\ Level(b).v = b
  <2>1. tx \in Seq(Messages(mType)) /\ Len(tx) = 1 /\ tx[1] = Level(b)
    BY <1>1, TurnTypes
  <2>2. tx[1] \in Messages(mType)
    BY <2>1
  <2> QED
    BY <2>1, <2>2, LevelFacts
<1>4. /\ tx' = <<>> /\ Drive(Level(b))
      /\ UNCHANGED <<onOff, currentLevel, hsv, mType, mState, mLevel, mColorLevel, pc, report, asked, ignored>>
  <2>1. parking_message
    BY <1>2
  <2>2. Head(tx) = Level(b) /\ Tail(tx) = <<>>
    BY <1>1, OneMessage
  <2> QED
    BY <2>1, <2>2 DEF parking_message, attributes, dimmer, threads
<1>5. /\ rx' = <<Level(b)>> /\ dropped' = dropped
      /\ lampOn' = 1 /\ lampBright' = b /\ lampColor' = lampColor
  BY <1>1, <1>3, <1>4, ValueTold
<1>6. Agree(1)' /\ Coloured' /\ Idle("app")' /\ Idle("chip")' /\ NearAsked'
  BY <1>1, <1>4, <1>5 DEF Agree, IsTurnedOn, Coloured, Idle, IsColour, NearAsked
<1>7. CASE IsColour
  <2>1. b = mColorLevel
    BY <1>7 DEF b
  <2>2. Fits'
    BY <1>1, <1>4, <1>5, <1>7, <2>1 DEF Fits, IsColour, IsDimmer
  <2>3. rx' \in Seq(Echoes(1)') /\ Len(rx') = 1
    <3>1. Level(b) \in Echoes(1)'
      BY <1>3, <1>4, <1>5 DEF Echoes
    <3> QED
      BY <1>5, <3>1
  <2>4. tx' \in {<<>>, <<Switch(1)>>} /\ Len(rx') + 2 * Len(tx') <= 3
    <3>1. Len(tx') = 0
      BY <1>4
    <3> QED
      BY <1>4, <2>3, <3>1
  <2> QED
    BY <1>5, <1>6, <2>2, <2>3, <2>4 DEF Settled, Consistent
<1>8. CASE ~IsColour
  <2>1. IsDimmer /\ b = (mLevel * 1000) \div 254 /\ mLevel \in 2 .. 254 /\ asked = mLevel
    <3>1. IsDimmer
      BY <1>1, <1>8, TurnTypes DEF IsDimmer, IsColour, LightTypes
    <3> QED
      BY <1>1, <1>8, <3>1 DEF b
  <2>2. LevelOf(b) \in {mLevel - 1, mLevel} /\ LevelOf(b) >= 1
    BY <2>1, ThereAndBack
  <2>3. MayBeTold'
    BY <1>1, <1>4, <1>5, <1>6, <1>8, <2>1, <2>2 DEF MayBeTold, AppOnly, IsDimmer, IsColour
  <2>4. rx' = <<Level(lampBright)>>'
    BY <1>5
  <2>5. currentLevel' = mLevel' /\ mLevel' \in 0 .. 254 /\ asked' = mLevel'
    BY <1>1, <1>4, <2>1
  <2>6. ~IsColour'
    BY <1>4, <1>8 DEF IsColour
  <2> QED
    BY <1>5, <1>6, <2>3, <2>4, <2>5, <2>6 DEF LevelReported
<1> QED
  BY <1>7, <1>8

LEMMA NetColouredSteps ==
  ASSUME TypeInv, TypeInv', TakingTurns, NEW on \in {0, 1}, NetColoured(on),
         parking_message \/ Callback("chip")
  PROVE  dropped' = dropped /\ (NetColoured(on)' \/ Settled(on)')
<1>1. /\ rx = <<>> /\ pc["app"] = "idle" /\ IsColour /\ Fits /\ NearAsked
      /\ lampOn = on /\ onOff = on /\ IsTurnedOn = on
  BY DEF NetColoured, ChipOnly, Idle, Agree
<1>2. CASE tx = <<Colour(ColorOf(hsv), mColorLevel)>> /\ Idle("chip") /\ ~ignored
  <2> DEFINE cmd == Colour(ColorOf(hsv), mColorLevel)
  <2>1. cmd \in Messages(mType) /\ cmd.dp = "colour" /\ cmd.v = mColorLevel
        /\ cmd.hs = ColorOf(hsv) /\ Head(tx) = cmd /\ Tail(tx) = <<>>
    <3>1. tx \in Seq(Messages(mType)) /\ Len(tx) = 1 /\ tx[1] = cmd
      BY <1>2, TurnTypes
    <3>2. tx[1] \in Messages(mType)
      BY <3>1
    <3> QED
      BY <1>2, <3>1, <3>2, ColourFacts, OneMessage
  <2> HIDE DEF cmd
  <2>2. parking_message
    BY <1>2 DEF Idle, Callback, Decide, SetDevice, SendToMcu
  <2>3. /\ tx' = <<>> /\ Drive(cmd)
        /\ UNCHANGED <<onOff, currentLevel, hsv, mType, mState, mLevel, mColorLevel, pc, asked, ignored>>
    BY <2>1, <2>2 DEF parking_message, attributes, dimmer, threads
  <2>4. /\ rx' = <<cmd>> /\ dropped' = dropped
        /\ lampOn' = lampOn /\ lampBright' = mColorLevel /\ lampColor' = ColorOf(hsv)
    BY <1>1, <2>1, <2>3, ValueTold
  <2>5. Agree(on)' /\ Idle("app")' /\ Idle("chip")' /\ NearAsked'
    BY <1>1, <1>2, <2>3, <2>4 DEF Agree, IsTurnedOn, Idle, NearAsked
  <2>6. Coloured'
    <3>1. ColorOf(hsv)' = ColorOf(hsv)
      BY <2>3 DEF ColorOf
    <3> QED
      BY <2>4, <3>1 DEF Coloured
  <2>7. Fits'
    BY <1>1, <2>3, <2>4 DEF Fits, IsColour, IsDimmer
  <2>8. rx' \in Seq(Echoes(on)') /\ Len(rx') = 1
    <3>1. cmd \in Echoes(on)'
      BY <2>1, <2>3, <2>4 DEF Echoes
    <3> QED
      BY <2>4, <3>1
  <2>9. tx' \in {<<>>, <<Switch(on)>>} /\ Len(rx') + 2 * Len(tx') <= 3
    <3>1. Len(tx') = 0
      BY <2>3
    <3> QED
      BY <2>3, <2>8, <3>1
  <2> QED
    BY <2>4, <2>5, <2>6, <2>7, <2>8, <2>9 DEF Settled, Consistent
<1>3. CASE tx = <<>>
  <2>1. /\ job["chip"].dp = "colour" /\ job["chip"].hs = hsv
        /\ \/ pc["chip"] = "decide"
           \/ pc["chip"] = "set" /\ ~ignored
           \/ pc["chip"] = "send" /\ ~ignored /\ mColor = ColorOf(hsv)
    BY <1>3, OneMessage DEF NetColoured
  <2>2. ~parking_message
    BY <1>3 DEF parking_message
  <2>3. CASE Decide("chip")
    <3>1. /\ ignored' = ~Initiates(job["chip"])
          /\ pc' = [pc EXCEPT !["chip"] = IF Initiates(job["chip"]) THEN "set" ELSE "idle"]
          /\ UNCHANGED <<Copies, tx, rx, job, mState, onOff, lampOn, dropped>>
      BY <2>1, <2>3 DEF Decide, Copies, attributes, dimmer, lamp, AfterCallback
    <3>2. /\ pc'["chip"] = (IF Initiates(job["chip"]) THEN "set" ELSE "idle")
          /\ pc'["app"] = "idle"
      BY <1>1, <3>1, ThreadMoves
    <3>3. Fits' /\ NearAsked'
      BY <1>1, <3>1, FitsKept DEF Copies
    <3>4. Agree(on)' /\ IsColour' /\ ChipOnly'
      BY <1>1, <3>1, <3>2 DEF Agree, IsTurnedOn, IsColour, Copies, ChipOnly, Idle
    <3>5. CASE Initiates(job["chip"])
      <4>1. pc'["chip"] = "set" /\ ~ignored'
        BY <3>1, <3>2, <3>5
      <4>2. tx' = <<>> /\ job'["chip"].dp = "colour" /\ job'["chip"].hs = hsv'
        BY <1>3, <2>1, <3>1 DEF Copies
      <4> QED
        BY <3>1, <3>3, <3>4, <4>1, <4>2 DEF NetColoured
    <3>6. CASE ~Initiates(job["chip"])
      <4>1. pc'["chip"] = "idle" /\ ignored' /\ Coloured' /\ Idle("app")' /\ Idle("chip")'
        BY <3>1, <3>2, <3>6 DEF Coloured, Idle
      <4>2. rx' \in Seq(Echoes(on)') /\ tx' = <<>> /\ Len(rx') + 2 * Len(tx') <= 3
        <5>1. rx' = <<>> /\ tx' = <<>>
          BY <1>1, <1>3, <3>1
        <5>2. Len(rx') = 0 /\ Len(tx') = 0
          BY <5>1
        <5> QED
          BY <5>1, <5>2
      <4> QED
        BY <3>1, <3>3, <3>4, <4>1, <4>2 DEF Settled, Consistent
    <3> QED
      BY <3>5, <3>6
  <2>4. CASE SetDevice("chip")
    <3>1. /\ pc' = [pc EXCEPT !["chip"] = "send"] /\ ignored' = ignored
          /\ mColor' = ColorOf(hsv)
          /\ UNCHANGED <<Copies, tx, rx, job, mState, onOff, lampOn, dropped>>
      BY <2>1, <2>4 DEF SetDevice, Copies, attributes, lamp, budget
    <3>2. pc'["chip"] = "send" /\ pc'["app"] = "idle"
      BY <1>1, <3>1, ThreadMoves
    <3>3. Fits' /\ NearAsked'
      BY <1>1, <3>1, FitsKept DEF Copies
    <3>4. Agree(on)' /\ IsColour' /\ ChipOnly'
      BY <1>1, <3>1, <3>2 DEF Agree, IsTurnedOn, IsColour, Copies, ChipOnly, Idle
    <3>5. tx' = <<>> /\ job'["chip"].dp = "colour" /\ job'["chip"].hs = hsv'
      BY <1>3, <2>1, <3>1 DEF Copies
    <3>6. ~ignored' /\ mColor' = ColorOf(hsv)'
      BY <2>1, <2>4, <3>1 DEF SetDevice, ColorOf, Copies
    <3> QED
      BY <3>1, <3>2, <3>3, <3>4, <3>5, <3>6 DEF NetColoured
  <2>5. CASE SendToMcu("chip")
    <3>1. /\ pc' = [pc EXCEPT !["chip"] = "idle"] /\ ignored' = ignored
          /\ UNCHANGED <<Copies, rx, mState, onOff, lampOn>>
      BY <2>5 DEF SendToMcu, AfterCallback, Copies, attributes, dimmer, lamp
    <3>2. ~ignored /\ mColor = ColorOf(hsv)
      BY <2>1, <2>5 DEF SendToMcu
    <3>3. tx' = <<Colour(ColorOf(hsv), mColorLevel)>> /\ dropped' = dropped
      <4>1. Command(job["chip"]) = Colour(ColorOf(hsv), mColorLevel)
        BY <2>1, <3>2 DEF Command
      <4> QED
        BY <1>3, <2>5, <4>1, RoomToSend
    <3>4. pc'["chip"] = "idle" /\ pc'["app"] = "idle"
      BY <1>1, <3>1, ThreadMoves
    <3>5. Fits' /\ NearAsked'
      BY <1>1, <3>1, FitsKept DEF Copies
    <3>6. Agree(on)' /\ IsColour' /\ ChipOnly' /\ Idle("chip")'
      BY <1>1, <3>1, <3>4 DEF Agree, IsTurnedOn, IsColour, Copies, ChipOnly, Idle
    <3>7. ~ignored' /\ tx' = <<Colour(ColorOf(hsv)', mColorLevel')>>
      BY <3>1, <3>2, <3>3 DEF ColorOf, Copies
    <3> QED
      BY <3>3, <3>5, <3>6, <3>7 DEF NetColoured
  <2> QED
    BY <2>2, <2>3, <2>4, <2>5 DEF Callback
<1> QED
  BY <1>2, <1>3 DEF NetColoured

\* What is under way for a controller stays so until it has settled.
LEMMA ChipPhaseSteps ==
  ASSUME TypeInv, TypeInv', TakingTurns, [Next]_vars,
         \/ \E v \in {0, 1} : NetSwitched(v) \/ NetColoured(v)
         \/ \E l \in Levels[mType] : NetLevelled(l)
         \/ LevelSent
  PROVE  UNCHANGED vars \/ (dropped' = dropped /\ Phase')
<1>1. ChipOnly /\ ~(tx = <<>> /\ Idle("chip"))
  BY OneMessage DEF NetSwitched, NetColoured, NetLevelled, LevelSent, Idle
<1>2. parking_message \/ Callback("chip") \/ UNCHANGED vars
  BY <1>1, OnlyChipMoves
<1>3. SUFFICES ASSUME parking_message \/ Callback("chip")
               PROVE  dropped' = dropped /\ Phase'
  BY <1>2
<1>4. ASSUME NEW v \in {0, 1}, NetSwitched(v) PROVE dropped' = dropped /\ Phase'
  <2>1. dropped' = dropped /\ (NetSwitched(v)' \/ Settled(v)')
    BY <1>3, <1>4, NetSwitchedSteps
  <2> QED
    BY <2>1 DEF Phase
<1>5. ASSUME NEW v \in {0, 1}, NetColoured(v) PROVE dropped' = dropped /\ Phase'
  <2>1. dropped' = dropped /\ (NetColoured(v)' \/ Settled(v)')
    BY <1>3, <1>5, NetColouredSteps
  <2> QED
    BY <2>1 DEF Phase
<1>6. ASSUME NEW l \in Levels[mType], NetLevelled(l) PROVE dropped' = dropped /\ Phase'
  <2>1. dropped' = dropped /\ (NetLevelled(l)' \/ LevelSent')
    BY <1>3, <1>6, NetLevelledSteps
  <2>2. l \in Levels[mType']
    BY TypeStays
  <2> QED
    BY <2>1, <2>2 DEF Phase
<1>7. ASSUME LevelSent PROVE dropped' = dropped /\ Phase'
  <2>1. dropped' = dropped /\ (LevelReported' \/ Settled(1)')
    BY <1>3, <1>7, LevelSentSteps
  <2> QED
    BY <2>1 DEF Phase
<1> QED
  BY <1>4, <1>5, <1>6, <1>7

LEMMA WallSwitchedSteps ==
  ASSUME TypeInv, TypeInv', TakingTurns, NEW v \in {0, 1}, WallSwitched(v), App
  PROVE  dropped' = dropped /\ (WallSwitched(v)' \/ Settled(v)')
<1>1. /\ Consistent /\ tx = <<>> /\ pc["chip"] = "idle" /\ lampOn = v
      /\ Switch(v).dp = "switch" /\ Switch(v).v = v
  BY SwitchFacts DEF WallSwitched, AppOnly, Idle
<1>2. CASE HandleUartCallback
  <2>1. IsTurnedOn = 1 - v /\ onOff = 1 - v /\ rx = <<Switch(v)>> \o Rest(v)
    BY <1>2, <1>1 DEF WallSwitched, HandleUartCallback, Idle
  <2>2. Head(rx) = Switch(v) /\ Tail(rx) = Rest(v)
    BY <2>1, RestIsEcho, OneAhead
  <2>3. /\ rx' = Rest(v) /\ report' = Switch(v)
        /\ pc' = [pc EXCEPT !["app"] = "compare"] /\ ignored' = ignored
        /\ UNCHANGED <<Copies, tx, mState, onOff, lampOn, dropped>>
    BY <1>2, <2>2 DEF HandleUartCallback, Copies, attributes, dimmer, lamp, budget
  <2>4. pc'["app"] = "compare" /\ pc'["chip"] = "idle"
    BY <1>1, <2>3, ThreadMoves
  <2>5. Consistent' /\ Rest(v)' = Rest(v)
    BY <1>1, <2>3, ConsistentKept DEF Copies, Rest
  <2>6. IsTurnedOn' = 1 - v
    BY <2>1, <2>3 DEF IsTurnedOn
  <2> QED
    BY <1>1, <2>1, <2>3, <2>4, <2>5, <2>6 DEF WallSwitched, AppOnly, Idle
<1>3. CASE Compare
  <2>1. /\ report = Switch(v) /\ rx = Rest(v) /\ IsTurnedOn = 1 - v /\ onOff = 1 - v
    BY <1>3 DEF WallSwitched, Compare, Idle
  <2>2. IsNews
    BY <1>1, <2>1 DEF IsNews
  <2>3. /\ pc' = [pc EXCEPT !["app"] = "update"] /\ ignored' = ignored
        /\ UNCHANGED <<Copies, tx, rx, report, mState, onOff, lampOn, dropped>>
    BY <1>3, <2>2 DEF Compare, Copies, attributes, dimmer, lamp, budget
  <2>4. pc'["app"] = "update" /\ pc'["chip"] = "idle"
    BY <1>1, <2>3, ThreadMoves
  <2>5. Consistent' /\ Rest(v)' = Rest(v)
    BY <1>1, <2>3, ConsistentKept DEF Copies, Rest
  <2>6. IsTurnedOn' = 1 - v
    BY <2>1, <2>3 DEF IsTurnedOn
  <2> QED
    BY <1>1, <2>1, <2>3, <2>4, <2>5, <2>6 DEF WallSwitched, AppOnly, Idle
<1>4. CASE UpdateFromHardware
  <2>1. /\ report = Switch(v) /\ rx = Rest(v) /\ IsTurnedOn = 1 - v /\ onOff = 1 - v
    BY <1>4 DEF WallSwitched, UpdateFromHardware, UpdateSwitch, UpdateLevel, TurnWithLevel, Idle
  <2>2. UpdateSwitch
    BY <1>4, <1>1, <2>1 DEF WallSwitched, UpdateFromHardware, UpdateLevel, TurnWithLevel, Idle
  <2>3. /\ pc' = [pc EXCEPT !["app"] = "write"] /\ ignored' = ignored
        /\ mState' = StateAfterSet(IF v = 1 THEN kState_On ELSE kState_Off)
        /\ UNCHANGED <<Copies, tx, rx, report, onOff, lampOn, dropped>>
    BY <1>1, <2>1, <2>2 DEF UpdateSwitch, Copies, attributes, lamp, budget
  <2>4. pc'["app"] = "write" /\ pc'["chip"] = "idle"
    BY <1>1, <2>3, ThreadMoves
  <2>5. Consistent' /\ Rest(v)' = Rest(v)
    BY <1>1, <2>3, ConsistentKept DEF Copies, Rest
  <2>6. IsTurnedOn' = 1 - v
    BY <2>3 DEF IsTurnedOn, StateAfterSet, kState_On, kState_Off
  <2> QED
    BY <1>1, <2>1, <2>3, <2>4, <2>5, <2>6 DEF WallSwitched, AppOnly, Idle
<1>5. CASE WriteAttribute
  <2>1. /\ pc["app"] = "write" /\ report = Switch(v) /\ rx = Rest(v)
        /\ IsTurnedOn = 1 - v /\ onOff = 1 - v
    BY <1>5 DEF WallSwitched, WriteAttribute, Idle
  <2>2. SetAttribute("app", Switch(v)) /\ UNCHANGED budget
    BY <1>5, <1>1, <2>1 DEF WriteAttribute
  <2>3. /\ pc' = [pc EXCEPT !["app"] = "decide"] /\ ignored' = ignored
        /\ onOff' = v /\ job' = [job EXCEPT !["app"] = Switch(v)]
        /\ UNCHANGED <<Copies, tx, rx, report, mState, lampOn, dropped>>
    BY <1>1, <2>2 DEF SetAttribute, colour, Copies, dimmer, lamp, budget
  <2>4. pc'["app"] = "decide" /\ pc'["chip"] = "idle" /\ job'["app"] = Switch(v)
    BY <1>1, <2>3, ThreadMoves, TurnTypes
  <2>5. Consistent' /\ Rest(v)' = Rest(v)
    BY <1>1, <2>3, ConsistentKept DEF Copies, Rest
  <2>6. IsTurnedOn' = 1 - v
    BY <2>1, <2>3 DEF IsTurnedOn
  <2> QED
    BY <1>1, <2>1, <2>3, <2>4, <2>5, <2>6 DEF WallSwitched, AppOnly, Idle
<1>6. CASE Callback("app")
  <2>1. /\ report = Switch(v) /\ rx = Rest(v) /\ onOff = v
        /\ job["app"] = Switch(v)
        /\ \/ pc["app"] \in {"decide", "set"} /\ IsTurnedOn = 1 - v
           \/ pc["app"] = "send" /\ IsTurnedOn = v
    BY <1>6 DEF WallSwitched, Callback, Decide, SetDevice, SendToMcu, Idle
  <2>2. job["app"].dp = "switch" /\ job["app"].v = v /\ report.dp = "switch"
    BY <1>1, <2>1
  <2>3. CASE Decide("app")
    <3>1. Initiates(job["app"]) /\ IsTurnedOn = 1 - v
      BY <2>1, <2>2, <2>3 DEF Initiates, Decide
    <3>2. /\ pc' = [pc EXCEPT !["app"] = "set"] /\ ignored' = ignored
          /\ UNCHANGED <<Copies, tx, rx, job, report, mState, onOff, lampOn, dropped>>
      BY <2>2, <2>3, <3>1 DEF Decide, Copies, attributes, dimmer, lamp
    <3>3. pc'["app"] = "set" /\ pc'["chip"] = "idle"
      BY <1>1, <3>2, ThreadMoves
    <3>4. Consistent' /\ Rest(v)' = Rest(v)
      BY <1>1, <3>2, ConsistentKept DEF Copies, Rest
    <3>5. IsTurnedOn' = 1 - v
      BY <3>1, <3>2 DEF IsTurnedOn
    <3> QED
      BY <1>1, <2>1, <3>2, <3>3, <3>4, <3>5 DEF WallSwitched, AppOnly, Idle
  <2>4. CASE SetDevice("app")
    <3>1. /\ pc' = [pc EXCEPT !["app"] = "send"] /\ ignored' = ignored
          /\ mState' = StateAfterSet(v)
          /\ UNCHANGED <<Copies, tx, rx, job, report, onOff, lampOn, dropped>>
      BY <2>2, <2>4 DEF SetDevice, Copies, attributes, lamp, budget
    <3>2. pc'["app"] = "send" /\ pc'["chip"] = "idle"
      BY <1>1, <3>1, ThreadMoves
    <3>3. Consistent' /\ Rest(v)' = Rest(v)
      BY <1>1, <3>1, ConsistentKept DEF Copies, Rest
    <3>4. IsTurnedOn' = v
      BY <3>1 DEF IsTurnedOn, StateAfterSet, kState_On, kState_Off
    <3> QED
      BY <1>1, <2>1, <3>1, <3>2, <3>3, <3>4 DEF WallSwitched, AppOnly, Idle
  <2>5. CASE SendToMcu("app")
    <3>1. /\ pc' = [pc EXCEPT !["app"] = "idle"] /\ ignored' = ignored
          /\ UNCHANGED <<Copies, rx, mState, onOff, lampOn>>
      BY <2>2, <2>5 DEF SendToMcu, AfterCallback, Copies, attributes, dimmer, lamp
    <3>2. IsTurnedOn = v
      BY <2>1, <2>5 DEF SendToMcu
    <3>3. tx' = <<Switch(v)>> /\ dropped' = dropped
      <4>1. Command(job["app"]) = Switch(v)
        BY <2>2, <3>2 DEF Command
      <4> QED
        BY <1>1, <2>5, <4>1, RoomToSend
    <3>4. pc'["app"] = "idle" /\ pc'["chip"] = "idle"
      BY <1>1, <3>1, ThreadMoves
    <3>5. Consistent'
      BY <1>1, <3>1, ConsistentKept
    <3>6. Agree(v)' /\ Idle("app")' /\ Idle("chip")'
      BY <1>1, <2>1, <3>1, <3>2, <3>4 DEF Agree, IsTurnedOn, Idle
    <3>7. rx' \in Seq(Echoes(v)') /\ Len(rx') \in {0, 1}
      BY <2>1, <3>1, RestIsEcho, EchoesKept DEF Copies
    <3>8. Len(rx') + 2 * Len(tx') <= 3
      <4>1. Len(tx') = 1
        BY <3>3
      <4>2. \A n \in {0, 1} : n + 2 * Len(tx') <= 3
        BY <4>1
      <4> QED
        BY <3>7, <4>2, Zenon
    <3> QED
      BY <3>3, <3>5, <3>6, <3>7, <3>8 DEF Settled
  <2> QED
    BY <1>6, <2>3, <2>4, <2>5 DEF Callback
<1> QED
  BY <1>2, <1>3, <1>4, <1>5, <1>6 DEF App

\* What a reported level means, where it is not rounded to nothing.
LEMMA ToldLevel ==
  ASSUME TypeInv, MayBeTold, report = Level(lampBright)
  PROVE  /\ report.dp = "level" /\ report.v = lampBright
         /\ IsDimmer => /\ HardwareLevel = LevelOf(lampBright)
                        /\ AttributeLevel = LevelOf(lampBright)
                        /\ HardwareLevel % 256 = LevelOf(lampBright)
         /\ IsColour => /\ HardwareLevel = Swapped(lampBright)
                        /\ AttributeLevel = HsvV(lampBright)
                        /\ HardwareLevel % 256 = lampBright \div 256
                        /\ lampBright \div 256 \in 1 .. 255
                        /\ lampBright \in uint16_t
         /\ HardwareLevel # 0 /\ AttributeLevel \in 1 .. 254
         /\ IsDimmer \/ IsColour
<1>1. report.dp = "level" /\ report.v = lampBright
  BY LevelFacts
<1>2. IsDimmer \/ IsColour
  BY TurnTypes DEF MayBeTold, IsDimmer, IsColour, LightTypes
<1>3. ASSUME IsDimmer
      PROVE  /\ HardwareLevel = LevelOf(lampBright)
             /\ AttributeLevel = LevelOf(lampBright)
             /\ HardwareLevel % 256 = LevelOf(lampBright)
             /\ LevelOf(lampBright) \in 1 .. 254
  <2>1. HardwareLevel = LevelOf(lampBright) /\ AttributeLevel = LevelOf(lampBright)
    BY <1>1, <1>3 DEF HardwareLevel, AttributeLevel, IsDimmer
  <2>2. LevelOf(lampBright) \in 0 .. 254 /\ LevelOf(lampBright) >= 1
    BY <1>3, TurnTypes, LevelOfRange DEF MayBeTold
  <2>3. \A l \in 0 .. 254 : l % 256 = l
    BY SMTT(30)
  <2> QED
    BY <2>1, <2>2, <2>3
<1>4. ASSUME IsColour
      PROVE  /\ HardwareLevel = Swapped(lampBright)
             /\ AttributeLevel = HsvV(lampBright)
             /\ HardwareLevel % 256 = lampBright \div 256
             /\ lampBright \div 256 \in 1 .. 255
             /\ lampBright \in uint16_t
             /\ Swapped(lampBright) # 0 /\ HsvV(lampBright) \in 1 .. 254
  <2>1. HardwareLevel = Swapped(lampBright) /\ AttributeLevel = HsvV(lampBright)
    BY <1>1, <1>4 DEF HardwareLevel, AttributeLevel, IsColour
  <2>2. lampBright \in uint16_t
    BY <1>4, TurnTypes, LitOfColour DEF IsColour
  <2>3. lampBright >= 257
    BY <1>4 DEF MayBeTold
  <2>4. /\ Swapped(lampBright) # 0
        /\ Swapped(lampBright) % 256 = lampBright \div 256 /\ lampBright \div 256 \in 1 .. 255
    BY <2>2, <2>3, SwappedFacts
  <2>5. HsvV(lampBright) \in 1 .. 254
    BY <2>2, <2>3, HsvVFacts
  <2> QED
    BY <2>1, <2>2, <2>4, <2>5
<1>5. HardwareLevel # 0 /\ AttributeLevel \in 1 .. 254
  <2>1. CASE IsDimmer
    BY <1>3, <2>1
  <2>2. CASE IsColour
    BY <1>4, <2>2
  <2> QED
    BY <1>2, <2>1, <2>2
<1> QED
  BY <1>1, <1>2, <1>3, <1>4, <1>5

\* What a told level leaves as it is.
LEMMA MayBeToldKept ==
  ASSUME MayBeTold, pc'["chip"] = pc["chip"], UNCHANGED <<mType, lampBright, lampColor, hsv, asked>>,
         ignored' = ignored, UNCHANGED <<tx, lampOn, onOff>>, IsTurnedOn' = IsTurnedOn
  PROVE  MayBeTold'
BY DEF MayBeTold, Agree, Coloured, AppOnly, Idle, IsDimmer, IsColour

LEMMA LevelReportedSteps ==
  ASSUME TypeInv, TypeInv', TakingTurns, LevelReported, App
  PROVE  dropped' = dropped /\ (LevelReported' \/ LevelStored' \/ Settled(1)')
<1>1. /\ MayBeTold /\ tx = <<>> /\ pc["chip"] = "idle"
      /\ lampOn = 1 /\ onOff = 1 /\ IsTurnedOn = 1 /\ mType # "OnOff"
      /\ currentLevel = mLevel /\ mLevel \in 0 .. 254 /\ (IsDimmer /\ asked # 0 => asked = mLevel)
      /\ IsColour => /\ mColorLevel = Wide(mLevel)
                     /\ Swapped(lampBright) = Wide(mLevel) => lampBright = Wide(mLevel)
  BY DEF LevelReported, MayBeTold, AppOnly, Idle, Agree
<1>2. \/ pc["app"] = "idle" /\ rx = <<Level(lampBright)>>
      \/ pc["app"] \in {"compare", "update"} /\ rx = <<>> /\ report = Level(lampBright)
  BY DEF LevelReported, Idle
<1>3. CASE HandleUartCallback
  <2>1. pc["app"] = "idle" /\ rx = <<Level(lampBright)>>
    BY <1>2, <1>3 DEF HandleUartCallback
  <2>2. Head(rx) = Level(lampBright) /\ Tail(rx) = <<>>
    BY <2>1, OneMessage
  <2>3. /\ rx' = <<>> /\ report' = Level(lampBright)
        /\ pc' = [pc EXCEPT !["app"] = "compare"] /\ ignored' = ignored
        /\ UNCHANGED <<Copies, tx, mState, onOff, lampOn, dropped>>
    BY <1>3, <2>2 DEF HandleUartCallback, Copies, attributes, dimmer, lamp, budget
  <2>4. pc'["app"] = "compare" /\ pc'["chip"] = pc["chip"]
    BY <1>1, <2>3, ThreadMoves
  <2>5. MayBeTold'
    BY <1>1, <2>3, <2>4, MayBeToldKept DEF Copies, IsTurnedOn
  <2> QED
    BY <1>1, <2>3, <2>4, <2>5 DEF LevelReported, Copies, IsDimmer, IsColour
<1>4. CASE Compare
  <2>1. rx = <<>> /\ report = Level(lampBright)
    BY <1>2, <1>4 DEF Compare
  <2>2. /\ pc' = [pc EXCEPT !["app"] = IF IsNews THEN "update" ELSE "idle"] /\ ignored' = ignored
        /\ UNCHANGED <<Copies, tx, rx, report, mState, onOff, lampOn, dropped>>
    BY <1>4 DEF Compare, Copies, attributes, dimmer, lamp, budget
  <2>3. /\ pc'["app"] = IF IsNews THEN "update" ELSE "idle"
        /\ pc'["chip"] = pc["chip"]
    BY <2>2, ThreadMoves
  <2>4. CASE IsNews
    <3>1. MayBeTold'
      BY <1>1, <2>2, <2>3, MayBeToldKept DEF Copies, IsTurnedOn
    <3>2. pc'["app"] = "update"
      BY <2>3, <2>4
    <3> QED
      BY <1>1, <2>1, <2>2, <3>1, <3>2 DEF LevelReported, Copies, IsDimmer, IsColour
  <2>5. CASE ~IsNews
    <3>1. Fits
      <4>1. CASE IsDimmer
        <5>1. mLevel = LevelOf(lampBright)
          BY <1>1, <2>1, <2>5, <4>1, ToldLevel DEF IsNews, IsDimmer
        <5> QED
          BY <1>1, <4>1, <5>1 DEF Fits, IsDimmer, IsColour
      <4>2. CASE IsColour
        <5>1. mColorLevel \in {lampBright, Swapped(lampBright)}
          BY <1>1, <2>1, <2>5, <4>2, ToldLevel DEF IsNews, IsColour
        <5>2. mColorLevel = lampBright
          BY <1>1, <4>2, <5>1
        <5> QED
          BY <1>1, <4>2, <5>2 DEF Fits, IsDimmer, IsColour
      <4> QED
        BY <1>1, <2>1, <4>1, <4>2, ToldLevel
    <3>2. NearAsked
      <4>1. CASE IsDimmer
        <5>1. mLevel = LevelOf(lampBright)
          BY <3>1, <4>1 DEF Fits
        <5> QED
          BY <1>1, <4>1, <5>1 DEF NearAsked, MayBeTold
      <4>2. CASE IsColour
        BY <1>1, <4>2 DEF NearAsked, MayBeTold
      <4> QED
        BY <1>1, <2>1, <4>1, <4>2, ToldLevel
    <3>3. Consistent'
      BY <1>1, <2>2, <3>1, <3>2, ConsistentKept DEF Consistent, MayBeTold
    <3>4. Agree(1)' /\ Idle("app")' /\ Idle("chip")'
      BY <1>1, <2>2, <2>3, <2>5 DEF Agree, IsTurnedOn, Idle
    <3>5. rx' \in Seq(Echoes(1)') /\ tx' = <<>> /\ Len(rx') + 2 * Len(tx') <= 3
      <4>1. rx' = <<>> /\ tx' = <<>>
        BY <1>1, <2>1, <2>2
      <4>2. Len(rx') = 0 /\ Len(tx') = 0
        BY <4>1
      <4> QED
        BY <4>1, <4>2
    <3> QED
      BY <2>2, <3>3, <3>4, <3>5 DEF Settled
  <2> QED
    BY <2>4, <2>5
<1>5. CASE UpdateFromHardware
  <2>1. rx = <<>> /\ report = Level(lampBright) /\ pc["app"] = "update"
    BY <1>2, <1>5 DEF UpdateFromHardware, UpdateSwitch, UpdateLevel, TurnWithLevel
  <2>2. UpdateLevel
    BY <1>5, <2>1, LevelFacts DEF UpdateFromHardware, UpdateSwitch, TurnWithLevel
  <2>3. /\ mLevel' = HardwareLevel % 256 /\ mColorLevel' = ColorLevelAfterSet(HardwareLevel % 256)
        /\ pc' = [pc EXCEPT !["app"] = "turn"] /\ ignored' = ignored
        /\ UNCHANGED <<mType, lampBright, lampColor, hsv, asked, currentLevel,
                       tx, rx, report, mState, onOff, lampOn, dropped>>
    BY <2>2 DEF UpdateLevel, attributes, lamp, budget
  <2>4. pc'["app"] = "turn" /\ pc'["chip"] = pc["chip"]
    BY <2>3, ThreadMoves
  <2>5. MayBeTold'
    BY <1>1, <2>3, <2>4, MayBeToldKept DEF IsTurnedOn
  <2>6. IsDimmer => mLevel' = LevelOf(lampBright)
    BY <1>1, <2>1, <2>3, ToldLevel
  <2>7. IsColour => mLevel' = lampBright \div 256 /\ mColorLevel' = Wide(mLevel') % 65536
    <3>1. SUFFICES ASSUME IsColour PROVE mLevel' = lampBright \div 256 /\ mColorLevel' = Wide(mLevel') % 65536
      OBVIOUS
    <3>2. HardwareLevel % 256 = lampBright \div 256
      BY <1>1, <2>1, <3>1, ToldLevel
    <3>3. ColorLevelAfterSet(mLevel') = Wide(mLevel') % 65536
      BY <3>1 DEF ColorLevelAfterSet, Wide, IsColour
    <3> QED
      BY <2>3, <3>2, <3>3
  <2> QED
    BY <2>1, <2>3, <2>4, <2>5, <2>6, <2>7 DEF LevelStored, IsDimmer, IsColour
<1>6. ~WriteAttribute /\ ~Callback("app")
  BY <1>2 DEF WriteAttribute, Callback, Decide, SetDevice, SendToMcu
<1> QED
  BY <1>3, <1>4, <1>5, <1>6 DEF App

LEMMA LevelStoredSteps ==
  ASSUME TypeInv, TypeInv', TakingTurns, LevelStored, App
  PROVE  dropped' = dropped /\ (LevelStored' \/ LevelCorrected' \/ Settled(1)')
<1>1. /\ MayBeTold /\ tx = <<>> /\ pc["chip"] = "idle"
      /\ lampOn = 1 /\ onOff = 1 /\ IsTurnedOn = 1 /\ mType # "OnOff"
      /\ rx = <<>> /\ report = Level(lampBright) /\ pc["app"] \in {"turn", "write"}
      /\ (IsDimmer => mLevel = LevelOf(lampBright))
      /\ IsColour => mLevel = lampBright \div 256 /\ mColorLevel = Wide(mLevel) % 65536
  BY DEF LevelStored, MayBeTold, AppOnly, Idle, Agree
<1>2. /\ report.dp = "level" /\ report.v = lampBright
      /\ HardwareLevel # 0 /\ AttributeLevel \in 1 .. 254
      /\ IsDimmer \/ IsColour
  BY <1>1, ToldLevel
<1>3. CASE UpdateFromHardware
  <2>1. pc["app"] = "turn" /\ TurnWithLevel
    BY <1>1, <1>3 DEF UpdateFromHardware, UpdateSwitch, UpdateLevel, TurnWithLevel
  <2>2. /\ mState' = StateAfterSet(HardwareLevel)
        /\ pc' = [pc EXCEPT !["app"] = "write"] /\ ignored' = ignored
        /\ UNCHANGED <<Copies, tx, rx, report, onOff, lampOn, dropped>>
    BY <2>1 DEF TurnWithLevel, Copies, attributes, lamp, budget
  <2>3. pc'["app"] = "write" /\ pc'["chip"] = pc["chip"]
    BY <2>2, ThreadMoves
  <2>4. IsTurnedOn' = 1
    BY <1>2, <2>2 DEF IsTurnedOn, StateAfterSet, kState_On, kState_Off
  <2>5. MayBeTold'
    BY <1>1, <2>2, <2>3, <2>4, MayBeToldKept DEF Copies
  <2> QED
    BY <1>1, <2>2, <2>3, <2>5 DEF LevelStored, Copies, IsDimmer, IsColour
<1>4. CASE WriteAttribute
  <2>1. pc["app"] = "write"
    BY <1>1, <1>4 DEF WriteAttribute
  <2>2. SetAttribute("app", Level(AttributeLevel)) /\ UNCHANGED budget
    BY <1>2, <1>4, <2>1 DEF WriteAttribute, SwitchesOffFirst
  <2>3. /\ pc' = [pc EXCEPT !["app"] = "decide"] /\ ignored' = ignored
        /\ currentLevel' = AttributeLevel /\ job' = [job EXCEPT !["app"] = Level(AttributeLevel)]
        /\ UNCHANGED <<mType, mLevel, mColorLevel, lampBright, lampColor, hsv, asked,
                       tx, rx, report, mState, onOff, lampOn, dropped>>
    BY <2>2, LevelFacts DEF SetAttribute, colour, dimmer, lamp, budget
  <2>4. /\ pc'["app"] = "decide" /\ pc'["chip"] = pc["chip"]
        /\ job'["app"] = Level(currentLevel')
    <3>1. job'["app"] = Level(AttributeLevel)
      BY <2>3, TurnTypes
    <3> QED
      BY <2>3, <3>1, ThreadMoves
  <2>5. MayBeTold'
    BY <1>1, <2>3, <2>4, MayBeToldKept DEF IsTurnedOn
  <2>6. CASE currentLevel' = mLevel
    <3>1. NearAsked'
      <4>1. CASE IsDimmer
        BY <1>1, <2>3, <2>6, <4>1 DEF NearAsked, MayBeTold
      <4>2. CASE IsColour
        BY <1>1, <2>3, <4>2 DEF NearAsked, MayBeTold
      <4> QED
        BY <1>2, <4>1, <4>2
    <3>2. Fits'
      <4>1. CASE IsDimmer
        BY <1>1, <2>3, <2>6, <4>1 DEF Fits, IsDimmer, IsColour
      <4>2. CASE IsColour
        <5>1. /\ AttributeLevel = HsvV(lampBright) /\ mLevel = lampBright \div 256
              /\ lampBright >= 257 /\ mLevel \in 0 .. 254
          BY <1>1, <1>2, <2>3, <2>6, <4>2, ToldLevel DEF MayBeTold
        <5>2. mColorLevel = Wide(mLevel)
          <6>1. Wide(mLevel) % 65536 = Wide(mLevel)
            BY <5>1, WideFacts
          <6> QED
            BY <1>1, <4>2, <6>1
        <5>3. Refreshes'
          BY <2>3, <2>6, <5>1 DEF Refreshes
        <5> QED
          BY <2>3, <2>6, <4>2, <5>2, <5>3 DEF Fits, IsDimmer, IsColour
      <4> QED
        BY <1>2, <4>1, <4>2
    <3>3. Agree(1)' /\ Idle("chip")' /\ Coloured'
      BY <1>1, <2>4, <2>5 DEF MayBeTold, Idle
    <3>4. rx' \in Seq(Echoes(1)') /\ tx' = <<>> /\ Len(rx') + 2 * Len(tx') <= 3
      <4>1. rx' = <<>> /\ tx' = <<>>
        BY <1>1, <2>3
      <4>2. Len(rx') = 0 /\ Len(tx') = 0
        BY <4>1
      <4> QED
        BY <4>1, <4>2
    <3> QED
      BY <2>3, <2>4, <3>1, <3>2, <3>3, <3>4 DEF Settled, Consistent
  <2>7. CASE currentLevel' # mLevel
    <3>1. IsColour /\ IsColour'
      <4>1. IsDimmer => AttributeLevel = mLevel
        BY <1>1, ToldLevel
      <4> QED
        BY <1>2, <2>3, <2>7, <4>1 DEF IsColour
    <3> QED
      BY <1>1, <1>2, <2>3, <2>4, <2>5, <2>7, <3>1 DEF LevelCorrected
  <2> QED
    BY <2>6, <2>7
<1>5. ~HandleUartCallback /\ ~Compare /\ ~Callback("app")
  BY <1>1 DEF HandleUartCallback, Compare, Callback, Decide, SetDevice, SendToMcu
<1> QED
  BY <1>3, <1>4, <1>5 DEF App

LEMMA LevelCorrectedSteps ==
  ASSUME TypeInv, TypeInv', TakingTurns, LevelCorrected, App
  PROVE  dropped' = dropped /\ (LevelCorrected' \/ LevelSent')
<1>1. /\ MayBeTold /\ tx = <<>> /\ pc["chip"] = "idle" /\ IsColour
      /\ lampOn = 1 /\ onOff = 1 /\ IsTurnedOn = 1 /\ mType # "OnOff"
      /\ rx = <<>> /\ report = Level(lampBright)
      /\ job["app"] = Level(currentLevel) /\ currentLevel \in 1 .. 254
      /\ job["app"].dp = "level" /\ job["app"].v = currentLevel
      /\ \/ pc["app"] \in {"decide", "set"} /\ mLevel # currentLevel
         \/ pc["app"] = "send" /\ mLevel = currentLevel /\ mColorLevel = Wide(mLevel)
  BY LevelFacts DEF LevelCorrected, MayBeTold, AppOnly, Idle, Agree
<1>2. Callback("app")
  BY <1>1 DEF App, HandleUartCallback, Compare, UpdateFromHardware, UpdateSwitch, UpdateLevel,
              TurnWithLevel, WriteAttribute
<1>3. CASE Decide("app")
  <2>1. Initiates(job["app"]) /\ mLevel # currentLevel
    BY <1>1, <1>3 DEF Initiates, Decide
  <2>2. /\ pc' = [pc EXCEPT !["app"] = "set"] /\ ignored' = ignored
        /\ UNCHANGED <<Copies, tx, rx, job, report, mState, onOff, lampOn, dropped>>
    BY <1>1, <1>3, <2>1 DEF Decide, Copies, attributes, dimmer, lamp
  <2>3. pc'["app"] = "set" /\ pc'["chip"] = pc["chip"]
    BY <2>2, ThreadMoves
  <2>4. MayBeTold'
    BY <1>1, <2>2, <2>3, MayBeToldKept DEF Copies, IsTurnedOn
  <2> QED
    BY <1>1, <2>1, <2>2, <2>3, <2>4 DEF LevelCorrected, Copies, IsColour
<1>4. CASE SetDevice("app")
  <2>1. job["app"].v \in 0 .. 254
    BY <1>1
  <2>2. /\ mLevel' = job["app"].v
        /\ mColorLevel' = IF IsColour THEN Wide(job["app"].v) ELSE mColorLevel
        /\ pc' = [pc EXCEPT !["app"] = "send"]
        /\ UNCHANGED <<mType, mState, mColor, onOff, currentLevel, hsv, tx, rx, lampOn, lampBright,
                       lampColor, job, report, asked, ignored, dropped>>
    BY <1>1, <1>4, <2>1, LevelSet
  <2>3. pc'["app"] = "send" /\ pc'["chip"] = pc["chip"]
    BY <2>2, ThreadMoves
  <2>4. MayBeTold'
    BY <1>1, <2>2, <2>3, MayBeToldKept DEF IsTurnedOn
  <2>5. mLevel' = currentLevel' /\ mColorLevel' = Wide(mLevel')
    BY <1>1, <2>2
  <2> QED
    BY <1>1, <2>2, <2>3, <2>4, <2>5 DEF LevelCorrected, IsColour
<1>5. CASE SendToMcu("app")
  <2>1. /\ pc' = [pc EXCEPT !["app"] = "idle"] /\ ignored' = ignored
        /\ UNCHANGED <<Copies, rx, mState, onOff, lampOn>>
    BY <1>1, <1>5 DEF SendToMcu, AfterCallback, Copies, attributes, dimmer, lamp
  <2>2. mLevel = currentLevel /\ mColorLevel = Wide(mLevel)
    BY <1>1, <1>5 DEF SendToMcu
  <2>3. tx' = <<LevelCommand>> /\ dropped' = dropped
    <3>1. Command(job["app"]) = LevelCommand
      BY <1>1 DEF Command, LevelCommand, IsColour
    <3> QED
      BY <1>1, <1>5, <3>1, RoomToSend
  <2>4. pc'["app"] = "idle" /\ pc'["chip"] = "idle"
    BY <1>1, <2>1, ThreadMoves
  <2>5. Agree(1)' /\ Coloured' /\ NearAsked'
    BY <1>1, <2>1 DEF Agree, IsTurnedOn, Coloured, IsColour, NearAsked, MayBeTold, Copies
  <2>6. ChipOnly' /\ Idle("chip")'
    BY <1>1, <2>1, <2>4 DEF ChipOnly, Idle
  <2>7. UNCHANGED <<mType, mLevel, mColorLevel, currentLevel, asked>>
    BY <2>1 DEF Copies
  <2>8. LevelCommand' = LevelCommand
    BY <2>7 DEF LevelCommand, IsColour
  <2>9. IsColour' /\ ~IsDimmer'
    BY <1>1, <2>7 DEF IsColour, IsDimmer
  <2> QED
    BY <1>1, <2>2, <2>3, <2>5, <2>6, <2>7, <2>8, <2>9 DEF LevelSent
<1> QED
  BY <1>2, <1>3, <1>4, <1>5 DEF Callback

\* What is under way from the wall stays so until it has settled, or until the
\* correction of a colour light's level is on its way to the lamp.
LEMMA AppPhaseSteps ==
  ASSUME TypeInv, TypeInv', TakingTurns, [Next]_vars,
         \/ \E v \in {0, 1} : WallSwitched(v)
         \/ LevelReported \/ LevelStored \/ LevelCorrected
  PROVE  UNCHANGED vars \/ (dropped' = dropped /\ Phase')
<1>1. AppOnly /\ ~(rx = <<>> /\ Idle("app"))
  <2>1. ASSUME NEW v \in {0, 1}, WallSwitched(v)
        PROVE  AppOnly /\ ~(rx = <<>> /\ Idle("app"))
    <3>1. <<Switch(v)>> \o Rest(v) # <<>>
      BY RestIsEcho, OneAhead
    <3> QED
      BY <2>1, <3>1 DEF WallSwitched, Idle
  <2>2. LevelReported \/ LevelStored \/ LevelCorrected => AppOnly /\ ~(rx = <<>> /\ Idle("app"))
    <3>1. LevelReported => AppOnly /\ ~(rx = <<>> /\ Idle("app"))
      BY OneMessage DEF LevelReported, MayBeTold, Idle
    <3>2. LevelStored => AppOnly /\ ~(rx = <<>> /\ Idle("app"))
      BY DEF LevelStored, MayBeTold, Idle
    <3>3. LevelCorrected => AppOnly /\ ~(rx = <<>> /\ Idle("app"))
      BY DEF LevelCorrected, MayBeTold, Idle
    <3> QED
      BY <3>1, <3>2, <3>3
  <2> QED
    BY <2>1, <2>2
<1>2. App \/ UNCHANGED vars
  BY <1>1, OnlyAppMoves
<1>3. SUFFICES ASSUME App PROVE dropped' = dropped /\ Phase'
  BY <1>2
<1>4. ASSUME NEW v \in {0, 1}, WallSwitched(v) PROVE dropped' = dropped /\ Phase'
  <2>1. dropped' = dropped /\ (WallSwitched(v)' \/ Settled(v)')
    BY <1>3, <1>4, WallSwitchedSteps
  <2> QED
    BY <2>1 DEF Phase
<1>5. ASSUME LevelReported PROVE dropped' = dropped /\ Phase'
  <2>1. dropped' = dropped /\ (LevelReported' \/ LevelStored' \/ Settled(1)')
    BY <1>3, <1>5, LevelReportedSteps
  <2> QED
    BY <2>1 DEF Phase
<1>6. ASSUME LevelStored PROVE dropped' = dropped /\ Phase'
  <2>1. dropped' = dropped /\ (LevelStored' \/ LevelCorrected' \/ Settled(1)')
    BY <1>3, <1>6, LevelStoredSteps
  <2> QED
    BY <2>1 DEF Phase
<1>7. ASSUME LevelCorrected PROVE dropped' = dropped /\ Phase'
  <2>1. dropped' = dropped /\ (LevelCorrected' \/ LevelSent')
    BY <1>3, <1>7, LevelCorrectedSteps
  <2> QED
    BY <2>1 DEF Phase
<1> QED
  BY <1>4, <1>5, <1>6, <1>7

\* A settled light: what the application thread may still be doing.
AppSettled(on) ==
  \/ Idle("app")
  \/ pc["app"] = "compare" /\ report \in Echoes(on)
  \/ /\ on = 1 /\ IsColour /\ Refreshes /\ report.dp # "switch" /\ report.v = lampBright
     /\ pc["app"] \in {"update", "turn", "write"}
  \/ on = 1 /\ pc["app"] = "decide" /\ job["app"] = Level(currentLevel)

\* While only the application thread moves, and no copy, the rest stays settled.
LEMMA SettledKept ==
  ASSUME TypeInv, NEW on \in {0, 1}, Settled(on), UNCHANGED <<Copies, tx, lampOn, onOff>>,
         IsTurnedOn' = IsTurnedOn, pc'["chip"] = pc["chip"], ignored' = ignored,
         rx' \in Seq(Echoes(on)), Len(rx') <= Len(rx), AppSettled(on)'
  PROVE  Settled(on)'
<1>1. Consistent'
  BY ConsistentKept DEF Settled
<1>2. Agree(on)' /\ Idle("chip")'
  BY DEF Settled, Agree, Idle
<1>3. Echoes(on)' = Echoes(on)
  BY EchoesKept DEF Copies
<1>4. Len(rx') + 2 * Len(tx') <= 3
  <2>1. Len(rx) + 2 * Len(tx) <= 3 /\ tx' = tx
    BY DEF Settled
  <2>2. Len(rx) \in Nat /\ Len(rx') \in Nat /\ Len(tx) \in Nat
    BY TurnTypes
  <2>3. \A a, b, c \in Nat : a + 2 * c <= 3 /\ b <= a => b + 2 * c <= 3
    OBVIOUS
  <2> QED
    BY <2>1, <2>2, <2>3
<1>5. tx' \in {<<>>, <<Switch(on)>>}
  BY DEF Settled
<1> QED
  BY <1>1, <1>2, <1>3, <1>4, <1>5 DEF Settled, AppSettled

LEMMA SettledApp ==
  ASSUME TypeInv, TypeInv', TakingTurns, NEW on \in {0, 1}, Settled(on), App
  PROVE  dropped' = dropped /\ Settled(on)'
<1>1. /\ Agree(on) /\ lampOn = on /\ onOff = on /\ IsTurnedOn = on
      /\ Consistent /\ pc["chip"] = "idle" /\ rx \in Seq(Echoes(on)) /\ AppSettled(on)
      /\ currentLevel = mLevel
  BY DEF Settled, AppSettled, Agree, Idle, Consistent, Fits
<1>2. CASE HandleUartCallback
  <2>1. /\ rx # <<>> /\ report' = Head(rx) /\ rx' = Tail(rx)
        /\ pc' = [pc EXCEPT !["app"] = "compare"] /\ ignored' = ignored
        /\ UNCHANGED <<Copies, tx, mState, onOff, lampOn, dropped>>
    BY <1>2 DEF HandleUartCallback, Copies, attributes, dimmer, lamp, budget
  <2>2. Head(rx) \in Echoes(on) /\ Tail(rx) \in Seq(Echoes(on)) /\ Len(Tail(rx)) <= Len(rx)
    BY <1>1, <2>1, HeadTailProperties
  <2>3. pc'["app"] = "compare" /\ pc'["chip"] = pc["chip"]
    BY <2>1, ThreadMoves
  <2>4. Echoes(on)' = Echoes(on) /\ IsTurnedOn' = IsTurnedOn
    BY <2>1, EchoesKept DEF Copies, IsTurnedOn
  <2>5. AppSettled(on)'
    BY <2>1, <2>2, <2>3, <2>4 DEF AppSettled
  <2> QED
    BY <1>1, <2>1, <2>2, <2>3, <2>4, <2>5, SettledKept
<1>3. CASE Compare
  <2>1. pc["app"] = "compare" /\ report \in Echoes(on)
    BY <1>1, <1>3 DEF Compare, AppSettled, Idle
  <2>2. /\ pc' = [pc EXCEPT !["app"] = IF IsNews THEN "update" ELSE "idle"] /\ ignored' = ignored
        /\ UNCHANGED <<Copies, tx, rx, report, mState, onOff, lampOn, dropped>>
    BY <1>3 DEF Compare, Copies, attributes, dimmer, lamp, budget
  <2>3. /\ pc'["app"] = IF IsNews THEN "update" ELSE "idle"
        /\ pc'["chip"] = pc["chip"]
    BY <2>2, ThreadMoves
  <2>4. IsNews => /\ on = 1 /\ IsColour /\ Refreshes
                  /\ report.dp # "switch" /\ report.v = lampBright
    <3>1. SUFFICES ASSUME IsNews
                   PROVE  /\ on = 1 /\ IsColour /\ Refreshes
                          /\ report.dp # "switch" /\ report.v = lampBright
      OBVIOUS
    <3>2. /\ report \in Messages(mType)
          /\ \/ report = Switch(on)
             \/ report.dp # "switch" /\ report.v = lampBright /\ (on = 1 \/ report.v = mColorLevel)
      BY <2>1 DEF Echoes
    <3>3. report # Switch(on)
      BY <1>1, <3>1, SwitchFacts DEF IsNews
    <3>4. report.dp # "switch" /\ report.v = lampBright /\ (on = 1 \/ report.v = mColorLevel)
      BY <3>2, <3>3
    <3>5. ~IsDimmer
      <4>1. SUFFICES ASSUME IsDimmer PROVE FALSE
        OBVIOUS
      <4>2. HardwareLevel = LevelOf(lampBright) /\ LevelOf(lampBright) = mLevel
        BY <1>1, <3>4, <4>1 DEF HardwareLevel, IsDimmer, Consistent, Fits
      <4> QED
        BY <3>1, <3>4, <4>1, <4>2 DEF IsNews, IsDimmer
    <3>6. IsColour
      BY <3>1, <3>4, <3>5 DEF IsNews, IsDimmer, IsColour
    <3>7. mColorLevel # lampBright
      BY <3>1, <3>4, <3>6 DEF IsNews, IsColour
    <3> QED
      BY <1>1, <3>4, <3>6, <3>7 DEF Consistent, Fits
  <2>5. IsTurnedOn' = IsTurnedOn
    BY <2>2 DEF IsTurnedOn
  <2>6. AppSettled(on)'
    <3>1. CASE IsNews
      BY <2>2, <2>3, <2>4, <3>1 DEF AppSettled, IsColour, Refreshes, Copies
    <3>2. CASE ~IsNews
      BY <2>3, <3>2 DEF AppSettled, Idle
    <3> QED
      BY <3>1, <3>2
  <2>7. rx' \in Seq(Echoes(on)) /\ Len(rx') <= Len(rx)
    BY <1>1, <2>2
  <2> QED
    BY <1>1, <2>2, <2>3, <2>5, <2>6, <2>7, SettledKept
<1>4. CASE pc["app"] \in {"update", "turn", "write"} /\ (UpdateFromHardware \/ WriteAttribute)
  <2>1. /\ on = 1 /\ IsColour /\ Refreshes /\ report.dp # "switch" /\ report.v = lampBright
        /\ lampBright >= 257 /\ lampBright \div 256 = mLevel /\ HsvV(lampBright) = mLevel
    BY <1>1, <1>4 DEF AppSettled, Idle, Refreshes
  <2>2. /\ HardwareLevel = Swapped(lampBright) /\ AttributeLevel = mLevel
        /\ HardwareLevel % 256 = mLevel /\ HardwareLevel # 0 /\ mLevel \in 1 .. 254
        /\ mColorLevel = Wide(mLevel)
    <3>1. lampBright \in uint16_t
      BY <2>1, TurnTypes, LitOfColour DEF IsColour
    <3>2. /\ Swapped(lampBright) # 0 /\ Swapped(lampBright) % 256 = lampBright \div 256
          /\ HsvV(lampBright) \in 1 .. 254
      BY <2>1, <3>1, SwappedFacts, HsvVFacts
    <3>3. HardwareLevel = Swapped(lampBright) /\ AttributeLevel = HsvV(lampBright)
      BY <2>1 DEF HardwareLevel, AttributeLevel, IsColour
    <3>4. mColorLevel = Wide(mLevel)
      BY <1>1, <2>1 DEF Consistent, Fits
    <3> QED
      BY <2>1, <3>2, <3>3, <3>4
  <2>3. CASE pc["app"] = "update"
    <3>1. UpdateLevel
      BY <1>4, <2>1, <2>3 DEF UpdateFromHardware, UpdateSwitch, TurnWithLevel, WriteAttribute
    <3>2. ColorLevelAfterSet(mLevel) = mColorLevel
      <4>1. Wide(mLevel) % 65536 = Wide(mLevel)
        BY <2>2, WideFacts
      <4> QED
        BY <2>1, <2>2, <4>1 DEF ColorLevelAfterSet, Wide, IsColour
    <3>3. /\ mLevel' = HardwareLevel % 256 /\ mColorLevel' = ColorLevelAfterSet(HardwareLevel % 256)
          /\ pc' = [pc EXCEPT !["app"] = "turn"] /\ ignored' = ignored
          /\ UNCHANGED <<mType, currentLevel, hsv, asked, lampBright, lampColor,
                         tx, rx, report, mState, onOff, lampOn, dropped>>
      BY <3>1 DEF UpdateLevel, attributes, lamp, budget
    <3>4. UNCHANGED Copies
      BY <2>2, <3>2, <3>3 DEF Copies
    <3>5. pc'["app"] = "turn" /\ pc'["chip"] = pc["chip"]
      BY <3>3, ThreadMoves
    <3>6. AppSettled(on)'
      BY <2>1, <3>3, <3>4, <3>5 DEF AppSettled, IsColour, Refreshes, Copies
    <3>7. IsTurnedOn' = IsTurnedOn /\ rx' \in Seq(Echoes(on)) /\ Len(rx') <= Len(rx)
      BY <1>1, <3>3 DEF IsTurnedOn
    <3> QED
      BY <1>1, <3>3, <3>4, <3>5, <3>6, <3>7, SettledKept
  <2>4. CASE pc["app"] = "turn"
    <3>1. TurnWithLevel
      BY <1>4, <2>4 DEF UpdateFromHardware, UpdateSwitch, UpdateLevel, WriteAttribute
    <3>2. /\ mState' = StateAfterSet(HardwareLevel)
          /\ pc' = [pc EXCEPT !["app"] = "write"] /\ ignored' = ignored
          /\ UNCHANGED <<Copies, tx, rx, report, onOff, lampOn, dropped>>
      BY <3>1 DEF TurnWithLevel, Copies, attributes, lamp, budget
    <3>3. IsTurnedOn' = IsTurnedOn
      BY <1>1, <2>1, <2>2, <3>2 DEF IsTurnedOn, StateAfterSet, kState_On, kState_Off
    <3>4. pc'["app"] = "write" /\ pc'["chip"] = pc["chip"]
      BY <3>2, ThreadMoves
    <3>5. AppSettled(on)'
      BY <2>1, <3>2, <3>4 DEF AppSettled, IsColour, Refreshes, Copies
    <3>6. rx' \in Seq(Echoes(on)) /\ Len(rx') <= Len(rx)
      BY <1>1, <3>2
    <3> QED
      BY <1>1, <3>2, <3>3, <3>4, <3>5, <3>6, SettledKept
  <2>5. CASE pc["app"] = "write"
    <3>1. WriteAttribute
      BY <1>4, <2>5 DEF UpdateFromHardware, UpdateSwitch, UpdateLevel, TurnWithLevel
    <3>2. SetAttribute("app", Level(mLevel)) /\ UNCHANGED budget
      BY <2>1, <2>2, <2>5, <3>1 DEF WriteAttribute, SwitchesOffFirst
    <3>3. /\ pc' = [pc EXCEPT !["app"] = "decide"] /\ ignored' = ignored
          /\ currentLevel' = mLevel /\ job' = [job EXCEPT !["app"] = Level(mLevel)]
          /\ UNCHANGED <<mType, mLevel, mColorLevel, lampBright, lampColor, hsv, asked,
                         tx, rx, report, mState, onOff, lampOn, dropped>>
      BY <3>2, LevelFacts DEF SetAttribute, colour, dimmer, lamp, budget
    <3>4. UNCHANGED Copies /\ job'["app"] = Level(currentLevel')
      BY <1>1, <3>3, TurnTypes DEF Copies
    <3>5. pc'["app"] = "decide" /\ pc'["chip"] = pc["chip"]
      BY <3>3, ThreadMoves
    <3>6. AppSettled(on)'
      BY <2>1, <3>4, <3>5 DEF AppSettled
    <3>7. IsTurnedOn' = IsTurnedOn /\ rx' \in Seq(Echoes(on)) /\ Len(rx') <= Len(rx)
      BY <1>1, <3>3 DEF IsTurnedOn
    <3> QED
      BY <1>1, <3>3, <3>4, <3>5, <3>6, <3>7, SettledKept
  <2> QED
    BY <1>4, <2>3, <2>4, <2>5
<1>5. CASE Callback("app")
  <2>1. on = 1 /\ pc["app"] = "decide" /\ job["app"] = Level(currentLevel)
    BY <1>1, <1>5 DEF AppSettled, Idle, Callback, Decide, SetDevice, SendToMcu
  <2>2. Decide("app")
    BY <1>5, <2>1 DEF Callback, SetDevice, SendToMcu
  <2>3. /\ job["app"].dp = "level" /\ ~Initiates(job["app"])
        /\ AfterCallback("app") = "idle"
    BY <1>1, <2>1, LevelFacts DEF Initiates, AfterCallback
  <2>4. /\ pc' = [pc EXCEPT !["app"] = "idle"] /\ ignored' = ignored
        /\ UNCHANGED <<Copies, tx, rx, mState, onOff, lampOn, dropped>>
    BY <2>2, <2>3 DEF Decide, Copies, attributes, dimmer, lamp
  <2>5. pc'["app"] = "idle" /\ pc'["chip"] = pc["chip"]
    BY <2>4, ThreadMoves
  <2>6. AppSettled(on)' /\ IsTurnedOn' = IsTurnedOn
    BY <2>4, <2>5 DEF AppSettled, Idle, IsTurnedOn
  <2>7. rx' \in Seq(Echoes(on)) /\ Len(rx') <= Len(rx)
    BY <1>1, <2>4
  <2> QED
    BY <1>1, <2>4, <2>5, <2>6, <2>7, SettledKept
<1>6. UpdateFromHardware \/ WriteAttribute => pc["app"] \in {"update", "turn", "write"}
  BY <1>1 DEF UpdateFromHardware, UpdateSwitch, UpdateLevel, TurnWithLevel, WriteAttribute,
              AppSettled, Idle
<1> QED
  BY <1>2, <1>3, <1>4, <1>5, <1>6 DEF App

LEMMA SettledLamp ==
  ASSUME TypeInv, TypeInv', TakingTurns, NEW on \in {0, 1}, Settled(on), parking_message
  PROVE  dropped' = dropped /\ Settled(on)'
<1>1. /\ lampOn = on /\ onOff = on /\ IsTurnedOn = on /\ Consistent /\ Idle("chip")
      /\ rx \in Seq(Echoes(on)) /\ tx = <<Switch(on)>> /\ Len(rx) + 2 * Len(tx) <= 3
  BY DEF Settled, Agree, parking_message
<1>2. /\ Head(tx) = Switch(on) /\ Tail(tx) = <<>> /\ Len(tx) = 1 /\ Len(rx) \in Nat
      /\ Switch(on).dp = "switch" /\ Switch(on).v = on
  BY <1>1, OneMessage, SwitchFacts
<1>3. Len(rx) <= 1
  BY <1>1, <1>2
<1>4. /\ tx' = <<>> /\ Drive(Switch(on)) /\ ignored' = ignored
      /\ UNCHANGED <<onOff, currentLevel, hsv, mType, mState, mLevel, mColorLevel,
                     pc, job, report, asked>>
  BY <1>2 DEF parking_message, attributes, dimmer, threads
<1>5. lampOn' = on /\ UNCHANGED <<lampBright, lampColor>>
  BY <1>2, <1>4 DEF Drive
<1>6. UNCHANGED Copies
  BY <1>4, <1>5 DEF Copies
<1>7. /\ Switch(on) \in Messages(mType) /\ Switch(on) \in Echoes(on)
      /\ on = 1 => Level(lampBright) \in Echoes(on)
  <2>1. Switch(on) \in Messages(mType) /\ Level(lampBright) \in Messages(mType)
    BY TurnTypes, MessageMembers
  <2> QED
    BY <2>1, LevelFacts DEF Echoes
<1>8. /\ rx' = (IF TellsLevel(Switch(on)) THEN rx \o <<Switch(on), Level(lampBright)>>
                                        ELSE rx \o <<Switch(on)>>)
      /\ dropped' = dropped
  BY <1>3, <1>4, <1>7, RoomToTell
<1>9. rx' \in Seq(Echoes(on)) /\ Len(rx') <= 3
  <2>1. CASE TellsLevel(Switch(on))
    <3>1. on = 1
      BY <2>1 DEF TellsLevel, Switch
    <3>2. /\ <<Switch(on), Level(lampBright)>> \in Seq(Echoes(on))
          /\ Len(<<Switch(on), Level(lampBright)>>) = 2
      BY <1>7, <3>1
    <3>3. /\ rx \o <<Switch(on), Level(lampBright)>> \in Seq(Echoes(on))
          /\ Len(rx \o <<Switch(on), Level(lampBright)>>) = Len(rx) + 2
      BY <1>1, <3>2, ConcatProperties
    <3> QED
      BY <1>2, <1>3, <1>8, <2>1, <3>3
  <2>2. CASE ~TellsLevel(Switch(on))
    <3>1. <<Switch(on)>> \in Seq(Echoes(on)) /\ Len(<<Switch(on)>>) = 1
      BY <1>7
    <3>2. /\ rx \o <<Switch(on)>> \in Seq(Echoes(on))
          /\ Len(rx \o <<Switch(on)>>) = Len(rx) + 1
      BY <1>1, <3>1, ConcatProperties
    <3> QED
      BY <1>2, <1>3, <1>8, <2>2, <3>2
  <2> QED
    BY <2>1, <2>2
<1>10. Consistent' /\ Echoes(on)' = Echoes(on)
  BY <1>1, <1>4, <1>6, ConsistentKept, EchoesKept DEF Copies
<1>11. Agree(on)' /\ Idle("chip")'
  BY <1>1, <1>4, <1>5 DEF Agree, IsTurnedOn, Idle
<1>12. AppSettled(on)'
  <2>1. AppSettled(on)
    BY DEF Settled, AppSettled
  <2> QED
    BY <1>4, <1>6, <1>10, <2>1 DEF AppSettled, Idle, IsColour, Refreshes, Copies
<1>13. tx' \in {<<>>, <<Switch(on)>>} /\ Len(rx') + 2 * Len(tx') <= 3
  <2>1. Len(tx') = 0 /\ Len(rx') \in Nat
    BY <1>4, <1>9
  <2> QED
    BY <1>4, <1>9, <2>1
<1> QED
  BY <1>8, <1>9, <1>10, <1>11, <1>12, <1>13 DEF Settled, AppSettled

\* From a light at rest the controller or the wall starts the next operation.
LEMMA SettledAsked ==
  ASSUME TypeInv, TypeInv', TakingTurns, NEW on \in {0, 1}, Settled(on), Quiet,
         WallSwitch \/ WallDim \/ NetSwitch \/ NetLevel \/ NetColour
  PROVE  dropped' = dropped /\ Phase'
<1>1. /\ lampOn = on /\ onOff = on /\ IsTurnedOn = on
      /\ Consistent /\ Fits /\ NearAsked /\ Coloured
      /\ currentLevel = mLevel /\ currentLevel \in 0 .. 254
      /\ tx = <<>> /\ rx = <<>> /\ pc["chip"] = "idle" /\ pc["app"] = "idle"
  BY TurnTypes DEF Settled, Agree, Consistent, Fits, Quiet, Threads
<1>2. 1 - on \in {0, 1} /\ 1 - (1 - on) = on
  OBVIOUS
<1>3. CASE WallSwitch
  <2> DEFINE v == 1 - on
  <2>1. v \in {0, 1} /\ Switch(v).dp = "switch"
    BY <1>2, SwitchFacts
  <2>2. /\ Drive(Switch(v)) /\ ignored' = ignored /\ asked' = asked
        /\ UNCHANGED <<onOff, currentLevel, hsv, mType, mState, mLevel, mColorLevel, tx, pc>>
    BY <1>1, <1>3, <2>1 DEF WallSwitch, Wall, attributes, dimmer, threads
  <2> HIDE DEF v
  <2>3. /\ rx' = <<Switch(v)>> \o Rest(v)
        /\ dropped' = dropped /\ lampOn' = v /\ UNCHANGED <<lampBright, lampColor>>
    BY <1>1, <2>1, <2>2, SwitchTold
  <2>4. Consistent' /\ Rest(v)' = Rest(v)
    BY <1>1, <2>2, <2>3, ConsistentKept, EchoesKept DEF Copies
  <2>5. IsTurnedOn' = 1 - v /\ onOff' = 1 - v
    BY <1>1, <1>2, <2>2 DEF IsTurnedOn, v
  <2>6. AppOnly' /\ Idle("app")'
    BY <1>1, <2>2 DEF AppOnly, Idle
  <2>7. WallSwitched(v)'
    BY <2>3, <2>4, <2>5, <2>6 DEF WallSwitched
  <2> QED
    BY <2>1, <2>3, <2>7 DEF Phase
<1>4. CASE WallDim
  <2>1. PICK v \in Brights[mType] \ {lampBright} : lampOn = 1 /\ Wall(Level(v))
    BY <1>4 DEF WallDim
  <2>2. /\ Drive(Level(v)) /\ ignored' = ignored /\ asked' = 0
        /\ UNCHANGED <<onOff, currentLevel, hsv, mType, mState, mLevel, mColorLevel, tx, pc>>
    BY <2>1, LevelFacts DEF Wall, attributes, dimmer, threads
  <2>3. /\ v \in Lit(mType) /\ v \in Nat /\ mType \in LightTypes /\ mType # "OnOff"
        /\ IsDimmer => v >= 4
        /\ IsColour => v >= 257 /\ \A k \in 0 .. 254 : Swapped(v) = Wide(k) => v = Wide(k)
    <3>1. mType \in Lights /\ v \in Brights[mType]
      BY <2>1 DEF TypeInv
    <3>2. v \in Lit(mType) /\ mType \in LightTypes /\ mType # "OnOff"
      BY <3>1, Limits DEF Lit
    <3>3. v \in Nat
      BY <3>2, LitIsNat
    <3> QED
      BY <3>1, <3>2, <3>3 DEF TakingTurns, IsDimmer, IsColour
  <2>4. Level(v) \in Messages(mType)
    BY <2>3, MessageMembers
  <2>5. /\ rx' = <<Level(v)>> /\ dropped' = dropped
        /\ lampOn' = lampOn /\ lampBright' = v /\ lampColor' = lampColor
    BY <1>1, <2>2, <2>4, LevelFacts, ValueTold
  <2>6. Agree(1)' /\ Coloured' /\ AppOnly' /\ Idle("app")'
    BY <1>1, <2>1, <2>2, <2>5 DEF Agree, IsTurnedOn, Coloured, IsColour, AppOnly, Idle
  <2>7. IsDimmer => LevelOf(v) >= 1
    <3>1. SUFFICES ASSUME IsDimmer PROVE LevelOf(v) >= 1
      OBVIOUS
    <3>2. v \in 0 .. 1000 /\ v >= 4
      BY <2>3, <3>1, LightFacts DEF IsDimmer
    <3>3. v \in 4 .. 1000
      BY <3>2
    <3>4. LevelOf(v) \in 1 .. 254
      BY <3>3, LitHasLevel
    <3> QED
      BY <3>4
  <2>8. MayBeTold'
    BY <2>2, <2>3, <2>5, <2>6, <2>7 DEF MayBeTold, IsDimmer, IsColour
  <2>9. /\ currentLevel' = mLevel' /\ mLevel' \in 0 .. 254 /\ asked' = 0
        /\ rx' = <<Level(lampBright')>>
    BY <1>1, <2>2, <2>5
  <2>10. IsColour' => /\ mColorLevel' = Wide(mLevel')
                      /\ Swapped(lampBright') = Wide(mLevel') => lampBright' = Wide(mLevel')
    <3>1. SUFFICES ASSUME IsColour
                   PROVE  /\ mColorLevel = Wide(mLevel)
                          /\ Swapped(v) = Wide(mLevel) => v = Wide(mLevel)
      BY <2>2, <2>5 DEF IsColour
    <3>2. mColorLevel = Wide(mLevel)
      BY <1>1, <3>1 DEF Fits
    <3> QED
      BY <1>1, <2>3, <3>1, <3>2
  <2>11. LevelReported'
    BY <2>6, <2>8, <2>9, <2>10 DEF LevelReported
  <2> QED
    BY <2>5, <2>11 DEF Phase
<1>5. CASE NetSwitch
  <2> DEFINE v == 1 - on
  <2>1. v \in {0, 1} /\ 1 - v = on /\ Switch(v).dp = "switch" /\ Switch(v).v = v
    BY <1>2, SwitchFacts
  <2>2. SetAttribute("chip", Switch(v)) /\ asked' = asked /\ ignored' = ignored /\ dropped' = dropped
    BY <1>1, <1>5, <2>1 DEF NetSwitch, Net
  <2> HIDE DEF v
  <2>3. /\ onOff' = v /\ job' = [job EXCEPT !["chip"] = Switch(v)]
        /\ pc' = [pc EXCEPT !["chip"] = "decide"]
        /\ UNCHANGED <<Copies, tx, rx, mState, lampOn>>
    BY <2>1, <2>2 DEF SetAttribute, colour, Copies, dimmer, lamp
  <2>4. pc'["chip"] = "decide" /\ pc'["app"] = "idle" /\ job'["chip"] = Switch(v)
    BY <1>1, <2>3, ThreadMoves, TurnTypes
  <2>5. Consistent' /\ IsTurnedOn' = 1 - v /\ lampOn' = 1 - v
    BY <1>1, <2>1, <2>2, <2>3, ConsistentKept DEF IsTurnedOn
  <2>6. ChipOnly' /\ tx' = <<>>
    BY <1>1, <2>3, <2>4 DEF ChipOnly, Idle
  <2>7. NetSwitched(v)'
    BY <2>3, <2>4, <2>5, <2>6 DEF NetSwitched
  <2> QED
    BY <2>1, <2>2, <2>7 DEF Phase
<1>6. CASE NetLevel
  <2>1. PICK l \in Levels[mType] \ {currentLevel} : onOff = 1 /\ Net(Level(l))
    BY <1>6 DEF NetLevel
  <2>2. SetAttribute("chip", Level(l)) /\ asked' = l /\ ignored' = ignored /\ dropped' = dropped
    BY <2>1, LevelFacts DEF Net
  <2>3. /\ currentLevel' = l /\ job' = [job EXCEPT !["chip"] = Level(l)]
        /\ pc' = [pc EXCEPT !["chip"] = "decide"]
        /\ UNCHANGED <<mType, mLevel, mState, mColorLevel, hsv, onOff, lampOn, lampColor, tx, rx>>
    BY <2>2, LevelFacts DEF SetAttribute, colour, dimmer, lamp
  <2>4. pc'["chip"] = "decide" /\ pc'["app"] = "idle" /\ job'["chip"] = Level(l)
    BY <1>1, <2>3, ThreadMoves, TurnTypes
  <2>5. Agree(1)' /\ Coloured' /\ ChipOnly' /\ tx' = <<>>
    BY <1>1, <2>1, <2>2, <2>3, <2>4 DEF Agree, IsTurnedOn, Coloured, IsColour, ChipOnly, Idle
  <2>6. mLevel' # l /\ l \in Levels[mType'] /\ mType' # "OnOff"
    BY <1>1, <2>1, <2>3, AskedLevels
  <2>7. NetLevelled(l)'
    BY <2>2, <2>3, <2>4, <2>5, <2>6 DEF NetLevelled
  <2> QED
    BY <2>2, <2>6, <2>7 DEF Phase
<1>7. CASE NetColour
  <2>1. PICK hs \in {[hsv EXCEPT !.h = h] : h \in Hues} \cup {[hsv EXCEPT !.s = x] : x \in Saturations}
                     \cup {Split(e) : e \in EnhancedHues} :
          IsColour /\ Net(Colour(hs, 0))
    BY <1>7 DEF NetColour, IsColour
  <2>2. /\ SetAttribute("chip", Colour(hs, 0)) /\ asked' = asked
        /\ ignored' = ignored /\ dropped' = dropped
    BY <2>1, ColourFacts DEF Net
  <2>3. /\ hsv' = hs /\ job' = [job EXCEPT !["chip"] = Colour(hs, 0)]
        /\ pc' = [pc EXCEPT !["chip"] = "decide"]
        /\ UNCHANGED <<mType, mLevel, mState, mColorLevel, currentLevel, onOff, lampOn, lampBright, tx, rx>>
    BY <2>2, ColourFacts DEF SetAttribute, dimmer, lamp
  <2>4. pc'["chip"] = "decide" /\ pc'["app"] = "idle" /\ job'["chip"] = Colour(hs, 0)
    BY <1>1, <2>3, ThreadMoves, TurnTypes
  <2>5. Fits' /\ NearAsked'
    BY <1>1, <2>2, <2>3, FitsKept
  <2>6. Agree(on)' /\ IsColour' /\ ChipOnly' /\ tx' = <<>>
    BY <1>1, <2>1, <2>3, <2>4 DEF Agree, IsTurnedOn, IsColour, ChipOnly, Idle
  <2>7. job'["chip"].dp = "colour" /\ job'["chip"].hs = hsv'
    BY <2>3, <2>4, ColourFacts
  <2>8. NetColoured(on)'
    BY <2>4, <2>5, <2>6, <2>7 DEF NetColoured
  <2> QED
    BY <2>2, <2>8 DEF Phase
<1> QED
  BY <1>3, <1>4, <1>5, <1>6, <1>7

LEMMA SettledSteps ==
  ASSUME TypeInv, TypeInv', TakingTurns, [Next]_vars, NEW on \in {0, 1}, Settled(on)
  PROVE  UNCHANGED vars \/ (dropped' = dropped /\ Phase')
<1>1. CASE App
  BY <1>1, SettledApp DEF Phase
<1>2. ~Chip
  BY DEF Settled, Idle, Chip, Callback, Decide, SetDevice, SendToMcu
<1>3. CASE parking_message
  BY <1>3, SettledLamp DEF Phase
<1>4. CASE WallSwitch \/ WallDim \/ NetSwitch \/ NetLevel \/ NetColour
  <2>1. Quiet
    BY <1>4 DEF TakingTurns, WallSwitch, WallDim, NetSwitch, NetLevel, NetColour, Wall, Net
  <2> QED
    BY <1>4, <2>1, SettledAsked
<1> QED
  BY <1>1, <1>2, <1>3, <1>4 DEF Next

LEMMA TurnsStart == Init => TurnsInv
<1>1. SUFFICES ASSUME Init PROVE TurnsInv
  OBVIOUS
<1>2. /\ lampOn = 0 /\ onOff = 0 /\ IsTurnedOn = 0 /\ ~dropped
      /\ currentLevel = 0 /\ mLevel = 0 /\ mColorLevel = 0 /\ lampBright = 0 /\ asked = 0
      /\ hsv = [h |-> 0, s |-> 0] /\ lampColor = hsv
      /\ tx = <<>> /\ rx = <<>> /\ pc["chip"] = "idle" /\ pc["app"] = "idle"
  BY <1>1 DEF Init, IsTurnedOn, kState_On, kState_Off, Threads
<1>3. LevelOf(0) = 0 /\ Wide(0) = 0 /\ (0 * 65535) \div 254 = 0
  BY SMTT(30) DEF LevelOf, Wide
<1>4. ColorOf(hsv) = hsv
  <2>1. ColorWord(0) = 0
    BY <1>3 DEF ColorWord
  <2> QED
    BY <1>2, <2>1, Zenon DEF ColorOf
<1>5. Consistent
  BY <1>2, <1>3, <1>4 DEF Consistent, Fits, NearAsked, Coloured
<1>6. rx \in Seq(Echoes(0)) /\ Len(rx) + 2 * Len(tx) <= 3
  <2>1. Len(rx) = 0 /\ Len(tx) = 0
    BY <1>2
  <2> QED
    BY <1>2, <2>1
<1>7. Settled(0)
  BY <1>2, <1>5, <1>6 DEF Settled, Agree, Idle
<1> QED
  BY <1>2, <1>7 DEF TurnsInv, Phase

LEMMA TurnsStep ==
  ASSUME TakingTurns
  PROVE  TypeInv /\ TypeInv' /\ TurnsInv /\ [Next]_vars => TurnsInv'
<1>1. SUFFICES ASSUME TypeInv, TypeInv', TurnsInv, [Next]_vars PROVE TurnsInv'
  OBVIOUS
<1>2. UNCHANGED vars \/ (dropped' = dropped /\ Phase')
  <2>1. CASE \E on \in {0, 1} : Settled(on)
    BY <1>1, <2>1, SettledSteps
  <2>2. CASE \/ \E v \in {0, 1} : NetSwitched(v) \/ NetColoured(v)
             \/ \E l \in Levels[mType] : NetLevelled(l)
             \/ LevelSent
    BY <1>1, <2>2, ChipPhaseSteps
  <2>3. CASE \/ \E v \in {0, 1} : WallSwitched(v)
             \/ LevelReported \/ LevelStored \/ LevelCorrected
    BY <1>1, <2>3, AppPhaseSteps
  <2> QED
    BY <1>1, <2>1, <2>2, <2>3 DEF TurnsInv, Phase
<1>3. CASE UNCHANGED vars
  <2>1. UNCHANGED <<onOff, currentLevel, hsv, mType, mState, mLevel, mColorLevel, mColor, tx, rx,
                    lampOn, lampBright, lampColor, pc, job, report, asked, ignored, dropped>>
    BY <1>3 DEF vars, attributes, dimmer, lamp, threads, budget
  <2>2. /\ IsTurnedOn' = IsTurnedOn /\ (IsDimmer <=> IsDimmer') /\ (IsColour <=> IsColour')
        /\ (Fits <=> Fits') /\ (NearAsked <=> NearAsked') /\ (Coloured <=> Coloured')
        /\ LevelCommand' = LevelCommand /\ (ChipOnly <=> ChipOnly') /\ (AppOnly <=> AppOnly')
        /\ (Refreshes <=> Refreshes')
    BY <2>1 DEF IsTurnedOn, IsDimmer, IsColour, Fits, NearAsked, Coloured, LevelCommand,
                ChipOnly, AppOnly, Idle, Refreshes
  <2> QED
    BY <1>1, <2>1
       DEF TurnsInv, Phase, Settled, NetSwitched, NetLevelled, LevelSent, NetColoured,
           WallSwitched, LevelReported, LevelStored, LevelCorrected, MayBeTold, Echoes, Rest,
           Agree, Consistent, Fits, NearAsked, Coloured, ChipOnly, AppOnly, Idle, Refreshes,
           LevelCommand, IsTurnedOn, IsDimmer, IsColour
<1> QED
  BY <1>1, <1>2, <1>3 DEF TurnsInv

LEMMA AtRest ==
  ASSUME TypeInv, TurnsInv, Quiet
  PROVE  \E on \in {0, 1} : Settled(on)
<1>1. tx = <<>> /\ rx = <<>> /\ pc["chip"] = "idle" /\ pc["app"] = "idle"
  BY DEF Quiet, Threads
<1>2. ASSUME NEW v \in {0, 1} PROVE ~NetSwitched(v) /\ ~NetColoured(v) /\ ~WallSwitched(v)
  <2>1. <<Switch(v)>> \o Rest(v) # <<>>
    BY RestIsEcho, OneAhead
  <2> QED
    BY <1>1, <2>1, OneMessage DEF NetSwitched, NetColoured, WallSwitched
<1>3. ~LevelSent /\ ~LevelReported /\ ~LevelStored /\ ~LevelCorrected
  BY <1>1, OneMessage DEF LevelSent, LevelReported, LevelStored, LevelCorrected
<1>4. \A l \in Levels[mType] : ~NetLevelled(l)
  BY <1>1 DEF NetLevelled
<1> QED
  BY <1>2, <1>3, <1>4 DEF TurnsInv, Phase

\* What the callback has collected is what CurrentHue and CurrentSaturation say, apart
\* from what EnhancedCurrentHue has overwritten.
Collected == \A c \in {"h", "s"} \ fromEnhanced : hsv[c] = currentColour[c]

LEMMA CollectedStart == Init => Collected
BY DEF Init, Collected

LEMMA CollectedStep == TypeInv /\ Collected /\ [Next]_vars => Collected'
<1> SUFFICES ASSUME TypeInv, Collected, [Next]_vars PROVE Collected'
  OBVIOUS
<1>1. CASE UNCHANGED <<hsv, currentColour, fromEnhanced>>
  BY <1>1 DEF Collected
<1>2. CASE NetColour
  <2>1. hsv \in Colours /\ currentColour \in Colours
    BY DEF TypeInv, LevelTypes, ColourTypes
  <2>2. \A hs : Colour(hs, 0).dp = "colour" /\ Colour(hs, 0).hs = hs
    BY DEF Colour
  <2>3. \A hs : Net(Colour(hs, 0)) => hsv' = hs
    BY <2>2 DEF Net, SetAttribute
  <2>4. ASSUME NEW h \in Hues, hsv' = [hsv EXCEPT !.h = h],
               currentColour' = [currentColour EXCEPT !.h = h], fromEnhanced' = fromEnhanced \ {"h"}
        PROVE  Collected'
    BY <2>1, <2>4 DEF Collected, Colours
  <2>5. ASSUME NEW x \in Saturations, hsv' = [hsv EXCEPT !.s = x],
               currentColour' = [currentColour EXCEPT !.s = x], fromEnhanced' = fromEnhanced \ {"s"}
        PROVE  Collected'
    BY <2>1, <2>5 DEF Collected, Colours
  <2>6. ASSUME fromEnhanced' = {"h", "s"} PROVE Collected'
    BY <2>6 DEF Collected
  <2>7. CASE \E h \in Hues : /\ Net(Colour([hsv EXCEPT !.h = h], 0))
                             /\ currentColour' = [currentColour EXCEPT !.h = h]
                             /\ fromEnhanced' = fromEnhanced \ {"h"}
    <3>1. PICK h \in Hues : /\ hsv' = [hsv EXCEPT !.h = h]
                            /\ currentColour' = [currentColour EXCEPT !.h = h]
                            /\ fromEnhanced' = fromEnhanced \ {"h"}
      BY <2>3, <2>7, Zenon
    <3> QED
      BY <2>4, <3>1
  <2>8. CASE \E x \in Saturations : /\ Net(Colour([hsv EXCEPT !.s = x], 0))
                                    /\ currentColour' = [currentColour EXCEPT !.s = x]
                                    /\ fromEnhanced' = fromEnhanced \ {"s"}
    <3>1. PICK x \in Saturations : /\ hsv' = [hsv EXCEPT !.s = x]
                                   /\ currentColour' = [currentColour EXCEPT !.s = x]
                                   /\ fromEnhanced' = fromEnhanced \ {"s"}
      BY <2>3, <2>8, Zenon
    <3> QED
      BY <2>5, <3>1
  <2>9. CASE fromEnhanced' = {"h", "s"}
    BY <2>6, <2>9
  <2> QED
    BY <1>2, <2>7, <2>8, <2>9, Zenon DEF NetColour
<1>3. CASE NetSwitch \/ NetLevel
  <2>1. PICK j : SetAttribute("chip", j) /\ j.dp \in {"switch", "level"}
    <3>1. /\ \A b : Switch(b).dp \in {"switch", "level"}
          /\ \A v : Level(v).dp \in {"switch", "level"}
      BY DEF Switch, Level
    <3>2. CASE NetSwitch
      BY <3>1, <3>2, Zenon DEF NetSwitch, Net
    <3>3. CASE NetLevel
      BY <3>1, <3>3, Zenon DEF NetLevel, Net
    <3> QED
      BY <1>3, <3>2, <3>3
  <2> QED
    BY <1>1, <2>1 DEF SetAttribute, colour
<1>4. CASE WriteAttribute
  <2>1. PICK j : SetAttribute("app", j) /\ j.dp \in {"switch", "level"}
    BY <1>4 DEF WriteAttribute, Switch, Level
  <2> QED
    BY <1>1, <2>1 DEF SetAttribute, colour
<1>5. CASE \/ \E t \in Threads : Callback(t)
           \/ HandleUartCallback \/ Compare \/ UpdateFromHardware
           \/ parking_message \/ WallSwitch \/ WallDim
  <2>1. UNCHANGED attributes
    BY <1>5 DEF Callback, Decide, SetDevice, SendToMcu, HandleUartCallback, Compare,
                UpdateFromHardware, UpdateSwitch, UpdateLevel, TurnWithLevel,
                parking_message, WallSwitch, WallDim, Wall
  <2> QED
    BY <1>1, <2>1 DEF attributes
<1>6. CASE UNCHANGED vars
  BY <1>1, <1>6 DEF vars, attributes
<1> QED
  BY <1>2, <1>3, <1>4, <1>5, <1>6 DEF Next, App, Chip, Threads

LEMMA TurnsAgree == TypeInv /\ TurnsInv /\ Collected => AllAgree /\ NoDrift
<1>1. SUFFICES ASSUME TypeInv, TurnsInv, Collected, Quiet
               PROVE  /\ lampOn = IsTurnedOn /\ onOff = lampOn /\ currentLevel = mLevel
                      /\ CASE mType = "LevelControl" -> mLevel = LevelOf(lampBright)
                           [] mType = "ColorControl" -> \/ mColorLevel - lampBright \in 0 .. 257
                                                        \/ lampBright - mColorLevel \in 0 .. 257
                           [] OTHER                  -> TRUE
                      /\ ~ignored /\ mType = "ColorControl" =>
                           /\ lampColor = ColorOf(hsv)
                           /\ \A c \in {"h", "s"} \ fromEnhanced :
                                lampColor[c] = ColorWord(currentColour[c])
                      /\ asked # 0 => currentLevel \in {asked - 1, asked}
  BY DEF AllAgree, NoDrift, StateTracksLamp, OnOffTracksLamp, LevelTracksLamp, LevelAgrees,
         ColourTracksLamp
<1>2. PICK on \in {0, 1} : Settled(on)
  BY <1>1, AtRest
<1>3. Agree(on) /\ Fits /\ NearAsked /\ Coloured
  BY <1>2 DEF Settled, Consistent
<1>4. ASSUME mType = "ColorControl"
      PROVE  mColorLevel - lampBright \in 0 .. 257 \/ lampBright - mColorLevel \in 0 .. 257
  <2>1. mColorLevel = Wide(mLevel) /\ (mColorLevel = lampBright \/ Refreshes) /\ mLevel \in 0 .. 254
    BY <1>1, <1>3, <1>4, TurnTypes DEF Fits, IsColour
  <2>2. lampBright \in uint16_t /\ lampBright \in Nat
    BY <1>1, <1>4, TurnTypes, LitOfColour
  <2>3. CASE mColorLevel = lampBright
    BY <2>2, <2>3
  <2>4. CASE Refreshes
    <3>1. lampBright >= 257 /\ lampBright \div 256 = mLevel /\ HsvV(lampBright) = mLevel
      BY <2>4 DEF Refreshes
    <3> QED
      BY <2>1, <2>2, <3>1, RefreshedIsNear
  <2> QED
    BY <2>1, <2>3, <2>4
<1>5. ASSUME ~ignored, mType = "ColorControl"
      PROVE  /\ lampColor = ColorOf(hsv)
             /\ \A c \in {"h", "s"} \ fromEnhanced : lampColor[c] = ColorWord(currentColour[c])
  <2>1. lampColor = ColorOf(hsv)
    BY <1>3, <1>5 DEF Coloured, IsColour
  <2>2. ColorOf(hsv).h = ColorWord(hsv.h) /\ ColorOf(hsv).s = ColorWord(hsv.s)
    BY DEF ColorOf
  <2>3. \A c \in {"h", "s"} : lampColor[c] = ColorWord(hsv[c])
    BY <2>1, <2>2
  <2> QED
    BY <1>1, <2>1, <2>3 DEF Collected
<1> QED
  BY <1>3, <1>4, <1>5 DEF Agree, Fits, NearAsked, IsDimmer

\* While controller and wall take turns, an operation is over before the next, and once
\* it is over the lamp, the DeviceDimmer and the attributes agree, for every type of light
\* whose MCU reads a colour in the order in which mcu_dp_hsl_value_update sends it.  What
\* ColourTracksLamp leaves out is left out here too: a colour that InitiateAction ignored
\* for its hue byte, and a hue or saturation that EnhancedCurrentHue has overwritten in
\* the callback's hsv, which the lamp follows and the two attributes do not.
THEOREM SpecAllAgree == ASSUME TakingTurns PROVE Spec => []AllAgree
<1>1. TypeInv /\ [Next]_vars => TypeInv'
  BY TypeStep
<1>2. TypeInv /\ TypeInv' /\ TurnsInv /\ [Next]_vars => TurnsInv'
  BY TurnsStep
<1>4. TypeInv /\ Collected /\ [Next]_vars => Collected'
  BY CollectedStep
<1>3. TypeInv /\ TurnsInv /\ Collected => AllAgree
  BY TurnsAgree
<1> QED
  BY <1>1, <1>2, <1>3, <1>4, TypeStart, TurnsStart, CollectedStart, PTL DEF Spec

\* The echo of a level moves what the controller asked for by at most one step, once.
THEOREM SpecNoDrift == ASSUME TakingTurns PROVE Spec => []NoDrift
<1>1. TypeInv /\ [Next]_vars => TypeInv'
  BY TypeStep
<1>2. TypeInv /\ TypeInv' /\ TurnsInv /\ [Next]_vars => TurnsInv'
  BY TurnsStep
<1>4. TypeInv /\ Collected /\ [Next]_vars => Collected'
  BY CollectedStep
<1>3. TypeInv /\ TurnsInv /\ Collected => NoDrift
  BY TurnsAgree
<1> QED
  BY <1>1, <1>2, <1>3, <1>4, TypeStart, TurnsStart, CollectedStart, PTL DEF Spec
=============================================================================
