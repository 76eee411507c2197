---------------------------- MODULE Devices_proofs ----------------------------
(***************************************************************************)
(* Proofs about the serial power meter, the serial printer and the Atlona  *)
(* controller: no timer of theirs is forgotten or left over, and what the  *)
(* operator is told of them is so, for any number of processes, recorders, *)
(* ports, switches, jobs, writes and faults.                               *)
(***************************************************************************)
EXTENDS MCDevices, SequenceTheorems, TLAPS

-----------------------------------------------------------------------------
(* The meter *)

(* The process, what the pane shows of it, and the timers: a meter with a  *)
(* pending reconnect has no process, and one with a timer is announced, so *)
(* that discovery never starts a process beside a pending reconnect.       *)
Streaming ==
  /\ phase = "streaming" <=> child # None
  /\ phase = "streaming" => gapTimer
  /\ view = "streaming" => phase = "streaming"

MeterTimers ==
  /\ reconnectTimer => child = None
  /\ reconnectTimer \/ gapTimer => announced

(* A recorder has the largest gap there was between two of its samples.    *)
WorstIsKept ==
  \A r \in Recorders : quality[r] # None => quality[r].worst = quality[r].gap

MeterInv == TypeOK /\ Streaming /\ MeterTimers /\ WorstIsKept

Processes == [Children -> {"none", "live", "exited", "killed"}]

(* The parts of TypeOK that change together.                               *)
ProcessType ==
  /\ process \in Processes /\ child \in Children \cup {None}
  /\ phase \in {"disconnected", "streaming", "error"}
  /\ view \in {"disconnected", "connecting", "streaming", "error"}

AttemptsType == attempts \in Nat /\ (MaxAttempts > 0 => attempts <= MaxAttempts)
CableType == plugged \in BOOLEAN /\ announced \in BOOLEAN /\ stopped \in BOOLEAN
ConfigType == reconnect \in BOOLEAN /\ soft \in BOOLEAN
TimersType == reconnectTimer \in BOOLEAN /\ gapTimer \in BOOLEAN
SamplesType ==
  age \in Silences \cup {None} /\ quality \in [Recorders -> Qualities \cup {None}]

LEMMA MeterType ==
  TypeOK <=> /\ ProcessType /\ AttemptsType /\ CableType /\ ConfigType /\ TimersType
             /\ SamplesType /\ known \in BOOLEAN /\ warned \in BOOLEAN
             /\ faults \in 0..MaxFaults
  BY DEF TypeOK, ProcessType, AttemptsType, CableType, ConfigType, TimersType, SamplesType,
         Processes

LEMMA MeterTypeNext ==
  ASSUME ProcessType', AttemptsType', CableType', ConfigType', TimersType', SamplesType',
         known' \in BOOLEAN, warned' \in BOOLEAN, faults' \in 0..MaxFaults
  PROVE  TypeOK'
  BY DEF TypeOK, ProcessType, AttemptsType, CableType, ConfigType, TimersType, SamplesType,
         Processes

LEMMA MeterShows ==
  /\ Shown("meter-device-identified") = "connecting"
  /\ Shown("recoverable-error") = "connecting"
  /\ Shown("meter-streaming-started") = "streaming"
  /\ Shown("meter-sample") = "streaming"
  /\ Shown("meter-device-disconnected") = "disconnected"
  /\ Shown("meter-device-lost") = "disconnected"
  /\ Shown("fatal-error") = "error"
  BY DEF Shown

LEMMA StoppedType ==
  ASSUME process \in Processes
  PROVE  Stopped \in Processes
  BY DEF Stopped, Processes

LEMMA RetryEffect ==
  ASSUME AttemptsType, Retry
  PROVE  /\ AttemptsType' /\ reconnectTimer' \in BOOLEAN
         /\ phase' \in {"disconnected", "error"}
<1>1. attempts' = attempts \/ (attempts' = attempts + 1 /\ ~Spent)
  BY DEF Retry
<1>2. AttemptsType'
  BY <1>1, MeterAssumption DEF AttemptsType, Spent, MeterAssumption
<1>3. reconnectTimer' \in BOOLEAN
  BY Zenon DEF Retry
<1>4. phase' \in {"disconnected", "error"}
  BY DEF Retry
<1> QED BY <1>2, <1>3, <1>4

LEMMA FailsEffect ==
  ASSUME AttemptsType, NEW procs \in Processes, Fails(procs)
  PROVE  /\ ProcessType' /\ AttemptsType' /\ reconnectTimer' \in BOOLEAN
         /\ child' = None /\ phase' # "streaming" /\ view' # "streaming"
<1>1. process' = procs /\ child' = None /\ Retry /\ view' = ShownAfterFailure
  BY DEF Fails
<1>2. /\ AttemptsType' /\ reconnectTimer' \in BOOLEAN
      /\ phase' \in {"disconnected", "error"}
  BY <1>1, RetryEffect
<1>3. view' \in {"disconnected", "connecting", "error"}
  BY <1>1, MeterShows DEF ShownAfterFailure
<1> QED BY <1>1, <1>2, <1>3 DEF ProcessType

LEMMA StartChildEffect ==
  ASSUME ProcessType, AttemptsType, faults \in 0..MaxFaults, NEW pending \in BOOLEAN,
         StartChild(pending)
  PROVE  /\ ProcessType' /\ AttemptsType' /\ reconnectTimer' \in BOOLEAN
         /\ faults' \in 0..MaxFaults /\ Streaming'
         /\ gapTimer' = TRUE /\ warned' = FALSE
         /\ child' = None \/ reconnectTimer' = pending
         /\ UNCHANGED <<age, quality>>
<1>1. Stopped \in Processes
  BY StoppedType DEF ProcessType
<1>2. CASE \E c \in {d \in Children : Stopped[d] = "none"} :
             /\ process' = [Stopped EXCEPT ![c] = "live"] /\ child' = c
             /\ phase' = "streaming" /\ view' = Shown("meter-streaming-started")
             /\ warned' = FALSE /\ gapTimer' = TRUE
             /\ reconnectTimer' = pending
             /\ UNCHANGED <<attempts, age, quality, faults>>
  <2>1. PICK c \in Children :
             /\ process' = [Stopped EXCEPT ![c] = "live"] /\ child' = c
             /\ phase' = "streaming" /\ view' = "streaming"
             /\ warned' = FALSE /\ gapTimer' = TRUE
             /\ reconnectTimer' = pending
             /\ UNCHANGED <<attempts, age, quality, faults>>
    BY <1>2, MeterShows
  <2>2. ProcessType'
    BY <2>1, <1>1 DEF ProcessType, Processes
  <2>3. c # None
    BY MeterAssumption DEF MeterAssumption
  <2>4. Streaming'
    BY <2>1, <2>3 DEF Streaming
  <2>5. AttemptsType'
    BY <2>1 DEF AttemptsType
  <2> QED BY <2>1, <2>2, <2>4, <2>5
<1>3. CASE /\ faults < MaxFaults /\ faults' = faults + 1
           /\ process' = Stopped /\ child' = None
           /\ warned' = FALSE /\ gapTimer' = TRUE
           /\ Retry
           /\ view' = Shown(IF phase' = "error" THEN "fatal-error"
                            ELSE "meter-device-disconnected")
           /\ UNCHANGED <<age, quality>>
  <2>1. /\ AttemptsType' /\ reconnectTimer' \in BOOLEAN
        /\ phase' \in {"disconnected", "error"}
    BY <1>3, RetryEffect
  <2>2. view' \in {"disconnected", "error"}
    BY <1>3, MeterShows
  <2>3. ProcessType'
    BY <1>1, <1>3, <2>1, <2>2 DEF ProcessType
  <2>4. Streaming'
    BY <1>3, <2>1, <2>2 DEF Streaming
  <2>5. faults' \in 0..MaxFaults
    BY <1>3, MeterAssumption DEF MeterAssumption
  <2> QED BY <1>3, <2>1, <2>3, <2>4, <2>5
<1> QED BY <1>2, <1>3 DEF StartChild

(* Steps that leave the processes, their phase and the timers alone.       *)
LEMMA MeterRests ==
  ASSUME MeterInv, UNCHANGED <<child, phase, timers, reconnect, soft>>,
         process' \in Processes,
         CableType', known' \in BOOLEAN, warned' \in BOOLEAN, faults' \in 0..MaxFaults,
         announced' = announced,
         view' \in {"disconnected", "connecting", "streaming", "error"},
         view' = "streaming" => view = "streaming" \/ phase = "streaming",
         SamplesType', WorstIsKept'
  PROVE  MeterInv'
<1> USE MeterType DEF MeterInv, timers
<1>1. ProcessType'
  BY DEF ProcessType
<1>2. Streaming'
  BY DEF Streaming
<1>3. MeterTimers'
  BY DEF MeterTimers
<1>4. AttemptsType' /\ ConfigType' /\ TimersType'
  BY DEF AttemptsType, ConfigType, TimersType
<1>5. TypeOK'
  BY <1>1, <1>4, MeterTypeNext
<1> QED BY <1>2, <1>3, <1>5

LEMMA CablePreserves ==
  ASSUME MeterInv, Plug \/ Unplug \/ \E c \in Children : Exits(c) \/ Dies(c)
  PROVE  MeterInv'
<1>1. /\ UNCHANGED <<child, phase, timers, reconnect, soft, announced, stopped, known,
                     warned, age, quality, view>>
      /\ plugged' \in {plugged, TRUE, FALSE}
      /\ faults' = faults \/ (faults < MaxFaults /\ faults' = faults + 1)
      /\ process' = process
         \/ \E c \in Children, s \in {"exited", "none"} : process' = [process EXCEPT ![c] = s]
  BY DEF Plug, Unplug, Exits, Dies, env, samples
<1>2. MeterInv /\ ProcessType /\ CableType /\ SamplesType /\ known \in BOOLEAN
      /\ warned \in BOOLEAN /\ faults \in 0..MaxFaults
  BY MeterType DEF MeterInv
<1>3. process' \in Processes
  BY <1>1, <1>2 DEF ProcessType, Processes
<1>4. faults' \in 0..MaxFaults
  BY <1>1, <1>2, MeterAssumption DEF MeterAssumption
<1>5. CableType'
  BY <1>1, <1>2 DEF CableType
<1>6. SamplesType' /\ WorstIsKept'
  BY <1>1, <1>2 DEF SamplesType, WorstIsKept, MeterInv
<1>7. view' \in {"disconnected", "connecting", "streaming", "error"}
  BY <1>1, <1>2 DEF ProcessType
<1> QED BY <1>1, <1>2, <1>3, <1>4, <1>5, <1>6, <1>7, MeterRests

(* Steps that start a process, or fail to.                                 *)
LEMMA StartsPreserve ==
  ASSUME MeterInv, NEW pending \in BOOLEAN, pending = FALSE, StartChild(pending),
         CableType', announced', known' \in BOOLEAN, UNCHANGED <<reconnect, soft>>
  PROVE  MeterInv'
<1>1. /\ ProcessType /\ AttemptsType /\ ConfigType /\ SamplesType /\ WorstIsKept
      /\ faults \in 0..MaxFaults
  BY MeterType DEF MeterInv
<1>2. /\ ProcessType' /\ AttemptsType' /\ reconnectTimer' \in BOOLEAN
      /\ faults' \in 0..MaxFaults /\ Streaming'
      /\ gapTimer' = TRUE /\ warned' = FALSE
      /\ child' = None \/ reconnectTimer' = pending
      /\ UNCHANGED <<age, quality>>
  BY <1>1, StartChildEffect
<1>3. ConfigType' /\ SamplesType' /\ WorstIsKept'
  BY <1>1, <1>2 DEF ConfigType, SamplesType, WorstIsKept
<1>4. TimersType' /\ warned' \in BOOLEAN
  BY <1>2 DEF TimersType
<1>5. MeterTimers'
  BY <1>2 DEF MeterTimers
<1>6. TypeOK'
  BY <1>2, <1>3, <1>4, MeterTypeNext
<1> QED BY <1>2, <1>3, <1>5, <1>6 DEF MeterInv

LEMMA IdentifiedPreserves ==
  ASSUME MeterInv, onDeviceIdentified
  PROVE  MeterInv'
<1>1. /\ ProcessType /\ CableType /\ SamplesType /\ WorstIsKept /\ TimersType
      /\ Streaming /\ MeterTimers /\ warned \in BOOLEAN /\ faults \in 0..MaxFaults
  BY MeterType DEF MeterInv
<1>2. /\ ~announced /\ announced' = TRUE /\ known' = TRUE
      /\ UNCHANGED <<plugged, reconnect, soft, stopped>>
  BY DEF onDeviceIdentified, DeviceIdentified
<1>3. phase # "streaming" /\ reconnectTimer = FALSE
  BY <1>1, <1>2 DEF Streaming, MeterTimers, TimersType
<1>4. StartChild(reconnectTimer)
  BY <1>3 DEF onDeviceIdentified
<1>5. CableType'
  BY <1>1, <1>2 DEF CableType
<1> QED BY <1>2, <1>3, <1>4, <1>5, StartsPreserve

LEMMA ReconnectPreserves ==
  ASSUME MeterInv, ReconnectFires
  PROVE  MeterInv'
<1>1. /\ ProcessType /\ CableType /\ SamplesType /\ WorstIsKept /\ TimersType
      /\ AttemptsType /\ ConfigType /\ known \in BOOLEAN
      /\ Streaming /\ MeterTimers /\ warned \in BOOLEAN /\ faults \in 0..MaxFaults
  BY MeterType DEF MeterInv
<1>2. /\ reconnectTimer
      /\ UNCHANGED <<plugged, announced, reconnect, soft, stopped, known>>
  BY DEF ReconnectFires
<1>3. announced /\ announced' = announced
  BY <1>1, <1>2 DEF MeterTimers
<1>4. CableType' /\ ConfigType' /\ known' \in BOOLEAN
  BY <1>1, <1>2 DEF CableType, ConfigType
<1>5. CASE StartChild(FALSE)
  <2>1. UNCHANGED <<reconnect, soft>> /\ announced'
    BY <1>2, <1>3
  <2> QED BY <1>4, <1>5, <2>1, StartsPreserve, Zenon
<1>6. CASE /\ reconnectTimer' = FALSE
           /\ UNCHANGED <<process, child, phase, attempts, gapTimer, samples, view, faults>>
  <2>1. UNCHANGED <<process, child, phase, attempts, gapTimer, age, warned, quality, view,
                    faults>>
    BY <1>6 DEF samples
  <2>2. ProcessType' /\ AttemptsType' /\ SamplesType' /\ Streaming' /\ WorstIsKept'
    BY <1>1, <2>1 DEF ProcessType, AttemptsType, SamplesType, Streaming, WorstIsKept
  <2>3. TimersType' /\ MeterTimers'
    BY <1>1, <1>3, <1>6, <2>1 DEF TimersType, MeterTimers
  <2>4. TypeOK'
    BY <1>1, <1>4, <2>1, <2>2, <2>3, MeterTypeNext
  <2> QED BY <2>2, <2>3, <2>4 DEF MeterInv
<1> QED BY <1>5, <1>6 DEF ReconnectFires

LEMMA OffPreserves ==
  ASSUME MeterInv, onDeviceLost \/ stop
  PROVE  MeterInv'
<1>1. /\ ProcessType /\ CableType /\ SamplesType /\ WorstIsKept
      /\ AttemptsType /\ ConfigType /\ known \in BOOLEAN
      /\ Streaming /\ warned \in BOOLEAN /\ faults \in 0..MaxFaults
  BY MeterType DEF MeterInv
<1>2. /\ reconnectTimer' = FALSE /\ gapTimer' = FALSE
      /\ process' = Stopped /\ child' = None /\ phase' = "disconnected"
      /\ UNCHANGED <<plugged, reconnect, soft, faults, attempts, age, warned>>
  BY DEF onDeviceLost, stop, Off, Cleared, samples
<1>3. /\ announced' \in {announced, FALSE} /\ stopped' \in {stopped, TRUE}
      /\ known' \in {known, FALSE}
      /\ quality' = quality \/ quality' = [r \in Recorders |-> None]
  BY DEF onDeviceLost, stop, DeviceLost, samples
<1>4. view' = "disconnected" \/ (child = None /\ view' = view)
  BY MeterShows DEF onDeviceLost, stop
<1>5. ProcessType'
  BY <1>1, <1>2, <1>4, StoppedType DEF ProcessType
<1>6. Streaming'
  BY <1>1, <1>2, <1>4 DEF Streaming
<1>7. SamplesType' /\ WorstIsKept'
  BY <1>1, <1>2, <1>3 DEF SamplesType, WorstIsKept
<1>8. AttemptsType' /\ ConfigType' /\ TimersType' /\ MeterTimers'
  BY <1>1, <1>2 DEF AttemptsType, ConfigType, TimersType, MeterTimers
<1>9. CableType' /\ known' \in BOOLEAN
  BY <1>1, <1>2, <1>3 DEF CableType
<1>10. TypeOK'
  BY <1>1, <1>2, <1>5, <1>7, <1>8, <1>9, MeterTypeNext
<1> QED BY <1>6, <1>7, <1>8, <1>10 DEF MeterInv

(* A process that ended, or a silence that is taken for its end.           *)
LEMMA FailuresPreserve ==
  ASSUME MeterInv, GapTick \/ \E c \in Children : handleChildExit(c)
  PROVE  MeterInv'
<1>1. /\ ProcessType /\ CableType /\ SamplesType /\ WorstIsKept
      /\ AttemptsType /\ ConfigType /\ TimersType /\ known \in BOOLEAN
      /\ Streaming /\ MeterTimers /\ warned \in BOOLEAN /\ faults \in 0..MaxFaults
  BY MeterType DEF MeterInv
<1>2. /\ UNCHANGED <<plugged, announced, reconnect, soft, stopped, faults, known, gapTimer,
                     age, quality>>
      /\ gapTimer
      /\ \/ Fails(Stopped) /\ warned' = warned
         \/ /\ view' = "connecting" /\ warned' = TRUE
            /\ UNCHANGED <<process, child, phase, attempts, reconnectTimer>>
  <2>1. CASE GapTick
    BY <2>1, MeterShows DEF GapTick, env
  <2>2. ASSUME NEW c \in Children, handleChildExit(c)
        PROVE  /\ UNCHANGED <<env, known, samples, gapTimer>> /\ gapTimer
               /\ Fails(Stopped)
    <3>1. phase = "streaming" /\ gapTimer
      BY <1>1, <2>2, MeterAssumption
      DEF handleChildExit, Streaming, MeterAssumption
    <3> QED BY <2>2, <3>1 DEF handleChildExit
  <2> QED BY <2>1, <2>2 DEF env, samples
<1>3. CableType' /\ ConfigType' /\ SamplesType' /\ WorstIsKept'
  BY <1>1, <1>2 DEF CableType, ConfigType, SamplesType, WorstIsKept
<1>4. announced'
  BY <1>1, <1>2 DEF MeterTimers
<1>5. /\ ProcessType' /\ AttemptsType' /\ reconnectTimer' \in BOOLEAN
      /\ warned' \in BOOLEAN /\ Streaming' /\ (reconnectTimer' => child' = None)
  <2>1. CASE Fails(Stopped) /\ warned' = warned
    <3>1. /\ ProcessType' /\ AttemptsType' /\ reconnectTimer' \in BOOLEAN
          /\ child' = None /\ phase' # "streaming" /\ view' # "streaming"
      BY <1>1, <2>1, FailsEffect, StoppedType DEF ProcessType
    <3> QED BY <1>1, <2>1, <3>1 DEF Streaming
  <2>2. CASE /\ view' = "connecting" /\ warned' = TRUE
             /\ UNCHANGED <<process, child, phase, attempts, reconnectTimer>>
    <3>1. ProcessType' /\ AttemptsType' /\ reconnectTimer' \in BOOLEAN
      BY <1>1, <2>2 DEF ProcessType, AttemptsType, TimersType
    <3>2. Streaming' /\ (reconnectTimer' => child' = None)
      BY <1>1, <1>2, <2>2 DEF Streaming, MeterTimers
    <3> QED BY <2>2, <3>1, <3>2
  <2> QED BY <1>2, <2>1, <2>2
<1>6. TimersType' /\ MeterTimers'
  BY <1>1, <1>2, <1>4, <1>5 DEF TimersType, MeterTimers
<1>7. TypeOK'
  BY <1>1, <1>2, <1>3, <1>5, <1>6, MeterTypeNext
<1> QED BY <1>3, <1>5, <1>6, <1>7 DEF MeterInv

-----------------------------------------------------------------------------
(* Samples, silence and recordings *)

LEMMA SampledKeeps ==
  ASSUME NEW q \in Qualities
  PROVE  Sampled(q) \in Qualities /\ (q.worst = q.gap => Sampled(q).worst = Sampled(q).gap)
<1>1. \A a, b \in Silences : MaxSilence(a, b) \in Silences
  BY DEF Silences, MaxSilence
<1> DEFINE g == IF q.sampled THEN MaxSilence(q.gap, q.quiet) ELSE q.gap
           w == IF q.sampled THEN MaxSilence(q.worst, q.quiet) ELSE q.worst
<1>2. /\ q.quiet \in Silences /\ q.gap \in Silences /\ q.worst \in Silences
      /\ q = [sampled |-> q.sampled, quiet |-> q.quiet, gap |-> q.gap, worst |-> q.worst]
  BY DEF Qualities
<1>3. g \in Silences /\ w \in Silences /\ (q.worst = q.gap => w = g)
  BY <1>1, <1>2
<1>4. Sampled(q) = [q EXCEPT !.sampled = TRUE, !.quiet = 0, !.gap = g, !.worst = w]
  BY DEF Sampled
<1> HIDE DEF g, w
<1>5. Sampled(q) = [sampled |-> TRUE, quiet |-> 0, gap |-> g, worst |-> w]
  BY <1>2, <1>4
<1>6. 0 \in Silences
  BY DEF Silences
<1> QED BY <1>3, <1>5, <1>6 DEF Qualities

LEMMA SamplesPreserve ==
  ASSUME MeterInv,
         \/ Silence
         \/ \E c \in Children, good \in BOOLEAN : Row(c, good)
         \/ \E r \in Recorders : beginRecording(r) \/ endRecording(r)
  PROVE  MeterInv'
<1>1. /\ ProcessType /\ CableType /\ SamplesType /\ WorstIsKept
      /\ known \in BOOLEAN /\ warned \in BOOLEAN /\ faults \in 0..MaxFaults
  BY MeterType DEF MeterInv
<1>2. /\ UNCHANGED <<child, phase, timers, reconnect, soft, process, plugged, announced,
                     stopped, known, faults>>
  BY DEF Silence, Row, beginRecording, endRecording, env
<1>3. SamplesType' /\ WorstIsKept' /\ warned' \in BOOLEAN
  <2>1. CASE Silence
    <3>1. /\ age' = IF age = None \/ age = 3 THEN age ELSE age + 1
          /\ quality' = [r \in Recorders |->
                   IF quality[r] = None \/ quality[r].quiet = 3 THEN quality[r]
                   ELSE [quality[r] EXCEPT !.quiet = @ + 1]]
          /\ warned' = warned
      BY <2>1 DEF Silence
    <3>2. age' \in Silences \cup {None}
      BY <1>1, <3>1 DEF SamplesType, Silences
    <3>3. ASSUME NEW r \in Recorders
          PROVE  /\ quality'[r] \in Qualities \cup {None}
                 /\ quality'[r] # None => quality'[r].worst = quality'[r].gap
      <4>1. quality[r] \in Qualities \cup {None}
            /\ (quality[r] # None => quality[r].worst = quality[r].gap)
        BY <1>1 DEF SamplesType, WorstIsKept
      <4>2. CASE quality[r] = None \/ quality[r].quiet = 3
        BY <3>1, <4>1, <4>2
      <4>3. CASE ~(quality[r] = None \/ quality[r].quiet = 3)
        <5>1. quality[r] \in Qualities /\ quality[r].quiet + 1 \in Silences
          BY <4>1, <4>3 DEF Qualities, Silences
        <5>2. quality'[r] = [quality[r] EXCEPT !.quiet = quality[r].quiet + 1]
          BY <3>1, <4>3
        <5> QED BY <4>1, <4>3, <5>1, <5>2 DEF Qualities
      <4> QED BY <4>2, <4>3
    <3> QED BY <1>1, <3>1, <3>2, <3>3 DEF SamplesType, WorstIsKept
  <2>2. CASE UNCHANGED samples
    BY <1>1, <2>2 DEF SamplesType, WorstIsKept, samples
  <2>3. CASE /\ age' = 0 /\ warned' = FALSE
             /\ quality' = [r \in Recorders |-> IF quality[r] = None THEN None
                                                ELSE Sampled(quality[r])]
    <3>1. ASSUME NEW r \in Recorders
          PROVE  /\ quality'[r] \in Qualities \cup {None}
                 /\ quality'[r] # None => quality'[r].worst = quality'[r].gap
      BY <1>1, <2>3, SampledKeeps DEF SamplesType, WorstIsKept
    <3>2. 0 \in Silences
      BY DEF Silences
    <3>3. SamplesType' /\ WorstIsKept'
      BY <2>3, <3>1, <3>2 DEF SamplesType, WorstIsKept
    <3> QED BY <2>3, <3>3
  <2>4. CASE \E r \in Recorders, q \in {NewQuality, None} :
               quality' = [quality EXCEPT ![r] = q] /\ UNCHANGED <<age, warned>>
    <3>1. /\ NewQuality \in Qualities /\ NewQuality.worst = NewQuality.gap
      BY DEF NewQuality, Qualities, Silences
    <3> QED BY <1>1, <2>4, <3>1 DEF SamplesType, WorstIsKept
  <2> QED BY <2>1, <2>2, <2>3, <2>4 DEF Row, beginRecording, endRecording
<1>4. /\ view' \in {"disconnected", "connecting", "streaming", "error"}
      /\ view' = "streaming" => view = "streaming" \/ phase = "streaming"
  <2>1. \/ view' = view \/ view' = "connecting"
        \/ view' = "streaming" /\ phase \notin {"disconnected", "error"}
    BY MeterShows DEF Silence, Row, beginRecording, endRecording
  <2> QED BY <1>1, <2>1 DEF ProcessType
<1>5. CableType' /\ process' \in Processes /\ faults' \in 0..MaxFaults
      /\ known' \in BOOLEAN
  BY <1>1, <1>2 DEF CableType, ProcessType
<1> QED BY <1>2, <1>3, <1>4, <1>5, MeterRests

LEMMA MeterInitHolds == Init => MeterInv
<1> SUFFICES ASSUME Init PROVE MeterInv
  OBVIOUS
<1>1. ProcessType /\ Streaming
  BY DEF Init, ProcessType, Processes, Streaming
<1>2. AttemptsType
  BY MeterAssumption DEF Init, AttemptsType, MeterAssumption
<1>3. faults \in 0..MaxFaults
  BY MeterAssumption DEF Init, MeterAssumption
<1>4. CableType /\ ConfigType /\ TimersType /\ MeterTimers /\ known \in BOOLEAN
      /\ warned \in BOOLEAN
  BY DEF Init, CableType, ConfigType, TimersType, MeterTimers
<1>5. SamplesType /\ WorstIsKept
  BY DEF Init, SamplesType, WorstIsKept
<1> QED BY <1>1, <1>2, <1>3, <1>4, <1>5, MeterType DEF MeterInv

LEMMA MeterStepPreserves == MeterInv /\ Next => MeterInv'
  BY CablePreserves, IdentifiedPreserves, ReconnectPreserves, OffPreserves,
     FailuresPreserve, SamplesPreserve DEF Next

LEMMA MeterStutters ==
  ASSUME MeterInv, UNCHANGED vars
  PROVE  MeterInv'
<1>1. /\ ProcessType /\ CableType /\ SamplesType /\ WorstIsKept
      /\ known \in BOOLEAN /\ warned \in BOOLEAN /\ faults \in 0..MaxFaults
  BY MeterType DEF MeterInv
<1>2. UNCHANGED <<child, phase, timers, reconnect, soft, process, plugged, announced,
                  stopped, known, warned, age, quality, view, faults>>
  BY DEF vars, env, samples
<1>3. SamplesType' /\ WorstIsKept' /\ CableType' /\ process' \in Processes
      /\ view' \in {"disconnected", "connecting", "streaming", "error"}
  BY <1>1, <1>2 DEF SamplesType, WorstIsKept, CableType, ProcessType
<1> QED BY <1>1, <1>2, <1>3, MeterRests

-----------------------------------------------------------------------------
(* The printer *)

Entries == [id : Nat, torn : BOOLEAN]

PrinterCable == pPlugged \in BOOLEAN /\ pAnnounced \in BOOLEAN /\ pReconnect \in BOOLEAN
                /\ pStopped \in BOOLEAN
PrinterLine == pHandle \in [PrinterPorts -> Printer!PortStates]
               /\ pPort \in PrinterPorts \cup {None}
PrinterFlags == pKnown \in BOOLEAN /\ pTimer \in BOOLEAN
PrinterShows ==
  /\ pState \in {"disconnected", "idle", "receiving", "queued", "error"}
  /\ pView \in {"disconnected", "connected", "receiving", "error"}
PrinterBuffer == buffer \in {"empty", "noise", "text"} /\ stale \in BOOLEAN
                 /\ idleTimer \in BOOLEAN
PrinterTapes ==
  /\ queue \in Seq(Nat) /\ Len(queue) <= MaxQueued
  /\ history \in Seq(Entries) /\ Len(history) <= MaxQueued

(* Ids are handed out up to the bound, and one more to a job whose port    *)
(* was lost.                                                               *)
JobIds ==
  /\ job \in Nat /\ job < nextJob /\ nextJob \in 1..(MaxJobs + 2)
  /\ job # 0 \/ buffer # "empty" => nextJob <= MaxJobs + 1

PrinterInv ==
  /\ PrinterCable /\ PrinterLine /\ PrinterFlags /\ PrinterShows /\ PrinterBuffer
  /\ PrinterTapes /\ JobIds /\ pFaults \in 0..MaxPrinterFaults
  /\ Printer!ReceivingWillEnd

LEMMA PrinterType == PrinterInv => Printer!TypeOK
<1> SUFFICES ASSUME PrinterInv PROVE Printer!TypeOK
  OBVIOUS
<1>1. {pPlugged, pAnnounced, pReconnect, pKnown, stale, idleTimer, pTimer, pStopped}
        \subseteq BOOLEAN
  BY DEF PrinterInv, PrinterCable, PrinterFlags, PrinterBuffer
<1>2. /\ PrinterLine /\ PrinterShows /\ PrinterTapes /\ JobIds
      /\ buffer \in {"empty", "noise", "text"} /\ pFaults \in 0..MaxPrinterFaults
  BY DEF PrinterInv, PrinterBuffer
<1> QED
  BY <1>1, <1>2 DEF PrinterLine, PrinterShows, PrinterTapes, JobIds, Printer!TypeOK

LEMMA PrinterBounds ==
  MaxQueued \in Nat /\ MaxJobs \in Nat /\ MaxPrinterFaults \in Nat
  BY DevicesAssumption DEF DevicesAssumption

LEMMA PrinterShown ==
  /\ Printer!Shown("job-started") = "receiving"
  /\ Printer!Shown("device-connected") = "connected"
  /\ Printer!Shown("job-completed") = "connected"
  /\ Printer!Shown("job-dismissed") = "connected"
  /\ Printer!Shown("device-disconnected") = "disconnected"
  /\ Printer!OnError(TRUE) = "error" /\ Printer!OnError(FALSE) = "disconnected"
  BY DEF Printer!Shown, Printer!OnError

LEMMA BoundedLen ==
  ASSUME NEW S, NEW s \in Seq(S), NEW e \in S, Len(s) <= MaxQueued
  PROVE  /\ Printer!Bounded(Append(s, e)) \in Seq(S)
         /\ Len(Printer!Bounded(Append(s, e))) <= MaxQueued
<1> DEFINE a == Append(s, e)
<1>1. a \in Seq(S) /\ Len(a) = Len(s) + 1 /\ Len(s) \in Nat /\ a # <<>>
  BY AppendProperties
<1> HIDE DEF a
<1>2. CASE Len(a) > MaxQueued
  <2>1. Tail(a) \in Seq(S) /\ Len(Tail(a)) = Len(a) - 1
    BY <1>1
  <2> QED BY <1>1, <1>2, <2>1, PrinterBounds DEF Printer!Bounded
<1>3. CASE ~(Len(a) > MaxQueued)
  BY <1>1, <1>3, PrinterBounds DEF Printer!Bounded
<1> QED BY <1>2, <1>3 DEF a

(* A step that leaves the jobs alone and does not start to receive.        *)
LEMMA JobsRest ==
  ASSUME PrinterInv, UNCHANGED <<buffer, stale, nextJob, idleTimer, queue, history>>,
         job' \in {job, 0}, pReconnect' = pReconnect,
         PrinterCable', PrinterLine', PrinterFlags', PrinterShows',
         pFaults' \in 0..MaxPrinterFaults,
         pState' = "receiving" => pState = "receiving" /\ job' = job /\ pStopped' = pStopped
  PROVE  PrinterInv'
<1>1. PrinterBuffer' /\ PrinterTapes'
  BY DEF PrinterInv, PrinterBuffer, PrinterTapes
<1>2. JobIds'
  BY DEF PrinterInv, JobIds
<1>3. Printer!ReceivingWillEnd'
  BY DEF PrinterInv, Printer!ReceivingWillEnd
<1> QED BY <1>1, <1>2, <1>3 DEF PrinterInv

LEMMA PrinterHandles ==
  ASSUME PrinterLine, NEW p \in PrinterPorts, NEW s \in Printer!PortStates
  PROVE  [pHandle EXCEPT ![p] = s] \in [PrinterPorts -> Printer!PortStates]
  BY DEF PrinterLine

LEMMA PrinterCablePreserves ==
  ASSUME PrinterInv,
         Printer!Plug \/ Printer!Unplug \/ \E p \in PrinterPorts : Printer!Disconnected(p)
  PROVE  PrinterInv'
<1>1. /\ UNCHANGED <<pAnnounced, pReconnect, pStopped, pPort, pKnown, pTimer, pState, pView>>
      /\ UNCHANGED <<buffer, stale, job, nextJob, idleTimer, queue, history>>
      /\ pPlugged' \in {pPlugged, TRUE, FALSE}
      /\ pFaults' = pFaults \/ (pFaults < MaxPrinterFaults /\ pFaults' = pFaults + 1)
  BY DEF Printer!Plug, Printer!Unplug, Printer!Disconnected, Printer!env, Printer!line,
         Printer!jobs
<1>2. /\ PrinterCable /\ PrinterLine /\ PrinterFlags /\ PrinterShows
      /\ pFaults \in 0..MaxPrinterFaults
  BY DEF PrinterInv
<1>3. /\ pHandle' = pHandle
      \/ pHandle' = [p \in PrinterPorts |-> IF pHandle[p] = "open" THEN "dead" ELSE pHandle[p]]
      \/ \E p \in PrinterPorts : pHandle' = [pHandle EXCEPT ![p] = "gone"]
  BY DEF Printer!Plug, Printer!Unplug, Printer!Disconnected, Printer!line
<1>4. PrinterLine'
  BY <1>1, <1>2, <1>3 DEF PrinterLine, Printer!PortStates, Printer!Closing
<1>5. PrinterCable' /\ PrinterFlags' /\ PrinterShows'
  BY <1>1, <1>2 DEF PrinterCable, PrinterFlags, PrinterShows
<1>6. pFaults' \in 0..MaxPrinterFaults
  BY <1>1, <1>2, PrinterBounds
<1> QED BY <1>1, <1>4, <1>5, <1>6, JobsRest

(* openPort *)
LEMMA OpenPortEffect ==
  ASSUME PrinterInv, Printer!OpenPort, pPort' = pPort
  PROVE  /\ PrinterLine' /\ PrinterShows'
         /\ pState' = "receiving" => pState = "receiving"
<1>1. PrinterLine /\ PrinterShows
  BY DEF PrinterInv
<1>2. CASE /\ \E p \in PrinterPorts : pHandle' = [pHandle EXCEPT ![p] = "opening"]
           /\ UNCHANGED <<pState, pView>>
  BY <1>1, <1>2 DEF PrinterLine, PrinterShows, Printer!PortStates
<1>3. CASE pState' = "disconnected" /\ pView' = "disconnected" /\ UNCHANGED pHandle
  BY <1>1, <1>3 DEF PrinterLine, PrinterShows
<1> QED BY <1>2, <1>3, PrinterShown DEF Printer!OpenPort, Printer!Free

LEMMA PrinterOpens ==
  ASSUME PrinterInv, Printer!onDeviceIdentified \/ Printer!ReconnectFires
  PROVE  PrinterInv'
<1>1. /\ PrinterCable /\ PrinterLine /\ PrinterFlags /\ PrinterShows
      /\ pFaults \in 0..MaxPrinterFaults
  BY DEF PrinterInv
<1>2. /\ UNCHANGED <<pPlugged, pReconnect, pStopped, pFaults, pPort>>
      /\ UNCHANGED <<buffer, stale, job, nextJob, idleTimer, queue, history>>
      /\ pAnnounced' \in {pAnnounced, TRUE} /\ pKnown' \in {pKnown, TRUE}
      /\ pTimer' \in {pTimer, FALSE}
      /\ UNCHANGED <<pHandle, pState, pView>> \/ Printer!OpenPort
  BY DEF Printer!onDeviceIdentified, Printer!ReconnectFires, Printer!DeviceIdentified,
         Printer!env, Printer!jobs
<1>3. /\ PrinterLine' /\ PrinterShows' /\ (pState' = "receiving" => pState = "receiving")
  <2>1. CASE UNCHANGED <<pHandle, pState, pView>>
    BY <1>1, <1>2, <2>1 DEF PrinterLine, PrinterShows
  <2> QED BY <1>2, <2>1, OpenPortEffect
<1>4. PrinterCable' /\ PrinterFlags'
  BY <1>1, <1>2 DEF PrinterCable, PrinterFlags
<1>5. pFaults' \in 0..MaxPrinterFaults
  BY <1>1, <1>2
<1> QED BY <1>2, <1>3, <1>4, <1>5, JobsRest

(* The end of an open, and what is retried.                                *)
LEMMA PrinterAnswers ==
  ASSUME PrinterInv,
         \/ \E p \in PrinterPorts : Printer!Opened(p) \/ Printer!OpenFails(p)
         \/ Printer!PortError
  PROVE  PrinterInv'
<1>1. /\ PrinterCable /\ PrinterLine /\ PrinterFlags /\ PrinterShows
      /\ pFaults \in 0..MaxPrinterFaults
  BY DEF PrinterInv
<1>2. /\ UNCHANGED <<pPlugged, pAnnounced, pReconnect, pStopped, pKnown>>
      /\ UNCHANGED <<buffer, stale, job, nextJob, idleTimer, queue, history>>
      /\ pFaults' = pFaults \/ (pFaults < MaxPrinterFaults /\ pFaults' = pFaults + 1)
  BY DEF Printer!Opened, Printer!OpenFails, Printer!PortError, Printer!env, Printer!jobs
<1>3. /\ pPort' \in PrinterPorts \cup {None}
      /\ \E p \in PrinterPorts, s \in {"open", "free", "failing"} :
           pHandle' = [pHandle EXCEPT ![p] = s]
  BY <1>1 DEF Printer!Opened, Printer!OpenFails, Printer!PortError, PrinterLine
<1>4. /\ pTimer' = pTimer \/ pTimer' = (pReconnect \/ pTimer)
      /\ pState' \in {pState, "idle", "error"}
      /\ pView' \in {"connected", "error", "disconnected"}
  <2>1. CASE Printer!PortError \/ \E p \in PrinterPorts : Printer!OpenFails(p)
    <3>1. Printer!Retry(pState)
      BY <2>1 DEF Printer!PortError, Printer!OpenFails
    <3>2. pTimer' = (pReconnect \/ pTimer)
      BY <3>1, Zenon DEF Printer!Retry
    <3>3. /\ pState' \in {pState, "error"} /\ pView' \in {"error", "disconnected"}
      BY <3>1 DEF Printer!Retry, Printer!OnError
    <3> QED BY <3>2, <3>3
  <2>2. CASE \E p \in PrinterPorts : Printer!Opened(p)
    BY <2>2, PrinterShown DEF Printer!Opened
  <2> QED BY <2>1, <2>2
<1>5. PrinterLine'
  BY <1>1, <1>3 DEF PrinterLine, Printer!PortStates, Printer!Closing
<1>6. PrinterCable' /\ PrinterFlags'
  BY <1>1, <1>2, <1>4 DEF PrinterCable, PrinterFlags
<1>7. PrinterShows'
  BY <1>1, <1>4 DEF PrinterShows
<1>8. pFaults' \in 0..MaxPrinterFaults
  BY <1>1, <1>2, PrinterBounds
<1> QED BY <1>2, <1>4, <1>5, <1>6, <1>7, <1>8, JobsRest

LEMMA PrinterLost ==
  ASSUME PrinterInv, Printer!onDeviceLost \/ Printer!stop
  PROVE  PrinterInv'
<1>1. /\ PrinterCable /\ PrinterLine /\ PrinterFlags /\ PrinterShows /\ PrinterBuffer
      /\ PrinterTapes /\ JobIds /\ pFaults \in 0..MaxPrinterFaults
  BY DEF PrinterInv
<1>2. /\ UNCHANGED <<pPlugged, pReconnect, pFaults, pView>>
      /\ UNCHANGED <<buffer, stale, nextJob, queue, history>>
      /\ pAnnounced' \in {pAnnounced, FALSE} /\ pTimer' \in {pTimer, FALSE}
      /\ pPort' \in {pPort, None}
      /\ \/ UNCHANGED <<pHandle, pState, pKnown, job>>
         \/ \E how \in {"losing", "stopping"} : Printer!CloseAs(how)
  BY DEF Printer!onDeviceLost, Printer!stop, Printer!DeviceLost, Printer!line
<1>3. \/ pStopped' = pStopped /\ idleTimer' = idleTimer
      \/ pStopped' = TRUE /\ idleTimer' = FALSE
  BY DEF Printer!onDeviceLost, Printer!stop
<1>4. /\ \/ pState' = pState /\ job' = job /\ pKnown' = pKnown
         \/ pState' = "disconnected" /\ job' = 0 /\ pKnown' = FALSE
      /\ \/ pHandle' = pHandle
         \/ \E p \in PrinterPorts, how \in {"losing", "stopping"} :
              pHandle' = [pHandle EXCEPT ![p] = how]
  BY <1>1, <1>2 DEF Printer!CloseAs, Printer!IsOpen, PrinterLine
<1>5. PrinterLine'
  BY <1>1, <1>2, <1>4 DEF PrinterLine, Printer!PortStates, Printer!Closing
<1>6. PrinterShows' /\ PrinterFlags'
  BY <1>1, <1>2, <1>4 DEF PrinterShows, PrinterFlags
<1>7. PrinterCable' /\ PrinterBuffer'
  BY <1>1, <1>2, <1>3 DEF PrinterCable, PrinterBuffer
<1>8. PrinterTapes' /\ JobIds'
  BY <1>1, <1>2, <1>4 DEF PrinterTapes, JobIds
<1>9. Printer!ReceivingWillEnd'
  BY <1>3, <1>4 DEF PrinterInv, Printer!ReceivingWillEnd
<1>10. pFaults' \in 0..MaxPrinterFaults
  BY <1>1, <1>2
<1> QED BY <1>5, <1>6, <1>7, <1>8, <1>9, <1>10 DEF PrinterInv

LEMMA PrinterClosed ==
  ASSUME PrinterInv, NEW p \in PrinterPorts, Printer!Closed(p)
  PROVE  PrinterInv'
<1> DEFINE how == pHandle[p]
           retries == Printer!Unexpected \/ how = "failing"
<1>1. /\ PrinterCable /\ PrinterLine /\ PrinterFlags /\ PrinterShows /\ PrinterBuffer
      /\ PrinterTapes /\ JobIds /\ pFaults \in 0..MaxPrinterFaults
  BY DEF PrinterInv
<1>2. /\ UNCHANGED <<pPlugged, pAnnounced, pReconnect, pStopped, pFaults>>
      /\ UNCHANGED <<nextJob, idleTimer, queue, history>>
      /\ pHandle' = [pHandle EXCEPT ![p] = "free"]
      /\ pPort' \in {None, pPort} /\ pKnown' \in {FALSE, pKnown}
  BY DEF Printer!Closed, Printer!env
<1>3. pTimer' = (pTimer \/ (retries /\ pReconnect))
  BY DEF Printer!Closed
<1>4. pTimer' \in BOOLEAN
  BY <1>3, Zenon
<1>5. /\ pState' \in {"disconnected", "error"}
      /\ pView' \in {pView, "disconnected", "error"}
  <2>1. pState \in {"disconnected", "error"} \/ retries
    BY DEF Printer!Unexpected
  <2>2. /\ pState' \in {"disconnected", "error"} \/ (~retries /\ pState' = pState)
        /\ \/ pView' \in {pView, Printer!Shown("device-disconnected")}
           \/ pView' = Printer!OnError(~pReconnect)
    BY DEF Printer!Closed
  <2>3. Printer!OnError(~pReconnect) \in {"disconnected", "error"}
    BY DEF Printer!OnError
  <2> QED BY <2>1, <2>2, <2>3, PrinterShown
<1>6. /\ buffer' \in {buffer, "empty"} /\ job' \in {0, job}
  BY DEF Printer!Closed
<1>7. stale' = (~retries /\ buffer # "empty")
  BY DEF Printer!Closed
<1>8. stale' \in BOOLEAN
  BY <1>7, Zenon
<1>9. PrinterLine'
  BY <1>1, <1>2 DEF PrinterLine, Printer!PortStates
<1>10. PrinterShows'
  BY <1>1, <1>5 DEF PrinterShows
<1>11. PrinterCable' /\ PrinterFlags'
  BY <1>1, <1>2, <1>4 DEF PrinterCable, PrinterFlags
<1>12. PrinterBuffer'
  BY <1>1, <1>2, <1>6, <1>8 DEF PrinterBuffer
<1>13. PrinterTapes' /\ JobIds'
  BY <1>1, <1>2, <1>6 DEF PrinterTapes, JobIds
<1>14. Printer!ReceivingWillEnd'
  BY <1>5 DEF Printer!ReceivingWillEnd
<1>15. pFaults' \in 0..MaxPrinterFaults
  BY <1>1, <1>2
<1> QED BY <1>9, <1>10, <1>11, <1>12, <1>13, <1>14, <1>15 DEF PrinterInv

-----------------------------------------------------------------------------
(* Its jobs *)

LEMMA DataPreserves ==
  ASSUME PrinterInv, NEW bytes \in {"noise", "text"}, Printer!handleData(bytes)
  PROVE  PrinterInv'
<1>1. /\ PrinterCable /\ PrinterLine /\ PrinterFlags /\ PrinterShows /\ PrinterBuffer
      /\ PrinterTapes /\ JobIds /\ pFaults \in 0..MaxPrinterFaults
      /\ Printer!ReceivingWillEnd
  BY DEF PrinterInv
<1>2. /\ UNCHANGED <<pPlugged, pAnnounced, pReconnect, pStopped, pFaults>>
      /\ UNCHANGED <<pHandle, pPort, pKnown, pTimer>>
  BY DEF Printer!handleData, Printer!env, Printer!line
<1>3. PrinterCable' /\ PrinterFlags' /\ PrinterLine' /\ pFaults' \in 0..MaxPrinterFaults
  BY <1>1, <1>2 DEF PrinterCable, PrinterFlags, PrinterLine
<1>4. CASE pState \in {"disconnected", "error"}
  <2>1. /\ pView' = "disconnected"
        /\ UNCHANGED <<pState, buffer, stale, job, nextJob, idleTimer, queue, history>>
    BY <1>4, PrinterShown DEF Printer!handleData, Printer!jobs
  <2>2. PrinterShows' /\ pState' # "receiving"
    BY <1>1, <1>4, <2>1 DEF PrinterShows
  <2> QED BY <1>2, <1>3, <2>1, <2>2, JobsRest
<1>5. CASE pState \notin {"disconnected", "error"}
  <2>1. /\ Printer!Starts => nextJob <= MaxJobs
        /\ nextJob' = nextJob + (IF Printer!Starts THEN 1 ELSE 0)
        /\ job' = IF Printer!Starts THEN nextJob ELSE job
        /\ pView' = IF Printer!Starts THEN "receiving" ELSE pView
        /\ pState' = "receiving" /\ idleTimer' = TRUE
        /\ buffer' \in {"text", bytes}
        /\ UNCHANGED <<stale, queue, history>>
    BY <1>5, PrinterShown DEF Printer!handleData
  <2>2. JobIds' /\ job' # 0
    <3>1. CASE Printer!Starts
      BY <1>1, <2>1, <3>1, PrinterBounds DEF JobIds
    <3>2. CASE ~Printer!Starts
      <4>1. job # 0
        BY <3>2 DEF Printer!Starts
      <4> QED BY <1>1, <2>1, <3>2, <4>1, PrinterBounds DEF JobIds
    <3> QED BY <3>1, <3>2
  <2>3. PrinterShows'
    BY <1>1, <2>1 DEF PrinterShows
  <2>4. PrinterBuffer' /\ PrinterTapes'
    BY <1>1, <2>1 DEF PrinterBuffer, PrinterTapes
  <2>5. Printer!ReceivingWillEnd'
    BY <2>1, <2>2 DEF Printer!ReceivingWillEnd
  <2> QED BY <1>3, <2>2, <2>3, <2>4, <2>5 DEF PrinterInv
<1> QED BY <1>4, <1>5

LEMMA FinalizePreserves ==
  ASSUME PrinterInv, Printer!finalizeJob
  PROVE  PrinterInv'
<1> DEFINE id == IF job = 0 THEN nextJob ELSE job
           entry == [id |-> id, torn |-> stale]
<1>1. /\ PrinterCable /\ PrinterLine /\ PrinterFlags /\ PrinterShows /\ PrinterBuffer
      /\ PrinterTapes /\ JobIds /\ pFaults \in 0..MaxPrinterFaults
  BY DEF PrinterInv
<1>2. /\ UNCHANGED <<pPlugged, pAnnounced, pReconnect, pStopped, pFaults>>
      /\ UNCHANGED <<pHandle, pPort, pKnown, pTimer>>
      /\ idleTimer' = FALSE /\ buffer' = "empty" /\ stale' = FALSE
  BY DEF Printer!finalizeJob, Printer!env, Printer!line
<1>3. PrinterCable' /\ PrinterFlags' /\ PrinterLine' /\ PrinterBuffer'
      /\ pFaults' \in 0..MaxPrinterFaults
  BY <1>1, <1>2 DEF PrinterCable, PrinterFlags, PrinterLine, PrinterBuffer
<1>4. JobIds'
  <2>1. /\ job' \in {0, job}
        /\ \/ nextJob' = nextJob
           \/ buffer # "empty" /\ job = 0 /\ job' = 0 /\ nextJob' = nextJob + 1
    BY DEF Printer!finalizeJob
  <2> QED BY <1>1, <1>2, <2>1, PrinterBounds DEF JobIds
<1>5. /\ pState' \in {"idle", "queued"} \/ (pState' = pState /\ pState # "receiving")
      /\ pView' \in {pView, "connected"}
  BY PrinterShown DEF Printer!finalizeJob
<1>6. PrinterShows' /\ Printer!ReceivingWillEnd'
  BY <1>1, <1>5 DEF PrinterShows, Printer!ReceivingWillEnd
<1>7. PrinterTapes'
  <2>1. id \in Nat /\ entry \in Entries
    BY <1>1 DEF JobIds, PrinterBuffer, Entries
  <2>2. \/ UNCHANGED <<queue, history>>
        \/ /\ queue' = Printer!Bounded(Append(queue, id))
           /\ history' = Printer!Bounded(Append(history, entry))
    BY DEF Printer!finalizeJob, Printer!OnCompleted
  <2> HIDE DEF id, entry
  <2>3. CASE UNCHANGED <<queue, history>>
    BY <1>1, <2>3 DEF PrinterTapes
  <2>4. CASE /\ queue' = Printer!Bounded(Append(queue, id))
             /\ history' = Printer!Bounded(Append(history, entry))
    BY <1>1, <2>1, <2>4, BoundedLen DEF PrinterTapes
  <2> QED BY <2>2, <2>3, <2>4
<1> QED BY <1>3, <1>4, <1>6, <1>7 DEF PrinterInv

LEMMA PrinterInitHolds == Printer!Init => PrinterInv
<1> SUFFICES ASSUME Printer!Init PROVE PrinterInv
  OBVIOUS
<1>1. PrinterCable /\ PrinterFlags
  BY DEF Printer!Init, PrinterCable, PrinterFlags
<1>2. PrinterLine /\ PrinterShows
  BY DEF Printer!Init, PrinterLine, PrinterShows, Printer!PortStates
<1>3. PrinterBuffer
  BY DEF Printer!Init, PrinterBuffer
<1>4. PrinterTapes /\ JobIds /\ pFaults \in 0..MaxPrinterFaults
  BY PrinterBounds DEF Printer!Init, PrinterTapes, JobIds
<1>5. Printer!ReceivingWillEnd
  BY DEF Printer!Init, Printer!ReceivingWillEnd
<1> QED BY <1>1, <1>2, <1>3, <1>4, <1>5 DEF PrinterInv

LEMMA PrinterStepPreserves == PrinterInv /\ Printer!Next => PrinterInv'
  BY PrinterCablePreserves, PrinterOpens, PrinterAnswers, PrinterLost, PrinterClosed,
     DataPreserves, FinalizePreserves DEF Printer!Next

LEMMA PrinterStutters ==
  ASSUME PrinterInv, UNCHANGED printerVars
  PROVE  PrinterInv'
<1>1. /\ UNCHANGED <<pPlugged, pAnnounced, pReconnect, pStopped, pFaults, pHandle, pPort,
                     pKnown, pTimer, pState, pView>>
      /\ UNCHANGED <<buffer, stale, job, nextJob, idleTimer, queue, history>>
  BY DEF printerVars
<1>2. PrinterCable' /\ PrinterLine' /\ PrinterFlags' /\ PrinterShows'
      /\ pFaults' \in 0..MaxPrinterFaults
  BY <1>1 DEF PrinterInv, PrinterCable, PrinterLine, PrinterFlags, PrinterShows
<1> QED BY <1>1, <1>2, JobsRest

-----------------------------------------------------------------------------
(* The Atlona controller *)

AtlonaFlags ==
  /\ aPlugged \in BOOLEAN /\ aAnnounced \in BOOLEAN /\ aKnown \in BOOLEAN
  /\ identified \in BOOLEAN /\ aTimer \in BOOLEAN /\ reopened \in BOOLEAN
AtlonaBoard ==
  /\ firmware \in [identified : BOOLEAN, held : SUBSET Switches]
  /\ writes \in [AtlonaPorts -> Seq(Atlona!Commands)]
  /\ aFaults \in 0..MaxAtlonaFaults
AtlonaView ==
  /\ switchState \in SUBSET Switches
  /\ aView \in [phase : {"disconnected", "connecting", "ready"}, held : SUBSET Switches]

LockedPort(p) == aHandle[p] \in {"open", "dead"} \cup Atlona!Closing
NoneClosing == \A p \in AtlonaPorts : aHandle[p] \notin {"losing", "failing"}

(* One object has the path at a time, and one that is open is this.port.   *)
AtlonaLine ==
  /\ aHandle \in [AtlonaPorts -> Atlona!PortStates]
  /\ aPort \in AtlonaPorts \cup {None} /\ asking \subseteq AtlonaPorts
  /\ \A p, q \in AtlonaPorts : LockedPort(p) /\ LockedPort(q) => p = q
  /\ \A p \in AtlonaPorts : aHandle[p] \in {"open", "dead"} => aPort = p

(* Without a port and with none that is being closed nothing is held.      *)
HeldInv ==
  NoneClosing => aView.held = switchState /\ (aPort = None => switchState = {})

AtlonaInv == AtlonaFlags /\ AtlonaBoard /\ AtlonaView /\ AtlonaLine /\ HeldInv

LEMMA AtlonaType == AtlonaInv => Atlona!TypeOK /\ Atlona!SwitchesShown
<1> SUFFICES ASSUME AtlonaInv PROVE Atlona!TypeOK /\ Atlona!SwitchesShown
  OBVIOUS
<1>1. {aPlugged, aAnnounced, aKnown, identified, aTimer, reopened} \subseteq BOOLEAN
  BY DEF AtlonaInv, AtlonaFlags
<1>2. Atlona!TypeOK
  BY <1>1 DEF AtlonaInv, AtlonaBoard, AtlonaView, AtlonaLine, Atlona!TypeOK
<1>3. Atlona!SwitchesShown
  BY DEF AtlonaInv, HeldInv, NoneClosing, Atlona!SwitchesShown
<1> QED BY <1>2, <1>3

LEMMA AtlonaBounds == MaxAtlonaFaults \in Nat /\ None \notin AtlonaPorts
  BY DevicesAssumption DEF DevicesAssumption

(* What the adapter makes of an event keeps to the slice.                  *)
LEMMA AtlonaViews ==
  ASSUME AtlonaView
  PROVE  /\ \A b \in BOOLEAN :
              /\ Atlona!OnDevice(aView, b).held = aView.held
              /\ Atlona!OnDevice(aView, b) \in
                   [phase : {"disconnected", "connecting", "ready"}, held : SUBSET Switches]
         /\ Atlona!OnError(aView).held = aView.held
         /\ Atlona!OnError(aView) \in
              [phase : {"disconnected", "connecting", "ready"}, held : SUBSET Switches]
         /\ \A v : /\ Atlona!Shut(v).held = {}
                   /\ Atlona!Shut(v) \in
                        [phase : {"disconnected", "connecting", "ready"}, held : SUBSET Switches]
<1>1. \A b \in BOOLEAN :
        /\ Atlona!OnDevice(aView, b).held = aView.held
        /\ Atlona!OnDevice(aView, b) \in
             [phase : {"disconnected", "connecting", "ready"}, held : SUBSET Switches]
  BY DEF AtlonaView, Atlona!OnDevice
<1>2. /\ Atlona!OnError(aView).held = aView.held
      /\ Atlona!OnError(aView) \in
           [phase : {"disconnected", "connecting", "ready"}, held : SUBSET Switches]
  BY DEF AtlonaView, Atlona!OnError
<1>3. \A v : /\ Atlona!Shut(v).held = {}
            /\ Atlona!Shut(v) \in
                 [phase : {"disconnected", "connecting", "ready"}, held : SUBSET Switches]
  BY DEF Atlona!Shut
<1> QED BY <1>1, <1>2, <1>3

(* One port goes from a state to another: when it takes the lock, no other *)
(* has it.                                                                 *)
LEMMA PortMoves ==
  ASSUME AtlonaLine, NEW p \in AtlonaPorts, NEW s \in Atlona!PortStates,
         aHandle' = [aHandle EXCEPT ![p] = s],
         aPort' \in AtlonaPorts \cup {None}, asking' \subseteq AtlonaPorts,
         \/ s \in {"free", "opening"}
         \/ LockedPort(p)
         \/ \A q \in AtlonaPorts : ~LockedPort(q),
         s \in {"open", "dead"} => aPort' = p,
         \A q \in AtlonaPorts : q # p /\ aHandle[q] \in {"open", "dead"} => aPort' = q
  PROVE  AtlonaLine'
<1>1. /\ aHandle' \in [AtlonaPorts -> Atlona!PortStates] /\ aHandle'[p] = s
      /\ \A q \in AtlonaPorts : q # p => aHandle'[q] = aHandle[q]
  BY DEF AtlonaLine
<1>2. \A q, r \in AtlonaPorts : LockedPort(q)' /\ LockedPort(r)' => q = r
  BY <1>1 DEF AtlonaLine, LockedPort, Atlona!Closing
<1>3. \A q \in AtlonaPorts : aHandle'[q] \in {"open", "dead"} => aPort' = q
  BY <1>1
<1> QED BY <1>1, <1>2, <1>3 DEF AtlonaLine, LockedPort

(* Steps that leave this.port and the switches alone.                      *)
LEMMA SwitchesRest ==
  ASSUME HeldInv, UNCHANGED <<aPort, switchState>>, aView'.held = aView.held,
         NoneClosing' => NoneClosing
  PROVE  HeldInv'
  BY DEF HeldInv

LEMMA AtlonaCablePreserves ==
  ASSUME AtlonaInv,
         Atlona!Plug \/ Atlona!Unplug \/ \E p \in AtlonaPorts : Atlona!Disconnected(p)
  PROVE  AtlonaInv'
<1>1. AtlonaFlags /\ AtlonaBoard /\ AtlonaView /\ AtlonaLine /\ HeldInv
  BY DEF AtlonaInv
<1>2. /\ UNCHANGED <<aAnnounced, aKnown, identified, aTimer, reopened>>
      /\ UNCHANGED <<aPort, asking, writes, switchState, aView>>
      /\ aPlugged' \in {aPlugged, TRUE, FALSE}
      /\ firmware' \in {firmware, Atlona!Fresh}
      /\ aFaults' = aFaults \/ (aFaults < MaxAtlonaFaults /\ aFaults' = aFaults + 1)
  BY DEF Atlona!Plug, Atlona!Unplug, Atlona!Disconnected, Atlona!env, Atlona!line
<1>3. \/ aHandle' = aHandle
      \/ aHandle' = [p \in AtlonaPorts |-> IF aHandle[p] = "open" THEN "dead" ELSE aHandle[p]]
      \/ \E p \in AtlonaPorts : /\ aHandle[p] = "dead"
                               /\ aHandle' = [aHandle EXCEPT ![p] = "gone"]
  BY DEF Atlona!Plug, Atlona!Unplug, Atlona!Disconnected, Atlona!line
<1>4. /\ aHandle' \in [AtlonaPorts -> Atlona!PortStates]
      /\ \A p \in AtlonaPorts :
           \/ aHandle'[p] = aHandle[p]
           \/ aHandle[p] = "open" /\ aHandle'[p] = "dead"
           \/ aHandle[p] = "dead" /\ aHandle'[p] = "gone"
  BY <1>1, <1>3 DEF AtlonaLine, Atlona!PortStates, Atlona!Closing
<1>5. AtlonaLine'
  BY <1>1, <1>2, <1>4 DEF AtlonaLine, LockedPort, Atlona!Closing
<1>6. NoneClosing' => NoneClosing
  BY <1>4 DEF NoneClosing
<1>7. HeldInv'
  BY <1>1, <1>2, <1>6, SwitchesRest
<1>8. AtlonaFlags'
  BY <1>1, <1>2 DEF AtlonaFlags
<1>9. AtlonaBoard'
  <2>1. Atlona!Fresh \in [identified : BOOLEAN, held : SUBSET Switches]
    BY DEF Atlona!Fresh
  <2>2. firmware' \in [identified : BOOLEAN, held : SUBSET Switches]
    BY <1>1, <1>2, <2>1 DEF AtlonaBoard
  <2>3. aFaults' \in 0..MaxAtlonaFaults
    BY <1>1, <1>2, AtlonaBounds DEF AtlonaBoard
  <2> QED BY <1>1, <1>2, <2>2, <2>3 DEF AtlonaBoard
<1>10. AtlonaView'
  BY <1>1, <1>2 DEF AtlonaView
<1> QED BY <1>5, <1>7, <1>8, <1>9, <1>10 DEF AtlonaInv

LEMMA AtlonaOpens ==
  ASSUME AtlonaInv, Atlona!onDeviceIdentified \/ Atlona!ReconnectFires
                    \/ \E p \in AtlonaPorts : Atlona!OpenFails(p)
  PROVE  AtlonaInv'
<1>1. AtlonaFlags /\ AtlonaBoard /\ AtlonaView /\ AtlonaLine /\ HeldInv
  BY DEF AtlonaInv
<1>2. /\ UNCHANGED <<aPlugged, reopened, aPort, asking, firmware, writes, aFaults, switchState>>
      /\ aAnnounced' \in {aAnnounced, TRUE} /\ aKnown' \in {aKnown, TRUE}
      /\ identified' \in {identified, FALSE} /\ aTimer' \in BOOLEAN
      /\ aView' \in {aView, Atlona!OnDevice(aView, FALSE), Atlona!OnError(aView)}
  BY <1>1
  DEF Atlona!onDeviceIdentified, Atlona!DeviceIdentified, Atlona!ReconnectFires,
      Atlona!OpenFails, Atlona!OpenPort, Atlona!env, Atlona!line, AtlonaFlags
<1>3. \/ aHandle' = aHandle
      \/ \E p \in AtlonaPorts, s \in {"opening", "free"} :
            aHandle[p] \in {"opening", "free"} /\ aHandle' = [aHandle EXCEPT ![p] = s]
  BY DEF Atlona!onDeviceIdentified, Atlona!ReconnectFires, Atlona!OpenFails, Atlona!OpenPort
<1>4. AtlonaLine'
  <2>1. CASE aHandle' = aHandle
    BY <1>1, <1>2, <2>1 DEF AtlonaLine, LockedPort
  <2>2. CASE \E p \in AtlonaPorts, s \in {"opening", "free"} :
            aHandle[p] \in {"opening", "free"} /\ aHandle' = [aHandle EXCEPT ![p] = s]
    <3>1. PICK p \in AtlonaPorts, s \in {"opening", "free"} :
            aHandle[p] \in {"opening", "free"} /\ aHandle' = [aHandle EXCEPT ![p] = s]
      BY <2>2
    <3>2. s \in Atlona!PortStates
      BY DEF Atlona!PortStates
    <3>3. \A q \in AtlonaPorts : aHandle[q] \in {"open", "dead"} => aPort' = q
      BY <1>1, <1>2 DEF AtlonaLine
    <3>4. aPort' \in AtlonaPorts \cup {None} /\ asking' \subseteq AtlonaPorts
      BY <1>1, <1>2 DEF AtlonaLine
    <3> QED BY <1>1, <3>1, <3>2, <3>3, <3>4, PortMoves
  <2> QED BY <1>3, <2>1, <2>2
<1>5. NoneClosing' => NoneClosing
  BY <1>1, <1>3 DEF NoneClosing, AtlonaLine
<1>6. aView'.held = aView.held /\ AtlonaView'
  BY <1>1, <1>2, AtlonaViews DEF AtlonaView
<1>7. HeldInv'
  BY <1>1, <1>2, <1>5, <1>6, SwitchesRest
<1>8. AtlonaFlags'
  BY <1>1, <1>2 DEF AtlonaFlags
<1>9. AtlonaBoard'
  BY <1>1, <1>2 DEF AtlonaBoard
<1> QED BY <1>4, <1>6, <1>7, <1>8, <1>9 DEF AtlonaInv

(* What the sketch makes of a command.                                     *)
LEMMA ObeyType ==
  ASSUME NEW f \in [identified : BOOLEAN, held : SUBSET Switches], NEW c,
         c.kind \in {"identify", "identify_complete"} \/ c \in Atlona!Commands
  PROVE  Atlona!Obey(f, c) \in [identified : BOOLEAN, held : SUBSET Switches]
<1>1. CASE c.kind = "identify"
  BY <1>1 DEF Atlona!Obey
<1>2. CASE c.kind = "identify_complete"
  BY <1>2 DEF Atlona!Obey
<1>3. CASE c \in Atlona!Commands
  <2>1. c.kind \in {"hold", "release"} /\ c.switch \in Switches
    BY <1>3 DEF Atlona!Commands
  <2>2. Atlona!Obey(f, c) = IF f.identified THEN [f EXCEPT !.held = Atlona!After(@, c)] ELSE f
    BY <2>1 DEF Atlona!Obey
  <2>3. Atlona!After(f.held, c) \in SUBSET Switches
    BY <2>1 DEF Atlona!After
  <2> QED BY <2>2, <2>3
<1> QED BY <1>1, <1>2, <1>3

LEMMA OpenedPreserves ==
  ASSUME AtlonaInv, NEW p \in AtlonaPorts, Atlona!Opened(p)
  PROVE  AtlonaInv'
<1>1. AtlonaFlags /\ AtlonaBoard /\ AtlonaView /\ AtlonaLine /\ HeldInv
  BY DEF AtlonaInv
<1>2. /\ aHandle[p] = "opening" /\ \A q \in AtlonaPorts : ~LockedPort(q)
      /\ aHandle' = [aHandle EXCEPT ![p] = "open"]
      /\ aPort' = p /\ asking' = asking \cup {p}
      /\ firmware' = Atlona!Obey(firmware, [kind |-> "identify"])
      /\ aView' = Atlona!OnDevice(aView, FALSE)
      /\ UNCHANGED <<aPlugged, aAnnounced, aFaults, aKnown, aTimer, identified, writes,
                     switchState>>
  BY DEF Atlona!Opened, Atlona!Locked, LockedPort, Atlona!env
<1>3. reopened' = (reopened \/ ~aAnnounced)
  BY DEF Atlona!Opened
<1>4. reopened' \in BOOLEAN
  BY <1>3, Zenon
<1>5. AtlonaLine'
  <2>1. "open" \in Atlona!PortStates /\ asking' \subseteq AtlonaPorts
    BY <1>1, <1>2 DEF Atlona!PortStates, AtlonaLine
  <2>2. \A q \in AtlonaPorts : aHandle[q] \notin {"open", "dead"}
    BY <1>2 DEF LockedPort
  <2> QED BY <1>1, <1>2, <2>1, <2>2, PortMoves
<1>6. AtlonaFlags'
  BY <1>1, <1>2, <1>4 DEF AtlonaFlags
<1>7. AtlonaBoard'
  BY <1>1, <1>2, ObeyType DEF AtlonaBoard
<1>8. AtlonaView' /\ aView'.held = aView.held
  BY <1>1, <1>2, AtlonaViews DEF AtlonaView
<1>9. HeldInv'
  <2>1. NoneClosing
    BY <1>2 DEF NoneClosing, LockedPort, Atlona!Closing
  <2>2. aPort' # None
    BY <1>2, AtlonaBounds
  <2> QED BY <1>1, <1>2, <1>8, <2>1, <2>2 DEF HeldInv
<1> QED BY <1>5, <1>6, <1>7, <1>8, <1>9 DEF AtlonaInv

LEMMA AnsweredPreserves ==
  ASSUME AtlonaInv, Atlona!Answered
  PROVE  AtlonaInv'
<1>1. AtlonaFlags /\ AtlonaBoard /\ AtlonaView /\ AtlonaLine /\ HeldInv
  BY DEF AtlonaInv
<1>2. /\ asking' = asking \ {aPort} /\ identified' = TRUE
      /\ firmware' = Atlona!Obey(firmware, [kind |-> "identify_complete"])
      /\ aView' = Atlona!OnDevice(aView, TRUE)
      /\ UNCHANGED <<aPlugged, aAnnounced, aFaults, aHandle, aPort, aKnown, aTimer, reopened,
                     writes, switchState>>
  BY DEF Atlona!Answered, Atlona!env, Atlona!line
<1>3. AtlonaLine' /\ (NoneClosing' => NoneClosing)
  BY <1>1, <1>2 DEF AtlonaLine, LockedPort, NoneClosing
<1>4. AtlonaFlags'
  BY <1>1, <1>2 DEF AtlonaFlags
<1>5. AtlonaBoard'
  BY <1>1, <1>2, ObeyType DEF AtlonaBoard
<1>6. AtlonaView' /\ aView'.held = aView.held
  BY <1>1, <1>2, AtlonaViews DEF AtlonaView
<1>7. HeldInv'
  BY <1>1, <1>2, <1>3, <1>6, SwitchesRest
<1> QED BY <1>3, <1>4, <1>5, <1>6, <1>7 DEF AtlonaInv

LEMMA CommandPreserves ==
  ASSUME AtlonaInv, NEW kind \in {"hold", "release"}, NEW s \in Switches,
         Atlona!Command(kind, s)
  PROVE  AtlonaInv'
<1> DEFINE c == [kind |-> kind, switch |-> s]
<1>1. AtlonaFlags /\ AtlonaBoard /\ AtlonaView /\ AtlonaLine /\ HeldInv
  BY DEF AtlonaInv
<1>2. /\ aPort # None /\ writes' = [writes EXCEPT ![aPort] = Append(@, c)]
      /\ UNCHANGED <<aPlugged, aAnnounced, aFaults, aHandle, aPort, aKnown, aTimer, reopened,
                     identified, asking, firmware, switchState, aView>>
  BY DEF Atlona!Command, Atlona!IsOpen, Atlona!env, Atlona!line
<1>3. AtlonaLine' /\ (NoneClosing' => NoneClosing)
  BY <1>1, <1>2 DEF AtlonaLine, LockedPort, NoneClosing
<1>4. AtlonaFlags' /\ AtlonaView'
  BY <1>1, <1>2 DEF AtlonaFlags, AtlonaView
<1>5. AtlonaBoard'
  <2>1. aPort \in AtlonaPorts /\ c \in Atlona!Commands
    BY <1>1, <1>2 DEF AtlonaLine, Atlona!Commands
  <2>2. Append(writes[aPort], c) \in Seq(Atlona!Commands)
    BY <1>1, <2>1, AppendProperties DEF AtlonaBoard
  <2> QED BY <1>1, <1>2, <2>2 DEF AtlonaBoard
<1>6. HeldInv'
  BY <1>1, <1>2, <1>3, SwitchesRest
<1> QED BY <1>3, <1>4, <1>5, <1>6 DEF AtlonaInv

(* What is written before the next command.                                *)
LEMMA WritesShrink ==
  ASSUME AtlonaBoard, NEW p \in AtlonaPorts, writes[p] # <<>>
  PROVE  /\ [writes EXCEPT ![p] = Tail(@)] \in [AtlonaPorts -> Seq(Atlona!Commands)]
         /\ Head(writes[p]) \in Atlona!Commands
<1>1. writes[p] \in Seq(Atlona!Commands)
  BY DEF AtlonaBoard
<1>2. Tail(writes[p]) \in Seq(Atlona!Commands) /\ Head(writes[p]) \in Atlona!Commands
  BY <1>1, HeadTailProperties
<1> QED BY <1>2 DEF AtlonaBoard

LEMMA WrittenPreserves ==
  ASSUME AtlonaInv, NEW p \in AtlonaPorts, Atlona!Written(p)
  PROVE  AtlonaInv'
<1> DEFINE c == Head(writes[p])
<1>1. AtlonaFlags /\ AtlonaBoard /\ AtlonaView /\ AtlonaLine /\ HeldInv
  BY DEF AtlonaInv
<1>2. /\ writes[p] # <<>> /\ aHandle[p] \in {"open", "losing", "failing"}
      /\ firmware' = Atlona!Obey(firmware, c)
      /\ switchState' = Atlona!After(switchState, c)
      /\ aView' = [phase |-> "ready", held |-> Atlona!After(aView.held, c)]
      /\ writes' = [writes EXCEPT ![p] = Tail(@)]
      /\ UNCHANGED <<aPlugged, aAnnounced, aFaults, aHandle, aPort, aKnown, aTimer, reopened,
                     identified, asking>>
  BY DEF Atlona!Written, Atlona!OnSwitch, Atlona!env, Atlona!line
<1>3. c \in Atlona!Commands /\ writes' \in [AtlonaPorts -> Seq(Atlona!Commands)]
  BY <1>1, <1>2, WritesShrink
<1> HIDE DEF c
<1>4. AtlonaLine' /\ NoneClosing' = NoneClosing
  BY <1>1, <1>2 DEF AtlonaLine, LockedPort, NoneClosing
<1>5. AtlonaFlags'
  BY <1>1, <1>2 DEF AtlonaFlags
<1>6. AtlonaBoard'
  BY <1>1, <1>2, <1>3, ObeyType DEF AtlonaBoard
<1>7. \A h \in SUBSET Switches : Atlona!After(h, c) \in SUBSET Switches
  BY <1>3 DEF Atlona!After, Atlona!Commands
<1>8. aView.held \in SUBSET Switches /\ switchState \in SUBSET Switches
  BY <1>1 DEF AtlonaView
<1>9. AtlonaView'
  BY <1>2, <1>7, <1>8 DEF AtlonaView
<1>10. HeldInv'
  <2> SUFFICES ASSUME NoneClosing
               PROVE  aView'.held = switchState' /\ aPort' # None
    BY <1>4 DEF HeldInv
  <2>1. aHandle[p] = "open"
    BY <1>2 DEF NoneClosing
  <2>2. aPort = p
    BY <1>1, <2>1 DEF AtlonaLine
  <2>3. aView.held = switchState
    BY <1>1 DEF HeldInv
  <2> QED BY <1>2, <2>2, <2>3, AtlonaBounds
<1> QED BY <1>4, <1>5, <1>6, <1>9, <1>10 DEF AtlonaInv

(* closePort: a port that is open is being closed from now on.             *)
LEMMA CloseAsEffect ==
  ASSUME AtlonaInv, NEW how \in {"losing", "failing"}, NEW v, Atlona!CloseAs(how, v),
         v \in {aView, Atlona!Shut(aView), Atlona!OnError(aView)},
         asking' \subseteq AtlonaPorts
  PROVE  /\ AtlonaLine' /\ AtlonaView' /\ HeldInv'
         /\ identified' \in {identified, FALSE}
<1>1. AtlonaView /\ AtlonaLine /\ HeldInv /\ aPort' = None
  BY DEF AtlonaInv, Atlona!CloseAs
<1>2. /\ v \in [phase : {"disconnected", "connecting", "ready"}, held : SUBSET Switches]
      /\ v.held \in {aView.held, {}}
  BY <1>1, AtlonaViews DEF AtlonaView
<1>3. CASE Atlona!IsOpen(aPort)
  <2>1. /\ aPort \in AtlonaPorts /\ aHandle[aPort] \in {"open", "dead"}
        /\ aHandle' = [aHandle EXCEPT ![aPort] = how]
        /\ aView' = v /\ UNCHANGED <<identified, switchState>>
    BY <1>1, <1>3 DEF Atlona!CloseAs, Atlona!IsOpen, AtlonaLine
  <2>2. how \in Atlona!PortStates /\ LockedPort(aPort)
    BY <2>1 DEF Atlona!PortStates, Atlona!Closing, LockedPort
  <2>3. \A q \in AtlonaPorts : q # aPort => aHandle[q] \notin {"open", "dead"}
    BY <1>1 DEF AtlonaLine
  <2>4. AtlonaLine'
    BY <1>1, <2>1, <2>2, <2>3, PortMoves
  <2>5. ~NoneClosing'
    BY <1>1, <2>1 DEF NoneClosing, AtlonaLine
  <2> QED BY <1>1, <1>2, <2>1, <2>4, <2>5 DEF AtlonaView, HeldInv
<1>4. CASE ~Atlona!IsOpen(aPort)
  <2>1. /\ identified' = FALSE /\ switchState' = {} /\ aHandle' = aHandle
        /\ aView' = IF aPort # None THEN Atlona!Shut(v) ELSE v
    BY <1>4 DEF Atlona!CloseAs
  <2>2. \A q \in AtlonaPorts : aHandle[q] \notin {"open", "dead"}
    <3> SUFFICES ASSUME NEW q \in AtlonaPorts, aHandle[q] \in {"open", "dead"}
                 PROVE  FALSE
      OBVIOUS
    <3>1. aPort = q /\ aPort # None
      BY <1>1, AtlonaBounds DEF AtlonaLine
    <3> QED BY <1>4, <3>1 DEF Atlona!IsOpen
  <2>3. AtlonaLine'
    BY <1>1, <2>1, <2>2 DEF AtlonaLine, LockedPort
  <2>4. AtlonaView'
    BY <1>2, <2>1, AtlonaViews, <1>1 DEF AtlonaView
  <2>5. HeldInv'
    <3> SUFFICES ASSUME NoneClosing' PROVE aView'.held = {}
      BY <2>1 DEF HeldInv
    <3>1. NoneClosing
      BY <2>1 DEF NoneClosing
    <3>2. CASE aPort # None
      BY <1>1, <2>1, <3>2, AtlonaViews
    <3>3. CASE aPort = None
      BY <1>1, <1>2, <2>1, <3>1, <3>3 DEF HeldInv
    <3> QED BY <3>2, <3>3
  <2> QED BY <2>1, <2>3, <2>4, <2>5
<1> QED BY <1>3, <1>4

LEMMA AtlonaCloses ==
  ASSUME AtlonaInv, Atlona!onDeviceLost \/ Atlona!WriteFails
                    \/ \E p \in AtlonaPorts : Atlona!NotAnswered(p)
  PROVE  AtlonaInv'
<1>1. AtlonaFlags /\ AtlonaBoard /\ AtlonaView /\ AtlonaLine /\ HeldInv
  BY DEF AtlonaInv
<1>2. /\ UNCHANGED <<aPlugged, aKnown, reopened, firmware>>
      /\ aAnnounced' \in {aAnnounced, FALSE}
      /\ asking' \subseteq AtlonaPorts
      /\ aFaults' = aFaults \/ (aFaults < MaxAtlonaFaults /\ aFaults' = aFaults + 1)
  BY <1>1
  DEF Atlona!onDeviceLost, Atlona!DeviceLost, Atlona!WriteFails, Atlona!NotAnswered, AtlonaLine
<1>3. \E how \in {"losing", "failing"}, v \in {aView, Atlona!Shut(aView), Atlona!OnError(aView)} :
        Atlona!CloseAs(how, v)
  <2>1. CASE Atlona!onDeviceLost
    <3>1. Atlona!CloseAs("losing", aView) \/ Atlona!CloseAs("losing", Atlona!Shut(aView))
      BY <2>1 DEF Atlona!onDeviceLost
    <3> QED BY <3>1
  <2>2. CASE Atlona!WriteFails \/ \E p \in AtlonaPorts : Atlona!NotAnswered(p)
    <3>1. Atlona!CloseAs("failing", Atlona!OnError(aView))
      BY <2>2 DEF Atlona!WriteFails, Atlona!NotAnswered
    <3> QED BY <3>1
  <2> QED BY <2>1, <2>2
<1>4. /\ AtlonaLine' /\ AtlonaView' /\ HeldInv'
      /\ identified' \in {identified, FALSE}
  BY <1>2, <1>3, CloseAsEffect
<1>5. aTimer' \in BOOLEAN
  <2>1. CASE Atlona!onDeviceLost
    BY <2>1 DEF Atlona!onDeviceLost
  <2>2. CASE Atlona!WriteFails
    BY <1>1, <2>2 DEF Atlona!WriteFails, AtlonaFlags
  <2>3. CASE \E p \in AtlonaPorts : Atlona!NotAnswered(p)
    <3>1. aTimer' = (aTimer \/ ~Atlona!IsOpen(aPort))
      BY <2>3 DEF Atlona!NotAnswered
    <3> QED BY <3>1, Zenon
  <2> QED BY <2>1, <2>2, <2>3
<1>6. AtlonaFlags'
  BY <1>1, <1>2, <1>4, <1>5 DEF AtlonaFlags
<1>7. writes' \in [AtlonaPorts -> Seq(Atlona!Commands)]
  <2>1. CASE Atlona!WriteFails
    <3>1. /\ aPort \in AtlonaPorts /\ writes[aPort] # <<>>
          /\ writes' = [writes EXCEPT ![aPort] = Tail(@)]
      BY <1>1, <2>1 DEF Atlona!WriteFails, AtlonaLine
    <3> QED BY <1>1, <3>1, WritesShrink
  <2>2. CASE Atlona!onDeviceLost \/ \E p \in AtlonaPorts : Atlona!NotAnswered(p)
    BY <1>1, <2>2 DEF Atlona!onDeviceLost, Atlona!NotAnswered, AtlonaBoard
  <2> QED BY <2>1, <2>2
<1>8. aFaults' \in 0..MaxAtlonaFaults
  BY <1>1, <1>2, AtlonaBounds DEF AtlonaBoard
<1>9. AtlonaBoard'
  BY <1>1, <1>2, <1>7, <1>8 DEF AtlonaBoard
<1> QED BY <1>4, <1>6, <1>9 DEF AtlonaInv

LEMMA AtlonaClosed ==
  ASSUME AtlonaInv, NEW p \in AtlonaPorts, Atlona!Closed(p)
  PROVE  AtlonaInv'
<1>1. AtlonaFlags /\ AtlonaBoard /\ AtlonaView /\ AtlonaLine /\ HeldInv
  BY DEF AtlonaInv
<1>2. /\ aHandle[p] \in Atlona!Closing /\ aHandle' = [aHandle EXCEPT ![p] = "free"]
      /\ aPort' = None /\ identified' = FALSE /\ switchState' = {}
      /\ aTimer' \in {aTimer, TRUE}
      /\ writes' = [writes EXCEPT ![p] = <<>>]
      /\ UNCHANGED <<aPlugged, aAnnounced, aFaults, aKnown, reopened, asking, firmware>>
  BY DEF Atlona!Closed, Atlona!Retries, Atlona!env
<1>3. aView' = IF aHandle[p] # "gone" \/ aPort # None THEN Atlona!Shut(aView) ELSE aView
  BY DEF Atlona!Closed, Atlona!Ended
<1>4. AtlonaLine'
  <2>1. "free" \in Atlona!PortStates /\ asking' \subseteq AtlonaPorts
    BY <1>1, <1>2 DEF Atlona!PortStates, AtlonaLine
  <2>2. \A q \in AtlonaPorts : q # p => aHandle[q] \notin {"open", "dead"}
    BY <1>1, <1>2 DEF AtlonaLine, LockedPort
  <2> QED BY <1>1, <1>2, <2>1, <2>2, PortMoves
<1>5. AtlonaFlags'
  BY <1>1, <1>2 DEF AtlonaFlags
<1>6. AtlonaBoard'
  BY <1>1, <1>2 DEF AtlonaBoard
<1>7. AtlonaView'
  BY <1>1, <1>2, <1>3, AtlonaViews DEF AtlonaView
<1>8. HeldInv'
  <2> SUFFICES ASSUME NoneClosing' PROVE aView'.held = {}
    BY <1>2 DEF HeldInv
  <2>1. CASE aHandle[p] # "gone" \/ aPort # None
    BY <1>1, <1>3, <2>1, AtlonaViews
  <2>2. CASE aHandle[p] = "gone" /\ aPort = None
    <3>1. NoneClosing
      BY <1>1, <1>2, <2>2 DEF NoneClosing, AtlonaLine
    <3> QED BY <1>1, <1>3, <2>2, <3>1 DEF HeldInv
  <2> QED BY <2>1, <2>2
<1> QED BY <1>4, <1>5, <1>6, <1>7, <1>8 DEF AtlonaInv

LEMMA AtlonaInitHolds == Atlona!Init => AtlonaInv
<1> SUFFICES ASSUME Atlona!Init PROVE AtlonaInv
  OBVIOUS
<1>1. AtlonaFlags
  BY DEF Atlona!Init, AtlonaFlags
<1>2. AtlonaBoard
  <2>1. firmware \in [identified : BOOLEAN, held : SUBSET Switches]
    BY DEF Atlona!Init, Atlona!Fresh
  <2>2. writes \in [AtlonaPorts -> Seq(Atlona!Commands)]
    BY DEF Atlona!Init
  <2>3. aFaults \in 0..MaxAtlonaFaults
    BY AtlonaBounds DEF Atlona!Init
  <2> QED BY <2>1, <2>2, <2>3 DEF AtlonaBoard
<1>3. AtlonaView /\ HeldInv
  BY DEF Atlona!Init, AtlonaView, HeldInv
<1>4. AtlonaLine
  BY DEF Atlona!Init, AtlonaLine, LockedPort, Atlona!PortStates, Atlona!Closing
<1> QED BY <1>1, <1>2, <1>3, <1>4 DEF AtlonaInv

LEMMA AtlonaStepPreserves == AtlonaInv /\ Atlona!Next => AtlonaInv'
  BY AtlonaCablePreserves, AtlonaOpens, OpenedPreserves, AnsweredPreserves,
     CommandPreserves, WrittenPreserves, AtlonaCloses, AtlonaClosed DEF Atlona!Next

LEMMA AtlonaStutters ==
  ASSUME AtlonaInv, UNCHANGED atlonaVars
  PROVE  AtlonaInv'
<1>1. /\ UNCHANGED <<aPlugged, aAnnounced, aFaults, aHandle, aPort, aKnown, aTimer, reopened>>
      /\ UNCHANGED <<identified, asking, writes, firmware, switchState, aView>>
  BY DEF atlonaVars
<1>2. AtlonaFlags' /\ AtlonaBoard'
  BY <1>1 DEF AtlonaInv, AtlonaFlags, AtlonaBoard
<1>3. AtlonaView' /\ AtlonaLine' /\ HeldInv'
  BY <1>1 DEF AtlonaInv, AtlonaView, AtlonaLine, LockedPort, HeldInv, NoneClosing
<1> QED BY <1>2, <1>3 DEF AtlonaInv

-----------------------------------------------------------------------------
(* The three together *)

DevicesInv == MeterInv /\ PrinterInv /\ AtlonaInv

LEMMA DevicesInvariance == MCSpec => []DevicesInv
<1>1. MCInit => DevicesInv
  BY MeterInitHolds, PrinterInitHolds, AtlonaInitHolds DEF MCInit, DevicesInv
<1>2. DevicesInv /\ [MCNext]_<<part, vars, printerVars, atlonaVars>> => DevicesInv'
  <2> SUFFICES ASSUME DevicesInv, [MCNext]_<<part, vars, printerVars, atlonaVars>>
               PROVE  DevicesInv'
    OBVIOUS
  <2>1. MeterInv'
    <3>1. MeterInv /\ (Next \/ UNCHANGED vars)
      BY DEF DevicesInv, MCNext
    <3> QED BY <3>1, MeterStepPreserves, MeterStutters
  <2>2. PrinterInv'
    <3>1. PrinterInv /\ (Printer!Next \/ UNCHANGED printerVars)
      BY DEF DevicesInv, MCNext
    <3> QED BY <3>1, PrinterStepPreserves, PrinterStutters
  <2>3. AtlonaInv'
    <3>1. AtlonaInv /\ (Atlona!Next \/ UNCHANGED atlonaVars)
      BY DEF DevicesInv, MCNext
    <3> QED BY <3>1, AtlonaStepPreserves, AtlonaStutters
  <2> QED BY <2>1, <2>2, <2>3 DEF DevicesInv
<1> QED BY <1>1, <1>2, PTL DEF MCSpec

(* No timer is forgotten or left over: a meter never has a reconnect       *)
(* pending beside a process that runs, and a print job that is being       *)
(* received has the silence timer that ends it                             *)
(* (SerialPowerMeterService.ts, SerialPrinterService.ts).                  *)
THEOREM NoTimerIsStray == MCSpec => []TimersAccounted
<1>1. DevicesInv => TimersAccounted
  <2> SUFFICES ASSUME DevicesInv PROVE TimersAccounted
    OBVIOUS
  <2>1. TypeOK /\ NoStrayTimer
    BY DEF DevicesInv, MeterInv, MeterTimers, NoStrayTimer
  <2>2. Printer!TypeOK /\ Printer!ReceivingWillEnd
    BY PrinterType DEF DevicesInv, PrinterInv
  <2>3. Atlona!TypeOK
    BY AtlonaType DEF DevicesInv
  <2> QED BY <2>1, <2>2, <2>3 DEF TimersAccounted
<1> QED BY <1>1, DevicesInvariance, PTL

(* What the operator is told is so: no stream is shown that no process     *)
(* feeds, a recording with a silence over 10 seconds in it is judged poor, *)
(* and the switches shown as held are those the service believes held      *)
(* (powerMeter.adapter.ts, SerialPowerMeterService.ts,                     *)
(* atlonaController.adapter.ts).                                           *)
THEOREM WhatIsShownIsSo == MCSpec => []OperatorIsToldTrue
<1>1. DevicesInv => OperatorIsToldTrue
  <2> SUFFICES ASSUME DevicesInv PROVE OperatorIsToldTrue
    OBVIOUS
  <2>1. MeterNeverOverclaims
    BY DEF DevicesInv, MeterInv, Streaming, MeterNeverOverclaims
  <2>2. GapsAreJudged
    BY DEF DevicesInv, MeterInv, WorstIsKept, GapsAreJudged, Verdicts
  <2>3. Atlona!SwitchesShown
    BY AtlonaType DEF DevicesInv
  <2> QED BY <2>1, <2>2, <2>3 DEF OperatorIsToldTrue
<1> QED BY <1>1, DevicesInvariance, PTL
=============================================================================
