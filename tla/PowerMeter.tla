----------------------------- MODULE PowerMeter -----------------------------
(***************************************************************************)
(* The serial power meter: SerialPowerMeterService, which keeps a wattsup  *)
(* process running on the meter's path, its reconnects and gap monitor,    *)
(* the recorders that judge what they were given, and the adapter that     *)
(* shows the powerMeter slice (devices/serial-powermeter/*.ts,             *)
(* adapters/powerMeter.adapter.ts, plugins/powerMeter.ts).                 *)
(*                                                                         *)
(* One step is the code of one event or timer: the awaits of this service  *)
(* wait for nothing.  Silence is counted in the classes the code tells     *)
(* apart: under 3 seconds, 3 to 6, 6 to 10, over 10.                       *)
(***************************************************************************)
EXTENDS Naturals, FiniteSets

CONSTANTS Children,     \* wattsup processes
          Recorders,    \* recorder ids
          None,         \* no process, no recorder
          MaxAttempts,  \* config.reconnect.maxAttempts; 0 for no limit
          MaxFaults     \* bound: cables pulled and processes that end or
                        \* cannot be started

ASSUME MeterAssumption ==
  /\ MaxAttempts \in Nat /\ MaxFaults \in Nat
  /\ None \notin Children /\ IsFiniteSet(Children)

Silences == 0..3
MaxSilence(a, b) == IF a > b THEN a ELSE b

(* RecorderQualityStats: whether it has a good sample, the time since, the *)
(* largest gap; worst is the largest there was between two of its samples. *)
Qualities == [sampled : BOOLEAN, quiet : Silences, gap : Silences, worst : Silences]
NewQuality == [sampled |-> FALSE, quiet |-> 0, gap |-> 0, worst |-> 0]

VARIABLES
  plugged, announced,
  reconnect, soft,   \* config.reconnect.enabled; the gap monitor restarts
  process,           \* wattsup: "none", "live", "exited" ('exit' to come),
                     \* "killed" (no listener for its exit is left)
  child, phase, known,          \* this.child, state.phase, devicePath
  attempts, reconnectTimer, gapTimer,
  age,               \* time since stats.lastSampleAt; None: no sample yet
  warned,            \* gapWarningEmitted
  quality,           \* recorders and recorderQuality
  view,              \* the slice's phase
  stopped, faults

env == <<plugged, announced, reconnect, soft, stopped, faults>>
timers == <<attempts, reconnectTimer, gapTimer>>
samples == <<age, warned, quality>>
vars == <<env, process, child, phase, known, timers, samples, view>>

Init ==
  /\ plugged \in BOOLEAN /\ announced = FALSE
  /\ reconnect \in BOOLEAN /\ soft \in BOOLEAN
  /\ process = [c \in Children |-> "none"] /\ child = None
  /\ phase = "disconnected" /\ known = FALSE
  /\ attempts = 0 /\ reconnectTimer = FALSE /\ gapTimer = FALSE
  /\ age = None /\ warned = FALSE /\ quality = [r \in Recorders |-> None]
  /\ view = "disconnected" /\ stopped = FALSE /\ faults = 0

-----------------------------------------------------------------------------
(* The adapter: the phase an event brings, whatever it was before. *)
Shown(event) ==
  CASE event \in {"meter-device-identified", "meter-device-connected",
                  "recoverable-error"} -> "connecting"
    [] event \in {"meter-streaming-started", "meter-sample"} -> "streaming"
    [] event \in {"meter-device-disconnected", "meter-device-lost"} -> "disconnected"
    [] event = "fatal-error" -> "error"

-----------------------------------------------------------------------------
(* The cable, discovery (plugins/serial.ts) and the processes *)

Plug ==
  /\ ~plugged /\ plugged' = TRUE
  /\ UNCHANGED <<announced, reconnect, soft, stopped, faults, process, child, phase, known,
                 timers, samples, view>>

Unplug ==
  /\ plugged /\ faults < MaxFaults
  /\ plugged' = FALSE /\ faults' = faults + 1
  /\ UNCHANGED <<announced, reconnect, soft, stopped, process, child, phase, known, timers,
                 samples, view>>

(* wattsup ends: without its device it does, with it it may.               *)
Exits(c) ==
  /\ process[c] = "live"
  /\ plugged => faults < MaxFaults
  /\ faults' = IF plugged THEN faults + 1 ELSE faults
  /\ process' = [process EXCEPT ![c] = "exited"]
  /\ UNCHANGED <<plugged, announced, reconnect, soft, stopped, child, phase, known, timers,
                 samples, view>>

Dies(c) ==
  /\ process[c] = "killed"
  /\ process' = [process EXCEPT ![c] = "none"]
  /\ UNCHANGED <<env, child, phase, known, timers, samples, view>>

(* device:identified, device:lost                                          *)
DeviceIdentified ==
  /\ plugged /\ ~announced /\ ~stopped
  /\ announced' = TRUE

DeviceLost ==
  /\ announced /\ ~plugged /\ ~stopped
  /\ announced' = FALSE

-----------------------------------------------------------------------------
(* Starting and stopping *)

(* stopChild: SIGTERM, and its exit is not listened for any more.          *)
Stopped ==
  [c \in Children |-> IF c = child THEN (IF process[c] = "live" THEN "killed" ELSE "none")
                      ELSE process[c]]

Spent == MaxAttempts > 0 /\ attempts >= MaxAttempts

(* Mutant: an attempt that failed is the last.                             *)
RetryOnce ==
  /\ attempts' = attempts + 1
  /\ reconnectTimer' = (reconnect /\ attempts = 0)
  /\ phase' = "disconnected"

(* scheduleReconnect, or the end of all attempts                           *)
Retry ==
  LET gives == ~reconnect \/ Spent
  IN  /\ attempts' = IF gives THEN attempts ELSE attempts + 1
      /\ reconnectTimer' = (reconnect /\ ~Spent)
      /\ phase' = IF gives THEN "error" ELSE "disconnected"

(* The events of a failure: recoverable, disconnected, fatal.              *)
ShownAfterFailure ==
  IF phase' = "error" THEN Shown("fatal-error")
  ELSE Shown(IF child # None THEN "meter-device-disconnected" ELSE "recoverable-error")

(* handleChildError, and handleChildExit: the process goes, then retry.    *)
Fails(procs) ==
  /\ process' = procs /\ child' = None
  /\ Retry
  /\ view' = ShownAfterFailure

(* startChild, of a path: wattsup starts, or spawn fails and its 'error'   *)
(* follows at once.  It leaves a reconnect that is pending alone.          *)
StartChild(pending) ==
  \/ \E c \in {d \in Children : Stopped[d] = "none"} :
       /\ process' = [Stopped EXCEPT ![c] = "live"] /\ child' = c
       /\ phase' = "streaming" /\ view' = Shown("meter-streaming-started")
       /\ warned' = FALSE /\ gapTimer' = TRUE
       /\ reconnectTimer' = pending
       /\ UNCHANGED <<attempts, age, quality, faults>>
  \/ /\ faults < MaxFaults /\ faults' = faults + 1
     /\ process' = Stopped /\ child' = None
     /\ warned' = FALSE /\ gapTimer' = TRUE
     /\ Retry
     /\ view' = Shown(IF phase' = "error" THEN "fatal-error"
                      ELSE "meter-device-disconnected")
     /\ UNCHANGED <<age, quality>>

onDeviceIdentified ==
  /\ DeviceIdentified
  /\ known' = TRUE
  /\ IF child # None /\ phase = "streaming"
     THEN /\ view' = Shown("meter-device-identified")
          /\ UNCHANGED <<process, child, phase, timers, samples, faults>>
     ELSE StartChild(reconnectTimer)
  /\ UNCHANGED <<plugged, reconnect, soft, stopped>>

(* Mutant: a pending reconnect is kept.                                    *)
ClearedKept == reconnectTimer

(* clearReconnectTimer                                                     *)
Cleared == FALSE

Off ==
  /\ reconnectTimer' = Cleared /\ gapTimer' = FALSE
  /\ process' = Stopped /\ child' = None /\ phase' = "disconnected"

(* onDeviceLost: the path stays.                                           *)
onDeviceLost ==
  /\ DeviceLost
  /\ Off /\ view' = Shown("meter-device-lost")
  /\ UNCHANGED <<plugged, reconnect, soft, stopped, faults, known, attempts, samples>>

stop ==
  /\ ~stopped /\ stopped' = TRUE
  /\ Off /\ known' = FALSE
  /\ quality' = [r \in Recorders |-> None]
  /\ view' = IF child # None THEN Shown("meter-device-disconnected") ELSE view
  /\ UNCHANGED <<plugged, announced, reconnect, soft, faults, attempts, age, warned>>

(* handleChildExit                                                         *)
handleChildExit(c) ==
  /\ process[c] = "exited" /\ c = child
  /\ IF phase \in {"disconnected", "error"}
     THEN /\ process' = [process EXCEPT ![c] = "none"]
          /\ UNCHANGED <<child, phase, timers, view>>
     ELSE Fails(Stopped) /\ UNCHANGED gapTimer
  /\ UNCHANGED <<env, known, samples>>

(* tryReconnect                                                            *)
ReconnectFires ==
  /\ reconnectTimer
  /\ IF phase = "error" \/ ~known
     THEN /\ reconnectTimer' = FALSE
          /\ UNCHANGED <<process, child, phase, attempts, gapTimer, samples, view, faults>>
     ELSE StartChild(FALSE)
  /\ UNCHANGED <<plugged, announced, reconnect, soft, stopped, known>>

-----------------------------------------------------------------------------
(* Samples and silence *)

(* Time passes without a sample.                                           *)
Silence ==
  /\ \/ age # None /\ age < 3
     \/ \E r \in Recorders : quality[r] # None /\ quality[r].quiet < 3
  /\ age' = IF age = None \/ age = 3 THEN age ELSE age + 1
  /\ quality' = [r \in Recorders |->
                   IF quality[r] = None \/ quality[r].quiet = 3 THEN quality[r]
                   ELSE [quality[r] EXCEPT !.quiet = @ + 1]]
  /\ UNCHANGED <<env, process, child, phase, known, timers, warned, view>>

(* What a good sample does to a recorder.                                  *)
Sampled(q) ==
  [q EXCEPT !.sampled = TRUE, !.quiet = 0,
            !.gap = IF q.sampled THEN MaxSilence(@, q.quiet) ELSE @,
            !.worst = IF q.sampled THEN MaxSilence(@, q.quiet) ELSE @]

(* handleStdoutData: a row of a process, running or killed.                *)
Row(c, good) ==
  /\ process[c] \in {"live", "exited", "killed"}
  /\ IF phase \in {"disconnected", "error"}
     THEN view' = Shown("recoverable-error") /\ UNCHANGED samples
     ELSE \/ /\ good /\ age' = 0 /\ warned' = FALSE /\ view' = Shown("meter-sample")
             /\ quality' = [r \in Recorders |-> IF quality[r] = None THEN None
                                                ELSE Sampled(quality[r])]
          \/ /\ ~good /\ view' = Shown("recoverable-error")
             /\ UNCHANGED samples
  /\ UNCHANGED <<env, process, child, phase, known, timers>>

(* The gap monitor's tick (with SERIAL_PM_DEBUG_FRAMES): one warning       *)
(* between 3 and 6 seconds, and from 6 on a restart at every tick, for     *)
(* lastSampleAt only changes with a sample.                                *)
GapTick ==
  /\ gapTimer /\ age # None
  /\ \/ /\ age = 1 /\ ~warned /\ warned' = TRUE
        /\ view' = Shown("recoverable-error")
        /\ UNCHANGED <<process, child, phase, attempts, reconnectTimer>>
     \/ /\ age >= 2 /\ soft
        /\ Fails(Stopped)
        /\ UNCHANGED warned
  /\ UNCHANGED <<env, known, gapTimer, age, quality>>

-----------------------------------------------------------------------------
(* Recordings *)

beginRecording(r) ==
  /\ quality[r] = None
  /\ quality' = [quality EXCEPT ![r] = NewQuality]
  /\ UNCHANGED <<env, process, child, phase, known, timers, age, warned, view>>

(* endRecording and cancelRecording                                        *)
endRecording(r) ==
  /\ quality[r] # None
  /\ quality' = [quality EXCEPT ![r] = None]
  /\ UNCHANGED <<env, process, child, phase, known, timers, age, warned, view>>

(* The verdicts endRecording may come to, whatever the ratios of good      *)
(* samples and bad frames are.                                             *)
Verdicts(q) ==
  IF q.gap = 3 THEN {"poor"}
  ELSE IF q.gap >= 1 THEN {"degraded", "poor"}
  ELSE {"good", "degraded", "poor"}

-----------------------------------------------------------------------------
Next ==
  \/ Plug \/ Unplug \/ onDeviceIdentified \/ onDeviceLost \/ stop
  \/ ReconnectFires \/ Silence \/ GapTick
  \/ \E c \in Children : Exits(c) \/ Dies(c) \/ handleChildExit(c)
  \/ \E c \in Children, good \in BOOLEAN : Row(c, good)
  \/ \E r \in Recorders : beginRecording(r) \/ endRecording(r)

(* Fairness: discovery keeps scanning, node delivers the ends of processes *)
(* and runs its timers, and wattsup ends without its meter.                *)
Fairness ==
  /\ WF_vars(onDeviceIdentified) /\ WF_vars(onDeviceLost) /\ WF_vars(ReconnectFires)
  /\ \A c \in Children :
       /\ WF_vars(~plugged /\ Exits(c)) /\ WF_vars(handleChildExit(c))
       /\ WF_vars(Dies(c))

Spec == Init /\ [][Next]_vars /\ Fairness

-----------------------------------------------------------------------------
(* Properties *)

(* Every variable keeps to the values the code gives it.                   *)
TypeOK ==
  /\ {plugged, announced, reconnect, soft, known, reconnectTimer, gapTimer, warned, stopped}
       \subseteq BOOLEAN
  /\ process \in [Children -> {"none", "live", "exited", "killed"}]
  /\ child \in Children \cup {None}
  /\ phase \in {"disconnected", "streaming", "error"}
  /\ view \in {"disconnected", "connecting", "streaming", "error"}
  /\ attempts \in Nat /\ (MaxAttempts > 0 => attempts <= MaxAttempts)
  /\ age \in Silences \cup {None}
  /\ quality \in [Recorders -> Qualities \cup {None}]
  /\ faults \in 0..MaxFaults

(* The pane never shows a stream that no process feeds, and a process that *)
(* runs is watched: every end of the process is shown.                     *)
MeterNeverOverclaims ==
  /\ view = "streaming" => phase = "streaming" /\ child # None /\ gapTimer
  /\ phase = "streaming" => child # None

(* A meter never has a reconnect pending beside a process that runs: the   *)
(* timer would kill a good process.                                        *)
NoStrayTimer == reconnectTimer => child = None

(* A recording with a silence over 10 seconds between two of its samples   *)
(* is judged poor, also when the process was restarted in the middle.      *)
GapsAreJudged ==
  \A r \in Recorders : quality[r] # None /\ quality[r].worst = 3 =>
                         Verdicts(quality[r]) = {"poor"}

(* A meter that stays plugged in ends up streaming, or with its attempts   *)
(* spent.                                                                  *)
MeterSettles ==
  reconnect /\ <>[](plugged /\ ~stopped) => <>[](phase = "streaming") \/ <>[](phase = "error")

(* "Reconnection automatically resumes streaming"                          *)
(* (docs/power_meter_service_design.md 6).                                 *)
MeterResumes == reconnect /\ <>[](plugged /\ ~stopped) => <>[](phase = "streaming")
=============================================================================
