---------------------------- MODULE SerialPrinter ----------------------------
(***************************************************************************)
(* The serial printer: SerialPrinterService, which owns the port and cuts  *)
(* what it receives into jobs by silence, and the adapter that shows it in *)
(* the serialPrinter slice (devices/serial-printer/*.ts,                   *)
(* adapters/serialPrinter.adapter.ts, plugins/serialPrinter.ts), under the *)
(* calls of plugins/serial.ts.                                             *)
(*                                                                         *)
(* One step is the code of one event or timer.  A port is a SerialPort     *)
(* object; one path is locked by the object that has it open.              *)
(***************************************************************************)
EXTENDS Naturals, Sequences

CONSTANTS Ports,      \* SerialPort objects
          None,       \* no port
          MaxQueued,  \* config.maxQueuedJobs, and the slice's historyLimit
          MaxJobs,    \* bound: job ids
          MaxFaults   \* bound: cables pulled and errors of an open port

(* A port: not in use, open() called, open, open with its cable pulled,    *)
(* closing because of that, or closing because the service asked to: in    *)
(* onDeviceLost, stop or handlePortError.                                  *)
Closing == {"gone", "losing", "stopping", "failing"}
PortStates == {"free", "opening", "open", "dead"} \cup Closing

VARIABLES
  plugged,        \* the cable
  announced,      \* discovery has reported the device
  reconnect,      \* config.reconnect.enabled
  handle,         \* every SerialPort object
  port, state, known,       \* this.port, this.state, deviceId and devicePath
  buffer,         \* this.buffer: "empty", "noise" or "text"
  stale,          \* it holds bytes of a connection that has ended
  job, nextJob,   \* currentJobId (0: null), nextJobId
  idleTimer, reconnectTimer,
  queue,          \* this.queue: ids
  history,        \* the slice's history: jobs, and whether bytes of two
                  \* connections are in one
  view,           \* the slice's phase
  stopped, faults

env == <<plugged, announced, reconnect, stopped, faults>>
line == <<handle, port, known, reconnectTimer>>
jobs == <<buffer, stale, job, nextJob, idleTimer, queue, history>>
vars == <<env, line, jobs, state, view>>

Init ==
  /\ plugged \in BOOLEAN /\ announced = FALSE /\ reconnect \in BOOLEAN
  /\ handle = [p \in Ports |-> "free"] /\ port = None
  /\ state = "disconnected" /\ known = FALSE
  /\ buffer = "empty" /\ stale = FALSE /\ job = 0 /\ nextJob = 1
  /\ idleTimer = FALSE /\ reconnectTimer = FALSE
  /\ queue = <<>> /\ history = <<>> /\ view = "disconnected"
  /\ stopped = FALSE /\ faults = 0

IsOpen(p) == p # None /\ handle[p] \in {"open", "dead"}
Free == {p \in Ports : handle[p] = "free"}

(* The path can be opened by one object at a time.                         *)
Locked == \E p \in Ports : handle[p] \in {"open", "dead"} \cup Closing

-----------------------------------------------------------------------------
(* The adapter *)

(* The phase an event brings, whatever it was before.                      *)
Shown(event) ==
  CASE event = "job-started" -> "receiving"
    [] event \in {"device-connected", "job-completed", "job-dismissed"} -> "connected"
    [] event = "device-disconnected" -> "disconnected"

(* recoverable-error, fatal-error                                          *)
OnError(fatal) == IF fatal THEN "error" ELSE "disconnected"

Bounded(s) == IF Len(s) > MaxQueued THEN Tail(s) ELSE s

(* job-completed: the tape.                                                *)
OnCompleted(tape, entry) == Bounded(Append(tape, entry))

-----------------------------------------------------------------------------
(* The cable, and discovery (plugins/serial.ts) *)

Plug ==
  /\ ~plugged /\ plugged' = TRUE
  /\ UNCHANGED <<announced, reconnect, stopped, faults, line, jobs, state, view>>

Unplug ==
  /\ plugged /\ faults < MaxFaults
  /\ plugged' = FALSE /\ faults' = faults + 1
  /\ handle' = [p \in Ports |-> IF handle[p] = "open" THEN "dead" ELSE handle[p]]
  /\ UNCHANGED <<announced, reconnect, stopped, port, known, reconnectTimer, jobs,
                 state, view>>

(* The read of a pulled port fails: serialport closes it.                  *)
Disconnected(p) ==
  /\ handle[p] = "dead"
  /\ handle' = [handle EXCEPT ![p] = "gone"]
  /\ UNCHANGED <<env, port, known, reconnectTimer, jobs, state, view>>

(* device:identified and device:lost.  A scan comes seconds after the one  *)
(* that found the device lost: its port has been closed by then.           *)
DeviceIdentified ==
  /\ plugged /\ ~announced /\ ~stopped
  /\ \A p \in Ports : handle[p] # "losing"
  /\ announced' = TRUE

DeviceLost ==
  /\ announced /\ ~plugged /\ ~stopped
  /\ announced' = FALSE

-----------------------------------------------------------------------------
(* Opening *)

(* handlePortOpenError, and the end of handlePortClose and handlePortError *)
Retry(otherwise) ==
  /\ reconnectTimer' = (reconnect \/ reconnectTimer)
  /\ state' = IF reconnect THEN otherwise ELSE "error"
  /\ view' = OnError(~reconnect)

(* openPort, to port.open().  With no path it ends in a recoverable error. *)
OpenPort ==
  \/ /\ known'
     /\ \E p \in Free : handle' = [handle EXCEPT ![p] = "opening"]
     /\ UNCHANGED <<state, view>>
  \/ /\ ~known'
     /\ state' = "disconnected" /\ view' = OnError(FALSE)
     /\ UNCHANGED handle

onDeviceIdentified ==
  /\ DeviceIdentified
  /\ known' = TRUE
  /\ IF IsOpen(port) /\ state \notin {"disconnected", "error"}
     THEN UNCHANGED <<handle, state, view>>
     ELSE OpenPort
  /\ UNCHANGED <<plugged, reconnect, stopped, faults, port, reconnectTimer, jobs>>

(* onOpen *)
Opened(p) ==
  /\ handle[p] = "opening" /\ plugged /\ ~Locked
  /\ handle' = [handle EXCEPT ![p] = "open"]
  /\ port' = p /\ state' = "idle" /\ view' = Shown("device-connected")
  /\ UNCHANGED <<env, known, reconnectTimer, jobs>>

(* onError: handlePortOpenError                                            *)
OpenFails(p) ==
  /\ handle[p] = "opening" /\ (~plugged \/ Locked)
  /\ handle' = [handle EXCEPT ![p] = "free"]
  /\ Retry(state)
  /\ UNCHANGED <<env, port, known, jobs>>

(* tryReconnect *)
ReconnectFires ==
  /\ reconnectTimer
  /\ reconnectTimer' = FALSE /\ known' = known
  /\ IF state = "error" THEN UNCHANGED <<handle, state, view>> ELSE OpenPort
  /\ UNCHANGED <<env, port, jobs>>

-----------------------------------------------------------------------------
(* Closing *)

(* closePort by a caller that waits for it; with no open port it is done   *)
(* at once, and so is what the caller does next.                           *)
CloseAs(how) ==
  IF IsOpen(port)
  THEN /\ handle' = [handle EXCEPT ![port] = how]
       /\ UNCHANGED <<state, known, job>>
  ELSE /\ state' = "disconnected" /\ known' = FALSE /\ job' = 0
       /\ UNCHANGED handle

onDeviceLost ==
  /\ DeviceLost
  /\ IF known
     THEN port' = None /\ reconnectTimer' = FALSE /\ CloseAs("losing")
     ELSE UNCHANGED <<line, state, job>>
  /\ UNCHANGED <<plugged, reconnect, stopped, faults, buffer, stale, nextJob, idleTimer,
                 queue, history, view>>

(* stop: the idle timer goes too.                                          *)
stop ==
  /\ ~stopped /\ stopped' = TRUE
  /\ port' = None /\ reconnectTimer' = FALSE /\ idleTimer' = FALSE
  /\ CloseAs("stopping")
  /\ UNCHANGED <<plugged, announced, reconnect, faults, buffer, stale, nextJob, queue,
                 history, view>>

(* 'error' of an open port: the listener that openPort left there, and     *)
(* handlePortError to its closePort.                                       *)
PortError ==
  /\ port # None /\ handle[port] = "open" /\ faults < MaxFaults
  /\ faults' = faults + 1
  /\ handle' = [handle EXCEPT ![port] = "failing"]
  /\ port' = None
  /\ Retry(state)
  /\ UNCHANGED <<plugged, announced, reconnect, stopped, known, jobs>>

(* 'close': handlePortClose, which takes a close the service asked for for *)
(* an unexpected one because state still says connected; then the callback *)
(* of port.close() and what its caller does next.                          *)
Unexpected == state \notin {"disconnected", "error"}

Closed(p) ==
  LET how == handle[p]
      asked == how \in {"losing", "stopping"}
      retries == Unexpected \/ how = "failing"
  IN  /\ how \in Closing
      /\ handle' = [handle EXCEPT ![p] = "free"]
      /\ port' = IF Unexpected THEN None ELSE port
      /\ known' = IF asked THEN FALSE ELSE known
      /\ reconnectTimer' = (reconnectTimer \/ (retries /\ reconnect))
      /\ state' = IF asked \/ (retries /\ reconnect) THEN "disconnected"
                  ELSE IF retries THEN "error" ELSE state
      /\ view' = IF asked THEN Shown("device-disconnected")
                 ELSE IF retries THEN OnError(~reconnect) ELSE view
      /\ buffer' = IF retries THEN "empty" ELSE buffer
      /\ stale' = (~retries /\ buffer # "empty")
      /\ job' = IF retries \/ how # "gone" THEN 0 ELSE job
      /\ UNCHANGED <<env, nextJob, idleTimer, queue, history>>

-----------------------------------------------------------------------------
(* Jobs *)

(* Bytes start a job: the printer prints again while jobs are queued.      *)
Starts == state \in {"idle", "queued"} \/ job = 0

(* handleData                                                              *)
handleData(bytes) ==
  /\ port # None /\ handle[port] = "open"
  /\ IF state \in {"disconnected", "error"}
     THEN /\ view' = OnError(FALSE)
          /\ UNCHANGED <<state, jobs>>
     ELSE /\ Starts => nextJob <= MaxJobs
          /\ nextJob' = nextJob + (IF Starts THEN 1 ELSE 0)
          /\ job' = IF Starts THEN nextJob ELSE job
          /\ view' = IF Starts THEN Shown("job-started") ELSE view
          /\ state' = "receiving"
          /\ buffer' = IF buffer = "text" THEN "text" ELSE bytes
          /\ idleTimer' = TRUE
          /\ UNCHANGED <<stale, queue, history>>
  /\ UNCHANGED <<env, line>>

(* finalizeJob, when the silence timer fires.  A job whose port is lost    *)
(* before it has ended has no id any more: it gets the next one.           *)
finalizeJob ==
  LET id == IF job = 0 THEN nextJob ELSE job
  IN  /\ idleTimer /\ idleTimer' = FALSE
      /\ buffer' = "empty" /\ stale' = FALSE
      /\ \/ /\ buffer = "empty"
            /\ state' = IF state = "receiving" THEN "idle" ELSE state
            /\ job' = IF state = "receiving" THEN 0 ELSE job
            /\ UNCHANGED <<nextJob, queue, history, view>>
         \/ /\ buffer # "empty"
            /\ nextJob' = IF job = 0 THEN nextJob + 1 ELSE nextJob
            /\ job' = 0
            /\ \/ /\ buffer = "noise" /\ state' = "idle"
                  /\ view' = Shown("job-dismissed")
                  /\ UNCHANGED <<queue, history>>
               \/ /\ buffer = "text" /\ state' = "queued"
                  /\ view' = Shown("job-completed")
                  /\ queue' = Bounded(Append(queue, id))
                  /\ history' = OnCompleted(history, [id |-> id, torn |-> stale])
      /\ UNCHANGED <<env, line>>

-----------------------------------------------------------------------------
Next ==
  \/ Plug \/ Unplug \/ onDeviceIdentified \/ onDeviceLost \/ stop
  \/ ReconnectFires \/ PortError \/ finalizeJob
  \/ \E p \in Ports : Disconnected(p) \/ Opened(p) \/ OpenFails(p) \/ Closed(p)
  \/ \E bytes \in {"noise", "text"} : handleData(bytes)

(* Fairness: discovery keeps scanning, node runs its timers and delivers   *)
(* the events of its ports.                                                *)
Fairness ==
  /\ WF_vars(onDeviceIdentified) /\ WF_vars(onDeviceLost)
  /\ WF_vars(ReconnectFires) /\ WF_vars(finalizeJob)
  /\ \A p \in Ports : WF_vars(Disconnected(p) \/ Opened(p) \/ OpenFails(p) \/ Closed(p))

Spec == Init /\ [][Next]_vars /\ Fairness

-----------------------------------------------------------------------------
(* Properties *)

(* Every variable keeps to the values the code gives it.                   *)
TypeOK ==
  /\ {plugged, announced, reconnect, known, stale, idleTimer, reconnectTimer, stopped}
       \subseteq BOOLEAN
  /\ handle \in [Ports -> PortStates] /\ port \in Ports \cup {None}
  /\ state \in {"disconnected", "idle", "receiving", "queued", "error"}
  /\ view \in {"disconnected", "connected", "receiving", "error"}
  /\ buffer \in {"empty", "noise", "text"}
  /\ job < nextJob /\ nextJob \in 1..(MaxJobs + 2)
  /\ Len(queue) <= MaxQueued /\ Len(history) <= MaxQueued
  /\ faults \in 0..MaxFaults

(* A job that is being received will end: its silence timer runs, also     *)
(* when the port was lost and came back in the middle of it.               *)
ReceivingWillEnd == state = "receiving" /\ ~stopped => idleTimer /\ job # 0

(* "Attempts periodic reconnection to the same device path"                *)
(* (docs/serial_printer_design.md 2.1): a printer that stays plugged in is *)
(* held open again, however it was lost.                                   *)
PrinterReturns ==
  reconnect /\ <>[](plugged /\ ~stopped) => <>[](port # None /\ handle[port] = "open")

(* "Partial job is discarded" (docs/serial_printer_design.md 2.2).         *)
PartialDiscarded == \A i \in 1..Len(history) : ~history[i].torn
=============================================================================
