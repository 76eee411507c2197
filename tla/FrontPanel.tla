----------------------------- MODULE FrontPanel -----------------------------
(***************************************************************************)
(* FrontPanelService (devices/front-panel/FrontPanelService.ts): the       *)
(* serial connection to the panel that presses the host's buttons and      *)
(* reports its power, and the queue of operations.  Unlike the keyboard's, *)
(* this queue forgets what it cancels: cancelAll gives up activeOp while   *)
(* its execution goes on, and one flag cancels whoever writes next.        *)
(*                                                                         *)
(* A step is the code that runs from one await, event or timer to the next *)
(* one.                                                                    *)
(***************************************************************************)
EXTENDS FrontPanelAdapter, Sequences

CONSTANTS Kinds,              \* kinds of operation clients ask for
          MaxDepth,           \* cfg.queue.maxDepth
          Retries,            \* cfg.identify.retries
          ReconnectEnabled,   \* cfg.reconnect.enabled
          MaxAttempts,        \* cfg.reconnect.maxAttempts, 0 for no limit
          MaxFaults,          \* bound: failures of the serial line
          MaxClosers,         \* bound: port.close() calls in flight at once
          MaxShown            \* bound: the depth shown when one more is enqueued

(* The lines each kind of operation writes, one after the other.           *)
Script ==
  [powerHold    |-> <<"POWER_HOLD">>,
   powerRelease |-> <<"POWER_RELEASE">>,
   powerPress   |-> <<"POWER_HOLD", "POWER_RELEASE">>,
   resetHold    |-> <<"RESET_HOLD">>,
   resetRelease |-> <<"RESET_RELEASE">>,
   resetPress   |-> <<"RESET_HOLD", "RESET_RELEASE">>]

ASSUME KindsAssumption == Kinds \subseteq DOMAIN Script /\ Kinds # {}
ASSUME ConfigAssumption ==
  /\ MaxDepth \in Nat \ {0} /\ Retries \in Nat \ {0}
  /\ ReconnectEnabled \in BOOLEAN /\ MaxAttempts \in Nat
  /\ MaxFaults \in Nat /\ MaxClosers \in Nat /\ MaxShown \in Nat \ {0}

NoKind == CHOOSE k \in Kinds : TRUE     \* of operations not in use

VARIABLES
  known,      \* deviceId and devicePath are set
  port,       \* this.port: "none", "open", or "dead" (no longer isOpen, its
              \* 'close' event not yet delivered)
  identified,
  sense,      \* powerSense
  held,       \* powerButtonHeld
  emitted,    \* emittedPowerSenseSinceConnect
  opener,     \* where the asynchronous function behind openInFlight is
  attempt,    \* the identify attempt it is in
  timer,      \* reconnectTimer is set
  attempts,   \* reconnectAttempts; stays 0 when there is no limit
  ioClosers,  \* handlers of port errors waiting in closePort
  lostClosers,\* onDeviceLost calls waiting in closePort
  stop,       \* where stop() is; this.stopping unless "no"
  queue, active, cancelled,
  kind,       \* the kind of each operation
  pc,         \* where its execution is
  line,       \* lines of its script written, while it runs
  view,       \* the adapter's slice
  faults      \* line failures so far (bounded by MaxFaults)

telemetry == <<sense, held, emitted>>
link == <<known, port, identified, opener, attempt>>
retry == <<timer, attempts>>
closers == <<ioClosers, lostClosers>>
ops == <<queue, active, cancelled, kind, pc, line>>
vars == <<telemetry, link, retry, closers, stop, ops, view, faults>>

Openers == {"idle", "preClose", "opening", "stopClose", "writeRequest",
            "awaitToken", "writeCompletion", "failing", "failClose"}

(*   free      no such operation, or forgotten by cancelAll                *)
(*   queued    in the queue                                                *)
(*   checked   ensureConnected() passed, its continuation is pending       *)
(*   writing   a write's callback is pending                               *)
(*   holding   a press sleeps between its two writes                       *)
(*   failing   an Error was thrown, the catch block is pending             *)
(*   pause     settled; asleep for interCommandDelayMs                     *)
Running == {"checked", "writing", "holding", "failing"}
PCs == {"free", "queued", "pause"} \cup Running

Init ==
  /\ known = FALSE /\ port = "none" /\ identified = FALSE
  /\ sense = "unknown" /\ held = FALSE /\ emitted = FALSE
  /\ opener = "idle" /\ attempt = 1
  /\ timer = FALSE /\ attempts = 0
  /\ ioClosers = 0 /\ lostClosers = 0 /\ stop = "no"
  /\ queue = <<>> /\ active = NoOp /\ cancelled = FALSE
  /\ kind = [o \in Ops |-> NoKind]
  /\ pc = [o \in Ops |-> "free"] /\ line = [o \in Ops |-> 0]
  /\ view = InitialView
  /\ faults = 0

Stopping == stop # "no"
Ready == port = "open" /\ identified      \* what ensureConnected asks for
Exhausted == MaxAttempts > 0 /\ attempts >= MaxAttempts

(* A port is being closed, and until it is its data still arrives.         *)
Closing ==
  \/ opener \in {"preClose", "failClose"} \/ stop = "closing"
  \/ ioClosers + lostClosers > 0

Fault == faults < MaxFaults /\ faults' = faults + 1
FaultIfOpen == IF port = "open" THEN Fault ELSE UNCHANGED faults

(* serialport calls back every write before it reports the port closed.    *)
WritesOver ==
  port # "open" =>
    (\A o \in Ops : pc[o] # "writing") /\ opener \notin {"writeRequest", "writeCompletion"}

-----------------------------------------------------------------------------
(* The serial connection *)

(* closePort up to its await: telemetry fails closed.                      *)
ClosePort ==
  /\ port' = "none" /\ identified' = FALSE
  /\ sense' = "unknown" /\ held' = FALSE
  /\ emitted' = (sense # "unknown")

(* What setPowerSense and setPowerButtonHeld publish in closePort.         *)
FailClosed(v) == OnHeld(OnSense(v, "unknown"), FALSE)

(* scheduleReconnect, with v the slice its caller leaves.                  *)
ScheduleReconnect(v) ==
  LET wanted == ~Stopping /\ ReconnectEnabled /\ known
  IN  /\ timer' = IF wanted THEN ~Exhausted ELSE timer
      /\ attempts' = IF wanted /\ ~Exhausted /\ MaxAttempts > 0
                     THEN attempts + 1 ELSE attempts
      /\ view' = IF wanted /\ Exhausted THEN OnPhase(v, "error") ELSE v

(* openPort's new connection, up to the await on port.open().              *)
BeginOpening ==
  /\ opener' = "opening"
  /\ identified' = FALSE /\ emitted' = FALSE
  /\ UNCHANGED <<port, sense, held>>

(* openPort, with the panel known and not stopping; v as above.            *)
OpenPort(v) ==
  IF opener # "idle"
  THEN view' = v /\ UNCHANGED <<telemetry, port, identified, opener, timer>>
  ELSE /\ timer' = FALSE
       /\ IF port = "open"
          THEN ClosePort /\ opener' = "preClose" /\ view' = FailClosed(v)
          ELSE BeginOpening /\ view' = v

PreCloseDone ==
  /\ opener = "preClose" /\ WritesOver
  /\ BeginOpening
  /\ view' = OnDisconnected(view, "unknown")
  /\ UNCHANGED <<known, attempt, retry, closers, stop, ops, faults>>

(* serialport locks a port: it does not open again while it is closed.     *)
Locked == ioClosers + lostClosers > 0

OpenFails ==
  /\ opener = "opening"
  /\ IF Locked THEN UNCHANGED faults ELSE Fault
  /\ opener' = "idle"
  /\ ScheduleReconnect(view)
  /\ UNCHANGED <<known, port, identified, attempt, telemetry, closers, stop, ops>>

(* writeLine up to its await.                                              *)
CanWrite(openNow) == openNow /\ ~cancelled

OpenSucceeds ==
  /\ opener = "opening" /\ ~Locked
  /\ IF Stopping
     THEN opener' = "stopClose" /\ UNCHANGED <<port, attempt, attempts, view>>
     ELSE /\ port' = "open" /\ attempts' = 0 /\ attempt' = 1
          /\ view' = OnPhase(view, "identifying")
          /\ opener' = IF CanWrite(TRUE) THEN "writeRequest" ELSE "failing"
  /\ UNCHANGED <<known, identified, telemetry, timer, closers, stop, ops, faults>>

StopCloseDone ==
  /\ opener = "stopClose"
  /\ opener' = "idle"
  /\ UNCHANGED <<known, port, identified, attempt, telemetry, retry, closers, stop, ops, view, faults>>

RequestWritten ==
  /\ opener = "writeRequest"
  /\ opener' = IF port = "none" THEN "failing" ELSE "awaitToken"
  /\ UNCHANGED <<known, port, identified, attempt, telemetry, retry, closers, stop, ops, view, faults>>

(* The request cannot be written or no token comes in time: one more       *)
(* request, if retries and the port allow it.                              *)
AttemptFails ==
  /\ opener \in {"writeRequest", "awaitToken"}
  /\ FaultIfOpen
  /\ IF attempt < Retries /\ CanWrite(port = "open")
     THEN attempt' = attempt + 1 /\ opener' = "writeRequest"
     ELSE opener' = "failing" /\ UNCHANGED attempt
  /\ UNCHANGED <<known, port, identified, telemetry, retry, closers, stop, ops, view>>

TokenRead ==
  /\ opener = "awaitToken"
  /\ port = "open" \/ Closing
  /\ opener' = IF CanWrite(port = "open") THEN "writeCompletion" ELSE "failing"
  /\ UNCHANGED <<known, port, identified, attempt, telemetry, retry, closers, stop, ops, view, faults>>

CompletionFails ==
  /\ opener = "writeCompletion"
  /\ FaultIfOpen
  /\ opener' = "failing"
  /\ UNCHANGED <<known, port, identified, attempt, telemetry, retry, closers, stop, ops, view>>

(* The completion is written: ready, even if closePort ran meanwhile.  The *)
(* power sense is published unless this connection has published one.      *)
Identified ==
  /\ opener = "writeCompletion"
  /\ opener' = "idle" /\ identified' = TRUE /\ emitted' = TRUE
  /\ view' = LET v == OnPhase(view, "ready")
             IN  IF emitted THEN v ELSE OnSense(v, sense)
  /\ UNCHANGED <<known, port, attempt, sense, held, retry, closers, stop, ops, faults>>

(* identify() throws; openPort closes the port and schedules a reconnect.  *)
IdentifyFails ==
  /\ opener = "failing"
  /\ ClosePort
  /\ LET failed == FailClosed(OnPhase(view, "error"))
     IN  IF port = "open"
         THEN opener' = "failClose" /\ view' = failed /\ UNCHANGED retry
         ELSE /\ opener' = "idle"
              /\ ScheduleReconnect(IF known \/ port # "none"
                                   THEN OnDisconnected(failed, "unknown") ELSE failed)
  /\ UNCHANGED <<known, attempt, closers, stop, ops, faults>>

FailCloseDone ==
  /\ opener = "failClose" /\ WritesOver
  /\ opener' = "idle"
  /\ ScheduleReconnect(OnDisconnected(view, "unknown"))
  /\ UNCHANGED <<known, port, identified, attempt, telemetry, closers, stop, ops, faults>>

(* handlePortError on an open port.                                        *)
PortError ==
  /\ port = "open" /\ ioClosers + lostClosers < MaxClosers
  /\ Fault
  /\ ClosePort
  /\ view' = FailClosed(view)
  /\ ioClosers' = ioClosers + 1
  /\ UNCHANGED <<known, opener, attempt, retry, lostClosers, stop, ops>>

(* Mutant: handlePortError schedules no reconnect.                         *)
IoCloseForgets ==
  /\ ioClosers > 0 /\ WritesOver
  /\ ioClosers' = ioClosers - 1
  /\ view' = OnDisconnected(view, "io-error")
  /\ UNCHANGED <<link, telemetry, retry, lostClosers, stop, ops, faults>>

IoCloseDone ==
  /\ ioClosers > 0 /\ WritesOver
  /\ ioClosers' = ioClosers - 1
  /\ ScheduleReconnect(OnDisconnected(view, "io-error"))
  /\ UNCHANGED <<link, telemetry, lostClosers, stop, ops, faults>>

(* The panel is unplugged; then the 'close' event runs handlePortClose.    *)
Unplug ==
  /\ port = "open"
  /\ Fault
  /\ port' = "dead"
  /\ UNCHANGED <<known, identified, opener, attempt, telemetry, retry, closers, stop, ops, view>>

PortCloseEvent ==
  /\ port = "dead" /\ WritesOver
  /\ ClosePort
  /\ ScheduleReconnect(OnDisconnected(view, "io-error"))
  /\ UNCHANGED <<known, opener, attempt, closers, stop, ops, faults>>

TimerFires ==
  /\ timer
  /\ IF Stopping \/ ~known \/ opener # "idle"
     THEN timer' = FALSE /\ UNCHANGED <<telemetry, port, identified, opener, view>>
     ELSE OpenPort(view)
  /\ UNCHANGED <<known, attempt, attempts, closers, stop, ops, faults>>

(* Mutant: the field is set without publishing the change.                 *)
TelemetryUntold(p) ==
  /\ port = "open" \/ Closing
  /\ p # sense
  /\ sense' = p /\ emitted' = TRUE
  /\ UNCHANGED <<held, view, link, retry, closers, stop, ops, faults>>

(* handleData: a line of telemetry, of whatever connection it is.          *)
Telemetry(p) ==
  /\ port = "open" \/ Closing
  /\ p # sense
  /\ sense' = p /\ emitted' = TRUE
  /\ view' = OnSense(view, p)
  /\ UNCHANGED <<held, link, retry, closers, stop, ops, faults>>

-----------------------------------------------------------------------------
(* Discovery *)

onDeviceIdentified ==
  /\ stop # "done" /\ WritesOver
  /\ known' = TRUE
  /\ LET v == OnPhase(view, "connecting")
     IN  IF Stopping \/ Ready
         THEN view' = v /\ UNCHANGED <<telemetry, port, identified, opener, timer>>
         ELSE OpenPort(v)
  /\ UNCHANGED <<attempt, attempts, closers, stop, ops, faults>>

onDeviceLost ==
  /\ known /\ stop # "done"
  /\ timer' = FALSE
  /\ ClosePort
  /\ IF port = "open"
     THEN /\ ioClosers + lostClosers < MaxClosers
          /\ lostClosers' = lostClosers + 1
          /\ view' = FailClosed(view)
          /\ UNCHANGED known
     ELSE /\ known' = FALSE
          /\ view' = OnDisconnected(view, "device-lost")
          /\ UNCHANGED lostClosers
  /\ UNCHANGED <<opener, attempt, attempts, ioClosers, stop, ops, faults>>

LostCloseDone ==
  /\ lostClosers > 0 /\ WritesOver
  /\ lostClosers' = lostClosers - 1
  /\ known' = FALSE
  /\ view' = OnDisconnected(view, "device-lost")
  /\ UNCHANGED <<port, identified, opener, attempt, telemetry, retry, ioClosers, stop, ops, faults>>

-----------------------------------------------------------------------------
(* Operations *)

(* processQueue up to its first await, with the queue w, the active        *)
(* operation a, the places of the operations and the slice given.          *)
ProcessQueue(w, a, places, v) ==
  IF a # NoOp \/ w = <<>>
  THEN queue' = w /\ active' = a /\ pc' = places /\ view' = v
  ELSE /\ queue' = Tail(w)
       /\ active' = Head(w)
       /\ pc' = [places EXCEPT ![Head(w)] = IF Ready THEN "checked" ELSE "failing"]
       /\ view' = OnStarted(v, Head(w))

(* enqueueOperation with room in the queue; without, nothing changes.      *)
enqueueOperation(o, k) ==
  /\ stop # "done" /\ pc[o] = "free"
  /\ Len(queue) < MaxDepth /\ view.depth < MaxShown
  /\ kind' = [kind EXCEPT ![o] = k]
  /\ ProcessQueue(Append(queue, o), active, [pc EXCEPT ![o] = "queued"], OnQueued(view))
  /\ UNCHANGED <<cancelled, line, link, telemetry, retry, closers, stop, faults>>

ForgetQueued ==
  /\ pc' = [o \in Ops |-> IF pc[o] = "queued" THEN "free" ELSE pc[o]]
  /\ kind' = [o \in Ops |-> IF pc[o] = "queued" THEN NoKind ELSE kind[o]]

(* cancelAll: the queue is dropped, its promises are never settled.        *)
CancelAll ==
  /\ cancelled' = TRUE
  /\ queue' = <<>> /\ active' = NoOp
  /\ ForgetQueued
  /\ view' = IF active = NoOp THEN view ELSE OnCancelled(view)
  /\ UNCHANGED line

cancelAll ==
  /\ stop # "done"
  /\ CancelAll
  /\ UNCHANGED <<link, telemetry, retry, closers, stop, faults>>

(* execute() goes on to its next line.                                     *)
Write(o) ==
  /\ pc[o] \in {"checked", "holding"}
  /\ pc' = [pc EXCEPT ![o] = IF CanWrite(port = "open") THEN "writing" ELSE "failing"]
  /\ UNCHANGED <<queue, active, cancelled, kind, line, view, link, telemetry, retry, closers, stop, faults>>

Line(o) == Script[kind[o]][line[o] + 1]

(* What setPowerButtonHeld makes of held when line l has been written.     *)
Pressed(l) ==
  CASE l = "POWER_HOLD" -> TRUE [] l = "POWER_RELEASE" -> FALSE [] OTHER -> held

(* The catch and finally blocks of processQueue for o, v the slice after   *)
(* the event: activeOp and cancelled are reset whosever they are.          *)
Settle(o, v) ==
  /\ pc' = [pc EXCEPT ![o] = "pause"] /\ line' = [line EXCEPT ![o] = 0]
  /\ kind' = [kind EXCEPT ![o] = NoKind]
  /\ active' = NoOp /\ cancelled' = FALSE
  /\ view' = v

(* The callback of a write that succeeded; after the last one, completed.  *)
Written(o) ==
  /\ pc[o] = "writing"
  /\ held' = Pressed(Line(o))
  /\ LET v == IF held' # held THEN OnHeld(view, held') ELSE view
     IN  IF line[o] + 1 < Len(Script[kind[o]])
         THEN /\ pc' = [pc EXCEPT ![o] = "holding"] /\ line' = [line EXCEPT ![o] = 1]
              /\ view' = v
              /\ UNCHANGED <<active, cancelled, kind>>
         ELSE Settle(o, OnCompleted(v))
  /\ UNCHANGED <<queue, link, sense, emitted, retry, closers, stop, faults>>

WriteFails(o) ==
  /\ pc[o] = "writing"
  /\ FaultIfOpen
  /\ pc' = [pc EXCEPT ![o] = "failing"]
  /\ UNCHANGED <<queue, active, cancelled, kind, line, view, link, telemetry, retry, closers, stop>>

Failed(o) ==
  /\ pc[o] = "failing"
  /\ Settle(o, OnFailed(view))
  /\ UNCHANGED <<queue, link, telemetry, retry, closers, stop, faults>>

(* Mutant: the sleeping runner does not call processQueue again.           *)
WakeUpForgets(o) ==
  /\ pc[o] = "pause"
  /\ pc' = [pc EXCEPT ![o] = "free"]
  /\ UNCHANGED <<queue, active, cancelled, kind, line, view, link, telemetry, retry, closers, stop, faults>>

WakeUp(o) ==
  /\ pc[o] = "pause"
  /\ ProcessQueue(queue, active, [pc EXCEPT ![o] = "free"], view)
  /\ UNCHANGED <<cancelled, kind, line, link, telemetry, retry, closers, stop, faults>>

-----------------------------------------------------------------------------
(* stop() *)

StopBegin ==
  /\ stop = "no"
  /\ stop' = "waiting"
  /\ timer' = FALSE
  /\ CancelAll
  /\ UNCHANGED <<link, telemetry, attempts, closers, faults>>

StopClose ==
  /\ stop = "waiting" /\ opener = "idle"
  /\ stop' = IF port = "open" THEN "closing" ELSE "closed"
  /\ ClosePort
  /\ view' = IF port = "dead" \/ (port = "none" /\ known)
             THEN OnDisconnected(view, "explicit-close") ELSE FailClosed(view)
  /\ UNCHANGED <<known, opener, attempt, retry, closers, ops, faults>>

StopClosed ==
  /\ stop = "closing" /\ WritesOver
  /\ stop' = "closed"
  /\ view' = OnDisconnected(view, "explicit-close")
  /\ UNCHANGED <<link, telemetry, retry, closers, ops, faults>>

StopFinish ==
  /\ stop = "closed"
  /\ stop' = "done"
  /\ queue' = <<>> /\ active' = NoOp
  /\ ForgetQueued
  /\ identified' = FALSE /\ known' = FALSE
  /\ sense' = "unknown" /\ held' = FALSE /\ emitted' = FALSE
  /\ UNCHANGED <<port, opener, attempt, retry, closers, cancelled, line, view, faults>>

-----------------------------------------------------------------------------
Connection ==
  \/ PreCloseDone \/ OpenFails \/ OpenSucceeds \/ StopCloseDone
  \/ RequestWritten \/ AttemptFails \/ TokenRead \/ CompletionFails
  \/ Identified \/ IdentifyFails \/ FailCloseDone
  \/ PortError \/ IoCloseDone \/ Unplug \/ PortCloseEvent \/ TimerFires
  \/ \E p \in {"on", "off"} : Telemetry(p)

Discovery == onDeviceIdentified \/ onDeviceLost \/ LostCloseDone

Requests == cancelAll \/ \E o \in Ops, k \in Kinds : enqueueOperation(o, k)

Runner(o) == Write(o) \/ Written(o) \/ WriteFails(o) \/ Failed(o) \/ WakeUp(o)

Stop == StopBegin \/ StopClose \/ StopClosed \/ StopFinish

Halted == stop = "done" /\ UNCHANGED vars

Next ==
  \/ Connection \/ Discovery \/ Requests \/ Stop \/ Halted
  \/ \E o \in Ops : Runner(o)

Spec == Init /\ [][Next]_vars

-----------------------------------------------------------------------------
(* Properties *)

(* Every variable keeps to the values the code gives it.                   *)
TypeOK ==
  /\ known \in BOOLEAN /\ port \in {"none", "open", "dead"} /\ identified \in BOOLEAN
  /\ sense \in Powers /\ held \in BOOLEAN /\ emitted \in BOOLEAN
  /\ opener \in Openers /\ attempt \in 1..Retries
  /\ timer \in BOOLEAN /\ attempts \in 0..MaxAttempts
  /\ ioClosers \in 0..MaxClosers /\ lostClosers \in 0..MaxClosers
  /\ stop \in {"no", "waiting", "closing", "closed", "done"}
  /\ queue \in Seq(Ops) /\ Len(queue) <= MaxDepth
  /\ active \in Ops \cup {NoOp} /\ cancelled \in BOOLEAN
  /\ kind \in [Ops -> Kinds] /\ pc \in [Ops -> PCs] /\ line \in [Ops -> {0, 1}]
  /\ view \in Views /\ faults \in 0..MaxFaults

(* Work never waits for nobody: when operations are queued, activeOp is    *)
(* one that runs, or a runner will call processQueue, although cancelAll   *)
(* and the runners it left behind reset activeOp under each other.         *)
WorkGetsPickedUp ==
  queue # <<>> =>
    IF active = NoOp THEN \E o \in Ops : pc[o] \in {"pause"} \cup Running
    ELSE pc[active] \in Running

(* Nothing of the connection is under way.                                 *)
Settled == opener = "idle" /\ ~Closing /\ port # "dead" /\ ~Stopping

(* A panel that discovery reports is never given up silently: with no port *)
(* and nothing under way a reconnect is scheduled, unless reconnects are   *)
(* disabled or used up.                                                    *)
NeverStranded ==
  Settled /\ port = "none" /\ known /\ ReconnectEnabled => timer \/ Exhausted

(* Neither queued work nor a panel that is plugged in is forgotten.        *)
NothingForgotten == WorkGetsPickedUp /\ NeverStranded

(* Whatever arrives late from a port that is going away, once it is gone   *)
(* the browser, the keyboard and the mouse are told a host power or a held *)
(* button only if the service still stands by it.                          *)
NeverOverclaims ==
  Settled => view.sense \in {"unknown", sense} /\ (view.held => held)

(* The operation the browser shows as the current one is still executing,  *)
(* although the service's activeOp may be another one, or none.            *)
ShownOperationRuns == view.current # NoOp => pc[view.current] \in Running

(* What the browser, the keyboard and the mouse are told of the panel is   *)
(* so, through losses, cancellations and late data.                        *)
ViewIsTrue == NeverOverclaims /\ ShownOperationRuns

(* Fail-closed telemetry (closePort): without a port nothing is claimed of *)
(* the host.                                                               *)
TelemetryFailsClosed == port = "none" => sense = "unknown" /\ ~held
=============================================================================
