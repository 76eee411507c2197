---------------------------- MODULE PS2Keyboard ----------------------------
(***************************************************************************)
(* PS2KeyboardService with its state adapter and the plugin that feeds it  *)
(* the host power (devices/ps2-keyboard/PS2KeyboardService.ts): the serial *)
(* connection with its reconnects, the operation queue, the mirroring of   *)
(* the host power onto the keyboard's power pin, and stop().               *)
(*                                                                         *)
(* The program is single threaded.  A step is the code that runs from one  *)
(* await, event or timer to the next; a continuation that only waits for   *)
(* already resolved promises is part of the step that resolves them,       *)
(* except where another caller can see the state in between.               *)
(***************************************************************************)
EXTENDS PS2KeyboardQueue

CONSTANTS Devices,               \* ids discovery may give to keyboards
          NoDevice,              \* deviceId and devicePath are null
          ReconnectEnabled,      \* cfg.reconnect.enabled
          MaxAttempts,           \* cfg.reconnect.maxAttempts, 0 for no limit
          MaxFaults,             \* bound: failures of the serial line
          MaxClosers             \* bound: port.close() calls in flight at once

ASSUME NoDeviceAssumption == NoDevice \notin Devices
ASSUME ConfigAssumption ==
  /\ ReconnectEnabled \in BOOLEAN
  /\ MaxAttempts \in Nat
  /\ MaxFaults \in Nat
  /\ MaxClosers \in Nat

Powers == {"unknown", "on", "off"}

VARIABLES
  q,           \* the operation queue, see PS2KeyboardQueue
  device,      \* deviceId / devicePath
  port,        \* this.port: "none", "open", or "dead" (no longer isOpen, its
               \* 'close' event not yet delivered)
  phase, identified, power,
  host,        \* hostPower, and the plugin's lastHostPower
  opener,      \* where the asynchronous function behind openInFlight is
  attempt,     \* the identify attempt it is in
  token,       \* pendingLines holds the expected token
  timer,       \* reconnectTimer is set
  attempts,    \* reconnectAttempts; stays 0 when there is no limit
  ioClosers,   \* handlers of port errors waiting in closePort
  lostClosers, \* onDeviceLost calls waiting in closePort
  stop,        \* where stop() is; this.stopping unless "no"
  faults       \* line failures so far (bounded by MaxFaults)

link == <<port, phase, identified, power, opener, attempt, token>>
retry == <<timer, attempts>>
closers == <<ioClosers, lostClosers>>
vars == <<q, device, link, host, retry, closers, stop, faults>>

Openers == {"idle", "preClose", "opening", "stopClose", "writeRequest",
            "awaitToken", "writeCompletion", "failing", "failClose"}

Init ==
  /\ q = InitialQueue
  /\ device = NoDevice
  /\ port = "none" /\ phase = "disconnected" /\ identified = FALSE
  /\ power = "unknown" /\ host = "unknown"
  /\ opener = "idle" /\ attempt = 1 /\ token = FALSE
  /\ timer = FALSE /\ attempts = 0
  /\ ioClosers = 0 /\ lostClosers = 0
  /\ stop = "no" /\ faults = 0

Stopping == stop # "no"
Ready == port = "open" /\ identified      \* what ensureReady asks for

Fault == faults < MaxFaults /\ faults' = faults + 1
(* A failure that needs no fault of the line once the port is gone.        *)
FaultIfOpen == IF port = "open" THEN Fault ELSE UNCHANGED faults

(* serialport calls back every write before it reports the port closed.    *)
Writing == {o \in Ops : q.pc[o] = "writing"}
WritesOver ==
  port # "open" => Writing = {} /\ opener \notin {"writeRequest", "writeCompletion"}

-----------------------------------------------------------------------------
(* The serial connection *)

(* closePort up to its await.  Failing the line waiters throws identify    *)
(* out of its wait, and no later attempt of it can write; opener' is left  *)
(* to the caller.                                                          *)
ClosePort ==
  /\ port' = "none"
  /\ phase' = "disconnected"
  /\ identified' = FALSE
  /\ power' = "unknown"
  /\ token' = FALSE /\ attempt' = 1

FailWaiters == opener' = IF opener = "awaitToken" THEN "failing" ELSE opener

(* No reconnect is tried any more, until a connection opens.               *)
Exhausted == MaxAttempts > 0 /\ attempts >= MaxAttempts

(* scheduleReconnect, with s the queue its caller leaves.                  *)
ScheduleReconnect(s) ==
  LET wanted == ~Stopping /\ ReconnectEnabled /\ device # NoDevice
  IN  /\ timer' = IF wanted THEN ~Exhausted ELSE timer
      /\ attempts' = IF wanted /\ ~Exhausted /\ MaxAttempts > 0
                     THEN attempts + 1 ELSE attempts
      /\ q' = IF wanted /\ Exhausted THEN Publish(s, OnFatal(s.view)) ELSE s

(* openPort's new connection, up to the await on port.open().              *)
BeginOpening ==
  /\ opener' = "opening"
  /\ phase' = "connecting" /\ identified' = FALSE
  /\ power' = "unknown" /\ token' = FALSE
  /\ UNCHANGED <<port, attempt>>

(* openPort, called with a device and not stopping.                        *)
OpenPort ==
  IF opener # "idle" THEN UNCHANGED <<link, timer>>
  ELSE /\ timer' = FALSE
       /\ IF port = "open" THEN ClosePort /\ opener' = "preClose"
          ELSE BeginOpening

PreCloseDone ==
  /\ opener = "preClose" /\ WritesOver
  /\ BeginOpening
  /\ q' = Publish(q, OnDisconnected(q.view, "unknown"))
  /\ UNCHANGED <<device, host, retry, closers, stop, faults>>

(* Mutant: a failed open schedules no reconnect.                           *)
OpenFailsForGood ==
  /\ opener = "opening"
  /\ Fault
  /\ phase' = "error" /\ opener' = "idle"
  /\ UNCHANGED <<q, device, port, identified, power, attempt, token, host,
                 retry, closers, stop>>

OpenFails ==
  /\ opener = "opening"
  /\ Fault
  /\ phase' = "error" /\ opener' = "idle"
  /\ ScheduleReconnect(q)
  /\ UNCHANGED <<device, port, identified, power, attempt, token, host,
                 closers, stop>>

(* writeLine up to its await: cancellation of the active operation stops   *)
(* whoever writes, identify included.                                      *)
CanWrite(openNow) == openNow /\ ~ActiveCancelled(q)

OpenSucceeds ==
  /\ opener = "opening"
  /\ IF Stopping
     THEN /\ opener' = "stopClose"
          /\ UNCHANGED <<q, port, phase, attempt, attempts>>
     ELSE /\ port' = "open" /\ phase' = "identifying"
          /\ attempts' = 0 /\ attempt' = 1
          /\ q' = Publish(q, OnIdentify(OnConnecting(q.view), "start"))
          /\ opener' = IF CanWrite(TRUE) THEN "writeRequest" ELSE "failing"
  /\ UNCHANGED <<device, identified, power, token, host, timer, closers, stop, faults>>

StopCloseDone ==
  /\ opener = "stopClose"
  /\ opener' = "idle"
  /\ UNCHANGED <<q, device, port, phase, identified, power, attempt, token,
                 host, retry, closers, stop, faults>>

(* The identify request is written, or the write fails.                    *)
RequestWritten ==
  /\ opener = "writeRequest"
  /\ opener' = "awaitToken"
  /\ UNCHANGED <<q, device, port, phase, identified, power, attempt, token,
                 host, retry, closers, stop, faults>>

IdentifyWriteFails ==
  /\ opener \in {"writeRequest", "writeCompletion"}
  /\ FaultIfOpen
  /\ opener' = "failing"
  /\ UNCHANGED <<q, device, port, phase, identified, power, attempt, token,
                 host, retry, closers, stop>>

(* handleData: the token arrives before identify() asks for it.            *)
EarlyToken ==
  /\ port = "open" /\ opener = "writeRequest" /\ ~token
  /\ token' = TRUE
  /\ UNCHANGED <<q, device, port, phase, identified, power, opener, attempt,
                 host, retry, closers, stop, faults>>

(* identify() gets the token, from the FIFO or from the line, and goes on  *)
(* to write the completion.                                                *)
TokenRead ==
  /\ opener = "awaitToken"
  /\ token \/ port = "open"
  /\ token' = FALSE
  /\ opener' = IF CanWrite(port = "open") THEN "writeCompletion" ELSE "failing"
  /\ attempt' = 1
  /\ UNCHANGED <<q, device, port, phase, identified, power, host,
                 retry, closers, stop, faults>>

(* No token in time: one more request, if the deadline leaves time for it. *)
TokenTimeout ==
  /\ opener = "awaitToken" /\ ~token
  /\ FaultIfOpen
  /\ \E inTime \in BOOLEAN :
       IF attempt = 1 /\ inTime
       THEN /\ attempt' = 2
            /\ opener' = IF CanWrite(port = "open") THEN "writeRequest" ELSE "failing"
       ELSE attempt' = 1 /\ opener' = "failing"
  /\ UNCHANGED <<q, device, port, phase, identified, power, token, host, retry,
                 closers, stop>>

(* maybeSyncKeyboardSidePowerFromHostPower: s is the queue before it, p    *)
(* the host power; a power operation that is enqueued takes a free id.     *)
MirrorHostPower(s, p, ready) ==
  IF NeedsSync(p, ready, power)
  THEN \E c \in {CancelPower(s)} : \E o \in Free(c) :
         q' = Enqueue(c, o, PowerKind(p), p, ready)
  ELSE q' = s

(* The completion is written: ready, even if closePort ran meanwhile.      *)
Identified ==
  /\ opener = "writeCompletion"
  /\ opener' = "idle" /\ identified' = TRUE /\ phase' = "ready"
  /\ \E s \in {Publish(q, OnIdentify(q.view, "success"))} :
       MirrorHostPower(s, host, port = "open")
  /\ UNCHANGED <<device, port, power, attempt, token, host, retry, closers,
                 stop, faults>>

(* identify() throws; openPort closes the port and schedules a reconnect.  *)
IdentifyFails ==
  /\ opener = "failing"
  /\ ClosePort
  /\ LET failed == Publish(q, OnIdentify(q.view, "failed"))
     IN  IF port = "open"
         THEN opener' = "failClose" /\ q' = failed /\ UNCHANGED retry
         ELSE /\ opener' = "idle"
              /\ ScheduleReconnect(
                   IF device # NoDevice \/ port # "none"
                   THEN Publish(failed, OnDisconnected(failed.view, "unknown"))
                   ELSE failed)
  /\ UNCHANGED <<device, host, closers, stop, faults>>

FailCloseDone ==
  /\ opener = "failClose" /\ WritesOver
  /\ opener' = "idle"
  /\ ScheduleReconnect(Publish(q, OnDisconnected(q.view, "unknown")))
  /\ UNCHANGED <<device, port, phase, identified, power, attempt, token, host,
                 closers, stop, faults>>

(* handlePortError on an open port.                                        *)
PortError ==
  /\ port = "open" /\ ioClosers + lostClosers < MaxClosers
  /\ Fault
  /\ ClosePort /\ FailWaiters
  /\ ioClosers' = ioClosers + 1
  /\ UNCHANGED <<q, device, host, retry, lostClosers, stop>>

(* Mutant: handlePortError schedules no reconnect.                         *)
IoCloseForgets ==
  /\ ioClosers > 0 /\ WritesOver
  /\ ioClosers' = ioClosers - 1
  /\ q' = Publish(q, OnDisconnected(q.view, "io-error"))
  /\ UNCHANGED <<device, link, host, retry, lostClosers, stop, faults>>

IoCloseDone ==
  /\ ioClosers > 0 /\ WritesOver
  /\ ioClosers' = ioClosers - 1
  /\ ScheduleReconnect(Publish(q, OnDisconnected(q.view, "io-error")))
  /\ UNCHANGED <<device, link, host, lostClosers, stop, faults>>

(* The device is unplugged; then its 'close' event runs handlePortClose.   *)
Unplug ==
  /\ port = "open"
  /\ Fault
  /\ port' = "dead"
  /\ UNCHANGED <<q, device, phase, identified, power, opener, attempt, token,
                 host, retry, closers, stop>>

PortCloseEvent ==
  /\ port = "dead" /\ WritesOver
  /\ ClosePort /\ FailWaiters
  /\ ScheduleReconnect(Publish(q, OnDisconnected(q.view, "io-error")))
  /\ UNCHANGED <<device, host, closers, stop, faults>>

TimerFires ==
  /\ timer
  /\ IF Stopping \/ device = NoDevice \/ opener # "idle"
     THEN timer' = FALSE /\ UNCHANGED link
     ELSE OpenPort
  /\ UNCHANGED <<q, device, attempts, host, closers, stop, faults>>

-----------------------------------------------------------------------------
(* Discovery *)

(* Probing a port takes seconds, so no write to a port that is gone is     *)
(* still waiting for its callback when discovery identifies a device.      *)
onDeviceIdentified(d) ==
  /\ stop # "done" /\ WritesOver
  /\ device' = d
  /\ q' = Publish(q, OnConnecting(q.view))
  /\ IF Stopping \/ Ready THEN UNCHANGED <<link, timer>> ELSE OpenPort
  /\ UNCHANGED <<attempts, host, closers, stop, faults>>

onDeviceLost(d) ==
  /\ device = d /\ stop # "done"
  /\ timer' = FALSE
  /\ ClosePort /\ FailWaiters
  /\ IF port = "open"
     THEN /\ ioClosers + lostClosers < MaxClosers
          /\ lostClosers' = lostClosers + 1
          /\ UNCHANGED <<q, device>>
     ELSE /\ q' = Publish(q, OnLost(q.view))
          /\ device' = NoDevice
          /\ UNCHANGED lostClosers
  /\ UNCHANGED <<attempts, host, ioClosers, stop, faults>>

(* The rest of onDeviceLost: whatever discovery said since is forgotten.   *)
LostCloseDone ==
  /\ lostClosers > 0 /\ WritesOver
  /\ lostClosers' = lostClosers - 1
  /\ device' = NoDevice
  /\ q' = Publish(q, OnLost(q.view))
  /\ UNCHANGED <<link, host, retry, ioClosers, stop, faults>>

-----------------------------------------------------------------------------
(* Operations *)

(* Operation ids are recycled; a key leaves one for the power operations,  *)
(* so that running out of ids (Ops is a bound) never blocks identify().    *)
enqueueKeyEvent(o) ==
  /\ stop # "done"
  /\ o \in Free(q) /\ Free(q) # {o}
  /\ q' = Enqueue(q, o, "key", host, Ready)
  /\ UNCHANGED <<device, link, host, retry, closers, stop, faults>>

cancelAll ==
  /\ stop # "done"
  /\ q' = CancelEverything(q)
  /\ UNCHANGED <<device, link, host, retry, closers, stop, faults>>

setHostPower(p) ==
  /\ p # host /\ stop # "done"
  /\ host' = p
  /\ MirrorHostPower(IF p = "off" THEN DropKeys(q) ELSE q, p, Ready)
  /\ UNCHANGED <<device, link, retry, closers, stop, faults>>

(* execute() after ensureReady: assertKeyOpsAllowed and writeLine, up to   *)
(* the await on serialport's write.                                        *)
Write(o) ==
  /\ q.pc[o] = "checked"
  /\ q' = [q EXCEPT !.pc[o] =
             IF (q.kind[o] = "key" /\ host = "off") \/ ActiveCancelled(q)
             THEN "cancelling"
             ELSE IF port = "open" THEN "writing" ELSE "failing"]
  /\ UNCHANGED <<device, link, host, retry, closers, stop, faults>>

(* The write's callback: the operation has completed, and a power          *)
(* operation has set this.power; or the write has failed.                  *)
Completed(o) ==
  /\ q.pc[o] = "writing"
  /\ power' = CASE q.kind[o] = "powerOn"  -> "on"
                [] q.kind[o] = "powerOff" -> "off"
                [] q.kind[o] = "key"      -> power
  /\ q' = Settle(q, o, OnEnded(q.view))
  /\ UNCHANGED <<device, port, phase, identified, opener, attempt, token, host,
                 retry, closers, stop, faults>>

WriteFails(o) ==
  /\ q.pc[o] = "writing"
  /\ FaultIfOpen
  /\ q' = [q EXCEPT !.pc[o] = "failing"]
  /\ UNCHANGED <<device, link, host, retry, closers, stop>>

(* The catch block for an Error: op.reject.  The callers in this           *)
(* repository keep no handle, so Node raises unhandledRejection here; see  *)
(* NeverRejects.  The model goes on, as Node does when told to only warn.  *)
Failed(o) ==
  /\ q.pc[o] = "failing"
  /\ q' = Settle(q, o, OnEnded(q.view))
  /\ UNCHANGED <<device, link, host, retry, closers, stop, faults>>

(* The catch block for a CancelledError.                                   *)
Cancelled(o) ==
  /\ q.pc[o] = "cancelling"
  /\ q' = Settle(q, o, OnCancelled(q.view, {o}))
  /\ UNCHANGED <<device, link, host, retry, closers, stop, faults>>

(* Mutant: the sleeping runner does not call processQueue again.           *)
WakeUpForgets(o) ==
  /\ q.pc[o] = "pause"
  /\ q' = Wake(q, o)
  /\ UNCHANGED <<device, link, host, retry, closers, stop, faults>>

WakeUp(o) ==
  /\ q.pc[o] = "pause"
  /\ \E woken \in {Wake(q, o)} : q' = ProcessQueue(woken, host, Ready)
  /\ UNCHANGED <<device, link, host, retry, closers, stop, faults>>

-----------------------------------------------------------------------------
(* stop() *)

StopBegin ==
  /\ stop = "no"
  /\ stop' = "waiting"
  /\ timer' = FALSE
  /\ q' = CancelEverything(q)
  /\ UNCHANGED <<device, link, host, attempts, closers, faults>>

(* openInFlight has settled: closePort.                                    *)
StopClose ==
  /\ stop = "waiting" /\ opener = "idle"
  /\ stop' = IF port = "open" THEN "closing" ELSE "closed"
  /\ ClosePort /\ UNCHANGED opener
  /\ q' = IF port = "dead" \/ (port = "none" /\ device # NoDevice)
          THEN Publish(q, OnDisconnected(q.view, "explicit-close")) ELSE q
  /\ UNCHANGED <<device, host, retry, closers, faults>>

StopClosed ==
  /\ stop = "closing" /\ WritesOver
  /\ stop' = "closed"
  /\ q' = Publish(q, OnDisconnected(q.view, "explicit-close"))
  /\ UNCHANGED <<device, link, host, retry, closers, faults>>

StopFinish ==
  /\ stop = "closed"
  /\ stop' = "done"
  /\ q' = Reset(q)
  /\ phase' = "disconnected" /\ identified' = FALSE /\ token' = FALSE
  /\ power' = "unknown" /\ host' = "unknown"
  /\ UNCHANGED <<device, port, opener, attempt, retry, closers, faults>>

-----------------------------------------------------------------------------
Connection ==
  \/ PreCloseDone \/ OpenFails \/ OpenSucceeds \/ StopCloseDone
  \/ RequestWritten \/ IdentifyWriteFails \/ EarlyToken \/ TokenRead
  \/ TokenTimeout \/ Identified \/ IdentifyFails \/ FailCloseDone
  \/ PortError \/ IoCloseDone \/ Unplug \/ PortCloseEvent \/ TimerFires
  \/ LostCloseDone

Discovery == \E d \in Devices : onDeviceIdentified(d) \/ onDeviceLost(d)

Requests ==
  \/ \E o \in Ops : enqueueKeyEvent(o)
  \/ cancelAll
  \/ \E p \in Powers : setHostPower(p)

Runner(o) ==
  Write(o) \/ Completed(o) \/ WriteFails(o) \/ Failed(o) \/ Cancelled(o) \/ WakeUp(o)

Stop == StopBegin \/ StopClose \/ StopClosed \/ StopFinish

(* The process only waits for the end of app.close().                      *)
Halted == stop = "done" /\ UNCHANGED vars

Next ==
  Connection \/ Discovery \/ Requests \/ Stop \/ Halted \/ \E o \in Ops : Runner(o)

Spec == Init /\ [][Next]_vars

-----------------------------------------------------------------------------
(* Fairness: node calls every continuation, callback and timer that is     *)
(* due; serialport answers open(), write() and close() one way or another. *)
(* Nothing is promised of discovery, of clients or of the host power.      *)
Opener ==
  \/ PreCloseDone \/ OpenFails \/ OpenSucceeds \/ StopCloseDone
  \/ RequestWritten \/ IdentifyWriteFails \/ TokenRead \/ TokenTimeout
  \/ Identified \/ IdentifyFails \/ FailCloseDone

Fairness ==
  /\ WF_vars(Opener)
  /\ WF_vars(IoCloseDone) /\ WF_vars(LostCloseDone)
  /\ WF_vars(PortCloseEvent) /\ WF_vars(TimerFires)
  /\ \A o \in Ops : WF_vars(Runner(o))

FairSpec == Spec /\ Fairness

-----------------------------------------------------------------------------
(* Properties *)

(* Every variable keeps to the values the code gives it.                   *)
TypeOK ==
  /\ q \in QueueStates
  /\ device \in Devices \cup {NoDevice}
  /\ port \in {"none", "open", "dead"}
  /\ phase \in ViewPhases /\ identified \in BOOLEAN
  /\ power \in Powers /\ host \in Powers
  /\ opener \in Openers /\ attempt \in {1, 2} /\ token \in BOOLEAN
  /\ timer \in BOOLEAN /\ attempts \in 0..MaxAttempts
  /\ ioClosers \in 0..MaxClosers /\ lostClosers \in 0..MaxClosers
  /\ stop \in {"no", "waiting", "closing", "closed", "done"}
  /\ faults \in 0..MaxFaults

UnsettledOps == {o \in Ops : q.pc[o] \in Unsettled}

(* Until stop() ends, an operation whose promise is unsettled is in the    *)
(* queue or is this.activeOp, never neither and never both: the calls that *)
(* filter, splice and shift the queue around a running one lose none and   *)
(* start no second one.                                                    *)
Accounted == stop # "done" => Consistent(q)

(* While the host is known to be off no key operation waits, and the one   *)
(* that was running when it went off is marked for cancellation, wherever  *)
(* its execution had got to (setHostPower, enqueueOperation).              *)
HostOffDrainsKeys == host = "off" => KeysDrained(q)

(* Work never waits for nobody: when operations wait and none is active, a *)
(* runner asleep in interCommandDelayMs will call processQueue.            *)
WorkGetsPickedUp ==
  stop # "done" /\ Waiting(q) # {} /\ q.active = NoOp =>
    \E o \in Ops : q.pc[o] = "pause"

(* The slice never shows work that is not there: its depth counts at most  *)
(* the unsettled operations and its current operation is the active one,   *)
(* though disconnections zero the depth while operations stay queued.      *)
ViewNeverOverstates ==
  stop # "done" =>
    /\ q.view.depth <= Cardinality(UnsettledOps)
    /\ q.view.current \in {NoOp, q.active}

(* The queue as its callers see it, whatever the port, the host power and  *)
(* the cancellations do: OperationQueue.                                   *)
Executing == {o \in Ops : q.pc[o] \in Running}

Promise == INSTANCE OperationQueue WITH line <- q.queue, running <- Executing

(* The service implements it: operations start in the order they were      *)
(* enqueued, one at a time, and none begins before the last one has ended, *)
(* whatever was cancelled, filtered or spliced in between.                 *)
ServesInOrder == Promise!Spec

(* Nothing of the connection is under way.                                 *)
Settled ==
  opener = "idle" /\ ioClosers + lostClosers = 0 /\ port # "dead" /\ ~Stopping

(* A keyboard that discovery reports is never given up silently: with no   *)
(* port and nothing under way a reconnect is scheduled, unless reconnects  *)
(* are disabled or used up.                                                *)
NeverStranded ==
  Settled /\ port = "none" /\ device # NoDevice /\ ReconnectEnabled
    => timer \/ Exhausted

(* Once the events of a connection are all in, the browser is not shown a  *)
(* ready keyboard that the service itself does not hold to be ready.       *)
ReadyViewIsReady == Settled /\ q.view.phase = "ready" => phase = "ready"

(* What the browser is shown of the keyboard, of its queue and of its      *)
(* connection, is so.                                                      *)
ViewIsTrue == ViewNeverOverstates /\ ReadyViewIsReady

(* Every operation's promise is settled, unless stop() intervenes.         *)
OpsSettle ==
  \A o \in Ops :
    q.pc[o] \in {"queued"} \cup Running ~> q.pc[o] \notin Unsettled \/ Stopping

(* Once faults are over, a keyboard that stays plugged in becomes ready    *)
(* and stays ready, unless the reconnect attempts are used up or clients   *)
(* keep cancelling (identify gives up when the active operation is marked). *)
BecomesReady ==
  <>[](device # NoDevice /\ ~Stopping /\ ~Exhausted /\ q.cancel = NoOp)
    => <>[]Ready

(* maybeSyncKeyboardSidePowerFromHostPower: "Coalesce queued power ops so  *)
(* last-known host state wins."  Once no operation is left and the keyboard *)
(* is ready, its power pin is where the host power is.                     *)
LastHostStateWins ==
  Ready /\ opener = "idle" /\ UnsettledOps = {} /\ host # "unknown" => power = host

(* docs/ps2_keyboard_service_design.md 8.2: callers may fire and forget.   *)
(* The promise of an operation nobody awaits is then never rejected.       *)
NeverRejects ==
  [][\A o \in Ops : q.pc[o] = "failing" => q'.pc[o] = "failing"]_vars
=============================================================================
