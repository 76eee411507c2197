------------------------------ MODULE PS2Mouse ------------------------------
(***************************************************************************)
(* PS2MouseService with its state adapter, the host power its plugin       *)
(* feeds it, and the mouse firmware at the other end of the line           *)
(* (devices/ps2-mouse/PS2MouseService.ts, arduino/ps2-mouse/ps2-mouse.ino):*)
(* the serial connection, the queue of button, wheel and config            *)
(* operations, and the loop that turns movement into positions, tick by    *)
(* tick, on the same chain of writes.                                      *)
(*                                                                         *)
(* One step is the code from one await, event or timer to the next.  When  *)
(* a write ends, the function of the next write in the chain runs before   *)
(* the code that awaited the write does: the two are one step, in that     *)
(* order.  Movement is along one axis; the two axes never meet.            *)
(***************************************************************************)
EXTENDS PS2MouseOps, FiniteSets

CONSTANTS Edge,          \* the grid's coordinates are -Edge..Edge
          Gain,          \* what a unit of relative movement is multiplied by
          MaxStep,       \* cfg.movement.perTickMaxDelta
          MaxAttempts,   \* 10 in the code
          ResetsOnOpen,  \* opening the port resets the board, as DTR does
          NoTarget,      \* movement.absTarget is null
          NoMove,        \* no tick is under way
          MaxOps,        \* bound: operations clients ask for
          MaxMoves,      \* bound: movements clients make
          MaxFaults,     \* bound: failures of the serial line
          MaxClosers     \* bound: port.close() calls in flight at once

ASSUME MouseAssumption ==
  /\ Edge \in Nat \ {0} /\ Gain \in Nat \ {0} /\ MaxStep \in Nat \ {0}
  /\ MaxAttempts \in Nat /\ ResetsOnOpen \in BOOLEAN
  /\ MaxOps \in Nat /\ MaxMoves \in Nat /\ MaxFaults \in Nat /\ MaxClosers \in Nat

Cells == -Edge..Edge
ASSUME NoTargetAssumption == NoTarget \notin Cells
ASSUME NoOpAssumption == NoOp \notin Kinds

Powers == {"on", "off"}                 \* nothing tells "unknown" from "on"
Modes == {"absolute", "relative"}       \* gain and accel differ in numbers only

MoveLines == [to : Cells, step : Int, mode : Modes]
ASSUME NoMoveAssumption == NoMove \notin MoveLines

VARIABLES
  q,           \* operations, writes, buttons and view, see PS2MouseOps
  known,       \* deviceId and devicePath are set
  port,        \* this.port: "none", "open", or "dead" (no longer isOpen, its
               \* 'close' event not yet delivered)
  phase, identified,
  opener,      \* where the asynchronous function behind openInFlight is
  token,       \* pendingLines holds the expected token
  timer, attempts,         \* reconnectTimer, reconnectAttempts
  ioClosers, lostClosers,  \* handlers waiting in closePort
  host,        \* hostPower
  stop,        \* where stop() is; this.stopping unless "no"
  mode, target, acc, cursor,  \* this.movement
  tick,        \* the movement line under way: where to, and the step
  firmware,    \* the board: the buttons it holds down, its last position
  crashed,     \* an exception left a callback: the process is gone
  asked, moved, faults        \* counts for the bounds

link == <<port, phase, identified, opener, token>>
retry == <<timer, attempts>>
closers == <<ioClosers, lostClosers>>
motion == <<mode, target, acc, cursor, tick>>
counts == <<asked, moved, faults>>
vars == <<q, known, link, retry, closers, host, stop, motion, firmware, crashed,
          counts>>

Openers == {"idle", "preClose", "opening", "stopClose", "request",
            "awaitToken", "completion", "failing", "failClose"}

Board == [down |-> {}, last |-> 0]

Init ==
  /\ q = InitialOps
  /\ known = FALSE
  /\ port = "none" /\ phase = "disconnected" /\ identified = FALSE
  /\ opener = "idle" /\ token = FALSE
  /\ timer = FALSE /\ attempts = 0
  /\ ioClosers = 0 /\ lostClosers = 0
  /\ host = "on" /\ stop = "no"
  /\ mode \in Modes /\ target = NoTarget /\ acc = 0 /\ cursor = 0
  /\ tick = NoMove
  /\ firmware = Board
  /\ crashed = FALSE
  /\ asked = 0 /\ moved = 0 /\ faults = 0

Stopping == stop # "no"
Open == port = "open"
Ready == Open /\ identified

Clamp(n, lo, hi) == IF n < lo THEN lo ELSE IF n > hi THEN hi ELSE n

Fault == faults < MaxFaults /\ faults' = faults + 1 /\ UNCHANGED <<asked, moved>>
FaultIfOpen == IF Open THEN Fault ELSE UNCHANGED counts

(* serialport calls back every write before it reports the port closed.    *)
WritesOver == ~Open => q.wire = <<>>

-----------------------------------------------------------------------------
(* Movement state *)

ClearMovement == target' = NoTarget /\ acc' = 0 /\ UNCHANGED <<mode, cursor, tick>>

handleMoveAbsolute(x) ==
  /\ moved < MaxMoves
  /\ moved' = moved + 1
  /\ mode' = "absolute" /\ target' = x /\ acc' = 0
  /\ UNCHANGED <<q, known, link, retry, closers, host, stop, cursor, tick,
                 firmware, crashed, asked, faults>>

handleMoveRelative(dx) ==
  /\ moved < MaxMoves
  /\ moved' = moved + 1
  /\ mode' = "relative" /\ target' = NoTarget /\ acc' = acc + dx * Gain
  /\ UNCHANGED <<q, known, link, retry, closers, host, stop, cursor, tick,
                 firmware, crashed, asked, faults>>

(* Mutant: a target within one step is close enough.                       *)
StepWantedNear ==
  IF mode = "absolute"
  THEN IF target = NoTarget \/ target - cursor \in -MaxStep..MaxStep THEN 0
       ELSE Clamp(target - cursor, -MaxStep, MaxStep)
  ELSE Clamp(acc, -MaxStep, MaxStep)

(* Where flushMovementTick wants to go, and by which step.                 *)
StepWanted ==
  IF mode = "absolute"
  THEN IF target = NoTarget THEN 0 ELSE Clamp(target - cursor, -MaxStep, MaxStep)
  ELSE Clamp(acc, -MaxStep, MaxStep)

(* Mutant: the grid has no edge.                                           *)
NextCellAnywhere == cursor + StepWanted

NextCell == Clamp(cursor + StepWanted, -Edge, Edge)

(* flushMovementTick goes on only then; its loop never overlaps itself.    *)
TickMay == ~Stopping /\ host # "off" /\ Ready /\ tick = NoMove

(* A step that leads nowhere, at the edge of the grid, is dropped.         *)
TickAtEdge ==
  /\ TickMay /\ mode = "relative"
  /\ StepWanted # 0 /\ NextCell = cursor
  /\ acc' = acc - StepWanted
  /\ UNCHANGED <<q, known, link, retry, closers, host, stop, mode, target, cursor,
                 tick, firmware, crashed, counts>>

(* flushMovementTick up to the await on writeMovementLine: with the chain  *)
(* busy the line waits its turn, otherwise it may be refused at once, as   *)
(* the movement of an operation being cancelled is.                        *)
Tick ==
  /\ TickMay
  /\ StepWanted # 0 /\ NextCell # cursor
  /\ q.wire # <<>> \/ MayWrite(q, "move", Open)
  /\ tick' = [to |-> NextCell, step |-> StepWanted, mode |-> mode]
  /\ q' = Join(q, "move")
  /\ UNCHANGED <<known, link, retry, closers, host, stop, mode, target, acc, cursor,
                 firmware, crashed, counts>>

(* The line is written: the state read before the await is brought up to   *)
(* date with what was decided then.                                        *)
Moved ==
  /\ cursor' = tick.to
  /\ acc' = IF tick.mode = "relative" THEN acc - tick.step ELSE acc
  /\ tick' = NoMove
  /\ UNCHANGED <<mode, target>>
NotMoved == tick' = NoMove /\ UNCHANGED <<mode, target, acc, cursor>>

-----------------------------------------------------------------------------
(* The chain of writes *)

(* The write at the head has ended and the next in line has its turn: s is *)
(* q without the head.  An operation refused its turn has failed.          *)
Promote(s) ==
  IF s.wire = <<>> \/ MayWrite(s, Head(s.wire), Open) THEN s
  ELSE IF Head(s.wire) = "op" THEN Settle(Leave(s)) ELSE Leave(s)

MoveRefused(s) == s.wire = <<"move">> /\ ~MayWrite(s, "move", Open)

Press(b) == firmware' = [firmware EXCEPT !.down = @ \cup {b}]
Release(b) == firmware' = [firmware EXCEPT !.down = @ \ {b}]

(* handleSerialCommand of the board; it knows no WHEEL.                    *)
Perform(command) ==
  CASE command.kind = "CLICK"   -> Press(command.button)
    [] command.kind = "RELEASE" -> Release(command.button)
    [] command.kind = "WHEEL"   -> UNCHANGED firmware

(* Mutant: a click that is cancelled while it holds forgets its button.    *)
AfterWriteForgetful(s) ==
  LET b == s.active.button
  IN  CASE s.active.kind \notin {"down", "up", "click"} -> Settle(s)
        [] s.active.kind = "down" ->
             Settle(Publish(Pressed(s, b), OnButton(s.view, b, "down")))
        [] s.active.kind = "up" \/ s.pc = "second" ->
             Settle(Publish(Released(s, b), OnButton(s.view, b, "up")))
        [] OTHER -> IF s.cancel THEN Settle(s) ELSE [Pressed(s, b) EXCEPT !.pc = "hold"]

(* What the active operation does when its write has been made.  A click   *)
(* that was cancelled meanwhile ends here, its button still down.          *)
AfterWrite(s) ==
  LET b == s.active.button
  IN  CASE s.active.kind \notin {"down", "up", "click"} -> Settle(s)
        [] s.active.kind = "down" ->
             Settle(Publish(Pressed(s, b), OnButton(s.view, b, "down")))
        [] s.active.kind = "up" \/ s.pc = "second" ->
             Settle(Publish(Released(s, b), OnButton(s.view, b, "up")))
        [] OTHER -> IF s.cancel THEN Settle(Pressed(s, b))
                    ELSE [Pressed(s, b) EXCEPT !.pc = "hold"]

(* execute() after ensureReady(): the active operation fails, does nothing *)
(* or makes its first write; ApplyConfig is applyConfigPatch.              *)
Execute ==
  /\ q.pc = "starting"
  /\ IF ~Ready \/ q.cancel \/ host = "off" \/ NoOperation(q, q.active)
     THEN q' = Settle(q) /\ UNCHANGED motion
     ELSE IF q.active.kind = "config"
     THEN /\ q' = Settle(q)
          /\ \E m \in Modes : mode' = m
          /\ target' = NoTarget /\ acc' = 0 /\ UNCHANGED <<cursor, tick>>
     ELSE q' = Join([q EXCEPT !.pc = "first"], "op") /\ UNCHANGED motion
  /\ UNCHANGED <<known, link, retry, closers, host, stop, firmware, crashed, counts>>

(* An operation's bytes are out and drained.                               *)
OpWritten ==
  /\ q.wire # <<>> /\ Head(q.wire) = "op" /\ Open
  /\ Perform(Command(q))
  /\ q' = LET next == Promote(Leave(q)) IN AfterWrite(next)
  /\ IF MoveRefused(Leave(q)) THEN NotMoved ELSE UNCHANGED motion
  /\ UNCHANGED <<known, link, retry, closers, host, stop, crashed, counts>>

(* Its bytes are lost, or they are out and the port is no longer open.     *)
OpWriteFails ==
  /\ q.wire # <<>> /\ Head(q.wire) = "op"
  /\ FaultIfOpen
  /\ UNCHANGED firmware \/ (~Open /\ Perform(Command(q)))
  /\ q' = Settle(Promote(Leave(q)))
  /\ IF MoveRefused(Leave(q)) THEN NotMoved ELSE UNCHANGED motion
  /\ UNCHANGED <<known, link, retry, closers, host, stop, crashed>>

(* The bytes are out, but closePort has set this.port to null: its         *)
(* callback calls drain() of null, in no one's try block.                  *)
DrainOfNull ==
  /\ q.wire # <<>> /\ Head(q.wire) \in {"op", "identify"} /\ port = "none"
  /\ crashed' = TRUE
  /\ UNCHANGED <<q, known, link, retry, closers, host, stop, motion, firmware, counts>>

(* The hold of a click is over: RELEASE, unless it was cancelled.          *)
HoldOver ==
  /\ q.pc = "hold"
  /\ q' = IF q.cancel \/ (q.wire = <<>> /\ ~Open) THEN Settle(q)
          ELSE Join([q EXCEPT !.pc = "second"], "op")
  /\ UNCHANGED <<known, link, retry, closers, host, stop, motion, firmware, crashed,
                 counts>>

MoveWritten ==
  /\ q.wire # <<>> /\ Head(q.wire) = "move"
  /\ Moved
  /\ \/ firmware' = [firmware EXCEPT !.last = tick.to]
     \/ ~Open /\ UNCHANGED firmware
  /\ q' = Promote(Leave(q))
  /\ UNCHANGED <<known, link, retry, closers, host, stop, crashed, counts>>

MoveFails ==
  /\ q.wire # <<>> /\ Head(q.wire) = "move"
  /\ FaultIfOpen
  /\ NotMoved
  /\ q' = Promote(Leave(q))
  /\ UNCHANGED <<known, link, retry, closers, host, stop, firmware, crashed>>

-----------------------------------------------------------------------------
(* The serial connection *)

(* closePort up to its await, with s the queue its caller has; the write   *)
(* under way, if any, finds this.port gone.                                *)
ClosePort ==
  /\ port' = "none" /\ phase' = "disconnected" /\ identified' = FALSE
  /\ token' = FALSE
  /\ target' = NoTarget /\ acc' = 0 /\ UNCHANGED <<mode, cursor, tick>>

Closed(s) == [CancelAll(s) EXCEPT !.down = {}]

(* The rest of it: mouse-device-disconnected, of the device that was known *)
(* when it began, as it is whenever a port is open.                        *)
Disconnected(s) == Publish(s, OnDisconnected(s.view))
NothingToClose(s) == IF known THEN Disconnected(s) ELSE s

FailWaiters == opener' = IF opener = "awaitToken" THEN "failing" ELSE opener

Exhausted == attempts >= MaxAttempts

ScheduleReconnect(s) ==
  LET wanted == ~Stopping /\ known
  IN  /\ timer' = IF wanted THEN ~Exhausted ELSE timer
      /\ attempts' = IF wanted /\ ~Exhausted THEN attempts + 1 ELSE attempts
      /\ q' = IF wanted /\ Exhausted THEN Publish(s, OnFatal(s.view)) ELSE s

BeginOpening ==
  /\ opener' = "opening"
  /\ phase' = "connecting" /\ identified' = FALSE /\ token' = FALSE
  /\ UNCHANGED port

(* openPort, called with a device and not stopping.                        *)
OpenPort ==
  IF opener # "idle" THEN UNCHANGED <<link, timer, q, motion>>
  ELSE /\ timer' = FALSE
       /\ IF Open THEN ClosePort /\ opener' = "preClose" /\ q' = Closed(q)
          ELSE BeginOpening /\ UNCHANGED <<q, motion>>

PreCloseDone ==
  /\ opener = "preClose" /\ WritesOver
  /\ BeginOpening
  /\ q' = Disconnected(q)
  /\ UNCHANGED <<known, retry, closers, host, stop, motion, firmware, crashed, counts>>

(* The path of a device that discovery has reported lost does not open.    *)
Present == known /\ lostClosers = 0

(* Mutant: a failed open schedules no reconnect.                           *)
OpenFailsForGood ==
  /\ opener = "opening"
  /\ IF Present THEN Fault ELSE UNCHANGED counts
  /\ phase' = "error" /\ opener' = "idle"
  /\ UNCHANGED <<q, known, port, identified, token, retry, closers, host, stop,
                 motion, firmware, crashed>>

OpenFails ==
  /\ opener = "opening"
  /\ IF Present THEN Fault ELSE UNCHANGED counts
  /\ phase' = "error" /\ opener' = "idle"
  /\ ScheduleReconnect(q)
  /\ UNCHANGED <<known, port, identified, token, closers, host, stop, motion,
                 firmware, crashed>>

(* The port is open: a fresh session, whose identify writes its request,   *)
(* unless an operation of the last session is still being cancelled.       *)
OpenSucceeds ==
  /\ opener = "opening" /\ ~Stopping /\ Present /\ WritesOver
  /\ port' = "open" /\ attempts' = 0 /\ phase' = "identifying"
  /\ LET fresh == [CancelAll(q) EXCEPT !.down = {}]
         told  == Publish(fresh, OnIdentify(OnConnected(q.view), "start"))
     IN  IF Cancelled(fresh)
         THEN opener' = "failing" /\ q' = told
         ELSE opener' = "request" /\ q' = Join(told, "identify")
  /\ ClearMovement
  /\ firmware' = IF ResetsOnOpen THEN Board ELSE firmware
  /\ UNCHANGED <<known, identified, token, timer, closers, host, stop, crashed, counts>>

OpenedWhileStopping ==
  /\ opener = "opening" /\ Stopping
  /\ opener' = "stopClose"
  /\ UNCHANGED <<q, known, port, phase, identified, token, retry, closers, host, stop,
                 motion, firmware, crashed, counts>>

StopCloseDone ==
  /\ opener = "stopClose"
  /\ opener' = "idle"
  /\ UNCHANGED <<q, known, port, phase, identified, token, retry, closers, host, stop,
                 motion, firmware, crashed, counts>>

(* The board answers the request, maybe before the write's callback.       *)
TokenArrives ==
  /\ Open /\ ~token
  /\ opener \in {"request", "awaitToken"}
  /\ token' = TRUE
  /\ UNCHANGED <<q, known, port, phase, identified, opener, retry, closers, host, stop,
                 motion, firmware, crashed, counts>>

IdentifyWriting == q.wire # <<>> /\ Head(q.wire) = "identify"

RequestWritten ==
  /\ opener = "request" /\ IdentifyWriting /\ Open
  /\ opener' = "awaitToken"
  /\ q' = Leave(q)
  /\ UNCHANGED <<known, port, phase, identified, token, retry, closers, host, stop,
                 motion, firmware, crashed, counts>>

(* Its token read, identify writes the completion.                         *)
TokenRead ==
  /\ opener = "awaitToken" /\ token /\ q.wire = <<>>
  /\ token' = FALSE
  /\ IF MayWrite(q, "identify", Open)
     THEN opener' = "completion" /\ q' = Join(q, "identify")
     ELSE opener' = "failing" /\ UNCHANGED q
  /\ UNCHANGED <<known, port, phase, identified, retry, closers, host, stop, motion,
                 firmware, crashed, counts>>

TokenTimeout ==
  /\ opener = "awaitToken" /\ ~token
  /\ FaultIfOpen
  /\ opener' = "failing"
  /\ UNCHANGED <<q, known, port, phase, identified, token, retry, closers, host, stop,
                 motion, firmware, crashed>>

Identified ==
  /\ opener = "completion" /\ IdentifyWriting /\ Open
  /\ opener' = "idle" /\ identified' = TRUE /\ phase' = "ready"
  /\ q' = LET s == Leave(q) IN Publish(s, OnIdentify(s.view, "success"))
  /\ UNCHANGED <<known, port, token, retry, closers, host, stop, motion, firmware,
                 crashed, counts>>

IdentifyWriteFails ==
  /\ opener \in {"request", "completion"} /\ IdentifyWriting
  /\ FaultIfOpen
  /\ opener' = "failing"
  /\ q' = Leave(q)
  /\ UNCHANGED <<known, port, phase, identified, token, retry, closers, host, stop,
                 motion, firmware, crashed>>

(* identify() throws: openPort closes the port and schedules a reconnect.  *)
IdentifyFails ==
  /\ opener = "failing"
  /\ ClosePort
  /\ \E s \in {Closed(Publish(q, OnIdentify(q.view, "failed")))} :
       IF Open THEN opener' = "failClose" /\ q' = s /\ UNCHANGED retry
       ELSE opener' = "idle" /\ ScheduleReconnect(NothingToClose(s))
  /\ UNCHANGED <<known, closers, host, stop, firmware, crashed, counts>>

FailCloseDone ==
  /\ opener = "failClose" /\ WritesOver
  /\ opener' = "idle"
  /\ ScheduleReconnect(Disconnected(q))
  /\ UNCHANGED <<known, port, phase, identified, token, closers, host, stop, motion,
                 firmware, crashed, counts>>

(* handlePortError on an open port.                                        *)
PortError ==
  /\ Open /\ ioClosers + lostClosers < MaxClosers
  /\ Fault
  /\ ClosePort /\ FailWaiters
  /\ q' = Closed(q)
  /\ ioClosers' = ioClosers + 1
  /\ UNCHANGED <<known, retry, lostClosers, host, stop, firmware, crashed>>

IoCloseDone ==
  /\ ioClosers > 0 /\ WritesOver
  /\ ioClosers' = ioClosers - 1
  /\ ScheduleReconnect(Disconnected(q))
  /\ UNCHANGED <<known, link, lostClosers, host, stop, motion, firmware, crashed, counts>>

(* The device is unplugged; then its 'close' event runs handlePortClose.   *)
Unplug ==
  /\ Open
  /\ Fault
  /\ port' = "dead"
  /\ UNCHANGED <<q, known, phase, identified, opener, token, retry, closers, host, stop,
                 motion, firmware, crashed>>

PortCloseEvent ==
  /\ port = "dead" /\ WritesOver
  /\ ClosePort /\ FailWaiters
  /\ ScheduleReconnect(NothingToClose(Closed(q)))
  /\ UNCHANGED <<known, closers, host, stop, firmware, crashed, counts>>

TimerFires ==
  /\ timer
  /\ IF Stopping \/ ~known \/ opener # "idle"
     THEN timer' = FALSE /\ UNCHANGED <<link, q, motion>>
     ELSE OpenPort
  /\ UNCHANGED <<known, attempts, closers, host, stop, firmware, crashed, counts>>

-----------------------------------------------------------------------------
(* Discovery, clients, host power *)

(* Probing takes seconds: no write to a port that is gone, and no close of *)
(* it, is still waiting for its callback when a device is identified.      *)
onDeviceIdentified ==
  /\ WritesOver /\ lostClosers = 0
  /\ known' = TRUE
  /\ IF Stopping \/ Ready THEN UNCHANGED <<link, timer, q, motion>> ELSE OpenPort
  /\ UNCHANGED <<attempts, closers, host, stop, firmware, crashed, counts>>

onDeviceLost ==
  /\ known
  /\ timer' = FALSE
  /\ ClosePort /\ FailWaiters
  /\ IF Open
     THEN /\ ioClosers + lostClosers < MaxClosers
          /\ lostClosers' = lostClosers + 1
          /\ q' = Closed(q) /\ UNCHANGED known
     ELSE /\ q' = LET s == Closed(q) IN Publish(s, OnLost(s.view))
          /\ known' = FALSE /\ UNCHANGED lostClosers
  /\ UNCHANGED <<attempts, ioClosers, host, stop, firmware, crashed, counts>>

LostCloseDone ==
  /\ lostClosers > 0 /\ WritesOver
  /\ lostClosers' = lostClosers - 1
  /\ known' = FALSE
  /\ q' = Publish(q, OnLost(q.view))
  /\ UNCHANGED <<link, retry, ioClosers, host, stop, motion, firmware, crashed, counts>>

(* enqueueButton, enqueueWheel and enqueueConfig: with the host known to   *)
(* be off the operation is settled at once.                                *)
enqueueOp(op) ==
  /\ asked < MaxOps
  /\ asked' = asked + 1
  /\ q' = IF host = "off" THEN q ELSE Enqueue(q, op)
  /\ UNCHANGED <<known, link, retry, closers, host, stop, motion, firmware, crashed,
                 moved, faults>>

cancelAll ==
  /\ q' = CancelAll(q)
  /\ ClearMovement
  /\ UNCHANGED <<known, link, retry, closers, host, stop, firmware, crashed, counts>>

setHostPower(p) ==
  /\ p # host
  /\ host' = p
  /\ IF p = "off" THEN q' = CancelAll(q) /\ ClearMovement
     ELSE UNCHANGED <<q, motion>>
  /\ UNCHANGED <<known, link, retry, closers, stop, firmware, crashed, counts>>

(* The board sees its power pin fall, or the host resets its mouse: the    *)
(* service is not told.                                                    *)
BoardResets ==
  /\ firmware # Board
  /\ firmware' = Board
  /\ UNCHANGED <<q, known, link, retry, closers, host, stop, motion, crashed, counts>>

-----------------------------------------------------------------------------
(* stop() *)

StopBegin ==
  /\ stop = "no"
  /\ stop' = "waiting"
  /\ timer' = FALSE
  /\ q' = CancelAll(q)
  /\ ClearMovement
  /\ UNCHANGED <<known, link, attempts, closers, host, firmware, crashed, counts>>

StopClose ==
  /\ stop = "waiting" /\ opener = "idle"
  /\ stop' = IF Open THEN "closing" ELSE "closed"
  /\ ClosePort /\ UNCHANGED opener
  /\ q' = IF Open THEN Closed(q) ELSE NothingToClose(Closed(q))
  /\ UNCHANGED <<known, retry, closers, host, firmware, crashed, counts>>

StopFinish ==
  /\ stop \in {"closing", "closed"} /\ (stop = "closing" => WritesOver)
  /\ stop' = "done"
  /\ q' = LET s == IF stop = "closing" THEN Disconnected(q) ELSE q
          IN  [s EXCEPT !.queue = <<>>, !.active = NoOp, !.cancel = FALSE,
                        !.pc = "idle", !.down = {}]
  /\ phase' = "disconnected" /\ identified' = FALSE /\ token' = FALSE
  /\ host' = "on" /\ attempts' = 0
  /\ ClearMovement
  /\ UNCHANGED <<known, port, opener, timer, closers, firmware, crashed, counts>>

-----------------------------------------------------------------------------
Opener ==
  \/ PreCloseDone \/ OpenFails \/ OpenSucceeds \/ OpenedWhileStopping
  \/ StopCloseDone \/ RequestWritten \/ TokenRead \/ TokenTimeout \/ Identified
  \/ IdentifyWriteFails \/ IdentifyFails \/ FailCloseDone

Connection ==
  \/ Opener \/ TokenArrives \/ PortError \/ IoCloseDone \/ Unplug
  \/ PortCloseEvent \/ TimerFires \/ LostCloseDone

Runner == Execute \/ OpWritten \/ OpWriteFails \/ DrainOfNull \/ HoldOver

MoveLoop == TickAtEdge \/ Tick \/ MoveWritten \/ MoveFails

ClientMoves ==
  \/ \E x \in Cells : handleMoveAbsolute(x)
  \/ \E dx \in {-1, 1} : handleMoveRelative(dx)

Requests ==
  \/ ClientMoves
  \/ \E op \in Kinds : enqueueOp(op)
  \/ cancelAll
  \/ \E p \in Powers : setHostPower(p)

Environment == onDeviceIdentified \/ onDeviceLost \/ BoardResets

Stop == StopBegin \/ StopClose \/ StopFinish

(* The process is gone, or waits for the end of app.close(), by which      *)
(* nothing is known of it any more.                                        *)
Live == ~crashed /\ stop # "done"
Halted == ~Live /\ UNCHANGED vars

Next ==
  \/ Live /\ (Connection \/ Runner \/ MoveLoop \/ Requests \/ Environment \/ Stop)
  \/ Halted

Spec == Init /\ [][Next]_vars

(* Fairness: node calls every continuation, callback and timer that is     *)
(* due, and serialport answers open(), write(), drain() and close().       *)
Fairness ==
  /\ WF_vars(Live /\ Opener) /\ WF_vars(Live /\ Runner)
  /\ WF_vars(Live /\ MoveLoop)
  /\ WF_vars(Live /\ IoCloseDone) /\ WF_vars(Live /\ LostCloseDone)
  /\ WF_vars(Live /\ PortCloseEvent) /\ WF_vars(Live /\ TimerFires)

FairSpec == Spec /\ Fairness

-----------------------------------------------------------------------------
(* Properties *)

(* Every variable keeps to the values the code gives it.                   *)
TypeOK ==
  /\ q \in OpStates /\ Len(q.wire) <= 2
  /\ known \in BOOLEAN
  /\ port \in {"none", "open", "dead"}
  /\ phase \in ViewPhases /\ identified \in BOOLEAN
  /\ opener \in Openers /\ token \in BOOLEAN
  /\ timer \in BOOLEAN /\ attempts \in 0..MaxAttempts
  /\ ioClosers \in 0..MaxClosers /\ lostClosers \in 0..MaxClosers
  /\ host \in Powers /\ stop \in {"no", "waiting", "closing", "closed", "done"}
  /\ mode \in Modes /\ target \in Cells \cup {NoTarget} /\ acc \in Int
  /\ cursor \in Cells
  /\ tick \in MoveLines \cup {NoMove}
  /\ firmware \in [down : SUBSET Buttons, last : Cells]
  /\ crashed \in BOOLEAN
  /\ asked \in 0..MaxOps /\ moved \in 0..MaxMoves /\ faults \in 0..MaxFaults

(* A write of an operation or of a movement begins in this step.           *)
Begins(w) ==
  /\ q'.wire # <<>> /\ Head(q'.wire) = w
  /\ q.wire = <<>> \/ Len(q'.wire) < Len(q.wire)

(* No movement and no operation is sent to a host that is known to be off, *)
(* though the tick checks the power before it waits for its turn.          *)
NothingSentWhileOff ==
  [][Begins("op") \/ Begins("move") => host' # "off"]_vars

(* A button the board holds down is one the service knows to be down, so   *)
(* that a client can release it, whatever was cancelled in between.        *)
HeldButtonsAreKnown ==
  Open /\ "op" \notin {q.wire[i] : i \in DOMAIN q.wire} =>
    firmware.down \subseteq q.down

Settled ==
  opener = "idle" /\ ioClosers + lostClosers = 0 /\ port # "dead" /\ ~Stopping

(* A mouse that discovery reports is never given up silently.              *)
NeverStranded ==
  ~crashed /\ Settled /\ port = "none" /\ known => timer \/ Exhausted

(* Once the events of a connection are in, the browser shows no button as  *)
(* held that the service does not hold.                                    *)
ViewShowsHeld == Settled => q.view.held \subseteq q.down

(* Board, service and browser agree on the buttons that are down, as far   *)
(* as a client needs it to release them: neither side holds one that the   *)
(* service does not know of.                                               *)
ButtonsKnown == HeldButtonsAreKnown /\ ViewShowsHeld

(* Every operation's promise is settled in the end.                        *)
OpsSettle == q.active # NoOp ~> q.active = NoOp \/ crashed

(* A pointing target is reached when the mouse stays ready, powered and    *)
(* undisturbed: steps and clamps never leave it short of the place.        *)
TargetReached ==
  \A x \in Cells :
    <>[](~crashed /\ ~Stopping /\ Ready /\ host # "off" /\ ~Cancelled(q)
         /\ mode = "absolute" /\ target = x) => <>[](cursor = x)

(* What is asked of the mouse comes to an end: operations are settled and  *)
(* targets reached.                                                        *)
MouseSettles == OpsSettle /\ TargetReached

(* docs/ps2_mouse_service_design.md 8.6: each tick consumes from the       *)
(* accumulators and carries the remainder.  What is not a client's         *)
(* movement never adds to them.                                            *)
TicksConsume ==
  [][acc' \in {acc, 0} \/ (acc' > 0 /\ acc' < acc) \/ (acc' < 0 /\ acc' > acc)
     \/ ClientMoves]_vars
=============================================================================
