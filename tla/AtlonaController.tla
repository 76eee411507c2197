-------------------------- MODULE AtlonaController --------------------------
(***************************************************************************)
(* The Atlona controller: AtlonaControllerService, which opens the         *)
(* Arduino, identifies it and holds and releases its three switches for    *)
(* the commands of plugins/ws.ts, the adapter with its atlonaController    *)
(* slice, and the sketch itself (devices/atlona-controller/*.ts,           *)
(* adapters/atlonaController.adapter.ts, arduino/atlona-switches).         *)
(*                                                                         *)
(* One step is the code of one event, timer or finished write.  The board  *)
(* has USB of its own: it is reset by its cable, not by its port.          *)
(***************************************************************************)
EXTENDS Naturals, Sequences, FiniteSets

CONSTANTS Ports,      \* SerialPort objects
          Switches,   \* AtlonaSwitchId
          None,       \* no port
          MaxWrites,  \* bound: commands of a port not written yet
          MaxFaults   \* bound: cables pulled, failed writes, missing answers

(* As in SerialPrinter; "losing" and "failing" are closes the service      *)
(* waits for, in onDeviceLost and handlePortError.                         *)
Closing == {"gone", "losing", "failing"}
PortStates == {"free", "opening", "open", "dead"} \cup Closing

Commands == [kind : {"hold", "release"}, switch : Switches]

VARIABLES
  plugged, announced,
  handle,          \* every SerialPort object
  port, known,     \* this.port; devicePath is set
  identified,      \* this.identified
  asking,          \* the ports whose handshake waits for "AC"
  writes,          \* per port: hold and release commands being written to it
  switchState,     \* the switches it believes held
  reconnectTimer,
  firmware,        \* the sketch: isIdentified and the switches held LOW
  view,            \* the slice: phase, and the switches shown as held
  reopened,        \* history: the path was opened for a lost device
  faults

env == <<plugged, announced, faults>>
line == <<handle, port, known, reconnectTimer, reopened>>
vars == <<env, line, identified, asking, writes, switchState, firmware, view>>

Fresh == [identified |-> FALSE, held |-> {}]

Init ==
  /\ plugged \in BOOLEAN /\ announced = FALSE /\ faults = 0
  /\ handle = [p \in Ports |-> "free"] /\ port = None /\ known = FALSE
  /\ identified = FALSE /\ asking = {} /\ switchState = {}
  /\ writes = [p \in Ports |-> <<>>]
  /\ reconnectTimer = FALSE /\ firmware = Fresh /\ reopened = FALSE
  /\ view = [phase |-> "disconnected", held |-> {}]

IsOpen(p) == p # None /\ handle[p] \in {"open", "dead"}
Locked == \E p \in Ports : handle[p] \in {"open", "dead"} \cup Closing

-----------------------------------------------------------------------------
(* The adapter *)

(* atlona-device-identified, -connected, atlona-identified-complete        *)
OnDevice(v, complete) == [v EXCEPT !.phase = IF complete THEN "ready" ELSE "connecting"]

(* atlona-device-disconnected, -lost                                       *)
Shut(v) == [phase |-> "disconnected", held |-> {}]

(* recoverable-error                                                       *)
OnError(v) == [v EXCEPT !.phase = IF @ \in {"ready", "disconnected"} THEN "connecting" ELSE @]

After(held, c) == IF c.kind = "hold" THEN held \cup {c.switch} ELSE held \ {c.switch}

(* atlona-switch-held, -released                                           *)
OnSwitch(v, c) == [phase |-> "ready", held |-> After(v.held, c)]

-----------------------------------------------------------------------------
(* The sketch *)

(* loop: "identify", "identify_complete", and the switches once identified *)
Obey(f, c) ==
  CASE c.kind = "identify" -> [f EXCEPT !.identified = FALSE]
    [] c.kind = "identify_complete" -> [f EXCEPT !.identified = TRUE]
    [] OTHER -> IF f.identified THEN [f EXCEPT !.held = After(@, c)] ELSE f

-----------------------------------------------------------------------------
(* The cable, and discovery (plugins/serial.ts) *)

Plug ==
  /\ ~plugged /\ plugged' = TRUE /\ firmware' = Fresh
  /\ UNCHANGED <<announced, faults, line, identified, asking, writes, switchState, view>>

Unplug ==
  /\ plugged /\ faults < MaxFaults
  /\ plugged' = FALSE /\ faults' = faults + 1
  /\ handle' = [p \in Ports |-> IF handle[p] = "open" THEN "dead" ELSE handle[p]]
  /\ UNCHANGED <<announced, port, known, reconnectTimer, reopened, identified, asking, writes,
                 switchState, firmware, view>>

Disconnected(p) ==
  /\ handle[p] = "dead"
  /\ handle' = [handle EXCEPT ![p] = "gone"]
  /\ UNCHANGED <<env, port, known, reconnectTimer, reopened, identified, asking, writes,
                 switchState, firmware, view>>

(* device:identified: discovery has had the path open to probe it.         *)
DeviceIdentified ==
  /\ plugged /\ ~announced /\ ~Locked
  /\ announced' = TRUE

(* device:lost                                                             *)
DeviceLost ==
  /\ announced /\ ~plugged
  /\ announced' = FALSE

-----------------------------------------------------------------------------
(* Opening and the handshake *)

(* openPort, to port.open(): what was identified is so no more.            *)
OpenPort ==
  /\ \E p \in Ports \ asking :
       handle[p] = "free" /\ handle' = [handle EXCEPT ![p] = "opening"]
  /\ identified' = FALSE

onDeviceIdentified ==
  /\ DeviceIdentified
  /\ known' = TRUE
  /\ view' = OnDevice(view, FALSE)
  /\ OpenPort
  /\ UNCHANGED <<plugged, faults, port, reconnectTimer, reopened, asking, writes,
                 switchState, firmware>>

(* onOpen, to the write of "identify"                                      *)
Opened(p) ==
  /\ handle[p] = "opening" /\ plugged /\ ~Locked
  /\ handle' = [handle EXCEPT ![p] = "open"]
  /\ port' = p /\ asking' = asking \cup {p}
  /\ reopened' = (reopened \/ ~announced)
  /\ firmware' = Obey(firmware, [kind |-> "identify"])
  /\ view' = OnDevice(view, FALSE)
  /\ UNCHANGED <<env, known, reconnectTimer, identified, writes, switchState>>

(* handlePortOpenError                                                     *)
OpenFails(p) ==
  /\ handle[p] = "opening" /\ (~plugged \/ Locked)
  /\ handle' = [handle EXCEPT ![p] = "free"]
  /\ reconnectTimer' = TRUE
  /\ view' = OnError(view)
  /\ UNCHANGED <<env, port, known, reopened, identified, asking, writes, switchState, firmware>>

(* "AC" comes: "identify_complete".                                        *)
Answered ==
  /\ port \in asking /\ handle[port] = "open"
  /\ asking' = asking \ {port} /\ identified' = TRUE
  /\ firmware' = Obey(firmware, [kind |-> "identify_complete"])
  /\ view' = OnDevice(view, TRUE)
  /\ UNCHANGED <<env, line, writes, switchState>>

(* tryReconnect                                                            *)
ReconnectFires ==
  /\ reconnectTimer /\ reconnectTimer' = FALSE
  /\ IF known THEN OpenPort ELSE UNCHANGED <<handle, identified>>
  /\ UNCHANGED <<env, port, known, reopened, asking, writes, switchState, firmware, view>>

-----------------------------------------------------------------------------
(* Closing *)

(* closePort by a caller that waits for port.close(); without an open port *)
(* it is done at once, and shows it when there was one.                    *)
CloseAs(how, v) ==
  /\ port' = None
  /\ IF IsOpen(port)
     THEN /\ handle' = [handle EXCEPT ![port] = how]
          /\ view' = v /\ UNCHANGED <<identified, switchState>>
     ELSE /\ identified' = FALSE /\ switchState' = {}
          /\ view' = IF port # None THEN Shut(v) ELSE v
          /\ UNCHANGED handle

onDeviceLost ==
  /\ DeviceLost
  /\ reconnectTimer' = FALSE
  /\ CloseAs("losing", IF IsOpen(port) THEN view ELSE Shut(view))
  /\ UNCHANGED <<plugged, faults, known, reopened, asking, writes, firmware>>

(* The handshake of p ends without an answer, long after its port when     *)
(* that is closed: handlePortError, of whatever port there is then.        *)
NotAnswered(p) ==
  /\ p \in asking /\ asking' = asking \ {p}
  /\ \/ handle[p] # "open" /\ UNCHANGED faults
     \/ handle[p] = "open" /\ faults < MaxFaults /\ faults' = faults + 1
  /\ CloseAs("failing", OnError(view))
  /\ reconnectTimer' = (reconnectTimer \/ ~IsOpen(port))
  /\ UNCHANGED <<plugged, announced, known, reopened, writes, firmware>>

(* Mutant: an error that the port is closed for shows its switches still.  *)
ShutPhase(v) == [v EXCEPT !.phase = "disconnected"]

(* The end of closePort, for whoever called it.                            *)
Ended(v) == Shut(v)

(* handlePortClose does not ask who closed the port.                       *)
Retries(how) == TRUE

(* 'close': handlePortClose, which closes what this.port is by then, then  *)
(* the callback of port.close() and what its caller does next.  What was   *)
(* not written yet is rejected.                                            *)
Closed(p) ==
  /\ handle[p] \in Closing
  /\ handle' = [handle EXCEPT ![p] = "free"]
  /\ port' = None
  /\ identified' = FALSE /\ switchState' = {}
  /\ reconnectTimer' = (reconnectTimer \/ Retries(handle[p]))
  /\ view' = IF handle[p] # "gone" \/ port # None THEN Ended(view) ELSE view
  /\ writes' = [writes EXCEPT ![p] = <<>>]
  /\ UNCHANGED <<env, known, reopened, asking, firmware>>

-----------------------------------------------------------------------------
(* holdSwitch and releaseSwitch (ws.ts: handleAtlonaCommand) *)

Command(kind, s) ==
  /\ IsOpen(port) /\ identified /\ Len(writes[port]) < MaxWrites
  /\ writes' = [writes EXCEPT ![port] = Append(@, [kind |-> kind, switch |-> s])]
  /\ UNCHANGED <<env, line, identified, asking, switchState, firmware, view>>

(* The write is finished: the board has the command, the service believes  *)
(* it and shows it.                                                        *)
Written(p) ==
  /\ writes[p] # <<>> /\ handle[p] \in {"open", "losing", "failing"}
  /\ LET c == Head(writes[p])
     IN  /\ firmware' = Obey(firmware, c)
         /\ switchState' = After(switchState, c)
         /\ view' = OnSwitch(view, c)
  /\ writes' = [writes EXCEPT ![p] = Tail(@)]
  /\ UNCHANGED <<env, line, identified, asking>>

(* The write fails on an open port: the command is dropped and the port in *)
(* error.                                                                  *)
WriteFails ==
  /\ port # None /\ handle[port] = "open" /\ writes[port] # <<>>
  /\ faults < MaxFaults /\ faults' = faults + 1
  /\ writes' = [writes EXCEPT ![port] = Tail(@)]
  /\ CloseAs("failing", OnError(view))
  /\ UNCHANGED <<plugged, announced, known, reopened, reconnectTimer, asking, firmware>>

-----------------------------------------------------------------------------
Next ==
  \/ Plug \/ Unplug \/ onDeviceIdentified \/ onDeviceLost
  \/ Answered \/ ReconnectFires \/ WriteFails
  \/ \E p \in Ports : \/ Disconnected(p) \/ Opened(p) \/ OpenFails(p) \/ Closed(p)
                     \/ NotAnswered(p) \/ Written(p)
  \/ \E kind \in {"hold", "release"}, s \in Switches : Command(kind, s)

(* Fairness: discovery keeps scanning, node runs its timers and delivers   *)
(* the events of its ports, and a board that is asked again and again      *)
(* answers, within the time of its handshake.                              *)
Fairness ==
  /\ WF_vars(onDeviceIdentified) /\ WF_vars(onDeviceLost)
  /\ WF_vars(ReconnectFires) /\ SF_vars(Answered)
  /\ WF_vars(WriteFails \/ \E p \in Ports : Written(p))
  /\ \A p \in Ports :
       /\ WF_vars(Disconnected(p) \/ Opened(p) \/ OpenFails(p) \/ Closed(p))
       /\ WF_vars(NotAnswered(p))

Spec == Init /\ [][Next]_vars /\ Fairness

-----------------------------------------------------------------------------
(* Properties *)

(* Every variable keeps to the values the code gives it.                   *)
TypeOK ==
  /\ {plugged, announced, known, identified, reconnectTimer, reopened} \subseteq BOOLEAN
  /\ handle \in [Ports -> PortStates]
  /\ port \in Ports \cup {None} /\ asking \subseteq Ports
  /\ writes \in [Ports -> Seq(Commands)]
  /\ switchState \subseteq Switches
  /\ firmware \in [identified : BOOLEAN, held : SUBSET Switches]
  /\ view \in [phase : {"disconnected", "connecting", "ready"}, held : SUBSET Switches]
  /\ faults \in 0..MaxFaults

(* The pane shows as held the switches the service believes held, through  *)
(* errors, losses and reconnects, once the ports it closes are closed.     *)
SwitchesShown ==
  (\A p \in Ports : handle[p] \notin {"losing", "failing"}) => view.held = switchState

(* A controller that stays plugged in is held open again, however its port *)
(* was lost.                                                               *)
ControllerReturns == <>[]plugged => <>[](port # None /\ handle[port] = "open")

(* "Discovery-driven device-lost events should still be respected"         *)
(* (types.ts:17): a lost controller is not opened before it is identified. *)
LostIsRespected == ~reopened
=============================================================================
