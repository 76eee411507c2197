------------------------------ MODULE WSClient ------------------------------
(***************************************************************************)
(* The browser's WebSocket client (apps/web/src/lib/wsClient.ts): opening, *)
(* heartbeat, close intents and reconnection with backoff.  The page calls *)
(* connect() once (bootstrap.ts startRealtime).  A step is one callback of *)
(* the browser's event loop.  Delays are left out; what matters of them is *)
(* whether the pong timeout is shorter than the heartbeat interval, as it  *)
(* is by default (5 s and 10 s).                                           *)
(***************************************************************************)
EXTENDS Naturals

CONSTANTS MaxFailures,   \* bound: failures of the network or the server
          MaxPings       \* bound: pings and pongs in flight, each

ASSUME BoundsAssumption == MaxFailures \in Nat /\ MaxPings \in Nat \ {0}

VARIABLES
  reconnectEnabled,   \* the constructor's option, from the environment
  timeoutBeforeBeat,  \* so are the heartbeat timeout and interval: timeout < interval
  socket,     \* readyState of this.ws, "none" before connect()
  intent,     \* closeIntent
  wanted,     \* shouldReconnect
  beat,       \* hbTimer is set
  pong,       \* pongTimer is set
  timer,      \* reconnectTimer is set
  status,     \* the last status emitted
  attempts,   \* exponent of the backoff
  alive,      \* frames still get through on this socket
  pings,      \* pings on their way to the server
  pongs,      \* pongs on their way back
  failures    \* bounded by MaxFailures

options == <<reconnectEnabled, timeoutBeforeBeat>>
net == <<alive, pings, pongs>>
client == <<options, socket, intent, wanted, beat, pong, timer, status, attempts>>
vars == <<client, net, failures>>

Init ==
  /\ reconnectEnabled \in BOOLEAN /\ timeoutBeforeBeat \in BOOLEAN
  /\ socket = "none" /\ intent = "none" /\ wanted = TRUE
  /\ beat = FALSE /\ pong = FALSE /\ timer = FALSE
  /\ status = "disconnected"
  /\ attempts = 0
  /\ alive = FALSE /\ pings = 0 /\ pongs = 0
  /\ failures = 0

Failure == failures < MaxFailures /\ failures' = failures + 1

-----------------------------------------------------------------------------
(* openSocket.  close() on the old socket does nothing when the socket is  *)
(* closed already, but the intent stays.                                   *)
openSocket ==
  /\ socket' = "connecting"
  /\ intent' = IF socket # "none" THEN "reopen" ELSE intent

connect ==
  /\ socket = "none" /\ wanted
  /\ openSocket
  /\ UNCHANGED <<options, wanted, beat, pong, timer, status, attempts, net, failures>>

(* Mutant: onopen starts no heartbeat.                                     *)
onopenQuiet ==
  /\ socket = "connecting"
  /\ socket' = "open" /\ alive' = TRUE
  /\ timer' = FALSE
  /\ status' = "connected" /\ attempts' = 0
  /\ UNCHANGED <<options, intent, wanted, beat, pong, pings, pongs, failures>>

onopen ==
  /\ socket = "connecting"
  /\ socket' = "open" /\ alive' = TRUE
  /\ timer' = FALSE
  /\ beat' = TRUE /\ pong' = FALSE
  /\ status' = "connected" /\ attempts' = 0
  /\ UNCHANGED <<options, intent, wanted, pings, pongs, failures>>

(* Mutant: reconnects are scheduled after shutdown() too.                  *)
maybeScheduleAnyway ==
  /\ timer' = (timer \/ reconnectEnabled)
  /\ status' = IF reconnectEnabled THEN "reconnecting" ELSE "disconnected"

(* The status and maybeScheduleReconnect.                                  *)
maybeScheduleReconnect ==
  IF reconnectEnabled /\ wanted
  THEN timer' = TRUE /\ status' = "reconnecting"
  ELSE timer' = timer /\ status' = "disconnected"

onclose ==
  /\ socket' = "closed"
  /\ alive' = FALSE /\ pings' = 0 /\ pongs' = 0
  /\ intent' = "none"
  /\ beat' = FALSE /\ pong' = FALSE
  /\ IF intent = "reopen" THEN UNCHANGED <<timer, status>> ELSE maybeScheduleReconnect
  /\ UNCHANGED <<options, wanted, attempts>>

(* The connection cannot be made, or is lost, or close() has completed.    *)
ConnectFails == socket = "connecting" /\ Failure /\ onclose
Dropped == socket = "open" /\ Failure /\ onclose
Closed == socket = "closing" /\ onclose /\ UNCHANGED failures

(* The connection is half open: nothing arrives, nothing is reported.      *)
GoesSilent ==
  /\ socket = "open" /\ alive
  /\ Failure
  /\ alive' = FALSE /\ pings' = 0 /\ pongs' = 0
  /\ UNCHANGED client

-----------------------------------------------------------------------------
(* Heartbeat *)

SendPing ==
  IF socket = "open" /\ alive
  THEN pings < MaxPings /\ pings' = pings + 1 ELSE UNCHANGED pings

(* doHeartbeat: ping, restart the pong timeout, schedule the next ping.    *)
doHeartbeat ==
  /\ beat
  /\ timeoutBeforeBeat => ~pong
  /\ IF socket = "open" THEN pong' = TRUE /\ beat' = TRUE
     ELSE pong' = pong /\ beat' = FALSE
  /\ SendPing
  /\ UNCHANGED <<options, socket, intent, wanted, timer, status, attempts, alive, pongs, failures>>

(* Mutant: the server beats by itself.                                     *)
ServerPongUnasked ==
  /\ pongs < MaxPings
  /\ pings' = pings - 1 /\ pongs' = pongs + 1
  /\ UNCHANGED <<client, alive, failures>>

(* The server answers each ping with a pong.                               *)
ServerPong ==
  /\ pings > 0 /\ pongs < MaxPings
  /\ pings' = pings - 1 /\ pongs' = pongs + 1
  /\ UNCHANGED <<client, alive, failures>>

(* onmessage for a pong: whichever ping it answers, nothing is awaited.    *)
PongArrives ==
  /\ socket = "open" /\ pongs > 0
  /\ pongs' = pongs - 1
  /\ pong' = FALSE
  /\ UNCHANGED <<options, socket, intent, wanted, beat, timer, status, attempts, alive, pings, failures>>

(* No pong, or not in time: the socket is closed.                          *)
PongTimeout ==
  /\ pong
  /\ pong' = FALSE
  /\ socket' = IF socket = "open" THEN "closing" ELSE socket
  /\ IF alive THEN Failure ELSE UNCHANGED failures
  /\ UNCHANGED <<options, intent, wanted, beat, timer, status, attempts, net>>

ReconnectTimer ==
  /\ timer
  /\ timer' = FALSE
  /\ attempts' = attempts + 1
  /\ openSocket
  /\ UNCHANGED <<options, wanted, beat, pong, status, net, failures>>

shutdown ==
  /\ wanted /\ socket # "none"
  /\ wanted' = FALSE
  /\ intent' = "shutdown"
  /\ beat' = FALSE /\ pong' = FALSE /\ timer' = FALSE
  /\ socket' = IF socket \in {"connecting", "open"} THEN "closing" ELSE socket
  /\ status' = "disconnected"
  /\ UNCHANGED <<options, attempts, net, failures>>

-----------------------------------------------------------------------------
Next ==
  \/ connect \/ onopen \/ ConnectFails \/ Dropped \/ Closed \/ GoesSilent
  \/ doHeartbeat \/ ServerPong \/ PongArrives \/ PongTimeout \/ ReconnectTimer \/ shutdown

Spec == Init /\ [][Next]_vars

(* Timers fire and a closing socket is reported closed.                    *)
Fairness ==
  WF_vars(doHeartbeat) /\ WF_vars(PongTimeout) /\ WF_vars(Closed) /\ WF_vars(ReconnectTimer)

FairSpec == Spec /\ Fairness

-----------------------------------------------------------------------------
(* Properties *)

FlagsOK ==
  /\ reconnectEnabled \in BOOLEAN /\ timeoutBeforeBeat \in BOOLEAN
  /\ socket \in {"none", "connecting", "open", "closing", "closed"}
  /\ intent \in {"none", "reopen", "shutdown"}
  /\ wanted \in BOOLEAN /\ beat \in BOOLEAN /\ pong \in BOOLEAN
  /\ timer \in BOOLEAN /\ alive \in BOOLEAN
  /\ status \in {"connected", "reconnecting", "disconnected"}

CountersOK ==
  /\ attempts \in Nat /\ failures \in 0..MaxFailures
  /\ pings \in 0..MaxPings /\ pongs \in 0..MaxPings

(* Every variable keeps to the values the code gives it.                   *)
TypeOK == FlagsOK /\ CountersOK

(* A reconnect only ever waits while the previous socket is fully closed,  *)
(* so the timer never replaces a live one, and only while it is wanted: no *)
(* late close event revives a client that was shut down.                   *)
RetryOnlyWhenClosed == timer => socket = "closed" /\ wanted

(* Every open socket is probed: the heartbeat of one survives the timers   *)
(* and close events of those before it.                                    *)
OpenSocketIsProbed == socket = "open" => beat

(* A connection that has gone silent is given up, by the heartbeat alone,  *)
(* if the pong timeout is the shorter one: each beat restarts the timeout. *)
SilenceIsNoticed == (timeoutBeforeBeat /\ socket = "open" /\ ~alive) ~> socket # "open"

(* wsClient.ts, onerror: "rely on onclose for reconnect".  A closed client *)
(* that wants its connection back has a reconnect scheduled.               *)
ReconnectsAfterClose == socket = "closed" /\ wanted /\ reconnectEnabled => timer
=============================================================================
