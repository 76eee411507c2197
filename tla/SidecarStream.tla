------------------------------- MODULE SidecarStream -------------------------------
(***************************************************************************)
(* The stream of the ffmpeg sidecar: the capture process and its restarts, *)
(* and the MJPEG clients, slow ones, limited ones and ones that leave      *)
(* (src/capture.js), behind /stream of src/server.js and, for browsers,    *)
(* behind the orchestrator's plugins/streamProxy.ts.  The recordings are   *)
(* clients like any other.                                                 *)
(*                                                                         *)
(* One step is one callback of node's event loop.  A frame is its number.  *)
(***************************************************************************)
EXTENDS Naturals, FiniteSets

CONSTANTS Processes,      \* identities of capture processes
          Clients,        \* clients of /stream
          None,
          MaxClients,     \* config.maxStreamClients
          HighWater,      \* frames a response takes before write() says stop
          MaxFrames       \* bound: frames captured

(* A client of the stream: "on" in streamClients, "gone" when its response *)
(* is destroyed and 'close' has not been handled, or not there.            *)
ClientStates == [link : {"off", "on", "gone"}, limited : BOOLEAN,
                 buffered : 0..HighWater, backpressured : BOOLEAN,
                 pending : 0..MaxFrames, sent : 0..MaxFrames]
NoClient == [link |-> "off", limited |-> FALSE, buffered |-> 0,
             backpressured |-> FALSE, pending |-> 0, sent |-> 0]

VARIABLES
  process,    \* capture processes: "none", "spawning", "live", "closing"
  ffmpegProc, \* the one capture.js holds
  running,    \* state.capture.running
  restart,    \* restartTimer is set
  frame,      \* frames captured so far
  lastFrame,  \* state.capture.lastFrame, 0 for null
  client      \* streamClients

capture == <<process, ffmpegProc, running, restart, frame, lastFrame>>
vars == <<capture, client>>

Init ==
  /\ process = [p \in Processes |-> "none"] /\ ffmpegProc = None
  /\ running = FALSE /\ restart = FALSE
  /\ frame = 0 /\ lastFrame = 0
  /\ client = [c \in Clients |-> NoClient]

-----------------------------------------------------------------------------
(* Capture *)

(* startCapture.  A process that cannot be spawned says so later.          *)
StartCapture ==
  IF ffmpegProc # None
  THEN UNCHANGED <<process, ffmpegProc, running, lastFrame>>
  ELSE \E p \in Processes :
         /\ process[p] = "none"
         /\ \E s \in {"live", "spawning"} : process' = [process EXCEPT ![p] = s]
         /\ ffmpegProc' = p /\ running' = TRUE /\ lastFrame' = 0

(* scheduleRestart *)
RestartScheduled == restart' = TRUE

(* 'error' of a process that could not be spawned; 'close' follows.        *)
ProcessError(p) ==
  /\ process[p] = "spawning"
  /\ process' = [process EXCEPT ![p] = "closing"]
  /\ ffmpegProc' = None /\ running' = FALSE
  /\ restart' = TRUE
  /\ UNCHANGED <<frame, lastFrame, client>>

Exits(p) ==
  /\ process[p] = "live"
  /\ process' = [process EXCEPT ![p] = "closing"]
  /\ UNCHANGED <<ffmpegProc, running, restart, frame, lastFrame, client>>

(* 'close', of whichever process.                                          *)
ProcessClose(p) ==
  /\ process[p] = "closing"
  /\ process' = [process EXCEPT ![p] = "none"]
  /\ ffmpegProc' = None /\ running' = FALSE
  /\ RestartScheduled
  /\ UNCHANGED <<frame, lastFrame, client>>

RestartFires ==
  /\ restart
  /\ restart' = FALSE
  /\ StartCapture
  /\ UNCHANGED <<frame, client>>

-----------------------------------------------------------------------------
(* Sending frames *)

(* Mutant: a frame that is already waiting is kept.                        *)
MarkFirst(k, f) == [k EXCEPT !.pending = IF @ = 0 THEN f ELSE @]

(* markClientPendingLatest; with no last frame there is nothing to mark.   *)
Mark(k, f) == [k EXCEPT !.pending = IF f = 0 THEN @ ELSE f]

(* write() answers false: the response holds what it can.                  *)
Full(k) == k.buffered >= HighWater

(* tryWritePartToClient: f is written, and when the response is full the   *)
(* latest frame waits for 'drain'.                                         *)
Write(k, f, latest) ==
  LET w == [k EXCEPT !.buffered = @ + 1, !.sent = f]
  IN  IF Full(w) THEN Mark([w EXCEPT !.backpressured = TRUE], latest) ELSE w

(* broadcastFrame for one client that may, or may not yet, be sent to.     *)
Broadcast(k, f, mayNow) ==
  CASE k.link = "gone" -> NoClient
    [] k.link = "off" -> k
    [] k.link = "on" /\ (k.backpressured \/ ~mayNow) -> Mark(k, f)
    [] OTHER -> LET w == Write(k, f, f)
                IN  IF w.backpressured THEN w ELSE [w EXCEPT !.pending = 0]

(* handleStdoutChunk has a whole frame.  A client with no maxFps can       *)
(* always be sent to; a write that throws ends the connection.             *)
Frame ==
  /\ \E p \in Processes : process[p] = "live"
  /\ frame < MaxFrames
  /\ frame' = frame + 1 /\ lastFrame' = frame + 1
  /\ \E may \in SUBSET Clients, broken \in SUBSET {c \in Clients : client[c].link = "on"} :
       /\ \A c \in Clients : client[c].limited \/ c \in may
       /\ Cardinality(broken) <= 1
       /\ client' = [c \in Clients |->
                       IF c \in broken /\ c \in may /\ ~client[c].backpressured
                       THEN NoClient
                       ELSE Broadcast(client[c], frame + 1, c \in may)]
  /\ UNCHANGED <<process, ffmpegProc, running, restart>>

(* The network takes a frame; the last one of a full response is 'drain'.  *)
Flush(c) ==
  /\ client[c].link = "on"
  /\ client[c].buffered > (IF client[c].backpressured THEN 1 ELSE 0)
  /\ client' = [client EXCEPT ![c].buffered = @ - 1]
  /\ UNCHANGED <<capture>>

(* onClientDrain: the frame that waits is sent, or kept when the client's  *)
(* maxFps forbids it.                                                      *)
Drained(k, mayNow) ==
  LET d == [k EXCEPT !.buffered = 0, !.backpressured = FALSE]
  IN  IF mayNow /\ k.pending # 0
      THEN Write([d EXCEPT !.pending = 0], k.pending, lastFrame)
      ELSE d

Drain(c) ==
  /\ client[c].link = "on" /\ client[c].backpressured /\ client[c].buffered = 1
  /\ \E mayNow \in BOOLEAN :
       /\ client[c].limited \/ mayNow
       /\ client' = [client EXCEPT ![c] = Drained(client[c], mayNow)]
  /\ UNCHANGED <<capture>>

-----------------------------------------------------------------------------
(* The routes: /stream *)

Connected == {c \in Clients : client[c].link # "off"}

(* addStreamClient: a client over the limit is refused.                    *)
Room == Cardinality(Connected) < MaxClients

Joins(c, limited) ==
  IF Room THEN client' = [client EXCEPT ![c] = [NoClient EXCEPT !.link = "on",
                                                                !.limited = limited]]
  ELSE UNCHANGED client

handleStream(v) ==
  /\ client[v].link = "off"
  /\ StartCapture
  /\ \E limited \in BOOLEAN : Joins(v, limited)
  /\ UNCHANGED <<restart, frame>>

(* The viewer goes; 'close' of its request and response come later.        *)
Leaves(v) ==
  /\ client[v].link = "on"
  /\ client' = [client EXCEPT ![v].link = "gone"]
  /\ UNCHANGED <<capture>>

ClientClose(c) ==
  /\ client[c].link = "gone"
  /\ client' = [client EXCEPT ![c] = NoClient]
  /\ UNCHANGED <<capture>>

-----------------------------------------------------------------------------
Capturing == \E p \in Processes : ProcessError(p) \/ Exits(p) \/ ProcessClose(p)

Next ==
  \/ Capturing \/ RestartFires \/ Frame
  \/ \E c \in Clients : handleStream(c) \/ Flush(c) \/ Drain(c) \/ Leaves(c) \/ ClientClose(c)

(* Fairness: node delivers the events it has and runs its timers.          *)
Fairness ==
  /\ WF_vars(RestartFires)
  /\ \A p \in Processes : WF_vars(ProcessError(p)) /\ WF_vars(ProcessClose(p))

Spec == Init /\ [][Next]_vars /\ Fairness

-----------------------------------------------------------------------------
(* Properties *)

(* Every variable keeps to the values the code gives it, and a client's    *)
(* response never holds more than what it said stop at: "no unbounded      *)
(* buffering" (broadcastFrame).                                            *)
TypeOK ==
  /\ process \in [Processes -> {"none", "spawning", "live", "closing"}]
  /\ ffmpegProc \in Processes \cup {None}
  /\ running \in BOOLEAN /\ restart \in BOOLEAN
  /\ frame \in 0..MaxFrames /\ lastFrame \in 0..frame
  /\ client \in [Clients -> ClientStates]

(* A client never sees an older frame after a newer one, whatever mixture  *)
(* of slow writes, drains, maxFps and restarts it meets.                   *)
FramesInOrder ==
  [][\A c \in Clients :
       client[c].link = "on" /\ client[c]'.link = "on" => client[c]'.sent >= client[c].sent]_vars

(* "Keep only the latest pending frame": what a slow client will be sent   *)
(* is the last frame of the capture that runs.                             *)
LatestWaits ==
  \A c \in Clients : client[c].backpressured /\ lastFrame # 0 =>
                       client[c].pending = lastFrame

(* A capture that has ended is started again.                              *)
CaptureReturns == restart \/ (\E p \in Processes : process[p] = "closing") ~> running
=============================================================================
