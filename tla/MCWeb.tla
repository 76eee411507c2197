------------------------------- MODULE MCWeb --------------------------------
(***************************************************************************)
(* Model checking the browser's WebSocket client, the stream pane (its     *)
(* capture of keyboard and mouse, and its viewer) and the ffmpeg sidecar   *)
(* behind it (its stream and its recordings).  What one of them takes from *)
(* another is an input of its own module, so they are checked one at a     *)
(* time: a behaviour is one of the part named by part, the others rest.    *)
(***************************************************************************)
EXTENDS WSClient, FiniteSets

CONSTANTS
  Processes, Clients, None, MaxClients, HighWater, MaxFrames,
  Recordings, Paths, MaxRecordings,
  Buttons, Modifiers, Panel, MaxDelta, MaxPending, MaxQueue

(* What the proofs need to know: bounds are numbers, a response takes a     *)
(* frame before it is full, and a control is of one kind.                  *)
ASSUME WebAssumption ==
  /\ {MaxFrames, MaxRecordings, MaxDelta, MaxPending, MaxQueue} \subseteq Nat
  /\ HighWater \in Nat \ {0}
  /\ IsFiniteSet(Recordings) /\ IsFiniteSet(Buttons)
  /\ Buttons \cap (Modifiers \cup Panel) = {} /\ Modifiers \cap Panel = {}

VARIABLES
  part,
  process, ffmpegProc, running, restart, frame, lastFrame, viewers,
  recState, path, proc, clean, files,
  mounted, enabled, lock, capturing, armed, heldModifiers, heldMouseButtons,
  ready, heldByClient, pending, scheduled, online, queue, down, lost, taken,
  viewerEnabled, showControls, fpsMode, autoMaxFps, stableImproveTicks, load,
  high, polling, inFlight, recent, reloadKey

Stream == INSTANCE SidecarStream WITH client <- viewers
Recording == INSTANCE SidecarRecordings WITH state <- recState
Capture == INSTANCE StreamCapture
Viewer == INSTANCE StreamViewer WITH enabled <- viewerEnabled

streamVars == <<process, ffmpegProc, running, restart, frame, lastFrame, viewers>>
recordingVars == <<recState, path, proc, clean, files>>
captureVars ==
  <<mounted, enabled, lock, capturing, armed, heldModifiers, heldMouseButtons,
    ready, heldByClient, pending, scheduled, online, queue, down, lost, taken>>
viewerVars ==
  <<viewerEnabled, showControls, fpsMode, autoMaxFps, stableImproveTicks, load,
    high, polling, inFlight, recent, reloadKey>>

Parts == {"socket", "stream", "recording", "capture", "viewer"}

(* What rests rests in one state, so that it adds none to the others.      *)
MCInit ==
  /\ part \in Parts
  /\ Init /\ Stream!Init /\ Recording!Init /\ Capture!Init /\ Viewer!Init
  /\ part # "socket" => reconnectEnabled /\ timeoutBeforeBeat
  /\ part # "capture" => enabled /\ ready /\ online
  /\ part # "viewer" => load = 30 /\ ~high

MCNext ==
  \/ /\ part = "socket" /\ Next
     /\ UNCHANGED <<part, streamVars, recordingVars, captureVars, viewerVars>>
  \/ /\ part = "stream" /\ Stream!Next
     /\ UNCHANGED <<part, vars, recordingVars, captureVars, viewerVars>>
  \/ /\ part = "recording" /\ Recording!Next
     /\ UNCHANGED <<part, vars, streamVars, captureVars, viewerVars>>
  \/ /\ part = "capture" /\ Capture!Next
     /\ UNCHANGED <<part, vars, streamVars, recordingVars, viewerVars>>
  \/ /\ part = "viewer" /\ Viewer!Next
     /\ UNCHANGED <<part, vars, streamVars, recordingVars, captureVars>>

MCSpec ==
  MCInit /\ [][MCNext]_<<part, vars, streamVars, recordingVars, captureVars, viewerVars>>

-----------------------------------------------------------------------------
(* The sidecar bounds what it holds and starts (the frames a response is   *)
(* given, the recordings at a time) and a slow viewer has the newest frame *)
(* of the running capture waiting for it (capture.js, recordings.js).      *)
SidecarSound ==
  /\ Stream!TypeOK /\ Recording!TypeOK
  /\ Stream!LatestWaits /\ Recording!RecordingsBounded

(* No viewer of /stream is sent an older frame after a newer one, whatever *)
(* mixture of slow writes, drains, limits and restarts it meets.           *)
FramesInOrder ==
  [][\A c \in Clients :
       viewers[c].link = "on" /\ viewers[c]'.link = "on" => viewers[c]'.sent >= viewers[c].sent]_streamVars

(* The machine holds down what the stream pane holds and nothing else, but *)
(* for releases that the socket or a cancel took; a pane that has lost the *)
(* pointer lock holds nothing; its health poll runs while it shows.        *)
PaneSound ==
  /\ Capture!TypeOK /\ Viewer!TypeOK
  /\ Capture!MachineFollowsPane /\ Capture!NothingHeldUncaptured

(* What goes wrong is overcome: a silent connection is given up, a capture *)
(* that ended starts again, a recording that is being stopped ends, the    *)
(* machine's keys come up once a capture is given up, and an overloaded    *)
(* stream is capped; each under the fairness of its own part.              *)
WebRecovers ==
  /\ part = "socket" => (Fairness => SilenceIsNoticed)
  /\ part = "stream" => (Stream!Fairness => Stream!CaptureReturns)
  /\ part = "recording" => (Recording!Fairness => Recording!StopsSettle)
  /\ part = "capture" => (Capture!Fairness => Capture!CaptureEndReleases)
  /\ part = "viewer" => (Viewer!Fairness => Viewer!OverloadIsCapped)
=============================================================================
