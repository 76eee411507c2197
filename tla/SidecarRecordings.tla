-------------------------- MODULE SidecarRecordings --------------------------
(***************************************************************************)
(* The recordings of the ffmpeg sidecar: ffmpeg processes that read the    *)
(* sidecar's own stream and write a file each (src/recordings.js), behind  *)
(* the routes of src/server.js.                                            *)
(*                                                                         *)
(* One step is one callback of node's event loop.  A path is a directory   *)
(* made from the reference and a file name made from it and the second.    *)
(***************************************************************************)
EXTENDS Naturals, FiniteSets

CONSTANTS Recordings,     \* ids of recordings
          Paths,          \* output paths
          None,
          MaxRecordings   \* config.maxRecordings

States == {"idle", "recording", "stopping", "completed", "failed"}
Procs == {"none", "spawning", "live", "closing"}

VARIABLES
  state,   \* per recording: its state, "idle" before it is in the registry
  path,    \* its outputPath
  proc,    \* its ffmpeg: being spawned in vain, running, or ended
  clean,   \* whether that process ended well
  files    \* files under recordingsRoot

vars == <<state, path, proc, clean, files>>

Init ==
  /\ state = [r \in Recordings |-> "idle"]
  /\ path = [r \in Recordings |-> None]
  /\ proc = [r \in Recordings |-> "none"]
  /\ clean = [r \in Recordings |-> TRUE]
  /\ files = {}

(* Mutant: a recording that is being stopped is not active.                *)
ActiveStarted == {r \in Recordings : state[r] = "recording"}

(* getActiveRecordingCount                                                 *)
Active == {r \in Recordings : state[r] \in {"recording", "stopping"}}

(* handleStartRecording, startRecording: ffmpeg -y takes whatever file has *)
(* the name; it may also turn out that it cannot be spawned.               *)
startRecording(r) ==
  /\ state[r] = "idle" /\ proc[r] = "none"
  /\ Cardinality(Active) < MaxRecordings
  /\ state' = [state EXCEPT ![r] = "recording"]
  /\ \E f \in Paths, p \in {"spawning", "live"} :
       /\ path' = [path EXCEPT ![r] = f]
       /\ proc' = [proc EXCEPT ![r] = p]
       /\ files' = IF p = "live" THEN files \cup {f} ELSE files
  /\ clean' = [clean EXCEPT ![r] = TRUE]

(* 'error': it could not be spawned.  'close' follows.                     *)
SpawnError(r) ==
  /\ proc[r] = "spawning"
  /\ state' = [state EXCEPT ![r] = "failed"]
  /\ proc' = [proc EXCEPT ![r] = "closing"]
  /\ clean' = [clean EXCEPT ![r] = FALSE]
  /\ UNCHANGED <<path, files>>

(* handleStopRecording, stopRecording: SIGINT, if there is a process and   *)
(* it has not been asked before; else the recording is answered as it is.  *)
stopRecording(r) ==
  /\ state[r] = "recording"
  /\ state' = [state EXCEPT ![r] = "stopping"]
  /\ UNCHANGED <<path, proc, clean, files>>

(* The process ends: interrupted, on its own, or because the stream was    *)
(* refused (503) or ended.                                                 *)
Exits(r) ==
  /\ proc[r] = "live"
  /\ proc' = [proc EXCEPT ![r] = "closing"]
  /\ \E ok \in BOOLEAN : clean' = [clean EXCEPT ![r] = ok]
  /\ UNCHANGED <<state, path, files>>

(* What 'close' makes of a state: what was being stopped is completed,     *)
(* whatever the exit code.                                                 *)
Final(s) == CASE s = "stopping" -> "completed" [] s = "recording" -> "failed" [] OTHER -> s

Close(r) ==
  /\ proc[r] = "closing"
  /\ proc' = [proc EXCEPT ![r] = "none"]
  /\ state' = [state EXCEPT ![r] = Final(@)]
  /\ UNCHANGED <<path, clean, files>>

(* handleClearRecordings, clearAllRecordings: the registry and the files;  *)
(* a file that cannot be removed stays.                                    *)
clearAllRecordings ==
  /\ Active = {}
  /\ state' = [r \in Recordings |-> "idle"]
  /\ files' \in SUBSET files
  /\ UNCHANGED <<path, proc, clean>>

Next ==
  \/ clearAllRecordings
  \/ \E r \in Recordings : \/ startRecording(r) \/ SpawnError(r) \/ stopRecording(r)
                           \/ Exits(r) \/ Close(r)

(* Fairness: node delivers the events it has; ffmpeg ends on SIGINT.       *)
Fairness ==
  \A r \in Recordings : /\ WF_vars(SpawnError(r)) /\ WF_vars(Close(r))
                        /\ WF_vars(state[r] = "stopping" /\ Exits(r))

Spec == Init /\ [][Next]_vars /\ Fairness

-----------------------------------------------------------------------------
(* Properties *)

(* Every variable keeps to the values the code gives it.                   *)
TypeOK ==
  /\ state \in [Recordings -> States]
  /\ path \in [Recordings -> Paths \cup {None}]
  /\ proc \in [Recordings -> Procs]
  /\ clean \in [Recordings -> BOOLEAN]
  /\ files \subseteq Paths

Running == {r \in Recordings : proc[r] = "live"}

(* No more ffmpeg processes record than the configuration allows, and the  *)
(* workspace is never cleared under one that does.                         *)
RecordingsBounded ==
  /\ Cardinality(Running) <= MaxRecordings
  /\ \A r \in Running : path[r] \in files

(* A recording that is being stopped comes to its end.                     *)
StopsSettle ==
  \A r \in Recordings : state[r] = "stopping" ~> state[r] \in {"completed", "failed"}

(* docs/sidecar-recordings-user-guide.md: "completed - recording finished  *)
(* cleanly".                                                               *)
CompletedCleanly == \A r \in Recordings : state[r] = "completed" => clean[r]
=============================================================================
