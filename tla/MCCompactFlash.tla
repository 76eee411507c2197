--------------------------- MODULE MCCompactFlash ---------------------------
(***************************************************************************)
(* Model checking the two halves of CfImagerService, which share no state: *)
(* the image files with their pane, and the reader with its scripts.  A    *)
(* behaviour is one of the half named by half; the other rests.            *)
(***************************************************************************)
EXTENDS CfFiles

CONSTANTS Processes, None, MaxPolls, MaxProbes, MaxPending, MaxChanges, MaxRequests

VARIABLES
  half,
  reader, lastDevice, polls, device, media, phase, op, arriving, probes, pending,
  child, script, watchdog, imagerView, overlay, stopped, changes, requests

Imager == INSTANCE CfImager WITH view <- imagerView

(* What the proofs need to know: bounds are numbers, and no process and no  *)
(* script is the null value.                                               *)
ASSUME CompactFlashAssumption ==
  /\ {MaxPolls, MaxProbes, MaxPending, MaxChanges, MaxRequests} \subseteq Nat
  /\ None \notin Processes
  /\ None \notin [kind : Imager!Kinds, attached : BOOLEAN]

imagerVars ==
  <<reader, lastDevice, polls, device, media, phase, op, arriving, probes, pending,
    child, script, watchdog, imagerView, overlay, stopped, changes, requests>>

(* What rests rests in one state, so that it adds none to the others.      *)
MCInit ==
  /\ half \in {"files", "reader"}
  /\ Init /\ Imager!Init
  /\ half = "files" => reader = "gone"
  /\ half = "reader" => img = [s \in Slots |-> Nothing] /\ folders = {} /\ ~polling

MCNext ==
  \/ half = "files" /\ Next /\ UNCHANGED <<half, imagerVars>>
  \/ half = "reader" /\ Imager!Next /\ UNCHANGED <<half, vars>>

MCSpec == MCInit /\ [][MCNext]_<<half, vars, imagerVars>>

-----------------------------------------------------------------------------
(* The files and what is said of them: the partition table beside an image *)
(* is its own as long as none was left behind, and without the watchdog a  *)
(* client that waits for its answers is shown what the service has.        *)
FilesAgree == TypeOK /\ TablesMatch /\ AnswersInOrder

(* A reader the service holds to be gone runs no script, and the watchdog  *)
(* that looks for it is silent only while a card is read.                  *)
ReaderWatched ==
  Imager!TypeOK /\ Imager!NoScriptWithoutReader /\ Imager!WatchdogReturns

(* The service comes back from a directory that is gone, and follows a     *)
(* reader that stays in or stays away, whatever order the polls answer in. *)
CfSettles ==
  /\ half = "files" => (Fairness => LeavesLostDirectory)
  /\ half = "reader" => (Imager!Fairness => Imager!ReaderFollowed)
=============================================================================
