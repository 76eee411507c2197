------------------------------ MODULE CfImager ------------------------------
(***************************************************************************)
(* Imaging of CompactFlash cards: CfBlockDiscoveryService, which polls for *)
(* the reader, CfImagerService, which probes the card and runs the read    *)
(* and write scripts as child processes, the adapter and state.ts, which   *)
(* keep the cfImager slice, and the pane, which blocks itself from its     *)
(* command until the operation shows (devices/cf-imager/*.ts,              *)
(* plugins/cfImager.ts, adapters/cfImager.adapter.ts).                     *)
(*                                                                         *)
(* One step is the code from one await or callback to the next.  Scripts,  *)
(* probes and polls are processes: their results come when they come.      *)
(***************************************************************************)
EXTENDS Naturals, FiniteSets, Sequences, SequencesExt

CONSTANTS Processes,    \* identities of script processes
          None,         \* no device, process, operation or result
          MaxPolls,     \* bound: polls in flight
          MaxProbes,    \* bound: media probes in flight
          MaxPending,   \* bound: requests between arrival and spawn
          MaxChanges,   \* bound: changes of the reader
          MaxRequests   \* bound: imaging requests

Kinds == {"read", "write"}
Paths == {"disk", "unmounted"}          \* the id of a device is made from its path
Media == {"none", "unknown", "present"}
Phases == {"disconnected", "idle", "busy", "error"}

Views == [phase : Phases, media : Media, device : Paths \cup {None},
          op : Kinds \cup {None}]

VARIABLES
  reader,      \* the hardware: "gone", "empty" (no card) or "card"
  lastDevice,  \* discovery: the path it has reported
  polls,       \* what the polls in flight have found
  device,      \* the service: this.device
  media, phase, op,          \* this.state.media, .phase, .currentOp
  arriving,    \* onDeviceIdentified calls waiting in emitFsUpdated
  probes,      \* refreshMediaStatus calls waiting for the size
  pending,     \* requests between their probe and the spawn
  child,       \* this.child
  script,      \* the script processes: what each one does, and whether the
               \* service still listens for its end
  watchdog,    \* fsPollTimer is set
  view,        \* the cfImager slice
  overlay,     \* the pane's stickyOverlay
  stopped,
  changes, requests

discovery == <<lastDevice, polls>>
service == <<device, media, phase, op, arriving, probes, pending>>
vars == <<reader, discovery, service, child, script, watchdog, view, overlay,
          stopped, changes, requests>>

Init ==
  /\ reader \in {"gone", "empty", "card"}
  /\ lastDevice = None /\ polls = <<>>
  /\ device = None /\ media = "none" /\ phase = "disconnected" /\ op = None
  /\ arriving = 0 /\ probes = <<>> /\ pending = <<>>
  /\ child = None /\ script = [p \in Processes |-> None]
  /\ watchdog = TRUE
  /\ view = [phase |-> "disconnected", media |-> "none", device |-> None, op |-> None]
  /\ overlay = FALSE /\ stopped = FALSE
  /\ changes = 0 /\ requests = 0

-----------------------------------------------------------------------------
(* The slice.  updateCfImagerSnapshot merges with ??, so that what an      *)
(* event would clear (device, currentOp: undefined) stays as it was.       *)
OnIdentified(v, path) ==
  [v EXCEPT !.phase = "idle", !.media = "unknown", !.device = path]
OnDisconnected(v) == [v EXCEPT !.phase = "disconnected", !.media = "none"]
OnMedia(v, m, path) ==
  [v EXCEPT !.media = m, !.device = IF path = None THEN @ ELSE path]
OnRunning(v, kind) == [v EXCEPT !.phase = "busy", !.op = kind]
OnCompleted(v) == [v EXCEPT !.phase = "idle"]
OnError(v) == [v EXCEPT !.phase = IF @ = "disconnected" THEN @ ELSE "error"]

(* The pane's watchers: a shown operation, or a phase that becomes idle    *)
(* with no operation shown, takes the overlay away.                        *)
OverlayAfter(v, w) ==
  LET shows(x) == x.phase = "busy" /\ x.op # None
  IN  IF ~shows(v) /\ shows(w) THEN FALSE
      ELSE IF v.phase # w.phase /\ w.phase = "idle" /\ w.op = None THEN FALSE
      ELSE overlay
Show(v) == view' = v /\ overlay' = OverlayAfter(view, v)
Quiet == UNCHANGED <<view, overlay>>

(* emitError                                                               *)
EmitError ==
  /\ phase' = IF device = None THEN "disconnected" ELSE "error"
  /\ media' = IF device = None THEN "none" ELSE media
  /\ Show(OnError(view))

-----------------------------------------------------------------------------
(* The hardware and its discovery *)

Change ==
  /\ changes < MaxChanges
  /\ changes' = changes + 1
  /\ \E r \in {"gone", "empty", "card"} \ {reader} : reader' = r
  /\ UNCHANGED <<discovery, service, child, script, watchdog, view, overlay, stopped,
                 requests>>

(* What a poll finds: no reader, a reader without a card, or its disk.     *)
HasReader == reader # "gone"
HasMedia == reader = "card"
Finding == IF ~HasReader THEN None ELSE IF HasMedia THEN "disk" ELSE "unmounted"

PollBegin ==
  /\ ~stopped /\ Len(polls) < MaxPolls
  /\ polls' = Append(polls, Finding)
  /\ UNCHANGED <<reader, lastDevice, service, child, script, watchdog, view, overlay,
                 stopped, changes, requests>>

(* cancelCurrentChild: the process loses its listeners for 'close' and     *)
(* 'error', those of its output stay; the watchdog runs again.             *)
CancelCurrentChild ==
  /\ child' = None
  /\ script' = IF child = None THEN script
               ELSE [script EXCEPT ![child].attached = FALSE]
  /\ watchdog' = (watchdog \/ child # None)

(* Mutant: the loss of the reader leaves the script alone.                 *)
LostWithoutCancel ==
  /\ device' = None /\ phase' = "disconnected" /\ media' = "none"
  /\ UNCHANGED <<child, script, watchdog>>
  /\ Show(OnDisconnected(view))
  /\ UNCHANGED <<op, arriving>>

(* onDeviceLost                                                            *)
Lost ==
  /\ device' = None /\ phase' = "disconnected" /\ media' = "none"
  /\ CancelCurrentChild
  /\ Show(OnDisconnected(view))
  /\ UNCHANGED <<op, arriving>>

(* onDeviceIdentified up to its await                                      *)
Identified(path) ==
  /\ device' = path /\ phase' = "idle" /\ media' = "unknown"
  /\ arriving' = arriving + 1
  /\ Show(OnIdentified(view, path))
  /\ UNCHANGED <<op, child, script, watchdog>>

News(found) == found # lastDevice

(* pollOnce when its finding is there: only a change is reported.  A lost  *)
(* device the service does not have is no news to it.                      *)
Polled(i) ==
  /\ arriving < 2
  /\ polls' = RemoveAt(polls, i)
  /\ lastDevice' = polls[i]
  /\ CASE ~News(polls[i]) -> UNCHANGED <<device, media, phase, op, arriving, child, script,
                                          watchdog, view, overlay>>
       [] News(polls[i]) /\ polls[i] = None ->
            IF device = lastDevice THEN Lost
            ELSE UNCHANGED <<device, media, phase, op, arriving, child, script, watchdog,
                             view, overlay>>
       [] OTHER -> Identified(polls[i])
  /\ UNCHANGED <<reader, probes, pending, stopped, changes, requests>>

-----------------------------------------------------------------------------
(* Probing the card *)

(* refreshMediaStatus up to its await: a reader with no device behind it   *)
(* is answered at once, any other is asked for its size.                   *)
Answer(m) ==
  /\ media' = m
  /\ IF m # media THEN Show(OnMedia(view, m, device)) ELSE Quiet

Probe ==
  /\ arriving > 0
  /\ arriving' = arriving - 1
  /\ IF device = "disk"
     THEN /\ Len(probes) < MaxProbes
          /\ probes' = Append(probes, [prev |-> media, card |-> reader = "card"])
          /\ UNCHANGED media /\ Quiet
     ELSE Answer("none") /\ UNCHANGED probes
  /\ UNCHANGED <<reader, discovery, device, phase, op, pending, child, script, watchdog,
                 stopped, changes, requests>>

(* The size is there, for whatever device there is by now; the change is   *)
(* told from what the status was before.                                   *)
Size(p, m, d) ==
  /\ media' = m
  /\ IF m # p.prev THEN Show(OnMedia(view, m, d)) ELSE Quiet
Sizes(p) == {IF p.card THEN "present" ELSE "none", "unknown"}

Probed(i) ==
  /\ probes' = RemoveAt(probes, i)
  /\ \E m \in Sizes(probes[i]) : Size(probes[i], m, device)
  /\ UNCHANGED <<reader, discovery, device, phase, op, arriving, pending, child, script,
                 watchdog, stopped, changes, requests>>

-----------------------------------------------------------------------------
(* Imaging *)

(* ensureDeviceAndMediaForOp refuses a second operation.                   *)
Busy == child # None

(* readDeviceToImage, writeImageToDevice up to the first await.            *)
Request(kind) ==
  /\ requests < MaxRequests /\ ~stopped
  /\ requests' = requests + 1
  /\ IF device = None \/ Busy
     THEN EmitError /\ UNCHANGED pending
     ELSE IF device = "unmounted"
     THEN /\ media' = "none" /\ phase' = "error"
          /\ Show(OnError(IF media # "none" THEN OnMedia(view, "none", device) ELSE view))
          /\ UNCHANGED pending
     ELSE /\ Len(pending) < MaxPending
          /\ pending' = Append(pending, [kind |-> kind, prev |-> media, stage |-> "probe",
                                         card |-> reader = "card"])
          /\ UNCHANGED <<media, phase>> /\ Quiet
  /\ UNCHANGED <<reader, discovery, device, op, arriving, probes, child, script, watchdog,
                 stopped, changes>>

(* A client asks at any time; the pane when it shows a card and is not     *)
(* blocked, and then it blocks itself.                                     *)
ClientAsks == \E kind \in Kinds : Request(kind)
PaneOffers ==
  /\ ~overlay
  /\ view.phase = "idle" /\ view.media = "present" /\ view.device # None
PaneAsks ==
  /\ PaneOffers
  /\ requests < MaxRequests /\ ~stopped
  /\ device = "disk" /\ ~Busy /\ Len(pending) < MaxPending
  /\ overlay' = TRUE
  /\ requests' = requests + 1
  /\ \E kind \in Kinds :
       pending' = Append(pending, [kind |-> kind, prev |-> media, stage |-> "probe",
                                   card |-> reader = "card"])
  /\ UNCHANGED <<reader, discovery, device, media, phase, op, arriving, probes, child,
                 script, watchdog, view, stopped, changes>>

(* The script is spawned; a read silences the watchdog while it runs.      *)
Start(kind) ==
  \E p \in Processes :
    /\ script[p] = None
    /\ phase' = "busy" /\ op' = kind
    /\ child' = p
    /\ script' = [script EXCEPT ![p] = [kind |-> kind, attached |-> TRUE]]
    /\ watchdog' = (watchdog /\ kind # "read")

(* The probe of a request has answered.  A request whose device has gone   *)
(* fails on device!.path, and only the log says so.                        *)
RequestProbed(i) ==
  LET r == pending[i] IN
  /\ r.stage = "probe"
  /\ \E m \in Sizes(r) :
       LET told == IF m # r.prev THEN OnMedia(view, m, device) ELSE view IN
       IF m # "present"
       THEN /\ phase' = (IF device = None THEN "disconnected" ELSE "error")
            /\ media' = (IF device = None THEN "none" ELSE m)
            /\ Show(OnError(told))
            /\ pending' = RemoveAt(pending, i)
            /\ UNCHANGED <<op, child, script, watchdog>>
       ELSE /\ media' = m
            /\ IF r.kind = "write"
               THEN /\ pending' = [pending EXCEPT ![i].stage = "stat"]
                    /\ Show(told)
                    /\ UNCHANGED <<phase, op, child, script, watchdog>>
               ELSE /\ pending' = RemoveAt(pending, i)
                    /\ IF device = None
                       THEN Show(told) /\ UNCHANGED <<phase, op, child, script, watchdog>>
                       ELSE Start("read") /\ Show(OnRunning(told, "read"))
  /\ UNCHANGED <<reader, discovery, device, arriving, probes, stopped, changes, requests>>

(* writeImageToDevice has looked for the image.  When it is not there the  *)
(* service alone goes back to idle.                                        *)
ImageFound(i) ==
  /\ pending[i].stage = "stat"
  /\ pending' = RemoveAt(pending, i)
  /\ IF device = None
     THEN Quiet /\ UNCHANGED <<phase, op, child, script, watchdog>>
     ELSE Start("write") /\ Show(OnRunning(view, "write"))
  /\ UNCHANGED <<reader, discovery, device, media, arriving, probes, stopped, changes,
                 requests>>

ImageMissing(i) ==
  /\ pending[i].stage = "stat"
  /\ pending' = RemoveAt(pending, i)
  /\ phase' = "idle" /\ media' = IF device = None THEN "none" ELSE media
  /\ Show(OnError(view))
  /\ UNCHANGED <<reader, discovery, device, op, arriving, probes, child, script, watchdog,
                 stopped, changes, requests>>

Running(p) == script[p] # None

(* A PROGRESS line: the listener of the output is never taken off.         *)
Progress(p) ==
  /\ Running(p) /\ op = script[p].kind
  /\ Show(OnRunning(view, op))
  /\ UNCHANGED <<reader, discovery, service, child, script, watchdog, stopped, changes,
                 requests>>

(* 'close': whichever script ends, this.child is cleared.                  *)
Exits(p) ==
  /\ Running(p)
  /\ script' = [script EXCEPT ![p] = None]
  /\ IF ~script[p].attached
     THEN Quiet /\ UNCHANGED <<media, phase, op, child, watchdog>>
     ELSE /\ child' = None /\ op' = None
          /\ \/ phase' = "idle" /\ Show(OnCompleted(view)) /\ UNCHANGED media
             \/ EmitError
          /\ watchdog' = TRUE
  /\ UNCHANGED <<reader, discovery, device, arriving, probes, pending, stopped, changes,
                 requests>>

(* stop() of the service, which the plugin calls before the discovery's:   *)
(* the watchdog it stops first is started again by the cancelled child.    *)
Stop ==
  /\ ~stopped
  /\ stopped' = TRUE
  /\ child' = None
  /\ script' = IF child = None THEN script ELSE [script EXCEPT ![child].attached = FALSE]
  /\ watchdog' = (child # None)
  /\ device' = None /\ phase' = "disconnected" /\ media' = "none"
  /\ IF child = None THEN Quiet ELSE Show(OnDisconnected(view))
  /\ lastDevice' = None
  /\ UNCHANGED <<reader, polls, op, arriving, probes, pending, changes, requests>>

-----------------------------------------------------------------------------
Continue ==
  \/ \E i \in DOMAIN polls : Polled(i)
  \/ Probe
  \/ \E i \in DOMAIN probes : Probed(i)
  \/ \E i \in DOMAIN pending : RequestProbed(i) \/ ImageFound(i) \/ ImageMissing(i)

Halted == stopped /\ UNCHANGED vars

Next ==
  \/ ~stopped /\ (\/ Change \/ PollBegin \/ Continue \/ ClientAsks \/ PaneAsks \/ Stop
                  \/ \E p \in Processes : Progress(p) \/ Exits(p))
  \/ Halted

(* Fairness: the poll interval runs, probes and polls answer, scripts end. *)
Fairness ==
  /\ WF_vars(~stopped /\ PollBegin) /\ WF_vars(~stopped /\ Continue)
  /\ \A p \in Processes : WF_vars(~stopped /\ Exits(p))

Spec == Init /\ [][Next]_vars /\ Fairness

-----------------------------------------------------------------------------
(* Properties *)

(* Every variable keeps to the values the code gives it.                   *)
TypeOK ==
  /\ reader \in {"gone", "empty", "card"}
  /\ lastDevice \in Paths \cup {None} /\ device \in Paths \cup {None}
  /\ polls \in Seq(Paths \cup {None}) /\ Len(polls) <= MaxPolls
  /\ media \in Media /\ phase \in Phases /\ op \in Kinds \cup {None}
  /\ arriving \in 0..2
  /\ probes \in Seq([prev : Media, card : BOOLEAN]) /\ Len(probes) <= MaxProbes
  /\ pending \in Seq([kind : Kinds, prev : Media, stage : {"probe", "stat"}, card : BOOLEAN])
  /\ Len(pending) <= MaxPending
  /\ child \in Processes \cup {None}
  /\ script \in [Processes -> [kind : Kinds, attached : BOOLEAN] \cup {None}]
  /\ watchdog \in BOOLEAN /\ view \in Views /\ overlay \in BOOLEAN /\ stopped \in BOOLEAN

(* docs/cf-imager-design.md 4.3, rule 3: once the service holds the reader *)
(* to be gone, it runs no script any more.                                 *)
NoScriptWithoutReader ==
  device = None => \A p \in Processes : Running(p) => ~script[p].attached

(* The watchdog is silent only while a card is being read.                 *)
WatchdogReturns ==
  ~watchdog /\ ~stopped => child # None /\ script[child].kind = "read"

(* 10.1: "One operation at a time globally": the scripts the service has   *)
(* started and not ended are never two.                                    *)
OneOperation ==
  Cardinality({p \in Processes : Running(p) /\ script[p].attached}) <= 1

(* The service follows the reader: what stays in it, or stays away, is     *)
(* known in the end, whatever order the polls answer in.                   *)
ReaderFollowed ==
  \A r \in {"gone", "empty", "card"} :
    <>[](reader = r /\ ~stopped) => <>[](device = Finding)
=============================================================================
