---------------------------- MODULE StreamCapture ----------------------------
(***************************************************************************)
(* The capture layer of the stream pane (apps/web, components/panes/       *)
(* Stream.vue): the pointer lock and the keys and mouse buttons held while *)
(* it lasts, the front panel buttons beside it, the motion sent in chunks, *)
(* and the messages by which the machine learns of them.                   *)
(*                                                                         *)
(* One step is one event handler; Vue's watchers run in the step of the    *)
(* change they watch.  The machine's side is what the messages come to: a  *)
(* queue of mouse operations, and what is down at the machine.  Motion is  *)
(* counted along one axis.                                                 *)
(***************************************************************************)
EXTENDS Naturals, Sequences, FiniteSetsExt, SequencesExt

CONSTANTS Buttons, Modifiers, Panel,  \* mouse buttons, modifier keys, front panel buttons
          MaxDelta,    \* mouseMaxDeltaPerSend
          MaxPending,  \* bound: motion that waits to be sent
          MaxQueue     \* bound: operations queued for the mouse

VARIABLES
  mounted, enabled,
  lock,           \* the browser's pointer lock: "none", "asked", "held", "leaving"
  capturing, armed,               \* isCapturing, armOnNextFocus
  heldModifiers, heldMouseButtons,
  ready, heldByClient,            \* fpCanInteract; power- and resetHeldByClient
  pending, scheduled,             \* pendingDx; moveRaf or moveTimer
  online,         \* the socket is open: what is sent while it is not is lost
  queue, down,    \* at the machine: the mouse's queue, what is held down
  lost,           \* controls whose release was lost with the socket
  taken           \* buttons whose queued release a cancel took away

capture == <<lock, capturing, armed, heldModifiers, heldMouseButtons>>
motion == <<pending, scheduled>>
wire == <<queue, down, lost, taken>>
vars == <<mounted, enabled, capture, ready, heldByClient, motion, online, wire>>

Init ==
  /\ mounted = TRUE /\ enabled \in BOOLEAN
  /\ lock = "none" /\ capturing = FALSE /\ armed = FALSE
  /\ heldModifiers = {} /\ heldMouseButtons = {}
  /\ ready \in BOOLEAN /\ heldByClient = {}
  /\ pending = 0 /\ scheduled = FALSE
  /\ online \in BOOLEAN /\ queue = <<>> /\ down = {}
  /\ lost = {} /\ taken = {}

(* isPointerLockedToCaptureEl                                              *)
Locked == lock \in {"held", "leaving"}

-----------------------------------------------------------------------------
(* Messages *)

Op(what, button) == [what |-> what, button |-> button]
Cancel == Op("cancelAll", "none")

(* What is queued once the messages of one handler are in: a cancelAll     *)
(* takes everything queued before it.                                      *)
Queued(messages) ==
  LET cancels == {i \in DOMAIN messages : messages[i] = Cancel}
  IN  IF cancels = {} THEN queue \o messages
      ELSE SubSeq(messages, Max(cancels) + 1, Len(messages))

Released(messages) ==
  {messages[i].button : i \in {j \in DOMAIN messages : messages[j].what = "up"}}

Cancelled(messages) ==
  IF \E i \in DOMAIN messages : messages[i] = Cancel THEN Released(queue) ELSE {}

(* The messages of a handler: to the mouse, keys and buttons held, and     *)
(* released.  A closed socket takes none of them.                          *)
Sends(messages, holds, releases) ==
  IF online
  THEN /\ queue' = Queued(messages) /\ down' = (down \ releases) \cup holds
       /\ lost' = lost \ (releases \cup Released(messages))
       /\ taken' = (taken \cup Cancelled(messages)) \ Released(messages)
       /\ Len(queue') <= MaxQueue
  ELSE /\ lost' = lost \cup releases \cup Released(messages)
       /\ UNCHANGED <<queue, down, taken>>

(* Mutant: the releases go out ahead of the cancel.                        *)
ReleasesFirst == SetToSeq({Op("up", b) : b \in heldMouseButtons}) \o <<Cancel>>

(* releaseAllMouseButtons, in releaseCapture: behind the cancel.           *)
Releases == <<Cancel>> \o SetToSeq({Op("up", b) : b \in heldMouseButtons})

(* releaseCapture, with the front panel buttons a handler also releases    *)
ReleaseCapture(panel) ==
  /\ Sends(Releases, {}, heldModifiers \cup panel)
  /\ heldMouseButtons' = {} /\ heldModifiers' = {}
  /\ pending' = 0 /\ scheduled' = FALSE
  /\ capturing' = FALSE /\ armed' = FALSE

Capturing == capturing \/ heldModifiers # {} \/ armed \/ heldMouseButtons # {}

(* What every way out of a capture does that finds the lock gone           *)
ReleaseIfCapturing ==
  IF Capturing THEN ReleaseCapture({})
  ELSE UNCHANGED <<capturing, armed, heldModifiers, heldMouseButtons, motion, wire>>

-----------------------------------------------------------------------------
(* Pointer lock and focus *)

(* requestPointerLock; a lock that is held or asked for stays so.          *)
Asks == lock' = IF lock = "none" THEN "asked" ELSE lock

(* exitPointerLock                                                         *)
Leaves == lock' = IF Locked THEN "leaving" ELSE lock

LockGranted ==
  /\ mounted /\ lock = "asked" /\ lock' = "held"
  /\ capturing' = TRUE /\ armed' = FALSE
  /\ UNCHANGED <<mounted, enabled, heldModifiers, heldMouseButtons, ready, heldByClient,
                 motion, online, wire>>

(* Escape, another window, exitPointerLock: the browser drops the lock.    *)
LockDropped ==
  /\ mounted /\ Locked /\ lock' = "none"
  /\ ReleaseIfCapturing
  /\ UNCHANGED <<mounted, enabled, ready, heldByClient, online>>

LockRefused ==
  /\ mounted /\ lock = "asked" /\ lock' = "none"
  /\ ReleaseIfCapturing
  /\ UNCHANGED <<mounted, enabled, ready, heldByClient, online>>

onWindowBlur ==
  /\ mounted /\ Locked /\ Leaves
  /\ UNCHANGED <<mounted, enabled, capturing, armed, heldModifiers, heldMouseButtons, ready,
                 heldByClient, motion, online, wire>>

onFocusCapture ==
  /\ mounted
  /\ IF enabled
     THEN /\ armed' = FALSE
          /\ UNCHANGED <<lock, capturing, heldModifiers, heldMouseButtons, motion, wire>>
     ELSE Leaves /\ ReleaseCapture({})
  /\ UNCHANGED <<mounted, enabled, ready, heldByClient, online>>

onBlurCapture ==
  /\ mounted /\ Leaves
  /\ IF Locked
     THEN UNCHANGED <<capturing, armed, heldModifiers, heldMouseButtons, motion, wire>>
     ELSE ReleaseIfCapturing
  /\ UNCHANGED <<mounted, enabled, ready, heldByClient, online>>

(* The checkbox, or preferences applied to the pane: the watcher leaves    *)
(* the lock, or releases.                                                  *)
SetEnabled(on) ==
  /\ mounted /\ enabled' = on
  /\ IF on \/ Locked
     THEN /\ lock' = (IF ~on /\ Locked THEN "leaving" ELSE lock)
          /\ UNCHANGED <<capturing, armed, heldModifiers, heldMouseButtons, motion, wire>>
     ELSE ReleaseIfCapturing /\ UNCHANGED lock
  /\ UNCHANGED <<mounted, ready, heldByClient, online>>

enterFullscreenCapture ==
  /\ mounted /\ enabled
  /\ Asks
  /\ UNCHANGED <<mounted, enabled, capturing, armed, heldModifiers, heldMouseButtons, ready,
                 heldByClient, motion, online, wire>>

-----------------------------------------------------------------------------
(* Buttons, keys, motion *)

(* The layer takes the focus or stays armed; the first press asks for the  *)
(* lock, the next ones are the machine's.                                  *)
onCaptureMouseDown(b) ==
  /\ mounted /\ enabled
  /\ armed' \in BOOLEAN
  /\ IF Locked
     THEN /\ heldMouseButtons' = heldMouseButtons \cup {b}
          /\ Sends(<<Op("down", b)>>, {}, {})
          /\ UNCHANGED lock
     ELSE Asks /\ UNCHANGED <<heldMouseButtons, wire>>
  /\ UNCHANGED <<mounted, enabled, capturing, heldModifiers, ready, heldByClient, motion, online>>

onCaptureMouseUp(b) ==
  /\ mounted /\ capturing /\ Locked
  /\ heldMouseButtons' = heldMouseButtons \ {b}
  /\ Sends(<<Op("up", b)>>, {}, {})
  /\ UNCHANGED <<mounted, enabled, lock, capturing, armed, heldModifiers, ready, heldByClient,
                 motion, online>>

(* Keys that are no modifiers are pressed, which leaves nothing held.      *)
onKeyDown(k) ==
  /\ mounted /\ capturing /\ k \notin heldModifiers
  /\ heldModifiers' = heldModifiers \cup {k}
  /\ Sends(<<>>, {k}, {})
  /\ UNCHANGED <<mounted, enabled, lock, capturing, armed, heldMouseButtons, ready,
                 heldByClient, motion, online>>

onKeyUp(k) ==
  /\ mounted /\ capturing /\ k \in heldModifiers
  /\ heldModifiers' = heldModifiers \ {k}
  /\ Sends(<<>>, {}, {k})
  /\ UNCHANGED <<mounted, enabled, lock, capturing, armed, heldMouseButtons, ready,
                 heldByClient, motion, online>>

(* onCaptureMouseMove, ingestMouseDelta: the counts a movement comes to    *)
onCaptureMouseMove(counts) ==
  /\ mounted /\ capturing /\ Locked
  /\ pending + counts <= MaxPending
  /\ pending' = pending + counts
  /\ scheduled' = TRUE
  /\ UNCHANGED <<mounted, enabled, capture, ready, heldByClient, online, wire>>

(* flushMouseMove: the timers are cleared, a chunk is sent, and what is   *)
(* left over is scheduled again.                                           *)
flushMouseMove ==
  /\ mounted /\ scheduled
  /\ pending' = IF Locked THEN pending - Min({pending, MaxDelta}) ELSE 0
  /\ scheduled' = (pending' > 0)
  /\ UNCHANGED <<mounted, enabled, capture, ready, heldByClient, online, wire>>

-----------------------------------------------------------------------------
(* Front panel buttons *)

HoldStart(p) ==
  /\ mounted /\ ready /\ p \notin heldByClient
  /\ heldByClient' = heldByClient \cup {p}
  /\ Sends(<<>>, {p}, {})
  /\ UNCHANGED <<mounted, enabled, capture, ready, motion, online>>

HoldEnd(p) ==
  /\ mounted /\ p \in heldByClient
  /\ heldByClient' = heldByClient \ {p}
  /\ Sends(<<>>, {}, {p})
  /\ UNCHANGED <<mounted, enabled, capture, ready, motion, online>>

(* fpCanInteract, of the mirror, and its watcher                           *)
ReadyChanges ==
  /\ mounted /\ ready' = ~ready
  /\ IF ready THEN heldByClient' = {} /\ Sends(<<>>, {}, heldByClient)
     ELSE UNCHANGED <<heldByClient, wire>>
  /\ UNCHANGED <<mounted, enabled, capture, motion, online>>

(* onBeforeUnmount: everything is released, the lock goes with the layer.  *)
Unmount ==
  /\ mounted /\ mounted' = FALSE /\ lock' = "none" /\ heldByClient' = {}
  /\ IF Capturing THEN ReleaseCapture(heldByClient)
     ELSE /\ Sends(<<>>, {}, heldByClient) /\ scheduled' = FALSE
          /\ UNCHANGED <<capturing, armed, heldModifiers, heldMouseButtons, pending>>
  /\ UNCHANGED <<enabled, ready, online>>

-----------------------------------------------------------------------------
(* The socket and the machine *)

SocketChanges ==
  /\ online' = ~online
  /\ UNCHANGED <<mounted, enabled, capture, ready, heldByClient, motion, wire>>

(* The machine takes the next mouse operation.                             *)
Executes ==
  /\ queue # <<>> /\ queue' = Tail(queue)
  /\ down' = IF Head(queue).what = "down" THEN down \cup {Head(queue).button}
             ELSE down \ {Head(queue).button}
  /\ UNCHANGED <<mounted, enabled, capture, ready, heldByClient, motion, online, lost,
                 taken>>

Next ==
  \/ LockGranted \/ LockDropped \/ LockRefused
  \/ onWindowBlur \/ onFocusCapture \/ onBlurCapture
  \/ \E on \in BOOLEAN : SetEnabled(on)
  \/ enterFullscreenCapture
  \/ \E b \in Buttons : onCaptureMouseDown(b) \/ onCaptureMouseUp(b)
  \/ \E k \in Modifiers : onKeyDown(k) \/ onKeyUp(k)
  \/ \E counts \in 1..MaxPending : onCaptureMouseMove(counts)
  \/ flushMouseMove
  \/ \E p \in Panel : HoldStart(p) \/ HoldEnd(p)
  \/ ReadyChanges \/ Unmount \/ SocketChanges \/ Executes

Fairness ==
  /\ WF_vars(lock = "leaving" /\ LockDropped) /\ WF_vars(Executes)
  /\ WF_vars(flushMouseMove)

Spec == Init /\ [][Next]_vars /\ Fairness

-----------------------------------------------------------------------------
(* Types of the variables of Stream.vue's script; a flush timer is set     *)
(* whenever motion waits in a locked pane.                                 *)
TypeOK ==
  /\ {mounted, enabled, capturing, armed, ready, scheduled, online} \subseteq BOOLEAN
  /\ lock \in {"none", "asked", "held", "leaving"}
  /\ heldModifiers \subseteq Modifiers /\ heldMouseButtons \subseteq Buttons
  /\ heldByClient \subseteq Panel
  /\ pending \in 0..MaxPending 
  /\ Len(queue) <= MaxQueue
  /\ \A i \in DOMAIN queue : queue[i] \in [what : {"down", "up"}, button : Buttons]
  /\ {down, lost, taken} \subseteq SUBSET (Buttons \cup Modifiers \cup Panel)
  /\ pending > 0 /\ Locked => scheduled

(* What will be down at the machine once its queue is done                 *)
WillBeDown ==
  LET last(b) == {i \in DOMAIN queue : queue[i].button = b}
  IN  {c \in Buttons \cup Modifiers \cup Panel :
         IF last(c) = {} THEN c \in down ELSE queue[Max(last(c))].what = "down"}

Held == heldMouseButtons \cup heldModifiers \cup heldByClient

(* Nothing stays down at the machine that the pane does not hold, unless   *)
(* its release was lost with the socket, or was still queued when the      *)
(* capture ended: the cancel at its end does not take the releases that    *)
(* the same end sends.                                                     *)
MachineFollowsPane == WillBeDown \subseteq Held \cup lost \cup taken

(* An up means that the button is released (docs/ps2_mouse_service_design, *)
(* 11.2).  It fails: a release that is queued when the capture ends is     *)
(* cancelled with the queue, and releaseCapture, whose set no longer has   *)
(* the button, sends no other.                                             *)
UpMeansReleased == WillBeDown \subseteq Held \cup lost

(* Without the lock no key and no mouse button is held, and without a      *)
(* panel that is ready none of its buttons: however capture ended.         *)
NothingHeldUncaptured ==
  /\ ~Locked => heldModifiers = {} /\ heldMouseButtons = {} /\ ~capturing
  /\ ~ready \/ ~mounted => heldByClient = {}

(* Once capture is given up, the machine's keys and buttons come up, or    *)
(* the lock is taken again, or the socket lost the release.                *)
CaptureEndReleases ==
  (lock = "leaving") ~>
    \/ down \cap (Buttons \cup Modifiers) \subseteq lost \cup taken
    \/ lock = "held"
=============================================================================
