--------------------------- MODULE PS2MouseAdapter ---------------------------
(***************************************************************************)
(* adapters/ps2Mouse.adapter.ts: the ps2Mouse slice of the application     *)
(* state as the events of PS2MouseService leave it.  Of the slice, view    *)
(* keeps what the browser decides by: the phase, whether an operation is   *)
(* shown as current, and the buttons shown as held.  (Queue depths are     *)
(* suppressed by the plugin, so busy is "an operation is current".)        *)
(***************************************************************************)
EXTENDS Integers, Sequences

CONSTANT Buttons                        \* the mouse buttons

ViewPhases ==
  {"disconnected", "connecting", "identifying", "ready", "error"}

Views == [phase : ViewPhases, current : BOOLEAN, held : SUBSET Buttons]

InitialView == [phase |-> "disconnected", current |-> FALSE, held |-> {}]

FreshSession(view, phase) ==
  [view EXCEPT !.phase = phase, !.current = FALSE, !.held = {}]

OnConnected(view) == FreshSession(view, "connecting")
OnDisconnected(view) == FreshSession(view, "disconnected")
OnLost(view) == FreshSession(view, "disconnected")

OnIdentify(view, what) ==
  [view EXCEPT !.phase = CASE what = "start"   -> "identifying"
                           [] what = "success" -> "ready"
                           [] what = "failed"  -> "error"]

OnFatal(view) == [view EXCEPT !.phase = "error"]

(* mouse-button, when it is not a no-op.                                   *)
OnButton(view, b, action) ==
  [view EXCEPT !.held = IF action = "down" THEN @ \cup {b} ELSE @ \ {b}]

OnStarted(view) == [view EXCEPT !.current = TRUE]

(* completed, failed or cancelled, for the operation shown as current; a   *)
(* queued operation that is cancelled leaves the current one.              *)
OnEnded(view) == [view EXCEPT !.current = FALSE]
=============================================================================
