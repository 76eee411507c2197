------------------------- MODULE PS2KeyboardAdapter -------------------------
(***************************************************************************)
(* The keyboard's state adapter (adapters/ps2Keyboard.adapter.ts): how     *)
(* each service event changes the slice of the application state that the  *)
(* browser sees.  The bounded histories (errors, operations), timestamps   *)
(* and texts are data no property tells apart and are left out; so is      *)
(* "busy", which every handler leaves equal to Busy(view) below.           *)
(***************************************************************************)
EXTENDS Integers, FiniteSets

CONSTANTS Ops,   \* identities of keyboard operations
          NoOp   \* "null" where an operation id is expected

ASSUME NoOpAssumption == NoOp \notin Ops
ASSUME OpsAssumption == IsFiniteSet(Ops)

ViewPhases == {"disconnected", "connecting", "identifying", "ready", "error"}

Views == [phase : ViewPhases, depth : Nat, current : Ops \cup {NoOp}]

InitialView == [phase |-> "disconnected", depth |-> 0, current |-> NoOp]

(* busy: work is queued or running, as far as the slice knows.             *)
Busy(view) == view.depth > 0 \/ view.current # NoOp

(* Mutant: the depth is not clamped at zero.                               *)
DropUnclamped(depth, n) == depth - n

Drop(depth, n) == IF depth > n THEN depth - n ELSE 0     \* Math.max(0, depth - n)

(* keyboard-device-identified and keyboard-device-connected.               *)
OnConnecting(view) == [view EXCEPT !.phase = "connecting"]

(* keyboard-device-disconnected: the slice forgets the queue.              *)
OnDisconnected(view, reason) ==
  [phase |-> IF reason = "device-lost" THEN "disconnected" ELSE "error",
   depth |-> 0, current |-> NoOp]

(* keyboard-device-lost.                                                   *)
OnLost(view) == [phase |-> "disconnected", depth |-> 0, current |-> NoOp]

(* keyboard-identify-start, -success and -failed.                          *)
OnIdentify(view, outcome) ==
  [view EXCEPT !.phase = CASE outcome = "start"   -> "identifying"
                           [] outcome = "success" -> "ready"
                           [] outcome = "failed"  -> "error"]

(* fatal-error: the reconnect attempts are used up.                        *)
OnFatal(view) == [view EXCEPT !.phase = "error"]

(* keyboard-operation-queued and keyboard-operation-started.               *)
OnQueued(view) == [view EXCEPT !.depth = @ + 1]
OnStarted(view, op) == [view EXCEPT !.current = op]

(* One keyboard-operation-cancelled for each operation of the set ops.     *)
OnCancelled(view, ops) ==
  [view EXCEPT !.depth = Drop(@, Cardinality(ops)),
               !.current = IF @ \in ops THEN NoOp ELSE @]

(* keyboard-operation-completed and keyboard-operation-failed: whatever    *)
(* operation ended, there is no current one any more.                      *)
OnEnded(view) == [view EXCEPT !.depth = Drop(@, 1), !.current = NoOp]
=============================================================================
