-------------------------- MODULE FrontPanelAdapter --------------------------
(***************************************************************************)
(* The front panel's state adapter (adapters/frontPanel.adapter.ts): how   *)
(* each service event changes the slice the browser sees.  plugins/        *)
(* frontPanel.ts hands the slice's power sense to the keyboard and the     *)
(* mouse with each of the events that may have changed it, so sense is the *)
(* host power they are told.  Histories, texts, times and the hard disk    *)
(* light, which is kept like the power sense, are left out.                *)
(***************************************************************************)
EXTENDS Integers, FiniteSets

CONSTANTS Ops,   \* identities of operations
          NoOp   \* null where an operation is expected

ASSUME NoOpAssumption == NoOp \notin Ops

Powers == {"unknown", "on", "off"}
Phases == {"disconnected", "connecting", "identifying", "ready", "error"}

Views ==
  [phase : Phases, sense : Powers, held : BOOLEAN,
   busy : BOOLEAN, depth : Nat, current : Ops \cup {NoOp}]

InitialView ==
  [phase |-> "disconnected", sense |-> "unknown", held |-> FALSE,
   busy |-> FALSE, depth |-> 0, current |-> NoOp]

(* Mutant: not clamped at zero.                                            *)
LessOneUnclamped(n) == n - 1

LessOne(n) == IF n > 0 THEN n - 1 ELSE 0     \* Math.max(0, n - 1)

(* frontpanel-device-identified, -connected, -identify-*, and fatal-error. *)
OnPhase(view, phase) == [view EXCEPT !.phase = phase]

(* frontpanel-device-disconnected and -lost: nothing is known any more.    *)
OnDisconnected(view, reason) ==
  [InitialView EXCEPT !.phase = IF reason = "device-lost" THEN "disconnected" ELSE "error"]

OnSense(view, sense) == [view EXCEPT !.sense = sense]
OnHeld(view, held) == [view EXCEPT !.held = held]

OnQueued(view) == [view EXCEPT !.depth = @ + 1, !.busy = TRUE]
OnStarted(view, op) == [view EXCEPT !.current = op, !.busy = TRUE]
OnCompleted(view) ==
  [view EXCEPT !.depth = LessOne(@), !.busy = LessOne(view.depth) > 0, !.current = NoOp]
OnFailed(view) == [view EXCEPT !.depth = LessOne(@), !.busy = FALSE, !.current = NoOp]
OnCancelled(view) == [view EXCEPT !.depth = 0, !.busy = FALSE, !.current = NoOp]
=============================================================================
