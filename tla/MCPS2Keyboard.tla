--------------------------- MODULE MCPS2Keyboard ---------------------------
(* Model checking PS2Keyboard on small instances. *)
EXTENDS PS2Keyboard, TLC

Symmetry == Permutations(Ops)

(* For liveness: the service is never stopped, clients enqueue keys but do *)
(* not cancel them, and the host power, once known, stays known.           *)
LiveNext ==
  \/ Connection
  \/ Discovery
  \/ \E o \in Ops : enqueueKeyEvent(o) \/ Runner(o)
  \/ \E p \in {"on", "off"} : setHostPower(p)

LiveSpec == Init /\ [][LiveNext]_vars /\ Fairness
=============================================================================
