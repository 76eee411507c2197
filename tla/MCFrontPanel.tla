---------------------------- MODULE MCFrontPanel ----------------------------
(* Model checking FrontPanel on small instances. *)
EXTENDS FrontPanel, TLC

Symmetry == Permutations(Ops)
=============================================================================
