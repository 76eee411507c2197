-------------------------- MODULE MCSerialDiscovery --------------------------
(* A board and a static device, two scans.                                 *)
EXTENDS SerialDiscovery, TLC

Symmetry == Permutations(Scans)
=============================================================================
