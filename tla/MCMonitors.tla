----------------------------- MODULE MCMonitors -----------------------------
(* Instances of Monitors for TLC. *)
EXTENDS Monitors, TLC

CONSTANTS c1, c2, c3, t1, t2, a1, a2

Symmetry == Permutations(Connections) \cup Permutations(Threads) \cup Permutations(Addresses)
=============================================================================
