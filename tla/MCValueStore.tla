---------------------------- MODULE MCValueStore ----------------------------
(* ValueStore for TLC: symmetric writers and watches.                       *)
EXTENDS ValueStore, TLC

Symmetry == Permutations(Writers) \cup Permutations(Watchers)
=============================================================================
