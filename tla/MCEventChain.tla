---------------------------- MODULE MCEventChain ---------------------------
(* Connections and events are interchangeable.                             *)
EXTENDS EventChain, TLC

Symmetry == Permutations(Handle) \cup Permutations(Body)
=============================================================================
