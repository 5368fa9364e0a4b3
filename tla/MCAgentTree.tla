---------------------------- MODULE MCAgentTree ----------------------------
(* Instances of AgentTree for TLC.                                         *)
EXTENDS AgentTree, TLC

CONSTANTS a, b, c, s1, s2
Symmetry == Permutations({a, b, c}) \cup Permutations({s1, s2})
=============================================================================
