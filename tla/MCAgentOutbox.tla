--------------------------- MODULE MCAgentOutbox ---------------------------
(* An instance of AgentOutbox for TLC.                                     *)
EXTENDS AgentOutbox

CONSTANTS i1, i2, i3, d1, d2
=============================================================================
