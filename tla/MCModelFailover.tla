-------------------------- MODULE MCModelFailover --------------------------
(* ModelFailover on a chat and one sub-agent, each sent one message.        *)
EXTENDS ModelFailover

CONSTANTS chat, agent

MCMessages == [r \in {chat, agent} |-> 1]
=============================================================================
