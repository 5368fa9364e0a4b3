---------------------------- MODULE MCToolRound ----------------------------
(* Rounds of three calls, one for each way to batch them.                  *)
EXTENDS ToolRound

\* Changes about a read; two reads and an unavailable call's slot; memory
\* after a read and before a change.
MCRounds ==
    {<<"change", "read", "change">>, <<"unknown", "read", "read">>,
     <<"read", "memory", "change">>}
=============================================================================
