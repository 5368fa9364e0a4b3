---------------------------- MODULE MCWriteLanes ----------------------------
(* WriteLanes on two processes: two or three writers in the first, one in  *)
(* the second, on keys that nest, keys that do not, memory and WHOLE.      *)
EXTENDS WriteLanes, TLC

CONSTANTS p1, p2, w1, w2, w3, ws, global, nobody

MCProcOf == (w1 :> p1) @@ (w2 :> p1) @@ (w3 :> p2)
MCThreeInOne == [w \in {w1, w2, w3} |-> p1]
MCWorkspaceOf == (p1 :> ws) @@ (p2 :> ws)
MCOneWorkspace == p1 :> ws

Folder == [kind |-> "path", path |-> <<"repo">>]
File == [kind |-> "path", path |-> <<"repo", "a">>]
Other == [kind |-> "path", path |-> <<"repo", "b">>]
Note == [kind |-> "memory", path |-> <<>>]

MCKeys == {Folder, File, Other}
MCLockKeys == {File, Note, WHOLE}
=============================================================================
