--------------------------- MODULE ReportDelivery ---------------------------
(***************************************************************************)
(* What an outbox of agent reports promises (orchestrator/src/lib.rs       *)
(* Outbox): a dispatch that was recorded gets one terminal event, either   *)
(* the agent's answer or a note that nobody knows it; and what is marked   *)
(* as handed over has been written into the conversation it was owed to.   *)
(***************************************************************************)
EXTENDS Sequences

CONSTANT Dispatch

VARIABLES
    dispatched,  \* dispatches on the owner's chain
    ends,        \* terminal events of each dispatch, in order
    seen,        \* dispatches whose report the conversation holds
    acked        \* dispatches marked as handed over

vars == <<dispatched, ends, seen, acked>>

Init ==
    /\ dispatched = {}
    /\ ends = [d \in Dispatch |-> <<>>]
    /\ seen = {} /\ acked = {}

Send(d) ==
    /\ d \notin dispatched
    /\ dispatched' = dispatched \cup {d}
    /\ UNCHANGED <<ends, seen, acked>>

Close(d) ==
    /\ d \in dispatched /\ ends[d] = <<>>
    /\ \E how \in {"answer", "unknown"} :
          ends' = [ends EXCEPT ![d] = <<how>>]
    /\ UNCHANGED <<dispatched, seen, acked>>

\* Reports are written into the conversation, or marked, or both at once.
HandOver ==
    /\ seen \subseteq seen' /\ acked \subseteq acked'
    /\ seen' \subseteq {d \in dispatched : ends[d] # <<>>}
    /\ acked' \subseteq seen'
    /\ UNCHANGED <<dispatched, ends>>

Next == HandOver \/ \E d \in Dispatch : Send(d) \/ Close(d)

Spec == Init /\ [][Next]_vars
=============================================================================
