----------------------------- MODULE AgentOutbox -----------------------------
(***************************************************************************)
(* Reports of background agents, folded from the event log                 *)
(* (runtime/src/agents.rs LogOutbox, collect_reports), under the           *)
(* conversation's lease (runtime/src/lease.rs).                            *)
(*                                                                         *)
(* Instances are processes that open one conversation in turn; each may    *)
(* crash at any step, and the OS then drops its locks.  One that opens the *)
(* conversation closes what an earlier one left open.  A turn takes the    *)
(* reports that are owed when it begins and marks them only after it       *)
(* returned; a wait inside the turn marks them with the observation that   *)
(* carries them.                                                           *)
(***************************************************************************)
EXTENDS Integers, Sequences, FiniteSets

CONSTANTS
    Instance,    \* processes, each one start
    Dispatch,
    MaxFaults,   \* appends that fail and turns that end in an error
    None

ASSUME OutboxAssumption == MaxFaults \in Nat /\ None \notin Instance

VARIABLES
    stage,       \* where each instance is
    owner,       \* who holds the conversation's lock file
    alive,       \* instances whose own lease file is locked
    sentBy,      \* the instance a dispatch event names
    running,     \* dispatches with a task in their process
    ends,        \* terminal events of a dispatch
    seen,        \* reports the conversation's log holds as messages
    acked,       \* AgentDelivered, or named by a tool observation
    found,       \* what an opening instance still has to look at
    target,      \* the dispatch it is recovering
    claim,       \* who holds a dispatch's recovery lock
    taken,       \* reports collected when the turn began
    answered,    \* reports a wait collected, not yet logged
    orphans,     \* history: what was abandoned when an instance opened
    refused,     \* history: recoveries the log refused
    faults

recovery == <<found, target, claim, orphans, refused>>
turn == <<taken, answered>>
vars == <<stage, owner, alive, sentBy, running, ends, seen, acked, found,
          target, claim, taken, answered, orphans, refused, faults>>

Up == {"idle", "collected", "turn", "settling"}
Opening == {"opening", "reaping", "claimed", "writing"}
Stage == Up \cup Opening \cup {"off", "elsewhere", "dead"}

Init ==
    /\ stage = [i \in Instance |-> "off"]
    /\ owner = None /\ alive = {}
    /\ sentBy = [d \in Dispatch |-> None]
    /\ running = {}
    /\ ends = [d \in Dispatch |-> <<>>]
    /\ seen = {} /\ acked = {}
    /\ found = [i \in Instance |-> {}]
    /\ target = [i \in Instance |-> None]
    /\ claim = [d \in Dispatch |-> None]
    /\ taken = [i \in Instance |-> {}]
    /\ answered = [i \in Instance |-> {}]
    /\ orphans = [i \in Instance |-> {}]
    /\ refused = {} /\ faults = 0

Goto(i, to) == stage' = [stage EXCEPT ![i] = to]
Fault == faults < MaxFaults /\ faults' = faults + 1

Open == {d \in Dispatch : sentBy[d] # None /\ ends[d] = <<>>}
Abandoned(d) == sentBy[d] \notin alive

-----------------------------------------------------------------------------
(* Opening the conversation: its lock, this process's own lease, and the   *)
(* dispatches nobody will answer any more (reap_abandoned).                *)

Acquire(i) ==
    /\ stage[i] = "off" /\ owner = None
    /\ owner' = i
    /\ alive' = alive \cup {i}
    /\ orphans' = [orphans EXCEPT ![i] = {d \in Open : Abandoned(d)}]
    /\ Goto(i, "opening")
    /\ UNCHANGED <<sentBy, running, ends, seen, acked, found, target, claim,
                   turn, refused, faults>>

\* One pass over the chain: foreign dispatches without a terminal event.
Fold(i) ==
    /\ stage[i] = "opening"
    /\ found' = [found EXCEPT ![i] = {d \in Open : sentBy[d] # i}]
    /\ Goto(i, "reaping")
    /\ UNCHANGED <<owner, alive, sentBy, running, ends, seen, acked, target,
                   claim, turn, orphans, refused, faults>>

Claim(i, d) ==
    /\ claim' = [claim EXCEPT ![d] = i]
    /\ target' = [target EXCEPT ![i] = d]
    /\ found' = [found EXCEPT ![i] = @ \ {d}]
    /\ Goto(i, "claimed")

\* owner_is_live and claim_recovery.
Examine(i, d) ==
    /\ stage[i] = "reaping" /\ d \in found[i]
    /\ IF Abandoned(d) /\ claim[d] = None
       THEN Claim(i, d)
       ELSE /\ found' = [found EXCEPT ![i] = @ \ {d}]
            /\ UNCHANGED <<claim, target, stage>>
    /\ UNCHANGED <<owner, alive, sentBy, running, ends, seen, acked, turn,
                   orphans, refused, faults>>

Unclaim(i) ==
    /\ claim' = [claim EXCEPT ![target[i]] = None]
    /\ target' = [target EXCEPT ![i] = None]
    /\ Goto(i, "reaping")

\* The claim is held; the chain is read again.
Recheck(i) ==
    /\ stage[i] = "claimed"
    /\ IF ends[target[i]] = <<>>
       THEN Goto(i, "writing") /\ UNCHANGED <<claim, target>>
       ELSE Unclaim(i)
    /\ UNCHANGED <<owner, alive, sentBy, running, ends, seen, acked, found,
                   turn, orphans, refused, faults>>

WriteUnknown(i) ==
    /\ stage[i] = "writing"
    /\ \/ /\ ends' = [ends EXCEPT ![target[i]] = Append(@, "unknown")]
          /\ UNCHANGED <<refused, faults>>
       \/ /\ Fault
          /\ refused' = refused \cup {target[i]}
          /\ UNCHANGED ends
    /\ Unclaim(i)
    /\ UNCHANGED <<owner, alive, sentBy, running, seen, acked, found, turn,
                   orphans>>

\* Variant: the conversation opens while it is still being reaped.
OpenedEarly(i) ==
    /\ stage[i] = "reaping"
    /\ Goto(i, "idle")
    /\ UNCHANGED <<owner, alive, sentBy, running, ends, seen, acked, recovery,
                   turn, faults>>

Opened(i) ==
    /\ stage[i] = "reaping" /\ found[i] = {}
    /\ Goto(i, "idle")
    /\ UNCHANGED <<owner, alive, sentBy, running, ends, seen, acked, recovery,
                   turn, faults>>

-----------------------------------------------------------------------------
(* Agents (execute's calls of dispatched and finished).                    *)

Send(i, d) ==
    /\ stage[i] \in {"idle", "turn"}
    /\ sentBy[d] = None
    /\ sentBy' = [sentBy EXCEPT ![d] = i]
    /\ running' = running \cup {d}
    /\ UNCHANGED <<stage, owner, alive, ends, seen, acked, recovery, turn,
                   faults>>

\* A report the log refuses leaves the dispatch open.
Finish(d) ==
    /\ d \in running
    /\ running' = running \ {d}
    /\ \/ /\ ends' = [ends EXCEPT ![d] = Append(@, "answer")]
          /\ UNCHANGED faults
       \/ Fault /\ UNCHANGED ends
    /\ UNCHANGED <<stage, owner, alive, sentBy, seen, acked, recovery, turn>>

-----------------------------------------------------------------------------
(* Turns of the conversation.                                              *)

\* Variant: what the log already holds as a message is not owed any more.
UndeliveredUnseen == {d \in Dispatch : ends[d] # <<>>} \ (acked \cup seen)
Undelivered == {d \in Dispatch : ends[d] # <<>>} \ acked

\* Variant: collecting acknowledges.
CollectSettled(i) ==
    /\ stage[i] = "idle"
    /\ taken' = [taken EXCEPT ![i] = Undelivered]
    /\ acked' = acked \cup Undelivered
    /\ Goto(i, "collected")
    /\ UNCHANGED <<owner, alive, sentBy, running, ends, seen, recovery,
                   answered, faults>>

Collect(i) ==
    /\ stage[i] = "idle"
    /\ taken' = [taken EXCEPT ![i] = Undelivered]
    /\ Goto(i, "collected")
    /\ UNCHANGED <<owner, alive, sentBy, running, ends, seen, acked, recovery,
                   answered, faults>>

\* The turn logs its prompt, the reports with it, or fails part-way.
Begin(i) ==
    /\ stage[i] = "collected"
    /\ \/ /\ seen' = seen \cup taken[i]
          /\ Goto(i, "turn")
          /\ UNCHANGED <<taken, faults>>
       \/ /\ Fault
          /\ \E logged \in SUBSET taken[i] : seen' = seen \cup logged
          /\ taken' = [taken EXCEPT ![i] = {}]
          /\ Goto(i, "idle")
    /\ UNCHANGED <<owner, alive, sentBy, running, ends, acked, recovery,
                   answered>>

\* agent.wait returned: what is owed goes into its observation.
WaitCollects(i) ==
    /\ stage[i] = "turn" /\ answered[i] = {}
    /\ answered' = [answered EXCEPT ![i] = Undelivered]
    /\ answered'[i] # {}
    /\ UNCHANGED <<stage, owner, alive, sentBy, running, ends, seen, acked,
                   recovery, taken, faults>>

\* The append of the observation is the acknowledgement.
Observe(i) ==
    /\ stage[i] = "turn" /\ answered[i] # {}
    /\ seen' = seen \cup answered[i]
    /\ acked' = acked \cup answered[i]
    /\ answered' = [answered EXCEPT ![i] = {}]
    /\ UNCHANGED <<stage, owner, alive, sentBy, running, ends, recovery, taken,
                   faults>>

Return(i) ==
    /\ stage[i] = "turn" /\ answered[i] = {}
    /\ Goto(i, "settling")
    /\ UNCHANGED <<owner, alive, sentBy, running, ends, seen, acked, recovery,
                   turn, faults>>
Fail(i) ==
    /\ stage[i] = "turn"
    /\ Fault
    /\ taken' = [taken EXCEPT ![i] = {}]
    /\ answered' = [answered EXCEPT ![i] = {}]
    /\ Goto(i, "idle")
    /\ UNCHANGED <<owner, alive, sentBy, running, ends, seen, acked, recovery>>

\* AgentControl::settle: one append for each report; a refusal is not noticed.
Settle(i) ==
    /\ stage[i] = "settling"
    /\ IF taken[i] = {}
       THEN Goto(i, "idle") /\ UNCHANGED <<taken, acked, faults>>
       ELSE \E d \in taken[i] :
               /\ taken' = [taken EXCEPT ![i] = @ \ {d}]
               /\ \/ acked' = acked \cup {d} /\ UNCHANGED faults
                  \/ Fault /\ UNCHANGED acked
               /\ UNCHANGED stage
    /\ UNCHANGED <<owner, alive, sentBy, running, ends, seen, recovery,
                   answered>>

-----------------------------------------------------------------------------
\* The surface moves on, which it may only with no agent running.
Leave(i) ==
    /\ stage[i] = "idle"
    /\ \A d \in running : sentBy[d] # i
    /\ owner' = None
    /\ Goto(i, "elsewhere")
    /\ UNCHANGED <<alive, sentBy, running, ends, seen, acked, recovery, turn,
                   faults>>

\* The process ends; the OS releases its locks, its tasks are gone.
Die(i) ==
    /\ i \in alive
    /\ alive' = alive \ {i}
    /\ owner' = IF owner = i THEN None ELSE owner
    /\ running' = {d \in running : sentBy[d] # i}
    /\ claim' = [d \in Dispatch |-> IF claim[d] = i THEN None ELSE claim[d]]
    /\ found' = [found EXCEPT ![i] = {}]
    /\ target' = [target EXCEPT ![i] = None]
    /\ taken' = [taken EXCEPT ![i] = {}]
    /\ answered' = [answered EXCEPT ![i] = {}]
    /\ Goto(i, "dead")
    /\ UNCHANGED <<sentBy, ends, seen, acked, orphans, refused, faults>>

OpeningStep(i) ==
    \/ Fold(i) \/ Recheck(i) \/ WriteUnknown(i) \/ Opened(i)
    \/ \E d \in Dispatch : Examine(i, d)
TurnStep(i) == Begin(i) \/ Observe(i) \/ Return(i) \/ Fail(i) \/ Settle(i)

Next ==
    \/ \E i \in Instance :
          \/ Acquire(i) \/ OpeningStep(i) \/ Collect(i) \/ TurnStep(i)
          \/ WaitCollects(i) \/ Leave(i) \/ Die(i)
          \/ \E d \in Dispatch : Send(i, d)
    \/ \E d \in Dispatch : Finish(d)

\* Opening and a turn run on; an owed report wakes the idle chat loop.
Fairness ==
    /\ \A i \in Instance :
          /\ WF_vars(OpeningStep(i))
          /\ WF_vars(TurnStep(i))
          /\ WF_vars(Collect(i) /\ Undelivered # {})
    /\ \A d \in Dispatch : WF_vars(Finish(d))

Spec == Init /\ [][Next]_vars /\ Fairness

-----------------------------------------------------------------------------
(* Properties.                                                             *)

\* The variables have their types.
TypeOK ==
    /\ stage \in [Instance -> Stage]
    /\ owner \in Instance \cup {None} /\ alive \subseteq Instance
    /\ sentBy \in [Dispatch -> Instance \cup {None}]
    /\ running \subseteq Dispatch
    /\ ends \in [Dispatch -> Seq({"answer", "unknown"})]
    /\ seen \subseteq Dispatch /\ acked \subseteq Dispatch
    /\ found \in [Instance -> SUBSET Dispatch]
    /\ target \in [Instance -> Dispatch \cup {None}]
    /\ claim \in [Dispatch -> Instance \cup {None}]
    /\ taken \in [Instance -> SUBSET Dispatch]
    /\ answered \in [Instance -> SUBSET Dispatch]
    /\ orphans \in [Instance -> SUBSET Dispatch]
    /\ refused \subseteq Dispatch
    /\ faults \in 0 .. MaxFaults

\* No dispatch is answered twice, no guess is put beside an answer, and no
\* report counts as handed over that the conversation's log does not hold,
\* through crashes, failed appends and overlapping collections (agents.rs
\* finished, reap_abandoned, collect_reports).
Delivery == INSTANCE ReportDelivery
    WITH dispatched <- {d \in Dispatch : sentBy[d] # None}
DeliveryHolds == Delivery!Spec

\* Who has opened the conversation has closed every dispatch that was
\* abandoned when it opened, unless the log refused it (agents.rs
\* reap_abandoned, session/prompt.rs).
NoOrphanAfterOpening ==
    \A i \in Instance : stage[i] \in Up =>
        \A d \in orphans[i] : ends[d] # <<>> \/ d \in refused

\* A report reaches the conversation it is owed to while somebody has it
\* open: the turn that takes it may fail, its mark may be refused, and then
\* it is taken again (agents.rs undelivered).
EveryReportIsHandedOver ==
    \A d \in Dispatch :
        ends[d] # <<>> ~> d \in acked \/ owner = None
=============================================================================
