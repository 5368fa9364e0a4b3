-------------------------- MODULE AgentOutboxProofs --------------------------
(***************************************************************************)
(* Proofs about AgentOutbox, for any processes, dispatches and faults: the *)
(* reports promise of ReportDelivery, and that opening leaves no orphan.   *)
(*                                                                         *)
(* Both rest on one fact about crashes: an instance never comes back, so   *)
(* what is recovered has no task left that could still answer (Recovering, *)
(* Tasks), and only the owner of the conversation recovers (Owns, Claims). *)
(***************************************************************************)
EXTENDS AgentOutbox, TLAPS

Closed == {d \in Dispatch : ends[d] # <<>>}
Sent == {d \in Dispatch : sentBy[d] # None}
Recovered == {"claimed", "writing"}

OneEnd == \A d \in Dispatch : ends[d] \in {<<>>, <<"answer">>, <<"unknown">>}

\* A task has its process, and has not answered.
Tasks == \A d \in running : ends[d] = <<>> /\ sentBy[d] \in alive

OnlySent == Closed \subseteq Sent

\* Who has the conversation open is its owner and runs; who has not started
\* sent nothing.
Owns == \A i \in Instance :
            /\ stage[i] \in Up \cup Opening => owner = i /\ i \in alive
            /\ stage[i] = "off" => i \notin alive /\ \A d \in Dispatch : sentBy[d] # i

\* What an instance recovers was sent by one that is gone.
Recovering == \A i \in Instance :
    /\ found[i] \subseteq Sent
    /\ stage[i] \in Recovered =>
          /\ target[i] \in Dispatch /\ claim[target[i]] = i
          /\ sentBy[target[i]] \in Instance \ alive
    /\ stage[i] = "writing" => ends[target[i]] = <<>>

\* Nobody holds a recovery lock but the instance that recovers under it.
Claims == \A d \in Dispatch : claim[d] # None =>
              stage[claim[d]] \in Recovered /\ target[claim[d]] = d

\* What is taken, answered or logged has ended; what is marked is logged.
HandedInv == /\ seen \subseteq Closed /\ acked \subseteq seen
             /\ \A i \in Instance :
                   /\ taken[i] \subseteq Closed /\ answered[i] \subseteq Closed
                   /\ stage[i] \in {"turn", "settling"} => taken[i] \subseteq seen

\* What is left of the orphans while an instance opens.
Orphans == \A i \in Instance : \A d \in orphans[i] :
    /\ sentBy[d] \in Instance \ alive
    /\ stage[i] = "reaping" => d \in found[i] \cup Closed \cup refused
    /\ stage[i] \in Recovered => d \in found[i] \cup Closed \cup refused \cup {target[i]}
    /\ stage[i] \in Up => d \in Closed \cup refused

IInv == /\ TypeOK /\ OneEnd /\ Tasks /\ OnlySent /\ Owns /\ Recovering
        /\ Claims /\ HandedInv /\ Orphans

-----------------------------------------------------------------------------
(* The initial states.                                                     *)

LEMMA InitInv == Init => IInv
<1> SUFFICES ASSUME Init PROVE IInv
  OBVIOUS
<1>. USE DEF Init
<1>1. TypeOK
  BY OutboxAssumption DEF TypeOK, Stage
<1>2. OneEnd /\ Tasks /\ OnlySent
  BY DEF OneEnd, Tasks, OnlySent, Closed
<1>3. Owns
  BY OutboxAssumption DEF Owns, Up, Opening
<1>4. Recovering /\ Claims
  BY DEF Recovering, Recovered, Claims
<1>5. HandedInv /\ Orphans
  BY DEF HandedInv, Orphans
<1>. QED BY <1>1, <1>2, <1>3, <1>4, <1>5 DEF IInv

-----------------------------------------------------------------------------
(* Types, one lemma for each part of the module.                           *)

LEMMA EndType ==
    ASSUME TypeOK, NEW d \in Dispatch, NEW how \in {"answer", "unknown"}
    PROVE  [ends EXCEPT ![d] = Append(@, how)]
              \in [Dispatch -> Seq({"answer", "unknown"})]
<1>1. ends[d] \in Seq({"answer", "unknown"})
  BY DEF TypeOK
<1>2. Append(ends[d], how) \in Seq({"answer", "unknown"})
  BY <1>1
<1>. QED BY <1>2 DEF TypeOK

LEMMA OpeningType ==
    ASSUME TypeOK, Recovering, NEW i \in Instance,
           Acquire(i) \/ OpeningStep(i)
    PROVE  TypeOK'
<1>. USE DEF TypeOK, Goto, recovery, turn
<1>1. CASE Acquire(i)
  BY <1>1 DEF Acquire, Open, Stage, Opening
<1>2. CASE Fold(i)
  BY <1>2 DEF Fold, Open, Stage, Opening
<1>3. ASSUME NEW d \in Dispatch, Examine(i, d) PROVE TypeOK'
  <2>1. CASE Claim(i, d)
    BY <1>3, <2>1 DEF Examine, Claim, Stage, Opening
  <2>2. CASE UNCHANGED <<claim, target, stage>>
    BY <1>3, <2>2 DEF Examine, Claim
  <2>. QED BY <1>3, <2>1, <2>2 DEF Examine
<1>4. CASE Recheck(i)
  <2>1. CASE Goto(i, "writing") /\ UNCHANGED <<claim, target>>
    BY <1>4, <2>1 DEF Recheck, Stage, Opening
  <2>2. CASE Unclaim(i)
    BY <1>4, <2>2 DEF Recheck, Unclaim, Stage, Opening
  <2>. QED BY <1>4, <2>1, <2>2 DEF Recheck
<1>5. CASE WriteUnknown(i)
  <2>1. target[i] \in Dispatch
    BY <1>5 DEF WriteUnknown, Recovering, Recovered
  <2>2. /\ stage' \in [Instance -> Stage] /\ claim' \in [Dispatch -> Instance \cup {None}]
        /\ target' \in [Instance -> Dispatch \cup {None}]
    BY <1>5 DEF WriteUnknown, Unclaim, Stage, Opening
  <2>3. /\ ends' \in [Dispatch -> Seq({"answer", "unknown"})]
        /\ refused' \subseteq Dispatch /\ faults' \in 0 .. MaxFaults
    <3>1. CASE ends' = [ends EXCEPT ![target[i]] = Append(@, "unknown")]
               /\ UNCHANGED <<refused, faults>>
      BY <3>1, <2>1, EndType
    <3>2. CASE Fault /\ refused' = refused \cup {target[i]} /\ UNCHANGED ends
      BY <3>2, <2>1, OutboxAssumption DEF Fault
    <3>. QED BY <1>5, <3>1, <3>2 DEF WriteUnknown
  <2>. QED BY <1>5, <2>2, <2>3 DEF WriteUnknown
<1>6. CASE Opened(i)
  BY <1>6 DEF Opened, Stage, Up
<1>. QED BY <1>1, <1>2, <1>3, <1>4, <1>5, <1>6 DEF OpeningStep

LEMMA AgentType ==
    ASSUME TypeOK, NEW d \in Dispatch, Finish(d) \/ \E i \in Instance : Send(i, d)
    PROVE  TypeOK'
<1>1. CASE Finish(d)
  <2>1. ends' \in [Dispatch -> Seq({"answer", "unknown"})] /\ faults' \in 0 .. MaxFaults
    <3>1. CASE ends' = [ends EXCEPT ![d] = Append(@, "answer")] /\ UNCHANGED faults
      BY <3>1, EndType DEF TypeOK
    <3>2. CASE Fault /\ UNCHANGED ends
      BY <3>2, OutboxAssumption DEF Fault, TypeOK
    <3>. QED BY <1>1, <3>1, <3>2 DEF Finish
  <2>. QED BY <1>1, <2>1 DEF TypeOK, Finish, recovery, turn
<1>2. ASSUME NEW i \in Instance, Send(i, d) PROVE TypeOK'
  BY <1>2 DEF Send, TypeOK, recovery, turn
<1>. QED BY <1>1, <1>2

LEMMA TurnType ==
    ASSUME TypeOK, NEW i \in Instance,
           Collect(i) \/ TurnStep(i) \/ WaitCollects(i) \/ Leave(i) \/ Die(i)
    PROVE  TypeOK'
<1>. USE OutboxAssumption DEF TypeOK, Goto, recovery, turn, Fault
<1>1. CASE Collect(i)
  BY <1>1 DEF Collect, Undelivered, Stage, Up
<1>2. CASE Begin(i)
  <2>1. CASE /\ seen' = seen \cup taken[i] /\ Goto(i, "turn")
             /\ UNCHANGED <<taken, faults>>
    BY <1>2, <2>1 DEF Begin, Stage, Up
  <2>2. CASE /\ Fault /\ \E logged \in SUBSET taken[i] : seen' = seen \cup logged
             /\ taken' = [taken EXCEPT ![i] = {}] /\ Goto(i, "idle")
    BY <1>2, <2>2 DEF Begin, Stage, Up
  <2>. QED BY <1>2, <2>1, <2>2 DEF Begin
<1>3. CASE WaitCollects(i)
  BY <1>3 DEF WaitCollects, Undelivered
<1>4. CASE Observe(i)
  BY <1>4 DEF Observe
<1>5. CASE Return(i)
  BY <1>5 DEF Return, Stage, Up
<1>6. CASE Fail(i)
  BY <1>6 DEF Fail, Stage, Up
<1>7. CASE Settle(i)
  <2>1. CASE Goto(i, "idle") /\ UNCHANGED <<taken, acked, faults>>
    BY <1>7, <2>1 DEF Settle, Stage, Up
  <2>2. CASE \E d \in taken[i] :
               /\ taken' = [taken EXCEPT ![i] = @ \ {d}]
               /\ \/ acked' = acked \cup {d} /\ UNCHANGED faults
                  \/ Fault /\ UNCHANGED acked
               /\ UNCHANGED stage
    BY <1>7, <2>2 DEF Settle
  <2>. QED BY <1>7, <2>1, <2>2 DEF Settle
<1>8. CASE Leave(i)
  BY <1>8 DEF Leave, Stage
<1>9. CASE Die(i)
  BY <1>9 DEF Die, Stage
<1>. QED BY <1>1, <1>2, <1>3, <1>4, <1>5, <1>6, <1>7, <1>8, <1>9 DEF TurnStep

LEMMA TypeNext == ASSUME TypeOK, Recovering, Next PROVE TypeOK'
  BY OpeningType, AgentType, TurnType DEF Next

-----------------------------------------------------------------------------
(* Which step moves what.  A step of a turn stays within the open          *)
(* conversation and leaves the dispatches and their recovery alone.        *)

TurnMove(i) ==
    /\ stage[i] \in Up
    /\ \E s \in Up : stage' = [stage EXCEPT ![i] = s]
    /\ UNCHANGED <<owner, alive, sentBy, running, ends, recovery>>

LEMMA TurnMoves ==
    ASSUME TypeOK, NEW i \in Instance,
           Collect(i) \/ TurnStep(i) \/ WaitCollects(i)
    PROVE  TurnMove(i)
<1>. USE DEF TurnMove, Up, Goto
<1>1. CASE Collect(i)
  BY <1>1 DEF Collect
<1>2. CASE Begin(i)
  BY <1>2 DEF Begin
<1>3. ASSUME UNCHANGED stage
      PROVE  stage' = [stage EXCEPT ![i] = stage[i]]
  BY <1>3 DEF TypeOK
<1>4. CASE WaitCollects(i)
  BY <1>4, <1>3 DEF WaitCollects
<1>5. CASE Observe(i)
  BY <1>5, <1>3 DEF Observe
<1>6. CASE Return(i)
  BY <1>6 DEF Return
<1>7. CASE Fail(i)
  BY <1>7 DEF Fail
<1>8. CASE Settle(i)
  <2>1. CASE Goto(i, "idle")
    BY <1>8, <2>1 DEF Settle
  <2>2. CASE UNCHANGED stage
    BY <1>8, <2>2, <1>3 DEF Settle
  <2>. QED BY <1>8, <2>1, <2>2 DEF Settle
<1>. QED BY <1>1, <1>2, <1>4, <1>5, <1>6, <1>7, <1>8 DEF TurnStep

LEMMA StepKinds ==
    ASSUME TypeOK, Next
    PROVE  \/ \E i \in Instance :
                 \/ Acquire(i) \/ Fold(i) \/ Recheck(i) \/ WriteUnknown(i)
                 \/ Opened(i) \/ Leave(i) \/ Die(i) \/ TurnMove(i)
                 \/ \E d \in Dispatch : Examine(i, d) \/ Send(i, d)
           \/ \E d \in Dispatch : Finish(d)
<1>1. ASSUME NEW i \in Instance, Collect(i) \/ TurnStep(i) \/ WaitCollects(i)
      PROVE  TurnMove(i)
  BY <1>1, TurnMoves
<1>. QED BY <1>1 DEF Next, OpeningStep

\* Only these write a terminal event, send, or change who is alive.
LEMMA QuietSteps ==
    ASSUME TypeOK, Next
    PROVE  \/ \E i \in Instance :
                 \/ Acquire(i) \/ WriteUnknown(i) \/ Die(i)
                 \/ \E d \in Dispatch : Send(i, d)
           \/ \E d \in Dispatch : Finish(d)
           \/ UNCHANGED <<alive, sentBy, running, ends>>
<1>1. ASSUME NEW i \in Instance,
             Fold(i) \/ Recheck(i) \/ Opened(i) \/ Leave(i) \/ TurnMove(i)
      PROVE  UNCHANGED <<alive, sentBy, running, ends>>
  BY <1>1 DEF Fold, Recheck, Opened, Leave, TurnMove
<1>2. ASSUME NEW i \in Instance, NEW d \in Dispatch, Examine(i, d)
      PROVE  UNCHANGED <<alive, sentBy, running, ends>>
  BY <1>2 DEF Examine
<1>. QED BY <1>1, <1>2, StepKinds

-----------------------------------------------------------------------------
(* Terminal events and tasks.                                              *)

\* A terminal event is written over none: a task has not answered, and a
\* recovery has just read that nothing is there.
LEMMA ClosesOnce ==
    ASSUME TypeOK, Tasks, Recovering, NEW d \in Dispatch,
           Finish(d) \/ (\E i \in Instance : WriteUnknown(i) /\ target[i] = d)
    PROVE  \/ UNCHANGED ends
           \/ \E how \in {"answer", "unknown"} : ends[d] = <<>>
                 /\ ends' = [ends EXCEPT ![d] = <<how>>]
<1>1. \A how : ends[d] = <<>> => Append(ends[d], how) = <<how>>
  OBVIOUS
<1>2. CASE Finish(d)
  <2>1. ends[d] = <<>>
    BY <1>2 DEF Finish, Tasks
  <2>. QED BY <1>1, <1>2, <2>1 DEF Finish
<1>3. ASSUME NEW i \in Instance, WriteUnknown(i), target[i] = d
      PROVE  \/ UNCHANGED ends
             \/ \E how \in {"answer", "unknown"} : ends[d] = <<>>
                   /\ ends' = [ends EXCEPT ![d] = <<how>>]
  <2>1. ends[d] = <<>>
    BY <1>3 DEF WriteUnknown, Recovering
  <2>. QED BY <1>1, <1>3, <2>1 DEF WriteUnknown
<1>. QED BY <1>2, <1>3

LEMMA CloseKeeps ==
    ASSUME TypeOK, OneEnd, OnlySent, NEW d \in Dispatch, sentBy[d] # None,
           UNCHANGED sentBy,
           \/ UNCHANGED ends
           \/ \E how \in {"answer", "unknown"} : ends[d] = <<>>
                 /\ ends' = [ends EXCEPT ![d] = <<how>>]
    PROVE  OneEnd' /\ OnlySent' /\ Closed \subseteq Closed'
<1>1. CASE UNCHANGED ends
  BY <1>1 DEF OneEnd, OnlySent, Closed, Sent
<1>2. ASSUME NEW how \in {"answer", "unknown"}, ends[d] = <<>>,
             ends' = [ends EXCEPT ![d] = <<how>>]
      PROVE  OneEnd' /\ OnlySent' /\ Closed \subseteq Closed'
  <2>1. ends'[d] = <<how>> /\ \A e \in Dispatch \ {d} : ends'[e] = ends[e]
    BY <1>2 DEF TypeOK
  <2>2. <<how>> \in {<<"answer">>, <<"unknown">>}
    OBVIOUS
  <2>3. OneEnd'
    BY <2>1, <2>2 DEF OneEnd
  <2>4. Closed' \subseteq Closed \cup {d} /\ Closed \subseteq Closed'
    BY <1>2, <2>1 DEF Closed
  <2>5. OnlySent'
    BY <2>4 DEF OnlySent, Sent
  <2>. QED BY <2>3, <2>4, <2>5
<1>. QED BY <1>1, <1>2

LEMMA EndsNext ==
    ASSUME TypeOK, OneEnd, Tasks, OnlySent, Recovering, Next
    PROVE  OneEnd' /\ OnlySent' /\ Closed \subseteq Closed'
<1>1. ASSUME NEW i \in Instance, NEW d \in Dispatch, Send(i, d)
      PROVE  OneEnd' /\ OnlySent' /\ Closed \subseteq Closed'
  <2>1. UNCHANGED ends /\ Sent \subseteq Sent'
    BY <1>1 DEF Send, Sent, TypeOK
  <2>. QED BY <2>1 DEF OneEnd, OnlySent, Closed
<1>2. ASSUME NEW d \in Dispatch, Finish(d)
      PROVE  OneEnd' /\ OnlySent' /\ Closed \subseteq Closed'
  <2>1. sentBy[d] # None /\ UNCHANGED sentBy
    BY <1>2, OutboxAssumption DEF Finish, Tasks, TypeOK
  <2>. QED BY <1>2, <2>1, ClosesOnce, CloseKeeps
<1>3. ASSUME NEW i \in Instance, WriteUnknown(i)
      PROVE  OneEnd' /\ OnlySent' /\ Closed \subseteq Closed'
  <2>1. target[i] \in Dispatch /\ sentBy[target[i]] \in Instance /\ UNCHANGED sentBy
    BY <1>3 DEF WriteUnknown, Recovering, Recovered
  <2>2. sentBy[target[i]] # None
    BY <2>1, OutboxAssumption
  <2>. QED BY <1>3, <2>1, <2>2, ClosesOnce, CloseKeeps
<1>4. ASSUME UNCHANGED <<sentBy, ends>>
      PROVE  OneEnd' /\ OnlySent' /\ Closed \subseteq Closed'
  BY <1>4 DEF OneEnd, OnlySent, Closed, Sent
<1>5. ASSUME NEW i \in Instance, Acquire(i) \/ Die(i)
      PROVE  UNCHANGED <<sentBy, ends>>
  BY <1>5 DEF Acquire, Die
<1>. QED BY <1>1, <1>2, <1>3, <1>4, <1>5, QuietSteps

LEMMA TasksNext ==
    ASSUME TypeOK, Tasks, OnlySent, Owns, Recovering, Next
    PROVE  Tasks'
<1>1. ASSUME NEW i \in Instance, Acquire(i) PROVE Tasks'
  BY <1>1 DEF Acquire, Tasks
<1>2. ASSUME NEW i \in Instance, WriteUnknown(i) PROVE Tasks'
  <2>1. target[i] \notin running
    BY <1>2 DEF WriteUnknown, Recovering, Recovered, Tasks
  <2>2. \A d \in running : ends'[d] = ends[d]
    BY <1>2, <2>1 DEF WriteUnknown, TypeOK
  <2>. QED BY <1>2, <2>2 DEF WriteUnknown, Tasks
<1>3. ASSUME NEW i \in Instance, Die(i) PROVE Tasks'
  BY <1>3 DEF Die, Tasks
<1>4. ASSUME NEW i \in Instance, NEW d \in Dispatch, Send(i, d) PROVE Tasks'
  <2>1. i \in alive
    BY <1>4 DEF Send, Owns, Up
  <2>2. ends[d] = <<>>
    BY <1>4 DEF Send, OnlySent, Closed, Sent
  <2>3. sentBy'[d] = i /\ \A e \in Dispatch \ {d} : sentBy'[e] = sentBy[e]
    BY <1>4 DEF Send, TypeOK
  <2>. QED BY <1>4, <2>1, <2>2, <2>3 DEF Send, Tasks, TypeOK
<1>5. ASSUME NEW d \in Dispatch, Finish(d) PROVE Tasks'
  <2>1. \A e \in Dispatch \ {d} : ends'[e] = ends[e]
    BY <1>5 DEF Finish, TypeOK
  <2>. QED BY <1>5, <2>1 DEF Finish, Tasks, TypeOK
<1>6. CASE UNCHANGED <<alive, sentBy, running, ends>>
  BY <1>6 DEF Tasks
<1>. QED BY <1>1, <1>2, <1>3, <1>4, <1>5, <1>6, QuietSteps

-----------------------------------------------------------------------------
(* Who has the conversation.                                               *)

LEMMA OnlyOwner ==
    ASSUME Owns, NEW i \in Instance, NEW j \in Instance, i # j,
           stage[i] \in Up \cup Opening
    PROVE  stage[j] \notin Up \cup Opening
  BY DEF Owns

LEMMA MoveKeepsOwner ==
    ASSUME TypeOK, Owns, NEW i \in Instance, stage[i] \in Up \cup Opening,
           NEW s \in Up \cup Opening, stage' = [stage EXCEPT ![i] = s],
           UNCHANGED <<owner, alive, sentBy>>
    PROVE  Owns'
<1>1. stage'[i] = s /\ \A j \in Instance \ {i} : stage'[j] = stage[j]
  BY DEF TypeOK
<1>2. s # "off"
  BY DEF Up, Opening
<1>. QED BY <1>1, <1>2 DEF Owns

LEMMA OwnsNext ==
    ASSUME TypeOK, Owns, Next
    PROVE  Owns'
<1>. USE DEF Goto
<1>1. ASSUME NEW i \in Instance, Acquire(i) PROVE Owns'
  <2>1. \A j \in Instance : stage[j] \notin Up \cup Opening
    BY <1>1, OutboxAssumption DEF Acquire, Owns
  <2>2. stage'[i] = "opening" /\ \A j \in Instance \ {i} : stage'[j] = stage[j]
    BY <1>1 DEF Acquire, TypeOK
  <2>3. owner' = i /\ alive' = alive \cup {i} /\ UNCHANGED sentBy
    BY <1>1 DEF Acquire
  <2>. QED BY <2>1, <2>2, <2>3 DEF Owns
<1>2. ASSUME NEW i \in Instance, Fold(i) \/ Opened(i) PROVE Owns'
  <2>1. stage[i] \in Up \cup Opening
    BY <1>2 DEF Fold, Opened, Opening
  <2>2. \E s \in Up \cup Opening : stage' = [stage EXCEPT ![i] = s]
    BY <1>2 DEF Fold, Opened, Opening, Up
  <2>3. UNCHANGED <<owner, alive, sentBy>>
    BY <1>2 DEF Fold, Opened
  <2>. QED BY <2>1, <2>2, <2>3, MoveKeepsOwner
<1>3. ASSUME NEW i \in Instance, Recheck(i) \/ WriteUnknown(i) PROVE Owns'
  <2>1. stage[i] \in Up \cup Opening
    BY <1>3 DEF Recheck, WriteUnknown, Opening
  <2>2. \E s \in Up \cup Opening : stage' = [stage EXCEPT ![i] = s]
    BY <1>3 DEF Recheck, WriteUnknown, Unclaim, Opening
  <2>3. UNCHANGED <<owner, alive, sentBy>>
    BY <1>3 DEF Recheck, WriteUnknown
  <2>. QED BY <2>1, <2>2, <2>3, MoveKeepsOwner
<1>4. ASSUME NEW i \in Instance, NEW d \in Dispatch, Examine(i, d) PROVE Owns'
  <2>1. stage[i] \in Up \cup Opening
    BY <1>4 DEF Examine, Opening
  <2>2. stage' = [stage EXCEPT ![i] = "claimed"] \/ UNCHANGED stage
    BY <1>4 DEF Examine, Claim
  <2>3. UNCHANGED <<owner, alive, sentBy>>
    BY <1>4 DEF Examine
  <2>4. "claimed" \in Up \cup Opening
    BY DEF Opening
  <2>5. CASE UNCHANGED stage
    BY <2>3, <2>5 DEF Owns
  <2>. QED BY <2>1, <2>2, <2>3, <2>4, <2>5, MoveKeepsOwner
<1>5. ASSUME NEW i \in Instance, TurnMove(i) PROVE Owns'
  BY <1>5, MoveKeepsOwner DEF TurnMove
<1>6. ASSUME NEW i \in Instance, NEW d \in Dispatch, Send(i, d) PROVE Owns'
  <2>1. stage[i] # "off"
    BY <1>6 DEF Send
  <2>2. \A e \in Dispatch : sentBy'[e] \in {sentBy[e], i}
    BY <1>6 DEF Send, TypeOK
  <2>. QED BY <1>6, <2>1, <2>2 DEF Send, Owns
<1>7. ASSUME NEW d \in Dispatch, Finish(d) PROVE Owns'
  BY <1>7 DEF Finish, Owns
<1>8. ASSUME NEW i \in Instance, Leave(i) PROVE Owns'
  <2>1. stage[i] \in Up \cup Opening
    BY <1>8 DEF Leave, Up
  <2>2. stage'[i] = "elsewhere" /\ \A j \in Instance \ {i} : stage'[j] = stage[j]
    BY <1>8 DEF Leave, TypeOK
  <2>3. "elsewhere" \notin Up \cup Opening
    BY DEF Up, Opening
  <2>. QED BY <1>8, <2>1, <2>2, <2>3, OnlyOwner DEF Leave, Owns
<1>9. ASSUME NEW i \in Instance, Die(i) PROVE Owns'
  <2>1. stage'[i] = "dead" /\ \A j \in Instance \ {i} : stage'[j] = stage[j]
    BY <1>9 DEF Die, TypeOK
  <2>2. "dead" \notin Up \cup Opening
    BY DEF Up, Opening
  <2>3. /\ alive' = alive \ {i} /\ UNCHANGED sentBy
        /\ \A j \in Instance \ {i} : owner = j => owner' = j
    BY <1>9 DEF Die
  <2>. QED BY <2>1, <2>2, <2>3 DEF Owns
<1>. QED BY <1>1, <1>2, <1>3, <1>4, <1>5, <1>6, <1>7, <1>8, <1>9, StepKinds

-----------------------------------------------------------------------------
(* Recovery.                                                               *)

\* While one instance has the conversation open, no other recovers.
LEMMA OwnerRecovers ==
    ASSUME Recovering, Owns, NEW i \in Instance, stage[i] \in Up \cup Opening,
           \A j \in Instance \ {i} : stage'[j] = stage[j] /\ found'[j] = found[j],
           Sent \subseteq Sent', found'[i] \subseteq Sent',
           stage'[i] \in Recovered =>
              /\ target'[i] \in Dispatch /\ claim'[target'[i]] = i
              /\ sentBy'[target'[i]] \in Instance \ alive',
           stage'[i] = "writing" => ends'[target'[i]] = <<>>
    PROVE  Recovering'
<1>1. ASSUME NEW j \in Instance, j # i
      PROVE  stage'[j] \notin Recovered /\ found'[j] \subseteq Sent'
  <2>1. stage[j] \notin Up \cup Opening
    BY <1>1, OnlyOwner
  <2>2. Recovered \subseteq Opening
    BY DEF Recovered, Opening
  <2>3. found[j] \subseteq Sent
    BY DEF Recovering
  <2>. QED BY <1>1, <2>1, <2>2, <2>3
<1>2. "writing" \in Recovered
  BY DEF Recovered
<1>. QED BY <1>1, <1>2 DEF Recovering

\* A task is not what somebody recovers.
LEMMA TasksApart ==
    ASSUME Tasks, Recovering, NEW i \in Instance, stage[i] \in Recovered
    PROVE  target[i] \in Dispatch \ running
  BY DEF Tasks, Recovering

LEMMA RecoveringNext ==
    ASSUME TypeOK, Tasks, Owns, Recovering, Next
    PROVE  Recovering'
<1>. USE DEF Goto
<1>1. ASSUME NEW i \in Instance, Acquire(i) PROVE Recovering'
  <2>1. \A j \in Instance : stage[j] \notin Up \cup Opening
    BY <1>1, OutboxAssumption DEF Acquire, Owns
  <2>2. \A j \in Instance : stage'[j] \in {stage[j], "opening"}
    BY <1>1 DEF Acquire, TypeOK
  <2>3. \A j \in Instance : stage'[j] \notin Recovered /\ stage'[j] # "writing"
    BY <2>1, <2>2 DEF Recovered, Opening
  <2>4. UNCHANGED <<found, sentBy>>
    BY <1>1 DEF Acquire, recovery
  <2>. QED BY <2>3, <2>4 DEF Recovering, Sent
<1>2. ASSUME NEW i \in Instance, Fold(i) PROVE Recovering'
  <2>1. /\ stage[i] \in Up \cup Opening /\ stage'[i] = "reaping"
        /\ \A j \in Instance \ {i} : stage'[j] = stage[j] /\ found'[j] = found[j]
    BY <1>2 DEF Fold, TypeOK, Opening
  <2>2. found'[i] \subseteq Sent' /\ Sent \subseteq Sent'
    BY <1>2 DEF Fold, TypeOK, Open, Sent
  <2>3. stage'[i] \notin Recovered /\ stage'[i] # "writing"
    BY <2>1 DEF Recovered
  <2>. QED BY <2>1, <2>2, <2>3, OwnerRecovers
<1>3. ASSUME NEW i \in Instance, NEW d \in Dispatch, Examine(i, d)
      PROVE  Recovering'
  <2>1. /\ stage[i] \in Up \cup Opening
        /\ \A j \in Instance \ {i} : stage'[j] = stage[j] /\ found'[j] = found[j]
    BY <1>3 DEF Examine, Claim, TypeOK, Opening
  <2>2. found'[i] \subseteq Sent' /\ Sent \subseteq Sent'
    <3>1. found'[i] \subseteq found[i] /\ UNCHANGED sentBy
      BY <1>3 DEF Examine, Claim, TypeOK
    <3>. QED BY <3>1 DEF Recovering, Sent
  <2>3. CASE Claim(i, d) /\ Abandoned(d)
    <3>1. target'[i] = d /\ claim'[d] = i /\ stage'[i] = "claimed"
      BY <2>3 DEF Claim, TypeOK
    <3>2. sentBy'[d] \in Instance \ alive'
      <4>1. sentBy[d] # None /\ UNCHANGED <<sentBy, alive>>
        BY <1>3 DEF Examine, Recovering, Sent
      <4>. QED BY <2>3, <4>1 DEF Abandoned, TypeOK
    <3>. QED BY <2>1, <2>2, <3>1, <3>2, OwnerRecovers
  <2>4. CASE UNCHANGED stage
    <3>1. stage'[i] \notin Recovered /\ stage'[i] # "writing"
      BY <1>3, <2>4 DEF Examine, Recovered
    <3>. QED BY <2>1, <2>2, <3>1, OwnerRecovers
  <2>. QED BY <1>3, <2>3, <2>4 DEF Examine
<1>4. ASSUME NEW i \in Instance, Recheck(i) PROVE Recovering'
  <2>1. /\ stage[i] \in Up \cup Opening
        /\ \A j \in Instance \ {i} : stage'[j] = stage[j] /\ found'[j] = found[j]
    BY <1>4 DEF Recheck, Unclaim, TypeOK, Opening
  <2>2. found'[i] \subseteq Sent' /\ Sent \subseteq Sent'
    BY <1>4 DEF Recheck, Recovering, Sent
  <2>3. CASE /\ ends[target[i]] = <<>> /\ Goto(i, "writing")
             /\ UNCHANGED <<claim, target>>
    <3>1. stage[i] \in Recovered /\ UNCHANGED <<sentBy, alive, ends>>
      BY <1>4 DEF Recheck, Recovered
    <3>2. /\ target'[i] \in Dispatch /\ claim'[target'[i]] = i
          /\ sentBy'[target'[i]] \in Instance \ alive'
          /\ ends'[target'[i]] = <<>>
      BY <2>3, <3>1 DEF Recovering
    <3>. QED BY <2>1, <2>2, <3>2, OwnerRecovers
  <2>4. CASE Unclaim(i)
    <3>1. stage'[i] \notin Recovered /\ stage'[i] # "writing"
      BY <2>4 DEF Unclaim, TypeOK, Recovered
    <3>. QED BY <2>1, <2>2, <3>1, OwnerRecovers
  <2>. QED BY <1>4, <2>3, <2>4 DEF Recheck
<1>5. ASSUME NEW i \in Instance, WriteUnknown(i) PROVE Recovering'
  <2>1. /\ stage[i] \in Up \cup Opening /\ stage'[i] = "reaping"
        /\ \A j \in Instance \ {i} : stage'[j] = stage[j] /\ found'[j] = found[j]
    BY <1>5 DEF WriteUnknown, Unclaim, TypeOK, Opening
  <2>2. found'[i] \subseteq Sent' /\ Sent \subseteq Sent'
    BY <1>5 DEF WriteUnknown, Recovering, Sent
  <2>3. stage'[i] \notin Recovered /\ stage'[i] # "writing"
    BY <2>1 DEF Recovered
  <2>. QED BY <2>1, <2>2, <2>3, OwnerRecovers
<1>6. ASSUME NEW i \in Instance, Opened(i) \/ Leave(i) \/ TurnMove(i)
      PROVE  Recovering'
  <2>1. /\ stage[i] \in Up \cup Opening
        /\ \A j \in Instance \ {i} : stage'[j] = stage[j] /\ found'[j] = found[j]
    <3>1. stage[i] \in Up \cup Opening /\ UNCHANGED found
      BY <1>6 DEF Opened, Leave, TurnMove, recovery, Opening, Up
    <3>2. \A j \in Instance \ {i} : stage'[j] = stage[j]
      BY <1>6 DEF Opened, Leave, TurnMove, TypeOK
    <3>. QED BY <3>1, <3>2
  <2>2. found'[i] \subseteq Sent' /\ Sent \subseteq Sent'
    BY <1>6 DEF Opened, Leave, TurnMove, recovery, Recovering, Sent
  <2>3. stage'[i] \notin Recovered /\ stage'[i] # "writing"
    BY <1>6 DEF Opened, Leave, TurnMove, TypeOK, Up, Recovered
  <2>. QED BY <2>1, <2>2, <2>3, OwnerRecovers
<1>7. ASSUME NEW i \in Instance, NEW d \in Dispatch, Send(i, d)
      PROVE  Recovering'
  <2>1. /\ stage[i] \in Up \cup Opening
        /\ stage[i] \notin Recovered /\ stage[i] # "writing"
    BY <1>7 DEF Send, Up, Recovered
  <2>2. UNCHANGED <<stage, found>>
    BY <1>7 DEF Send, recovery
  <2>3. Sent \subseteq Sent'
    BY <1>7, OutboxAssumption DEF Send, TypeOK, Sent
  <2>4. found'[i] \subseteq Sent'
    BY <2>2, <2>3 DEF Recovering
  <2>. QED BY <2>1, <2>2, <2>3, <2>4, OwnerRecovers
<1>8. ASSUME NEW d \in Dispatch, Finish(d) PROVE Recovering'
  <2>1. d \in running /\ UNCHANGED <<stage, found, target, claim, sentBy, alive>>
    BY <1>8 DEF Finish, recovery
  <2>2. \A e \in Dispatch \ {d} : ends'[e] = ends[e]
    BY <1>8 DEF Finish, TypeOK
  <2>3. ASSUME NEW j \in Instance, stage[j] = "writing"
        PROVE  ends'[target[j]] = <<>>
    <3>1. target[j] \in Dispatch \ running
      BY <2>3, TasksApart DEF Recovered
    <3>2. ends[target[j]] = <<>>
      BY <2>3 DEF Recovering
    <3>. QED BY <2>1, <2>2, <3>1, <3>2
  <2>. QED BY <2>1, <2>3 DEF Recovering, Sent
<1>9. ASSUME NEW i \in Instance, Die(i) PROVE Recovering'
  <2>1. stage'[i] = "dead" /\ found'[i] = {}
    BY <1>9 DEF Die, TypeOK
  <2>2. ASSUME NEW j \in Instance, j # i
        PROVE  stage'[j] = stage[j] /\ found'[j] = found[j] /\ target'[j] = target[j]
    BY <1>9, <2>2 DEF Die, TypeOK
  <2>3. /\ alive' \subseteq alive /\ UNCHANGED <<sentBy, ends>>
        /\ \A d \in Dispatch : claim[d] # i => claim'[d] = claim[d]
    BY <1>9 DEF Die
  <2>4. ASSUME NEW j \in Instance, j # i, stage[j] \in Recovered
        PROVE  /\ target'[j] \in Dispatch /\ claim'[target'[j]] = j
               /\ sentBy'[target'[j]] \in Instance \ alive'
    <3>1. /\ target[j] \in Dispatch /\ claim[target[j]] = j
          /\ sentBy[target[j]] \in Instance \ alive
      BY <2>4 DEF Recovering
    <3>. QED BY <2>2, <2>3, <2>4, <3>1
  <2>5. ASSUME NEW j \in Instance
        PROVE  found'[j] \subseteq Sent'
    <3>1. found'[j] \subseteq found[j]
      BY <2>1, <2>2
    <3>. QED BY <2>3, <3>1 DEF Recovering, Sent
  <2>6. "dead" \notin Recovered /\ "writing" \in Recovered
    BY DEF Recovered
  <2>7. ASSUME NEW j \in Instance, stage'[j] = "writing"
        PROVE  ends'[target'[j]] = <<>>
    <3>1. j # i /\ stage[j] = "writing"
      BY <2>1, <2>2, <2>7
    <3>. QED BY <2>2, <2>3, <3>1 DEF Recovering
  <2>. QED BY <2>1, <2>2, <2>4, <2>5, <2>6, <2>7 DEF Recovering
<1>. QED BY <1>1, <1>2, <1>3, <1>4, <1>5, <1>6, <1>7, <1>8, <1>9, StepKinds

LEMMA ClaimsNext ==
    ASSUME TypeOK, Owns, Claims, Next
    PROVE  Claims'
<1>. USE DEF Goto
<1>1. ASSUME NEW i \in Instance, Acquire(i) PROVE Claims'
  <2>1. \A d \in Dispatch : claim[d] = None
    <3>1. ASSUME NEW d \in Dispatch, claim[d] # None PROVE FALSE
      <4>1. claim[d] \in Instance /\ stage[claim[d]] \in Up \cup Opening
        BY <3>1 DEF Claims, TypeOK, Recovered, Opening
      <4>2. owner = claim[d]
        BY <4>1 DEF Owns
      <4>. QED BY <1>1, <3>1, <4>2 DEF Acquire
    <3>. QED BY <3>1
  <2>. QED BY <1>1, <2>1 DEF Acquire, recovery, Claims
<1>2. ASSUME NEW i \in Instance, Fold(i) \/ Opened(i) \/ Leave(i) \/ TurnMove(i)
      PROVE  Claims'
  <2>1. stage[i] \notin Recovered /\ UNCHANGED <<claim, target>>
    BY <1>2 DEF Fold, Opened, Leave, TurnMove, recovery, Up, Recovered
  <2>2. \A j \in Instance \ {i} : stage'[j] = stage[j]
    BY <1>2 DEF Fold, Opened, Leave, TurnMove, TypeOK
  <2>3. \A d \in Dispatch : claim[d] # None => claim[d] \in Instance \ {i}
    BY <2>1 DEF Claims, TypeOK
  <2>. QED BY <2>1, <2>2, <2>3 DEF Claims
<1>3. ASSUME NEW i \in Instance, NEW d \in Dispatch, Examine(i, d)
      PROVE  Claims'
  <2>1. stage[i] \notin Recovered
    BY <1>3 DEF Examine, Recovered
  <2>2. CASE Claim(i, d)
    <3>1. /\ stage'[i] \in Recovered /\ target'[i] = d /\ claim'[d] = i
          /\ \A j \in Instance \ {i} : stage'[j] = stage[j] /\ target'[j] = target[j]
          /\ \A e \in Dispatch \ {d} : claim'[e] = claim[e]
      BY <2>2 DEF Claim, TypeOK, Recovered
    <3>2. \A e \in Dispatch : claim[e] # None => claim[e] \in Instance \ {i}
      BY <2>1 DEF Claims, TypeOK
    <3>3. ASSUME NEW e \in Dispatch \ {d}, claim'[e] # None
          PROVE  stage'[claim'[e]] \in Recovered /\ target'[claim'[e]] = e
      BY <3>1, <3>2, <3>3 DEF Claims
    <3>. QED BY <3>1, <3>3 DEF Claims
  <2>3. CASE UNCHANGED <<claim, target, stage>>
    BY <2>3 DEF Claims
  <2>. QED BY <1>3, <2>2, <2>3 DEF Examine
<1>4. ASSUME NEW i \in Instance, Unclaim(i) PROVE Claims'
  <2>1. /\ \A j \in Instance \ {i} : stage'[j] = stage[j] /\ target'[j] = target[j]
        /\ \A e \in Dispatch : claim'[e] # None => e # target[i] /\ claim'[e] = claim[e]
    BY <1>4 DEF Unclaim, TypeOK
  <2>. QED BY <2>1 DEF Claims, TypeOK
<1>5. ASSUME NEW i \in Instance, Goto(i, "writing"), UNCHANGED <<claim, target>>
      PROVE  Claims'
  <2>1. stage'[i] \in Recovered /\ \A j \in Instance \ {i} : stage'[j] = stage[j]
    BY <1>5 DEF TypeOK, Recovered
  <2>. QED BY <1>5, <2>1 DEF Claims, TypeOK
<1>6. ASSUME NEW i \in Instance, Recheck(i) \/ WriteUnknown(i) PROVE Claims'
  BY <1>4, <1>5, <1>6 DEF Recheck, WriteUnknown
<1>7. CASE UNCHANGED <<stage, target, claim>>
  BY <1>7 DEF Claims
<1>8. ASSUME NEW d \in Dispatch, Finish(d) \/ \E i \in Instance : Send(i, d)
      PROVE  UNCHANGED <<stage, target, claim>>
  BY <1>8 DEF Finish, Send, recovery
<1>9. ASSUME NEW i \in Instance, Die(i) PROVE Claims'
  <2>1. /\ \A j \in Instance \ {i} : stage'[j] = stage[j] /\ target'[j] = target[j]
        /\ \A e \in Dispatch : claim'[e] # None => claim'[e] = claim[e] /\ claim[e] # i
    BY <1>9 DEF Die, TypeOK
  <2>. QED BY <2>1 DEF Claims, TypeOK
<1>. QED BY <1>1, <1>2, <1>3, <1>6, <1>7, <1>8, <1>9, StepKinds

-----------------------------------------------------------------------------
(* What is handed over.                                                    *)

\* A step outside a turn takes nothing, marks nothing and begins no turn.
LEMMA HandedStays ==
    ASSUME HandedInv, Closed \subseteq Closed', UNCHANGED <<seen, acked>>,
           \A j \in Instance : taken'[j] \subseteq taken[j]
                               /\ answered'[j] \subseteq answered[j],
           \A j \in Instance : stage'[j] \in {"turn", "settling"} => stage'[j] = stage[j]
    PROVE  HandedInv'
<1>1. seen' \subseteq Closed' /\ acked' \subseteq seen'
  BY DEF HandedInv
<1>2. ASSUME NEW j \in Instance
      PROVE  /\ taken'[j] \subseteq Closed' /\ answered'[j] \subseteq Closed'
             /\ stage'[j] \in {"turn", "settling"} => taken'[j] \subseteq seen'
  <2>1. /\ taken[j] \subseteq Closed /\ answered[j] \subseteq Closed
        /\ stage[j] \in {"turn", "settling"} => taken[j] \subseteq seen
    BY DEF HandedInv
  <2>2. /\ taken'[j] \subseteq taken[j] /\ answered'[j] \subseteq answered[j]
        /\ stage'[j] \in {"turn", "settling"} => stage'[j] = stage[j]
    OBVIOUS
  <2>. QED BY <2>1, <2>2
<1>. QED BY <1>1, <1>2 DEF HandedInv

\* What a step of a turn must keep, given that it moves only its instance.
LEMMA HandedMoves ==
    ASSUME TypeOK, HandedInv, NEW i \in Instance, UNCHANGED ends,
           seen \subseteq seen', seen' \subseteq Closed, acked' \subseteq seen',
           \A j \in Instance \ {i} : /\ stage'[j] = stage[j] /\ taken'[j] = taken[j]
                                     /\ answered'[j] = answered[j],
           taken'[i] \subseteq Closed, answered'[i] \subseteq Closed,
           stage'[i] \in {"turn", "settling"} => taken'[i] \subseteq seen'
    PROVE  HandedInv'
<1>1. Closed' = Closed
  BY DEF Closed
<1>2. ASSUME NEW j \in Instance \ {i}
      PROVE  /\ taken'[j] \subseteq Closed' /\ answered'[j] \subseteq Closed'
             /\ stage'[j] \in {"turn", "settling"} => taken'[j] \subseteq seen'
  BY <1>1 DEF HandedInv
<1>3. seen' \subseteq Closed' /\ acked' \subseteq seen'
  BY <1>1
<1>4. /\ taken'[i] \subseteq Closed' /\ answered'[i] \subseteq Closed'
      /\ stage'[i] \in {"turn", "settling"} => taken'[i] \subseteq seen'
  BY <1>1
<1>. QED BY <1>2, <1>3, <1>4 DEF HandedInv

LEMMA HandedByTurn ==
    ASSUME TypeOK, HandedInv, NEW i \in Instance,
           Collect(i) \/ TurnStep(i) \/ WaitCollects(i)
    PROVE  HandedInv'
<1>. USE DEF Goto
<1>1. /\ UNCHANGED ends
      /\ \A j \in Instance \ {i} : /\ stage'[j] = stage[j] /\ taken'[j] = taken[j]
                                   /\ answered'[j] = answered[j]
  <2>1. CASE Collect(i) \/ WaitCollects(i)
    BY <2>1 DEF Collect, WaitCollects, TypeOK
  <2>2. CASE Begin(i)
    BY <2>2 DEF Begin, TypeOK
  <2>3. CASE Observe(i) \/ Return(i) \/ Fail(i)
    BY <2>3 DEF Observe, Return, Fail, turn, TypeOK
  <2>4. CASE Settle(i)
    BY <2>4 DEF Settle, TypeOK
  <2>. QED BY <2>1, <2>2, <2>3, <2>4 DEF TurnStep
<1>2. /\ seen \subseteq Closed /\ acked \subseteq seen
      /\ taken[i] \subseteq Closed /\ answered[i] \subseteq Closed
      /\ stage[i] \in {"turn", "settling"} => taken[i] \subseteq seen
  BY DEF HandedInv
<1>3. Undelivered \subseteq Closed
  BY DEF Undelivered, Closed
<1>4. ASSUME seen \subseteq seen', seen' \subseteq Closed, acked' \subseteq seen',
             taken'[i] \subseteq Closed, answered'[i] \subseteq Closed,
             stage'[i] \in {"turn", "settling"} => taken'[i] \subseteq seen'
      PROVE  HandedInv'
  BY <1>1, <1>4, HandedMoves
<1>5. CASE Collect(i)
  <2>1. taken'[i] = Undelivered /\ stage'[i] = "collected"
    BY <1>5 DEF Collect, TypeOK
  <2>2. UNCHANGED <<seen, acked, answered>>
    BY <1>5 DEF Collect
  <2>. QED BY <1>2, <1>3, <1>4, <2>1, <2>2
<1>6. CASE Begin(i)
  <2>1. /\ seen' \subseteq seen \cup taken[i] /\ seen \subseteq seen'
        /\ UNCHANGED <<acked, answered>>
    BY <1>6 DEF Begin
  <2>2. taken'[i] \subseteq taken[i] /\ taken'[i] \subseteq seen'
    BY <1>6 DEF Begin, TypeOK
  <2>. QED BY <1>2, <1>4, <2>1, <2>2
<1>7. CASE WaitCollects(i)
  <2>1. answered'[i] = Undelivered
    BY <1>7 DEF WaitCollects, TypeOK
  <2>2. UNCHANGED <<stage, seen, acked, taken>>
    BY <1>7 DEF WaitCollects
  <2>. QED BY <1>2, <1>3, <1>4, <2>1, <2>2
<1>8. CASE Observe(i)
  <2>1. /\ seen' = seen \cup answered[i] /\ acked' = acked \cup answered[i]
        /\ UNCHANGED <<stage, taken>>
    BY <1>8 DEF Observe
  <2>2. answered'[i] = {}
    BY <1>8 DEF Observe, TypeOK
  <2>. QED BY <1>2, <1>4, <2>1, <2>2
<1>9. CASE Return(i)
  <2>1. stage[i] = "turn" /\ UNCHANGED <<seen, acked, taken, answered>>
    BY <1>9 DEF Return, turn
  <2>. QED BY <1>2, <1>4, <2>1
<1>10. CASE Fail(i)
  <2>1. taken'[i] = {} /\ answered'[i] = {}
    BY <1>10 DEF Fail, TypeOK
  <2>2. UNCHANGED <<seen, acked>>
    BY <1>10 DEF Fail
  <2>. QED BY <1>2, <1>4, <2>1, <2>2
<1>11. CASE Settle(i)
  <2>1. stage[i] = "settling" /\ UNCHANGED <<seen, answered>>
    BY <1>11 DEF Settle
  <2>2. taken'[i] \subseteq taken[i] /\ acked' \subseteq acked \cup taken[i]
    BY <1>11 DEF Settle, TypeOK
  <2>. QED BY <1>2, <1>4, <2>1, <2>2
<1>. QED BY <1>5, <1>6, <1>7, <1>8, <1>9, <1>10, <1>11 DEF TurnStep

LEMMA HandedNext ==
    ASSUME TypeOK, HandedInv, Closed \subseteq Closed', Next
    PROVE  HandedInv'
<1>. USE DEF Goto
<1>1. ASSUME NEW i \in Instance, Acquire(i) \/ Fold(i) \/ Opened(i) \/ Leave(i)
      PROVE  HandedInv'
  <2>1. UNCHANGED <<seen, acked, taken, answered>>
    BY <1>1 DEF Acquire, Fold, Opened, Leave, turn
  <2>2. \A j \in Instance : stage'[j] \in {"turn", "settling"} => stage'[j] = stage[j]
    BY <1>1 DEF Acquire, Fold, Opened, Leave, TypeOK
  <2>. QED BY <2>1, <2>2, HandedStays
<1>2. ASSUME NEW i \in Instance, Recheck(i) \/ WriteUnknown(i)
      PROVE  HandedInv'
  <2>1. UNCHANGED <<seen, acked, taken, answered>>
    BY <1>2 DEF Recheck, WriteUnknown, turn
  <2>2. \A j \in Instance : stage'[j] \in {"turn", "settling"} => stage'[j] = stage[j]
    BY <1>2 DEF Recheck, WriteUnknown, Unclaim, TypeOK
  <2>. QED BY <2>1, <2>2, HandedStays
<1>3. ASSUME NEW i \in Instance, NEW d \in Dispatch, Examine(i, d) \/ Send(i, d)
      PROVE  HandedInv'
  <2>1. UNCHANGED <<seen, acked, taken, answered>>
    BY <1>3 DEF Examine, Send, turn
  <2>2. \A j \in Instance : stage'[j] \in {"turn", "settling"} => stage'[j] = stage[j]
    BY <1>3 DEF Examine, Claim, Send, TypeOK
  <2>. QED BY <2>1, <2>2, HandedStays
<1>4. ASSUME NEW d \in Dispatch, Finish(d) PROVE HandedInv'
  <2>1. UNCHANGED <<seen, acked, taken, answered, stage>>
    BY <1>4 DEF Finish, turn
  <2>. QED BY <2>1, HandedStays
<1>5. ASSUME NEW i \in Instance, Die(i) PROVE HandedInv'
  <2>1. /\ UNCHANGED <<seen, acked>>
        /\ \A j \in Instance : /\ taken'[j] \subseteq taken[j]
                               /\ answered'[j] \subseteq answered[j]
    BY <1>5 DEF Die, TypeOK
  <2>2. \A j \in Instance : stage'[j] \in {"turn", "settling"} => stage'[j] = stage[j]
    BY <1>5 DEF Die, TypeOK
  <2>. QED BY <2>1, <2>2, HandedStays
<1>. QED BY <1>1, <1>2, <1>3, <1>4, <1>5, HandedByTurn DEF Next, OpeningStep
-----------------------------------------------------------------------------
(* Orphans.                                                                *)

\* An orphan's recovery lock is free to the instance that opens.
LEMMA OrphansAreFree ==
    ASSUME TypeOK, Owns, Claims, Orphans, NEW i \in Instance,
           stage[i] = "reaping", NEW d \in orphans[i]
    PROVE  Abandoned(d) /\ claim[d] = None
<1>1. d \in Dispatch /\ sentBy[d] \notin alive
  BY DEF TypeOK, Orphans
<1>2. ASSUME claim[d] # None PROVE FALSE
  <2>1. claim[d] \in Instance /\ stage[claim[d]] \in Recovered
    BY <1>1, <1>2 DEF Claims, TypeOK
  <2>2. claim[d] # i /\ stage[claim[d]] \in Up \cup Opening
    BY <2>1 DEF Recovered, Opening
  <2>3. stage[i] \in Up \cup Opening
    BY DEF Opening
  <2>. QED BY <2>1, <2>2, <2>3, OnlyOwner
<1>. QED BY <1>1, <1>2 DEF Abandoned

\* What a step must keep of one instance's orphans, in the stage it leaves
\* the instance in.
OrphansOf(j) == \A d \in orphans[j] :
    /\ sentBy[d] \in Instance \ alive
    /\ stage[j] = "reaping" => d \in found[j] \cup Closed \cup refused
    /\ stage[j] \in Recovered => d \in found[j] \cup Closed \cup refused \cup {target[j]}
    /\ stage[j] \in Up => d \in Closed \cup refused

LEMMA OrphansStay ==
    ASSUME Orphans, NEW j \in Instance, Closed \subseteq Closed',
           refused \subseteq refused', UNCHANGED orphans,
           stage'[j] = stage[j], found'[j] = found[j], target'[j] = target[j],
           \A d \in orphans[j] : sentBy'[d] = sentBy[d] /\ sentBy[d] \notin alive'
    PROVE  OrphansOf(j)'
  BY DEF Orphans, OrphansOf

LEMMA OrphansByOpening ==
    ASSUME TypeOK, Owns, Claims, Orphans, Closed \subseteq Closed',
           NEW i \in Instance,
           Fold(i) \/ Recheck(i) \/ WriteUnknown(i) \/ Opened(i)
              \/ (\E d \in Dispatch : Examine(i, d))
    PROVE  Orphans'
<1>. USE DEF Goto
<1>1. UNCHANGED <<orphans, sentBy, alive>> /\ refused \subseteq refused'
  <2>1. CASE Fold(i) \/ Recheck(i) \/ Opened(i)
    BY <2>1 DEF Fold, Recheck, Opened, recovery
  <2>2. CASE WriteUnknown(i)
    BY <2>2 DEF WriteUnknown
  <2>3. CASE \E d \in Dispatch : Examine(i, d)
    BY <2>3 DEF Examine
  <2>. QED BY <2>1, <2>2, <2>3
<1>2. \A j \in Instance \ {i} :
         stage'[j] = stage[j] /\ found'[j] = found[j] /\ target'[j] = target[j]
  <2>1. CASE Fold(i) \/ Opened(i)
    BY <2>1 DEF Fold, Opened, recovery, TypeOK
  <2>2. CASE Recheck(i) \/ WriteUnknown(i)
    BY <2>2 DEF Recheck, WriteUnknown, Unclaim, TypeOK
  <2>3. CASE \E d \in Dispatch : Examine(i, d)
    BY <2>3 DEF Examine, Claim, TypeOK
  <2>. QED BY <2>1, <2>2, <2>3
<1>3. \A j \in Instance : \A d \in orphans[j] : sentBy[d] \in Instance \ alive
  BY DEF Orphans
<1>4. \A j \in Instance \ {i} : OrphansOf(j)'
  BY <1>1, <1>2, <1>3, OrphansStay
<1>5. CASE Fold(i)
  <2>1. stage'[i] = "reaping" /\ found'[i] = {d \in Open : sentBy[d] # i}
    BY <1>5 DEF Fold, TypeOK
  <2>2. ASSUME NEW d \in orphans[i] PROVE d \in found'[i] \cup Closed'
    <3>1. d \in Dispatch /\ sentBy[d] # i /\ sentBy[d] # None
      BY <1>3, <1>5, OutboxAssumption DEF TypeOK, Fold, Owns, Opening
    <3>. QED BY <2>1, <3>1 DEF Open, Closed
  <2>3. OrphansOf(i)'
    BY <1>1, <1>3, <2>1, <2>2 DEF OrphansOf, Recovered, Up
  <2>. QED BY <1>4, <2>3 DEF Orphans, OrphansOf
<1>6. ASSUME NEW d \in Dispatch, Examine(i, d) PROVE Orphans'
  <2>1. \A e \in orphans[i] : e \in found[i] \cup Closed \cup refused
    BY <1>6 DEF Examine, Orphans
  <2>2. CASE Claim(i, d)
    <3>1. /\ stage'[i] = "claimed" /\ found'[i] = found[i] \ {d}
          /\ target'[i] = d
      BY <2>2 DEF Claim, TypeOK
    <3>2. OrphansOf(i)'
      BY <1>1, <1>3, <2>1, <3>1 DEF OrphansOf, Up
    <3>. QED BY <1>4, <3>2 DEF Orphans, OrphansOf
  <2>3. CASE /\ ~(Abandoned(d) /\ claim[d] = None) /\ UNCHANGED stage
             /\ found' = [found EXCEPT ![i] = @ \ {d}]
    <3>1. stage'[i] = "reaping" /\ found'[i] = found[i] \ {d}
      BY <1>6, <2>3 DEF Examine, TypeOK
    <3>2. d \notin orphans[i]
      BY <1>6, <2>3, OrphansAreFree DEF Examine
    <3>3. OrphansOf(i)'
      BY <1>1, <1>3, <2>1, <3>1, <3>2 DEF OrphansOf, Recovered, Up
    <3>. QED BY <1>4, <3>3 DEF Orphans, OrphansOf
  <2>. QED BY <1>6, <2>2, <2>3 DEF Examine
<1>7. CASE Recheck(i)
  <2>1. \A e \in orphans[i] : e \in found[i] \cup Closed \cup refused \cup {target[i]}
    BY <1>7 DEF Recheck, Orphans, Recovered
  <2>2. CASE Goto(i, "writing") /\ UNCHANGED <<claim, target>>
    <3>1. stage'[i] = "writing" /\ found'[i] = found[i] /\ target'[i] = target[i]
      BY <1>7, <2>2 DEF Recheck, TypeOK
    <3>2. OrphansOf(i)'
      BY <1>1, <1>3, <2>1, <3>1 DEF OrphansOf, Up
    <3>. QED BY <1>4, <3>2 DEF Orphans, OrphansOf
  <2>3. CASE ends[target[i]] # <<>> /\ Unclaim(i)
    <3>1. stage'[i] = "reaping" /\ found'[i] = found[i]
      BY <1>7, <2>3 DEF Recheck, Unclaim, TypeOK
    <3>2. \A e \in orphans[i] : e = target[i] => e \in Closed
      BY <2>3 DEF Closed, TypeOK
    <3>3. OrphansOf(i)'
      BY <1>1, <1>3, <2>1, <3>1, <3>2 DEF OrphansOf, Recovered, Up
    <3>. QED BY <1>4, <3>3 DEF Orphans, OrphansOf
  <2>. QED BY <1>7, <2>2, <2>3 DEF Recheck
<1>8. CASE WriteUnknown(i)
  <2>1. \A e \in orphans[i] : e \in found[i] \cup Closed \cup refused \cup {target[i]}
    BY <1>8 DEF WriteUnknown, Orphans, Recovered
  <2>2. stage'[i] = "reaping" /\ found'[i] = found[i]
    BY <1>8 DEF WriteUnknown, Unclaim, TypeOK
  <2>3. ASSUME NEW e \in orphans[i], e = target[i]
        PROVE  e \in Closed' \cup refused'
    <3>1. CASE ends' = [ends EXCEPT ![target[i]] = Append(@, "unknown")]
      <4>1. e \in Dispatch /\ ends'[e] = Append(ends[e], "unknown")
        BY <2>3, <3>1 DEF TypeOK
      <4>2. ends[e] \in Seq({"answer", "unknown"})
        BY <4>1 DEF TypeOK
      <4>3. Append(ends[e], "unknown") # <<>>
        BY <4>2
      <4>. QED BY <4>1, <4>3 DEF Closed
    <3>2. CASE refused' = refused \cup {target[i]}
      BY <2>3, <3>2
    <3>. QED BY <1>8, <3>1, <3>2 DEF WriteUnknown
  <2>4. OrphansOf(i)'
    BY <1>1, <1>3, <2>1, <2>2, <2>3 DEF OrphansOf, Recovered, Up
  <2>. QED BY <1>4, <2>4 DEF Orphans, OrphansOf
<1>9. CASE Opened(i)
  <2>1. stage'[i] = "idle"
    BY <1>9 DEF Opened, TypeOK
  <2>2. \A e \in orphans[i] : e \in Closed \cup refused
    BY <1>9 DEF Opened, Orphans
  <2>3. OrphansOf(i)'
    BY <1>1, <1>3, <2>1, <2>2 DEF OrphansOf, Recovered
  <2>. QED BY <1>4, <2>3 DEF Orphans, OrphansOf
<1>. QED BY <1>5, <1>6, <1>7, <1>8, <1>9

LEMMA OrphansNext ==
    ASSUME TypeOK, Owns, Claims, Orphans, Closed \subseteq Closed', Next
    PROVE  Orphans'
<1>. USE DEF Goto
<1>1. \A j \in Instance : \A d \in orphans[j] :
          d \in Dispatch /\ sentBy[d] \in Instance \ alive
  BY DEF Orphans, TypeOK
<1>2. ASSUME NEW i \in Instance, Acquire(i) PROVE Orphans'
  <2>1. /\ alive' = alive \cup {i} /\ stage'[i] = "opening" /\ UNCHANGED sentBy
        /\ orphans'[i] = {d \in Open : Abandoned(d)}
        /\ \A d \in Dispatch : sentBy[d] # i
    BY <1>2 DEF Acquire, TypeOK, Owns
  <2>2. ASSUME NEW j \in Instance \ {i} PROVE OrphansOf(j)'
    <3>1. /\ stage'[j] = stage[j] /\ orphans'[j] = orphans[j]
          /\ UNCHANGED <<found, target, refused, ends>>
      BY <1>2 DEF Acquire, turn, TypeOK
    <3>2. Closed' = Closed
      BY <3>1 DEF Closed
    <3>3. \A d \in orphans[j] : sentBy[d] \in Instance \ alive'
      BY <1>1, <2>1
    <3>. QED BY <2>1, <3>1, <3>2, <3>3 DEF Orphans, OrphansOf
  <2>3. \A d \in orphans'[i] : sentBy'[d] \in Instance \ alive'
    BY <2>1, OutboxAssumption DEF Open, Abandoned, TypeOK
  <2>4. OrphansOf(i)'
    BY <2>1, <2>3 DEF OrphansOf, Recovered, Up
  <2>. QED BY <2>2, <2>4 DEF Orphans, OrphansOf
<1>3. ASSUME NEW i \in Instance, Leave(i) \/ Die(i) PROVE Orphans'
  <2>1. /\ UNCHANGED <<orphans, sentBy, refused>> /\ alive' \subseteq alive
        /\ stage'[i] \in {"elsewhere", "dead"}
    BY <1>3 DEF Leave, Die, recovery, TypeOK
  <2>2. \A j \in Instance \ {i} :
           stage'[j] = stage[j] /\ found'[j] = found[j] /\ target'[j] = target[j]
    BY <1>3 DEF Leave, Die, recovery, TypeOK
  <2>3. \A j \in Instance \ {i} : OrphansOf(j)'
    BY <1>1, <2>1, <2>2, OrphansStay
  <2>4. OrphansOf(i)'
    BY <1>1, <2>1 DEF OrphansOf, Recovered, Up
  <2>. QED BY <2>3, <2>4 DEF Orphans, OrphansOf
<1>4. ASSUME NEW i \in Instance, TurnMove(i) PROVE Orphans'
  <2>1. UNCHANGED <<orphans, sentBy, refused, alive, found, target>>
    BY <1>4 DEF TurnMove, recovery
  <2>2. /\ \A j \in Instance \ {i} : stage'[j] = stage[j]
        /\ stage[i] \in Up /\ stage'[i] \in Up
    BY <1>4 DEF TurnMove, TypeOK
  <2>3. \A j \in Instance \ {i} : OrphansOf(j)'
    BY <1>1, <2>1, <2>2, OrphansStay
  <2>4. \A d \in orphans[i] : d \in Closed \cup refused
    BY <2>2 DEF Orphans
  <2>5. stage'[i] # "reaping" /\ stage'[i] \notin Recovered
    BY <2>2 DEF Up, Recovered
  <2>6. OrphansOf(i)'
    BY <1>1, <2>1, <2>4, <2>5 DEF OrphansOf
  <2>. QED BY <2>3, <2>6 DEF Orphans, OrphansOf
<1>5. ASSUME NEW d \in Dispatch, Finish(d) \/ \E i \in Instance : Send(i, d)
      PROVE  Orphans'
  <2>1. UNCHANGED <<orphans, stage, refused, alive, found, target>>
    BY <1>5 DEF Finish, Send, recovery
  <2>2. ASSUME NEW e \in Dispatch, sentBy[e] \in Instance
        PROVE  sentBy'[e] = sentBy[e]
    BY <1>5, <2>2, OutboxAssumption DEF Finish, Send, TypeOK
  <2>3. \A j \in Instance : OrphansOf(j)'
    BY <1>1, <2>1, <2>2, OrphansStay
  <2>. QED BY <2>3 DEF Orphans, OrphansOf
<1>6. ASSUME NEW i \in Instance,
             Fold(i) \/ Recheck(i) \/ WriteUnknown(i) \/ Opened(i)
                \/ (\E d \in Dispatch : Examine(i, d))
      PROVE  Orphans'
  BY <1>6, OrphansByOpening
<1>. QED BY <1>2, <1>3, <1>4, <1>5, <1>6, StepKinds
-----------------------------------------------------------------------------
(* The theorems.                                                           *)

LEMMA StutterInv == ASSUME IInv, UNCHANGED vars PROVE IInv'
<1>. USE DEF vars, recovery, turn
<1>1. TypeOK'
  BY DEF IInv, TypeOK
<1>2. OneEnd' /\ Tasks' /\ OnlySent'
  BY DEF IInv, OneEnd, Tasks, OnlySent, Closed, Sent
<1>3. Owns' /\ Claims'
  BY DEF IInv, Owns, Claims
<1>4. Recovering'
  BY DEF IInv, Recovering, Sent
<1>5. HandedInv'
  BY DEF IInv, HandedInv, Closed
<1>6. Orphans'
  BY DEF IInv, Orphans, Closed
<1>. QED BY <1>1, <1>2, <1>3, <1>4, <1>5, <1>6 DEF IInv

LEMMA NextInv == ASSUME IInv, [Next]_vars PROVE IInv'
<1>1. CASE Next
  <2>1. TypeOK'
    BY <1>1, TypeNext DEF IInv
  <2>2. OneEnd' /\ OnlySent' /\ Closed \subseteq Closed'
    BY <1>1, EndsNext DEF IInv
  <2>3. Tasks'
    BY <1>1, TasksNext DEF IInv
  <2>4. Owns'
    BY <1>1, OwnsNext DEF IInv
  <2>5. Recovering'
    BY <1>1, RecoveringNext DEF IInv
  <2>6. Claims'
    BY <1>1, ClaimsNext DEF IInv
  <2>7. HandedInv'
    BY <1>1, <2>2, HandedNext DEF IInv
  <2>8. Orphans'
    BY <1>1, <2>2, OrphansNext DEF IInv
  <2>. QED BY <2>1, <2>2, <2>3, <2>4, <2>5, <2>6, <2>7, <2>8 DEF IInv
<1>. QED BY <1>1, StutterInv

\* The invariant that carries the theorems below, for any number of
\* processes, dispatches and faults.
THEOREM InductiveInvariant == Spec => []IInv
  BY InitInv, NextInv, PTL DEF Spec

\* Every variable keeps its type, through crashes and refused appends.
THEOREM TypeCorrect == Spec => []TypeOK
<1>1. IInv => TypeOK
  BY DEF IInv
<1>. QED BY <1>1, InductiveInvariant, PTL

\* Who has opened the conversation has closed every dispatch that was
\* abandoned when it opened, unless the log refused it (reap_abandoned).
THEOREM NoOrphanIsLeft == Spec => []NoOrphanAfterOpening
<1>1. IInv => NoOrphanAfterOpening
  BY DEF IInv, Orphans, NoOrphanAfterOpening, Closed
<1>. QED BY <1>1, InductiveInvariant, PTL

-----------------------------------------------------------------------------
(* The outbox keeps the promise of ReportDelivery.                         *)

LEMMA ClosePromised ==
    ASSUME OneEnd, Tasks, Recovering, TypeOK, NEW d \in Dispatch, d \in Sent,
           UNCHANGED <<sentBy, seen, acked>>,
           Finish(d) \/ (\E i \in Instance : WriteUnknown(i) /\ target[i] = d)
    PROVE  Delivery!Close(d) \/ UNCHANGED Delivery!vars
<1>1. \/ UNCHANGED ends
      \/ \E how \in {"answer", "unknown"} : ends[d] = <<>>
            /\ ends' = [ends EXCEPT ![d] = <<how>>]
  BY ClosesOnce
<1>. QED BY <1>1 DEF Delivery!Close, Delivery!vars, Sent

LEMMA HandOverPromised ==
    ASSUME HandedInv', OnlySent', UNCHANGED <<sentBy, ends>>,
           seen \subseteq seen', acked \subseteq acked'
    PROVE  Delivery!HandOver
<1>1. seen' \subseteq Closed' /\ acked' \subseteq seen' /\ Closed' \subseteq Sent'
  BY DEF HandedInv, OnlySent
<1>2. Closed' \subseteq {d \in {e \in Dispatch : sentBy[e] # None} : ends[d] # <<>>}
  BY <1>1 DEF Closed, Sent
<1>. QED BY <1>1, <1>2 DEF Delivery!HandOver

LEMMA StepPromised ==
    ASSUME IInv, IInv', Next
    PROVE  Delivery!Next \/ UNCHANGED Delivery!vars
<1>. USE DEF recovery, turn
<1>1. TypeOK /\ OneEnd /\ Tasks /\ Recovering /\ HandedInv' /\ OnlySent'
  BY DEF IInv
<1>2. ASSUME NEW i \in Instance, NEW d \in Dispatch, Send(i, d)
      PROVE  Delivery!Send(d)
  <2>1. UNCHANGED <<ends, seen, acked>> /\ sentBy[d] = None
    BY <1>2 DEF Send
  <2>2. {e \in Dispatch : sentBy'[e] # None} = {e \in Dispatch : sentBy[e] # None} \cup {d}
    BY <1>1, <1>2, OutboxAssumption DEF Send, TypeOK
  <2>. QED BY <2>1, <2>2 DEF Delivery!Send
<1>3. ASSUME NEW d \in Dispatch, Finish(d)
      PROVE  Delivery!Close(d) \/ UNCHANGED Delivery!vars
  <2>1. d \in Sent /\ UNCHANGED <<sentBy, seen, acked>>
    BY <1>1, <1>3, OutboxAssumption DEF Finish, Tasks, Sent, TypeOK
  <2>. QED BY <1>1, <1>3, <2>1, ClosePromised
<1>4. ASSUME NEW i \in Instance, WriteUnknown(i)
      PROVE  \/ UNCHANGED Delivery!vars
             \/ \E d \in Dispatch : Delivery!Close(d)
  <2>1. /\ target[i] \in Dispatch /\ sentBy[target[i]] \in Instance
        /\ UNCHANGED <<sentBy, seen, acked>>
    BY <1>1, <1>4 DEF WriteUnknown, Recovering, Recovered
  <2>2. target[i] \in Sent
    BY <2>1, OutboxAssumption DEF Sent
  <2>. QED BY <1>1, <1>4, <2>1, <2>2, ClosePromised
<1>5. ASSUME NEW i \in Instance, Collect(i) \/ TurnStep(i) \/ WaitCollects(i)
      PROVE  Delivery!HandOver
  <2>1. UNCHANGED <<sentBy, ends>>
    BY <1>1, <1>5, TurnMoves DEF TurnMove
  <2>2. seen \subseteq seen' /\ acked \subseteq acked'
    <3>1. CASE Collect(i) \/ WaitCollects(i)
      BY <3>1 DEF Collect, WaitCollects
    <3>2. CASE Begin(i)
      BY <3>2 DEF Begin
    <3>3. CASE Observe(i) \/ Return(i) \/ Fail(i)
      BY <3>3 DEF Observe, Return, Fail
    <3>4. CASE Settle(i)
      BY <3>4 DEF Settle
    <3>. QED BY <1>5, <3>1, <3>2, <3>3, <3>4 DEF TurnStep
  <2>. QED BY <1>1, <2>1, <2>2, HandOverPromised
<1>6. ASSUME NEW i \in Instance,
             Acquire(i) \/ Fold(i) \/ Recheck(i) \/ Opened(i) \/ Leave(i) \/ Die(i)
      PROVE  UNCHANGED Delivery!vars
  <2>1. UNCHANGED <<sentBy, ends, seen, acked>>
    BY <1>6 DEF Acquire, Fold, Recheck, Opened, Leave, Die
  <2>. QED BY <2>1 DEF Delivery!vars
<1>7. ASSUME NEW i \in Instance, NEW d \in Dispatch, Examine(i, d)
      PROVE  UNCHANGED Delivery!vars
  <2>1. UNCHANGED <<sentBy, ends, seen, acked>>
    BY <1>7 DEF Examine
  <2>. QED BY <2>1 DEF Delivery!vars
<1>. QED BY <1>2, <1>3, <1>4, <1>5, <1>6, <1>7 DEF Next, OpeningStep, Delivery!Next

LEMMA StutterPromised == UNCHANGED vars => UNCHANGED Delivery!vars
  BY DEF vars, Delivery!vars

LEMMA InitPromised == Init => Delivery!Init
  BY DEF Init, Delivery!Init

\* No dispatch is answered twice, no guess is put beside an answer, and no
\* report counts as handed over that the conversation's log does not hold:
\* every step of the outbox is a step of ReportDelivery, or none (finished,
\* reap_abandoned, collect_reports, settle).
THEOREM DeliveryRefined == Spec => DeliveryHolds
<1>1. IInv /\ IInv' /\ [Next]_vars => [Delivery!Next]_(Delivery!vars)
  BY StepPromised, StutterPromised
<1>. QED BY <1>1, InitPromised, InductiveInvariant, PTL
            DEF Spec, DeliveryHolds, Delivery!Spec
=============================================================================
