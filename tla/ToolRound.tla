----------------------------- MODULE ToolRound -----------------------------
(***************************************************************************)
(* One round of tool calls: kernel/src/session/dispatch.rs (the round),    *)
(* admitted.rs (one call, a batch of reads, saving a result), dispatch.rs  *)
(* (policy, approval, the write lane, the effect).                         *)
(*                                                                         *)
(* Reads between two changes run together, changes one by one.  The calls  *)
(* of a batch are futures polled by the round's own task; every append     *)
(* takes its turn in the event log's fair queue (store/src/lib.rs,         *)
(* runtime_gate).  Rival is a change of another session that overlaps the  *)
(* round's changes and shares the log.                                     *)
(***************************************************************************)
EXTENDS Naturals, Sequences

CONSTANTS
    N,           \* calls in the round
    Rounds,      \* the rounds the model may send, by kind of call
    MaxParallel, \* Kernel.max_parallel_tools
    LogFails,    \* appends may fail
    Retries,     \* a change may be denied the network and offered a grant
    HookFails    \* a post-tool hook that must succeed may fail

Call == 1 .. N
Kind == {"read", "change", "memory", "unknown"}
Loop == 0
Rival == N + 1

ASSUME RoundAssumption ==
    /\ N \in Nat \ {0}
    /\ Rounds \subseteq [Call -> Kind]
    /\ MaxParallel \in Nat \ {0}
    /\ {LogFails, Retries, HookFails} \subseteq BOOLEAN

VARIABLES
    round,     \* the calls the model sent, in call order
    pc,        \* where the round's own code is
    admitted,  \* intents logged
    from,      \* first call of the batch
    saved,     \* results saved, in call order
    at,        \* where each call's future is
    result,    \* how it settled
    retried,   \* calls that had their network retry
    line,      \* the event log's fair queue: who waits to append
    log,       \* what this session and Rival appended
    world,     \* changes made, in order
    lane,      \* who holds the write lane
    card,      \* the call whose approval card is up
    cancelled, \* the turn's cancellation token
    graced,    \* the settle grace after it is over
    overdue,   \* the wall-clock deadline has passed
    rival      \* where Rival is

cursors == <<admitted, from, saved>>
calls == <<at, result, retried>>
stops == <<cancelled, graced, overdue>>
vars == <<round, pc, cursors, calls, line, log, world, lane, card, stops, rival>>

Verdict == {"deny", "ask", "allow"}
Stage == {"waiting", "deciding", "asking", "approved", "preparing", "running",
          "applied", "network", "settled"} \cup Verdict
Result == {"none", "real", "failed", "refused", "interrupted"}

Rec(what, who) == [what |-> what, of |-> who]

Changes(c) == round[c] \in {"change", "memory"}

\* The call at `from` if it is a change, else the reads up to the next change.
Batch ==
    {c \in Call : c >= from
        /\ IF Changes(from) THEN c = from
           ELSE \A d \in from .. c : ~Changes(d)}

Settled(c) == at[c] = "settled"

\* The calls polled: those of the batch, while the round waits for all of them.
Polled(w) == w \in Call => pc = "running"

Init ==
    /\ round \in Rounds
    /\ pc = "admitting"
    /\ admitted = 0 /\ from = 1 /\ saved = 0
    /\ at = [c \in Call |-> "waiting"]
    /\ result = [c \in Call |-> "none"]
    /\ retried = {}
    /\ line = <<>> /\ log = <<>> /\ world = <<>>
    /\ lane = Loop /\ card = Loop
    /\ cancelled = FALSE /\ graced = FALSE /\ overdue = FALSE
    /\ rival = "idle"

-----------------------------------------------------------------------------
(* The event log's queue (SqliteLog::run_kernel_task).                     *)

Claim(w) == line' = Append(line, w)

Turn(w) == line # <<>> /\ Head(line) = w /\ Polled(w) /\ line' = Tail(line)

Commit(w, record) == Turn(w) /\ log' = Append(log, record)

Reject(w) == LogFails /\ Turn(w) /\ UNCHANGED log

\* A call stands in the queue once at most.
Leave(c) ==
    LET k == CHOOSE i \in DOMAIN line : line[i] = c
    IN line' = IF \E i \in DOMAIN line : line[i] = c
               THEN [i \in 1 .. Len(line) - 1 |->
                        IF i < k THEN line[i] ELSE line[i + 1]]
               ELSE line

-----------------------------------------------------------------------------
(* One call: execute_admitted and dispatch_one.                            *)

Go(c, stage) ==
    /\ at' = [at EXCEPT ![c] = stage]
    /\ UNCHANGED <<result, retried>>

Settle(c, how) ==
    /\ at' = [at EXCEPT ![c] = "settled"]
    /\ result' = [result EXCEPT ![c] = how]
    /\ UNCHANGED retried

\* stream::buffered polls at most MaxParallel calls from the first unsettled one.
InWindow(c) ==
    \A d \in Batch : d <= c /\ ~Settled(d) => c - d < MaxParallel

\* settle_reads, execute_admitted: a call that must not run settles at once.
Start(c) ==
    /\ pc = "running" /\ c \in Batch
    /\ at[c] = "waiting" /\ InWindow(c)
    /\ IF round[c] = "unknown" THEN Settle(c, "refused")
       ELSE IF overdue \/ cancelled THEN Settle(c, "interrupted")
       ELSE Go(c, "deciding")
    /\ UNCHANGED <<round, pc, cursors, line, log, world, lane, card, stops, rival>>

\* dispatch_one: the outbound check or a hook that left no audit ends the call;
\* else policy and hooks decide, and the decision is to be recorded.
Decide(c) ==
    /\ at[c] = "deciding"
    /\ \/ Settle(c, "refused") /\ UNCHANGED line
       \/ cancelled /\ Settle(c, "interrupted") /\ UNCHANGED line
       \/ /\ ~cancelled
          /\ \E verdict \in Verdict : Go(c, verdict)
          /\ Claim(c)
    /\ UNCHANGED <<round, pc, cursors, log, world, lane, card, stops, rival>>

\* The decision is in the log; a denial or a failed preflight ends the call.
RecordPolicy(c) ==
    /\ at[c] \in Verdict
    /\ Commit(c, Rec("policy", c))
    /\ \/ Settle(c, "refused")
       \/ at[c] = "ask" /\ Go(c, "asking")
       \/ at[c] = "allow" /\ Go(c, "approved")
       \/ at[c] = "allow" /\ Go(c, "asking")
    /\ UNCHANGED <<round, pc, cursors, world, lane, card, stops, rival>>

\* The card goes up when no other is (gate_serial).
ShowCard(c) ==
    /\ at[c] \in {"asking", "network"} /\ card = Loop
    /\ card' = c
    /\ UNCHANGED <<round, pc, cursors, calls, line, log, world, lane, stops, rival>>

Approve(c) ==
    /\ card = c /\ card' = Loop
    /\ Go(c, "approved")
    /\ UNCHANGED <<round, pc, cursors, line, log, world, lane, stops, rival>>

\* HumanGate::confirm or grant_network says no; without the network the first
\* run's result stands.
Deny(c) ==
    /\ card = c /\ card' = Loop
    /\ Settle(c, IF at[c] = "network" THEN "failed" ELSE "refused")

Decline(c) ==
    /\ Deny(c)
    /\ UNCHANGED <<round, pc, cursors, line, log, world, lane, stops, rival>>

\* execute_with_effect_outbox: a read runs; a change takes its lane, prepares.
Enter(c) ==
    /\ at[c] = "approved"
    /\ \/ /\ ~Changes(c)
          /\ Go(c, "running")
          /\ UNCHANGED <<line, lane>>
       \/ /\ Changes(c) /\ lane = Loop
          /\ ~cancelled /\ ~overdue
          /\ lane' = c
          /\ \/ Go(c, "preparing") /\ Claim(c)
             \/ Settle(c, "failed") /\ UNCHANGED line
    /\ UNCHANGED <<round, pc, cursors, log, world, card, stops, rival>>

\* enter_lane: a stop ends the wait for the lane, a memory call's too.
GiveUp(c) ==
    /\ at[c] = "approved" /\ Changes(c)
    /\ cancelled \/ overdue
    /\ Settle(c, "interrupted")
    /\ UNCHANGED <<round, pc, cursors, line, log, world, lane, card, stops, rival>>

RecordPrepared(c) ==
    /\ at[c] = "preparing"
    /\ Commit(c, Rec("prepared", c))
    /\ Go(c, "running")
    /\ UNCHANGED <<round, pc, cursors, world, lane, card, stops, rival>>

\* Mutant: a change runs though its execution record was not written.
RunUnrecorded(c) ==
    /\ at[c] \in Verdict \cup {"preparing"}
    /\ Reject(c)
    /\ IF at[c] = "preparing" THEN Go(c, "running") ELSE Settle(c, "failed")
    /\ UNCHANGED <<round, pc, cursors, world, lane, card, stops, rival>>

\* Neither record could be written: the call does not run.
RecordFails(c) ==
    /\ at[c] \in Verdict \cup {"preparing"}
    /\ Reject(c)
    /\ Settle(c, "failed")
    /\ UNCHANGED <<round, pc, cursors, world, lane, card, stops, rival>>

\* ToolExecutor::execute makes its change.
Apply(c) ==
    /\ at[c] = "running" /\ Changes(c)
    /\ world' = Append(world, c)
    /\ Go(c, "applied")
    /\ UNCHANGED <<round, pc, cursors, line, log, lane, card, stops, rival>>

\* It ends; apply_post_tool_hook turns its result into an error if a required
\* hook did not settle.
Finish(c) ==
    /\ \/ at[c] = "applied" /\ Settle(c, "real")
       \/ at[c] = "running" /\ Settle(c, IF Changes(c) THEN "failed" ELSE "real")
       \/ HookFails /\ at[c] \in {"running", "applied"} /\ Settle(c, "failed")
    /\ UNCHANGED <<round, pc, cursors, line, log, world, lane, card, stops, rival>>

\* Mutant: the lane is kept while the network card is up.
DeniedNetworkHolding(c) ==
    /\ Retries /\ round[c] = "change"
    /\ at[c] \in {"running", "applied"} /\ c \notin retried
    /\ at' = [at EXCEPT ![c] = "network"]
    /\ retried' = retried \cup {c}
    /\ UNCHANGED <<result, round, pc, cursors, line, log, world, lane, card, stops,
                   rival>>

\* execute_with_net_retry: the first run was denied the network; the lane is
\* released and a grant asked for.
DeniedNetwork(c) ==
    /\ Retries /\ round[c] = "change"
    /\ at[c] \in {"running", "applied"} /\ c \notin retried
    /\ at' = [at EXCEPT ![c] = "network"]
    /\ retried' = retried \cup {c}
    /\ lane' = Loop
    /\ UNCHANGED <<result, round, pc, cursors, line, log, world, card, stops, rival>>

\* Mutant: the end of the grace does not cut a call off.
CutOffOverdue(c) ==
    /\ at[c] \notin {"waiting", "settled"} /\ round[c] # "memory"
    /\ overdue
    /\ Settle(c, "interrupted")
    /\ Leave(c)
    /\ card' = IF card = c THEN Loop ELSE card
    /\ UNCHANGED <<round, pc, cursors, log, world, lane, stops, rival>>

\* Mutant: a memory call is cut off like any other.
CutOffAny(c) ==
    /\ at[c] \notin {"waiting", "settled"}
    /\ graced \/ overdue
    /\ Settle(c, "interrupted")
    /\ Leave(c)
    /\ card' = IF card = c THEN Loop ELSE card
    /\ UNCHANGED <<round, pc, cursors, log, world, lane, stops, rival>>

\* execute_admitted: the future of a call that did not settle in time is
\* dropped, from the log's queue and the card too; a memory call's never is.
CutOff(c) ==
    /\ at[c] \notin {"waiting", "settled"} /\ round[c] # "memory"
    /\ graced \/ overdue
    /\ Settle(c, "interrupted")
    /\ Leave(c)
    /\ card' = IF card = c THEN Loop ELSE card
    /\ UNCHANGED <<round, pc, cursors, log, world, lane, stops, rival>>

-----------------------------------------------------------------------------
(* The round: dispatch_turn, settle_reads, persist_admitted.               *)

\* The round's own append joins the queue.
LoopClaims ==
    /\ pc \in {"admitting", "saving"}
    /\ \A i \in DOMAIN line : line[i] # Loop
    /\ Claim(Loop)
    /\ UNCHANGED <<round, pc, cursors, calls, log, world, lane, card, stops, rival>>

AdmitIntent ==
    /\ pc = "admitting"
    /\ Commit(Loop, Rec("intent", admitted + 1))
    /\ admitted' = admitted + 1
    /\ pc' = IF admitted' = N THEN "running" ELSE pc
    /\ UNCHANGED <<round, from, saved, calls, world, lane, card, stops, rival>>

\* Mutant: each result is saved when it is its turn, while others still run.
AnySettled ==
    /\ pc = "running" /\ Settled(saved + 1)
    /\ pc' = "saving"
    /\ UNCHANGED <<round, cursors, calls, line, log, world, lane, card, stops, rival>>

\* Mutant: the lane is left before the result is saved.
AllSettledLeaving ==
    /\ pc = "running"
    /\ \A c \in Batch : Settled(c)
    /\ pc' = "saving"
    /\ lane' = IF lane = Rival THEN lane ELSE Loop
    /\ UNCHANGED <<round, cursors, calls, line, log, world, card, stops, rival>>

\* settle_reads: the batch is polled until every call has settled.
AllSettled ==
    /\ pc = "running"
    /\ \A c \in Batch : Settled(c)
    /\ pc' = "saving"
    /\ UNCHANGED <<round, cursors, calls, line, log, world, lane, card, stops, rival>>

\* A memory call whose applied operation the log does not have yet.
Owes(c) ==
    /\ round[c] = "memory" /\ result[c] = "real"
    /\ \A i \in DOMAIN log : log[i] # Rec("memory", c)

\* persist_admitted: the operation goes first, so that replay cannot miss it.
SaveMemory ==
    /\ pc = "saving" /\ Owes(saved + 1)
    /\ Commit(Loop, Rec("memory", saved + 1))
    /\ UNCHANGED <<round, pc, cursors, calls, world, lane, card, stops, rival>>

\* What is next after the result of c: its batch, another batch, or the end.
After(c) ==
    /\ pc' = IF c = N THEN "done" ELSE IF c + 1 \in Batch THEN pc ELSE "running"
    /\ from' = IF c + 1 \in Batch \/ c = N THEN from ELSE c + 1

\* Mutant: results are saved in the order the calls settled.
SaveUnordered ==
    /\ pc = "saving"
    /\ \E c \in Batch :
          /\ ~Owes(c)
          /\ \A i \in DOMAIN log : log[i] # Rec("result", c)
          /\ Commit(Loop, Rec("result", c))
          /\ lane' = IF lane = c THEN Loop ELSE lane
    /\ After(saved + 1)
    /\ saved' = saved + 1
    /\ UNCHANGED <<round, admitted, calls, world, card, stops, rival>>

\* persist_admitted; then the lane is dropped.
SaveResult ==
    /\ pc = "saving"
    /\ LET c == saved + 1
       IN  /\ ~Owes(c)
           /\ Commit(Loop, Rec("result", c))
           /\ After(c)
           /\ lane' = IF lane = c THEN Loop ELSE lane
    /\ saved' = saved + 1
    /\ UNCHANGED <<round, admitted, calls, world, card, stops, rival>>

\* `?` on a failed append ends the run; its lane is dropped with it.
RoundFails ==
    /\ pc \in {"admitting", "saving"}
    /\ Reject(Loop)
    /\ pc' = "failed"
    /\ lane' = IF lane = Rival THEN lane ELSE Loop
    /\ UNCHANGED <<round, cursors, calls, world, card, stops, rival>>

-----------------------------------------------------------------------------
(* The operator, the clock, and the other session.                         *)

\* The turn is cancelled; the surface denies the card that is up (cancel_for).
Cancel ==
    /\ ~cancelled /\ cancelled' = TRUE
    /\ \/ card = Loop /\ UNCHANGED <<calls, card>>
       \/ \E c \in Call : Deny(c)
    /\ UNCHANGED <<round, pc, cursors, line, log, world, lane, graced, overdue,
                   rival>>

GraceEnds ==
    /\ cancelled /\ ~graced /\ graced' = TRUE
    /\ UNCHANGED <<round, pc, cursors, calls, line, log, world, lane, card,
                   cancelled, overdue, rival>>

Expire ==
    /\ ~overdue /\ overdue' = TRUE
    /\ UNCHANGED <<round, pc, cursors, calls, line, log, world, lane, card,
                   cancelled, graced, rival>>

RivalEnters ==
    /\ rival = "idle" /\ lane = Loop
    /\ lane' = Rival /\ rival' = "holding"
    /\ UNCHANGED <<round, pc, cursors, calls, line, log, world, card, stops>>

RivalApplies ==
    /\ rival = "holding"
    /\ world' = Append(world, Rival)
    /\ Claim(Rival) /\ rival' = "saving"
    /\ UNCHANGED <<round, pc, cursors, calls, log, lane, card, stops>>

RivalSaves ==
    /\ rival = "saving"
    /\ Commit(Rival, Rec("result", Rival))
    /\ lane' = Loop /\ rival' = "done"
    /\ UNCHANGED <<round, pc, cursors, calls, world, card, stops>>

-----------------------------------------------------------------------------
CallStep(c) ==
    \/ Start(c) \/ Decide(c) \/ RecordPolicy(c) \/ RecordFails(c) \/ ShowCard(c)
    \/ Enter(c) \/ GiveUp(c) \/ RecordPrepared(c)
    \/ Apply(c) \/ Finish(c) \/ DeniedNetwork(c) \/ CutOff(c)

RoundStep ==
    \/ LoopClaims \/ AdmitIntent \/ AllSettled
    \/ SaveMemory \/ SaveResult \/ RoundFails

RivalStep == RivalApplies \/ RivalSaves

Next ==
    \/ RoundStep \/ RivalEnters \/ RivalStep
    \/ Cancel \/ GraceEnds \/ Expire
    \/ \E c \in Call : CallStep(c) \/ Approve(c) \/ Decline(c)

Spec == Init /\ [][Next]_vars

\* The tasks are scheduled, tools end or are cut off, the grace is a timer.
\* Nobody has to answer a card.
FairSpec ==
    /\ Spec
    /\ WF_vars(RoundStep) /\ WF_vars(RivalStep) /\ WF_vars(GraceEnds)
    /\ \A c \in Call : WF_vars(CallStep(c))

-----------------------------------------------------------------------------
Ended == pc \in {"done", "failed"}
Logged(what, c) == \E i \in DOMAIN log : log[i] = Rec(what, c)
IsCallsResult(r) == r.what = "result" /\ r.of \in Call

TypeOK ==
    /\ round \in Rounds
    /\ pc \in {"admitting", "running", "saving", "done", "failed"}
    /\ admitted \in 0 .. N /\ from \in Call /\ saved \in 0 .. N
    /\ at \in [Call -> Stage] /\ result \in [Call -> Result]
    /\ retried \subseteq Call
    /\ line \in Seq(0 .. Rival) /\ world \in Seq(1 .. Rival)
    /\ log \in Seq([what : {"intent", "policy", "prepared", "memory", "result"},
                    of : 1 .. Rival])
    /\ {lane, card} \subseteq 0 .. Rival
    /\ {cancelled, graced, overdue} \subseteq BOOLEAN
    /\ rival \in {"idle", "holding", "saving", "done"}

(* No change is made that the log does not announce: its intent, a decision *)
(* and its execution record are there first, so after a crash the log names *)
(* every change that may have been made (execute_with_effect_outbox), even  *)
(* where appends fail.                                                      *)
AnnouncedBeforeEffect ==
    \A i \in DOMAIN world :
        world[i] \in Call =>
            \A what \in {"intent", "policy", "prepared"} : Logged(what, world[i])

(* Every call gets exactly one result, in call order, unavailable and       *)
(* interrupted ones in their own slot ("some chat templates pair results by *)
(* position"), whatever order the batch settled in.                         *)
ResultsInCallOrder ==
    /\ \A c \in Call : Logged("result", c) <=> c <= saved
    /\ \A i, j \in DOMAIN log :
          i < j /\ IsCallsResult(log[i]) /\ IsCallsResult(log[j])
              => log[i].of < log[j].of
    /\ pc = "done" => saved = N

(* Where two changes were made and both have results, the log has them in   *)
(* the order they were made: "If two commit B->A while the log records      *)
(* A->B, replay disagrees with live state" (dispatch_turn).  A change that  *)
(* was denied the network is excepted: it has left its lane for the card.   *)
ReplayAgrees ==
    \A i, j \in DOMAIN world :
        /\ i < j /\ world[i] # world[j]
        /\ {world[i], world[j]} \cap retried = {}
        /\ Logged("result", world[i]) /\ Logged("result", world[j])
        =>
            \E k, l \in DOMAIN log :
                /\ log[k] = Rec("result", world[i])
                /\ log[l] = Rec("result", world[j])
                /\ k < l

(* A memory call that wrote its store says so in the log when its result is *)
(* there, and one that did not never does (execute_admitted,                *)
(* persist_admitted), though stops cut other calls off.  A failed result is *)
(* excepted: a required hook can make one of a call that wrote its store.   *)
MemoryAgrees ==
    \A c \in Call :
        round[c] = "memory" /\ Logged("result", c) /\ result[c] # "failed" =>
            (Logged("memory", c) <=> \E i \in DOMAIN world : world[i] = c)

(* Nothing waits on a person's answer: whoever asks holds no lane (Lane).   *)
LaneNeverWaitsOnPerson ==
    \A c \in Call : at[c] \in {"asking", "network"} => lane # c

(* A round ends, or it waits on a person (settle_reads: a batch that saves  *)
(* while its futures stand in the log's queue stops for ever).              *)
RoundSettles ==
    <>Ended \/ <>[](\E c \in Call : at[c] \in {"asking", "network"})

(* A cancelled round ends by itself: calls settle, or are cut off when the  *)
(* grace is over (execute_admitted).  Memory calls are excepted: they are   *)
(* not cut off, and may ask for an approval nobody gives.                   *)
CancelSettles ==
    (\A c \in Call : round[c] # "memory") /\ cancelled ~> Ended

=============================================================================
