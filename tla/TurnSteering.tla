---------------------------- MODULE TurnSteering ----------------------------
(***************************************************************************)
(* What becomes of a message typed while a turn runs: the kernel's         *)
(* interrupt queue (kernel/src/interrupts.rs, read by session/boundary.rs  *)
(* and at every session exit), and the ledger of unread messages the chat  *)
(* backend keeps beside it (medha-cli/src/chat.rs).                        *)
(*                                                                         *)
(* Two actors interleave: the task that runs the turn, cut at its awaits,  *)
(* and the backend's loop, which admits messages, cancels, force-stops,    *)
(* and joins the task when it has ended.  A message is sent once.          *)
(***************************************************************************)
EXTENDS Integers, Sequences

CONSTANTS
    Message,    \* what the user may type, each at most once
    MaxSteers,  \* the bound of the queue and of the ledger: 128
    Faults      \* which of "append" and "abort" may happen

ASSUME SteeringAssumption ==
    /\ MaxSteers \in Nat
    /\ Faults \subseteq {"append", "abort"}

VARIABLES
    phase,      \* where the turn's task is; "idle" when there is none
    outcome,    \* how the task ended
    aborted,    \* the backend asked to force-stop this turn
    queue,      \* Pending.steers
    closed,     \* Pending.closed
    cancelled,  \* the turn's cancellation token
    batch,      \* steers drained at a boundary and not yet applied
    unread,     \* the backend's ledger of acknowledged, unread messages
    transcript, \* user messages in the backend's transcript
    log,        \* user messages in the session's event log
    returned,   \* messages handed back to the user
    accepted,   \* history: messages acknowledged, in order
    steered,    \* history: those of them acknowledged in a running turn
    carried,    \* history: messages given to a next turn
    stopped     \* history: a turn was force-stopped

turn == <<phase, outcome, batch>>
pending == <<queue, closed>>
chat == <<aborted, cancelled, unread, transcript, returned, accepted, steered,
          carried, stopped>>
vars == <<phase, outcome, aborted, queue, closed, cancelled, batch, unread,
          transcript, log, returned, accepted, steered, carried, stopped>>

Members(s) == {s[i] : i \in DOMAIN s}

\* The entries of s but for one copy of m (settle_unread).
Without(s, m) ==
    LET k == CHOOSE i \in DOMAIN s : s[i] = m
    IN  IF m \in Members(s)
        THEN [i \in 1 .. (Len(s) - 1) |-> IF i < k THEN s[i] ELSE s[i + 1]]
        ELSE s

Active == {"opening", "boundary", "applying", "noting", "working", "leaving"}

Init ==
    /\ phase = "idle" /\ outcome = "none" /\ aborted = FALSE
    /\ queue = <<>> /\ closed = TRUE /\ cancelled = FALSE
    /\ batch = <<>>
    /\ unread = <<>> /\ transcript = <<>> /\ log = <<>>
    /\ returned = <<>> /\ accepted = <<>>
    /\ steered = {} /\ carried = {}
    /\ stopped = FALSE

-----------------------------------------------------------------------------
(* The turn's task.                                                        *)

\* The run's future ends: Drop for InterruptQueue closes and clears it.
End(how) ==
    /\ phase' = "ended" /\ outcome' = how
    /\ queue' = <<>> /\ closed' = TRUE
    /\ batch' = <<>>

\* return_unapplied_steers: drain the queue; the ledger still lists them.
HandBack == queue' = <<>>

Leave(how) ==
    /\ HandBack
    /\ phase' = "leaving" /\ outcome' = how
    /\ UNCHANGED <<closed, batch, log, chat>>

\* begin_run: the transcript extends the log; append the prompts past its end.
LogPrompt ==
    /\ phase = "opening"
    /\ Len(log) < Len(transcript)
    /\ log' = Append(log, transcript[Len(log) + 1])
    /\ UNCHANGED <<turn, pending, chat>>

\* begin_run: all prompts are in; go on, or a hook blocks the prompt.
Opened ==
    /\ phase = "opening"
    /\ Len(log) = Len(transcript)
    /\ \/ /\ phase' = "boundary"
          /\ UNCHANGED <<outcome, batch, pending, log, chat>>
       \/ Leave("completed")

\* turn_boundary: a cancel goes first, and gives the steers back.
BoundaryCancelled ==
    /\ phase = "boundary" /\ cancelled
    /\ Leave("interrupted")

\* Mutant: the newest steer is taken first.
DrainNewestFirst ==
    /\ phase = "boundary" /\ ~cancelled
    /\ batch' = [i \in DOMAIN queue |-> queue[Len(queue) + 1 - i]]
    /\ queue' = <<>>
    /\ phase' = "applying"
    /\ UNCHANGED <<outcome, closed, log, chat>>

\* turn_boundary: drain_steers.
Drain ==
    /\ phase = "boundary" /\ ~cancelled
    /\ batch' = queue
    /\ queue' = <<>>
    /\ phase' = "applying"
    /\ UNCHANGED <<outcome, closed, log, chat>>

\* turn_boundary: append the next steer as the user's message.
Apply ==
    /\ phase = "applying" /\ batch # <<>>
    /\ log' = Append(log, Head(batch))
    /\ phase' = "noting"
    /\ UNCHANGED <<outcome, batch, pending, chat>>

\* Mutant: the sink is not told that the steer was read.
AppliedUnseen ==
    /\ phase = "noting"
    /\ batch' = Tail(batch)
    /\ phase' = "applying"
    /\ UNCHANGED <<outcome, pending, log, chat>>

\* turn_boundary: the interrupt is logged, then the sink settles the ledger.
Applied ==
    /\ phase = "noting"
    /\ unread' = Without(unread, Head(batch))
    /\ batch' = Tail(batch)
    /\ phase' = "applying"
    /\ UNCHANGED <<outcome, pending, log, aborted, cancelled,
                   transcript, returned, accepted, steered, carried, stopped>>

\* turn_boundary: all steers are in; begin the turn, or stop at a ceiling.
Begin ==
    /\ phase = "applying" /\ batch = <<>>
    /\ \/ /\ phase' = "working"
          /\ UNCHANGED <<outcome, batch, pending, log, chat>>
       \/ Leave("completed")

\* complete_turn, recover_turn, prepare: another turn, or one of the exits.
Work ==
    /\ phase = "working"
    /\ \/ /\ phase' = "boundary"
          /\ UNCHANGED <<outcome, batch, pending, log, chat>>
       \/ Leave("completed")
       \/ cancelled /\ Leave("interrupted")

\* The last awaits of an exit, then the future returns.
Return ==
    /\ phase = "leaving"
    /\ End(outcome)
    /\ UNCHANGED <<log, chat>>

\* An append or another step fails, and `?` ends the run.
Fail ==
    /\ "append" \in Faults
    /\ phase \in {"opening", "applying", "working"}
    /\ End("failed")
    /\ UNCHANGED <<log, chat>>

\* A force-stopped task is dropped at an await.
Die ==
    /\ aborted /\ phase \in Active
    /\ End("failed")
    /\ UNCHANGED <<log, chat>>

Progress ==
    \/ LogPrompt \/ Opened \/ BoundaryCancelled \/ Drain
    \/ Apply \/ Applied \/ Begin \/ Work \/ Return

-----------------------------------------------------------------------------
(* The backend's loop.                                                     *)

\* A turn starts with a new queue on the transcript the backend holds.
Start(messages) ==
    /\ phase' = "opening" /\ outcome' = "none" /\ aborted' = FALSE
    /\ queue' = <<>> /\ closed' = FALSE /\ cancelled' = FALSE
    /\ transcript' = messages

\* RpcAction::StartTurn.
Prompt(m) ==
    /\ phase = "idle" /\ m \notin Members(accepted)
    /\ Start(Append(transcript, m))
    /\ accepted' = Append(accepted, m)
    /\ UNCHANGED <<batch, unread, log, returned, steered, carried, stopped>>

\* The message is in the ledger, then in the queue, under the ledger's lock.
Admit(m) ==
    /\ unread' = Append(unread, m)
    /\ queue' = Append(queue, m)
    /\ accepted' = Append(accepted, m)
    /\ steered' = steered \cup {m}
    /\ UNCHANGED <<turn, closed, aborted, cancelled, transcript, log, returned,
                   carried, stopped>>

\* RpcAction::Steer: admit_steer and InterruptHandle::steer_labelled.
Steer(m) ==
    /\ phase # "idle" /\ m \notin Members(accepted)
    /\ ~closed /\ ~cancelled
    /\ Len(unread) < MaxSteers /\ Len(queue) < MaxSteers
    /\ Admit(m)

\* turn.cancel: TurnControl::cancel_for.
Cancel ==
    /\ phase # "idle" /\ ~cancelled
    /\ cancelled' = TRUE
    /\ UNCHANGED <<turn, pending, aborted, unread, transcript, log, returned,
                   accepted, steered, carried, stopped>>

\* turn.abort: TurnControl::abort, while the task has not finished.
Abort ==
    /\ "abort" \in Faults
    /\ phase \in Active /\ ~aborted
    /\ aborted' = TRUE /\ cancelled' = TRUE /\ stopped' = TRUE
    /\ UNCHANGED <<turn, pending, unread, transcript, log, returned, accepted,
                   steered, carried>>

Completed == ~aborted /\ outcome = "completed"

\* The transcript becomes what the run returned, or what the log holds
\* (failed_turn_history).
Rest(left) ==
    /\ phase' = "idle" /\ aborted' = FALSE
    /\ transcript' = log
    /\ returned' = returned \o left
    /\ UNCHANGED <<outcome, pending, cancelled, carried>>

\* Unread messages start the next turn in the loop's next iteration.
Carry(left) ==
    /\ Start(log \o left)
    /\ carried' = carried \cup Members(left)
    /\ UNCHANGED returned

\* Mutant: after a failure the unread messages are forgotten.
JoinForgetting ==
    /\ phase = "ended"
    /\ unread' = <<>>
    /\ IF Completed /\ unread # <<>> THEN Carry(unread) ELSE Rest(<<>>)
    /\ UNCHANGED <<batch, log, accepted, steered, stopped>>

\* Mutant: what is carried waits for the next prompt.
JoinWithoutTurn ==
    /\ phase = "ended"
    /\ unread' = <<>>
    /\ IF Completed
       THEN /\ phase' = "idle" /\ aborted' = FALSE
            /\ transcript' = log \o unread
            /\ UNCHANGED <<outcome, pending, cancelled, carried,
                           returned>>
       ELSE Rest(unread)
    /\ UNCHANGED <<batch, log, accepted, steered, stopped>>

\* turns.join_next: unread messages go into the next turn after a normal end,
\* and back to the user after any other.
Join ==
    /\ phase = "ended"
    /\ unread' = <<>>
    /\ \/ Completed /\ unread # <<>> /\ Carry(unread)
       \/ ~(Completed /\ unread # <<>>) /\ Rest(unread)
    /\ UNCHANGED <<batch, log, accepted, steered, stopped>>

Next ==
    \/ Progress \/ Fail \/ Die
    \/ Cancel \/ Abort \/ Join
    \/ \E m \in Message : Prompt(m) \/ Steer(m)

Spec == Init /\ [][Next]_vars

\* The task is polled while it can run, and the loop joins it when it ends.
FairSpec == Spec /\ WF_vars(Progress) /\ WF_vars(Join)

-----------------------------------------------------------------------------
(* What the user is promised.                                              *)

TypeOK ==
    /\ phase \in Active \cup {"idle", "ended"}
    /\ outcome \in {"none", "completed", "interrupted", "failed"}
    /\ {aborted, closed, cancelled, stopped} \subseteq BOOLEAN
    /\ \A s \in {queue, batch, unread, transcript, log, returned, accepted} :
          s \in Seq(Message)
    /\ steered \cup carried \subseteq Message
    /\ Len(queue) <= MaxSteers /\ Len(unread) <= MaxSteers

(* A message acknowledged in a running turn is unread, in the log, or       *)
(* handed back, until a next turn takes it over; whether the turn finishes, *)
(* stops, fails between two steers or is force-stopped, and even when it    *)
(* arrives after the exit has drained the queue (admit_steer, take_unread). *)
SteersAreAccountedFor ==
    steered \ carried \subseteq
        Members(unread) \cup Members(log) \cup Members(returned)

(* Whatever waits in the queue or in a drained batch is in the ledger too, *)
(* so a queue that is dropped takes nothing with it (admit_steer pushes to *)
(* the ledger before the queue, StreamSink::steered settles it after).     *)
QueueIsInLedger ==
    \A m \in Members(queue) \cup Members(batch) : m \in Members(unread)

(* No message reaches the model twice, and none is both read and handed    *)
(* back, unless a turn was force-stopped between reading and saying so.    *)
ReadOnce ==
    /\ \A i, j \in DOMAIN log : log[i] = log[j] => i = j
    /\ ~stopped => \A m \in Members(log) : m \notin Members(returned)

Before(s, a, b) == \E i, j \in DOMAIN s : i < j /\ s[i] = a /\ s[j] = b

(* The model reads messages in the order they were sent, across boundaries *)
(* and turns (drain_steers, take_unread, begin_run).                       *)
ReadInOrder ==
    \A i, j \in DOMAIN log : i < j => Before(accepted, log[i], log[j])

(* What waits in the ledger is read or handed back in the end, a racer by   *)
(* the turn after, unless that turn fails or is force-stopped (join_next).  *)
EveryMessageIsSettled ==
    \A m \in Message :
        m \in Members(unread) ~>
            \/ m \in Members(log) \cup Members(returned)
            \/ stopped \/ outcome = "failed"
=============================================================================
