----------------------------- MODULE AgentTree -----------------------------
(***************************************************************************)
(* The control plane of sub-agents: AgentControl (orchestrator/src/lib.rs) *)
(* and the roster it keeps (orchestrator/src/registry.rs).                 *)
(*                                                                         *)
(* A call asks for a new agent, or gives more work to one that exists.  It *)
(* passes the session gate, reserves a name or revives a settled row,      *)
(* takes a permit, commits the roster row, records the dispatch and only   *)
(* then becomes a task.  The roster's mutex makes each of its methods one  *)
(* step; the awaits between them are where calls, runs, the surface's      *)
(* adoption of another session and a waiting parent interleave, and where  *)
(* the tool call that awaits may be cut off.                               *)
(***************************************************************************)
EXTENDS Integers, Sequences, FiniteSets

CONSTANTS
    Call,        \* spawns and follow-ups; a spawn names the session it makes
    Session,     \* sessions of the surface that owns the tree
    MaxActive,   \* permits
    MaxSettled,  \* settled rows kept in the roster: 32
    MaxDepth,
    NameTries,   \* how many variants of a name are tried: 99
    Waits,       \* whether the root calls agent.wait
    None

ASSUME TreeAssumption ==
    /\ None \notin Call \cup Session
    /\ Call \cap Session = {}
    /\ IsFiniteSet(Call)
    /\ {MaxActive, MaxSettled, MaxDepth, NameTries} \subseteq Nat
    /\ Waits \in BOOLEAN

Root == <<>>
Path == UNION {[1 .. d -> 1 .. NameTries] : d \in 1 .. MaxDepth}
Parent(p) == SubSeq(p, 1, Len(p) - 1)

\* AgentPath::under, without the address itself.
Below(p, q) == Len(q) < Len(p) /\ SubSeq(p, 1, Len(q)) = q

Members(s) == {s[i] : i \in DOMAIN s}

\* The list s without x, which it holds once at most.
Remove(s, x) ==
    LET k == CHOOSE i \in DOMAIN s : s[i] = x
    IN  IF x \in Members(s)
        THEN [i \in 1 .. Len(s) - 1 |-> IF i < k THEN s[i] ELSE s[i + 1]]
        ELSE s

NoRow == [session |-> None, running |-> FALSE]
Row == [session : Call, running : BOOLEAN]
Caller == [path : Path \cup {Root}, session : Call \cup Session]

VARIABLES
    owner,       \* the surface session that owns the tree
    row,         \* Tree.agents
    live,        \* Tree.live: the run a path's handles belong to
    settled,     \* Tree.settled, oldest first
    reserved,    \* Tree.reserved
    archived,    \* Tree.archived: an evicted path's session
    pc,          \* where each call is
    caller,      \* who asked, as known when it asked
    at,          \* the address of the call's agent
    session,     \* the agent session the call runs
    resuming,    \* the call is a follow-up that runs
    restore,     \* the row its reservation puts back
    spawner,     \* whose cancel token the run's is a child of; itself: none yet
    cancelled,   \* runs whose token is cancelled; None for the tree's own
    queue,       \* texts in a run's interrupt queue
    logged,      \* dispatches on the log
    reported,    \* runs whose terminal report is on the log
    lost,        \* runs whose terminal report the log refused
    wait,        \* the root's agent.wait: where it is
    mine,        \* the sessions it waits for
    woken,       \* its Notified has fired
    asked        \* history: the owner and the caller's run at the request

roster == <<row, live, settled, reserved, archived>>
request == <<caller, at, session, resuming, asked>>
log == <<logged, reported, lost>>
waiter == <<wait, mine, woken>>
vars == <<owner, row, live, settled, reserved, archived, pc, caller, at,
          session, resuming, restore, spawner, cancelled, queue, logged,
          reported, lost, wait, mine, woken, asked>>

Tree == None   \* the tree's own cancel token, parent of the root's children

Permitted == {"prepare", "dispatch", "task", "exit", "report",
              "tell", "settle", "notify"}
Running == Permitted \ {"prepare", "notify"}
Answered == {"done", "refused", "rolledback", "delivered", "cutoff"}
Step == Permitted \cup Answered \cup {"new", "admit", "permit"}

Init ==
    /\ owner \in Session
    /\ row = [p \in Path |-> NoRow]
    /\ live = [p \in Path |-> None]
    /\ settled = <<>> /\ reserved = {}
    /\ archived = [p \in Path |-> None]
    /\ pc = [c \in Call |-> "new"]
    /\ caller = [c \in Call |-> [path |-> Root, session |-> owner]]
    /\ at = [c \in Call |-> Root]
    /\ session = [c \in Call |-> None]
    /\ restore = [c \in Call |-> NoRow]
    /\ resuming = {}
    /\ spawner = [c \in Call |-> c]
    /\ cancelled = {}
    /\ queue = [c \in Call |-> {}]
    /\ logged = {} /\ reported = {} /\ lost = {}
    /\ wait = "idle" /\ mine = {} /\ woken = FALSE
    /\ asked = [c \in Call |-> [owner |-> owner, run |-> Tree]]

-----------------------------------------------------------------------------
(* The roster (registry.rs).                                               *)

Known(p) == row[p] # NoRow \/ p \in reserved
IsLive(p, s) == p # Root /\ live[p] # None /\ row[p].session = s

\* Archive what a set of rows stood for.
Archive(paths) ==
    archived' = [p \in Path |->
                    IF p \in paths /\ row[p] # NoRow THEN row[p].session
                                                     ELSE archived[p]]

\* AgentRegistry::reset_idle
ResetIdle ==
    /\ \A p \in Path : live[p] = None
    /\ reserved = {}
    /\ Archive(Path)
    /\ row' = [p \in Path |-> NoRow]
    /\ settled' = <<>>
    /\ UNCHANGED <<live, reserved>>

\* AgentRegistry::claim: the wanted name, or its first free variant; none
\* below the deepest level (admit's TooDeep).
Free(p) ==
    {n \in 1 .. NameTries : Len(p) < MaxDepth /\ ~Known(Append(p, n))}
Claim(c, p) ==
    \E n \in Free(p) :
        /\ \A m \in Free(p) : n <= m
        /\ reserved' = reserved \cup {Append(p, n)}
        /\ at' = [at EXCEPT ![c] = Append(p, n)]
        /\ session' = [session EXCEPT ![c] = c]
        /\ UNCHANGED <<row, live, settled, archived, restore>>

\* Variant: a revived row keeps its place among the settled.
ReviveInPlace(c) ==
    LET p == at[c]
    IN  /\ row' = [row EXCEPT ![p] = NoRow]
        /\ restore' = [restore EXCEPT ![c] = row[p]]
        /\ reserved' = reserved \cup {p}
        /\ UNCHANGED <<settled, live, archived, at, session>>

\* AgentRegistry::revive
Revive(c) ==
    LET p == at[c]
    IN  /\ row' = [row EXCEPT ![p] = NoRow]
        /\ restore' = [restore EXCEPT ![c] = row[p]]
        /\ settled' = Remove(settled, p)
        /\ reserved' = reserved \cup {p}
        /\ UNCHANGED <<live, archived, at, session>>

\* Drop for Reservation: release the name, or put the settled row back.
Release(c) ==
    LET p == at[c]
    IN  /\ reserved' = reserved \ {p}
        /\ IF restore[c] = NoRow
           THEN UNCHANGED <<row, settled>>
           ELSE /\ row' = [row EXCEPT ![p] = restore[c]]
                /\ settled' = Append(Remove(settled, p), p)
        /\ UNCHANGED <<live, archived>>

\* AgentRegistry::started
Started(c) ==
    LET p == at[c]
    IN  /\ reserved' = reserved \ {p}
        /\ live' = [live EXCEPT ![p] = c]
        /\ row' = [row EXCEPT ![p] = [session |-> session[c], running |-> TRUE]]
        /\ UNCHANGED <<settled, archived>>

\* AgentRegistry::settled: the oldest settled rows over the bound go.
Settled(c) ==
    LET p == at[c]
        after == Append(Remove(settled, p), p)
        over == IF Len(after) > MaxSettled THEN Len(after) - MaxSettled ELSE 0
        evicted == {after[i] : i \in 1 .. over}
        now == [row EXCEPT ![p].running = FALSE]
    IN  /\ live' = [live EXCEPT ![p] = None]
        /\ settled' = SubSeq(after, over + 1, Len(after))
        /\ row' = [q \in Path |-> IF q \in evicted THEN NoRow ELSE now[q]]
        /\ Archive(evicted)
        /\ UNCHANGED reserved

\* AgentRegistry::rollback_start, with the row start had looked up.
RollbackStart(c) ==
    LET p == at[c]
        rest == Remove(settled, p)
    IN  /\ live' = [live EXCEPT ![p] = None]
        /\ row' = [row EXCEPT ![p] = IF c \in resuming
                                     THEN [session |-> session[c],
                                           running |-> FALSE]
                                     ELSE NoRow]
        /\ settled' = IF c \in resuming THEN Append(rest, p) ELSE rest
        /\ UNCHANGED <<reserved, archived>>

-----------------------------------------------------------------------------
(* Asking: the caller is what it was when the request was made.            *)

Goto(c, to) == pc' = [pc EXCEPT ![c] = to]

\* The surface asks as the root of its session; a run asks as itself.
Callers ==
    {[path |-> Root, session |-> owner]} \cup
    {[path |-> at[d], session |-> session[d]] :
        d \in {e \in Call : pc[e] = "task"}}

\* AgentRegistry::token, or the tree's.
TokenOf(p) == IF p = Root THEN Tree ELSE live[p]

Ask(c, who) ==
    /\ pc[c] = "new"
    /\ caller' = [caller EXCEPT ![c] = who]
    /\ asked' = [asked EXCEPT ![c] = [owner |-> owner,
                                     run |-> TokenOf(who.path)]]
    /\ UNCHANGED <<owner, roster, restore, spawner, cancelled, log, waiter>>

\* spawn_background
Spawn(c, who) ==
    /\ Ask(c, who)
    /\ Goto(c, "admit")
    /\ UNCHANGED <<at, session, resuming, queue>>

\* InterruptHandle::steer_labelled on the queue of path p's live run.
Accepts(p) ==
    /\ live[p] # None
    /\ pc[live[p]] \in {"dispatch", "task", "exit"}
    /\ live[p] \notin cancelled

\* followup_labelled: a settled agent is resumed, a running one is told.
FollowUp(c, who, p) ==
    /\ Ask(c, who)
    /\ Below(p, who.path) /\ row[p] # NoRow
    /\ \/ /\ ~row[p].running
          /\ Goto(c, "admit")
          /\ at' = [at EXCEPT ![c] = p]
          /\ session' = [session EXCEPT ![c] = row[p].session]
          /\ resuming' = resuming \cup {c}
          /\ UNCHANGED queue
       \/ /\ row[p].running /\ Accepts(p)
          /\ Goto(c, "delivered")
          /\ queue' = [queue EXCEPT ![live[p]] = @ \cup {c}]
          /\ UNCHANGED <<at, session, resuming>>
       \/ /\ row[p].running /\ ~Accepts(p)
          /\ Goto(c, "refused")
          /\ UNCHANGED <<at, session, resuming, queue>>

\* steer and message: from a caller to any other agent, live runs only.
Message(c, who, p) ==
    /\ Ask(c, who)
    /\ p # who.path /\ row[p] # NoRow
    /\ IF Accepts(p)
       THEN /\ Goto(c, "delivered")
            /\ queue' = [queue EXCEPT ![live[p]] = @ \cup {c}]
       ELSE Goto(c, "refused") /\ UNCHANGED queue
    /\ UNCHANGED <<at, session, resuming>>

\* The tokens a cancel of d takes along: what every set with d that is closed
\* under the children of its members has.
Heirs(d) ==
    {c \in Call \cup {d} :
        \A S \in SUBSET (Call \cup {Tree}) :
            d \in S /\ (\A e \in Call : spawner[e] \in S => e \in S) => c \in S}

\* cancel, the watchdog of a silent run, and shutdown (the tree's token).
Cancel(d) ==
    /\ d = Tree \/ \E p \in Path : live[p] = d
    /\ d \notin cancelled
    /\ cancelled' = cancelled \cup Heirs(d)
    /\ UNCHANGED <<owner, roster, pc, request, restore, spawner, queue, log,
                   waiter>>

\* adopt: the surface moves to another session.
Adopt(s) ==
    /\ s # owner
    /\ ResetIdle
    /\ owner' = s
    /\ UNCHANGED <<pc, request, restore, spawner, cancelled, queue, log,
                   waiter>>

-----------------------------------------------------------------------------
(* Admission (admit, start).                                               *)

\* Variant: whoever asks as the root is let in.
StaleNested(c) ==
    caller[c].path # Root /\ ~IsLive(caller[c].path, caller[c].session)

Stale(c) ==
    IF caller[c].path = Root THEN caller[c].session # owner
    ELSE ~IsLive(caller[c].path, caller[c].session)

\* Variant: revive takes any row there is.
RevivableAny(c) == row[at[c]] # NoRow

\* revive: the row is there and has settled.
Revivable(c) == row[at[c]] # NoRow /\ ~row[at[c]].running

\* admit, under the session gate: refuse, revive, or claim a name.
Admit(c) ==
    /\ pc[c] = "admit"
    /\ \/ /\ ~Stale(c) /\ c \in resuming
          /\ Revivable(c)
          /\ Revive(c)
          /\ Goto(c, "permit")
       \/ /\ ~Stale(c) /\ c \notin resuming
          /\ Free(caller[c].path) # {}
          /\ Claim(c, caller[c].path)
          /\ Goto(c, "permit")
       \/ /\ \/ Stale(c)
             \/ c \in resuming /\ ~Revivable(c)
             \/ c \notin resuming /\ Free(caller[c].path) = {}
          /\ Goto(c, "refused")
          /\ UNCHANGED <<roster, at, session, restore>>
    /\ UNCHANGED <<owner, caller, resuming, asked, spawner, cancelled, queue,
                   log, waiter>>

\* Variant: a call waits for a permit.
TakePermitQueued(c) ==
    /\ pc[c] = "permit"
    /\ Cardinality({d \in Call : pc[d] \in Permitted}) < MaxActive
    /\ Goto(c, "prepare")
    /\ UNCHANGED <<owner, roster, request, restore, spawner, cancelled, queue,
                   log, waiter>>

\* reserve: a permit now or AtCapacity.
TakePermit(c) ==
    /\ pc[c] = "permit"
    /\ IF Cardinality({d \in Call : pc[d] \in Permitted}) < MaxActive
       THEN /\ Goto(c, "prepare")
            /\ UNCHANGED roster
       ELSE /\ Goto(c, "refused")
            /\ Release(c)
    /\ UNCHANGED <<owner, request, restore, spawner, cancelled, queue, log,
                   waiter>>

\* admit's awaits (a writer's checkout, the history) fail or are cut off.
FailAdmission(c) ==
    /\ pc[c] = "prepare"
    /\ Release(c)
    /\ Goto(c, "refused")
    /\ UNCHANGED <<owner, request, restore, spawner, cancelled, queue, log,
                   waiter>>

\* Variant: every run's token descends from the tree's.
CommitUnderTree(c) ==
    /\ pc[c] = "prepare"
    /\ spawner' = [spawner EXCEPT ![c] = Tree]
    /\ cancelled' = IF Tree \in cancelled THEN cancelled \cup {c} ELSE cancelled
    /\ Started(c)
    /\ Goto(c, "dispatch")
    /\ UNCHANGED <<owner, request, restore, queue, log, waiter>>

\* admit: the run's token descends from its caller's; the row is committed.
Commit(c) ==
    /\ pc[c] = "prepare"
    /\ spawner' = [spawner EXCEPT ![c] = TokenOf(caller[c].path)]
    /\ cancelled' = IF TokenOf(caller[c].path) \in cancelled
                    THEN cancelled \cup {c} ELSE cancelled
    /\ Started(c)
    /\ Goto(c, "dispatch")
    /\ UNCHANGED <<owner, request, restore, queue, log, waiter>>

\* start: Outbox::dispatched has appended the dispatch and the run becomes a
\* task of its own, or the append failed and nothing was started.
StartTask(c) ==
    /\ pc[c] = "dispatch"
    /\ logged' = logged \cup {c}
    /\ Goto(c, "task")
    /\ UNCHANGED <<owner, roster, request, restore, spawner, cancelled, queue,
                   reported, lost, waiter>>
FailDispatch(c) ==
    /\ pc[c] = "dispatch"
    /\ RollbackStart(c)
    /\ queue' = [queue EXCEPT ![c] = {}]
    /\ Goto(c, "rolledback")
    /\ UNCHANGED <<owner, request, restore, spawner, cancelled, log, waiter>>

\* The call that awaits start is cut off, before or after the append: all
\* that was admitted is dropped.
CutOff(c) ==
    /\ pc[c] = "dispatch"
    /\ logged' \in {logged, logged \cup {c}}
    /\ queue' = [queue EXCEPT ![c] = {}]
    /\ Goto(c, "cutoff")
    /\ UNCHANGED <<owner, roster, request, restore, spawner, cancelled,
                   reported, lost, waiter>>

-----------------------------------------------------------------------------
(* The run and what follows it (execute).                                  *)

\* The session loop reads what was queued for it.
ReadTexts(c) ==
    /\ pc[c] = "task" /\ queue[c] # {}
    /\ queue' = [queue EXCEPT ![c] = {}]
    /\ UNCHANGED <<owner, roster, pc, request, restore, spawner, cancelled,
                   log, waiter>>

\* The calls a run awaits; it does not end before them.
Awaiting(c) ==
    \E d \in Call : /\ pc[d] \in {"admit", "permit", "prepare", "dispatch"}
                    /\ caller[d] = [path |-> at[c], session |-> session[c]]

\* The loop hands back what it did not read and is about to return.
EndRun(c) ==
    /\ pc[c] = "task" /\ ~Awaiting(c)
    /\ queue' = [queue EXCEPT ![c] = {}]
    /\ Goto(c, "exit")
    /\ UNCHANGED <<owner, roster, request, restore, spawner, cancelled, log,
                   waiter>>

\* It returns: the queue is closed and cleared.
CloseQueue(c) ==
    /\ pc[c] = "exit"
    /\ queue' = [queue EXCEPT ![c] = {}]
    /\ Goto(c, "report")
    /\ UNCHANGED <<owner, roster, request, restore, spawner, cancelled, log,
                   waiter>>

\* Variant: a cancelled run settles without a report.
ReportUnlessCancelled(c) ==
    /\ pc[c] = "report"
    /\ reported' = IF c \in cancelled THEN reported ELSE reported \cup {c}
    /\ Goto(c, "tell")
    /\ UNCHANGED <<owner, roster, request, restore, spawner, cancelled, queue,
                   logged, lost, waiter>>

\* Outbox::finished: the report is on the log, or could not be written.
Report(c) ==
    /\ pc[c] = "report"
    /\ \/ reported' = reported \cup {c} /\ UNCHANGED lost
       \/ lost' = lost \cup {c} /\ UNCHANGED reported
    /\ Goto(c, "tell")
    /\ UNCHANGED <<owner, roster, request, restore, spawner, cancelled, queue,
                   logged, waiter>>

\* A nested parent that still runs is told, if the report is durable.
Tell(c) ==
    /\ pc[c] = "tell"
    /\ LET p == Parent(at[c])
       IN  queue' = IF c \in reported /\ p # Root /\ Accepts(p)
                    THEN [queue EXCEPT ![live[p]] = @ \cup {c}] ELSE queue
    /\ Goto(c, "settle")
    /\ UNCHANGED <<owner, roster, request, restore, spawner, cancelled, log,
                   waiter>>

\* The roster settles, and only then are waiters woken.
Settle(c) ==
    /\ pc[c] = "settle"
    /\ Settled(c)
    /\ Goto(c, "notify")
    /\ UNCHANGED <<owner, request, restore, spawner, cancelled, queue, log,
                   waiter>>

\* A Notified is woken once it is enabled; variant: once it is polled.
RegisteredLate == wait = "asleep"
Registered == wait \in {"look", "looked", "asleep"}

\* notify_waiters, and the permit is dropped.
NotifyWaiters(c) ==
    /\ pc[c] = "notify"
    /\ woken' = (woken \/ Registered)
    /\ Goto(c, "done")
    /\ UNCHANGED <<owner, roster, request, restore, spawner, cancelled, queue,
                   log, wait, mine>>

-----------------------------------------------------------------------------
(* AgentControl::wait, at the root.                                        *)

RunningSessions == {row[p].session : p \in {q \in Path : row[q].running}}
DoneSessions ==
    {row[p].session : p \in {q \in Path : row[q] # NoRow /\ ~row[q].running}}

WaitUnchanged == UNCHANGED <<owner, roster, pc, request, restore, spawner,
                             cancelled, queue, log>>

\* The set is taken once; the Notified is enabled before each look.
Wait ==
    /\ Waits /\ wait = "idle" /\ RunningSessions # {}
    /\ mine' = RunningSessions
    /\ wait' = "enable" /\ woken' = FALSE
    /\ WaitUnchanged
Enable ==
    /\ wait = "enable"
    /\ wait' = "look" /\ woken' = FALSE
    /\ WaitUnchanged /\ UNCHANGED mine
Look ==
    /\ wait = "look"
    /\ wait' = IF mine \cap DoneSessions # {} THEN "settled" ELSE "looked"
    /\ WaitUnchanged /\ UNCHANGED <<mine, woken>>
Sleep ==
    /\ wait = "looked"
    /\ wait' = "asleep"
    /\ WaitUnchanged /\ UNCHANGED <<mine, woken>>
Wake ==
    /\ wait = "asleep" /\ woken
    /\ wait' = "enable" /\ woken' = FALSE
    /\ WaitUnchanged /\ UNCHANGED mine

\* Timed out, spoken to, or cancelled.
GiveUp ==
    /\ wait = "asleep"
    /\ wait' = "idle" /\ woken' = FALSE /\ mine' = {}
    /\ WaitUnchanged

\* The caller goes on with what settled.
Waited ==
    /\ wait = "settled"
    /\ wait' = "idle" /\ woken' = FALSE /\ mine' = {}
    /\ WaitUnchanged

-----------------------------------------------------------------------------
Progress(c) ==
    \/ Admit(c) \/ TakePermit(c) \/ FailAdmission(c) \/ Commit(c)
    \/ StartTask(c) \/ FailDispatch(c)
    \/ ReadTexts(c) \/ EndRun(c) \/ CloseQueue(c) \/ Report(c) \/ Tell(c)
    \/ Settle(c) \/ NotifyWaiters(c)

Next ==
    \/ \E c \in Call, who \in Callers :
          \/ Spawn(c, who)
          \/ \E p \in Path : FollowUp(c, who, p) \/ Message(c, who, p)
    \/ \E d \in Call \cup {Tree} : Cancel(d)
    \/ \E s \in Session : Adopt(s)
    \/ \E c \in Call : Progress(c) \/ CutOff(c)
    \/ Wait \/ Enable \/ Look \/ Sleep \/ Wake \/ GiveUp \/ Waited

\* Tasks are polled; a run ends by its budget, its cancel or the watchdog.
Fairness == \A c \in Call : WF_vars(Progress(c))

Spec == Init /\ [][Next]_vars /\ Fairness

-----------------------------------------------------------------------------
(* Properties.                                                             *)

\* The variables have their types.
TypeOK ==
    /\ owner \in Session
    /\ row \in [Path -> Row \cup {NoRow}]
    /\ live \in [Path -> Call \cup {None}]
    /\ settled \in Seq(Path)
    /\ reserved \subseteq Path
    /\ archived \in [Path -> Call \cup {None}]
    /\ pc \in [Call -> Step]
    /\ caller \in [Call -> Caller]
    /\ at \in [Call -> Path \cup {Root}]
    /\ session \in [Call -> Call \cup {None}]
    /\ resuming \subseteq Call
    /\ restore \in [Call -> Row \cup {NoRow}]
    /\ spawner \in [Call -> Call \cup {Tree}]
    /\ cancelled \subseteq Call \cup {Tree}
    /\ queue \in [Call -> SUBSET Call]
    /\ logged \subseteq Call /\ reported \subseteq Call /\ lost \subseteq Call
    /\ wait \in {"idle", "enable", "look", "looked", "asleep", "settled"}
    /\ mine \subseteq Call /\ woken \in BOOLEAN
    /\ asked \in [Call -> [owner : Session, run : Call \cup {Tree}]]

\* The five tables of the roster have their types and tell one story through
\* spawns, follow-ups, roll-backs, evictions and adoption: a row is running
\* exactly when it has handles, a reserved name has no row, and the settled
\* list holds each settled row once (registry.rs Tree).
RosterAgrees ==
    /\ TypeOK
    /\ \A p \in Path : live[p] # None <=> row[p].running
    /\ \A p \in reserved : row[p] = NoRow
    /\ Members(settled) = {p \in Path : row[p] # NoRow /\ ~row[p].running}
    /\ \A i, j \in DOMAIN settled : settled[i] = settled[j] => i = j

Executing == Running \cup {"permit", "prepare"}

\* Two calls never run one agent session at a time, whichever follow-ups race
\* for it: its transcript stays one chain (lib.rs admit, registry.rs revive).
OneRunPerSession ==
    \A c, d \in Call :
        c # d /\ pc[c] \in Executing /\ pc[d] \in Executing
            => session[c] # session[d]

\* Whoever was admitted, or is still in the roster, asked for the session
\* that owns the tree now: a request from before an adoption never starts an
\* agent in the adopted tree (lib.rs admit's StaleCaller, adopt).
OneOwnerTree ==
    \A c \in Call :
        (pc[c] \in Executing \/ \E p \in Path : live[p] = c)
            => asked[c].owner = owner

\* Cancelling an agent takes along what its run asked for, also when the
\* cancel falls between the request and the child's first step, and the
\* children of those children (lib.rs admit: child_token of the spawner's).
CancelReachesDescendants ==
    \A c \in Call : pc[c] \in Running /\ asked[c].run \in cancelled
        => c \in cancelled

\* An agent the roster shows as settled can be collected: every dispatch of
\* its session that became a run has its report on the log, or the log
\* refused it and the dispatch will be reaped (lib.rs execute: finished
\* before settled).
SettledIsCollectable ==
    \A p \in Path : row[p] # NoRow /\ ~row[p].running
        => \A c \in logged : session[c] = row[p].session /\ pc[c] # "cutoff"
                             => c \in reported \cup lost

\* A waiter that sleeps has been woken, or no agent it waits for has settled,
\* or the one that did is about to wake it.  Only a row that a failed
\* follow-up put back wakes nobody (lib.rs wait: enable before the look).
NoLostWakeup ==
    wait = "asleep" /\ ~woken =>
        \A p \in Path :
            row[p].session \in mine /\ ~row[p].running =>
                \E c \in Call :
                    /\ at[c] = p
                    /\ \/ pc[c] = "notify"
                       \/ c \in resuming /\ pc[c] \in {"refused", "rolledback"}

\* Every request is answered or its run settles: nobody waits for a permit,
\* so an agent that spawns while it holds one cannot block the tree (lib.rs
\* reserve, execute).
EveryCallSettles == \A c \in Call : pc[c] # "new" ~> pc[c] \in Answered

\* "A claimed path, released on drop unless committed - so a spawn that fails
\* between reserving and starting does not leave the name burned"
\* (registry.rs Reservation): an agent listed as running has a task or one
\* about to start.
EveryLiveRowHasATask ==
    \A p \in Path : live[p] # None => pc[live[p]] \in Running
=============================================================================
