----------------------------- MODULE WriteLanes -----------------------------
(***************************************************************************)
(* Which state changes may run at once (kernel/src/write_lanes.rs, taken   *)
(* by Kernel::enter_lane in kernel/src/dispatch.rs).                       *)
(*                                                                         *)
(* A writer is one tool call that changes state.  It first takes a place   *)
(* in the line of its process (WriteLanes::enter) and waits until nobody   *)
(* ahead of it overlaps its key; it then joins, or opens, its process's    *)
(* share of the lock file the log names (SharedLeases::share).  A lock     *)
(* file is a SQLite database on which an open BEGIN IMMEDIATE is the lock. *)
(* A writer whose deadline or cancel fires while it waits is dropped at    *)
(* the await it is parked on.                                              *)
(***************************************************************************)
EXTENDS Integers, Sequences, FiniteSets

CONSTANTS
    Proc,         \* processes, each with one root kernel
    Writer,       \* tool calls that change state
    procOf,       \* the process each writer runs in
    workspaceOf,  \* the lock file of each process's workspace
    GlobalLock,   \* the lock file of memory, one for every workspace
    Key,          \* mutation keys the tools may name
    NoOne         \* a lock that is free

Lock == {workspaceOf[p] : p \in Proc} \cup {GlobalLock}

\* An unknown key and "state:*" behave alike, so one kind stands for both.
KeyKind == {"path", "memory", "state"}
WHOLE == [kind |-> "state", path |-> <<>>]

ASSUME WriterAssumption ==
    /\ IsFiniteSet(Writer)
    /\ procOf \in [Writer -> Proc]
    /\ DOMAIN workspaceOf = Proc
    /\ NoOne \notin Proc \cup Writer
    /\ Proc \cap Writer = {}

ASSUME KeyAssumption ==
    \A k \in Key : k.kind \in KeyKind /\ k.path \in Seq(STRING)

VARIABLES
    pc,       \* where each writer is
    lane,     \* the key each writer works under; WHOLE while it has none
    line,     \* per process: everyone holding or waiting, in arrival order
    woken,    \* writers notified since they last started to listen
    open,     \* per process and lock: how many writers share the lease
    sharing,  \* writers that own a LeaseShare
    opening,  \* per process: who holds the `opening` mutex
    lockFile  \* per lock: the process or the pending acquirer that holds it

vars == <<pc, lane, line, woken, open, sharing, opening, lockFile>>

-----------------------------------------------------------------------------
(* Keys.                                                                   *)

StartsWith(p, q) ==
    /\ Len(q) <= Len(p)
    /\ \A i \in 1..Len(q) : p[i] = q[i]

\* Mutant: only the wider key is seen to contain the narrower.
OverlapOneWay(l, r) ==
    \/ /\ l.kind = "path" /\ r.kind = "path" /\ StartsWith(l.path, r.path)
    \/ l.kind = "path" /\ r.kind = "state"
    \/ l.kind # "path" /\ r.kind # "path"

\* Memory is its own state: it meets other memory, never a file.
Overlap(l, r) ==
    \/ /\ l.kind = "path" /\ r.kind = "path"
       /\ StartsWith(l.path, r.path) \/ StartsWith(r.path, l.path)
    \/ l.kind = "path" /\ r.kind = "state"
    \/ l.kind = "state" /\ r.kind = "path"
    \/ l.kind # "path" /\ r.kind # "path"

LockFor(p, k) == IF k.kind = "memory" THEN GlobalLock ELSE workspaceOf[p]

-----------------------------------------------------------------------------
(* The line.                                                               *)

Line(w) == line[procOf[w]]
LockOf(w) == LockFor(procOf[w], lane[w])
Shares(w) == open[procOf[w]][LockOf(w)]

InLine(w) == \E i \in DOMAIN Line(w) : Line(w)[i] = w

\* Mutant: a waiter only looks at those who are already in.
ClearOfHolders(w) ==
    \A i, j \in DOMAIN Line(w) :
        /\ Line(w)[j] = w /\ i < j
        /\ pc[Line(w)[i]] \notin {"checking", "asleep"}
        => ~Overlap(lane[Line(w)[i]], lane[w])

\* Nobody ahead of w in its line overlaps its key.
Clear(w) ==
    \A i, j \in DOMAIN Line(w) :
        Line(w)[j] = w /\ i < j => ~Overlap(lane[Line(w)[i]], lane[w])

\* The entries of s without w, in their order.
Without(s, w) ==
    LET k == CHOOSE i \in DOMAIN s : s[i] = w
    IN  [i \in 1..(Len(s) - 1) |-> IF i < k THEN s[i] ELSE s[i + 1]]

Goto(w, label) == pc' = [pc EXCEPT ![w] = label]

Init ==
    /\ pc = [w \in Writer |-> "idle"]
    /\ lane = [w \in Writer |-> WHOLE]
    /\ line = [p \in Proc |-> <<>>]
    /\ woken = {}
    /\ open = [p \in Proc |-> [s \in Lock |-> 0]]
    /\ sharing = {}
    /\ opening = [p \in Proc |-> NoOne]
    /\ lockFile = [s \in Lock |-> NoOne]

\* enter: take the last place in line and start listening for `moved`.
Join(w, k) ==
    /\ pc[w] = "idle"
    /\ Goto(w, "checking")
    /\ lane' = [lane EXCEPT ![w] = k]
    /\ line' = [line EXCEPT ![procOf[w]] = Append(@, w)]
    /\ woken' = woken \ {w}
    /\ UNCHANGED <<open, sharing, opening, lockFile>>

\* enter: look at the entries ahead; go on, or await `moved`.
Check(w) ==
    /\ pc[w] = "checking"
    /\ Goto(w, IF Clear(w) THEN "clear" ELSE "asleep")
    /\ UNCHANGED <<lane, line, woken, open, sharing, opening, lockFile>>

\* enter: a notification arrived; listen again before the next look.
Wake(w) ==
    /\ pc[w] = "asleep" /\ w \in woken
    /\ Goto(w, "checking")
    /\ woken' = woken \ {w}
    /\ UNCHANGED <<lane, line, open, sharing, opening, lockFile>>

-----------------------------------------------------------------------------
(* The shared lease.                                                       *)

\* Mutant: a writer that joins an open lease is not counted.
AddShareUncounted(w) == sharing' = sharing \cup {w} /\ UNCHANGED open

AddShare(w) ==
    /\ open' = [open EXCEPT ![procOf[w]][LockOf(w)] = @ + 1]
    /\ sharing' = sharing \cup {w}

\* share: the first join(), then a wait for the `opening` mutex.
JoinShare(w) ==
    /\ pc[w] = "clear"
    /\ \/ /\ Shares(w) > 0
          /\ AddShare(w)
          /\ Goto(w, "running")
       \/ /\ Shares(w) = 0
          /\ Goto(w, "opening")
          /\ UNCHANGED <<open, sharing>>
    /\ UNCHANGED <<lane, line, woken, opening, lockFile>>

\* share: with the mutex, the second join(); on a miss ask for the lock file.
TakeOpening(w) ==
    /\ pc[w] = "opening"
    /\ opening[procOf[w]] = NoOne
    /\ \/ /\ Shares(w) > 0
          /\ AddShare(w)
          /\ Goto(w, "running")
          /\ UNCHANGED opening
       \/ /\ Shares(w) = 0
          /\ opening' = [opening EXCEPT ![procOf[w]] = w]
          /\ Goto(w, "acquiring")
          /\ UNCHANGED <<open, sharing>>
    /\ UNCHANGED <<lane, line, woken, lockFile>>

\* acquire_mutation_lease: BEGIN IMMEDIATE succeeds on a blocking thread.
Acquire(w) ==
    /\ pc[w] = "acquiring"
    /\ lockFile[LockOf(w)] = NoOne
    /\ lockFile' = [lockFile EXCEPT ![LockOf(w)] = w]
    /\ Goto(w, "acquired")
    /\ UNCHANGED <<lane, line, woken, open, sharing, opening>>

\* share: the task resumes with the lease, stores it and drops the mutex.
StoreLease(w) ==
    /\ pc[w] = "acquired"
    /\ lockFile' = [lockFile EXCEPT ![LockOf(w)] = procOf[w]]
    /\ open' = [open EXCEPT ![procOf[w]][LockOf(w)] = 1]
    /\ sharing' = sharing \cup {w}
    /\ opening' = [opening EXCEPT ![procOf[w]] = NoOne]
    /\ Goto(w, "running")
    /\ UNCHANGED <<lane, line, woken>>

\* Mutant: a dropped future keeps the mutex.
ReleaseNothing(w) == UNCHANGED opening

ReleaseOpening(w) ==
    opening' = [p \in Proc |-> IF opening[p] = w THEN NoOne ELSE opening[p]]

\* acquire_mutation_lease: the 120 s busy timeout, or any SQLite error.
AcquireFails(w) ==
    /\ pc[w] = "acquiring"
    /\ ReleaseOpening(w)
    /\ Goto(w, "leaving")
    /\ UNCHANGED <<lane, line, woken, open, sharing, lockFile>>

\* enter_lane: deadline or cancel wins the select and drops the future at the
\* await it is parked on.  An acquisition still blocked on its thread finds
\* nobody waiting for it and gives the lock back when it gets it, so it holds
\* nothing.  One that already succeeded is dropped here.
GiveUp(w) ==
    /\ pc[w] \in {"asleep", "opening", "acquiring", "acquired"}
    /\ ReleaseOpening(w)
    /\ lockFile' = [s \in Lock |-> IF lockFile[s] = w THEN NoOne ELSE lockFile[s]]
    /\ Goto(w, "leaving")
    /\ UNCHANGED <<lane, line, woken, open, sharing>>

-----------------------------------------------------------------------------
(* Leaving: the fields of Lane.held drop in order, Held then LeaseShare.   *)

\* Held::drop, first statement: remove the entry from the line.
LeaveLine(w) ==
    /\ pc[w] \in {"running", "leaving"}
    /\ line' = [line EXCEPT ![procOf[w]] = Without(@, w)]
    /\ Goto(w, "notifying")
    /\ UNCHANGED <<lane, woken, open, sharing, opening, lockFile>>

Listening(p) == {v \in Writer : procOf[v] = p /\ pc[v] \in {"checking", "asleep"}}

\* Mutant: notify_one in the place of notify_waiters.
NotifyOne(w) ==
    /\ pc[w] = "notifying"
    /\ \/ \E v \in Listening(procOf[w]) : woken' = woken \cup {v}
       \/ Listening(procOf[w]) = {} /\ UNCHANGED woken
    /\ IF w \in sharing
       THEN Goto(w, "unsharing") /\ UNCHANGED lane
       ELSE Goto(w, "idle") /\ lane' = [lane EXCEPT ![w] = WHOLE]
    /\ UNCHANGED <<line, open, sharing, opening, lockFile>>

\* Held::drop, second statement: notify_waiters.
Notify(w) ==
    /\ pc[w] = "notifying"
    /\ woken' = woken \cup Listening(procOf[w])
    /\ IF w \in sharing
       THEN Goto(w, "unsharing") /\ UNCHANGED lane
       ELSE Goto(w, "idle") /\ lane' = [lane EXCEPT ![w] = WHOLE]
    /\ UNCHANGED <<line, open, sharing, opening, lockFile>>

\* Mutant: any share that is dropped closes the lease.
DropLease(w) ==
    /\ pc[w] = "unsharing"
    /\ open' = [open EXCEPT ![procOf[w]][LockOf(w)] = 0]
    /\ lockFile' = [lockFile EXCEPT ![LockOf(w)] = NoOne]
    /\ sharing' = sharing \ {w}
    /\ lane' = [lane EXCEPT ![w] = WHOLE]
    /\ Goto(w, "idle")
    /\ UNCHANGED <<line, woken, opening>>

\* LeaseShare::drop: the last share closes the connection that is the lock.
DropShare(w) ==
    /\ pc[w] = "unsharing"
    /\ open' = [open EXCEPT ![procOf[w]][LockOf(w)] = @ - 1]
    /\ lockFile' = IF Shares(w) = 1
                   THEN [lockFile EXCEPT ![LockOf(w)] = NoOne]
                   ELSE lockFile
    /\ sharing' = sharing \ {w}
    /\ lane' = [lane EXCEPT ![w] = WHOLE]
    /\ Goto(w, "idle")
    /\ UNCHANGED <<line, woken, opening>>

-----------------------------------------------------------------------------

\* A step the writer's own task or blocking thread takes without help.
Progress(w) ==
    \/ Check(w)
    \/ Wake(w)
    \/ JoinShare(w)
    \/ Acquire(w)
    \/ AcquireFails(w)
    \/ StoreLease(w)
    \/ LeaveLine(w)
    \/ Notify(w)
    \/ DropShare(w)

Next ==
    \E w \in Writer :
        \/ \E k \in Key : Join(w, k)
        \/ Progress(w)
        \/ TakeOpening(w)
        \/ GiveUp(w)

\* A task that can run is polled; a call that runs ends, for every call has a
\* deadline; tokio's mutex serves its waiters in order, so nobody waiting for
\* it is passed over for ever.  Nobody has to start a call or to give one up.
Fairness ==
    \A w \in Writer : WF_vars(Progress(w)) /\ SF_vars(TakeOpening(w))

Spec == Init /\ [][Next]_vars
FairSpec == Spec /\ Fairness

-----------------------------------------------------------------------------
(* What the lanes promise.                                                 *)

InLane == {"clear", "opening", "acquiring", "acquired", "running"}

PC == InLane \cup {"idle", "checking", "asleep", "leaving", "notifying",
                   "unsharing"}

\* Every variable keeps its type.
TypeOK ==
    /\ pc \in [Writer -> PC]
    /\ lane \in [Writer -> Key \cup {WHOLE}]
    /\ line \in [Proc -> Seq(Writer)]
    /\ woken \in SUBSET Writer
    /\ open \in [Proc -> [Lock -> Nat]]
    /\ sharing \in SUBSET Writer
    /\ opening \in [Proc -> Writer \cup {NoOne}]
    /\ lockFile \in [Lock -> Proc \cup Writer \cup {NoOne}]

\* Two changes whose keys overlap never run together in one process: the
\* promise of the module's first line, over every order of arrivals, waits,
\* wake-ups and withdrawals.
OverlappingWritersExclude ==
    \A v, w \in Writer :
        /\ v # w /\ procOf[v] = procOf[w]
        /\ pc[v] = "running" /\ pc[w] = "running"
        => ~Overlap(lane[v], lane[w])

\* Two processes never change state under the same lock file at once, however
\* their writers join, leave and hand on the lease that the process shares.
ProcessesExclude ==
    \A v, w \in Writer :
        /\ procOf[v] # procOf[w]
        /\ pc[v] = "running" /\ pc[w] = "running"
        => LockOf(v) # LockOf(w)

\* A writer never enters past an overlapping one that came earlier, not even
\* one still asleep: "a wide key is never starved by narrow ones".
NoOvertaking ==
    \A p \in Proc : \A i, j \in DOMAIN line[p] :
        i < j /\ Overlap(lane[line[p][i]], lane[line[p][j]])
        => pc[line[p][j]] \notin InLane

Sharers(p, s) == {w \in sharing : procOf[w] = p /\ LockOf(w) = s}

\* The count kept per lock is the number of shares alive, and the process
\* holds the lock file exactly while that number is not zero: no leak after a
\* withdrawal at any await, no release under a writer still running.
LeaseAccounting ==
    \A p \in Proc, s \in Lock :
        /\ open[p][s] = Cardinality(Sharers(p, s))
        /\ open[p][s] > 0 <=> lockFile[s] = p

\* Whoever takes a place in line runs or is sent away with an error, although
\* other writers and other processes keep coming: no wake-up is lost.
EveryWriterSettles ==
    \A w \in Writer :
        pc[w] = "checking" ~> pc[w] \in {"running", "leaving"}
=============================================================================
