---------------------------- MODULE WriterWork ----------------------------
(* The work of writing agents: the checkout each run is given, the patch   *)
(* taken from it, the handout that offers the patch to the conversation,   *)
(* and everything that removes a checkout - the end of its run, the guard  *)
(* that outlives it, and the sweep of another process.                     *)
(*                                                                         *)
(* A run's edits are the run itself: the set {d, e} is a tree with what d  *)
(* and e changed.  Several processes share the repository; each keeps its  *)
(* leases and its patches in memory and loses both when it dies.           *)
EXTENDS FiniteSets, Naturals, Sequences

CONSTANTS
    Process,       \* lives of the program: a restart is another member
    Conversation,  \* sessions a process may own
    Agent,         \* agent sessions: a checkout's path and branch
    Run,           \* dispatches of writers, taken in order: 1 .. some bound
    Retained,      \* patches a process keeps in memory (MAX_RETAINED_PATCHES)
    MaxFaults,     \* failing git commands, writes and appends
    None

WellFormed ==
    /\ Retained \in Nat \ {0} /\ MaxFaults \in Nat
    /\ Run \subseteq Nat
    /\ None \notin Process \cup Conversation \cup Agent \cup Run

ASSUME WorkAssumption == WellFormed

VARIABLES
    proc,      \* proc[p]: "off", "sweeping", "up", "dead"
    owner,     \* owner[p]: the conversation p's tree of agents belongs to
    rows,      \* rows[p]: agents of p that have settled and may be followed up
    leases,    \* leases[p]: paths p holds
    cache,     \* cache[p]: the runs whose patches p holds, oldest first
    merging,   \* merging[p]: the handout being applied to the user's tree
    cleanups,  \* runs whose guard left a cleanup behind
    structure, \* who holds the lock on the repository's worktrees
    tree,      \* tree[a]: what is on disk at a's path
    keep,      \* agents whose checkout has a keep marker
    pc, of, by, parent, old, patch,  \* of each run
    preserved, \* runs that flagged their checkout to be kept
    recorded,  \* <<conversation, run>>: patches in the log
    applied,   \* <<conversation, run>>: handouts closed in the log
    made,      \* edits that were ever written to a checkout
    main,      \* edits that are in the user's tree
    undone,    \* edits an agent took back, or that went with a dropped run
    robbed,    \* runs whose lease or checkout went with an earlier run's guard
    unclosed,  \* handouts whose closing was lost with a failed append
    faults

process == <<proc, owner, merging>>
memory == <<rows, leases, cache>>
disk == <<structure, tree, keep>>
identity == <<of, by, parent>>
result == <<old, patch, preserved>>
log == <<recorded, applied, unclosed>>
history == <<made, main, undone, robbed>>
vars == <<process, memory, disk, pc, identity, result, log, cleanups, history,
          faults>>

Absent == [edits |-> {}, owner |-> None, there |-> FALSE]
Checkout(edits, p) == [edits |-> edits, owner |-> p, there |-> TRUE]

\* A run that is admitted or running, or whose row was left live: its roster
\* entry keeps adoption, follow-ups and applying a patch away.
Live == {"adding", "marking", "restoring", "working", "recording",
         "closing", "tombstone", "reaping", "preserving", "settling",
         "panicked"}

\* A run whose task has its checkout, or is about to.
AtWork(d) == pc[d] \in (Live \ {"panicked"}) \cup {"ending"}

Over == {"refused", "over", "lost"}

LiveOn(p) == {d \in Run : by[d] = p /\ pc[d] \in Live}

RunsOf(a) == {d \in Run : of[d] = a}

Members(s) == {s[i] : i \in DOMAIN s}

\* The runs whose patches p holds.
Held(p) == Members(cache[p])

Fault == faults < MaxFaults /\ faults' = faults + 1

\* An append that answers, or fails without its caller looking: closed is
\* what the log gains, unless the append is lost.
CloseInLog(s, d) ==
    \/ /\ applied' = applied \cup {<<s, d>>}
       /\ UNCHANGED <<unclosed, faults>>
    \/ /\ Fault
       /\ unclosed' = unclosed \cup {d}
       /\ UNCHANGED applied

\* Patches of conversation s that are not closed.
Unapplied(s) == {d \in Run : <<s, d>> \in recorded \ applied}

\* The newest of a set of runs, if there is one.
Newest(D) == {d \in D : \A e \in D : e <= d}

\* The handout of agent a that p would continue from: memory first, then the
\* log of the conversation p's tree belongs to.
Pending(p, a) ==
    LET held == RunsOf(a) \cap Held(p)
        offered == Unapplied(owner[p]) \cap RunsOf(a)
    IN Newest(IF held # {} THEN held ELSE offered)

\* Variant: one patch too many is kept.
KeepingOneMore(held, d) ==
    LET more == Append(held, d)
    IN IF Len(more) > Retained + 1 THEN Tail(more) ELSE more

\* Memory keeps the newest patches only.
Keeping(held, d) ==
    LET more == Append(held, d)
    IN IF Len(more) > Retained THEN Tail(more) ELSE more

\* A patch is in memory once at most.
Forgetting(held, d) ==
    LET k == CHOOSE i \in DOMAIN held : held[i] = d
    IN IF d \in Members(held)
       THEN [i \in 1 .. Len(held) - 1 |-> IF i < k THEN held[i] ELSE held[i + 1]]
       ELSE held

Init ==
    /\ proc = [p \in Process |-> "off"]
    /\ owner = [p \in Process |-> None]
    /\ rows = [p \in Process |-> {}]
    /\ leases = [p \in Process |-> {}]
    /\ cache = [p \in Process |-> <<>>]
    /\ merging = [p \in Process |-> None]
    /\ cleanups = {}
    /\ structure = None
    /\ tree = [a \in Agent |-> Absent]
    /\ keep = {}
    /\ pc = [d \in Run |-> "idle"]
    /\ of = [d \in Run |-> None]
    /\ by = [d \in Run |-> None]
    /\ parent = [d \in Run |-> None]
    /\ old = [d \in Run |-> None]
    /\ patch = [d \in Run |-> {}]
    /\ preserved = {}
    /\ recorded = {} /\ applied = {} /\ unclosed = {}
    /\ made = {} /\ main = {} /\ undone = {} /\ robbed = {}
    /\ faults = 0

-----------------------------------------------------------------------------
(* Processes.                                                              *)

Start(p) ==
    /\ proc[p] = "off"
    /\ proc' = [proc EXCEPT ![p] = "sweeping"]
    /\ \E s \in Conversation : owner' = [owner EXCEPT ![p] = s]
    /\ UNCHANGED <<merging, memory, disk, pc, identity, result, log, cleanups,
                   history, faults>>

\* Variant: an unmarked checkout is removed whatever is in it.
SweepableDirty(p) ==
    {a \in Agent :
        /\ tree[a].there
        /\ a \notin leases[p]
        /\ tree[a].owner # None => proc[tree[a].owner] = "dead"
        /\ a \notin keep}

\* Variant: only the process's own table says whether a checkout is in use.
SweepableByLease(p) ==
    {a \in Agent :
        /\ tree[a].there
        /\ a \notin leases[p]
        /\ a \notin keep
        /\ tree[a].edits = {}}

\* A checkout a sweep of p may remove: not leased here, not owned by a
\* process that lives, not marked to be kept, and clean.
Sweepable(p) ==
    {a \in Agent :
        /\ tree[a].there
        /\ a \notin leases[p]
        /\ tree[a].owner # None => proc[tree[a].owner] = "dead"
        /\ a \notin keep
        /\ tree[a].edits = {}}

\* The sweep at startup, whole under the lock; what git cannot inspect or
\* remove stays, and without the lock everything does.
Sweep(p) ==
    /\ proc[p] = "sweeping"
    /\ \/ /\ structure = None
          /\ \E gone \in SUBSET Sweepable(p) :
                tree' = [a \in Agent |-> IF a \in gone THEN Absent ELSE tree[a]]
       \/ UNCHANGED tree
    /\ proc' = [proc EXCEPT ![p] = "up"]
    /\ UNCHANGED <<owner, merging, memory, structure, keep, pc, identity,
                   result, log, cleanups, history, faults>>

\* The surface moves to another conversation: refused while an agent is
\* live.  The agents' rows go; the patches held in memory stay.
Adopt(p) ==
    /\ proc[p] = "up" /\ merging[p] = None
    /\ LiveOn(p) = {}
    /\ \E s \in Conversation \ {owner[p]} : owner' = [owner EXCEPT ![p] = s]
    /\ rows' = [rows EXCEPT ![p] = {}]
    /\ UNCHANGED <<proc, merging, leases, cache, disk, pc, identity, result,
                   log, cleanups, history, faults>>

\* The process dies: its memory goes, and the lock with it.
Crash(p) ==
    /\ proc[p] \in {"sweeping", "up"}
    /\ proc' = [proc EXCEPT ![p] = "dead"]
    /\ leases' = [leases EXCEPT ![p] = {}]
    /\ cache' = [cache EXCEPT ![p] = <<>>]
    /\ rows' = [rows EXCEPT ![p] = {}]
    /\ merging' = [merging EXCEPT ![p] = None]
    /\ structure' = IF structure \in LiveOn(p) THEN None ELSE structure
    /\ cleanups' = {d \in cleanups : by[d] # p}
    /\ pc' = [d \in Run |-> IF by[d] = p /\ pc[d] \notin Over THEN "lost"
                            ELSE pc[d]]
    /\ UNCHANGED <<owner, tree, keep, identity, result, log, history, faults>>

-----------------------------------------------------------------------------
(* Giving a run its checkout.                                              *)

Goto(d, label) == pc' = [pc EXCEPT ![d] = label]

\* The runs taken so far, so that they are taken in order.
Taken == {d \in Run : pc[d] # "idle"}

\* A new agent, or a follow-up to a settled one: the path is leased before
\* it exists, and a path that is leased refuses.
Begin(p, a, d) ==
    /\ proc[p] = "up" /\ merging[p] = None
    /\ pc[d] = "idle" /\ \A e \in Run : e < d => e \in Taken
    /\ RunsOf(a) = {} \/ a \in rows[p]
    /\ of' = [of EXCEPT ![d] = a]
    /\ by' = [by EXCEPT ![d] = p]
    /\ parent' = [parent EXCEPT ![d] = owner[p]]
    /\ IF a \in leases[p]
       THEN Goto(d, "refused") /\ UNCHANGED <<leases, rows>>
       ELSE /\ Goto(d, "adding")
            /\ leases' = [leases EXCEPT ![p] = @ \cup {a}]
            /\ rows' = [rows EXCEPT ![p] = @ \ {a}]
    /\ UNCHANGED <<process, cache, disk, result, log, cleanups, history,
                   faults>>

\* The roster entry of a refused follow-up goes back.
Refuse(d) ==
    /\ Goto(d, "refused")
    /\ rows' = IF \E e \in RunsOf(of[d]) : e < d
               THEN [rows EXCEPT ![by[d]] = @ \cup {of[d]}] ELSE rows

Unlease(d) == leases' = [leases EXCEPT ![by[d]] = @ \ {of[d]}]

\* git worktree add, under the lock; a path that exists refuses, and so may
\* git or the wait for the lock.
AddTree(d) ==
    /\ pc[d] = "adding"
    /\ \/ /\ structure = None /\ ~tree[of[d]].there
          /\ tree' = [tree EXCEPT ![of[d]] = Checkout({}, None)]
          /\ structure' = d
          /\ Goto(d, "marking")
          /\ UNCHANGED <<leases, rows, faults>>
       \/ /\ \/ structure = None /\ tree[of[d]].there /\ UNCHANGED faults
             \/ Fault
          /\ Refuse(d) /\ Unlease(d)
          /\ UNCHANGED <<tree, structure>>
    /\ UNCHANGED <<process, cache, keep, identity, result, log, cleanups,
                   history>>

\* The owner marker is written before the lock is given up; a checkout that
\* cannot be marked is taken down again.
MarkTree(d) ==
    /\ pc[d] = "marking"
    /\ structure' = None
    /\ \/ /\ tree' = [tree EXCEPT ![of[d]].owner = by[d]]
          /\ Goto(d, "restoring")
          /\ UNCHANGED <<leases, rows, faults>>
       \/ /\ Fault
          /\ tree' = [tree EXCEPT ![of[d]] = Absent]
          /\ Refuse(d) /\ Unlease(d)
    /\ UNCHANGED <<process, cache, keep, identity, result, log, cleanups,
                   history>>

\* Other runs at the path of d that are at work there, or left work there.
Hit(d) == {e \in RunsOf(of[d]) \ {d} :
              by[e] = by[d] /\ (AtWork(e) \/ e \in preserved)}

\* The guard of a checkout, when it is dropped: a checkout to be kept is left
\* alone; otherwise, if the path is leased, the lease is given up and a task
\* is left to remove the checkout.
DropGuard(d) ==
    LET a == of[d]
        p == by[d]
    IN IF d \in preserved \/ a \in keep \/ a \notin leases[p]
       THEN UNCHANGED <<leases, cleanups, robbed>>
       ELSE /\ leases' = [leases EXCEPT ![p] = @ \ {a}]
            /\ cleanups' = cleanups \cup {d}
            /\ robbed' = robbed \cup Hit(d)

\* A follow-up's checkout gets the pending patch of its agent laid into it;
\* the new patch will contain it, so its handout is to be closed.  A patch
\* that does not apply refuses the follow-up.
Restore(d) ==
    /\ pc[d] = "restoring"
    /\ LET pending == Pending(by[d], of[d])
       IN \/ /\ pending = {}
             /\ Goto(d, "working")
             /\ UNCHANGED <<tree, old, leases, rows, cleanups, robbed, faults>>
          \/ \E e \in pending :
                /\ tree[of[d]].there
                /\ tree' = [tree EXCEPT ![of[d]].edits = patch[e]]
                /\ old' = [old EXCEPT ![d] = e]
                /\ Goto(d, "working")
                /\ UNCHANGED <<leases, rows, cleanups, robbed, faults>>
          \/ /\ pending # {}
             /\ tree[of[d]].there => Fault
             /\ ~tree[of[d]].there => UNCHANGED faults
             /\ Refuse(d) /\ DropGuard(d)
             /\ UNCHANGED <<tree, old>>
    /\ UNCHANGED <<process, cache, structure, keep, identity, patch, preserved,
                   log, made, main, undone>>

\* The call that asked for the run is given up while git works: the lock and
\* the lease go with it, the checkout stays as it is.
Abandon(d) ==
    /\ pc[d] \in {"adding", "marking"}
    /\ Refuse(d) /\ Unlease(d)
    /\ structure' = IF structure = d THEN None ELSE structure
    /\ UNCHANGED <<process, cache, tree, keep, identity, result, log, cleanups,
                   history, faults>>

-----------------------------------------------------------------------------
(* The run and what becomes of its work.                                   *)

\* The agent edits its checkout: it adds a change, or takes all back.
Edit(d) ==
    /\ pc[d] = "working" /\ tree[of[d]].there
    /\ \/ /\ tree' = [tree EXCEPT ![of[d]].edits = @ \cup {d}]
          /\ made' = made \cup {d}
          /\ UNCHANGED undone
       \/ /\ tree' = [tree EXCEPT ![of[d]].edits = {}]
          /\ undone' = undone \cup tree[of[d]].edits
          /\ UNCHANGED made
    /\ UNCHANGED <<process, memory, structure, keep, pc, identity, result, log,
                   cleanups, main, robbed, faults>>

\* What follows a patch that was taken: it is recorded if there is something
\* to record, or an earlier handout to close.
Extracted(d, edits) ==
    IF edits # {} \/ old[d] # None THEN "recording" ELSE "reaping"

\* The run is over and its diff is taken, kept in memory if it is not empty;
\* git may fail, or find no checkout, or a diff above its limit.
Extract(d) ==
    /\ pc[d] = "working"
    /\ LET edits == tree[of[d]].edits
       IN \/ /\ tree[of[d]].there
             /\ patch' = [patch EXCEPT ![d] = edits]
             /\ cache' = IF edits = {} THEN cache
                         ELSE [cache EXCEPT ![by[d]] = Keeping(@, d)]
             /\ Goto(d, Extracted(d, edits))
             /\ UNCHANGED faults
          \/ /\ tree[of[d]].there => Fault
             /\ ~tree[of[d]].there => UNCHANGED faults
             /\ Goto(d, "preserving")
             /\ UNCHANGED <<patch, cache>>
    /\ UNCHANGED <<process, rows, leases, disk, identity, old, preserved, log,
                   cleanups, history>>

\* The patch is made durable on the chain of the conversation that asked for
\* it; if that fails the checkout has to stay.
Record(d) ==
    /\ pc[d] = "recording"
    /\ \/ /\ recorded' = recorded \cup {<<parent[d], d>>}
          /\ Goto(d, IF old[d] = None THEN "reaping" ELSE "closing")
          /\ UNCHANGED faults
       \/ /\ Fault
          /\ Goto(d, "preserving")
          /\ UNCHANGED recorded
    /\ UNCHANGED <<process, memory, disk, identity, result, applied, unclosed,
                   cleanups, history>>

\* Variant: the earlier handout is only dropped from memory.
CloseInMemory(d) ==
    /\ pc[d] = "closing"
    /\ cache' = [cache EXCEPT ![by[d]] = Forgetting(@, old[d])]
    /\ Goto(d, IF patch[d] = {} THEN "tombstone" ELSE "reaping")
    /\ UNCHANGED <<process, rows, leases, disk, identity, result, log, cleanups,
                   history, faults>>

\* Only now is the earlier handout closed, in memory and in the log.
Close(d) ==
    /\ pc[d] = "closing"
    /\ cache' = [cache EXCEPT ![by[d]] = Forgetting(@, old[d])]
    /\ CloseInLog(parent[d], old[d])
    /\ Goto(d, IF patch[d] = {} THEN "tombstone" ELSE "reaping")
    /\ UNCHANGED <<process, rows, leases, disk, identity, result, recorded,
                   cleanups, history>>

\* An empty replacement closes itself.
Tombstone(d) ==
    /\ pc[d] = "tombstone"
    /\ CloseInLog(parent[d], d)
    /\ Goto(d, "reaping")
    /\ UNCHANGED <<process, memory, disk, identity, result, recorded, cleanups,
                   history>>

\* The checkout is removed under the lock; if that fails the lease stays for
\* the guard's last attempt.  A path marked to be kept only loses its lease.
Reap(d) ==
    /\ pc[d] = "reaping"
    /\ \/ /\ of[d] \in keep
          /\ Unlease(d) /\ UNCHANGED <<tree, faults>>
       \/ /\ of[d] \notin keep
          /\ structure = None
          /\ tree' = [tree EXCEPT ![of[d]] = Absent]
          /\ Unlease(d) /\ UNCHANGED faults
       \/ /\ of[d] \notin keep
          /\ Fault /\ UNCHANGED <<tree, leases>>
    /\ Goto(d, "settling")
    /\ UNCHANGED <<process, rows, cache, structure, keep, identity, result, log,
                   cleanups, history>>

\* Work that could not be captured: the flag, and a marker that survives the
\* process unless it cannot be written.
Preserve(d) ==
    /\ pc[d] = "preserving"
    /\ preserved' = preserved \cup {d}
    /\ \/ keep' = keep \cup {of[d]} /\ UNCHANGED faults
       \/ Fault /\ UNCHANGED keep
    /\ Goto(d, "settling")
    /\ UNCHANGED <<process, memory, structure, tree, identity, old, patch, log,
                   cleanups, history>>

\* The report is written and the agent settles: from here on it may be
\* followed up, while the run's task still holds its checkout's guard.
Settle(d) ==
    /\ pc[d] = "settling"
    /\ rows' = [rows EXCEPT ![by[d]] = @ \cup {of[d]}]
    /\ Goto(d, "ending")
    /\ UNCHANGED <<process, leases, cache, disk, identity, result, log,
                   cleanups, history, faults>>

\* The task ends and drops the guard.
End(d) ==
    /\ pc[d] = "ending"
    /\ Goto(d, "over")
    /\ DropGuard(d)
    /\ UNCHANGED <<process, rows, cache, disk, identity, result, log, made,
                   main, undone, faults>>

\* The run panics in its checkout: the guard removes what was not captured.
\* The roster entry stays.
Panic(d) ==
    /\ pc[d] \in {"working", "recording"}
    /\ Fault
    /\ undone' = undone \cup {d}
    /\ Goto(d, "panicked")
    /\ DropGuard(d)
    /\ UNCHANGED <<process, rows, cache, disk, identity, result, log, made,
                   main>>

\* The cleanup a guard left behind; it may fail.
Cleanup(d) ==
    /\ d \in cleanups
    /\ cleanups' = cleanups \ {d}
    /\ \/ /\ structure = None
          /\ tree' = [tree EXCEPT ![of[d]] = Absent]
          /\ robbed' = robbed \cup Hit(d)
          /\ UNCHANGED faults
       \/ Fault /\ UNCHANGED <<tree, robbed>>
    /\ UNCHANGED <<process, memory, structure, keep, pc, identity, result, log,
                   made, main, undone>>

-----------------------------------------------------------------------------
(* The user applies a handout.                                             *)

\* What p offers: the log of its conversation, and what it holds in memory.
Offered(p) == Unapplied(owner[p]) \cup Held(p)

\* Refused while an agent is live; an empty patch has nothing to apply.
Merge(p, d) ==
    /\ proc[p] = "up" /\ merging[p] = None
    /\ LiveOn(p) = {}
    /\ d \in Offered(p) /\ patch[d] # {}
    /\ main' = main \cup patch[d]
    /\ merging' = [merging EXCEPT ![p] = d]
    /\ UNCHANGED <<proc, owner, memory, disk, pc, identity, result, log,
                   cleanups, made, undone, robbed, faults>>

\* The handout is closed, on the chain of the conversation p has now.
Forget(p) ==
    /\ proc[p] = "up" /\ merging[p] # None
    /\ cache' = [cache EXCEPT ![p] = Forgetting(@, merging[p])]
    /\ CloseInLog(owner[p], merging[p])
    /\ merging' = [merging EXCEPT ![p] = None]
    /\ UNCHANGED <<proc, owner, rows, leases, disk, pc, identity, result,
                   recorded, cleanups, history>>

-----------------------------------------------------------------------------

RunStep(d) ==
    \/ AddTree(d) \/ MarkTree(d) \/ Restore(d) \/ Abandon(d)
    \/ Edit(d) \/ Extract(d) \/ Record(d) \/ Close(d) \/ Tombstone(d)
    \/ Reap(d) \/ Preserve(d) \/ Settle(d) \/ End(d) \/ Panic(d)
    \/ Cleanup(d)

ProcessStep(p) ==
    \/ Start(p) \/ Sweep(p) \/ Adopt(p) \/ Crash(p) \/ Forget(p)
    \/ \E d \in Run : Merge(p, d)
    \/ \E a \in Agent, d \in Run : Begin(p, a, d)

Next ==
    \/ \E p \in Process : ProcessStep(p)
    \/ \E d \in Run : RunStep(d)

Spec == Init /\ [][Next]_vars

-----------------------------------------------------------------------------
(* Properties.                                                             *)

PathAgent == Agent \cup {None}

\* Every variable has its type; the lock is held only between adding a
\* checkout and marking it (worktree.rs:1058-1094).
TypeOK ==
    /\ proc \in [Process -> {"off", "sweeping", "up", "dead"}]
    /\ owner \in [Process -> Conversation \cup {None}]
    /\ rows \in [Process -> SUBSET Agent] /\ leases \in [Process -> SUBSET Agent]
    /\ cache \in [Process -> Seq(Run)]
    /\ \A p \in Process : Len(cache[p]) <= Retained
    /\ merging \in [Process -> Run \cup {None}]
    /\ cleanups \subseteq Run /\ keep \subseteq Agent
    /\ tree \in [Agent -> [edits : SUBSET Run, owner : Process \cup {None},
                           there : BOOLEAN]]
    /\ pc \in [Run -> Live \cup Over \cup {"idle", "ending"}]
    /\ of \in [Run -> PathAgent] /\ by \in [Run -> Process \cup {None}]
    /\ parent \in [Run -> Conversation \cup {None}]
    /\ old \in [Run -> Run \cup {None}] /\ patch \in [Run -> SUBSET Run]
    /\ recorded \subseteq Conversation \X Run
    /\ applied \subseteq Conversation \X Run
    /\ made \subseteq Run /\ main \subseteq Run
    /\ undone \subseteq Run /\ robbed \subseteq Run
    /\ preserved \subseteq Run /\ unclosed \subseteq Run
    /\ faults \in 0 .. MaxFaults
    /\ structure # None => structure \in Run /\ pc[structure] = "marking"

\* Where work survives.
OnDisk(d) == \E a \in Agent : d \in tree[a].edits
OnOffer(d) == \E s \in Conversation : \E e \in Unapplied(s) : d \in patch[e]

\* What an agent changed is in the user's tree, in a checkout on disk or in a
\* patch some conversation still offers, through crashes, sweeps, evictions
\* and any failing command or append; unless the agent took it back, its run
\* panicked, or an earlier run's guard removed its checkout (lib.rs:1804-1838,
\* worktree.rs:904-970, 1131-1200).
WorkKept ==
    \A d \in made \ (undone \cup robbed) : d \in main \/ OnDisk(d) \/ OnOffer(d)

\* A run that is at work in its checkout has it to itself: it is on disk,
\* marked with its process and leased there, whatever other processes sweep.
CheckoutIsItsOwn ==
    \A d \in Run \ robbed :
        pc[d] \in {"restoring", "working"} =>
            /\ tree[of[d]].there /\ tree[of[d]].owner = by[d]
            /\ of[d] \in leases[by[d]]
            /\ \A e \in RunsOf(of[d]) \ {d} :
                  pc[e] \notin {"marking", "restoring", "working"}

\* Once a follow-up has closed what it continued, a conversation offers one
\* patch of an agent, so that no edit is applied twice; unless the append
\* that closes one was lost, or a checkout was removed under its run
\* (lib.rs:1326-1339, 1804-1818).
OneHandoutPerAgent ==
    \A s \in Conversation : \A e, f \in Unapplied(s) \ unclosed :
        of[e] = of[f] /\ e < f /\ RunsOf(of[e]) \cap robbed = {} =>
            pc[f] \in {"closing", "lost"}
=============================================================================
