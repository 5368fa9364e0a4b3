------------------------- MODULE WriterWorkProofs --------------------------
(* Proofs about WriterWork, for any processes, conversations, agents, runs, *)
(* memory and faults: its types, that a run at work has its checkout to     *)
(* itself, that no work is dropped and that an agent has one handout.       *)
(*                                                                          *)
(* Checkouts: an agent's live runs are one at most (Roster), it holds the   *)
(* lease of its path (Possession), and the lock on the worktrees covers the *)
(* time in which its checkout has no owner (Locked), which is all a sweep   *)
(* goes by.                                                                 *)
(*                                                                          *)
(* Work: a patch has all its checkout has, and is recorded before that may  *)
(* be removed (Staged); what a follow-up continues is laid into its         *)
(* checkout first (Laid), so closing the old handout drops nothing.  Hence  *)
(* what was changed is in the user's tree, on offer or on disk (Safe).      *)
(*                                                                          *)
(* Handouts: runs of an agent come one after the other (Queued), one that   *)
(* preserved its work keeps the others out (Kept), and a run that follows   *)
(* an open handout continues it and does not get past its closing           *)
(* (Handouts).                                                              *)
EXTENDS WriterWork, TLAPS

-----------------------------------------------------------------------------
(* What a step of a run does, variable by variable.                        *)

Types == WellFormed /\ TypeOK

\* Where a run's control may go from a label.
Moves(l, m) ==
    \/ l = "adding" /\ m \in {"marking", "refused"}
    \/ l = "marking" /\ m \in {"restoring", "refused"}
    \/ l = "restoring" /\ m \in {"working", "refused"}
    \/ l = "working" /\ m \in {"recording", "reaping", "preserving", "panicked"}
    \/ l = "recording" /\ m \in {"closing", "reaping", "preserving", "panicked"}
    \/ l = "closing" /\ m \in {"tombstone", "reaping"}
    \/ l = "tombstone" /\ m = "reaping"
    \/ l \in {"reaping", "preserving"} /\ m = "settling"
    \/ l = "settling" /\ m = "ending"
    \/ l = "ending" /\ m = "over"

LEMMA ControlMoves ==
    ASSUME NEW d \in Run, RunStep(d)
    PROVE  \/ pc' = pc /\ (pc[d] = "working" \/ d \in cleanups)
           \/ \E m : pc' = [pc EXCEPT ![d] = m] /\ Moves(pc[d], m)
BY DEF RunStep, AddTree, MarkTree, Restore, Abandon, Edit, Extract, Record,
       Close, Tombstone, Reap, Preserve, Settle, End, Panic, Cleanup, Goto,
       Refuse, Moves, Extracted

LEMMA HistoryGrows ==
    ASSUME NEW d \in Run, RunStep(d)
    PROVE  /\ UNCHANGED <<process, identity, main>>
           /\ made \subseteq made' /\ undone \subseteq undone'
           /\ robbed \subseteq robbed' /\ preserved \subseteq preserved'
           /\ recorded \subseteq recorded' /\ applied \subseteq applied'
           /\ unclosed \subseteq unclosed' /\ keep \subseteq keep'
BY DEF RunStep, AddTree, MarkTree, Restore, Abandon, Edit, Extract, Record,
       Close, Tombstone, Reap, Preserve, Settle, End, Panic, Cleanup,
       Refuse, DropGuard, CloseInLog, process, memory, disk, identity, result,
       log, history

LEMMA RowsChange ==
    ASSUME NEW d \in Run, RunStep(d)
    PROVE  \/ rows' = rows
           \/ /\ rows' = [rows EXCEPT ![by[d]] = @ \cup {of[d]}]
              /\ \E m \in {"refused", "ending"} :
                    pc' = [pc EXCEPT ![d] = m] /\ Moves(pc[d], m)
BY DEF RunStep, AddTree, MarkTree, Restore, Abandon, Edit, Extract, Record,
       Close, Tombstone, Reap, Preserve, Settle, End, Panic, Cleanup, Goto,
       Refuse, memory, Moves

LEMMA LeasesChange ==
    ASSUME NEW d \in Run, RunStep(d)
    PROVE  \/ leases' = leases
           \/ leases' = [leases EXCEPT ![by[d]] = @ \ {of[d]}]
BY DEF RunStep, AddTree, MarkTree, Restore, Abandon, Edit, Extract, Record,
       Close, Tombstone, Reap, Preserve, Settle, End, Panic, Cleanup,
       Unlease, DropGuard, memory

\* The change a run makes on its own path.
TreeChanges(d) ==
    \/ tree' = tree
    \/ /\ tree' = [tree EXCEPT ![of[d]] = Checkout({}, None)]
       /\ pc[d] = "adding" /\ ~tree[of[d]].there
    \/ tree' = [tree EXCEPT ![of[d]].owner = by[d]] /\ pc[d] = "marking"
    \/ \E e \in Pending(by[d], of[d]) :
          /\ tree' = [tree EXCEPT ![of[d]].edits = patch[e]]
          /\ pc[d] = "restoring" /\ tree[of[d]].there
    \/ /\ tree' = [tree EXCEPT ![of[d]].edits = @ \cup {d}]
       /\ pc[d] = "working" /\ tree[of[d]].there
    \/ /\ tree' = [tree EXCEPT ![of[d]].edits = {}]
       /\ pc[d] = "working" /\ undone' = undone \cup tree[of[d]].edits
    \/ /\ tree' = [tree EXCEPT ![of[d]] = Absent]
       /\ \/ pc[d] \in {"marking", "reaping"}
          \/ d \in cleanups /\ robbed' = robbed \cup Hit(d)

LEMMA TreeChange ==
    ASSUME NEW d \in Run, RunStep(d)
    PROVE  TreeChanges(d)
BY DEF RunStep, AddTree, MarkTree, Restore, Abandon, Edit, Extract, Record,
       Close, Tombstone, Reap, Preserve, Settle, End, Panic, Cleanup, disk,
       TreeChanges

LEMMA ResultsChange ==
    ASSUME NEW d \in Run, RunStep(d)
    PROVE  /\ \/ old' = old
              \/ /\ pc[d] = "restoring"
                 /\ \E e \in Pending(by[d], of[d]) : old' = [old EXCEPT ![d] = e]
           /\ \/ patch' = patch
              \/ /\ pc[d] = "working" /\ Extract(d)
                 /\ patch' = [patch EXCEPT ![d] = tree[of[d]].edits]
           /\ \/ cache' = cache
              \/ /\ pc[d] = "working" /\ Extract(d)
                 /\ cache' = [cache EXCEPT ![by[d]] = Keeping(@, d)]
              \/ /\ pc[d] = "closing"
                 /\ cache' = [cache EXCEPT ![by[d]] = Forgetting(@, old[d])]
BY DEF RunStep, AddTree, MarkTree, Restore, Abandon, Edit, Extract, Record,
       Close, Tombstone, Reap, Preserve, Settle, End, Panic, Cleanup, result,
       memory

LEMMA GuardsChange ==
    ASSUME NEW d \in Run, RunStep(d)
    PROVE  /\ \/ cleanups' \subseteq cleanups
              \/ /\ cleanups' = cleanups \cup {d} /\ d \notin preserved
                 /\ robbed' = robbed \cup Hit(d)
                 /\ UNCHANGED preserved
                 /\ \E m \in {"refused", "panicked", "over"} :
                       pc' = [pc EXCEPT ![d] = m]
           /\ \/ /\ structure' = structure
                 /\ pc[d] = "marking" /\ structure = d => pc' = pc
              \/ /\ structure' = d /\ structure = None
                 /\ pc' = [pc EXCEPT ![d] = "marking"]
              \/ structure' = None /\ (pc[d] = "marking" \/ structure = d)
           /\ robbed' \subseteq robbed \cup Hit(d)
           /\ \/ preserved' = preserved
              \/ /\ pc[d] = "preserving" /\ preserved' = preserved \cup {d}
                 /\ pc' = [pc EXCEPT ![d] = "settling"]
BY DEF RunStep, AddTree, MarkTree, Restore, Abandon, Edit, Extract, Record,
       Close, Tombstone, Reap, Preserve, Settle, End, Panic, Cleanup, Goto,
       Refuse, DropGuard, memory, disk, result, history

LEMMA LogChange ==
    ASSUME NEW d \in Run, RunStep(d)
    PROVE  /\ \/ recorded' = recorded
              \/ /\ pc[d] = "recording"
                 /\ recorded' = recorded \cup {<<parent[d], d>>}
           /\ \/ applied' = applied
              \/ /\ pc[d] = "closing"
                 /\ applied' = applied \cup {<<parent[d], old[d]>>}
              \/ /\ pc[d] = "tombstone"
                 /\ applied' = applied \cup {<<parent[d], d>>}
           /\ \/ unclosed' = unclosed
              \/ pc[d] = "closing" /\ unclosed' = unclosed \cup {old[d]}
              \/ pc[d] = "tombstone" /\ unclosed' = unclosed \cup {d}
           /\ \/ made' = made
              \/ pc[d] = "working" /\ made' = made \cup {d}
           /\ \/ undone' = undone
              \/ undone' = undone \cup {d}
              \/ undone' = undone \cup tree[of[d]].edits
           /\ keep' = keep \/ keep' = keep \cup {of[d]}
           /\ faults' = faults \/ Fault
BY DEF RunStep, AddTree, MarkTree, Restore, Abandon, Edit, Extract, Record,
       Close, Tombstone, Reap, Preserve, Settle, End, Panic, Cleanup,
       CloseInLog, log, history, disk

-----------------------------------------------------------------------------
(* The patches in memory.                                                  *)

Distinct(s) == \A i, j \in DOMAIN s : s[i] = s[j] => i = j

LEMMA ForgettingFacts ==
    ASSUME NEW S, NEW s \in Seq(S), Distinct(s), NEW x
    PROVE  /\ Forgetting(s, x) \in Seq(S)
           /\ Members(Forgetting(s, x)) = Members(s) \ {x}
           /\ Distinct(Forgetting(s, x))
           /\ Len(Forgetting(s, x)) <= Len(s)
<1>1. CASE x \notin Members(s)
  <2>1. Forgetting(s, x) = s
    BY <1>1 DEF Forgetting
  <2>2. Len(s) \in Nat
    OBVIOUS
  <2>. QED BY <1>1, <2>1, <2>2
<1>2. CASE x \in Members(s)
  <2>1. PICK k \in 1 .. Len(s) : s[k] = x /\ k = CHOOSE i \in DOMAIN s : s[i] = x
    BY <1>2 DEF Members
  <2> DEFINE t == [i \in 1 .. Len(s) - 1 |-> IF i < k THEN s[i] ELSE s[i + 1]]
  <2>2. Forgetting(s, x) = t
    BY <1>2, <2>1 DEF Forgetting
  <2>3. Len(s) - 1 \in Nat /\ t \in Seq(S) /\ Len(t) = Len(s) - 1
        /\ DOMAIN t = 1 .. Len(s) - 1
    BY <2>1
  <2>4. Distinct(t)
    <3>1. ASSUME NEW i \in 1 .. Len(s) - 1, NEW j \in 1 .. Len(s) - 1,
                 t[i] = t[j]
          PROVE  i = j
      BY <2>1, <3>1 DEF Distinct
    <3>. QED BY <2>3, <3>1 DEF Distinct
  <2>5. Members(t) \subseteq Members(s) \ {x}
    <3>1. ASSUME NEW i \in 1 .. Len(s) - 1
          PROVE  t[i] \in Members(s) /\ t[i] # x
      BY <2>1 DEF Distinct, Members
    <3>. QED BY <2>3, <3>1 DEF Members
  <2>6. Members(s) \ {x} \subseteq Members(t)
    <3>1. ASSUME NEW i \in 1 .. Len(s), i # k
          PROVE  \E j \in 1 .. Len(s) - 1 : t[j] = s[i]
      <4>1. CASE i < k
        <5>1. i \in 1 .. Len(s) - 1 /\ t[i] = s[i]
          BY <2>1, <4>1
        <5>. QED BY <5>1
      <4>2. CASE i > k
        <5>1. i - 1 \in 1 .. Len(s) - 1 /\ t[i - 1] = s[i]
          BY <2>1, <4>2
        <5>. QED BY <5>1
      <4>. QED BY <3>1, <4>1, <4>2
    <3>2. ASSUME NEW y \in Members(s), y # x
          PROVE  y \in Members(t)
      <4>1. PICK i \in 1 .. Len(s) : s[i] = y
        BY DEF Members
      <4>2. i # k
        BY <2>1, <3>2, <4>1
      <4>3. PICK j \in 1 .. Len(s) - 1 : t[j] = y
        BY <3>1, <4>1, <4>2
      <4>. QED BY <2>3, <4>3 DEF Members
    <3>. QED BY <3>2
  <2>7. Len(t) <= Len(s)
    BY <2>1, <2>3
  <2> HIDE DEF t
  <2>. QED BY <2>2, <2>3, <2>4, <2>5, <2>6, <2>7
<1>. QED BY <1>1, <1>2

\* A patch comes in at the end; the oldest goes if there are too many.
LEMMA KeepingFacts ==
    ASSUME NEW S, NEW s \in Seq(S), Distinct(s), NEW x \in S,
           x \notin Members(s)
    PROVE  /\ Keeping(s, x) \in Seq(S)
           /\ Members(Keeping(s, x)) \subseteq Members(s) \cup {x}
           /\ Distinct(Keeping(s, x))
<1> DEFINE t == Append(s, x)
<1>1. /\ t \in Seq(S) /\ Len(t) = Len(s) + 1 /\ Len(s) \in Nat
      /\ DOMAIN t = 1 .. Len(s) + 1 /\ DOMAIN s = 1 .. Len(s)
      /\ \A i \in 1 .. Len(s) : t[i] = s[i]
      /\ t[Len(s) + 1] = x
  OBVIOUS
<1> HIDE DEF t
<1>2. Members(t) \subseteq Members(s) \cup {x}
  BY <1>1 DEF Members
<1>3. Distinct(t)
  <2>1. ASSUME NEW i \in 1 .. Len(s) + 1, NEW j \in 1 .. Len(s) + 1,
               t[i] = t[j]
        PROVE  i = j
    BY <1>1, <2>1 DEF Members, Distinct
  <2>. QED BY <1>1, <2>1 DEF Distinct
<1> DEFINE u == Tail(t)
<1>4. /\ u \in Seq(S) /\ DOMAIN u = 1 .. Len(s)
      /\ \A i \in 1 .. Len(s) : u[i] = t[i + 1]
  BY <1>1
<1> HIDE DEF u
<1>5. \A i \in 1 .. Len(s) : i + 1 \in 1 .. Len(s) + 1
  BY <1>1
<1>6. Members(u) \subseteq Members(t)
  BY <1>1, <1>4, <1>5 DEF Members
<1>7. Distinct(u)
  <2>1. ASSUME NEW i \in 1 .. Len(s), NEW j \in 1 .. Len(s), u[i] = u[j]
        PROVE  i = j
    <3>1. t[i + 1] = t[j + 1] /\ i + 1 \in DOMAIN t /\ j + 1 \in DOMAIN t
      BY <1>1, <1>4, <1>5, <2>1
    <3>2. i + 1 = j + 1
      BY <1>3, <3>1 DEF Distinct
    <3>. QED BY <3>2
  <2>. QED BY <1>4, <2>1 DEF Distinct
<1>8. Keeping(s, x) = t \/ Keeping(s, x) = u
  BY DEF Keeping, t, u
<1>. QED BY <1>1, <1>2, <1>3, <1>4, <1>6, <1>7, <1>8

LEMMA KeepingLength ==
    ASSUME WellFormed, NEW S, NEW s \in Seq(S), NEW x \in S,
           Len(s) <= Retained
    PROVE  Len(Keeping(s, x)) <= Retained
<1> DEFINE t == Append(s, x)
<1>1. /\ t \in Seq(S) /\ Len(t) = Len(s) + 1 /\ Len(s) \in Nat
      /\ Len(Tail(t)) = Len(s)
  OBVIOUS
<1> HIDE DEF t
<1>2. Retained \in Nat
  BY DEF WellFormed
<1>. QED BY <1>1, <1>2 DEF Keeping, t

-----------------------------------------------------------------------------
(* Types.                                                                  *)

Label == Live \cup Over \cup {"idle", "ending"}
Trees == [edits : SUBSET Run, owner : Process \cup {None}, there : BOOLEAN]

LEMMA MovesLabel == \A l, m : Moves(l, m) => l \in Label /\ m \in Label /\ l # m
BY DEF Moves, Label, Live, Over

\* The same, point by point.
Pointwise(d) ==
    /\ UNCHANGED <<proc, owner, merging, of, by, parent, main>>
    /\ pc \in [Run -> Label] /\ pc' \in [Run -> Label]
    /\ \A e \in Run \ {d} :
          pc'[e] = pc[e] /\ old'[e] = old[e] /\ patch'[e] = patch[e]
    /\ pc'[d] = pc[d] \/ Moves(pc[d], pc'[d])
    /\ \A a \in Agent : a # of[d] => tree'[a] = tree[a]
    /\ \A p \in Process :
          /\ leases'[p] \subseteq leases[p]
          /\ leases[p] \subseteq leases'[p] \cup {of[d]}
          /\ rows[p] \subseteq rows'[p]
          /\ rows'[p] \subseteq rows[p] \cup {of[d]}
          /\ p # by[d] => /\ leases'[p] = leases[p] /\ cache'[p] = cache[p]
                          /\ rows'[p] = rows[p]

LEMMA StepIsPointwise ==
    ASSUME Types, NEW d \in Run, RunStep(d)
    PROVE  Pointwise(d)
<1>1. UNCHANGED <<proc, owner, merging, of, by, parent, main>>
  BY HistoryGrows DEF process, identity
<1>2. /\ pc \in [Run -> Label] /\ pc' \in [Run -> Label]
      /\ \A e \in Run \ {d} : pc'[e] = pc[e]
      /\ pc'[d] = pc[d] \/ Moves(pc[d], pc'[d])
  <2>1. pc \in [Run -> Label]
    BY DEF Types, TypeOK, Label
  <2>. QED BY <2>1, ControlMoves, MovesLabel
<1>3. \A e \in Run \ {d} : old'[e] = old[e] /\ patch'[e] = patch[e]
  <2>1. DOMAIN old = Run /\ DOMAIN patch = Run
    BY DEF Types, TypeOK
  <2>. QED BY <2>1, ResultsChange
<1>4. \A a \in Agent : a # of[d] => tree'[a] = tree[a]
  BY TreeChange DEF Types, TypeOK, TreeChanges
<1>5. \A p \in Process :
          /\ leases'[p] \subseteq leases[p]
          /\ leases[p] \subseteq leases'[p] \cup {of[d]}
          /\ p # by[d] => leases'[p] = leases[p]
  <2>1. leases \in [Process -> SUBSET Agent]
    BY DEF Types, TypeOK
  <2>2. CASE leases' = [leases EXCEPT ![by[d]] = @ \ {of[d]}]
    BY <2>1, <2>2
  <2>. QED BY <2>2, LeasesChange
<1>6. \A p \in Process :
          /\ rows[p] \subseteq rows'[p]
          /\ rows'[p] \subseteq rows[p] \cup {of[d]}
          /\ p # by[d] => rows'[p] = rows[p]
  <2>1. rows \in [Process -> SUBSET Agent]
    BY DEF Types, TypeOK
  <2>2. CASE rows' = [rows EXCEPT ![by[d]] = @ \cup {of[d]}]
    BY <2>1, <2>2
  <2>. QED BY <2>2, RowsChange
<1>7. \A p \in Process : p # by[d] => cache'[p] = cache[p]
  <2>1. DOMAIN cache = Process
    BY DEF Types, TypeOK
  <2>. QED BY <2>1, ResultsChange
<1>. QED BY <1>1, <1>2, <1>3, <1>4, <1>5, <1>6, <1>7 DEF Pointwise

\* A run that was begun has an agent, a process and a conversation; what its
\* process is; and whose cleanups are left.
Lifetimes ==
    /\ \A p \in Process : proc[p] # "off" => owner[p] \in Conversation
    /\ \A p \in Process : proc[p] = "off" => rows[p] = {} /\ merging[p] = None
    /\ \A d \in Run :
          /\ pc[d] # "idle" => /\ of[d] \in Agent /\ by[d] \in Process
                               /\ parent[d] \in Conversation
          /\ pc[d] = "idle" => of[d] = None /\ by[d] = None
          /\ pc[d] \in Live \cup {"ending"} => proc[by[d]] = "up"
          /\ pc[d] = "lost" => proc[by[d]] = "dead"
    /\ \A d \in cleanups : /\ proc[by[d]] = "up" /\ d \notin preserved
                           /\ pc[d] \in {"refused", "panicked", "over"}

\* Memory has a patch once; a run that closes a handout continued one.
Distincts ==
    /\ \A p \in Process : Distinct(cache[p])
    /\ \A p \in Process : \A d \in Held(p) :
          pc[d] \notin {"idle", "adding", "marking", "restoring", "working"}
    /\ \A d \in Run : pc[d] = "closing" => old[d] # None

LEMMA PendingFacts ==
    ASSUME NEW p, NEW a, NEW e \in Pending(p, a)
    PROVE  /\ e \in RunsOf(a) /\ e \in Run
           /\ e \in Held(p) \/ e \in Unapplied(owner[p])
BY DEF Pending, Newest, RunsOf

LEMMA TreeTypes ==
    ASSUME Types, NEW d \in Run, RunStep(d), pc[d] # "idle" => by[d] \in Process
    PROVE  tree' \in [Agent -> Trees]
<1>1. /\ tree \in [Agent -> Trees] /\ patch \in [Run -> SUBSET Run]
      /\ tree[of[d]].there => tree[of[d]].there
  BY DEF Types, TypeOK, Trees
<1>2. ASSUME NEW t, tree' = [tree EXCEPT ![of[d]] = t],
             of[d] \in Agent => t \in Trees
      PROVE  tree' \in [Agent -> Trees]
  BY <1>1, <1>2
<1>3. /\ Absent \in Trees /\ Checkout({}, None) \in Trees
  BY DEF Absent, Checkout, Trees
<1>4. ASSUME NEW o \in Process \cup {None},
             tree' = [tree EXCEPT ![of[d]].owner = o]
      PROVE  tree' \in [Agent -> Trees]
  <2>1. of[d] \in Agent => [tree[of[d]] EXCEPT !.owner = o] \in Trees
    BY <1>1, <1>4 DEF Trees
  <2>2. tree' = [tree EXCEPT ![of[d]] = [tree[of[d]] EXCEPT !.owner = o]]
    BY <1>4
  <2>. QED BY <1>2, <2>1, <2>2
<1>5. ASSUME NEW x \in SUBSET Run, tree' = [tree EXCEPT ![of[d]].edits = x]
      PROVE  tree' \in [Agent -> Trees]
  <2>1. of[d] \in Agent => [tree[of[d]] EXCEPT !.edits = x] \in Trees
    BY <1>1, <1>5 DEF Trees
  <2>2. tree' = [tree EXCEPT ![of[d]] = [tree[of[d]] EXCEPT !.edits = x]]
    BY <1>5
  <2>. QED BY <1>2, <2>1, <2>2
<1>6. /\ d \in Run /\ tree[of[d]].edits \cup {d} = tree[of[d]].edits \cup {d}
      /\ of[d] \in Agent => tree[of[d]].edits \in SUBSET Run
  BY <1>1 DEF Trees
<1>7. CASE tree' = [tree EXCEPT ![of[d]].edits = @ \cup {d}]
  BY <1>1, <1>7 DEF Trees
<1>8. ASSUME NEW e \in Pending(by[d], of[d]),
             tree' = [tree EXCEPT ![of[d]].edits = patch[e]]
      PROVE  tree' \in [Agent -> Trees]
  BY <1>1, <1>5, <1>8, PendingFacts
<1>9. CASE tree' = [tree EXCEPT ![of[d]].owner = by[d]] /\ pc[d] = "marking"
  BY <1>4, <1>9
<1>10. CASE tree' = [tree EXCEPT ![of[d]].edits = {}]
  <2>1. {} \in SUBSET Run
    OBVIOUS
  <2>. QED BY <1>5, <1>10, <2>1
<1>. QED BY <1>1, <1>2, <1>3, <1>7, <1>8, <1>9, <1>10, TreeChange
         DEF TreeChanges

\* The types of what a step of a run changes.
LEMMA RunStepTypes ==
    ASSUME Types, Lifetimes, Distincts, NEW d \in Run, RunStep(d)
    PROVE  TypeOK'
<1>1. Pointwise(d) /\ pc[d] # "idle"
  BY StepIsPointwise, ControlMoves DEF Moves, Lifetimes
<1>2. of[d] \in Agent /\ by[d] \in Process /\ parent[d] \in Conversation
  BY <1>1 DEF Lifetimes
<1>3. tree' \in [Agent -> Trees]
  BY <1>2, TreeTypes
<1>4. rows' \in [Process -> SUBSET Agent] /\ leases' \in [Process -> SUBSET Agent]
  <2>1. rows \in [Process -> SUBSET Agent] /\ leases \in [Process -> SUBSET Agent]
    BY DEF Types, TypeOK
  <2>2. rows' \in [Process -> SUBSET Agent]
    <3>1. CASE rows' = [rows EXCEPT ![by[d]] = @ \cup {of[d]}]
      BY <1>2, <2>1, <3>1
    <3>. QED BY <2>1, <3>1, RowsChange
  <2>3. leases' \in [Process -> SUBSET Agent]
    <3>1. CASE leases' = [leases EXCEPT ![by[d]] = @ \ {of[d]}]
      BY <1>2, <2>1, <3>1
    <3>. QED BY <2>1, <3>1, LeasesChange
  <2>. QED BY <2>2, <2>3
<1>5. /\ cache' \in [Process -> Seq(Run)]
      /\ \A p \in Process : Len(cache'[p]) <= Retained
  <2>1. /\ cache \in [Process -> Seq(Run)] /\ WellFormed
        /\ \A p \in Process : Len(cache[p]) <= Retained
    BY DEF Types, TypeOK
  <2>2. CASE pc[d] = "working" /\ cache' = [cache EXCEPT ![by[d]] = Keeping(@, d)]
    <3>1. /\ cache[by[d]] \in Seq(Run) /\ Len(cache[by[d]]) <= Retained
      BY <1>2, <2>1
    <3>3. Distinct(cache[by[d]]) /\ d \notin Members(cache[by[d]])
      BY <1>2, <2>2 DEF Distincts, Held
    <3>2. /\ Keeping(cache[by[d]], d) \in Seq(Run)
          /\ Len(Keeping(cache[by[d]], d)) <= Retained
      BY <2>1, <3>1, <3>3, KeepingFacts, KeepingLength
    <3>. QED BY <2>1, <2>2, <3>2
  <2>3. CASE cache' = [cache EXCEPT ![by[d]] = Forgetting(@, old[d])]
    <3>1. /\ cache[by[d]] \in Seq(Run) /\ Len(cache[by[d]]) <= Retained
          /\ Distinct(cache[by[d]])
      BY <1>2, <2>1 DEF Distincts
    <3>2. /\ Forgetting(cache[by[d]], old[d]) \in Seq(Run)
          /\ Len(Forgetting(cache[by[d]], old[d])) <= Len(cache[by[d]])
      BY <3>1, ForgettingFacts
    <3>3. /\ Len(cache[by[d]]) \in Nat /\ Retained \in Nat
          /\ Len(Forgetting(cache[by[d]], old[d])) \in Nat
      BY <2>1, <3>1, <3>2 DEF WellFormed
    <3>4. Len(Forgetting(cache[by[d]], old[d])) <= Retained
      BY <3>1, <3>2, <3>3
    <3>. QED BY <2>1, <2>3, <3>2, <3>4
  <2>. QED BY <2>1, <2>2, <2>3, ResultsChange
<1>6. /\ old' \in [Run -> Run \cup {None}] /\ patch' \in [Run -> SUBSET Run]
  <2>1. /\ old \in [Run -> Run \cup {None}] /\ patch \in [Run -> SUBSET Run]
        /\ tree[of[d]].edits \in SUBSET Run
    BY <1>2 DEF Types, TypeOK
  <2>. QED BY <2>1, ResultsChange, PendingFacts
<1>7. /\ recorded' \subseteq Conversation \X Run
      /\ applied' \subseteq Conversation \X Run
      /\ unclosed' \subseteq Run
  <2>1. pc[d] = "closing" => old[d] \in Run
    BY DEF Distincts, Types, TypeOK
  <2>2. /\ recorded \subseteq Conversation \X Run
        /\ applied \subseteq Conversation \X Run
        /\ unclosed \subseteq Run
    BY DEF Types, TypeOK
  <2>3. recorded' \subseteq Conversation \X Run
    BY <1>2, <2>2, LogChange
  <2>4. applied' \subseteq Conversation \X Run
    BY <1>2, <2>1, <2>2, LogChange
  <2>5. unclosed' \subseteq Run
    BY <2>1, <2>2, LogChange
  <2>. QED BY <2>3, <2>4, <2>5
<1>8. /\ cleanups' \subseteq Run /\ keep' \subseteq Agent /\ made' \subseteq Run
      /\ undone' \subseteq Run /\ robbed' \subseteq Run /\ preserved' \subseteq Run
  <2>1. tree[of[d]].edits \in SUBSET Run /\ Hit(d) \subseteq Run
    BY <1>2 DEF Types, TypeOK, Hit, RunsOf
  <2>2. /\ cleanups \subseteq Run /\ keep \subseteq Agent /\ made \subseteq Run
        /\ undone \subseteq Run /\ robbed \subseteq Run /\ preserved \subseteq Run
    BY DEF Types, TypeOK
  <2>3. keep' \subseteq Agent /\ made' \subseteq Run /\ undone' \subseteq Run
    BY <1>2, <2>1, <2>2, LogChange
  <2>4. cleanups' \subseteq Run /\ robbed' \subseteq Run /\ preserved' \subseteq Run
    BY <2>1, <2>2, GuardsChange
  <2>. QED BY <2>3, <2>4
<1>9. faults' \in 0 .. MaxFaults
  BY LogChange DEF Types, TypeOK, WellFormed, Fault
<1>10. structure' # None => structure' \in Run /\ pc'[structure'] = "marking"
  <2>1. /\ pc \in [Run -> Label] /\ None \notin Run
        /\ structure # None => structure \in Run /\ pc[structure] = "marking"
    BY <1>1 DEF Types, TypeOK, Pointwise, WellFormed
  <2>2. CASE /\ structure' = structure
             /\ pc[d] = "marking" /\ structure = d => pc' = pc
    <3>1. CASE structure = d
      BY <2>1, <2>2, <3>1
    <3>2. CASE structure # d
      BY <1>1, <2>1, <2>2, <3>2 DEF Pointwise
    <3>. QED BY <3>1, <3>2
  <2>3. ASSUME pc' = [pc EXCEPT ![d] = "marking"]
        PROVE  pc'[d] = "marking"
    BY <2>1, <2>3
  <2>. QED BY <2>2, <2>3, GuardsChange
<1>. QED
  BY <1>1, <1>3, <1>4, <1>5, <1>6, <1>7, <1>8, <1>9, <1>10
  DEF Types, TypeOK, Pointwise, Label, Trees
\* The types of what a step of a process changes.
LEMMA BeginTypes ==
    ASSUME Types, NEW p \in Process, NEW a \in Agent, NEW d \in Run,
           Begin(p, a, d), owner[p] \in Conversation
    PROVE  TypeOK'
<1>1. /\ of' = [of EXCEPT ![d] = a] /\ by' = [by EXCEPT ![d] = p]
      /\ parent' = [parent EXCEPT ![d] = owner[p]]
      /\ \E l \in {"refused", "adding"} : pc' = [pc EXCEPT ![d] = l]
      /\ pc[d] = "idle"
      /\ leases' = leases \/ leases' = [leases EXCEPT ![p] = @ \cup {a}]
      /\ rows' = rows \/ rows' = [rows EXCEPT ![p] = @ \ {a}]
      /\ UNCHANGED <<process, cache, disk, result, log, cleanups, history,
                     faults>>
  BY DEF Begin, Goto
<1>2. /\ leases \in [Process -> SUBSET Agent] /\ rows \in [Process -> SUBSET Agent]
      /\ pc \in [Run -> Label]
      /\ structure # None => structure \in Run /\ pc[structure] = "marking"
      /\ of \in [Run -> PathAgent] /\ by \in [Run -> Process \cup {None}]
      /\ parent \in [Run -> Conversation \cup {None}]
  BY DEF Types, TypeOK, Label
<1>3. pc' \in [Run -> Label]
  BY <1>1, <1>2 DEF Label, Live, Over
<1>4. /\ of' \in [Run -> PathAgent] /\ by' \in [Run -> Process \cup {None}]
      /\ parent' \in [Run -> Conversation \cup {None}]
  BY <1>1, <1>2 DEF PathAgent
<1>5. leases' \in [Process -> SUBSET Agent]
  BY <1>1, <1>2
<1>6. rows' \in [Process -> SUBSET Agent]
  BY <1>1, <1>2
<1>7. structure' # None => structure' \in Run /\ pc'[structure'] = "marking"
  BY <1>1, <1>2 DEF disk
<1>. QED
  BY <1>1, <1>3, <1>4, <1>5, <1>6, <1>7
  DEF Types, TypeOK, Label, process, disk, result, log, history

LEMMA CrashTypes ==
    ASSUME Types, NEW p \in Process, Crash(p)
    PROVE  TypeOK'
<1>1. <<>> \in Seq(Run) /\ Len(<<>>) <= Retained
  BY DEF Types, WellFormed
<1>2. /\ proc' \in [Process -> {"off", "sweeping", "up", "dead"}]
      /\ rows' \in [Process -> SUBSET Agent]
      /\ leases' \in [Process -> SUBSET Agent]
      /\ merging' \in [Process -> Run \cup {None}]
  BY DEF Types, TypeOK, Crash
<1>3. cache' \in [Process -> Seq(Run)] /\ \A q \in Process : Len(cache'[q]) <= Retained
  BY <1>1 DEF Types, TypeOK, Crash
<1>4. pc' \in [Run -> Label]
  BY DEF Types, TypeOK, Crash, Label, Over
<1>5. structure' # None => structure' \in Run /\ pc'[structure'] = "marking"
  <2>1. ASSUME structure' # None
        PROVE  structure' = structure /\ structure \notin LiveOn(p)
    BY <2>1 DEF Crash
  <2>. QED BY <2>1 DEF Types, TypeOK, Crash, LiveOn, Live
<1>. QED
  BY <1>2, <1>3, <1>4, <1>5
  DEF Types, TypeOK, Crash, Label, identity, result, log, history

LEMMA ForgetTypes ==
    ASSUME Types, Distincts, NEW p \in Process, Forget(p),
           owner[p] \in Conversation
    PROVE  TypeOK'
<1>1. /\ cache' = [cache EXCEPT ![p] = Forgetting(@, merging[p])]
      /\ merging' = [merging EXCEPT ![p] = None]
      /\ merging[p] \in Run
      /\ applied' = applied \/ applied' = applied \cup {<<owner[p], merging[p]>>}
      /\ unclosed' = unclosed \/ unclosed' = unclosed \cup {merging[p]}
      /\ faults' = faults \/ Fault
      /\ UNCHANGED <<proc, owner, rows, leases, disk, pc, identity, result,
                     recorded, cleanups, history>>
  BY DEF Forget, CloseInLog, Types, TypeOK
<1>2. /\ cache \in [Process -> Seq(Run)] /\ WellFormed
      /\ Len(cache[p]) <= Retained /\ Distinct(cache[p])
      /\ \A q \in Process : Len(cache[q]) <= Retained
  BY DEF Types, TypeOK, Distincts
<1>3. /\ cache' \in [Process -> Seq(Run)]
      /\ \A q \in Process : Len(cache'[q]) <= Retained
  <2>1. /\ cache[p] \in Seq(Run)
        /\ Forgetting(cache[p], merging[p]) \in Seq(Run)
        /\ Len(Forgetting(cache[p], merging[p])) <= Len(cache[p])
    BY <1>2, ForgettingFacts
  <2>2. /\ Len(cache[p]) \in Nat /\ Retained \in Nat
        /\ Len(Forgetting(cache[p], merging[p])) \in Nat
    BY <1>2, <2>1 DEF WellFormed
  <2>3. Len(Forgetting(cache[p], merging[p])) <= Retained
    BY <1>2, <2>1, <2>2
  <2>. QED BY <1>1, <1>2, <2>1, <2>3
<1>4. faults' \in 0 .. MaxFaults
  BY <1>1 DEF Types, TypeOK, WellFormed, Fault
<1>5. merging' \in [Process -> Run \cup {None}] /\ unclosed' \subseteq Run
  BY <1>1 DEF Types, TypeOK
<1>6. applied' \subseteq Conversation \X Run
  BY <1>1 DEF Types, TypeOK
<1>. QED
  BY <1>1, <1>3, <1>4, <1>5, <1>6
  DEF Types, TypeOK, disk, identity, result, history

LEMMA ProcessStepTypes ==
    ASSUME Types, Lifetimes, Distincts, NEW p \in Process, ProcessStep(p)
    PROVE  TypeOK'
<1>1. CASE Start(p)
  BY <1>1
  DEF Types, TypeOK, Start, memory, disk, identity, result, log, history
<1>2. CASE Sweep(p)
  <2>1. tree' \in [Agent -> Trees]
    <3>1. tree \in [Agent -> Trees] /\ Absent \in Trees
      BY DEF Types, TypeOK, Trees, Absent
    <3>2. \/ tree' = tree
          \/ \E gone : tree' = [a \in Agent |-> IF a \in gone THEN Absent
                                               ELSE tree[a]]
      BY <1>2 DEF Sweep
    <3>. QED BY <3>1, <3>2
  <2>2. proc' \in [Process -> {"off", "sweeping", "up", "dead"}]
    BY <1>2 DEF Types, TypeOK, Sweep
  <2>. QED
    BY <1>2, <2>1, <2>2
    DEF Types, TypeOK, Sweep, Trees, memory, identity, result, log, history
<1>3. CASE Adopt(p)
  BY <1>3
  DEF Types, TypeOK, Adopt, disk, identity, result, log, history
<1>4. CASE Crash(p)
  BY <1>4, CrashTypes
<1>5. CASE Forget(p)
  <2>1. owner[p] \in Conversation
    BY <1>5 DEF Forget, Lifetimes
  <2>. QED BY <1>5, <2>1, ForgetTypes
<1>6. ASSUME NEW d \in Run, Merge(p, d)
      PROVE  TypeOK'
  BY <1>6 DEF Types, TypeOK, Merge, memory, disk, identity, result, log
<1>7. ASSUME NEW a \in Agent, NEW d \in Run, Begin(p, a, d)
      PROVE  TypeOK'
  <2>1. owner[p] \in Conversation
    BY <1>7 DEF Begin, Lifetimes
  <2>. QED BY <1>7, <2>1, BeginTypes
<1>. QED
  BY <1>1, <1>2, <1>3, <1>4, <1>5, <1>6, <1>7 DEF ProcessStep
-----------------------------------------------------------------------------
(* Who has an agent: of its runs one is live, all in one process and for    *)
(* one conversation.                                                       *)

\* An agent in the rows of a process may be followed up there.
Roster ==
    /\ \A d, e \in Run :
          d # e /\ of[d] = of[e] /\ of[d] \in Agent =>
              /\ by[d] = by[e] /\ parent[d] = parent[e]
              /\ ~(pc[d] \in Live /\ pc[e] \in Live)
    /\ \A p \in Process : \A a \in rows[p] :
          /\ \E d \in Run : of[d] = a
          /\ \A d \in Run : of[d] = a =>
                by[d] = p /\ parent[d] = owner[p] /\ pc[d] \notin Live
    /\ \A d \in Run : pc[d] \in Live => parent[d] = owner[by[d]]

LEMMA MovesLive ==
    \A l, m : Moves(l, m) =>
        /\ l \in Live \cup {"ending"} /\ m # "idle" /\ m # "lost"
        /\ m \in Live \cup {"ending"} \/ m \in {"refused", "over"}
        /\ m \in Live => l \in Live
        /\ l \in {"refused", "panicked", "over", "idle", "lost"} => FALSE
BY DEF Moves, Live

\* A run whose control stays where it is edits, or its guard cleans up.
LEMMA Stays ==
    ASSUME Types, NEW d \in Run, RunStep(d)
    PROVE  \/ pc' = pc /\ pc[d] = "working"
           \/ pc' = pc /\ d \in cleanups
           \/ Moves(pc[d], pc'[d])
  BY ControlMoves DEF Types, TypeOK

LEMMA Busy ==
    ASSUME Types, Lifetimes, NEW d \in Run, RunStep(d)
    PROVE  /\ pc[d] # "idle" /\ pc'[d] # "idle" /\ pc[d] # "lost" /\ pc'[d] # "lost"
           /\ of[d] \in Agent /\ by[d] \in Process /\ parent[d] \in Conversation
           /\ proc[by[d]] = "up"
<1>1. "working" \in Live
  BY DEF Live
<1>2. /\ pc[d] \in Live \cup {"ending"} \/ d \in cleanups
      /\ pc'[d] = pc[d] \/ Moves(pc[d], pc'[d])
  BY <1>1, Stays, MovesLive
<1>3. pc[d] # "idle" /\ proc[by[d]] = "up" /\ pc[d] # "lost"
  <2>1. CASE pc[d] \in Live \cup {"ending"}
    BY <2>1 DEF Lifetimes, Live
  <2>2. CASE d \in cleanups
    BY <2>2 DEF Lifetimes
  <2>. QED BY <1>2, <2>1, <2>2
<1>4. of[d] \in Agent /\ by[d] \in Process /\ parent[d] \in Conversation
  BY <1>3 DEF Lifetimes
<1>. QED BY <1>2, <1>3, <1>4, MovesLive

LEMMA RunStepLives ==
    ASSUME Types, Lifetimes, NEW d \in Run, RunStep(d)
    PROVE  Lifetimes'
<1>1. Pointwise(d)
  BY StepIsPointwise
<1>2. /\ pc[d] # "idle" /\ pc'[d] # "idle" /\ pc[d] # "lost" /\ pc'[d] # "lost"
      /\ proc[by[d]] = "up" /\ of[d] \in Agent /\ by[d] \in Process
  BY Busy
<1>4. \A p \in Process : proc[p] = "off" => rows'[p] = {} /\ merging[p] = None
  BY <1>1, <1>2 DEF Lifetimes, Pointwise
<1>5. ASSUME NEW e \in Run
      PROVE  /\ pc'[e] # "idle" => pc[e] # "idle"
             /\ pc'[e] = "idle" => pc[e] = "idle"
             /\ pc'[e] \in Live \cup {"ending"} => pc[e] \in Live \cup {"ending"}
             /\ pc'[e] = "lost" => pc[e] = "lost"
  BY <1>1, <1>2, MovesLive DEF Pointwise
<1>6. ASSUME NEW e \in cleanups'
      PROVE  /\ proc[by[e]] = "up" /\ e \notin preserved'
             /\ pc'[e] \in {"refused", "panicked", "over"}
  <2>1. pc \in [Run -> Label] /\ cleanups \subseteq Run
    BY <1>1 DEF Pointwise, Types, TypeOK
  <2>2. CASE e \in cleanups
    <3>1. /\ proc[by[e]] = "up" /\ e \notin preserved
          /\ pc[e] \in {"refused", "panicked", "over"}
      BY <2>2 DEF Lifetimes
    <3>2. pc'[e] = pc[e]
      BY <1>1, <2>1, <2>2, <3>1, MovesLive DEF Pointwise
    <3>3. e \notin preserved'
      BY <3>1, GuardsChange
    <3>. QED BY <3>1, <3>2, <3>3
  <2>3. CASE e \notin cleanups
    <3>1. /\ e = d /\ d \notin preserved /\ preserved' = preserved
          /\ \E m \in {"refused", "panicked", "over"} : pc' = [pc EXCEPT ![d] = m]
      BY <1>6, <2>3, GuardsChange
    <3>. QED BY <1>2, <2>1, <3>1
  <2>. QED BY <2>2, <2>3
<1>7. UNCHANGED <<proc, owner, merging, of, by, parent>>
  BY <1>1 DEF Pointwise
<1>. QED BY <1>4, <1>5, <1>6, <1>7 DEF Lifetimes

LEMMA RunStepRoster ==
    ASSUME Types, Lifetimes, Roster, NEW d \in Run, RunStep(d)
    PROVE  Roster'
<1>1. Pointwise(d)
  BY StepIsPointwise
<1>2. \A e \in Run : pc'[e] \in Live => pc[e] \in Live
  BY <1>1, MovesLive DEF Pointwise
<1>3. of[d] \in Agent /\ by[d] \in Process
  BY Busy
<1>4. ASSUME NEW p \in Process, NEW a \in rows'[p], a \notin rows[p]
      PROVE  /\ p = by[d] /\ a = of[d]
             /\ \A e \in Run : of[e] = a =>
                   by[e] = p /\ parent[e] = owner[p] /\ pc'[e] \notin Live
  <2>1. p = by[d] /\ a = of[d]
    BY <1>1, <1>4 DEF Pointwise
  <2>2. pc[d] \in Live /\ pc'[d] \notin Live
    <3>1. \E m \in {"refused", "ending"} :
             pc' = [pc EXCEPT ![d] = m] /\ Moves(pc[d], m)
      BY <1>4, RowsChange
    <3>2. pc'[d] \in {"refused", "ending"} /\ Moves(pc[d], pc'[d])
      BY <1>1, <3>1 DEF Pointwise
    <3>. QED BY <3>2 DEF Moves, Live
  <2>3. \A e \in Run \ {d} : of[e] = a => pc[e] \notin Live /\ by[e] = p
                                          /\ parent[e] = parent[d]
    BY <1>3, <2>1, <2>2 DEF Roster
  <2>4. parent[d] = owner[p]
    BY <2>1, <2>2 DEF Roster
  <2>5. \A e \in Run : of[e] = a =>
           by[e] = p /\ parent[e] = owner[p] /\ pc'[e] \notin Live
    BY <1>2, <2>1, <2>2, <2>3, <2>4
  <2>. QED BY <2>1, <2>5
<1>5. \A p \in Process : \A a \in rows'[p] :
          /\ \E e \in Run : of[e] = a
          /\ \A e \in Run : of[e] = a =>
                by[e] = p /\ parent[e] = owner[p] /\ pc'[e] \notin Live
  BY <1>2, <1>4 DEF Roster
<1>6. UNCHANGED <<owner, of, by, parent>>
  BY <1>1 DEF Pointwise
<1>. QED BY <1>2, <1>5, <1>6 DEF Roster

LEMMA RunStepDistinct ==
    ASSUME Types, Lifetimes, Distincts, NEW d \in Run, RunStep(d)
    PROVE  Distincts'
<1>1. Pointwise(d) /\ by[d] \in Process
  BY StepIsPointwise, Busy
<1>2. cache \in [Process -> Seq(Run)]
  BY DEF Types, TypeOK
<1>3. ASSUME NEW p \in Process
      PROVE  /\ Distinct(cache'[p])
             /\ Members(cache'[p]) \subseteq Members(cache[p])
                \/ (/\ Members(cache'[p]) \subseteq Members(cache[p]) \cup {d}
                    /\ Extract(d))
  <2>1. cache[p] \in Seq(Run) /\ Distinct(cache[p])
    BY <1>2 DEF Distincts
  <2>2. CASE cache'[p] = cache[p]
    BY <2>1, <2>2
  <2>3. CASE /\ pc[d] = "working" /\ Extract(d) /\ p = by[d]
             /\ cache'[p] = Keeping(cache[p], d)
    <3>1. d \notin Members(cache[p])
      BY <2>3 DEF Distincts, Held
    <3>. QED BY <2>1, <2>3, <3>1, KeepingFacts
  <2>4. CASE cache'[p] = Forgetting(cache[p], old[d])
    BY <2>1, <2>4, ForgettingFacts
  <2>5. \/ cache'[p] = cache[p]
        \/ /\ pc[d] = "working" /\ Extract(d) /\ p = by[d]
           /\ cache'[p] = Keeping(cache[p], d)
        \/ cache'[p] = Forgetting(cache[p], old[d])
    BY <1>2, ResultsChange
  <2>. QED BY <2>2, <2>3, <2>4, <2>5
<1>4. Extract(d) => pc'[d] \in {"recording", "reaping", "preserving"}
  BY <1>1 DEF Extract, Extracted, Goto, Pointwise
<1>5. ASSUME NEW e \in Run,
             pc[e] \notin {"idle", "adding", "marking", "restoring", "working"}
      PROVE  pc'[e] \notin {"idle", "adding", "marking", "restoring", "working"}
  BY <1>1, <1>5 DEF Pointwise, Moves
<1>6. ASSUME NEW p \in Process, NEW e \in Members(cache'[p])
      PROVE  pc'[e] \notin {"idle", "adding", "marking", "restoring", "working"}
  <2>1. Members(cache[p]) \subseteq Run
    BY <1>2 DEF Members
  <2>2. \/ e \in Held(p)
        \/ e = d /\ Extract(d)
    BY <1>3, <1>6 DEF Held
  <2>. QED BY <1>4, <1>5, <2>1, <2>2 DEF Distincts, Held
<1>7. ASSUME NEW e \in Run, pc'[e] = "closing"
      PROVE  old'[e] # None
  <2>1. CASE pc[e] = "closing"
    <3>1. old'[e] = old[e]
      BY <1>1, <2>1, ResultsChange DEF Pointwise
    <3>. QED BY <2>1, <3>1 DEF Distincts
  <2>2. CASE pc[e] # "closing"
    <3>1. e = d /\ pc[d] = "recording"
      BY <1>1, <1>7, <2>2 DEF Pointwise, Moves
    <3>2. Record(d) /\ old[d] # None
      BY <1>1, <1>7, <3>1
      DEF RunStep, AddTree, MarkTree, Restore, Abandon, Edit, Extract, Record,
       Close, Tombstone, Reap, Preserve, Settle, End, Panic, Cleanup, Goto,
       Refuse, Pointwise
    <3>. QED BY <3>1, <3>2 DEF Record, result
  <2>. QED BY <2>1, <2>2
<1>. QED BY <1>3, <1>6, <1>7 DEF Distincts, Held

-----------------------------------------------------------------------------
(* What a step of a process does.                                          *)

LEMMA ProcessStepLives ==
    ASSUME Types, Lifetimes, NEW p \in Process, ProcessStep(p)
    PROVE  Lifetimes'
<1>1. CASE Start(p)
  <2>1. /\ proc[p] = "off" /\ proc' = [proc EXCEPT ![p] = "sweeping"]
        /\ \E s \in Conversation : owner' = [owner EXCEPT ![p] = s]
        /\ UNCHANGED <<merging, rows, pc, of, by, parent, preserved, cleanups>>
    BY <1>1 DEF Start, memory, identity, result
  <2>2. proc \in [Process -> {"off", "sweeping", "up", "dead"}]
        /\ owner \in [Process -> Conversation \cup {None}]
        /\ cleanups \subseteq Run
    BY DEF Types, TypeOK
  <2>. QED BY <2>1, <2>2 DEF Lifetimes
<1>2. CASE Sweep(p)
  <2>1. /\ proc[p] = "sweeping" /\ proc' = [proc EXCEPT ![p] = "up"]
        /\ UNCHANGED <<owner, merging, rows, pc, of, by, parent, preserved,
                       cleanups>>
    BY <1>2 DEF Sweep, memory, identity, result
  <2>2. proc \in [Process -> {"off", "sweeping", "up", "dead"}]
        /\ cleanups \subseteq Run
    BY DEF Types, TypeOK
  <2>. QED BY <2>1, <2>2 DEF Lifetimes
<1>3. CASE Adopt(p)
  <2>1. /\ proc[p] = "up"
        /\ \E s \in Conversation : owner' = [owner EXCEPT ![p] = s]
        /\ rows' = [rows EXCEPT ![p] = {}]
        /\ UNCHANGED <<proc, merging, pc, of, by, parent, preserved, cleanups>>
    BY <1>3 DEF Adopt, identity, result
  <2>2. rows \in [Process -> SUBSET Agent]
        /\ owner \in [Process -> Conversation \cup {None}]
    BY DEF Types, TypeOK
  <2>. QED BY <2>1, <2>2 DEF Lifetimes
<1>4. CASE Crash(p)
  <2>1. /\ proc[p] \in {"sweeping", "up"} /\ proc' = [proc EXCEPT ![p] = "dead"]
        /\ rows' = [rows EXCEPT ![p] = {}]
        /\ merging' = [merging EXCEPT ![p] = None]
        /\ cleanups' = {d \in cleanups : by[d] # p}
        /\ pc' = [d \in Run |-> IF by[d] = p /\ pc[d] \notin Over THEN "lost"
                                ELSE pc[d]]
        /\ UNCHANGED <<owner, of, by, parent, preserved>>
    BY <1>4 DEF Crash, identity, result
  <2>2. /\ rows \in [Process -> SUBSET Agent] /\ None \notin Process
        /\ merging \in [Process -> Run \cup {None}] /\ cleanups \subseteq Run
        /\ proc \in [Process -> {"off", "sweeping", "up", "dead"}]
    BY DEF Types, TypeOK, WellFormed
  <2>3. /\ \A q \in Process : proc'[q] # "off" => owner'[q] \in Conversation
        /\ \A q \in Process : proc'[q] = "off" => rows'[q] = {} /\ merging'[q] = None
    BY <2>1, <2>2 DEF Lifetimes
  <2>4. ASSUME NEW d \in Run
        PROVE  /\ pc'[d] # "idle" => /\ of[d] \in Agent /\ by[d] \in Process
                                     /\ parent[d] \in Conversation
               /\ pc'[d] = "idle" => of[d] = None /\ by[d] = None
               /\ pc'[d] \in Live \cup {"ending"} => proc'[by[d]] = "up"
               /\ pc'[d] = "lost" => proc'[by[d]] = "dead"
    <3>1. CASE by[d] = p /\ pc[d] \notin Over
      BY <2>1, <2>2, <3>1 DEF Lifetimes, Live, Over
    <3>2. CASE by[d] = p /\ pc[d] \in Over
      BY <2>1, <2>2, <3>2 DEF Lifetimes, Live, Over
    <3>3. CASE by[d] # p
      BY <2>1, <2>2, <3>3 DEF Lifetimes
    <3>. QED BY <3>1, <3>2, <3>3
  <2>5. \A d \in cleanups' : /\ proc'[by[d]] = "up" /\ d \notin preserved
                             /\ pc'[d] \in {"refused", "panicked", "over"}
    BY <2>1, <2>2 DEF Lifetimes
  <2>. QED BY <2>1, <2>3, <2>4, <2>5 DEF Lifetimes
<1>5. CASE Forget(p)
  <2>1. /\ merging' = [merging EXCEPT ![p] = None] /\ proc[p] = "up"
        /\ UNCHANGED <<proc, owner, rows, pc, of, by, parent, preserved, cleanups>>
    BY <1>5 DEF Forget, identity, result
  <2>. QED BY <2>1 DEF Lifetimes, Types, TypeOK
<1>6. ASSUME NEW d \in Run, Merge(p, d)
      PROVE  Lifetimes'
  <2>1. /\ merging' = [merging EXCEPT ![p] = d] /\ proc[p] = "up"
        /\ UNCHANGED <<proc, owner, rows, pc, of, by, parent, preserved, cleanups>>
    BY <1>6 DEF Merge, memory, identity, result
  <2>. QED BY <2>1 DEF Lifetimes, Types, TypeOK
<1>7. ASSUME NEW a \in Agent, NEW d \in Run, Begin(p, a, d)
      PROVE  Lifetimes'
  <2>1. /\ proc[p] = "up" /\ pc[d] = "idle"
        /\ of' = [of EXCEPT ![d] = a] /\ by' = [by EXCEPT ![d] = p]
        /\ parent' = [parent EXCEPT ![d] = owner[p]]
        /\ \E l \in {"refused", "adding"} : pc' = [pc EXCEPT ![d] = l]
        /\ rows' = rows \/ rows' = [rows EXCEPT ![p] = @ \ {a}]
        /\ UNCHANGED <<proc, owner, merging, preserved, cleanups>>
    BY <1>7 DEF Begin, Goto, process, result
  <2>2. /\ of \in [Run -> PathAgent] /\ by \in [Run -> Process \cup {None}]
        /\ parent \in [Run -> Conversation \cup {None}] /\ pc \in [Run -> Label]
        /\ rows \in [Process -> SUBSET Agent] /\ cleanups \subseteq Run
    BY DEF Types, TypeOK, Label
  <2>3. owner[p] \in Conversation
    BY <2>1 DEF Lifetimes
  <2>4. \A q \in Process : proc[q] = "off" => rows'[q] = {} /\ merging[q] = None
    BY <2>1, <2>2 DEF Lifetimes
  <2>5. ASSUME NEW e \in Run
        PROVE  /\ pc'[e] # "idle" => /\ of'[e] \in Agent /\ by'[e] \in Process
                                     /\ parent'[e] \in Conversation
               /\ pc'[e] = "idle" => of'[e] = None /\ by'[e] = None
               /\ pc'[e] \in Live \cup {"ending"} => proc[by'[e]] = "up"
               /\ pc'[e] = "lost" => proc[by'[e]] = "dead"
    <3>1. CASE e = d
      BY <2>1, <2>2, <2>3, <3>1
    <3>2. CASE e # d
      BY <2>1, <2>2, <3>2 DEF Lifetimes
    <3>. QED BY <3>1, <3>2
  <2>6. \A e \in cleanups : /\ proc[by'[e]] = "up" /\ e \notin preserved
                            /\ pc'[e] \in {"refused", "panicked", "over"}
    BY <2>1, <2>2 DEF Lifetimes
  <2>. QED BY <2>1, <2>4, <2>5, <2>6 DEF Lifetimes
<1>. QED
  BY <1>1, <1>2, <1>3, <1>4, <1>5, <1>6, <1>7 DEF ProcessStep

LEMMA ProcessStepRoster ==
    ASSUME Types, Lifetimes, Roster, NEW p \in Process, ProcessStep(p)
    PROVE  Roster'
<1>1. CASE Start(p)
  <2>1. /\ proc[p] = "off" /\ UNCHANGED <<rows, pc, of, by, parent>>
        /\ \E s \in Conversation : owner' = [owner EXCEPT ![p] = s]
    BY <1>1 DEF Start, memory, identity
  <2>2. owner \in [Process -> Conversation \cup {None}]
    BY DEF Types, TypeOK
  <2>3. \A q \in Process \ {p} : owner'[q] = owner[q]
    BY <2>1, <2>2
  <2>4. rows[p] = {} /\ \A d \in Run : pc[d] \in Live => by[d] \in Process \ {p}
    BY <2>1 DEF Lifetimes, Live
  <2>. QED BY <2>1, <2>3, <2>4 DEF Roster
<1>2. CASE Sweep(p)
  BY <1>2 DEF Sweep, Roster, memory, identity
<1>3. CASE Adopt(p)
  <2>1. /\ LiveOn(p) = {} /\ rows' = [rows EXCEPT ![p] = {}]
        /\ UNCHANGED <<pc, of, by, parent>>
        /\ \E s \in Conversation : owner' = [owner EXCEPT ![p] = s]
    BY <1>3 DEF Adopt, identity
  <2>2. /\ owner \in [Process -> Conversation \cup {None}]
        /\ rows \in [Process -> SUBSET Agent]
    BY DEF Types, TypeOK
  <2>3. /\ \A q \in Process \ {p} : owner'[q] = owner[q] /\ rows'[q] = rows[q]
        /\ rows'[p] = {}
    BY <2>1, <2>2
  <2>4. \A d \in Run : pc[d] \in Live => by[d] \in Process \ {p}
    BY <2>1 DEF Lifetimes, LiveOn, Live
  <2>. QED BY <2>1, <2>3, <2>4 DEF Roster
<1>4. CASE Crash(p)
  <2>1. /\ rows' = [rows EXCEPT ![p] = {}]
        /\ pc' = [d \in Run |-> IF by[d] = p /\ pc[d] \notin Over THEN "lost"
                                ELSE pc[d]]
        /\ UNCHANGED <<owner, of, by, parent>>
    BY <1>4 DEF Crash, identity
  <2>2. rows \in [Process -> SUBSET Agent] /\ "lost" \notin Live
    BY DEF Types, TypeOK, Live
  <2>3. \A q \in Process : rows'[q] \subseteq rows[q]
    BY <2>1, <2>2
  <2>4. \A d \in Run : pc'[d] \in Live => pc[d] \in Live
    BY <2>1, <2>2
  <2>. QED BY <2>1, <2>3, <2>4 DEF Roster
<1>5. CASE Forget(p)
  BY <1>5 DEF Forget, Roster, identity
<1>6. ASSUME NEW d \in Run, Merge(p, d)
      PROVE  Roster'
  BY <1>6 DEF Merge, Roster, memory, identity
<1>7. ASSUME NEW a \in Agent, NEW d \in Run, Begin(p, a, d)
      PROVE  Roster'
  <2>1. /\ pc[d] = "idle" /\ (RunsOf(a) = {} \/ a \in rows[p])
        /\ of' = [of EXCEPT ![d] = a] /\ by' = [by EXCEPT ![d] = p]
        /\ parent' = [parent EXCEPT ![d] = owner[p]]
        /\ \/ pc' = [pc EXCEPT ![d] = "refused"] /\ rows' = rows
           \/ pc' = [pc EXCEPT ![d] = "adding"] /\ rows' = [rows EXCEPT ![p] = @ \ {a}]
        /\ UNCHANGED owner
    BY <1>7 DEF Begin, Goto, process
  <2>2. /\ of \in [Run -> PathAgent] /\ by \in [Run -> Process \cup {None}]
        /\ parent \in [Run -> Conversation \cup {None}] /\ pc \in [Run -> Label]
        /\ rows \in [Process -> SUBSET Agent] /\ None \notin Agent
    BY DEF Types, TypeOK, Label, WellFormed
  <2>3. of[d] = None
    BY <2>1 DEF Lifetimes
  <2>4. /\ of'[d] = a /\ by'[d] = p /\ parent'[d] = owner[p]
        /\ \A e \in Run \ {d} : /\ of'[e] = of[e] /\ by'[e] = by[e]
                                /\ parent'[e] = parent[e] /\ pc'[e] = pc[e]
    BY <2>1, <2>2
  <2>5. \A e \in Run \ {d} : of[e] = a =>
           by[e] = p /\ parent[e] = owner[p] /\ pc[e] \notin Live
    BY <2>1 DEF RunsOf, Roster
  <2>6. /\ \A q \in Process : rows'[q] \subseteq rows[q]
        /\ \A q \in Process : a \in rows'[q] => pc'[d] = "refused"
    <3>1. ASSUME NEW q \in Process, a \in rows[q]
          PROVE  q = p
      <4>1. PICK e \in Run : of[e] = a /\ by[e] = q
        BY <3>1 DEF Roster
      <4>. QED BY <2>2, <2>3, <2>5, <4>1
    <3>. QED BY <2>1, <2>2, <3>1
  <2>7. "refused" \notin Live
    BY DEF Live
  <2>8. ASSUME NEW e \in Run, NEW f \in Run, e # f, of'[e] = of'[f],
               of'[e] \in Agent
        PROVE  /\ by'[e] = by'[f] /\ parent'[e] = parent'[f]
               /\ ~(pc'[e] \in Live /\ pc'[f] \in Live)
    BY <2>4, <2>5, <2>8 DEF Roster
  <2>9. ASSUME NEW q \in Process, NEW b \in rows'[q]
        PROVE  /\ \E e \in Run : of'[e] = b
               /\ \A e \in Run : of'[e] = b =>
                     by'[e] = q /\ parent'[e] = owner[q] /\ pc'[e] \notin Live
    <3>1. b \in rows[q] /\ b \in Agent
      BY <2>2, <2>6
    <3>2. CASE b = a
      <4>1. q = p
        <5>1. PICK e \in Run : of[e] = a /\ by[e] = q
          BY <3>1, <3>2 DEF Roster
        <5>. QED BY <2>2, <2>3, <2>5, <5>1
      <4>. QED BY <2>4, <2>5, <2>6, <2>7, <3>2, <4>1
    <3>3. CASE b # a
      BY <2>2, <2>3, <2>4, <3>1, <3>3 DEF Roster
    <3>. QED BY <3>2, <3>3
  <2>10. \A e \in Run : pc'[e] \in Live => parent'[e] = owner[by'[e]]
    BY <2>4 DEF Roster
  <2>. QED BY <2>1, <2>8, <2>9, <2>10 DEF Roster
<1>. QED
  BY <1>1, <1>2, <1>3, <1>4, <1>5, <1>6, <1>7 DEF ProcessStep

LEMMA ProcessStepDistinct ==
    ASSUME Types, Lifetimes, Distincts, NEW p \in Process, ProcessStep(p)
    PROVE  Distincts'
<1>1. CASE Start(p)
  BY <1>1 DEF Start, Distincts, Held, memory, result
<1>2. CASE Sweep(p)
  BY <1>2 DEF Sweep, Distincts, Held, memory, result
<1>3. CASE Adopt(p)
  BY <1>3 DEF Adopt, Distincts, Held, result
<1>4. CASE Crash(p)
  <2>1. /\ cache' = [cache EXCEPT ![p] = <<>>]
        /\ pc' = [d \in Run |-> IF by[d] = p /\ pc[d] \notin Over THEN "lost"
                                ELSE pc[d]]
        /\ UNCHANGED old
    BY <1>4 DEF Crash, result
  <2>2. cache \in [Process -> Seq(Run)]
    BY DEF Types, TypeOK
  <2>3. \A q \in Process : cache'[q] = <<>> \/ cache'[q] = cache[q]
    BY <2>1, <2>2
  <2>4. Distinct(<<>>) /\ Members(<<>>) = {}
    BY DEF Distinct, Members
  <2>5. \A q \in Process : Distinct(cache'[q])
    BY <2>3, <2>4 DEF Distincts
  <2>6. \A q \in Process : \A d \in Members(cache'[q]) :
           pc'[d] \notin {"idle", "adding", "marking", "restoring", "working"}
    <3>1. \A q \in Process : Members(cache[q]) \subseteq Run
      BY <2>2 DEF Members
    <3>. QED BY <2>1, <2>3, <2>4, <3>1 DEF Distincts, Held
  <2>. QED BY <2>1, <2>5, <2>6 DEF Distincts, Held
<1>5. CASE Forget(p)
  <2>1. /\ cache' = [cache EXCEPT ![p] = Forgetting(@, merging[p])]
        /\ UNCHANGED <<pc, old>>
    BY <1>5 DEF Forget, result
  <2>2. cache \in [Process -> Seq(Run)]
    BY DEF Types, TypeOK
  <2>3. ASSUME NEW q \in Process
        PROVE  Distinct(cache'[q]) /\ Members(cache'[q]) \subseteq Members(cache[q])
    <3>1. CASE q = p
      <4>1. cache[p] \in Seq(Run) /\ Distinct(cache[p])
            /\ cache'[p] = Forgetting(cache[p], merging[p])
        BY <2>1, <2>2 DEF Distincts
      <4>. QED BY <3>1, <4>1, ForgettingFacts
    <3>2. CASE q # p
      BY <2>1, <2>2, <3>2 DEF Distincts
    <3>. QED BY <3>1, <3>2
  <2>. QED BY <2>1, <2>3 DEF Distincts, Held
<1>6. ASSUME NEW d \in Run, Merge(p, d)
      PROVE  Distincts'
  BY <1>6 DEF Merge, Distincts, Held, memory, result
<1>7. ASSUME NEW a \in Agent, NEW d \in Run, Begin(p, a, d)
      PROVE  Distincts'
  <2>1. /\ pc[d] = "idle" /\ UNCHANGED <<cache, old>>
        /\ \E l \in {"refused", "adding"} : pc' = [pc EXCEPT ![d] = l]
    BY <1>7 DEF Begin, Goto, result
  <2>2. pc \in [Run -> Label] /\ cache \in [Process -> Seq(Run)]
    BY DEF Types, TypeOK, Label
  <2>3. \A q \in Process : \A e \in Held(q) : e \in Run /\ e # d
    BY <2>1, <2>2 DEF Distincts, Held, Members
  <2>4. \A e \in Run \ {d} : pc'[e] = pc[e]
    BY <2>1, <2>2
  <2>5. pc'[d] # "closing"
    BY <2>1, <2>2
  <2>6. \A e \in Run : pc'[e] = "closing" => old[e] # None
    BY <2>4, <2>5 DEF Distincts
  <2>7. \A q \in Process : \A e \in Held(q) :
           pc'[e] \notin {"idle", "adding", "marking", "restoring", "working"}
    BY <2>3, <2>4 DEF Distincts
  <2>. QED BY <2>1, <2>6, <2>7 DEF Distincts, Held
<1>. QED
  BY <1>1, <1>2, <1>3, <1>4, <1>5, <1>6, <1>7 DEF ProcessStep

-----------------------------------------------------------------------------
(* The lock on the worktrees and the leases of the paths.                  *)

\* The lock is held by the run that marks its checkout, which is there; a
\* checkout is empty until its run has it, and when it is gone.
Locked ==
    /\ \A d \in Run : pc[d] = "marking" => structure = d /\ tree[of[d]].there
    /\ \A d \in Run : pc[d] \in {"marking", "restoring"} => tree[of[d]].edits = {}
    /\ \A a \in Agent : ~tree[a].there => tree[a].edits = {}

LEMMA LockChange ==
    ASSUME NEW d \in Run, RunStep(d)
    PROVE  \/ /\ structure = None /\ structure' = d /\ pc[d] = "adding"
              /\ pc' = [pc EXCEPT ![d] = "marking"]
              /\ tree' = [tree EXCEPT ![of[d]] = Checkout({}, None)]
           \/ /\ structure' = None /\ pc[d] = "marking"
              /\ pc' = [pc EXCEPT ![d] = "restoring"]
              /\ tree' = [tree EXCEPT ![of[d]].owner = by[d]]
           \/ /\ pc[d] \in {"adding", "marking"}
              /\ structure' \in {structure, None}
              /\ structure' = None => structure \in {d, None} \/ pc[d] = "marking"
              /\ pc[d] = "marking" => structure' = None \/ structure # d
              /\ pc' = [pc EXCEPT ![d] = "refused"]
              /\ tree' = tree \/ (pc[d] = "marking" /\ tree' = [tree EXCEPT ![of[d]] = Absent])
           \/ /\ structure' = structure
              /\ \/ pc' = pc /\ (pc[d] = "working" \/ d \in cleanups)
                 \/ /\ pc[d] \notin {"adding", "marking"}
                    /\ \E m : /\ m \notin {"marking", "restoring"}
                              /\ pc' = [pc EXCEPT ![d] = m]
              /\ \/ tree' = tree
                 \/ /\ pc[d] = "reaping" \/ d \in cleanups
                    /\ structure = None
                    /\ tree' = [tree EXCEPT ![of[d]] = Absent]
                 \/ /\ pc[d] \in {"restoring", "working"} /\ tree[of[d]].there
                    /\ pc[d] = "restoring" => pc' = [pc EXCEPT ![d] = "working"]
                    /\ \E x : tree' = [tree EXCEPT ![of[d]].edits = x]
<1>1. CASE AddTree(d) \/ MarkTree(d) \/ Restore(d)
  <2>1. CASE AddTree(d)
    BY <2>1 DEF AddTree, Refuse, Goto, disk
  <2>2. CASE MarkTree(d)
    BY <2>2 DEF MarkTree, Refuse, Goto, disk
  <2>3. CASE Restore(d)
    BY <2>3 DEF Restore, Refuse, Goto, disk
  <2>. QED BY <1>1, <2>1, <2>2, <2>3
<1>2. CASE Abandon(d) \/ Panic(d)
  BY <1>2 DEF Abandon, Panic, Goto, Refuse, disk
<1>3. CASE Edit(d) \/ Extract(d)
  BY <1>3 DEF Edit, Extract, Extracted, Goto, disk
<1>4. CASE Record(d) \/ Close(d) \/ Tombstone(d)
  BY <1>4 DEF Record, Close, Tombstone, Goto, disk
<1>5. CASE Reap(d) \/ Preserve(d) \/ Settle(d) \/ End(d) \/ Cleanup(d)
  BY <1>5 DEF Reap, Preserve, Settle, End, Cleanup, Goto, disk
<1>. QED BY <1>1, <1>2, <1>3, <1>4, <1>5 DEF RunStep

\* Of two runs of an agent one is live.
LEMMA Alone ==
    ASSUME Roster, NEW d \in Run, NEW e \in Run \ {d}, of[e] = of[d],
           of[d] \in Agent, pc[d] \in Live
    PROVE  pc[e] \notin Live
BY DEF Roster

LEMMA RunStepLock ==
    ASSUME Types, Lifetimes, Roster, Locked, NEW d \in Run, RunStep(d)
    PROVE  Locked'
<1>1. /\ pc \in [Run -> Label] /\ UNCHANGED of /\ of[d] \in Agent
      /\ tree \in [Agent -> Trees] /\ None \notin Run
      /\ structure # None => structure \in Run /\ pc[structure] = "marking"
      /\ \A e \in Run : pc[e] # "idle" => of[e] \in Agent
  BY StepIsPointwise, Busy
  DEF Pointwise, Types, TypeOK, Label, Trees, WellFormed, Lifetimes
<1>2. {"adding", "marking", "restoring", "working", "reaping"} \subseteq Live
  BY DEF Live
<1>3. \A e \in Run \ {d} : of[e] = of[d] /\ pc[d] \in Live => pc[e] \notin Live
  BY <1>1, Alone
<1>4. d \in cleanups => pc[d] \notin {"marking", "restoring", "working"}
  BY DEF Lifetimes
<1>5. CASE /\ structure = None /\ structure' = d /\ pc[d] = "adding"
           /\ pc' = [pc EXCEPT ![d] = "marking"]
           /\ tree' = [tree EXCEPT ![of[d]] = Checkout({}, None)]
  <2>1. /\ tree'[of[d]].there /\ tree'[of[d]].edits = {}
        /\ \A a \in Agent \ {of[d]} : tree'[a] = tree[a]
        /\ pc'[d] = "marking" /\ \A e \in Run \ {d} : pc'[e] = pc[e]
    BY <1>1, <1>5 DEF Checkout
  <2>2. \A e \in Run : pc[e] # "marking"
    BY <1>1, <1>5 DEF Locked
  <2>3. \A e \in Run : pc[e] \in {"marking", "restoring"} => tree[of[e]].edits = {}
    BY DEF Locked
  <2>. QED BY <1>1, <1>2, <1>5, <2>1, <2>2, <2>3 DEF Locked
<1>6. CASE /\ structure' = None /\ pc[d] = "marking"
           /\ pc' = [pc EXCEPT ![d] = "restoring"]
           /\ tree' = [tree EXCEPT ![of[d]].owner = by[d]]
  <2>1. /\ \A a \in Agent : tree'[a].edits = tree[a].edits /\ tree'[a].there = tree[a].there
        /\ pc'[d] = "restoring" /\ \A e \in Run \ {d} : pc'[e] = pc[e]
    BY <1>1, <1>6 DEF Trees
  <2>2. \A e \in Run \ {d} : pc[e] # "marking"
    BY <1>6 DEF Locked
  <2>3. \A e \in Run : pc'[e] \in {"marking", "restoring"} => tree[of[e]].edits = {}
    BY <1>6, <2>1 DEF Locked
  <2>4. \A e \in Run : pc'[e] # "marking"
    BY <2>1, <2>2
  <2>5. \A e \in Run : pc'[e] # "idle" => of[e] \in Agent
    BY <1>1, <1>6, <2>1
  <2>. QED BY <1>1, <2>1, <2>3, <2>4, <2>5 DEF Locked
<1>7. CASE /\ pc[d] \in {"adding", "marking"}
           /\ structure' \in {structure, None}
           /\ structure' = None => structure \in {d, None} \/ pc[d] = "marking"
           /\ pc[d] = "marking" => structure' = None \/ structure # d
           /\ pc' = [pc EXCEPT ![d] = "refused"]
           /\ tree' = tree \/ (pc[d] = "marking" /\ tree' = [tree EXCEPT ![of[d]] = Absent])
  <2>1. /\ pc'[d] = "refused" /\ \A e \in Run \ {d} : pc'[e] = pc[e]
    BY <1>1, <1>7
  <2>2. ASSUME NEW e \in Run, pc'[e] = "marking"
        PROVE  structure' = e
    <3>1. e # d /\ pc[e] = "marking" /\ structure = e
      BY <2>1, <2>2 DEF Locked
    <3>2. pc[d] # "marking"
      BY <3>1 DEF Locked
    <3>. QED BY <1>1, <1>7, <3>1, <3>2
  <2>3. ASSUME NEW a \in Agent
        PROVE  \/ tree'[a] = tree[a]
               \/ tree'[a] = Absent /\ a = of[d]
    BY <1>1, <1>7
  <2>4. \A e \in Run : pc'[e] \in {"marking", "restoring"} =>
           e # d /\ of[e] \in Agent /\ of[e] # of[d]
    BY <1>1, <1>2, <1>3, <1>7, <2>1
  <2>. QED BY <1>1, <2>1, <2>2, <2>3, <2>4 DEF Locked, Absent
<1>8. CASE /\ structure' = structure
           /\ \/ pc' = pc /\ (pc[d] = "working" \/ d \in cleanups)
              \/ /\ pc[d] \notin {"adding", "marking"}
                 /\ \E m : /\ m \notin {"marking", "restoring"}
                           /\ pc' = [pc EXCEPT ![d] = m]
           /\ \/ tree' = tree
              \/ /\ pc[d] = "reaping" \/ d \in cleanups
                 /\ structure = None
                 /\ tree' = [tree EXCEPT ![of[d]] = Absent]
              \/ /\ pc[d] \in {"restoring", "working"} /\ tree[of[d]].there
                 /\ pc[d] = "restoring" => pc' = [pc EXCEPT ![d] = "working"]
                 /\ \E x : tree' = [tree EXCEPT ![of[d]].edits = x]
  <2>1. /\ pc'[d] \notin {"marking", "restoring"}
        /\ \A e \in Run \ {d} : pc'[e] = pc[e]
    BY <1>1, <1>4, <1>8
  <2>2. \A e \in Run : pc'[e] \in {"marking", "restoring"} =>
           e # d /\ pc[e] = pc'[e]
    BY <2>1
  <2>3. CASE tree' = tree
    BY <1>1, <1>8, <2>2, <2>3 DEF Locked
  <2>4. CASE /\ structure = None /\ tree' = [tree EXCEPT ![of[d]] = Absent]
    <3>1. \A e \in Run : pc[e] # "marking"
      BY <1>1, <2>4 DEF Locked
    <3>2. \A a \in Agent : tree'[a] = tree[a] \/ tree'[a] = Absent
      BY <1>1, <2>4
    <3>3. \A e \in Run : pc'[e] = "restoring" => of[e] \in Agent /\ tree[of[e]].edits = {}
      BY <1>1, <2>2 DEF Locked
    <3>. QED BY <1>1, <2>2, <3>1, <3>2, <3>3 DEF Locked, Absent
  <2>5. CASE /\ pc[d] \in {"restoring", "working"} /\ tree[of[d]].there
             /\ \E x : tree' = [tree EXCEPT ![of[d]].edits = x]
    <3>1. /\ \A a \in Agent : tree'[a].there = tree[a].there
          /\ \A a \in Agent \ {of[d]} : tree'[a] = tree[a]
      BY <1>1, <2>5 DEF Trees
    <3>2. \A e \in Run : pc'[e] \in {"marking", "restoring"} =>
             of[e] \in Agent \ {of[d]}
      BY <1>1, <1>2, <1>3, <2>2, <2>5
    <3>. QED BY <1>1, <1>8, <2>2, <2>5, <3>1, <3>2 DEF Locked
  <2>. QED BY <1>8, <2>3, <2>4, <2>5
<1>. QED BY <1>5, <1>6, <1>7, <1>8, LockChange

\* A run at work in its checkout has the lease of its path; from its marking
\* to its end the checkout is there and marked with its process.
Possession ==
    \A d \in Run \ robbed :
        /\ pc[d] \in Live \ {"panicked", "settling"} => of[d] \in leases[by[d]]
        /\ pc[d] \in {"restoring", "working"} =>
              tree[of[d]].there /\ tree[of[d]].owner = by[d]

\* A lease is given up by a run that is refused, reaped or over; a guard that
\* gives one up robs the runs it hits.
LEMMA LeasesGo ==
    ASSUME NEW d \in Run, RunStep(d)
    PROVE  \/ leases' = leases
           \/ /\ leases' = [leases EXCEPT ![by[d]] = @ \ {of[d]}]
              /\ \/ /\ pc[d] \in {"adding", "marking", "reaping"}
                    /\ \E m \in {"refused", "settling"} : pc' = [pc EXCEPT ![d] = m]
                 \/ /\ Hit(d) \subseteq robbed' /\ d \notin preserved
                    /\ \E m \in {"refused", "panicked", "over"} : pc' = [pc EXCEPT ![d] = m]
BY DEF RunStep, AddTree, MarkTree, Restore, Abandon, Edit, Extract, Record,
       Close, Tombstone, Reap, Preserve, Settle, End, Panic, Cleanup, Goto,
       Refuse, DropGuard, Unlease, memory

\* What else is at work at a path is hit by the path's guards.
LEMMA Hits ==
    ASSUME Types, Roster, NEW d \in Run, NEW e \in Run \ {d},
           of[e] = of[d], of[d] \in Agent, AtWork(e) \/ e \in preserved
    PROVE  e \in Hit(d)
BY DEF Roster, Hit, RunsOf

LEMMA RunStepPossession ==
    ASSUME Types, Lifetimes, Roster, Locked, Possession, NEW d \in Run,
           RunStep(d)
    PROVE  Possession'
<1>1. /\ Pointwise(d) /\ pc \in [Run -> Label] /\ UNCHANGED <<of, by>>
      /\ of[d] \in Agent /\ by[d] \in Process
      /\ leases \in [Process -> SUBSET Agent] /\ tree \in [Agent -> Trees]
      /\ robbed \subseteq robbed'
  BY StepIsPointwise, Busy, HistoryGrows
  DEF Pointwise, Types, TypeOK, Label, Trees
<1>2. ASSUME NEW e \in Run \ robbed', pc'[e] \in Live \ {"panicked", "settling"}
      PROVE  of[e] \in leases'[by[e]]
  <2>1. e \notin robbed
    BY <1>1, <1>2
  <2>2. CASE e = d
    <3>1. pc[d] \in Live \ {"panicked", "settling"}
      BY <1>1, <1>2, <2>2 DEF Pointwise, Moves, Live
    <3>2. ~\E m \in {"refused", "settling", "panicked", "over"} : pc' = [pc EXCEPT ![d] = m]
      BY <1>1, <1>2, <2>2 DEF Live
    <3>3. leases' = leases
      BY <3>2, LeasesGo
    <3>. QED BY <2>1, <2>2, <3>1, <3>3 DEF Possession
  <2>3. CASE e # d
    <3>1. /\ pc[e] \in Live \ {"panicked", "settling"} /\ of[e] \in leases[by[e]]
          /\ of[e] \in Agent /\ by[e] \in Process
      BY <1>1, <1>2, <2>1, <2>3 DEF Pointwise, Possession, Lifetimes, Live
    <3>2. CASE of[e] # of[d]
      BY <1>1, <3>1, <3>2 DEF Pointwise
    <3>3. CASE of[e] = of[d]
      <4>1. AtWork(e)
        BY <3>1 DEF AtWork
      <4>2. e \in Hit(d)
        BY <1>1, <2>3, <3>3, <4>1, Hits
      <4>3. pc[d] \notin {"adding", "marking", "reaping"}
        BY <1>1, <2>3, <3>1, <3>3, Alone DEF Live
      <4>4. leases' = leases
        BY <1>2, <4>2, <4>3, LeasesGo
      <4>. QED BY <3>1, <4>4
    <3>. QED BY <3>2, <3>3
  <2>. QED BY <2>2, <2>3
<1>3. ASSUME NEW e \in Run \ robbed', pc'[e] \in {"restoring", "working"}
      PROVE  tree'[of[e]].there /\ tree'[of[e]].owner = by[e]
  <2>1. e \notin robbed
    BY <1>1, <1>3
  <2>2. CASE e = d
    <3>1. CASE pc[d] = "marking"
      <4>1. tree[of[d]].there /\ pc' # pc /\ d \notin cleanups
        BY <1>3, <2>2, <3>1 DEF Locked, Lifetimes
      <4>2. tree' = [tree EXCEPT ![of[d]].owner = by[d]]
        BY <1>1, <1>3, <2>2, <3>1, <4>1, LockChange
      <4>. QED BY <1>1, <2>2, <4>1, <4>2 DEF Trees
    <3>2. CASE pc[d] # "marking"
      <4>1. pc[d] \in {"restoring", "working"}
        BY <1>1, <1>3, <2>2, <3>2 DEF Pointwise, Moves
      <4>2. tree[of[d]].there /\ tree[of[d]].owner = by[d]
        BY <2>1, <2>2, <4>1 DEF Possession
      <4>3. d \notin cleanups
        BY <4>1 DEF Lifetimes
      <4>4. tree' = tree \/ \E x : tree' = [tree EXCEPT ![of[d]].edits = x]
        BY <4>1, <4>3, LockChange
      <4>. QED BY <1>1, <2>2, <4>2, <4>4 DEF Trees
    <3>. QED BY <3>1, <3>2
  <2>3. CASE e # d
    <3>1. /\ pc[e] \in {"restoring", "working"}
          /\ tree[of[e]].there /\ tree[of[e]].owner = by[e]
          /\ of[e] \in Agent /\ pc[e] \in Live
      BY <1>1, <1>3, <2>1, <2>3 DEF Pointwise, Possession, Lifetimes, Live
    <3>2. CASE of[e] # of[d]
      BY <1>1, <3>1, <3>2 DEF Pointwise
    <3>3. CASE of[e] = of[d]
      <4>1. AtWork(e) /\ pc[d] \notin Live
        BY <1>1, <2>3, <3>1, <3>3, Alone DEF AtWork, Live
      <4>2. e \in Hit(d)
        BY <1>1, <2>3, <3>3, <4>1, Hits
      <4>3. tree' = tree
        BY <1>3, <4>1, <4>2, TreeChange DEF TreeChanges, Live
      <4>. QED BY <3>1, <4>3
    <3>. QED BY <3>2, <3>3
  <2>. QED BY <2>2, <2>3
<1>. QED BY <1>1, <1>2, <1>3 DEF Possession

LEMMA ProcessStepHeld ==
    ASSUME Types, Lifetimes, Roster, Locked, Possession, NEW p \in Process,
           ProcessStep(p)
    PROVE  Locked' /\ Possession'
<1>1. CASE Start(p) \/ Adopt(p) \/ Forget(p) \/ \E d \in Run : Merge(p, d)
  <2>1. UNCHANGED <<pc, structure, tree, of, by, leases, robbed>>
    BY <1>1 DEF Start, Adopt, Forget, Merge, memory, disk, identity, history
  <2>. QED BY <2>1 DEF Locked, Possession
<1>2. CASE Sweep(p)
  <2>1. /\ UNCHANGED <<pc, structure, of, by, leases, robbed>>
        /\ \/ tree' = tree
           \/ /\ structure = None
              /\ \E gone \in SUBSET Sweepable(p) :
                    tree' = [a \in Agent |-> IF a \in gone THEN Absent ELSE tree[a]]
    BY <1>2 DEF Sweep, memory, identity, history
  <2>2. CASE tree' = tree
    BY <2>1, <2>2 DEF Locked, Possession
  <2>3. ASSUME structure = None, NEW gone \in SUBSET Sweepable(p),
               tree' = [a \in Agent |-> IF a \in gone THEN Absent ELSE tree[a]]
        PROVE  Locked' /\ Possession'
    <3>1. \A e \in Run : pc[e] # "marking"
      BY <2>3 DEF Locked, Types, WellFormed
    <3>2. \A e \in Run : pc[e] \in {"restoring", "working"} => of[e] \in Agent
      BY DEF Lifetimes
    <3>3. ASSUME NEW e \in Run \ robbed, pc[e] \in {"restoring", "working"}
          PROVE  of[e] \notin gone
      <4>1. tree[of[e]].owner = by[e]
        BY <3>3 DEF Possession
      <4>2. pc[e] \in Live /\ pc[e] # "idle"
        BY <3>3 DEF Live
      <4>3. proc[by[e]] = "up" /\ by[e] \in Process
        BY <4>2 DEF Lifetimes
      <4>4. by[e] # None
        BY <4>3 DEF Types, WellFormed
      <4>. QED BY <2>3, <4>1, <4>3, <4>4 DEF Sweepable
    <3>4. \A b \in Agent : tree'[b] = tree[b] \/ tree'[b] = Absent
      BY <2>3
    <3>5. \A e \in Run \ robbed : pc[e] \in {"restoring", "working"} =>
             tree'[of[e]] = tree[of[e]]
      BY <2>3, <3>2, <3>3
    <3>6. Locked'
      BY <2>1, <3>1, <3>2, <3>4 DEF Locked, Absent
    <3>7. Possession'
      BY <2>1, <3>5 DEF Possession
    <3>. QED BY <3>6, <3>7
  <2>. QED BY <2>1, <2>2, <2>3
<1>3. CASE Crash(p)
  <2>1. /\ leases' = [leases EXCEPT ![p] = {}]
        /\ structure' = IF structure \in LiveOn(p) THEN None ELSE structure
        /\ pc' = [d \in Run |-> IF by[d] = p /\ pc[d] \notin Over THEN "lost"
                                ELSE pc[d]]
        /\ UNCHANGED <<tree, of, by, robbed>>
    BY <1>3 DEF Crash, identity, history
  <2>2. /\ leases \in [Process -> SUBSET Agent] /\ {"marking", "restoring"} \subseteq Live
        /\ Over \cap Live = {} /\ "lost" \notin Live
    BY DEF Types, TypeOK, Live, Over
  <2>3. ASSUME NEW e \in Run, pc'[e] \in Live
        PROVE  pc[e] = pc'[e] /\ by[e] # p /\ leases'[by[e]] = leases[by[e]]
    BY <2>1, <2>2, <2>3 DEF Lifetimes
  <2>4. Locked'
    <3>1. ASSUME NEW e \in Run, pc'[e] = "marking"
          PROVE  structure' = e
      BY <2>1, <2>2, <2>3, <3>1 DEF Locked, LiveOn
    <3>. QED BY <2>1, <2>2, <2>3, <3>1 DEF Locked
  <2>5. Possession'
    BY <2>1, <2>2, <2>3 DEF Possession, Live
  <2>. QED BY <2>4, <2>5
<1>4. ASSUME NEW a \in Agent, NEW d \in Run, Begin(p, a, d)
      PROVE  Locked' /\ Possession'
  <2>1. /\ pc[d] = "idle"
        /\ of' = [of EXCEPT ![d] = a] /\ by' = [by EXCEPT ![d] = p]
        /\ \/ pc' = [pc EXCEPT ![d] = "refused"] /\ leases' = leases
           \/ /\ pc' = [pc EXCEPT ![d] = "adding"]
              /\ leases' = [leases EXCEPT ![p] = @ \cup {a}]
        /\ UNCHANGED <<structure, tree, robbed>>
    BY <1>4 DEF Begin, Goto, disk, history
  <2>2. /\ of \in [Run -> PathAgent] /\ by \in [Run -> Process \cup {None}]
        /\ pc \in [Run -> Label] /\ leases \in [Process -> SUBSET Agent]
    BY DEF Types, TypeOK, Label
  <2>3. /\ of'[d] = a /\ by'[d] = p /\ pc'[d] \in {"refused", "adding"}
        /\ pc'[d] = "adding" => a \in leases'[p]
        /\ \A e \in Run \ {d} : of'[e] = of[e] /\ by'[e] = by[e] /\ pc'[e] = pc[e]
        /\ \A q \in Process : leases[q] \subseteq leases'[q]
    BY <2>1, <2>2
  <2>4. \A e \in Run : pc[e] \in Live => by[e] \in Process
    BY DEF Lifetimes, Live
  <2>5. Locked'
    BY <2>1, <2>3 DEF Locked
  <2>6. Possession'
    BY <2>1, <2>3, <2>4 DEF Possession, Live
  <2>. QED BY <2>5, <2>6
<1>. QED BY <1>1, <1>2, <1>3, <1>4 DEF ProcessStep

-----------------------------------------------------------------------------
(* What holds of the checkouts.                                            *)

CheckoutInv ==
    TypeOK /\ Lifetimes /\ Distincts /\ Roster /\ Locked /\ Possession

LEMMA CheckoutStart ==
    ASSUME WellFormed, Init
    PROVE  CheckoutInv
<1>1. TypeOK
  <2>1. <<>> \in Seq(Run) /\ Len(<<>>) = 0 /\ Absent \in Trees /\ 0 <= Retained
        /\ 0 \in 0 .. MaxFaults
    BY DEF WellFormed, Absent, Trees
  <2>. QED BY <2>1 DEF Init, TypeOK, Trees, PathAgent
<1>2. Lifetimes /\ Roster /\ Locked /\ Possession
  BY DEF Init, Lifetimes, Roster, Locked, Possession, Live, Absent, WellFormed
<1>3. Distincts
  <2>1. Distinct(<<>>) /\ Members(<<>>) = {}
    BY DEF Distinct, Members
  <2>. QED BY <2>1 DEF Init, Distincts, Held
<1>. QED BY <1>1, <1>2, <1>3 DEF CheckoutInv

LEMMA CheckoutStep ==
    ASSUME WellFormed, CheckoutInv, [Next]_vars
    PROVE  CheckoutInv'
<1> USE DEF CheckoutInv, Types
<1>1. ASSUME NEW d \in Run, RunStep(d)
      PROVE  CheckoutInv'
  BY <1>1, RunStepTypes, RunStepLives, RunStepDistinct, RunStepRoster,
     RunStepLock, RunStepPossession
<1>2. ASSUME NEW p \in Process, ProcessStep(p)
      PROVE  CheckoutInv'
  BY <1>2, ProcessStepTypes, ProcessStepLives, ProcessStepDistinct,
     ProcessStepRoster, ProcessStepHeld
<1>3. CASE UNCHANGED vars
  BY <1>3
  DEF vars, process, memory, disk, identity, result, log, history, TypeOK,
      Lifetimes, Roster, Locked, Possession, Distincts, Held
<1>. QED BY <1>1, <1>2, <1>3 DEF Next

\* Leases, rows, the lock on the worktrees and the checkouts agree with the
\* runs that hold them (worktree.rs, lib.rs) through every step, crash and
\* sweep.
THEOREM CheckoutInvariant == Spec => []CheckoutInv
<1>1. Init => CheckoutInv
  BY CheckoutStart, WorkAssumption
<1>2. CheckoutInv /\ [Next]_vars => CheckoutInv'
  BY CheckoutStep, WorkAssumption
<1>. QED BY <1>1, <1>2, PTL DEF Spec

\* Two runs are never at work in one checkout, and no sweep of another process
\* takes it from a run at work (sweep_under_lock): only the guard of an
\* earlier run may.
THEOREM CheckoutsStayTheirOwn == Spec => []CheckoutIsItsOwn
<1>1. CheckoutInv => CheckoutIsItsOwn
  <2>1. ASSUME CheckoutInv, NEW d \in Run \ robbed,
               pc[d] \in {"restoring", "working"}
        PROVE  /\ tree[of[d]].there /\ tree[of[d]].owner = by[d]
               /\ of[d] \in leases[by[d]]
               /\ \A e \in RunsOf(of[d]) \ {d} :
                     pc[e] \notin {"marking", "restoring", "working"}
    <3>1. {"marking", "restoring", "working"} \subseteq Live \ {"panicked", "settling"}
      BY DEF Live
    <3>2. of[d] \in Agent
      BY <2>1 DEF CheckoutInv, Lifetimes
    <3>3. \A e \in RunsOf(of[d]) \ {d} : pc[e] \notin Live
      BY <2>1, <3>1, <3>2, Alone DEF CheckoutInv, RunsOf
    <3>. QED BY <2>1, <3>1, <3>3 DEF CheckoutInv, Possession
  <2>. QED BY <2>1 DEF CheckoutIsItsOwn
<1>. QED BY <1>1, CheckoutInvariant, PTL

-----------------------------------------------------------------------------
(* Where the work of a run is.                                             *)

\* Before a run has its checkout, and before its patch may be recorded.
Unopened == {"idle", "adding", "marking", "restoring", "refused"}
Unrecorded == {"idle", "adding", "marking", "restoring", "working", "recording"}

\* A run that has not had its checkout has changed and continued nothing;
\* one that has not recorded its patch has no patch in the log.
Unwritten ==
    \A d \in Run :
        /\ pc[d] \in Unopened => d \notin made /\ old[d] = None
        /\ pc[d] \in Unrecorded =>
              \A s \in Conversation : <<s, d>> \notin recorded \cup applied

\* Patches are on the chain of the conversation that asked for them and in
\* the memory of the process that took them; one being applied is in the
\* user's tree.
Chains ==
    /\ \A s \in Conversation, d \in Run : <<s, d>> \in recorded => s = parent[d]
    /\ \A p \in Process : \A d \in Held(p) : by[d] = p
    /\ \A p \in Process : merging[p] # None =>
          pc[merging[p]] \notin Unrecorded /\ patch[merging[p]] \subseteq main

\* A patch that was taken has what the checkout has; it is recorded before
\* the checkout may go, and closed by another only with the user's apply.
Staged ==
    \A d \in Run :
        /\ pc[d] \in {"recording", "closing", "tombstone", "reaping"} =>
              tree[of[d]].edits \subseteq patch[d]
        /\ pc[d] \in {"closing", "reaping"} =>
              <<parent[d], d>> \in recorded \/ (pc[d] = "reaping" /\ patch[d] = {})
        /\ pc[d] = "tombstone" => patch[d] = {}
        /\ pc[d] \in {"closing", "tombstone", "reaping"} /\ <<parent[d], d>> \in applied =>
              patch[d] \subseteq main

\* A follow-up has in its checkout, then in its patch, what it continues.
Laid ==
    \A f \in Run : old[f] # None =>
        /\ of[old[f]] = of[f] /\ old[f] # f
        /\ pc[old[f]] \notin Unrecorded
        /\ pc[f] = "working" /\ tree[of[f]].there =>
              patch[old[f]] \subseteq tree[of[f]].edits \cup undone
        /\ pc[f] \in {"recording", "closing"} =>
              patch[old[f]] \subseteq patch[f] \cup undone

Backed(x) == x \in main \cup undone \cup robbed \/ OnOffer(x)

\* What was changed is backed, or in the checkout of its run while that is at
\* work, was kept or was lost.
Safe ==
    \A x \in made :
        \/ Backed(x)
        \/ /\ x \in tree[of[x]].edits
           /\ \/ pc[x] \in {"working", "recording", "preserving", "lost"}
              \/ x \in preserved

\* What a step of a run does to the patches it takes, records and closes.
LEMMA Arrivals ==
    ASSUME Types, Lifetimes, NEW d \in Run, RunStep(d)
    PROVE  /\ pc'[d] = "working" =>
                 \/ pc[d] = "working" /\ UNCHANGED old
                 \/ /\ pc[d] = "restoring" /\ UNCHANGED <<old, tree>>
                    /\ Pending(by[d], of[d]) = {}
                 \/ /\ pc[d] = "restoring"
                    /\ \E e \in Pending(by[d], of[d]) :
                          /\ old' = [old EXCEPT ![d] = e]
                          /\ tree' = [tree EXCEPT ![of[d]].edits = patch[e]]
           /\ pc'[d] = "recording" =>
                 /\ pc[d] = "working" /\ UNCHANGED tree /\ tree[of[d]].there
                 /\ patch' = [patch EXCEPT ![d] = tree[of[d]].edits]
           /\ pc'[d] = "closing" =>
                 pc[d] = "recording" /\ <<parent[d], d>> \in recorded'
           /\ pc'[d] = "tombstone" => pc[d] = "closing" /\ patch[d] = {}
           /\ pc'[d] = "reaping" =>
                 \/ /\ pc[d] = "working" /\ UNCHANGED tree
                    /\ tree[of[d]].edits = {} /\ old[d] = None
                    /\ patch' = [patch EXCEPT ![d] = tree[of[d]].edits]
                 \/ /\ pc[d] = "recording" /\ <<parent[d], d>> \in recorded'
                    /\ old[d] = None
                 \/ pc[d] \in {"closing", "tombstone"}
<1>1. pc \in [Run -> Label]
  BY DEF Types, TypeOK, Label
<1>2. d \in cleanups => pc[d] \in {"refused", "panicked", "over"}
  BY DEF Lifetimes
<1>. QED
  BY <1>1, <1>2
  DEF RunStep, AddTree, MarkTree, Restore, Abandon, Edit, Extract, Record,
       Close, Tombstone, Reap, Preserve, Settle, End, Panic, Cleanup, Goto,
       Refuse, Extracted, disk, result

LEMMA Departures ==
    ASSUME Types, Lifetimes, NEW d \in Run, RunStep(d)
    PROVE  /\ old' # old => pc'[d] = "working"
           /\ patch' # patch => pc'[d] \in {"recording", "reaping"} /\ pc[d] = "working"
           /\ recorded' # recorded => pc'[d] \in {"closing", "reaping"}
           /\ applied' # applied => pc[d] \in {"closing", "tombstone"} /\ pc'[d] # pc[d]
           /\ made' # made => pc'[d] = "working"
           /\ pc[d] = "working" =>
                 \/ pc'[d] = "working" /\ patch' = patch
                 \/ tree' = tree
<1>1. pc \in [Run -> Label]
  BY DEF Types, TypeOK, Label
<1>2. d \in cleanups => pc[d] \in {"refused", "panicked", "over"}
  BY DEF Lifetimes
<1>. QED
  BY <1>1, <1>2
  DEF RunStep, AddTree, MarkTree, Restore, Abandon, Edit, Extract, Record,
       Close, Tombstone, Reap, Preserve, Settle, End, Panic, Cleanup, Goto,
       Refuse, Extracted, disk, result, log, history

\* What memory gains is the patch a run took.
LEMMA HeldChange ==
    ASSUME Types, Lifetimes, Distincts, NEW d \in Run, RunStep(d),
           NEW p \in Process
    PROVE  /\ Members(cache'[p]) \subseteq Run
           /\ Members(cache'[p]) \subseteq Held(p) \cup {d}
           /\ d \in Members(cache'[p]) /\ d \notin Held(p) =>
                 p = by[d] /\ Extract(d) /\ pc[d] = "working"
<1>1. /\ cache[p] \in Seq(Run) /\ Distinct(cache[p]) /\ cache \in [Process -> Seq(Run)]
      /\ by[d] \in Process
  BY Busy DEF Types, TypeOK, Distincts
<1>2. CASE cache'[p] = cache[p]
  BY <1>1, <1>2 DEF Held, Members
<1>3. CASE /\ pc[d] = "working" /\ Extract(d) /\ p = by[d]
           /\ cache'[p] = Keeping(cache[p], d)
  <2>1. d \notin Members(cache[p])
    BY <1>3 DEF Distincts, Held
  <2>2. Members(cache[p]) \subseteq Run
    BY <1>1 DEF Members
  <2>. QED BY <1>1, <1>3, <2>1, <2>2, KeepingFacts DEF Held
<1>4. CASE cache'[p] = Forgetting(cache[p], old[d])
  <2>1. Members(cache[p]) \subseteq Run
    BY <1>1 DEF Members
  <2>. QED BY <1>1, <1>4, <2>1, ForgettingFacts DEF Held
<1>5. \/ cache'[p] = cache[p]
      \/ /\ pc[d] = "working" /\ Extract(d) /\ p = by[d]
         /\ cache'[p] = Keeping(cache[p], d)
      \/ cache'[p] = Forgetting(cache[p], old[d])
  BY <1>1, ResultsChange
<1>. QED BY <1>2, <1>3, <1>4, <1>5

LEMMA RunStepUnwritten ==
    ASSUME Types, Lifetimes, Unwritten, Laid, Distincts, NEW d \in Run,
           RunStep(d)
    PROVE  Unwritten'
<1>1. /\ Pointwise(d) /\ UNCHANGED parent /\ parent[d] \in Conversation
      /\ old \in [Run -> Run \cup {None}]
  BY StepIsPointwise, Busy DEF Pointwise, Types, TypeOK
<1>2. ASSUME NEW e \in Run, pc'[e] \in Unopened
      PROVE  e \notin made' /\ old'[e] = None
  <2>1. pc[e] \in Unopened
    BY <1>1, <1>2 DEF Pointwise, Moves, Unopened
  <2>2. e \notin made /\ old[e] = None
    BY <2>1 DEF Unwritten
  <2>3. CASE e = d
    <3>1. pc'[d] # "working"
      BY <1>2, <2>3 DEF Unopened
    <3>. QED BY <2>2, <2>3, <3>1, Departures
  <2>4. CASE e # d
    BY <1>1, <2>2, <2>4, LogChange DEF Pointwise
  <2>. QED BY <2>3, <2>4
<1>3. ASSUME NEW e \in Run, pc'[e] \in Unrecorded, NEW s \in Conversation
      PROVE  <<s, e>> \notin recorded' \cup applied'
  <2>1. pc[e] \in Unrecorded
    BY <1>1, <1>3 DEF Pointwise, Moves, Unrecorded
  <2>2. <<s, e>> \notin recorded \cup applied
    BY <2>1 DEF Unwritten
  <2>3. CASE <<s, e>> \in recorded'
    <3>1. e = d /\ recorded' # recorded
      BY <2>2, <2>3, LogChange
    <3>2. pc'[d] \in {"closing", "reaping"}
      BY <3>1, Departures
    <3>. QED BY <1>3, <3>1, <3>2 DEF Unrecorded
  <2>4. CASE <<s, e>> \in applied'
    <3>1. \/ pc[d] = "closing" /\ e = old[d]
          \/ pc[d] = "tombstone" /\ e = d
      BY <2>2, <2>4, LogChange
    <3>2. CASE pc[d] = "closing" /\ e = old[d]
      BY <2>1, <3>2 DEF Laid, Distincts
    <3>. QED BY <2>1, <3>1, <3>2 DEF Unrecorded
  <2>. QED BY <2>2, <2>3, <2>4
<1>. QED BY <1>2, <1>3 DEF Unwritten

LEMMA RunStepChains ==
    ASSUME Types, Lifetimes, Distincts, Chains, NEW d \in Run, RunStep(d)
    PROVE  Chains'
<1>1. /\ Pointwise(d) /\ UNCHANGED <<by, parent, merging, main>>
      /\ merging \in [Process -> Run \cup {None}] /\ patch \in [Run -> SUBSET Run]
  BY StepIsPointwise DEF Pointwise, Types, TypeOK
<1>2. \A s \in Conversation, e \in Run : <<s, e>> \in recorded' => s = parent[e]
  BY LogChange DEF Chains
<1>3. \A p \in Process : \A e \in Members(cache'[p]) : by[e] = p
  BY HeldChange DEF Chains
<1>4. ASSUME NEW e \in Run, pc[e] \notin Unrecorded
      PROVE  pc'[e] \notin Unrecorded /\ patch'[e] = patch[e]
  <2>1. pc'[e] \notin Unrecorded
    BY <1>1, <1>4 DEF Pointwise, Moves, Unrecorded
  <2>2. e = d => patch' = patch
    BY <1>4, Departures DEF Unrecorded
  <2>. QED BY <1>1, <2>1, <2>2 DEF Pointwise
<1>. QED BY <1>1, <1>2, <1>3, <1>4 DEF Chains, Held

LEMMA RunStepStaged ==
    ASSUME Types, Lifetimes, Roster, Distincts, Unwritten, Laid, Staged,
           NEW d \in Run, RunStep(d)
    PROVE  Staged'
<1>1. /\ Pointwise(d) /\ UNCHANGED <<of, parent, main>> /\ of[d] \in Agent
      /\ tree \in [Agent -> Trees] /\ patch \in [Run -> SUBSET Run]
      /\ parent[d] \in Conversation
      /\ recorded \subseteq recorded' /\ pc \in [Run -> Label]
  BY StepIsPointwise, Busy, HistoryGrows
  DEF Pointwise, Types, TypeOK, Trees, Label
<1> DEFINE Taken4 == {"recording", "closing", "tombstone", "reaping"}
<1>2. \A e \in Run : pc[e] \in Taken4 => patch'[e] = patch[e]
  BY <1>1, Departures DEF Pointwise
<1>3. d \in cleanups => pc[d] \in {"refused", "panicked", "over"}
  BY DEF Lifetimes
<1>4. ASSUME NEW e \in Run, pc'[e] \in Taken4
      PROVE  tree'[of[e]].edits \subseteq patch'[e]
  <2>1. CASE pc[e] \in Taken4
    <3>1. tree[of[e]].edits \subseteq patch'[e] /\ of[e] \in Agent /\ pc[e] \in Live
      BY <1>2, <2>1 DEF Staged, Lifetimes, Live
    <3>2. CASE of[e] # of[d]
      BY <1>1, <3>1, <3>2 DEF Pointwise
    <3>3. CASE e = d
      <4>1. pc[d] # "reaping" \/ pc'[d] = pc[d]
        BY <1>1, <1>4, <3>3 DEF Pointwise, Moves
      <4>2. pc[d] # "reaping"
        BY <1>3, <2>1, <3>3, <4>1, Stays DEF Moves
      <4>3. tree' = tree
        BY <1>3, <2>1, <3>3, <4>2, TreeChange DEF TreeChanges
      <4>. QED BY <3>1, <4>3
    <3>4. CASE e # d /\ of[e] = of[d]
      <4>1. pc[d] \notin Live
        BY <1>1, <3>1, <3>4, Alone
      <4>2. tree' = tree \/ tree' = [tree EXCEPT ![of[d]] = Absent]
        BY <4>1, TreeChange DEF TreeChanges, Live
      <4>. QED BY <1>1, <3>1, <3>4, <4>2 DEF Absent
    <3>. QED BY <3>2, <3>3, <3>4
  <2>2. CASE pc[e] \notin Taken4
    <3>1. e = d /\ pc[d] = "working"
      BY <1>1, <1>4, <2>2 DEF Pointwise, Moves
    <3>2. tree' = tree /\ patch' = [patch EXCEPT ![d] = tree[of[d]].edits]
      BY <1>4, <3>1, Arrivals
    <3>. QED BY <1>1, <3>1, <3>2
  <2>. QED BY <2>1, <2>2
<1>5. ASSUME NEW e \in Run
      PROVE  /\ pc'[e] \in {"closing", "reaping"} =>
                   <<parent[e], e>> \in recorded' \/ (pc'[e] = "reaping" /\ patch'[e] = {})
             /\ pc'[e] = "tombstone" => patch'[e] = {}
  <2>1. CASE e # d
    <3>1. pc'[e] = pc[e] /\ patch'[e] = patch[e]
      BY <1>1, <2>1 DEF Pointwise
    <3>. QED BY <1>1, <3>1 DEF Staged
  <2>2. CASE e = d /\ pc'[d] = pc[d]
    <3>1. pc[d] \notin {"closing", "tombstone", "reaping"}
      BY <1>3, <2>2, Stays DEF Moves
    <3>. QED BY <2>2, <3>1
  <2>3. CASE e = d /\ pc'[d] # pc[d]
    <3>1. pc'[d] = "tombstone" => patch'[d] = {}
      BY <1>2, Arrivals
    <3>2. pc'[d] = "closing" => <<parent[d], d>> \in recorded'
      BY Arrivals
    <3>3. ASSUME pc'[d] = "reaping"
          PROVE  <<parent[d], d>> \in recorded' \/ patch'[d] = {}
      <4>1. CASE pc[d] = "working"
        <5>1. patch' = [patch EXCEPT ![d] = tree[of[d]].edits] /\ tree[of[d]].edits = {}
          BY <3>3, <4>1, Arrivals
        <5>. QED BY <1>1, <5>1
      <4>2. CASE pc[d] \in {"closing", "tombstone"}
        BY <1>1, <1>2, <4>2 DEF Staged
      <4>. QED BY <2>3, <3>3, <4>1, <4>2, Arrivals
    <3>. QED BY <2>3, <3>1, <3>2, <3>3
  <2>. QED BY <2>1, <2>2, <2>3
<1>6. ASSUME NEW e \in Run, pc'[e] \in {"closing", "tombstone", "reaping"},
             <<parent[e], e>> \in applied'
      PROVE  patch'[e] \subseteq main
  <2>1. CASE <<parent[e], e>> \notin applied
    <3>1. \/ pc[d] = "closing" /\ e = old[d]
          \/ pc[d] = "tombstone" /\ e = d
      BY <2>1, <1>6, LogChange
    <3>2. CASE pc[d] = "closing" /\ e = old[d]
      <4>1. e # d /\ of[e] = of[d] /\ pc[e] \in Live
        BY <1>1, <1>6, <3>2 DEF Laid, Distincts, Pointwise, Live
      <4>2. pc[d] \notin Live
        BY <1>1, <4>1, Alone
      <4>. QED BY <3>2, <4>2 DEF Live
    <3>3. CASE pc[d] = "tombstone" /\ e = d
      BY <1>2, <3>3 DEF Staged
    <3>. QED BY <3>1, <3>2, <3>3
  <2>2. CASE <<parent[e], e>> \in applied
    <3>1. e \in Run /\ pc[e] # "idle"
      BY <1>1, <1>6 DEF Pointwise, Moves
    <3>2. parent[e] \in Conversation
      BY <3>1 DEF Lifetimes
    <3>3. pc[e] \notin Unrecorded
      BY <2>2, <3>2 DEF Unwritten
    <3>4. pc[e] \in {"closing", "tombstone", "reaping"}
      BY <1>1, <1>6, <3>3 DEF Pointwise, Moves, Unrecorded
    <3>. QED BY <1>2, <2>2, <3>4 DEF Staged
  <2>. QED BY <2>1, <2>2
<1>. QED BY <1>1, <1>4, <1>5, <1>6 DEF Staged

LEMMA RunStepLaid ==
    ASSUME Types, Lifetimes, Roster, Distincts, Unwritten, Laid,
           NEW d \in Run, RunStep(d)
    PROVE  Laid'
<1>1. /\ Pointwise(d) /\ UNCHANGED <<of, owner>> /\ of[d] \in Agent
      /\ by[d] \in Process /\ proc[by[d]] = "up" /\ None \notin Run
      /\ tree \in [Agent -> Trees] /\ patch \in [Run -> SUBSET Run]
      /\ old \in [Run -> Run \cup {None}]
      /\ undone \subseteq undone' /\ pc \in [Run -> Label]
  BY StepIsPointwise, Busy, HistoryGrows
  DEF Pointwise, Types, TypeOK, Trees, Label, WellFormed
<1>2. ASSUME NEW e \in Run, pc[e] \notin Unrecorded
      PROVE  pc'[e] \notin Unrecorded /\ patch'[e] = patch[e]
  <2>1. pc'[e] \notin Unrecorded
    BY <1>1, <1>2 DEF Pointwise, Moves, Unrecorded
  <2>2. e = d => patch' = patch
    BY <1>2, Departures DEF Unrecorded
  <2>. QED BY <1>1, <2>1, <2>2 DEF Pointwise
<1>3. ASSUME pc[d] = "restoring", NEW e \in Pending(by[d], of[d]),
             old' = [old EXCEPT ![d] = e], pc'[d] = "working",
             tree' = [tree EXCEPT ![of[d]].edits = patch[e]]
      PROVE  /\ old'[d] = e /\ of[e] = of[d] /\ e # d
             /\ pc'[e] \notin Unrecorded
             /\ patch'[e] \subseteq tree'[of[d]].edits
  <2>1. /\ e \in Run /\ of[e] = of[d]
        /\ e \in Held(by[d]) \/ e \in Unapplied(owner[by[d]])
    BY PendingFacts DEF RunsOf
  <2>2. owner[by[d]] \in Conversation
    BY <1>1 DEF Lifetimes
  <2>3. pc[e] \notin Unrecorded
    <3>1. CASE e \in Unapplied(owner[by[d]])
      BY <2>1, <2>2, <3>1 DEF Unapplied, Unwritten
    <3>2. CASE e \in Held(by[d])
      <4>1. pc[e] \notin {"idle", "adding", "marking", "restoring", "working"}
        BY <1>1, <3>2 DEF Distincts
      <4>2. pc[e] \notin Live
        BY <1>1, <1>3, <2>1, <4>1, Alone DEF Live
      <4>. QED BY <4>1, <4>2 DEF Live, Unrecorded
    <3>. QED BY <2>1, <3>1, <3>2
  <2>4. e # d
    BY <1>3, <2>3 DEF Unrecorded
  <2>5. pc'[e] \notin Unrecorded /\ patch'[e] = patch[e]
    BY <1>2, <2>1, <2>3
  <2>. QED BY <1>1, <1>3, <2>1, <2>4, <2>5 DEF Trees
<1>4. ASSUME NEW f \in Run, old'[f] # old[f]
      PROVE  /\ f = d /\ pc[d] = "restoring" /\ pc'[d] = "working"
             /\ \E e \in Pending(by[d], of[d]) :
                   /\ old' = [old EXCEPT ![d] = e]
                   /\ tree' = [tree EXCEPT ![of[d]].edits = patch[e]]
  <2>1. f = d /\ pc'[d] = "working"
    BY <1>1, <1>4, Departures DEF Pointwise
  <2>. QED BY <1>4, <2>1, Arrivals
<1>5. ASSUME NEW f \in Run, old'[f] = old[f], old[f] # None
      PROVE  /\ of[old[f]] = of[f] /\ old[f] # f
             /\ pc'[old[f]] \notin Unrecorded
             /\ pc'[f] = "working" /\ tree'[of[f]].there =>
                   patch'[old[f]] \subseteq tree'[of[f]].edits \cup undone'
             /\ pc'[f] \in {"recording", "closing"} =>
                   patch'[old[f]] \subseteq patch'[f] \cup undone'
  <2>1. /\ of[old[f]] = of[f] /\ old[f] # f /\ old[f] \in Run
        /\ pc'[old[f]] \notin Unrecorded /\ patch'[old[f]] = patch[old[f]]
    BY <1>1, <1>2, <1>5 DEF Laid
  <2>2. ASSUME pc'[f] = "working", tree'[of[f]].there
        PROVE  patch'[old[f]] \subseteq tree'[of[f]].edits \cup undone'
    <3>1. CASE f # d
      <4>1. pc[f] = "working" /\ of[f] \in Agent /\ pc[f] \in Live
        BY <1>1, <2>2, <3>1 DEF Pointwise, Lifetimes, Live
      <4>2. tree'[of[f]] = tree[of[f]]
        <5>1. CASE of[f] # of[d]
          BY <1>1, <4>1, <5>1 DEF Pointwise
        <5>2. CASE of[f] = of[d]
          <6>1. pc[d] \notin Live
            BY <1>1, <3>1, <4>1, <5>2, Alone
          <6>2. tree' = tree \/ tree' = [tree EXCEPT ![of[d]] = Absent]
            BY <6>1, TreeChange DEF TreeChanges, Live
          <6>. QED BY <1>1, <2>2, <5>2, <6>2 DEF Absent
        <5>. QED BY <5>1, <5>2
      <4>. QED BY <1>1, <1>5, <2>1, <2>2, <4>1, <4>2 DEF Laid
    <3>2. CASE f = d
      <4>1. pc[d] # "restoring"
        BY <1>5, <3>2 DEF Unwritten, Unopened
      <4>2. pc[d] = "working"
        BY <2>2, <3>2, <4>1, Arrivals
      <4>3. d \notin cleanups
        BY <4>2 DEF Lifetimes
      <4>4. \/ tree' = tree
            \/ /\ tree' = [tree EXCEPT ![of[d]].edits = @ \cup {d}]
               /\ tree[of[d]].there
            \/ /\ tree' = [tree EXCEPT ![of[d]].edits = {}]
               /\ undone' = undone \cup tree[of[d]].edits
        BY <4>2, <4>3, TreeChange DEF TreeChanges
      <4>5. tree[of[d]].there
        BY <1>1, <2>2, <3>2, <4>4 DEF Trees
      <4>6. patch[old[d]] \subseteq tree[of[d]].edits \cup undone
        BY <1>5, <3>2, <4>2, <4>5 DEF Laid
      <4>7. tree[of[d]].edits \subseteq tree'[of[d]].edits \cup undone'
        BY <1>1, <4>4 DEF Trees
      <4>. QED BY <1>1, <2>1, <3>2, <4>6, <4>7
    <3>. QED BY <3>1, <3>2
  <2>3. ASSUME pc'[f] \in {"recording", "closing"}
        PROVE  patch'[old[f]] \subseteq patch'[f] \cup undone'
    <3>1. CASE f # d
      <4>1. pc'[f] = pc[f] /\ patch'[f] = patch[f]
        BY <1>1, <3>1 DEF Pointwise
      <4>. QED BY <1>1, <1>5, <2>1, <2>3, <4>1 DEF Laid
    <3>2. CASE f = d /\ pc'[d] = "recording"
      <4>1. /\ pc[d] = "working" /\ tree[of[d]].there
            /\ patch' = [patch EXCEPT ![d] = tree[of[d]].edits]
        BY <3>2, Arrivals
      <4>2. patch[old[d]] \subseteq tree[of[d]].edits \cup undone
        BY <1>5, <3>2, <4>1 DEF Laid
      <4>. QED BY <1>1, <2>1, <3>2, <4>1, <4>2
    <3>3. CASE f = d /\ pc'[d] = "closing"
      <4>1. pc[d] = "recording"
        BY <3>3, Arrivals
      <4>2. patch' = patch
        BY <4>1, Departures
      <4>. QED BY <1>1, <1>5, <3>3, <4>1, <4>2 DEF Laid
    <3>. QED BY <2>3, <3>1, <3>2, <3>3
  <2>. QED BY <2>1, <2>2, <2>3
<1>6. ASSUME NEW f \in Run, old'[f] # old[f]
      PROVE  /\ of[old'[f]] = of[f] /\ old'[f] # f
             /\ pc'[old'[f]] \notin Unrecorded
             /\ pc'[f] = "working"
             /\ patch'[old'[f]] \subseteq tree'[of[f]].edits
  <2>1. f = d /\ pc[d] = "restoring" /\ pc'[d] = "working"
    BY <1>4, <1>6
  <2>2. PICK e \in Pending(by[d], of[d]) :
               /\ old' = [old EXCEPT ![d] = e]
               /\ tree' = [tree EXCEPT ![of[d]].edits = patch[e]]
    BY <1>4, <1>6
  <2>. QED BY <1>3, <2>1, <2>2
<1>7. of' = of
  BY <1>1
<1>. QED BY <1>5, <1>6, <1>7 DEF Laid

\* What is in a checkout that is about to be removed is backed.
LEMMA ReapedIsBacked ==
    ASSUME Staged, Lifetimes, NEW d \in Run, pc[d] = "reaping",
           NEW x \in tree[of[d]].edits
    PROVE  Backed(x)
<1>1. x \in patch[d] /\ parent[d] \in Conversation /\ <<parent[d], d>> \in recorded
  BY DEF Staged, Lifetimes
<1>2. CASE <<parent[d], d>> \in applied
  BY <1>1, <1>2 DEF Staged, Backed
<1>3. CASE <<parent[d], d>> \notin applied
  BY <1>1, <1>3 DEF Backed, OnOffer, Unapplied
<1>. QED BY <1>2, <1>3

\* What is backed stays so: a handout is closed once another has its edits.
LEMMA RunStepBacks ==
    ASSUME Types, Lifetimes, Unwritten, Chains, Staged, Laid, Distincts,
           NEW d \in Run, RunStep(d), NEW x, Backed(x)
    PROVE  Backed(x)'
<1>1. /\ Pointwise(d) /\ UNCHANGED main /\ undone \subseteq undone'
      /\ robbed \subseteq robbed' /\ recorded \subseteq recorded'
      /\ parent[d] \in Conversation
  BY StepIsPointwise, Busy, HistoryGrows DEF Pointwise
<1>2. CASE x \in main \cup undone \cup robbed
  BY <1>1, <1>2 DEF Backed
<1>3. ASSUME NEW s \in Conversation, NEW e \in Run,
             <<s, e>> \in recorded \ applied,
             x \in patch[e]
      PROVE  Backed(x)'
  <2>1. \A f \in Run : pc[f] \notin Unrecorded => patch'[f] = patch[f]
    BY <1>1, Departures DEF Pointwise, Unrecorded
  <2>2. patch'[e] = patch[e]
    BY <1>3, <2>1 DEF Unwritten
  <2>3. CASE <<s, e>> \notin applied'
    BY <1>1, <1>3, <2>2, <2>3 DEF Backed, OnOffer, Unapplied
  <2>4. CASE <<s, e>> \in applied'
    <3>1. \/ pc[d] = "closing" /\ applied' = applied \cup {<<parent[d], old[d]>>}
             /\ e = old[d]
          \/ pc[d] = "tombstone" /\ e = d
      BY <1>3, <2>4, LogChange
    <3>2. pc[d] # "tombstone" \/ e # d
      BY <1>3 DEF Staged
    <3>3. /\ pc[d] = "closing" /\ applied' = applied \cup {<<parent[d], old[d]>>}
          /\ e = old[d]
      BY <3>1, <3>2
    <3>4. /\ patch[e] \subseteq patch[d] \cup undone /\ e # d
          /\ <<parent[d], d>> \in recorded
          /\ <<parent[d], d>> \in applied => patch[d] \subseteq main
      BY <3>3 DEF Laid, Distincts, Staged
    <3>5. CASE x \in undone \/ <<parent[d], d>> \in applied
      BY <1>1, <1>3, <3>4, <3>5 DEF Backed
    <3>6. CASE x \notin undone /\ <<parent[d], d>> \notin applied
      <4>1. x \in patch'[d] /\ <<parent[d], d>> \notin applied'
        BY <1>3, <2>1, <3>3, <3>4, <3>6 DEF Unrecorded
      <4>. QED BY <1>1, <3>4, <4>1 DEF Backed, OnOffer, Unapplied
    <3>. QED BY <3>5, <3>6
  <2>. QED BY <2>3, <2>4
<1>. QED BY <1>2, <1>3 DEF Backed, OnOffer, Unapplied

\* What becomes of a run's own change when the run moves on.
LEMMA Outcomes ==
    ASSUME Types, Lifetimes, NEW d \in Run, RunStep(d)
    PROVE  /\ pc'[d] = "panicked" /\ pc[d] # "panicked" => d \in undone'
           /\ pc[d] = "preserving" => d \in preserved'
           /\ made' # made => tree' = [tree EXCEPT ![of[d]].edits = @ \cup {d}]
<1>1. pc \in [Run -> Label]
  BY DEF Types, TypeOK, Label
<1>2. d \in cleanups => pc[d] \in {"refused", "panicked", "over"}
  BY DEF Lifetimes
<1>. QED
  BY <1>1, <1>2
  DEF RunStep, AddTree, MarkTree, Restore, Abandon, Edit, Extract, Record,
       Close, Tombstone, Reap, Preserve, Settle, End, Panic, Cleanup, Goto,
       Refuse, Extracted, disk, result, log, history

\* A step of a run takes nothing from its path that is not backed, but what
\* its guard's cleanup takes, and robs of others.
LEMMA TreeKeeps ==
    ASSUME Types, Lifetimes, Locked, Staged, NEW d \in Run, RunStep(d),
           NEW x \in tree[of[d]].edits, ~Backed(x), x \notin undone'
    PROVE  x \in tree'[of[d]].edits \/ (d \in cleanups /\ Hit(d) \subseteq robbed')
<1>1. tree \in [Agent -> Trees] /\ of[d] \in Agent
  BY Busy DEF Types, TypeOK, Trees
<1>2. pc[d] \notin {"restoring", "marking", "reaping"} /\ tree[of[d]].there
  BY <1>1, ReapedIsBacked DEF Locked
<1>3. \/ tree' = tree
      \/ tree' = [tree EXCEPT ![of[d]].edits = @ \cup {d}]
      \/ /\ tree' = [tree EXCEPT ![of[d]].edits = {}]
         /\ undone' = undone \cup tree[of[d]].edits
      \/ d \in cleanups /\ robbed' = robbed \cup Hit(d)
  BY <1>2, TreeChange DEF TreeChanges
<1>. QED BY <1>1, <1>3 DEF Trees

LEMMA RunStepSafe ==
    ASSUME Types, Lifetimes, Roster, Locked, Unwritten, Chains, Staged, Laid,
           Distincts, Safe, NEW d \in Run, RunStep(d)
    PROVE  Safe'
<1>1. /\ Pointwise(d) /\ UNCHANGED of /\ of[d] \in Agent
      /\ tree \in [Agent -> Trees] /\ parent[d] \in Conversation
      /\ undone \subseteq undone' /\ robbed \subseteq robbed'
      /\ preserved \subseteq preserved' /\ recorded \subseteq recorded'
      /\ made \subseteq Run /\ made' \subseteq made \cup {d}
  <2>1. Pointwise(d) /\ of[d] \in Agent /\ parent[d] \in Conversation
    BY StepIsPointwise, Busy
  <2>2. tree \in [Agent -> Trees] /\ made \subseteq Run
    BY DEF Types, TypeOK, Trees
  <2>3. made' \subseteq made \cup {d}
    BY LogChange
  <2>. QED BY <2>1, <2>2, <2>3, HistoryGrows DEF Pointwise
<1>2. ASSUME made' # made
      PROVE  pc'[d] = "working" /\ d \in tree'[of[d]].edits
  <2>1. pc'[d] = "working" /\ tree' = [tree EXCEPT ![of[d]].edits = @ \cup {d}]
    BY <1>2, Departures, Outcomes
  <2>. QED BY <1>1, <2>1 DEF Trees
<1>3. ASSUME NEW x \in made, ~Backed(x), ~Backed(x)'
      PROVE  /\ x \in tree'[of[x]].edits
             /\ \/ pc'[x] \in {"working", "recording", "preserving", "lost"}
                \/ x \in preserved'
  <2>1. /\ x \in Run /\ x \in tree[of[x]].edits
        /\ pc[x] \in {"working", "recording", "preserving", "lost"} \/ x \in preserved
    BY <1>1, <1>3 DEF Safe
  <2>2. x \notin undone' /\ x \notin robbed'
    BY <1>3 DEF Backed
  <2>3. of[x] \in Agent /\ pc[x] # "idle" /\ by[x] \in Process
    BY <2>1 DEF Unwritten, Unopened, Lifetimes
  <2>4. CASE of[x] # of[d]
    BY <1>1, <2>1, <2>3, <2>4 DEF Pointwise
  <2>5. CASE of[x] = of[d] /\ x # d
    <3>1. pc'[x] = pc[x]
      BY <1>1, <2>1, <2>5 DEF Pointwise
    <3>2. ASSUME d \in cleanups, Hit(d) \subseteq robbed'
          PROVE  FALSE
      <4>1. ~AtWork(x) /\ x \notin preserved
        BY <1>1, <2>1, <2>2, <2>5, <3>2, Hits
      <4>2. pc[x] = "lost"
        BY <2>1, <4>1 DEF AtWork, Live
      <4>3. proc[by[x]] = "dead" /\ by[x] = by[d]
        BY <1>1, <2>1, <2>5, <4>2 DEF Lifetimes, Roster
      <4>4. proc[by[d]] = "up"
        BY Busy
      <4>. QED BY <4>3, <4>4
    <3>3. x \in tree'[of[d]].edits
      BY <1>3, <2>1, <2>2, <2>5, <3>2, TreeKeeps
    <3>. QED BY <1>1, <2>1, <2>5, <3>1, <3>3
  <2>6. CASE x = d
    <3>1. d \notin cleanups
      BY <2>1, <2>6 DEF Lifetimes
    <3>2. d \in tree'[of[d]].edits
      BY <1>3, <2>1, <2>2, <2>6, <3>1, TreeKeeps
    <3>3. pc[d] # "lost"
      BY Busy
    <3>4. CASE pc[d] = "preserving" \/ d \in preserved
      BY <1>1, <2>6, <3>2, <3>4, Outcomes
    <3>5. CASE pc[d] \in {"working", "recording"}
      <4>1. pc'[d] # "panicked"
        BY <2>2, <2>6, <3>5, Outcomes
      <4>2. pc'[d] \in {"working", "recording", "preserving", "closing", "reaping"}
        BY <1>1, <3>5, <4>1 DEF Pointwise, Moves
      <4>3. ASSUME pc'[d] \in {"closing", "reaping"}
            PROVE  FALSE
        <5>1. pc[d] = "recording" /\ <<parent[d], d>> \in recorded'
          BY <2>1, <2>6, <3>5, <4>3, Arrivals
        <5>2. <<parent[d], d>> \notin applied'
          <6>1. <<parent[d], d>> \notin applied
            BY <1>1, <5>1 DEF Unwritten, Unrecorded
          <6>. QED BY <5>1, <6>1, Departures
        <5>3. d \in patch'[d]
          <6>1. d \in patch[d]
            BY <2>1, <2>6, <5>1 DEF Staged
          <6>. QED BY <5>1, <6>1, Departures
        <5>. QED BY <1>1, <1>3, <2>6, <5>1, <5>2, <5>3
                 DEF Backed, OnOffer, Unapplied
      <4>. QED BY <1>1, <2>6, <3>2, <4>2, <4>3
    <3>. QED BY <2>1, <2>6, <3>3, <3>4, <3>5
  <2>. QED BY <2>4, <2>5, <2>6
<1>4. ASSUME NEW x \in made'
      PROVE  \/ Backed(x)'
             \/ /\ x \in tree'[of[x]].edits
                /\ \/ pc'[x] \in {"working", "recording", "preserving", "lost"}
                   \/ x \in preserved'
  <2>1. CASE x \in made /\ Backed(x)
    BY <2>1, RunStepBacks
  <2>2. CASE x \in made /\ ~Backed(x)
    BY <1>3, <2>2
  <2>3. CASE x \notin made
    BY <1>1, <1>2, <2>3
  <2>. QED BY <2>1, <2>2, <2>3
<1>. QED BY <1>1, <1>4 DEF Safe

\* A process that begins a run gives it an agent and nothing else.
LEMMA BeginFacts ==
    ASSUME Types, Lifetimes, NEW p \in Process, NEW a \in Agent, NEW d \in Run,
           Begin(p, a, d)
    PROVE  /\ pc[d] = "idle" /\ pc'[d] \in {"refused", "adding"}
           /\ of'[d] = a /\ by'[d] = p /\ parent'[d] = owner[p] /\ of[d] = None
           /\ owner[p] \in Conversation
           /\ \A e \in Run \ {d} : /\ of'[e] = of[e] /\ by'[e] = by[e]
                                   /\ parent'[e] = parent[e] /\ pc'[e] = pc[e]
           /\ UNCHANGED <<proc, owner, merging, cache, structure, tree, keep,
                          old, patch, preserved, recorded, applied, unclosed,
                          made, main, undone, robbed, cleanups>>
<1>1. /\ of \in [Run -> PathAgent] /\ by \in [Run -> Process \cup {None}]
      /\ parent \in [Run -> Conversation \cup {None}] /\ pc \in [Run -> Label]
  BY DEF Types, TypeOK, Label
<1>2. /\ pc[d] = "idle" /\ proc[p] = "up"
      /\ of' = [of EXCEPT ![d] = a] /\ by' = [by EXCEPT ![d] = p]
      /\ parent' = [parent EXCEPT ![d] = owner[p]]
      /\ \E l \in {"refused", "adding"} : pc' = [pc EXCEPT ![d] = l]
      /\ UNCHANGED <<proc, owner, merging, cache, structure, tree, keep,
                     old, patch, preserved, recorded, applied, unclosed,
                     made, main, undone, robbed, cleanups>>
  BY DEF Begin, Goto, process, disk, result, log, history
<1>3. of[d] = None /\ owner[p] \in Conversation
  BY <1>2 DEF Lifetimes
<1>. QED BY <1>1, <1>2, <1>3

WorkParts == Unwritten /\ Chains /\ Staged /\ Laid /\ Safe

LEMMA BeginWork ==
    ASSUME Types, Lifetimes, Roster, Distincts, WorkParts,
           NEW p \in Process, NEW a \in Agent, NEW d \in Run, Begin(p, a, d)
    PROVE  WorkParts'
<1> USE DEF WorkParts
<1> DEFINE Rest == /\ UNCHANGED <<merging, cache, tree, old, patch, preserved>>
                   /\ UNCHANGED <<recorded, applied, made, main, undone, robbed>>
<1>0. /\ pc[d] = "idle" /\ pc'[d] \in {"refused", "adding"} /\ of[d] = None
      /\ \A e \in Run \ {d} : /\ of'[e] = of[e] /\ by'[e] = by[e]
                              /\ parent'[e] = parent[e] /\ pc'[e] = pc[e]
      /\ Rest
  BY BeginFacts
<1>1. /\ None \notin Run /\ d \in Run /\ cache \in [Process -> Seq(Run)]
      /\ merging \in [Process -> Run \cup {None}]
      /\ old \in [Run -> Run \cup {None}]
  BY DEF Types, TypeOK, WellFormed
<1>2. d \notin made /\ old[d] = None
      /\ \A s \in Conversation : <<s, d>> \notin recorded \cup applied
  BY <1>0 DEF Unwritten, Unopened, Unrecorded
<1>3. Unwritten'
  BY <1>0, <1>2 DEF Unwritten, Unopened, Unrecorded
<1>4. Chains'
  <2>1. \A q \in Process : \A e \in Held(q) : e # d /\ e \in Run
    BY <1>0, <1>1 DEF Distincts, Held, Members
  <2>2. \A q \in Process : merging[q] # d
    BY <1>0, <1>1 DEF Chains, Unrecorded
  <2>3. \A s \in Conversation, e \in Run : <<s, e>> \in recorded' => s = parent'[e]
    BY <1>0, <1>2 DEF Chains
  <2>4. \A q \in Process : \A e \in Members(cache'[q]) : by'[e] = q
    BY <1>0, <2>1 DEF Chains, Held
  <2>5. \A q \in Process : merging'[q] # None =>
           pc'[merging'[q]] \notin Unrecorded /\ patch'[merging'[q]] \subseteq main'
    BY <1>0, <1>1, <2>2 DEF Chains
  <2>. QED BY <2>3, <2>4, <2>5 DEF Chains, Held
<1>5. Staged'
  BY <1>0, <1>2 DEF Staged
<1>6. Laid'
  <2>1. ASSUME NEW f \in Run, old[f] # None
        PROVE  f # d /\ old[f] \in Run \ {d}
    BY <1>0, <1>1, <1>2, <2>1 DEF Laid, Unrecorded
  <2>. QED BY <1>0, <2>1 DEF Laid
<1>7. Safe'
  <2>1. \A x \in made : x \in Run \ {d}
    BY <1>2 DEF Types, TypeOK
  <2>2. \A x : Backed(x) => Backed(x)'
    BY <1>0 DEF Backed, OnOffer, Unapplied
  <2>. QED BY <1>0, <2>1, <2>2 DEF Safe
<1>. QED BY <1>3, <1>4, <1>5, <1>6, <1>7

LEMMA SweepWork ==
    ASSUME Types, Lifetimes, WorkParts, NEW p \in Process, Sweep(p)
    PROVE  WorkParts'
<1> USE DEF WorkParts
<1>1. /\ UNCHANGED <<owner, merging, cache, pc, of, by, parent, old, patch,
                     preserved, recorded, applied, made, main, undone, robbed>>
      /\ \/ tree' = tree
         \/ \E gone \in SUBSET Sweepable(p) :
               tree' = [a \in Agent |-> IF a \in gone THEN Absent ELSE tree[a]]
  BY DEF Sweep, memory, identity, result, log, history
<1>2. \A b \in Agent : \/ tree'[b] = tree[b]
                       \/ tree'[b] = Absent /\ tree[b].edits = {}
  BY <1>1 DEF Sweepable
<1>3. Unwritten' /\ Chains'
  BY <1>1 DEF Unwritten, Chains, Held
<1>4. \A e \in Run : pc[e] # "idle" => of[e] \in Agent
  BY DEF Lifetimes
<1>5. Staged'
  BY <1>1, <1>2, <1>4 DEF Staged, Absent
<1>6. Laid'
  BY <1>1, <1>2, <1>4 DEF Laid, Absent
<1>7. Safe'
  <2>1. \A x \in made : x \in Run /\ pc[x] # "idle"
    BY DEF Unwritten, Unopened, Types, TypeOK
  <2>. QED BY <1>1, <1>2, <1>4, <2>1 DEF Safe, Backed, OnOffer, Unapplied
<1>. QED BY <1>3, <1>5, <1>6, <1>7

LEMMA CrashWork ==
    ASSUME Types, WorkParts, NEW p \in Process, Crash(p)
    PROVE  WorkParts'
<1> USE DEF WorkParts
<1>1. /\ cache' = [cache EXCEPT ![p] = <<>>]
      /\ merging' = [merging EXCEPT ![p] = None]
      /\ pc' = [d \in Run |-> IF by[d] = p /\ pc[d] \notin Over THEN "lost"
                              ELSE pc[d]]
      /\ UNCHANGED <<owner, tree, of, by, parent, old, patch, preserved,
                     recorded, applied, made, main, undone, robbed>>
  BY DEF Crash, identity, result, log, history
<1>2. /\ cache \in [Process -> Seq(Run)] /\ merging \in [Process -> Run \cup {None}]
      /\ old \in [Run -> Run \cup {None}] /\ made \subseteq Run
  BY DEF Types, TypeOK
<1>3. \A e \in Run : pc'[e] = "lost" \/ pc'[e] = pc[e]
  BY <1>1
<1>4. Unwritten'
  BY <1>1, <1>3 DEF Unwritten, Unopened, Unrecorded
<1>5. Chains'
  <2>1. \A q \in Process : \A e \in Members(cache'[q]) : e \in Held(q)
    BY <1>1, <1>2 DEF Held, Members
  <2>2. \A q \in Process : merging'[q] # None =>
           merging'[q] = merging[q] /\ merging[q] \in Run
    BY <1>1, <1>2
  <2>3. \A e \in Run : pc[e] \notin Unrecorded => pc'[e] \notin Unrecorded
    BY <1>3 DEF Unrecorded
  <2>. QED BY <1>1, <2>1, <2>2, <2>3 DEF Chains, Held
<1>6. Staged'
  BY <1>1, <1>3 DEF Staged
<1>7. Laid'
  BY <1>1, <1>2, <1>3 DEF Laid, Unrecorded
<1>8. Safe'
  BY <1>1, <1>2, <1>3 DEF Safe, Backed, OnOffer, Unapplied
<1>. QED BY <1>4, <1>5, <1>6, <1>7, <1>8

LEMMA MergeWork ==
    ASSUME Types, Lifetimes, Distincts, WorkParts, NEW p \in Process,
           NEW d \in Run, Merge(p, d)
    PROVE  WorkParts'
<1> USE DEF WorkParts
<1>1. /\ main' = main \cup patch[d] /\ merging' = [merging EXCEPT ![p] = d]
      /\ LiveOn(p) = {} /\ d \in Offered(p) /\ proc[p] = "up"
      /\ UNCHANGED <<owner, cache, tree, pc, of, by, parent, old, patch,
                     preserved, recorded, applied, made, undone, robbed>>
  BY DEF Merge, memory, disk, identity, result, log
<1>2. pc[d] \notin Unrecorded
  <2>1. CASE d \in Unapplied(owner[p])
    BY <1>1, <2>1 DEF Unapplied, Lifetimes, Unwritten
  <2>2. CASE d \in Held(p)
    <3>1. /\ pc[d] \notin {"idle", "adding", "marking", "restoring", "working"}
          /\ by[d] = p
      BY <2>2 DEF Distincts, Chains
    <3>2. pc[d] \notin Live
      BY <1>1, <3>1 DEF LiveOn
    <3>. QED BY <3>1, <3>2 DEF Unrecorded, Live
  <2>. QED BY <1>1, <2>1, <2>2 DEF Offered
<1>3. merging \in [Process -> Run \cup {None}]
  BY DEF Types, TypeOK
<1>4. Unwritten' /\ Laid'
  BY <1>1 DEF Unwritten, Laid
<1>5. Chains'
  BY <1>1, <1>2, <1>3 DEF Chains, Held
<1>6. Staged'
  BY <1>1 DEF Staged
<1>7. Safe'
  BY <1>1 DEF Safe, Backed, OnOffer, Unapplied
<1>. QED BY <1>4, <1>5, <1>6, <1>7

LEMMA ForgetWork ==
    ASSUME Types, Lifetimes, Roster, Distincts, WorkParts, NEW p \in Process,
           Forget(p)
    PROVE  WorkParts'
<1> USE DEF WorkParts
<1>1. /\ cache' = [cache EXCEPT ![p] = Forgetting(@, merging[p])]
      /\ merging[p] # None /\ merging' = [merging EXCEPT ![p] = None]
      /\ applied' = applied \/ applied' = applied \cup {<<owner[p], merging[p]>>}
      /\ UNCHANGED <<owner, tree, pc, of, by, parent, old, patch, preserved,
                     recorded, made, main, undone, robbed>>
  BY DEF Forget, CloseInLog, disk, identity, result, history
<1>2. /\ cache \in [Process -> Seq(Run)] /\ merging \in [Process -> Run \cup {None}]
  BY DEF Types, TypeOK
<1>3. pc[merging[p]] \notin Unrecorded /\ patch[merging[p]] \subseteq main
  BY <1>1 DEF Chains
<1>4. Unwritten'
  BY <1>1, <1>3 DEF Unwritten
<1>5. Chains'
  <2>1. ASSUME NEW q \in Process
        PROVE  Members(cache'[q]) \subseteq Held(q)
    <3>1. CASE q = p
      <4>1. cache[p] \in Seq(Run) /\ Distinct(cache[p])
            /\ cache'[p] = Forgetting(cache[p], merging[p])
        BY <1>1, <1>2 DEF Distincts
      <4>. QED BY <3>1, <4>1, ForgettingFacts DEF Held
    <3>2. CASE q # p
      BY <1>1, <1>2, <3>2 DEF Held
    <3>. QED BY <3>1, <3>2
  <2>2. \A q \in Process : merging'[q] # None => merging'[q] = merging[q]
    BY <1>1, <1>2
  <2>. QED BY <1>1, <2>1, <2>2 DEF Chains, Held
<1>6. Staged'
  BY <1>1, <1>3 DEF Staged
<1>7. Laid'
  BY <1>1 DEF Laid
<1>8. Safe'
  <2>1. \A x : Backed(x) => Backed(x)'
    BY <1>1, <1>3 DEF Backed, OnOffer, Unapplied
  <2>. QED BY <1>1, <2>1 DEF Safe
<1>. QED BY <1>4, <1>5, <1>6, <1>7, <1>8

LEMMA ProcessStepWork ==
    ASSUME Types, Lifetimes, Roster, Distincts, WorkParts, NEW p \in Process,
           ProcessStep(p)
    PROVE  WorkParts'
<1>1. CASE Start(p) \/ Adopt(p)
  <2>1. UNCHANGED <<merging, cache, tree, pc, of, by, parent, old, patch,
                    preserved, recorded, applied, made, main, undone, robbed>>
    BY <1>1 DEF Start, Adopt, memory, disk, identity, result, log, history
  <2>. QED
    BY <2>1
    DEF WorkParts, Unwritten, Chains, Staged, Laid, Safe, Held, Backed, OnOffer,
        Unapplied
<1>. QED
  BY <1>1, SweepWork, CrashWork, ForgetWork, MergeWork, BeginWork
  DEF ProcessStep

-----------------------------------------------------------------------------
(* What holds of the work.                                                 *)

WorkInv == CheckoutInv /\ WorkParts

LEMMA WorkStart ==
    ASSUME WellFormed, Init
    PROVE  WorkInv
<1>1. WorkParts
  <2>1. Members(<<>>) = {}
    BY DEF Members
  <2>. QED
    BY <2>1
    DEF Init, WorkParts, Unwritten, Chains, Staged, Laid, Safe, Held
<1>. QED BY <1>1, CheckoutStart DEF WorkInv

LEMMA WorkStep ==
    ASSUME WellFormed, WorkInv, [Next]_vars
    PROVE  WorkInv'
<1>1. CheckoutInv'
  BY CheckoutStep DEF WorkInv
<1>2. ASSUME NEW d \in Run, RunStep(d)
      PROVE  WorkParts'
  BY <1>2, RunStepUnwritten, RunStepChains, RunStepStaged, RunStepLaid,
     RunStepSafe
  DEF WorkInv, WorkParts, CheckoutInv, Types
<1>3. ASSUME NEW p \in Process, ProcessStep(p)
      PROVE  WorkParts'
  BY <1>3, ProcessStepWork DEF WorkInv, CheckoutInv, Types
<1>4. CASE UNCHANGED vars
  <2>1. UNCHANGED <<merging, cache, tree, pc, of, by, parent, old, patch,
                    preserved, recorded, applied, made, main, undone, robbed>>
    BY <1>4 DEF vars, process, memory, disk, identity, result, log, history
  <2>2. Unwritten' /\ Chains' /\ Staged' /\ Laid'
    BY <2>1 DEF WorkInv, WorkParts, Unwritten, Chains, Staged, Laid, Held
  <2>3. \A x : Backed(x) => Backed(x)'
    BY <2>1 DEF Backed, OnOffer, Unapplied
  <2>4. Safe'
    BY <2>1, <2>3 DEF WorkInv, WorkParts, Safe
  <2>. QED BY <1>1, <2>2, <2>4 DEF WorkInv, WorkParts
<1>. QED BY <1>1, <1>2, <1>3, <1>4 DEF Next, WorkInv

\* Patches, the log and the checkouts agree on the work of every run: it is
\* taken, recorded, then removed from disk (execute, lib.rs).
THEOREM WorkInvariant == Spec => []WorkInv
<1>1. Init => WorkInv
  BY WorkStart, WorkAssumption
<1>2. WorkInv /\ [Next]_vars => WorkInv'
  BY WorkStep, WorkAssumption
<1>. QED BY <1>1, <1>2, PTL DEF Spec

\* No crash, sweep, eviction, failed command or lost append drops what an agent
\* changed, for any number of processes and runs (lib.rs, worktree.rs).
THEOREM WorkIsAlwaysKept == Spec => []WorkKept
<1>1. WorkInv => WorkKept
  <2>1. ASSUME WorkInv, NEW d \in made \ (undone \cup robbed)
        PROVE  d \in main \/ OnDisk(d) \/ OnOffer(d)
    <3>1. d \in Run /\ (Backed(d) \/ d \in tree[of[d]].edits)
      BY <2>1 DEF WorkInv, WorkParts, CheckoutInv, TypeOK, Safe
    <3>2. of[d] \in Agent
      BY <2>1, <3>1
      DEF WorkInv, WorkParts, CheckoutInv, Lifetimes, Unwritten, Unopened
    <3>. QED BY <2>1, <3>1, <3>2 DEF Backed, OnDisk
  <2>. QED BY <2>1 DEF WorkKept
<1>. QED BY <1>1, WorkInvariant, PTL

-----------------------------------------------------------------------------
(* The handouts of an agent.                                               *)

Past == {"refused", "ending", "over", "lost"}

\* Runs are taken in order by processes that are up, and those of an agent one
\* after the other.
Queued ==
    /\ \A d, e \in Run : d < e /\ pc[e] # "idle" => pc[d] # "idle"
    /\ \A e, f \in Run : e < f /\ of[e] = of[f] /\ of[f] \in Agent => pc[e] \in Past
    /\ \A d \in Run : pc[d] # "idle" => proc[by[d]] \in {"up", "dead"}

\* Work that is preserved was not recorded, and neither was that of a run
\* that was refused or panicked.
Unlogged ==
    \A d \in Run :
        /\ pc[d] \in {"refused", "preserving", "panicked"} \/ d \in preserved =>
              \A s \in Conversation : <<s, d>> \notin recorded
        /\ pc[d] = "refused" => \A p \in Process : d \notin Held(p)
        /\ d \in preserved => pc[d] \in {"settling", "ending", "over", "lost"}

\* A checkout with preserved work keeps its lease, so that nobody enters it.
Kept ==
    \A f \in preserved \ robbed :
        /\ proc[by[f]] = "up" => of[f] \in leases[by[f]]
        /\ \A g \in Run : f < g /\ of[g] = of[f] => pc[g] \in {"refused", "lost"}

\* A handout that is on offer, in memory or in the log.
Pend(e) ==
    \/ <<parent[e], e>> \in recorded \ applied /\ e \notin unclosed
    \/ by[e] \in Process /\ e \in Held(by[e])

Unrobbed(a) == RunsOf(a) \cap robbed = {}

\* While a handout is on offer a later run of the agent continues it, and does
\* not get past closing it but by preserving its own work.
Handouts ==
    \A e, f \in Run :
        e < f /\ of[e] = of[f] /\ of[f] \in Agent /\ Unrobbed(of[f]) /\ Pend(e) =>
            /\ pc[f] \in {"working", "recording", "closing"} => old[f] = e
            /\ pc[f] \notin {"tombstone", "reaping"}
            /\ pc[f] \in {"settling", "ending", "over"} => f \in preserved

LEMMA RunStepQueued ==
    ASSUME Types, Lifetimes, Queued, NEW d \in Run, RunStep(d)
    PROVE  Queued'
<1>1. /\ Pointwise(d) /\ pc[d] # "idle" /\ pc'[d] # "idle"
      /\ UNCHANGED <<of, by, proc>>
  BY StepIsPointwise, Busy DEF Pointwise
<1>2. \A e \in Run : pc[e] \in Past => pc'[e] \in Past
  BY <1>1 DEF Pointwise, Moves, Past
<1>3. \A e \in Run : pc'[e] = "idle" <=> pc[e] = "idle"
  BY <1>1 DEF Pointwise
<1>. QED BY <1>1, <1>2, <1>3 DEF Queued

LEMMA RunStepUnlogged ==
    ASSUME Types, Lifetimes, Distincts, Unwritten, Unlogged, NEW d \in Run,
           RunStep(d)
    PROVE  Unlogged'
<1>1. /\ Pointwise(d) /\ pc \in [Run -> Label]
      /\ preserved' = preserved \/ (pc[d] = "preserving" /\ preserved' = preserved \cup {d}
                                    /\ pc'[d] = "settling")
  BY StepIsPointwise, GuardsChange DEF Pointwise
<1>2. \A s \in Conversation, e \in Run : <<s, e>> \in recorded' =>
         <<s, e>> \in recorded \/ (e = d /\ pc[d] = "recording"
                                   /\ pc'[d] \in {"closing", "reaping"})
  BY LogChange, Departures
<1>3. ASSUME NEW e \in Run, e \in preserved'
      PROVE  pc'[e] \in {"settling", "ending", "over", "lost"}
  <2>1. CASE e \in preserved
    BY <1>1, <2>1 DEF Unlogged, Pointwise, Moves
  <2>. QED BY <1>1, <1>3, <2>1
<1>4. ASSUME NEW e \in Run,
             pc'[e] \in {"refused", "preserving", "panicked"} \/ e \in preserved',
             NEW s \in Conversation
      PROVE  <<s, e>> \notin recorded'
  <2>1. pc'[e] \in {"refused", "preserving", "panicked", "settling", "ending", "over", "lost"}
    BY <1>3, <1>4
  <2>2. <<s, e>> \notin recorded
    <3>1. CASE e \in preserved \/ pc[e] \in {"refused", "preserving", "panicked"}
      BY <3>1 DEF Unlogged
    <3>2. CASE ~(e \in preserved \/ pc[e] \in {"refused", "preserving", "panicked"})
      <4>1. pc[e] \in Unrecorded
        BY <1>1, <1>4, <3>2 DEF Pointwise, Moves, Unrecorded
      <4>. QED BY <4>1 DEF Unwritten
    <3>. QED BY <3>1, <3>2
  <2>. QED BY <1>2, <2>1, <2>2
<1>5. ASSUME NEW e \in Run, pc'[e] = "refused", NEW p \in Process
      PROVE  e \notin Members(cache'[p])
  <2>1. e \notin Held(p)
    BY <1>1, <1>5 DEF Unlogged, Distincts, Pointwise, Moves
  <2>2. e = d => pc[d] # "working"
    BY <1>1, <1>5 DEF Pointwise, Moves
  <2>. QED BY <2>1, <2>2, HeldChange
<1>. QED BY <1>3, <1>4, <1>5 DEF Unlogged, Held

LEMMA RunStepKept ==
    ASSUME Types, Lifetimes, Roster, Possession, Queued, Unlogged, Kept,
           NEW d \in Run, RunStep(d)
    PROVE  Kept'
<1>1. /\ Pointwise(d) /\ of[d] \in Agent /\ by[d] \in Process /\ proc[by[d]] = "up"
      /\ UNCHANGED <<of, by, proc>> /\ robbed \subseteq robbed'
      /\ preserved' = preserved \/ (pc[d] = "preserving" /\ preserved' = preserved \cup {d}
                                    /\ pc'[d] = "settling")
  BY StepIsPointwise, Busy, HistoryGrows, GuardsChange DEF Pointwise
<1>2. Run \subseteq Nat /\ leases \in [Process -> SUBSET Agent] /\ preserved \subseteq Run
  BY DEF Types, TypeOK, WellFormed
<1>3. ASSUME NEW f \in Run, f \in preserved' \ robbed', f \notin preserved
      PROVE  /\ of[f] \in leases'[by[f]]
             /\ \A g \in Run : f < g /\ of[g] = of[f] => pc'[g] \in {"refused", "lost"}
  <2>1. f = d /\ pc[d] = "preserving" /\ pc'[d] = "settling"
    BY <1>1, <1>3
  <2>2. \A g \in Run : f < g => of[g] # of[f]
    BY <1>1, <2>1 DEF Queued, Past
  <2>3. of[d] \in leases[by[d]]
    BY <1>1, <1>3, <2>1 DEF Possession, Live
  <2>4. leases' = leases
    <3>1. ~\E m \in {"refused", "panicked", "over"} : pc' = [pc EXCEPT ![d] = m]
      BY <1>1, <2>1 DEF Pointwise
    <3>. QED BY <2>1, <3>1, LeasesGo
  <2>. QED BY <2>1, <2>2, <2>3, <2>4
<1>4. ASSUME NEW f \in Run, f \in preserved \ robbed'
      PROVE  /\ proc[by[f]] = "up" => of[f] \in leases'[by[f]]
             /\ \A g \in Run : f < g /\ of[g] = of[f] => pc'[g] \in {"refused", "lost"}
  <2>1. /\ proc[by[f]] = "up" => of[f] \in leases[by[f]]
        /\ \A g \in Run : f < g /\ of[g] = of[f] => pc[g] \in {"refused", "lost"}
        /\ pc[f] \in {"settling", "ending", "over", "lost"}
    BY <1>1, <1>4 DEF Kept, Unlogged
  <2>2. \A g \in Run : pc[g] \in {"refused", "lost"} => pc'[g] = pc[g]
    BY <1>1 DEF Pointwise, Moves
  <2>3. ASSUME proc[by[f]] = "up"
        PROVE  of[f] \in leases'[by[f]]
    <3>1. CASE of[f] # of[d] \/ leases' = leases
      <4>1. by[f] \in Process /\ of[f] \in Agent
        BY <2>1 DEF Lifetimes
      <4>. QED BY <1>1, <2>1, <2>3, <3>1, <4>1 DEF Pointwise
    <3>2. CASE of[f] = of[d] /\ leases' # leases
      <4>1. \/ pc[d] \in {"adding", "marking", "reaping"}
            \/ Hit(d) \subseteq robbed' /\ d \notin preserved
        BY <3>2, LeasesGo
      <4>2. CASE pc[d] \in {"adding", "marking", "reaping"}
        <5>1. f # d /\ ~(d < f)
          BY <1>1, <2>1, <3>2, <4>2 DEF Queued, Past
        <5>2. ~(f < d)
          BY <2>1, <3>2, <4>2
        <5>. QED BY <1>2, <5>1, <5>2
      <4>3. CASE Hit(d) \subseteq robbed' /\ d \notin preserved
        <5>1. f \in Hit(d)
          BY <1>1, <1>4, <3>2, <4>3, Hits
        <5>. QED BY <1>4, <4>3, <5>1
      <4>. QED BY <4>1, <4>2, <4>3
    <3>. QED BY <3>1, <3>2
  <2>. QED BY <2>1, <2>2, <2>3
<1>. QED BY <1>1, <1>2, <1>3, <1>4 DEF Kept

\* A run that leaves "closing" has taken what it continued off offer.
LEMMA Closes ==
    ASSUME Types, Lifetimes, NEW d \in Run, RunStep(d), pc[d] = "closing"
    PROVE  /\ cache' = [cache EXCEPT ![by[d]] = Forgetting(@, old[d])]
           /\ <<parent[d], old[d]>> \in applied' \/ old[d] \in unclosed'
<1>1. d \notin cleanups
  BY DEF Lifetimes
<1>. QED
  BY <1>1
  DEF RunStep, AddTree, MarkTree, Restore, Abandon, Edit, Extract, Record,
       Close, Tombstone, Reap, Preserve, Settle, End, Panic, Cleanup,
       CloseInLog

LEMMA PendShrinks ==
    ASSUME Types, Lifetimes, Distincts, Queued, NEW d \in Run, RunStep(d),
           NEW e \in Run, NEW f \in Run, e < f, of[e] = of[f], of[f] \in Agent,
           Pend(e)'
    PROVE  Pend(e)
<1>1. pc[e] \in Past /\ UNCHANGED <<parent, by>>
  BY HistoryGrows DEF Queued, identity
<1>2. CASE <<parent[e], e>> \in recorded' \ applied' /\ e \notin unclosed'
  <2>1. <<parent[e], e>> \notin applied /\ e \notin unclosed
    BY <1>2, HistoryGrows
  <2>2. <<parent[e], e>> \in recorded
    BY <1>1, <1>2, LogChange DEF Past
  <2>. QED BY <2>1, <2>2 DEF Pend
<1>3. CASE by[e] \in Process /\ e \in Members(cache'[by[e]])
  <2>1. e \in Held(by[e])
    BY <1>1, <1>3, HeldChange DEF Past
  <2>. QED BY <1>3, <2>1 DEF Pend
<1>. QED BY <1>1, <1>2, <1>3 DEF Pend, Held

\* A follow-up continues from the handout that is on offer: there is no other.
LEMMA PendingIs ==
    ASSUME Types, Lifetimes, Roster, Distincts, Unwritten, Chains, Queued,
           Unlogged, Kept, Handouts,
           NEW d \in Run, pc[d] = "restoring", NEW e \in Run, e < d,
           of[e] = of[d], Unrobbed(of[d]), Pend(e)
    PROVE  Pending(by[d], of[d]) = {e}
<1>1. /\ pc[d] \in Live /\ of[d] \in Agent /\ by[d] \in Process
      /\ parent[d] = owner[by[d]] /\ parent[d] \in Conversation
      /\ proc[by[d]] = "up" /\ Run \subseteq Nat
  BY DEF Lifetimes, Roster, Live, Types, WellFormed
<1> DEFINE Offers(g) == g \in Held(by[d]) \/ <<parent[d], g>> \in recorded
<1>2. ASSUME NEW g \in RunsOf(of[d]), Offers(g)
      PROVE  /\ g \in Run /\ of[g] = of[d] /\ by[g] = by[d] /\ parent[g] = parent[d]
             /\ pc[g] \in {"ending", "over"} /\ g \notin preserved
  <2>1. g \in Run /\ of[g] = of[d]
    BY DEF RunsOf
  <2>2. g # d
    BY <1>1, <1>2 DEF Distincts, Unwritten, Unrecorded
  <2>3. by[g] = by[d] /\ parent[g] = parent[d]
    BY <1>1, <2>1, <2>2 DEF Roster
  <2>4. ~(d < g)
    BY <1>1, <2>1 DEF Queued, Past
  <2>5. g < d
    BY <1>1, <2>1, <2>2, <2>4
  <2>6. pc[g] \in Past /\ pc[g] # "lost"
    BY <1>1, <2>1, <2>3, <2>5 DEF Queued, Lifetimes
  <2>7. pc[g] # "refused"
    BY <1>1, <1>2, <2>1 DEF Unlogged
  <2>8. g \notin robbed
    BY <2>1 DEF Unrobbed, RunsOf
  <2>9. g \notin preserved
    BY <2>1, <2>5, <2>8 DEF Kept
  <2>. QED BY <2>1, <2>3, <2>6, <2>7, <2>9 DEF Past
<1>3. ASSUME NEW g \in RunsOf(of[d]), Offers(g), NEW h \in RunsOf(of[d]), h < g
      PROVE  ~Pend(h)
  <2>1. /\ g \in Run /\ of[g] = of[d] /\ pc[g] \in {"ending", "over"}
        /\ g \notin preserved
    BY <1>2, <1>3
  <2>2. h \in Run /\ of[h] = of[d]
    BY DEF RunsOf
  <2>. QED BY <1>1, <1>3, <2>1, <2>2 DEF Handouts
<1>4. e # d /\ by[e] = by[d] /\ parent[e] = parent[d] /\ e \in RunsOf(of[d])
  BY <1>1 DEF Roster, RunsOf
<1>5. /\ e \in Held(by[d]) \/ e \in Unapplied(owner[by[d]])
      /\ Offers(e)
  BY <1>1, <1>4 DEF Pend, Unapplied
<1> DEFINE held == RunsOf(of[d]) \cap Held(by[d])
           offered == Unapplied(owner[by[d]]) \cap RunsOf(of[d])
           D == IF held # {} THEN held ELSE offered
<1>6. \A g \in D : g \in RunsOf(of[d]) /\ Offers(g)
  BY <1>1 DEF Unapplied
<1>7. \A g \in D : g \in Nat /\ e \in Nat /\ g <= e
  <2>1. ASSUME NEW g \in D
        PROVE  g \in Nat /\ e \in Nat /\ g <= e
    <3>1. g \in Nat /\ e \in Nat
      BY <1>1, <1>6 DEF RunsOf
    <3>2. ~(e < g)
      BY <1>3, <1>4, <1>6
    <3>. QED BY <3>1, <3>2
  <2>. QED BY <2>1
<1>8. e \in D
  <2>1. CASE held = {}
    BY <1>4, <1>5, <2>1
  <2>2. CASE held # {} /\ e \notin held
    <3>1. PICK g \in held : TRUE
      BY <2>2
    <3>2. g \in RunsOf(of[d]) /\ Offers(g) /\ g # e /\ g \in D
      BY <2>2, <3>1
    <3>3. g < e
      BY <1>7, <3>2
    <3>4. by[g] = by[d]
      BY <1>2, <3>2
    <3>5. Pend(g)
      BY <1>1, <3>1, <3>4 DEF Pend
    <3>. QED BY <1>3, <1>4, <1>5, <3>2, <3>3, <3>5
  <2>. QED BY <2>1, <2>2
<1>9. Pending(by[d], of[d]) = Newest(D)
  BY DEF Pending
<1> HIDE DEF D
<1>. QED BY <1>7, <1>8, <1>9 DEF Newest

LEMMA RunStepHandouts ==
    ASSUME Types, Lifetimes, Roster, Distincts, Unwritten, Chains, Laid, Queued,
           Unlogged, Kept, Handouts, NEW d \in Run, RunStep(d)
    PROVE  Handouts'
<1>1. /\ Pointwise(d) /\ UNCHANGED <<of, by, parent>> /\ of[d] \in Agent
      /\ by[d] \in Process /\ robbed \subseteq robbed' /\ preserved \subseteq preserved'
      /\ pc \in [Run -> Label] /\ old \in [Run -> Run \cup {None}]
      /\ None \notin Run /\ cache \in [Process -> Seq(Run)]
  <2>1. Pointwise(d) /\ of[d] \in Agent /\ by[d] \in Process
    BY StepIsPointwise, Busy
  <2>2. /\ pc \in [Run -> Label] /\ old \in [Run -> Run \cup {None}]
        /\ None \notin Run /\ cache \in [Process -> Seq(Run)]
    BY DEF Types, TypeOK, Label, WellFormed
  <2>. QED BY <2>1, <2>2, HistoryGrows DEF identity
<1>2. ASSUME NEW e \in Run, NEW f \in Run, e < f, of[e] = of[f],
             of[f] \in Agent,
             Unrobbed(of[f])', Pend(e)'
      PROVE  /\ pc'[f] \in {"working", "recording", "closing"} => old'[f] = e
             /\ pc'[f] \notin {"tombstone", "reaping"}
             /\ pc'[f] \in {"settling", "ending", "over"} => f \in preserved'
  <2>1. Unrobbed(of[f]) /\ Pend(e)
    BY <1>1, <1>2, PendShrinks DEF Unrobbed, RunsOf
  <2>2. /\ pc[f] \in {"working", "recording", "closing"} => old[f] = e
        /\ pc[f] \notin {"tombstone", "reaping"}
        /\ pc[f] \in {"settling", "ending", "over"} => f \in preserved
    BY <1>2, <2>1 DEF Handouts
  <2>3. CASE f # d
    BY <1>1, <2>2, <2>3 DEF Pointwise
  <2>4. CASE f = d /\ pc'[d] = pc[d]
    <3>1. pc[d] = "working" => old' = old
      BY <2>4, Arrivals
    <3>2. pc[d] # "working" => old' = old
      BY <2>4, Departures
    <3>. QED BY <1>1, <2>2, <2>4, <3>1, <3>2
  <2>5. CASE f = d /\ Moves(pc[d], pc'[d])
    <3>1. ASSUME pc[d] = "closing"
          PROVE  FALSE
      <4>1. old[d] = e /\ parent[e] = parent[d] /\ by[e] = by[d]
        BY <1>1, <1>2, <2>2, <2>5, <3>1 DEF Roster, Laid
      <4>2. /\ cache' = [cache EXCEPT ![by[d]] = Forgetting(@, e)]
            /\ <<parent[e], e>> \in applied' \/ e \in unclosed'
        BY <3>1, <4>1, Closes
      <4>3. e \notin Members(cache'[by[d]])
        <5>1. cache[by[d]] \in Seq(Run) /\ Distinct(cache[by[d]])
          BY <1>1 DEF Distincts
        <5>2. Members(Forgetting(cache[by[d]], e)) = Members(cache[by[d]]) \ {e}
          BY <5>1, ForgettingFacts
        <5>. QED BY <1>1, <4>2, <5>2
      <4>. QED BY <1>1, <1>2, <4>1, <4>2, <4>3 DEF Pend, Held
    <3>2. ASSUME pc'[d] = "working"
          PROVE  old'[d] = e
      <4>1. pc[d] = "restoring"
        BY <2>5, <3>2 DEF Moves
      <4>2. Pending(by[d], of[d]) = {e}
        BY <1>2, <2>1, <2>5, <4>1, PendingIs
      <4>3. old' = [old EXCEPT ![d] = e]
        BY <3>2, <4>1, <4>2, Arrivals
      <4>. QED BY <1>1, <4>3
    <3>3. ASSUME pc'[d] \in {"recording", "closing"}
          PROVE  old'[d] = e
      <4>1. pc[d] \in {"working", "recording"}
        BY <2>5, <3>3 DEF Moves
      <4>2. old' = old
        BY <3>3, Departures
      <4>. QED BY <2>2, <2>5, <4>1, <4>2
    <3>4. pc'[d] # "tombstone"
      BY <2>5, <3>1 DEF Moves
    <3>5. pc'[d] # "reaping"
      <4>1. ASSUME pc'[d] = "reaping"
            PROVE  FALSE
        <5>1. pc[d] \in {"working", "recording"} /\ old[d] = None
          BY <2>2, <2>5, <3>1, <4>1, Arrivals
        <5>. QED BY <1>1, <2>2, <2>5, <5>1
      <4>. QED BY <4>1
    <3>6. ASSUME pc'[d] \in {"settling", "ending", "over"}
          PROVE  d \in preserved'
      <4>1. pc[d] \in {"preserving", "settling", "ending"}
        BY <2>2, <2>5, <3>6 DEF Moves
      <4>. QED BY <1>1, <2>2, <2>5, <4>1, Outcomes
    <3>. QED BY <2>5, <3>2, <3>3, <3>4, <3>5, <3>6
  <2>. QED BY <1>1, <2>3, <2>4, <2>5 DEF Pointwise
<1>. QED BY <1>1, <1>2 DEF Handouts

-----------------------------------------------------------------------------
(* What holds of the handouts.                                             *)

HandoutParts == Queued /\ Unlogged /\ Kept /\ Handouts

LEMMA BeginHandouts ==
    ASSUME Types, Lifetimes, Roster, Distincts, WorkParts, HandoutParts,
           NEW p \in Process, NEW a \in Agent, NEW d \in Run, Begin(p, a, d)
    PROVE  HandoutParts'
<1> USE DEF HandoutParts
<1>1. /\ pc[d] = "idle" /\ pc'[d] \in {"refused", "adding"} /\ of[d] = None
      /\ of'[d] = a /\ by'[d] = p /\ parent'[d] = owner[p]
      /\ \A e \in Run \ {d} : /\ of'[e] = of[e] /\ by'[e] = by[e]
                              /\ parent'[e] = parent[e] /\ pc'[e] = pc[e]
      /\ UNCHANGED <<proc, cache, old, preserved, recorded, applied, unclosed,
                     robbed>>
  BY BeginFacts
<1>2. /\ Run \subseteq Nat /\ None \notin Agent /\ preserved \subseteq Run
      /\ cache \in [Process -> Seq(Run)] /\ leases \in [Process -> SUBSET Agent]
  BY DEF Types, TypeOK, WellFormed
<1>3. /\ \A e \in Run : e < d => pc[e] # "idle"
      /\ RunsOf(a) = {} \/ a \in rows[p]
      /\ pc'[d] = "refused" \/ a \notin leases[p]
      /\ \A q \in Process : leases[q] \subseteq leases'[q]
  <2>1. pc \in [Run -> Label]
    BY DEF Types, TypeOK, Label
  <2>2. /\ \A e \in Run : e < d => e \in Taken
        /\ RunsOf(a) = {} \/ a \in rows[p]
        /\ \/ pc' = [pc EXCEPT ![d] = "refused"] /\ leases' = leases
           \/ a \notin leases[p] /\ leases' = [leases EXCEPT ![p] = @ \cup {a}]
    BY DEF Begin, Goto
  <2>3. \A q \in Process : leases[q] \subseteq leases'[q]
    BY <1>2, <2>2
  <2>. QED BY <2>1, <2>2, <2>3 DEF Taken
<1>4. ASSUME NEW e \in Run \ {d}, of[e] = a
      PROVE  /\ e < d /\ pc[e] \in Past /\ by[e] = p /\ proc[by[e]] = "up"
  <2>1. by[e] = p /\ pc[e] \notin Live
    BY <1>3, <1>4 DEF RunsOf, Roster
  <2>2. pc[e] # "idle"
    BY <1>2, <1>4 DEF Lifetimes
  <2>3. ~(d < e)
    BY <1>1, <2>2 DEF Queued
  <2>4. pc[e] \in Past
    BY <2>1, <2>2 DEF Types, TypeOK, Over, Past
  <2>5. proc[p] = "up"
    BY DEF Begin
  <2>. QED BY <1>2, <1>4, <2>1, <2>3, <2>4, <2>5
<1>5. Queued'
  <2>1. \A b, e \in Run : b < e /\ pc'[e] # "idle" => pc'[b] # "idle"
    BY <1>1, <1>3 DEF Queued
  <2>2. ASSUME NEW e \in Run, NEW f \in Run, e < f, of'[e] = of'[f],
               of'[f] \in Agent
        PROVE  pc'[e] \in Past
    <3>1. CASE f = d
      <4>1. e # d /\ of[e] = a /\ pc'[e] = pc[e]
        BY <1>1, <1>2, <2>2, <3>1
      <4>. QED BY <1>4, <4>1
    <3>2. CASE e = d
      <4>1. f # d /\ of[f] = a /\ f < d
        BY <1>1, <1>2, <1>4, <2>2, <3>2
      <4>. QED BY <1>2, <2>2, <3>2, <4>1
    <3>3. CASE e # d /\ f # d
      BY <1>1, <2>2, <3>3 DEF Queued
    <3>. QED BY <3>1, <3>2, <3>3
  <2>3. \A e \in Run : pc'[e] # "idle" => proc'[by'[e]] \in {"up", "dead"}
    <3>1. proc[p] = "up"
      BY DEF Begin
    <3>. QED BY <1>1, <3>1 DEF Queued
  <2>. QED BY <2>1, <2>2, <2>3 DEF Queued
<1>6. /\ \A s \in Conversation : <<s, d>> \notin recorded
      /\ \A q \in Process : d \notin Held(q)
      /\ d \notin preserved
  BY <1>1 DEF WorkParts, Unwritten, Unrecorded, Distincts, Unlogged
<1>7. Unlogged'
  BY <1>1, <1>6 DEF Unlogged, Held
<1>8. Kept'
  <2>1. ASSUME NEW f \in preserved \ robbed
        PROVE  /\ proc[by'[f]] = "up" => of'[f] \in leases'[by'[f]]
               /\ \A g \in Run : f < g /\ of'[g] = of'[f] => pc'[g] \in {"refused", "lost"}
    <3>1. f \in Run \ {d} /\ pc[f] # "idle"
      BY <1>2, <1>6, <2>1 DEF Unlogged
    <3>2. by[f] \in Process /\ of[f] \in Agent
      BY <3>1 DEF Lifetimes
    <3>3. /\ proc[by[f]] = "up" => of[f] \in leases[by[f]]
          /\ \A g \in Run : f < g /\ of[g] = of[f] => pc[g] \in {"refused", "lost"}
      BY <2>1 DEF Kept
    <3>4. of[f] = a => pc'[d] = "refused"
      BY <1>3, <1>4, <3>1, <3>3
    <3>. QED BY <1>1, <1>3, <3>1, <3>2, <3>3, <3>4
  <2>. QED BY <1>1, <2>1 DEF Kept
<1>9. Handouts'
  <2>1. ASSUME NEW e \in Run, NEW f \in Run, NEW b \in Agent, e < f,
               of'[e] = b, of'[f] = b, Unrobbed(b)', Pend(e)'
        PROVE  /\ pc'[f] \in {"working", "recording", "closing"} => old'[f] = e
               /\ pc'[f] \notin {"tombstone", "reaping"}
               /\ pc'[f] \in {"settling", "ending", "over"} => f \in preserved'
    <3>1. CASE f = d
      BY <1>1, <3>1
    <3>2. CASE f # d
      <4>1. e # d
        <5>1. CASE e = d
          <6>1. of[f] = a /\ f < d
            BY <1>1, <1>2, <1>4, <2>1, <3>2, <5>1
          <6>. QED BY <1>2, <2>1, <5>1, <6>1
        <5>. QED BY <5>1
      <4>2. of[e] = of[f] /\ of[f] \in Agent
        BY <1>1, <2>1, <3>2, <4>1
      <4>3. Unrobbed(of[f])
        <5>1. \A r \in RunsOf(of[f]) : r \in Run /\ of'[r] = b
          BY <1>1, <1>2, <2>1, <3>2, <4>2 DEF RunsOf
        <5>. QED BY <1>1, <2>1, <5>1 DEF Unrobbed, RunsOf
      <4>4. Pend(e)
        BY <1>1, <2>1, <4>1 DEF Pend, Held
      <4>. QED BY <1>1, <2>1, <3>2, <4>2, <4>3, <4>4 DEF Handouts
    <3>. QED BY <3>1, <3>2
  <2>. QED BY <2>1 DEF Handouts, Unrobbed, RunsOf
<1>. QED BY <1>5, <1>7, <1>8, <1>9

LEMMA CrashHandouts ==
    ASSUME Types, Lifetimes, HandoutParts, NEW p \in Process, Crash(p)
    PROVE  HandoutParts'
<1> USE DEF HandoutParts
<1>1. /\ cache' = [cache EXCEPT ![p] = <<>>]
      /\ leases' = [leases EXCEPT ![p] = {}]
      /\ proc' = [proc EXCEPT ![p] = "dead"]
      /\ pc' = [d \in Run |-> IF by[d] = p /\ pc[d] \notin Over THEN "lost"
                              ELSE pc[d]]
      /\ UNCHANGED <<of, by, parent, old, preserved, recorded, applied,
                     unclosed, robbed>>
  BY DEF Crash, identity, result, log, history
<1>2. /\ cache \in [Process -> Seq(Run)] /\ leases \in [Process -> SUBSET Agent]
      /\ proc \in [Process -> {"off", "sweeping", "up", "dead"}]
      /\ preserved \subseteq Run /\ None \notin Process
  BY DEF Types, TypeOK, WellFormed
<1>3. \A e \in Run : /\ pc'[e] = pc[e] \/ (pc'[e] = "lost" /\ pc[e] \notin Over /\ by[e] = p)
  BY <1>1
<1>4. \A q \in Process : Members(cache'[q]) \subseteq Held(q)
  BY <1>1, <1>2 DEF Held, Members
<1>5. Queued'
  <2>1. \A e \in Run : pc[e] = "idle" => pc'[e] = "idle"
    BY <1>2, <1>3 DEF Lifetimes
  <2>2. \A e \in Run : pc'[e] = "idle" => pc[e] = "idle"
    BY <1>3
  <2>3. \A e \in Run : pc[e] \in Past => pc'[e] \in Past
    BY <1>3 DEF Past
  <2>4. \A e \in Run : pc'[e] # "idle" => proc'[by[e]] \in {"up", "dead"}
    BY <1>1, <1>2, <2>1 DEF Queued
  <2>. QED BY <1>1, <2>1, <2>2, <2>3, <2>4 DEF Queued
<1>6. Unlogged'
  <2>1. \A e \in Run : pc'[e] \in {"refused", "preserving", "panicked"} => pc[e] = pc'[e]
    BY <1>3
  <2>2. \A e \in Run : pc[e] \in {"settling", "ending", "over", "lost"} =>
           pc'[e] \in {"settling", "ending", "over", "lost"}
    BY <1>3
  <2>. QED BY <1>1, <1>4, <2>1, <2>2 DEF Unlogged, Held
<1>7. Kept'
  <2>1. ASSUME NEW f \in preserved \ robbed
        PROVE  /\ proc'[by[f]] = "up" => of[f] \in leases'[by[f]]
               /\ \A g \in Run : f < g /\ of[g] = of[f] => pc'[g] \in {"refused", "lost"}
    <3>1. f \in Run /\ by[f] \in Process
      BY <1>2, <2>1 DEF Unlogged, Lifetimes
    <3>2. \A g \in Run : pc[g] \in {"refused", "lost"} => pc'[g] = pc[g]
      BY <1>1 DEF Over
    <3>. QED BY <1>1, <1>2, <2>1, <3>1, <3>2 DEF Kept
  <2>. QED BY <1>1, <2>1 DEF Kept
<1>8. Handouts'
  <2>1. \A e \in Run : Pend(e)' => Pend(e)
    BY <1>1, <1>4 DEF Pend, Held
  <2>2. \A a : Unrobbed(a)' => Unrobbed(a)
    BY <1>1 DEF Unrobbed, RunsOf
  <2>. QED BY <1>1, <1>3, <2>1, <2>2 DEF Handouts
<1>. QED BY <1>5, <1>6, <1>7, <1>8

LEMMA ForgetHandouts ==
    ASSUME Types, Distincts, HandoutParts, NEW p \in Process, Forget(p)
    PROVE  HandoutParts'
<1> USE DEF HandoutParts
<1>1. /\ cache' = [cache EXCEPT ![p] = Forgetting(@, merging[p])]
      /\ applied \subseteq applied' /\ unclosed \subseteq unclosed'
      /\ UNCHANGED <<proc, leases, pc, of, by, parent, old, preserved, recorded,
                     robbed>>
  BY DEF Forget, CloseInLog, identity, result, history
<1>2. cache \in [Process -> Seq(Run)]
  BY DEF Types, TypeOK
<1>3. ASSUME NEW q \in Process
      PROVE  Members(cache'[q]) \subseteq Held(q)
  <2>1. CASE q = p
    <3>1. cache[p] \in Seq(Run) /\ Distinct(cache[p])
          /\ cache'[p] = Forgetting(cache[p], merging[p])
      BY <1>1, <1>2 DEF Distincts
    <3>. QED BY <2>1, <3>1, ForgettingFacts DEF Held
  <2>2. CASE q # p
    BY <1>1, <1>2, <2>2 DEF Held
  <2>. QED BY <2>1, <2>2
<1>4. Queued' /\ Kept'
  BY <1>1 DEF Queued, Kept
<1>5. Unlogged'
  BY <1>1, <1>3 DEF Unlogged, Held
<1>6. Handouts'
  <2>1. \A e \in Run : Pend(e)' => Pend(e)
    BY <1>1, <1>3 DEF Pend, Held
  <2>2. \A a : Unrobbed(a)' => Unrobbed(a)
    BY <1>1 DEF Unrobbed, RunsOf
  <2>. QED BY <1>1, <2>1, <2>2 DEF Handouts
<1>. QED BY <1>4, <1>5, <1>6

LEMMA HandoutsSame ==
    ASSUME HandoutParts,
           UNCHANGED <<cache, leases, pc, of, by, parent, old, preserved,
                       recorded, applied, unclosed, robbed>>,
           preserved \subseteq Run,
           \A d \in Run : pc[d] # "idle" => proc'[by[d]] = proc[by[d]]
    PROVE  HandoutParts'
<1> USE DEF HandoutParts
<1>1. Queued' /\ Unlogged'
  BY DEF Queued, Unlogged, Held
<1>3. Kept'
  <2>1. \A f \in preserved : pc[f] # "idle"
    BY DEF Unlogged
  <2>. QED BY <2>1 DEF Kept
<1>2. Handouts'
  <2>1. \A e \in Run : Pend(e)' => Pend(e)
    BY DEF Pend, Held
  <2>2. \A a : Unrobbed(a)' => Unrobbed(a)
    BY DEF Unrobbed, RunsOf
  <2>. QED BY <2>1, <2>2 DEF Handouts
<1>. QED BY <1>1, <1>2, <1>3

LEMMA ProcessStepHandouts ==
    ASSUME Types, Lifetimes, Roster, Distincts, WorkParts, HandoutParts,
           NEW p \in Process, ProcessStep(p)
    PROVE  HandoutParts'
<1>1. preserved \subseteq Run /\ proc \in [Process -> {"off", "sweeping", "up", "dead"}]
  BY DEF Types, TypeOK
<1>2. CASE Start(p) \/ Sweep(p)
  <2>1. /\ UNCHANGED <<cache, leases, pc, of, by, parent, old, preserved,
                       recorded, applied, unclosed, robbed>>
        /\ proc[p] \notin {"up", "dead"} /\ \E l : proc' = [proc EXCEPT ![p] = l]
    BY <1>2 DEF Start, Sweep, memory, identity, result, log, history
  <2>2. \A d \in Run : pc[d] # "idle" => proc'[by[d]] = proc[by[d]]
    BY <1>1, <2>1 DEF HandoutParts, Queued
  <2>. QED BY <1>1, <2>1, <2>2, HandoutsSame
<1>3. CASE Adopt(p) \/ \E d \in Run : Merge(p, d)
  <2>1. UNCHANGED <<cache, leases, pc, of, by, parent, old, preserved, proc,
                    recorded, applied, unclosed, robbed>>
    BY <1>3 DEF Adopt, Merge, memory, identity, result, log, history
  <2>. QED BY <1>1, <2>1, HandoutsSame
<1>. QED
  BY <1>2, <1>3, CrashHandouts, ForgetHandouts, BeginHandouts DEF ProcessStep

\* What holds of checkouts, work and handouts together.
HandoutInv == WorkInv /\ HandoutParts

LEMMA HandoutStart ==
    ASSUME WellFormed, Init
    PROVE  HandoutInv
<1>1. Queued /\ Kept
  BY DEF WellFormed, Init, Queued, Kept
<1>2. Unlogged
  BY DEF Init, Unlogged
<1>3. Handouts
  BY DEF WellFormed, Init, Handouts
<1>. QED BY <1>1, <1>2, <1>3, WorkStart DEF HandoutInv, HandoutParts

LEMMA HandoutStep ==
    ASSUME WellFormed, HandoutInv, [Next]_vars
    PROVE  HandoutInv'
<1>1. WorkInv'
  BY WorkStep DEF HandoutInv
<1>2. ASSUME NEW d \in Run, RunStep(d)
      PROVE  HandoutParts'
  BY <1>2, RunStepQueued, RunStepUnlogged, RunStepKept, RunStepHandouts
  DEF HandoutInv, HandoutParts, WorkInv, WorkParts, CheckoutInv, Types
<1>3. ASSUME NEW p \in Process, ProcessStep(p)
      PROVE  HandoutParts'
  BY <1>3, ProcessStepHandouts DEF HandoutInv, WorkInv, CheckoutInv, Types
<1>4. ASSUME UNCHANGED vars
      PROVE  HandoutParts'
  <2>1. UNCHANGED <<cache, leases, pc, of, by, parent, old, preserved, proc,
                    recorded, applied, unclosed, robbed>>
    BY <1>4 DEF vars, process, memory, identity, result, log, history
  <2>2. preserved \subseteq Run
    BY DEF HandoutInv, WorkInv, CheckoutInv, TypeOK
  <2>. QED BY <2>1, <2>2, HandoutsSame DEF HandoutInv
<1>. QED BY <1>1, <1>2, <1>3, <1>4 DEF Next, HandoutInv

\* A follow-up continues the open handout of its agent (admit) and closes it,
\* or preserves its own work (execute).
THEOREM HandoutInvariant == Spec => []HandoutInv
<1>1. Init => HandoutInv
  BY HandoutStart, WorkAssumption
<1>2. HandoutInv /\ [Next]_vars => HandoutInv'
  BY HandoutStep, WorkAssumption
<1>. QED BY <1>1, <1>2, PTL DEF Spec

\* A conversation is never offered two patches of one agent of which one
\* contains the other, but while the first is being closed (lib.rs).
THEOREM OneHandoutAtATime == Spec => []OneHandoutPerAgent
<1>1. HandoutInv => OneHandoutPerAgent
  <2> SUFFICES ASSUME HandoutInv, NEW s \in Conversation,
                      NEW e \in Unapplied(s) \ unclosed,
                      NEW f \in Unapplied(s) \ unclosed,
                      of[e] = of[f], e < f, RunsOf(of[e]) \cap robbed = {}
               PROVE  pc[f] \in {"closing", "lost"}
    BY DEF OneHandoutPerAgent
  <2>1. /\ e \in Run /\ f \in Run /\ <<s, e>> \in recorded \ applied
        /\ <<s, f>> \in recorded /\ e \notin unclosed
    BY DEF Unapplied
  <2>2. parent[e] = s /\ pc[f] \notin Unrecorded
    BY <2>1 DEF HandoutInv, WorkInv, WorkParts, Chains, Unwritten
  <2>3. Pend(e) /\ of[f] \in Agent /\ Unrobbed(of[f])
    BY <2>1, <2>2
    DEF Pend, Unrobbed, HandoutInv, WorkInv, CheckoutInv, Lifetimes, Unrecorded
  <2>4. f \notin preserved /\ pc[f] \notin {"refused", "preserving", "panicked"}
    BY <2>1 DEF HandoutInv, HandoutParts, Unlogged
  <2>5. pc[f] \notin {"tombstone", "reaping", "settling", "ending", "over"}
    BY <2>1, <2>3, <2>4 DEF HandoutInv, HandoutParts, Handouts
  <2>6. pc[f] \in Label
    BY <2>1 DEF HandoutInv, WorkInv, CheckoutInv, TypeOK, Label
  <2>. QED BY <2>2, <2>4, <2>5, <2>6 DEF Unrecorded, Label, Live, Over
<1>. QED BY <1>1, HandoutInvariant, PTL

\* Every variable keeps its type, memory keeps to its limit of patches, and
\* the lock on the worktrees is held by a run that marks a checkout only.
THEOREM WorkTypes == Spec => []TypeOK
<1>1. CheckoutInv => TypeOK
  BY DEF CheckoutInv
<1>. QED BY <1>1, CheckoutInvariant, PTL
============================================================================
