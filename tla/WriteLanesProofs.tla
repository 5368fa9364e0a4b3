-------------------------- MODULE WriteLanesProofs --------------------------
(***************************************************************************)
(* Proofs about WriteLanes, for any number of processes, writers and keys. *)
(*                                                                         *)
(* Exclusion inside a process rests on the order of the line: whoever is   *)
(* in the lane overlaps nobody ahead of it.                                *)
(***************************************************************************)
EXTENDS WriteLanes, FiniteSetTheorems, TLAPS

\* The states in which a writer has an entry in the line.
Queued == InLane \cup {"checking", "asleep", "leaving"}

\* The line of a process holds each of its queued writers once, nobody else.
LineInv ==
    \A p \in Proc :
        /\ \A i, j \in DOMAIN line[p] : line[p][i] = line[p][j] => i = j
        /\ \A i \in DOMAIN line[p] : procOf[line[p][i]] = p
        /\ \A w \in Writer :
              procOf[w] = p =>
                (pc[w] \in Queued <=> \E i \in DOMAIN line[p] : line[p][i] = w)

\* Who owns what: a share is held from the moment a writer runs until it
\* drops it, the mutex is held while a lease is fetched, and no lease is
\* fetched for a lock the process already shares.
OwnershipInv ==
    /\ \A w \in Writer : pc[w] \in {"running", "unsharing"} => w \in sharing
    /\ \A w \in sharing : pc[w] \in {"running", "notifying", "unsharing"}
    /\ \A w \in Writer :
          pc[w] \in {"acquiring", "acquired"} <=> opening[procOf[w]] = w
    /\ \A w \in Writer, p \in Proc : opening[p] = w => procOf[w] = p
    /\ \A w \in Writer : pc[w] \in {"acquiring", "acquired"} => Shares(w) = 0
    /\ \A w \in Writer, s \in Lock :
          lockFile[s] = w <=> pc[w] = "acquired" /\ LockOf(w) = s

IInv == TypeOK /\ LineInv /\ NoOvertaking /\ OwnershipInv /\ LeaseAccounting

-----------------------------------------------------------------------------

\* Two keys overlap whichever of them is asked: `overlap` in write_lanes.rs is
\* symmetric, so the order of the line decides nothing but who waits.
LEMMA OverlapSymmetric ==
    ASSUME NEW k, NEW l
    PROVE  Overlap(k, l) <=> Overlap(l, k)
  BY DEF Overlap

\* Removing a queued writer keeps the others in their order.
LEMMA WithoutKeepsOrder ==
    ASSUME NEW s \in Seq(Writer), NEW w \in Writer,
           \A i, j \in DOMAIN s : s[i] = s[j] => i = j,
           \E i \in DOMAIN s : s[i] = w
    PROVE  /\ Without(s, w) \in Seq(Writer)
           /\ \A i \in DOMAIN Without(s, w) : Without(s, w)[i] # w
           /\ \A i, j \in DOMAIN Without(s, w) :
                 \E a, b \in DOMAIN s :
                    /\ Without(s, w)[i] = s[a] /\ Without(s, w)[j] = s[b]
                    /\ i < j <=> a < b
                    /\ i = j <=> a = b
           /\ \A a \in DOMAIN s :
                 s[a] # w => \E i \in DOMAIN Without(s, w) : Without(s, w)[i] = s[a]
<1> DEFINE k == CHOOSE i \in DOMAIN s : s[i] = w
           t == [i \in 1..(Len(s) - 1) |-> IF i < k THEN s[i] ELSE s[i + 1]]
<1>1. k \in 1..Len(s) /\ s[k] = w
  <2>1. k \in DOMAIN s /\ s[k] = w
    OBVIOUS
  <2>. QED BY <2>1
<1>2. Without(s, w) = t
  BY DEF Without
<1> HIDE DEF k
<1>3. t \in Seq(Writer) /\ Len(t) = Len(s) - 1 /\ DOMAIN t = 1..(Len(s) - 1)
  <2>1. Len(s) - 1 \in Nat
    BY <1>1
  <2>2. \A i \in 1..(Len(s) - 1) : t[i] \in Writer
    BY <1>1
  <2>. QED BY <2>1, <2>2
<1>4. ASSUME NEW i \in DOMAIN t
      PROVE  t[i] # w
  <2>1. CASE i < k
    BY <1>1, <1>3, <2>1
  <2>2. CASE ~(i < k)
    BY <1>1, <1>3, <2>2
  <2>. QED BY <2>1, <2>2
<1>5. ASSUME NEW i \in DOMAIN t, NEW j \in DOMAIN t
      PROVE  \E a, b \in DOMAIN s :
                /\ t[i] = s[a] /\ t[j] = s[b]
                /\ i < j <=> a < b
                /\ i = j <=> a = b
  <2> DEFINE a == IF i < k THEN i ELSE i + 1
             b == IF j < k THEN j ELSE j + 1
  <2>1. a \in DOMAIN s /\ b \in DOMAIN s
    BY <1>1, <1>3
  <2>2. t[i] = s[a] /\ t[j] = s[b]
    BY <1>3
  <2>3. (i < j <=> a < b) /\ (i = j <=> a = b)
    BY <1>1, <1>3
  <2>. QED BY <2>1, <2>2, <2>3
<1>6. ASSUME NEW a \in DOMAIN s, s[a] # w
      PROVE  \E i \in DOMAIN t : t[i] = s[a]
  <2>1. CASE a < k
    BY <1>1, <1>3, <2>1
  <2>2. CASE k < a
    <3>1. a - 1 \in DOMAIN t /\ t[a - 1] = s[a]
      BY <1>1, <1>3, <2>2
    <3>. QED BY <3>1
  <2>. QED BY <1>1, <1>6, <2>1, <2>2
<1> HIDE DEF t
<1>. QED BY <1>2, <1>3, <1>4, <1>5, <1>6

-----------------------------------------------------------------------------
(* Type correctness.                                                       *)

LEMMA LockForIsLock ==
    ASSUME NEW p \in Proc, NEW k
    PROVE  LockFor(p, k) \in Lock
  BY WriterAssumption DEF LockFor, Lock

LEMMA InitType == Init => TypeOK
  BY WriterAssumption DEF Init, TypeOK, PC, InLane

LEMMA LocksOfWriters ==
    ASSUME TypeOK, NEW w \in Writer
    PROVE  procOf[w] \in Proc /\ LockOf(w) \in Lock /\ Shares(w) \in Nat
  BY WriterAssumption, LockForIsLock DEF TypeOK, LockOf, Shares

\* What a queued writer leaves behind in its line.
LEMMA LeavingKeepsOrder ==
    ASSUME TypeOK, LineInv, NEW w \in Writer, pc[w] \in Queued
    PROVE  LET s == line[procOf[w]]
               t == Without(s, w)
           IN  /\ t \in Seq(Writer)
               /\ \A i \in DOMAIN t : t[i] # w
               /\ \A i, j \in DOMAIN t :
                     \E a, b \in DOMAIN s :
                        /\ t[i] = s[a] /\ t[j] = s[b]
                        /\ i < j <=> a < b
                        /\ i = j <=> a = b
               /\ \A a \in DOMAIN s :
                     s[a] # w => \E i \in DOMAIN t : t[i] = s[a]
<1> DEFINE s == line[procOf[w]]
<1>1. procOf[w] \in Proc
  BY LocksOfWriters
<1>2. s \in Seq(Writer)
  BY <1>1 DEF TypeOK
<1>3. \A i, j \in DOMAIN s : s[i] = s[j] => i = j
  BY <1>1 DEF LineInv
<1>4. \E i \in DOMAIN s : s[i] = w
  BY <1>1 DEF LineInv
<1> HIDE DEF s
<1>5. /\ Without(s, w) \in Seq(Writer)
      /\ \A i \in DOMAIN Without(s, w) : Without(s, w)[i] # w
      /\ \A i, j \in DOMAIN Without(s, w) :
            \E a, b \in DOMAIN s :
               /\ Without(s, w)[i] = s[a] /\ Without(s, w)[j] = s[b]
               /\ i < j <=> a < b
               /\ i = j <=> a = b
      /\ \A a \in DOMAIN s :
            s[a] # w => \E i \in DOMAIN Without(s, w) : Without(s, w)[i] = s[a]
  BY <1>2, <1>3, <1>4, WithoutKeepsOrder
<1>. QED BY <1>5 DEF s

\* A writer that owns a share is counted.
LEMMA SharerIsCounted ==
    ASSUME TypeOK, LeaseAccounting, NEW w \in sharing
    PROVE  Shares(w) > 0
<1>1. w \in Writer /\ w \in Sharers(procOf[w], LockOf(w))
  BY DEF TypeOK, Sharers
<1>2. IsFiniteSet(Sharers(procOf[w], LockOf(w)))
  BY WriterAssumption, FS_Subset DEF TypeOK, Sharers
<1>3. Cardinality(Sharers(procOf[w], LockOf(w))) # 0
  BY <1>1, <1>2, FS_EmptySet
<1>4. Shares(w) = Cardinality(Sharers(procOf[w], LockOf(w)))
  BY <1>1, LocksOfWriters DEF LeaseAccounting, Shares
<1>. QED BY <1>1, <1>3, <1>4, LocksOfWriters

\* One more share is one more in the count.
LEMMA AddShareType ==
    ASSUME TypeOK, NEW w \in Writer, AddShare(w)
    PROVE  open' \in [Proc -> [Lock -> Nat]] /\ sharing' \in SUBSET Writer
<1>1. procOf[w] \in Proc /\ LockOf(w) \in Lock
  BY LocksOfWriters
<1>2. open[procOf[w]][LockOf(w)] + 1 \in Nat
  BY <1>1 DEF TypeOK
<1>. QED BY <1>1, <1>2 DEF AddShare, TypeOK

LEMMA StepType == IInv /\ [Next]_vars => TypeOK'
<1> SUFFICES ASSUME IInv, [Next]_vars
             PROVE  TypeOK'
  OBVIOUS
<1> USE DEF TypeOK, PC, InLane, Goto
<1>0. TypeOK /\ LineInv /\ OwnershipInv /\ LeaseAccounting
  BY DEF IInv
<1>4. ASSUME NEW w \in Writer
      PROVE  procOf[w] \in Proc /\ LockOf(w) \in Lock /\ Shares(w) \in Nat
  BY <1>0, LocksOfWriters
<1>1. ASSUME NEW w \in Writer, NEW k \in Key, Join(w, k)
      PROVE  TypeOK'
  <2>1. Append(line[procOf[w]], w) \in Seq(Writer)
    BY <1>0, <1>4
  <2>. QED BY <1>0, <1>1, <2>1 DEF Join
<1>2. ASSUME NEW w \in Writer, Check(w)
      PROVE  TypeOK'
  BY <1>0, <1>2 DEF Check
<1>3. ASSUME NEW w \in Writer, Wake(w)
      PROVE  TypeOK'
  BY <1>0, <1>3 DEF Wake
<1>5. ASSUME NEW w \in Writer, JoinShare(w)
      PROVE  TypeOK'
  <2>1. pc' \in [Writer -> PC]
    BY <1>0, <1>5 DEF JoinShare
  <2>2. CASE Shares(w) > 0
    BY <1>0, <1>5, <2>1, <2>2, AddShareType DEF JoinShare
  <2>3. CASE ~(Shares(w) > 0)
    BY <1>0, <1>5, <2>1, <2>3 DEF JoinShare
  <2>. QED BY <2>2, <2>3
<1>6. ASSUME NEW w \in Writer, TakeOpening(w)
      PROVE  TypeOK'
  <2>1. pc' \in [Writer -> PC]
    BY <1>0, <1>6 DEF TakeOpening
  <2>2. CASE Shares(w) > 0
    BY <1>0, <1>6, <2>1, <2>2, AddShareType DEF TakeOpening
  <2>3. CASE ~(Shares(w) > 0)
    <3>1. opening' \in [Proc -> Writer \cup {NoOne}]
      BY <1>0, <1>4, <1>6, <2>3 DEF TakeOpening
    <3>2. UNCHANGED <<open, sharing, lane, line, woken, lockFile>>
      BY <1>6, <2>3 DEF TakeOpening
    <3>. QED BY <1>0, <2>1, <3>1, <3>2
  <2>. QED BY <2>2, <2>3
<1>7. ASSUME NEW w \in Writer, Acquire(w)
      PROVE  TypeOK'
  BY <1>0, <1>4, <1>7 DEF Acquire
<1>8. ASSUME NEW w \in Writer, AcquireFails(w)
      PROVE  TypeOK'
  BY <1>0, <1>8 DEF AcquireFails, ReleaseOpening
<1>9. ASSUME NEW w \in Writer, StoreLease(w)
      PROVE  TypeOK'
  BY <1>0, <1>4, <1>9 DEF StoreLease
<1>10. ASSUME NEW w \in Writer, GiveUp(w)
       PROVE  TypeOK'
  BY <1>0, <1>10 DEF GiveUp, ReleaseOpening
<1>11. ASSUME NEW w \in Writer, LeaveLine(w)
       PROVE  TypeOK'
  <2>1. pc[w] \in Queued
    BY <1>11 DEF LeaveLine, Queued
  <2>2. Without(line[procOf[w]], w) \in Seq(Writer)
    BY <1>0, <2>1, LeavingKeepsOrder
  <2>. QED BY <1>0, <1>11, <2>2 DEF LeaveLine
<1>12. ASSUME NEW w \in Writer, Notify(w)
       PROVE  TypeOK'
  <2>1. woken' \in SUBSET Writer
    BY <1>0, <1>12 DEF Notify, Listening
  <2>2. pc' \in [Writer -> PC] /\ lane' \in [Writer -> Key \cup {WHOLE}]
    <3>1. CASE w \in sharing
      BY <1>0, <1>12, <3>1 DEF Notify
    <3>2. CASE w \notin sharing
      BY <1>0, <1>12, <3>2 DEF Notify
    <3>. QED BY <3>1, <3>2
  <2>. QED BY <1>0, <1>12, <2>1, <2>2 DEF Notify
<1>13. ASSUME NEW w \in Writer, DropShare(w)
       PROVE  TypeOK'
  <2>1. Shares(w) > 0
    BY <1>0, <1>13, SharerIsCounted DEF DropShare, OwnershipInv
  <2>2. open[procOf[w]][LockOf(w)] - 1 \in Nat
    BY <1>4, <2>1 DEF Shares
  <2>. QED BY <1>0, <1>4, <1>13, <2>2 DEF DropShare
<1>14. CASE UNCHANGED vars
  BY <1>0, <1>14 DEF vars
<1>. QED
  BY <1>1, <1>2, <1>3, <1>5, <1>6, <1>7, <1>8, <1>9, <1>10, <1>11, <1>12,
     <1>13, <1>14 DEF Next, Progress

-----------------------------------------------------------------------------
(* The line.                                                               *)

\* NoOvertaking, said of the next state.
LEMMA NoOvertakingNext ==
    NoOvertaking' <=>
        \A p \in Proc : \A i, j \in DOMAIN line'[p] :
            i < j /\ Overlap(lane'[line'[p][i]], lane'[line'[p][j]])
            => pc'[line'[p][j]] \notin InLane
BY Zenon DEF NoOvertaking, Overlap, StartsWith

\* A step of w that leaves the line alone, and w on the same side of it.
LEMMA SameLineKeepsLineInv ==
    ASSUME TypeOK, LineInv, NEW w \in Writer, NEW label,
           line' = line, Goto(w, label), pc[w] \in Queued <=> label \in Queued
    PROVE  LineInv'
<1>1. \A v \in Writer : pc'[v] \in Queued <=> pc[v] \in Queued
  BY DEF Goto, TypeOK
<1>. QED BY <1>1 DEF LineInv

\* A step of w that neither moves anyone in line nor lets w into the lane; a
\* key may change only for a writer without an entry.
LEMMA SameLineKeepsOrder ==
    ASSUME TypeOK, LineInv, NoOvertaking, NEW w \in Writer, NEW label,
           line' = line, Goto(w, label),
           label \in InLane => pc[w] \in InLane,
           \A v \in Writer : pc[v] \in Queued => lane'[v] = lane[v]
    PROVE  NoOvertaking'
<1> SUFFICES ASSUME NEW p \in Proc, NEW i \in DOMAIN line[p], NEW j \in DOMAIN line[p],
                    i < j, Overlap(lane'[line[p][i]], lane'[line[p][j]])
             PROVE  pc'[line[p][j]] \notin InLane
  BY NoOvertakingNext
<1>1. line[p][i] \in Writer /\ line[p][j] \in Writer
  BY DEF TypeOK
<1>2. pc[line[p][i]] \in Queued /\ pc[line[p][j]] \in Queued
  BY <1>1 DEF LineInv
<1>3. Overlap(lane[line[p][i]], lane[line[p][j]])
  BY <1>1, <1>2
<1>4. pc[line[p][j]] \notin InLane
  BY <1>3 DEF NoOvertaking
<1>. QED BY <1>1, <1>4 DEF Goto, TypeOK

LEMMA JoinKeepsLine ==
    ASSUME IInv, NEW w \in Writer, NEW k \in Key, Join(w, k)
    PROVE  LineInv' /\ NoOvertaking'
<1> DEFINE q == procOf[w]
           n == Len(line[q])
<1>1. TypeOK /\ LineInv /\ NoOvertaking /\ pc[w] = "idle"
  BY DEF IInv, Join
<1>2. q \in Proc /\ line[q] \in Seq(Writer) /\ n \in Nat /\ DOMAIN line[q] = 1..n
  BY <1>1, LocksOfWriters DEF TypeOK
<1>3. /\ pc' = [pc EXCEPT ![w] = "checking"]
      /\ lane' = [lane EXCEPT ![w] = k]
      /\ line' = [line EXCEPT ![q] = Append(@, w)]
  BY DEF Join, Goto
<1>4. \A i \in DOMAIN line[q] : line[q][i] # w
  BY <1>1, <1>2 DEF LineInv, Queued, InLane
<1>5. /\ DOMAIN line'[q] = 1..(n + 1)
      /\ \A i \in 1..n : line'[q][i] = line[q][i]
      /\ line'[q][n + 1] = w
  BY <1>1, <1>2, <1>3 DEF TypeOK
<1>6. \A p \in Proc : p # q => line'[p] = line[p]
  BY <1>1, <1>3 DEF TypeOK
<1>7. \A v \in Writer : v # w => pc'[v] = pc[v] /\ lane'[v] = lane[v]
  BY <1>1, <1>3 DEF TypeOK
<1>8. pc'[w] = "checking"
  BY <1>1, <1>3 DEF TypeOK
<1> HIDE DEF q, n
<1>9. LineInv'
  <2> SUFFICES ASSUME NEW p \in Proc
               PROVE  /\ \A i, j \in DOMAIN line'[p] : line'[p][i] = line'[p][j] => i = j
                      /\ \A i \in DOMAIN line'[p] : procOf[line'[p][i]] = p
                      /\ \A v \in Writer :
                            procOf[v] = p =>
                              (pc'[v] \in Queued <=> \E i \in DOMAIN line'[p] : line'[p][i] = v)
    BY DEF LineInv
  <2>1. CASE p = q
    <3>1. \A i, j \in DOMAIN line'[q] : line'[q][i] = line'[q][j] => i = j
      BY <1>1, <1>2, <1>4, <1>5 DEF LineInv
    <3>2. \A i \in DOMAIN line'[q] : procOf[line'[q][i]] = q
      BY <1>1, <1>2, <1>5 DEF LineInv, q
    <3>3. ASSUME NEW v \in Writer, procOf[v] = q
          PROVE  pc'[v] \in Queued <=> \E i \in DOMAIN line'[q] : line'[q][i] = v
      <4>1. CASE v = w
        <5>1. n + 1 \in DOMAIN line'[q] /\ line'[q][n + 1] = v
          BY <1>2, <1>5, <4>1
        <5>2. pc'[v] \in Queued
          BY <1>8, <4>1 DEF Queued
        <5>. QED BY <5>1, <5>2
      <4>2. CASE v # w
        <5>1. pc'[v] \in Queued <=> \E i \in 1..n : line[q][i] = v
          BY <1>1, <1>2, <1>7, <3>3, <4>2 DEF LineInv
        <5>2. (\E i \in 1..n : line[q][i] = v) <=> (\E i \in 1..(n + 1) : line'[q][i] = v)
          <6>1. ASSUME NEW i \in 1..n, line[q][i] = v
                PROVE  \E j \in 1..(n + 1) : line'[q][j] = v
            <7>1. i \in 1..(n + 1) /\ line'[q][i] = v
              BY <1>2, <1>5, <6>1
            <7>. QED BY <7>1
          <6>2. ASSUME NEW i \in 1..(n + 1), line'[q][i] = v
                PROVE  \E j \in 1..n : line[q][j] = v
            <7>1. i # n + 1
              BY <1>5, <4>2, <6>2
            <7>2. i \in 1..n /\ line[q][i] = v
              BY <1>2, <1>5, <6>2, <7>1
            <7>. QED BY <7>2
          <6>. QED BY <6>1, <6>2
        <5>. QED BY <1>5, <5>1, <5>2
      <4>. QED BY <4>1, <4>2
    <3>. QED BY <2>1, <3>1, <3>2, <3>3
  <2>2. CASE p # q
    BY <1>1, <1>6, <1>7, <2>2 DEF LineInv, q
  <2>. QED BY <2>1, <2>2
<1>10. NoOvertaking'
  <2> SUFFICES ASSUME NEW p \in Proc,
                      NEW i \in DOMAIN line'[p], NEW j \in DOMAIN line'[p], i < j,
                      Overlap(lane'[line'[p][i]], lane'[line'[p][j]])
               PROVE  pc'[line'[p][j]] \notin InLane
    BY NoOvertakingNext
  <2>1. CASE line'[p][j] = w
    BY <1>8, <2>1 DEF InLane
  <2>2. CASE line'[p][j] # w
    <3>1. /\ i \in DOMAIN line[p] /\ j \in DOMAIN line[p]
          /\ line'[p][i] = line[p][i] /\ line'[p][j] = line[p][j]
      <4>1. CASE p = q
        <5>1. i \in 1..(n + 1) /\ j \in 1..(n + 1) /\ j # n + 1
          BY <1>5, <2>2, <4>1
        <5>2. i \in 1..n /\ j \in 1..n
          BY <1>2, <2>2, <5>1
        <5>. QED BY <1>2, <1>5, <4>1, <5>2
      <4>2. CASE p # q
        BY <1>6, <4>2
      <4>. QED BY <4>1, <4>2
    <3>2. line[p][i] \in Writer /\ line[p][j] \in Writer /\ line[p][i] # w
      BY <1>1, <1>4, <3>1 DEF TypeOK, LineInv, q
    <3>3. Overlap(lane[line[p][i]], lane[line[p][j]])
      BY <1>7, <2>2, <3>1, <3>2
    <3>4. pc[line[p][j]] \notin InLane
      BY <1>1, <3>1, <3>3 DEF NoOvertaking
    <3>. QED BY <1>7, <2>2, <3>1, <3>2, <3>4
  <2>. QED BY <2>1, <2>2
<1>. QED BY <1>9, <1>10

LEMMA LeaveKeepsLine ==
    ASSUME IInv, NEW w \in Writer, LeaveLine(w)
    PROVE  LineInv' /\ NoOvertaking'
<1> DEFINE q == procOf[w]
           t == Without(line[q], w)
<1>1. TypeOK /\ LineInv /\ NoOvertaking /\ pc[w] \in Queued
  BY DEF IInv, LeaveLine, Queued, InLane
<1>2. q \in Proc
  BY <1>1, LocksOfWriters
<1>3. /\ pc' = [pc EXCEPT ![w] = "notifying"]
      /\ lane' = lane
      /\ line' = [line EXCEPT ![q] = t]
  BY DEF LeaveLine, Goto
<1>4. /\ \A i \in DOMAIN t : t[i] # w
      /\ \A i, j \in DOMAIN t :
            \E a, b \in DOMAIN line[q] :
               /\ t[i] = line[q][a] /\ t[j] = line[q][b]
               /\ i < j <=> a < b
               /\ i = j <=> a = b
      /\ \A a \in DOMAIN line[q] :
            line[q][a] # w => \E i \in DOMAIN t : t[i] = line[q][a]
  BY <1>1, LeavingKeepsOrder
<1> HIDE DEF t
<1>5. line'[q] = t /\ \A p \in Proc : p # q => line'[p] = line[p]
  BY <1>1, <1>2, <1>3 DEF TypeOK
<1>6. \A v \in Writer : v # w => pc'[v] = pc[v]
  BY <1>1, <1>3 DEF TypeOK
<1>7. pc'[w] = "notifying"
  BY <1>1, <1>3 DEF TypeOK
<1>8. \A i \in DOMAIN t : t[i] \in Writer
  BY <1>1, <1>2, <1>4 DEF TypeOK
<1> HIDE DEF q
<1>9. LineInv'
  <2> SUFFICES ASSUME NEW p \in Proc
               PROVE  /\ \A i, j \in DOMAIN line'[p] : line'[p][i] = line'[p][j] => i = j
                      /\ \A i \in DOMAIN line'[p] : procOf[line'[p][i]] = p
                      /\ \A v \in Writer :
                            procOf[v] = p =>
                              (pc'[v] \in Queued <=> \E i \in DOMAIN line'[p] : line'[p][i] = v)
    BY DEF LineInv
  <2>1. CASE p = q
    <3>1. ASSUME NEW i \in DOMAIN t, NEW j \in DOMAIN t, t[i] = t[j]
          PROVE  i = j
      <4>1. PICK a \in DOMAIN line[q], b \in DOMAIN line[q] :
               t[i] = line[q][a] /\ t[j] = line[q][b] /\ (i = j <=> a = b)
        BY <1>4
      <4>. QED BY <1>1, <1>2, <3>1, <4>1 DEF LineInv
    <3>2. ASSUME NEW i \in DOMAIN t
          PROVE  procOf[t[i]] = q
      <4>1. PICK a \in DOMAIN line[q] : t[i] = line[q][a]
        BY <1>4
      <4>. QED BY <1>1, <1>2, <4>1 DEF LineInv
    <3>3. ASSUME NEW v \in Writer, procOf[v] = q
          PROVE  pc'[v] \in Queued <=> \E i \in DOMAIN t : t[i] = v
      <4>1. CASE v = w
        BY <1>4, <1>7, <4>1 DEF Queued, InLane
      <4>2. CASE v # w
        <5>1. pc'[v] \in Queued <=> \E a \in DOMAIN line[q] : line[q][a] = v
          BY <1>1, <1>2, <1>6, <3>3, <4>2 DEF LineInv
        <5>2. (\E a \in DOMAIN line[q] : line[q][a] = v) <=> (\E i \in DOMAIN t : t[i] = v)
          BY <1>4, <4>2
        <5>. QED BY <5>1, <5>2
      <4>. QED BY <4>1, <4>2
    <3>. QED BY <1>5, <2>1, <3>1, <3>2, <3>3
  <2>2. CASE p # q
    BY <1>1, <1>5, <1>6, <2>2 DEF LineInv, q
  <2>. QED BY <2>1, <2>2
<1>10. NoOvertaking'
  <2> SUFFICES ASSUME NEW p \in Proc,
                      NEW i \in DOMAIN line'[p], NEW j \in DOMAIN line'[p], i < j,
                      Overlap(lane[line'[p][i]], lane[line'[p][j]])
               PROVE  pc'[line'[p][j]] \notin InLane
    BY <1>3, NoOvertakingNext
  <2>1. CASE p = q
    <3>0. i \in DOMAIN t /\ j \in DOMAIN t
      BY <1>5, <2>1
    <3>1. PICK a \in DOMAIN line[q], b \in DOMAIN line[q] :
             t[i] = line[q][a] /\ t[j] = line[q][b] /\ a < b
      BY <1>4, <3>0
    <3>2. pc[t[j]] \notin InLane
      BY <1>1, <1>2, <1>5, <2>1, <3>1 DEF NoOvertaking
    <3>. QED BY <1>4, <1>5, <1>6, <1>8, <2>1, <3>2
  <2>2. CASE p # q
    <3>1. line[p][j] \in Writer /\ line[p][j] # w /\ pc[line[p][j]] \notin InLane
      BY <1>1, <1>5, <2>2 DEF TypeOK, LineInv, NoOvertaking, q
    <3>. QED BY <1>5, <1>6, <2>2, <3>1
  <2>. QED BY <2>1, <2>2
<1>. QED BY <1>9, <1>10

\* A writer that finds its way clear is behind nobody it overlaps.
LEMMA CheckKeepsLine ==
    ASSUME IInv, NEW w \in Writer, Check(w)
    PROVE  LineInv' /\ NoOvertaking'
<1>1. /\ TypeOK /\ LineInv /\ NoOvertaking /\ pc[w] = "checking"
      /\ line' = line /\ lane' = lane
      /\ Goto(w, IF Clear(w) THEN "clear" ELSE "asleep")
  BY DEF IInv, Check
<1>2. LineInv'
  BY <1>1, SameLineKeepsLineInv DEF Queued, InLane
<1>3. CASE Clear(w)
  <2> SUFFICES ASSUME NEW p \in Proc,
                      NEW i \in DOMAIN line'[p], NEW j \in DOMAIN line'[p], i < j,
                      Overlap(lane'[line'[p][i]], lane'[line'[p][j]])
               PROVE  pc'[line'[p][j]] \notin InLane
    BY <1>2, NoOvertakingNext
  <2>1. /\ i \in DOMAIN line[p] /\ j \in DOMAIN line[p]
        /\ line'[p][i] = line[p][i] /\ line'[p][j] = line[p][j]
        /\ Overlap(lane[line[p][i]], lane[line[p][j]])
    BY <1>1
  <2>2. line[p][j] # w
    BY <1>1, <1>3, <2>1 DEF Clear, Line, LineInv
  <2>3. pc[line[p][j]] \notin InLane /\ line[p][j] \in Writer
    BY <1>1, <2>1 DEF NoOvertaking, TypeOK
  <2>. QED BY <1>1, <2>1, <2>2, <2>3 DEF Goto, TypeOK
<1>4. CASE ~Clear(w)
  BY <1>1, <1>2, <1>4, SameLineKeepsOrder DEF InLane
<1>. QED BY <1>2, <1>3, <1>4

LEMMA StepLine == IInv /\ [Next]_vars => LineInv' /\ NoOvertaking'
<1> SUFFICES ASSUME IInv, [Next]_vars
             PROVE  LineInv' /\ NoOvertaking'
  OBVIOUS
<1>0. TypeOK /\ LineInv /\ NoOvertaking
  BY DEF IInv
<1>1. ASSUME NEW w \in Writer, NEW k \in Key, Join(w, k)
      PROVE  LineInv' /\ NoOvertaking'
  BY <1>1, JoinKeepsLine
<1>2. ASSUME NEW w \in Writer, Check(w)
      PROVE  LineInv' /\ NoOvertaking'
  BY <1>2, CheckKeepsLine
<1>3. ASSUME NEW w \in Writer, LeaveLine(w)
      PROVE  LineInv' /\ NoOvertaking'
  BY <1>3, LeaveKeepsLine
<1>4. ASSUME NEW w \in Writer,
             Wake(w) \/ JoinShare(w) \/ TakeOpening(w) \/ Acquire(w) \/ StoreLease(w)
               \/ AcquireFails(w) \/ GiveUp(w) \/ Notify(w) \/ DropShare(w)
      PROVE  LineInv' /\ NoOvertaking'
  <2>1. PICK label : /\ line' = line /\ Goto(w, label)
                     /\ pc[w] \in Queued <=> label \in Queued
                     /\ label \in InLane => pc[w] \in InLane
                     /\ \A v \in Writer : pc[v] \in Queued => lane'[v] = lane[v]
    <3> DEFINE P(label) == /\ line' = line /\ Goto(w, label)
                           /\ pc[w] \in Queued <=> label \in Queued
                           /\ label \in InLane => pc[w] \in InLane
                           /\ \A v \in Writer : pc[v] \in Queued => lane'[v] = lane[v]
    <3>1. CASE Wake(w)
      <4>1. P("checking")
        BY <3>1 DEF Wake, Queued, InLane
      <4>. QED BY <4>1
    <3>2. CASE JoinShare(w)
      <4>1. P("running") \/ P("opening")
        BY <3>2 DEF JoinShare, Queued, InLane
      <4>. QED BY <4>1
    <3>3. CASE TakeOpening(w)
      <4>1. P("running") \/ P("acquiring")
        BY <3>3 DEF TakeOpening, Queued, InLane
      <4>. QED BY <4>1
    <3>4. CASE Acquire(w)
      <4>1. P("acquired")
        BY <3>4 DEF Acquire, Queued, InLane
      <4>. QED BY <4>1
    <3>5. CASE StoreLease(w)
      <4>1. P("running")
        BY <3>5 DEF StoreLease, Queued, InLane
      <4>. QED BY <4>1
    <3>6. CASE AcquireFails(w) \/ GiveUp(w)
      <4>1. P("leaving")
        BY <3>6 DEF AcquireFails, GiveUp, Queued, InLane
      <4>. QED BY <4>1
    <3>7. CASE Notify(w)
      <4>1. P("unsharing") \/ P("idle")
        BY <1>0, <3>7 DEF Notify, Queued, InLane, TypeOK
      <4>. QED BY <4>1
    <3>8. CASE DropShare(w)
      <4>1. P("idle")
        BY <1>0, <3>8 DEF DropShare, Queued, InLane, TypeOK
      <4>. QED BY <4>1
    <3>. QED BY <1>4, <3>1, <3>2, <3>3, <3>4, <3>5, <3>6, <3>7, <3>8
  <2>2. LineInv'
    BY <1>0, <2>1, SameLineKeepsLineInv
  <2>3. NoOvertaking'
    BY <1>0, <2>1, SameLineKeepsOrder
  <2>. QED BY <2>2, <2>3
<1>5. CASE UNCHANGED vars
  <2>1. line' = line /\ lane' = lane /\ pc' = pc
    BY <1>5 DEF vars
  <2>2. LineInv'
    BY <1>0, <2>1 DEF LineInv
  <2>3. NoOvertaking'
    BY <1>0, <2>1, NoOvertakingNext DEF NoOvertaking
  <2>. QED BY <2>2, <2>3
<1>. QED BY <1>1, <1>2, <1>3, <1>4, <1>5 DEF Next, Progress

-----------------------------------------------------------------------------
(* Shares, the mutex and the lock files.                                   *)

\* A step of w that changes no share, no mutex and no lock file: w stays on
\* its side of each, and only a writer that owns nothing may change its key.
LEMMA SharelessStep ==
    ASSUME IInv, NEW w \in Writer, NEW label \in PC, NEW k, Goto(w, label),
           label \in {"running", "unsharing"} => w \in sharing,
           w \in sharing => label \in {"running", "notifying", "unsharing"},
           label \in {"acquiring", "acquired"} <=> pc[w] \in {"acquiring", "acquired"},
           label = "acquired" <=> pc[w] = "acquired",
           \/ lane' = lane
           \/ /\ w \notin sharing /\ label \notin {"acquiring", "acquired"}
              /\ lane' = [lane EXCEPT ![w] = k],
           open' = open, sharing' = sharing,
           opening' = opening, lockFile' = lockFile
    PROVE  OwnershipInv' /\ LeaseAccounting'
<1>1. TypeOK /\ OwnershipInv /\ LeaseAccounting
  BY DEF IInv
<1>2. /\ \A v \in Writer : v # w => pc'[v] = pc[v] /\ lane'[v] = lane[v]
      /\ pc'[w] = label
      /\ w \in sharing \/ label \in {"acquiring", "acquired"} => lane'[w] = lane[w]
  BY <1>1 DEF Goto, TypeOK
<1>3. \A v \in Writer :
         v # w \/ w \in sharing \/ label \in {"acquiring", "acquired"}
         => LockOf(v)' = LockOf(v) /\ Shares(v)' = Shares(v)
  BY <1>2 DEF LockOf, LockFor, Shares
<1>4. \A p \in Proc, s \in Lock : Sharers(p, s)' = Sharers(p, s)
  BY <1>1, <1>3 DEF Sharers, TypeOK
<1>5. LeaseAccounting'
  BY <1>1, <1>4 DEF LeaseAccounting
<1>6. ASSUME NEW v \in Writer, pc'[v] \in {"running", "unsharing"}
      PROVE  v \in sharing
  <2>1. CASE v = w
    BY <1>2, <1>6, <2>1
  <2>2. CASE v # w
    BY <1>1, <1>2, <1>6, <2>2 DEF OwnershipInv
  <2>. QED BY <2>1, <2>2
<1>7. ASSUME NEW v \in sharing
      PROVE  pc'[v] \in {"running", "notifying", "unsharing"}
  <2>1. CASE v = w
    BY <1>2, <2>1
  <2>2. v \in Writer
    BY <1>1 DEF TypeOK
  <2>3. CASE v # w
    BY <1>1, <1>2, <2>2, <2>3 DEF OwnershipInv
  <2>. QED BY <2>1, <2>3
<1>8. \A v \in Writer : pc'[v] \in {"acquiring", "acquired"} <=> opening[procOf[v]] = v
  BY <1>1, <1>2 DEF OwnershipInv
<1>9. \A v \in Writer : pc'[v] \in {"acquiring", "acquired"} => Shares(v)' = 0
  BY <1>1, <1>2, <1>3 DEF OwnershipInv
<1>10. \A v \in Writer, s \in Lock :
          lockFile[s] = v <=> pc'[v] = "acquired" /\ LockOf(v)' = s
  <2> SUFFICES ASSUME NEW v \in Writer, NEW s \in Lock
               PROVE  lockFile[s] = v <=> pc'[v] = "acquired" /\ LockOf(v)' = s
    OBVIOUS
  <2>1. CASE pc'[v] = "acquired"
    BY <1>1, <1>2, <1>3, <2>1 DEF OwnershipInv
  <2>2. CASE pc'[v] # "acquired"
    BY <1>1, <1>2, <2>2 DEF OwnershipInv
  <2>. QED BY <2>1, <2>2
<1>. QED BY <1>1, <1>5, <1>6, <1>7, <1>8, <1>9, <1>10 DEF OwnershipInv

\* A writer joins a lease that is open, on the first or the second try.
LEMMA JoinedStep ==
    ASSUME IInv, NEW w \in Writer, pc[w] \in {"clear", "opening"}, Shares(w) > 0,
           AddShare(w), Goto(w, "running"),
           lane' = lane, opening' = opening, lockFile' = lockFile
    PROVE  OwnershipInv' /\ LeaseAccounting'
<1>1. TypeOK /\ OwnershipInv /\ LeaseAccounting
  BY DEF IInv
<1> PICK q \in Proc, l \in Lock : q = procOf[w] /\ l = LockOf(w)
  BY <1>1, LocksOfWriters
<1>2. /\ \A v \in Writer : v # w => pc'[v] = pc[v]
      /\ pc'[w] = "running"
  BY <1>1 DEF Goto, TypeOK
<1>3. /\ sharing' = sharing \cup {w} /\ w \notin sharing
      /\ open'[q][l] = open[q][l] + 1
      /\ \A p \in Proc, s \in Lock : p # q \/ s # l => open'[p][s] = open[p][s]
  <2>1. sharing' = sharing \cup {w} /\ w \notin sharing
    BY <1>1 DEF AddShare, OwnershipInv
  <2>2. open \in [Proc -> [Lock -> Nat]] /\ open' = [open EXCEPT ![q][l] = @ + 1]
    BY <1>1 DEF AddShare, TypeOK
  <2>. QED BY <1>1, <2>1, <2>2
<1>4. \A v \in Writer : LockOf(v)' = LockOf(v)
  BY DEF LockOf, LockFor
<1>5. \A p \in Proc, s \in Lock :
         Sharers(p, s)' = IF p = q /\ s = l THEN Sharers(p, s) \cup {w} ELSE Sharers(p, s)
  BY <1>1, <1>3, <1>4 DEF Sharers, TypeOK
<1>6. \A p \in Proc, s \in Lock : IsFiniteSet(Sharers(p, s)) /\ w \notin Sharers(p, s)
  BY <1>1, <1>3, WriterAssumption, FS_Subset DEF Sharers, TypeOK
<1>7. Cardinality(Sharers(q, l) \cup {w}) = Cardinality(Sharers(q, l)) + 1
  BY <1>1, <1>6, FS_AddElement
<1>8. Shares(w) = open[q][l] /\ open[q][l] \in Nat /\ open[q][l] > 0
  BY <1>1 DEF Shares, TypeOK
<1>9. LeaseAccounting'
  <2> SUFFICES ASSUME NEW p \in Proc, NEW s \in Lock
               PROVE  /\ open'[p][s] = Cardinality(Sharers(p, s)')
                      /\ open'[p][s] > 0 <=> lockFile[s] = p
    BY DEF LeaseAccounting
  <2>1. CASE p = q /\ s = l
    <3>1. Sharers(q, l)' = Sharers(q, l) \cup {w}
      BY <1>1, <1>5
    <3>2. open[q][l] = Cardinality(Sharers(q, l)) /\ (open[q][l] > 0 <=> lockFile[l] = q)
      BY <1>1 DEF LeaseAccounting
    <3>3. open'[q][l] = Cardinality(Sharers(q, l)')
      BY <1>3, <1>7, <3>1, <3>2
    <3>4. open'[q][l] > 0 <=> lockFile[l] = q
      BY <1>3, <1>8, <3>2
    <3>. QED BY <2>1, <3>3, <3>4
  <2>2. CASE p # q \/ s # l
    BY <1>1, <1>3, <1>5, <2>2 DEF LeaseAccounting
  <2>. QED BY <2>1, <2>2
<1>10. \A v \in Writer : pc'[v] \in {"running", "unsharing"} => v \in sharing'
  BY <1>1, <1>2, <1>3 DEF OwnershipInv
<1>11. \A v \in sharing' : pc'[v] \in {"running", "notifying", "unsharing"}
  BY <1>1, <1>2, <1>3 DEF OwnershipInv, TypeOK
<1>12. \A v \in Writer : pc'[v] \in {"acquiring", "acquired"} <=> opening[procOf[v]] = v
  BY <1>1, <1>2 DEF OwnershipInv
<1>13. \A v \in Writer : pc'[v] \in {"acquiring", "acquired"} => Shares(v)' = 0
  <2> SUFFICES ASSUME NEW v \in Writer, pc'[v] \in {"acquiring", "acquired"}
               PROVE  Shares(v)' = 0
    OBVIOUS
  <2>1. open[procOf[v]][LockOf(v)] = 0 /\ procOf[v] \in Proc /\ LockOf(v) \in Lock
    BY <1>1, <1>2, LocksOfWriters DEF OwnershipInv, Shares
  <2>. QED BY <1>3, <1>4, <1>8, <2>1 DEF Shares
<1>14. \A v \in Writer, s \in Lock :
          lockFile[s] = v <=> pc'[v] = "acquired" /\ LockOf(v)' = s
  BY <1>1, <1>2, <1>4 DEF OwnershipInv
<1>. QED BY <1>1, <1>9, <1>10, <1>11, <1>12, <1>13, <1>14 DEF OwnershipInv

LEMMA SameShares ==
    ASSUME TypeOK, lane' = lane, open' = open, sharing' = sharing
    PROVE  /\ \A v \in Writer : LockOf(v)' = LockOf(v) /\ Shares(v)' = Shares(v)
           /\ \A p \in Proc, s \in Lock : Sharers(p, s)' = Sharers(p, s)
  BY DEF LockOf, LockFor, Shares, Sharers

\* The steps between the lane and the lease: the mutex and the lock file pass
\* to one writer, or come back from it, and no share changes.
LEMMA LeasingStep ==
    ASSUME IInv, NEW w \in Writer,
           \/ TakeOpening(w) /\ Shares(w) = 0
           \/ Acquire(w)
           \/ AcquireFails(w)
           \/ GiveUp(w)
    PROVE  OwnershipInv' /\ LeaseAccounting'
<1>1. TypeOK /\ OwnershipInv /\ LeaseAccounting
  BY DEF IInv
<1> PICK q \in Proc, l \in Lock : q = procOf[w] /\ l = LockOf(w)
  BY <1>1, LocksOfWriters
<1>2. lane' = lane /\ open' = open /\ sharing' = sharing
  BY DEF TakeOpening, Acquire, AcquireFails, GiveUp, Goto
<1>3. /\ \A v \in Writer : LockOf(v)' = LockOf(v) /\ Shares(v)' = Shares(v)
      /\ \A p \in Proc, s \in Lock : Sharers(p, s)' = Sharers(p, s)
  BY <1>1, <1>2, SameShares
<1>4. w \notin sharing /\ w \notin Proc /\ w # NoOne /\ NoOne \notin Proc
  <2>1. pc[w] \in {"opening", "acquiring", "asleep", "acquired"}
    BY DEF TakeOpening, Acquire, AcquireFails, GiveUp
  <2>. QED BY <1>1, <2>1, WriterAssumption DEF OwnershipInv
<1>5. ASSUME TakeOpening(w), Shares(w) = 0
      PROVE  OwnershipInv' /\ LeaseAccounting'
  <2>1. /\ \A v \in Writer : v # w => pc'[v] = pc[v]
        /\ pc[w] = "opening" /\ pc'[w] = "acquiring"
        /\ opening[q] = NoOne /\ opening'[q] = w
        /\ \A p \in Proc : p # q => opening'[p] = opening[p]
        /\ lockFile' = lockFile
    BY <1>1, <1>5 DEF TakeOpening, Goto, TypeOK
  <2>2. LeaseAccounting'
    BY <1>1, <1>2, <1>3, <2>1 DEF LeaseAccounting
  <2>3. \A v \in Writer : pc'[v] \in {"acquiring", "acquired"} <=> opening'[procOf[v]] = v
    <3>1. \A v \in Writer : procOf[v] = q /\ v # w => pc[v] \notin {"acquiring", "acquired"}
      BY <1>1, <2>1, WriterAssumption DEF OwnershipInv
    <3>. QED BY <1>1, <2>1, <3>1, LocksOfWriters DEF OwnershipInv
  <2>4. \A v \in Writer, p \in Proc : opening'[p] = v => procOf[v] = p
    BY <1>1, <2>1 DEF OwnershipInv
  <2>5. \A v \in Writer, s \in Lock :
           lockFile'[s] = v <=> pc'[v] = "acquired" /\ LockOf(v)' = s
    BY <1>1, <1>3, <2>1 DEF OwnershipInv
  <2>6. \A v \in Writer : pc'[v] \in {"acquiring", "acquired"} => Shares(v)' = 0
    BY <1>1, <1>3, <1>5, <2>1 DEF OwnershipInv
  <2>7. /\ \A v \in Writer : pc'[v] \in {"running", "unsharing"} => v \in sharing'
        /\ \A v \in sharing' : pc'[v] \in {"running", "notifying", "unsharing"}
    BY <1>1, <1>2, <1>4, <2>1 DEF OwnershipInv, TypeOK
  <2>. QED BY <2>2, <2>3, <2>4, <2>5, <2>6, <2>7 DEF OwnershipInv
<1>6. ASSUME Acquire(w)
      PROVE  OwnershipInv' /\ LeaseAccounting'
  <2>1. /\ \A v \in Writer : v # w => pc'[v] = pc[v]
        /\ pc[w] = "acquiring" /\ pc'[w] = "acquired"
        /\ lockFile[l] = NoOne /\ lockFile'[l] = w
        /\ \A s \in Lock : s # l => lockFile'[s] = lockFile[s]
        /\ opening' = opening
    BY <1>1, <1>6 DEF Acquire, Goto, TypeOK
  <2>2. LeaseAccounting'
    BY <1>1, <1>2, <1>3, <1>4, <2>1 DEF LeaseAccounting
  <2>3. \A v \in Writer : pc'[v] \in {"acquiring", "acquired"} <=> opening'[procOf[v]] = v
    BY <1>1, <2>1 DEF OwnershipInv
  <2>4. \A v \in Writer, s \in Lock :
           lockFile'[s] = v <=> pc'[v] = "acquired" /\ LockOf(v)' = s
    <3> SUFFICES ASSUME NEW v \in Writer, NEW s \in Lock
                 PROVE  lockFile'[s] = v <=> pc'[v] = "acquired" /\ LockOf(v) = s
      BY <1>3
    <3>1. NoOne # v
      BY WriterAssumption
    <3>. QED BY <1>1, <2>1, <3>1 DEF OwnershipInv
  <2>5. \A v \in Writer : pc'[v] \in {"acquiring", "acquired"} => Shares(v)' = 0
    BY <1>1, <1>3, <2>1 DEF OwnershipInv
  <2>6. \A v \in Writer : pc'[v] \in {"running", "unsharing"} => v \in sharing'
    BY <1>1, <1>2, <2>1 DEF OwnershipInv
  <2>7. \A v \in sharing' : pc'[v] \in {"running", "notifying", "unsharing"}
    <3>1. sharing' \subseteq Writer /\ w \notin sharing'
      BY <1>1, <1>2, <1>4 DEF TypeOK
    <3>. QED BY <1>1, <1>2, <2>1, <3>1 DEF OwnershipInv
  <2>8. \A v \in Writer, p \in Proc : opening'[p] = v => procOf[v] = p
    BY <1>1, <2>1 DEF OwnershipInv
  <2>. QED BY <2>2, <2>3, <2>4, <2>5, <2>6, <2>7, <2>8 DEF OwnershipInv
<1>7. ASSUME AcquireFails(w) \/ GiveUp(w)
      PROVE  OwnershipInv' /\ LeaseAccounting'
  <2>1. /\ \A v \in Writer : v # w => pc'[v] = pc[v]
        /\ pc'[w] = "leaving"
        /\ opening' = [p \in Proc |-> IF opening[p] = w THEN NoOne ELSE opening[p]]
    BY <1>1, <1>7 DEF AcquireFails, GiveUp, ReleaseOpening, Goto, TypeOK
  <2>2. \A s \in Lock : /\ lockFile[s] = w => lockFile'[s] = NoOne
                        /\ lockFile[s] # w => lockFile'[s] = lockFile[s]
    <3>1. CASE GiveUp(w)
      BY <3>1 DEF GiveUp
    <3>2. CASE AcquireFails(w)
      <4>1. lockFile' = lockFile /\ pc[w] = "acquiring"
        BY <3>2 DEF AcquireFails
      <4>2. \A s \in Lock : lockFile[s] # w
        BY <1>1, <4>1 DEF OwnershipInv
      <4>. QED BY <4>1, <4>2
    <3>. QED BY <1>7, <3>1, <3>2
  <2>3. LeaseAccounting'
    <3> SUFFICES ASSUME NEW p \in Proc, NEW s \in Lock
                 PROVE  /\ open'[p][s] = Cardinality(Sharers(p, s)')
                        /\ open'[p][s] > 0 <=> lockFile'[s] = p
      BY DEF LeaseAccounting
    <3>1. lockFile'[s] = p <=> lockFile[s] = p
      BY <1>4, <2>2
    <3>. QED BY <1>1, <1>2, <1>3, <3>1 DEF LeaseAccounting
  <2>4. \A v \in Writer : pc'[v] \in {"acquiring", "acquired"} <=> opening'[procOf[v]] = v
    <3> SUFFICES ASSUME NEW v \in Writer
                 PROVE  pc'[v] \in {"acquiring", "acquired"} <=> opening'[procOf[v]] = v
      OBVIOUS
    <3>1. procOf[v] \in Proc /\ NoOne # v
      BY <1>1, LocksOfWriters, WriterAssumption
    <3>. QED BY <1>1, <1>4, <2>1, <3>1 DEF OwnershipInv
  <2>5. \A v \in Writer, p \in Proc : opening'[p] = v => procOf[v] = p
    <3>1. \A v \in Writer : v # NoOne
      BY WriterAssumption
    <3>. QED BY <1>1, <2>1, <3>1 DEF OwnershipInv
  <2>6. \A v \in Writer, s \in Lock :
           lockFile'[s] = v <=> pc'[v] = "acquired" /\ LockOf(v)' = s
    <3> SUFFICES ASSUME NEW v \in Writer, NEW s \in Lock
                 PROVE  lockFile'[s] = v <=> pc'[v] = "acquired" /\ LockOf(v) = s
      BY <1>3
    <3>1. NoOne # v
      BY WriterAssumption
    <3>2. CASE v = w
      BY <2>1, <2>2, <3>1, <3>2
    <3>3. CASE v # w
      <4>1. lockFile'[s] = v <=> lockFile[s] = v
        BY <2>2, <3>1, <3>3
      <4>. QED BY <1>1, <2>1, <3>3, <4>1 DEF OwnershipInv
    <3>. QED BY <3>2, <3>3
  <2>7. \A v \in Writer : pc'[v] \in {"acquiring", "acquired"} => Shares(v)' = 0
    BY <1>1, <1>3, <2>1 DEF OwnershipInv
  <2>8. \A v \in Writer : pc'[v] \in {"running", "unsharing"} => v \in sharing'
    BY <1>1, <1>2, <2>1 DEF OwnershipInv
  <2>9. \A v \in sharing' : pc'[v] \in {"running", "notifying", "unsharing"}
    <3>1. sharing' \subseteq Writer /\ w \notin sharing'
      BY <1>1, <1>2, <1>4 DEF TypeOK
    <3>. QED BY <1>1, <1>2, <2>1, <3>1 DEF OwnershipInv
  <2>. QED BY <2>3, <2>4, <2>5, <2>6, <2>7, <2>8, <2>9 DEF OwnershipInv
<1>. QED BY <1>5, <1>6, <1>7

\* The process opens its lease with w as the first to share it.
LEMMA StoredStep ==
    ASSUME IInv, NEW w \in Writer, StoreLease(w)
    PROVE  OwnershipInv' /\ LeaseAccounting'
<1>1. TypeOK /\ OwnershipInv /\ LeaseAccounting
  BY DEF IInv
<1> PICK q \in Proc, l \in Lock : q = procOf[w] /\ l = LockOf(w)
  BY <1>1, LocksOfWriters
<1>2. /\ \A v \in Writer : v # w => pc'[v] = pc[v]
      /\ pc[w] = "acquired" /\ pc'[w] = "running"
      /\ lockFile'[l] = q /\ \A s \in Lock : s # l => lockFile'[s] = lockFile[s]
      /\ opening'[q] = NoOne /\ \A p \in Proc : p # q => opening'[p] = opening[p]
  BY <1>1 DEF StoreLease, Goto, TypeOK
<1>3. /\ open'[q][l] = 1
      /\ \A p \in Proc, s \in Lock : p # q \/ s # l => open'[p][s] = open[p][s]
  BY <1>1 DEF StoreLease, TypeOK
<1>4. sharing' = sharing \cup {w} /\ w \notin sharing /\ sharing \subseteq Writer
  BY <1>1, <1>2 DEF StoreLease, OwnershipInv, TypeOK
<1>5. \A v \in Writer : LockOf(v)' = LockOf(v)
  BY DEF StoreLease, LockOf, LockFor
<1>6. /\ lockFile[l] = w /\ opening[q] = w /\ open[q][l] = 0
      /\ w \notin Proc /\ w # NoOne
  BY <1>1, <1>2, WriterAssumption DEF OwnershipInv, Shares
<1>7. \A p \in Proc, s \in Lock :
         Sharers(p, s)' = IF p = q /\ s = l THEN Sharers(p, s) \cup {w} ELSE Sharers(p, s)
  BY <1>4, <1>5 DEF Sharers
<1>8. Cardinality(Sharers(q, l)') = 1
  <2>1. IsFiniteSet(Sharers(q, l))
    BY <1>4, WriterAssumption, FS_Subset DEF Sharers
  <2>2. Sharers(q, l) = {}
    BY <1>1, <1>6, <2>1, FS_EmptySet DEF LeaseAccounting
  <2>3. Sharers(q, l)' = {w}
    BY <1>7, <2>2
  <2>. QED BY <2>3, FS_Singleton
<1>9. LeaseAccounting'
  <2> SUFFICES ASSUME NEW p \in Proc, NEW s \in Lock
               PROVE  /\ open'[p][s] = Cardinality(Sharers(p, s)')
                      /\ open'[p][s] > 0 <=> lockFile'[s] = p
    BY DEF LeaseAccounting
  <2>1. CASE p = q /\ s = l
    BY <1>2, <1>3, <1>8, <2>1
  <2>2. CASE s # l
    BY <1>1, <1>2, <1>3, <1>7, <2>2 DEF LeaseAccounting
  <2>3. CASE p # q /\ s = l
    <3>1. open'[p][s] = open[p][s] /\ Sharers(p, s)' = Sharers(p, s)
      BY <1>3, <1>7, <2>3
    <3>2. ~(open[p][s] > 0)
      BY <1>1, <1>6, <2>3 DEF LeaseAccounting
    <3>. QED BY <1>1, <1>2, <2>3, <3>1, <3>2 DEF LeaseAccounting
  <2>. QED BY <2>1, <2>2, <2>3
<1>10. \A v \in Writer : pc'[v] \in {"running", "unsharing"} => v \in sharing'
  BY <1>1, <1>2, <1>4 DEF OwnershipInv
<1>11. \A v \in sharing' : pc'[v] \in {"running", "notifying", "unsharing"}
  BY <1>1, <1>2, <1>4 DEF OwnershipInv
<1>12. \A v \in Writer : v # w /\ procOf[v] = q => pc[v] \notin {"acquiring", "acquired"}
  BY <1>1, <1>6 DEF OwnershipInv
<1>13. \A v \in Writer : pc'[v] \in {"acquiring", "acquired"} <=> opening'[procOf[v]] = v
  <2> SUFFICES ASSUME NEW v \in Writer
               PROVE  pc'[v] \in {"acquiring", "acquired"} <=> opening'[procOf[v]] = v
    OBVIOUS
  <2>1. procOf[v] \in Proc /\ NoOne # v
    BY <1>1, LocksOfWriters, WriterAssumption
  <2>. QED BY <1>1, <1>2, <1>12, <2>1 DEF OwnershipInv
<1>14. \A v \in Writer, p \in Proc : opening'[p] = v => procOf[v] = p
  <2>1. \A v \in Writer : v # NoOne
    BY WriterAssumption
  <2>. QED BY <1>1, <1>2, <2>1 DEF OwnershipInv
<1>15. \A v \in Writer : pc'[v] \in {"acquiring", "acquired"} => Shares(v)' = 0
  <2> SUFFICES ASSUME NEW v \in Writer, pc'[v] \in {"acquiring", "acquired"}
               PROVE  Shares(v)' = 0
    OBVIOUS
  <2>1. v # w /\ procOf[v] # q /\ pc[v] \in {"acquiring", "acquired"}
    BY <1>2, <1>12
  <2>2. open[procOf[v]][LockOf(v)] = 0 /\ procOf[v] \in Proc /\ LockOf(v) \in Lock
    BY <1>1, <2>1, LocksOfWriters DEF OwnershipInv, Shares
  <2>. QED BY <1>3, <1>5, <2>1, <2>2 DEF Shares
<1>16. \A v \in Writer, s \in Lock :
          lockFile'[s] = v <=> pc'[v] = "acquired" /\ LockOf(v)' = s
  <2> SUFFICES ASSUME NEW v \in Writer, NEW s \in Lock
               PROVE  lockFile'[s] = v <=> pc'[v] = "acquired" /\ LockOf(v) = s
    BY <1>5
  <2>1. q # v
    BY WriterAssumption
  <2>. QED BY <1>1, <1>2, <1>6, <2>1 DEF OwnershipInv
<1>. QED BY <1>9, <1>10, <1>11, <1>13, <1>14, <1>15, <1>16 DEF OwnershipInv

\* A share is dropped; the last one frees the lock file.
LEMMA DroppedStep ==
    ASSUME IInv, NEW w \in Writer, DropShare(w)
    PROVE  OwnershipInv' /\ LeaseAccounting'
<1>1. TypeOK /\ OwnershipInv /\ LeaseAccounting
  BY DEF IInv
<1> PICK q \in Proc, l \in Lock : q = procOf[w] /\ l = LockOf(w)
  BY <1>1, LocksOfWriters
<1>2. /\ \A v \in Writer : v # w => pc'[v] = pc[v] /\ lane'[v] = lane[v]
      /\ pc[w] = "unsharing" /\ pc'[w] = "idle"
      /\ opening' = opening
  BY <1>1 DEF DropShare, Goto, TypeOK
<1>3. /\ open'[q][l] = open[q][l] - 1
      /\ \A p \in Proc, s \in Lock : p # q \/ s # l => open'[p][s] = open[p][s]
  BY <1>1 DEF DropShare, TypeOK
<1>4. sharing' = sharing \ {w} /\ w \in sharing /\ sharing \subseteq Writer
  BY <1>1, <1>2 DEF DropShare, OwnershipInv, TypeOK
<1>5. \A v \in Writer : v # w => LockOf(v)' = LockOf(v)
  BY <1>2 DEF LockOf, LockFor
<1>6. \A p \in Proc, s \in Lock :
         Sharers(p, s)' = IF p = q /\ s = l THEN Sharers(p, s) \ {w} ELSE Sharers(p, s)
  BY <1>4, <1>5 DEF Sharers
<1>7. /\ open[q][l] \in Nat /\ open[q][l] > 0 /\ lockFile[l] = q
      /\ open[q][l] = Cardinality(Sharers(q, l))
      /\ Shares(w) = open[q][l]
  BY <1>1, <1>4, SharerIsCounted DEF LeaseAccounting, TypeOK, Shares
<1>8. Cardinality(Sharers(q, l)') = open[q][l] - 1
  <2>1. IsFiniteSet(Sharers(q, l)) /\ w \in Sharers(q, l)
    BY <1>4, WriterAssumption, FS_Subset DEF Sharers
  <2>2. Cardinality(Sharers(q, l) \ {w}) = Cardinality(Sharers(q, l)) - 1
    BY <2>1, FS_RemoveElement
  <2>. QED BY <1>6, <1>7, <2>2
<1>9. \A s \in Lock :
         lockFile'[s] = IF s = l /\ open[q][l] = 1 THEN NoOne ELSE lockFile[s]
  BY <1>1, <1>7 DEF DropShare, TypeOK
<1>10. NoOne \notin Proc /\ w \notin Proc /\ \A v \in Writer : v # NoOne /\ v # q
  BY WriterAssumption
<1>11. LeaseAccounting'
  <2> SUFFICES ASSUME NEW p \in Proc, NEW s \in Lock
               PROVE  /\ open'[p][s] = Cardinality(Sharers(p, s)')
                      /\ open'[p][s] > 0 <=> lockFile'[s] = p
    BY DEF LeaseAccounting
  <2>1. CASE p = q /\ s = l
    <3>1. open'[q][l] > 0 <=> lockFile'[l] = q
      BY <1>3, <1>7, <1>9, <1>10
    <3>. QED BY <1>3, <1>8, <2>1, <3>1
  <2>2. CASE s # l
    BY <1>1, <1>3, <1>6, <1>9, <2>2 DEF LeaseAccounting
  <2>3. CASE p # q /\ s = l
    <3>1. open'[p][s] = open[p][s] /\ Sharers(p, s)' = Sharers(p, s)
      BY <1>3, <1>6, <2>3
    <3>2. ~(open[p][s] > 0)
      BY <1>1, <1>7, <2>3 DEF LeaseAccounting
    <3>. QED BY <1>1, <1>7, <1>9, <1>10, <2>3, <3>1, <3>2 DEF LeaseAccounting
  <2>. QED BY <2>1, <2>2, <2>3
<1>12. \A v \in Writer : pc'[v] \in {"running", "unsharing"} => v \in sharing'
  BY <1>1, <1>2, <1>4 DEF OwnershipInv
<1>13. \A v \in sharing' : pc'[v] \in {"running", "notifying", "unsharing"}
  BY <1>1, <1>2, <1>4 DEF OwnershipInv
<1>14. \A v \in Writer : pc'[v] \in {"acquiring", "acquired"} <=> opening[procOf[v]] = v
  BY <1>1, <1>2 DEF OwnershipInv
<1>15. \A v \in Writer : pc'[v] \in {"acquiring", "acquired"} => Shares(v)' = 0
  <2> SUFFICES ASSUME NEW v \in Writer, pc'[v] \in {"acquiring", "acquired"}
               PROVE  Shares(v)' = 0
    OBVIOUS
  <2>1. v # w /\ pc[v] \in {"acquiring", "acquired"}
    BY <1>2
  <2>2. open[procOf[v]][LockOf(v)] = 0 /\ procOf[v] \in Proc /\ LockOf(v) \in Lock
    BY <1>1, <2>1, LocksOfWriters DEF OwnershipInv, Shares
  <2>. QED BY <1>3, <1>5, <1>7, <2>1, <2>2 DEF Shares
<1>16. \A v \in Writer, s \in Lock :
          lockFile'[s] = v <=> pc'[v] = "acquired" /\ LockOf(v)' = s
  <2> SUFFICES ASSUME NEW v \in Writer, NEW s \in Lock
               PROVE  lockFile'[s] = v <=> pc'[v] = "acquired" /\ LockOf(v)' = s
    OBVIOUS
  <2>1. lockFile'[s] = v <=> lockFile[s] = v
    BY <1>7, <1>9, <1>10
  <2>. QED BY <1>1, <1>2, <1>5, <2>1 DEF OwnershipInv
<1>. QED
  BY <1>1, <1>2, <1>11, <1>12, <1>13, <1>14, <1>15, <1>16 DEF OwnershipInv

LEMMA StepShares == IInv /\ [Next]_vars => OwnershipInv' /\ LeaseAccounting'
<1> SUFFICES ASSUME IInv, [Next]_vars
             PROVE  OwnershipInv' /\ LeaseAccounting'
  OBVIOUS
<1>0. TypeOK /\ OwnershipInv /\ LeaseAccounting
  BY DEF IInv
<1>1. ASSUME NEW w \in Writer, NEW k \in Key, Join(w, k)
      PROVE  OwnershipInv' /\ LeaseAccounting'
  <2>1. w \notin sharing
    BY <1>0, <1>1 DEF Join, OwnershipInv
  <2>. QED BY <1>1, <2>1, SharelessStep DEF Join, PC
<1>2. ASSUME NEW w \in Writer, Check(w) \/ Wake(w)
      PROVE  OwnershipInv' /\ LeaseAccounting'
  <2>1. w \notin sharing
    BY <1>0, <1>2 DEF Check, Wake, OwnershipInv
  <2>. QED BY <1>0, <1>2, <2>1, SharelessStep DEF Check, Wake, PC, InLane
<1>3. ASSUME NEW w \in Writer, JoinShare(w)
      PROVE  OwnershipInv' /\ LeaseAccounting'
  <2>1. w \notin sharing
    BY <1>0, <1>3 DEF JoinShare, OwnershipInv
  <2>2. CASE Shares(w) = 0
    BY <1>0, <1>3, <2>1, <2>2, SharelessStep DEF JoinShare, PC, InLane
  <2>3. CASE Shares(w) > 0
    BY <1>3, <2>3, JoinedStep DEF JoinShare
  <2>. QED BY <1>3, <2>2, <2>3 DEF JoinShare
<1>4. ASSUME NEW w \in Writer, TakeOpening(w)
      PROVE  OwnershipInv' /\ LeaseAccounting'
  <2>1. CASE Shares(w) = 0
    BY <1>4, <2>1, LeasingStep
  <2>2. CASE Shares(w) > 0
    BY <1>4, <2>2, JoinedStep DEF TakeOpening
  <2>. QED BY <1>4, <2>1, <2>2 DEF TakeOpening
<1>5. ASSUME NEW w \in Writer, Acquire(w) \/ AcquireFails(w) \/ GiveUp(w)
      PROVE  OwnershipInv' /\ LeaseAccounting'
  BY <1>5, LeasingStep
<1>6. ASSUME NEW w \in Writer, StoreLease(w)
      PROVE  OwnershipInv' /\ LeaseAccounting'
  BY <1>6, StoredStep
<1>7. ASSUME NEW w \in Writer, LeaveLine(w)
      PROVE  OwnershipInv' /\ LeaseAccounting'
  BY <1>0, <1>7, SharelessStep DEF LeaveLine, PC
<1>8. ASSUME NEW w \in Writer, Notify(w)
      PROVE  OwnershipInv' /\ LeaseAccounting'
  <2>1. CASE w \in sharing
    BY <1>0, <1>8, <2>1, SharelessStep DEF Notify, PC
  <2>2. CASE w \notin sharing
    BY <1>0, <1>8, <2>2, SharelessStep DEF Notify, PC
  <2>. QED BY <2>1, <2>2
<1>9. ASSUME NEW w \in Writer, DropShare(w)
      PROVE  OwnershipInv' /\ LeaseAccounting'
  BY <1>9, DroppedStep
<1>10. CASE UNCHANGED vars
  BY <1>0, <1>10 DEF vars, OwnershipInv, LeaseAccounting, Sharers, Shares, LockOf, LockFor
<1>. QED
  BY <1>1, <1>2, <1>3, <1>4, <1>5, <1>6, <1>7, <1>8, <1>9, <1>10 DEF Next, Progress

-----------------------------------------------------------------------------
(* The theorems.                                                           *)

LEMMA InitInv == Init => IInv
<1> SUFFICES ASSUME Init
             PROVE  IInv
  OBVIOUS
<1>1. TypeOK
  BY InitType
<1>2. LineInv /\ NoOvertaking
  BY DEF Init, LineInv, NoOvertaking, Queued, InLane
<1>3. OwnershipInv
  BY WriterAssumption DEF Init, OwnershipInv
<1>4. LeaseAccounting
  <2>1. \A p \in Proc, s \in Lock : Sharers(p, s) = {}
    BY DEF Init, Sharers
  <2>2. NoOne \notin Proc
    BY WriterAssumption
  <2>3. \A p \in Proc, s \in Lock : open[p][s] = 0 /\ lockFile[s] # p
    BY <2>2 DEF Init
  <2>4. Cardinality({}) = 0
    BY FS_EmptySet
  <2> SUFFICES ASSUME NEW p \in Proc, NEW s \in Lock
               PROVE  /\ open[p][s] = Cardinality(Sharers(p, s))
                      /\ open[p][s] > 0 <=> lockFile[s] = p
    BY DEF LeaseAccounting
  <2>5. Sharers(p, s) = {} /\ open[p][s] = 0 /\ lockFile[s] # p
    BY <2>1, <2>3
  <2>. QED BY <2>4, <2>5
<1>. QED BY <1>1, <1>2, <1>3, <1>4 DEF IInv

\* The line, the shares, the mutex and the lock files agree in every state.
THEOREM InductiveInvariant == Spec => []IInv
<1>1. IInv /\ [Next]_vars => IInv'
  BY StepType, StepLine, StepShares DEF IInv
<1>. QED BY InitInv, <1>1, PTL DEF Spec

\* Every variable keeps its type, whatever the writers and keys.
THEOREM TypeCorrect == Spec => []TypeOK
<1>1. IInv => TypeOK
  BY DEF IInv
<1>. QED BY <1>1, InductiveInvariant, PTL

\* Two changes of one process whose keys overlap never run together.
THEOREM LaneExclusion == Spec => []OverlappingWritersExclude
<1>1. IInv => OverlappingWritersExclude
  <2> SUFFICES ASSUME IInv, NEW v \in Writer, NEW w \in Writer,
                      v # w, procOf[v] = procOf[w],
                      pc[v] = "running", pc[w] = "running",
                      Overlap(lane[v], lane[w])
               PROVE  FALSE
    BY DEF OverlappingWritersExclude
  <2>1. TypeOK /\ LineInv /\ NoOvertaking
    BY DEF IInv
  <2> PICK p \in Proc : p = procOf[v]
    BY <2>1, LocksOfWriters
  <2>2. PICK i \in DOMAIN line[p] : line[p][i] = v
    BY <2>1 DEF LineInv, Queued, InLane
  <2>3. PICK j \in DOMAIN line[p] : line[p][j] = w
    BY <2>1 DEF LineInv, Queued, InLane
  <2>4. i \in Nat /\ j \in Nat /\ i # j
    BY <2>1, <2>2, <2>3 DEF TypeOK
  <2>5. CASE i < j
    BY <2>1, <2>2, <2>3, <2>5 DEF NoOvertaking, InLane
  <2>6. CASE j < i
    BY <2>1, <2>2, <2>3, <2>6, OverlapSymmetric DEF NoOvertaking, InLane
  <2>. QED BY <2>4, <2>5, <2>6
<1>. QED BY <1>1, InductiveInvariant, PTL

\* Nobody enters the lane past an earlier writer it overlaps.
THEOREM ArrivalOrder == Spec => []NoOvertaking
<1>1. IInv => NoOvertaking
  BY DEF IInv
<1>. QED BY <1>1, InductiveInvariant, PTL

\* The shares counted are the shares alive, and the lock file is held exactly
\* while there are any.
THEOREM LeaseIsCounted == Spec => []LeaseAccounting
<1>1. IInv => LeaseAccounting
  BY DEF IInv
<1>. QED BY <1>1, InductiveInvariant, PTL

\* Writers of two processes never run under one lock file.
THEOREM ProcessExclusion == Spec => []ProcessesExclude
<1>1. IInv => ProcessesExclude
  <2> SUFFICES ASSUME IInv, NEW v \in Writer, NEW w \in Writer,
                      procOf[v] # procOf[w],
                      pc[v] = "running", pc[w] = "running", LockOf(v) = LockOf(w)
               PROVE  FALSE
    BY DEF ProcessesExclude
  <2>1. TypeOK /\ OwnershipInv /\ LeaseAccounting
    BY DEF IInv
  <2>2. v \in sharing /\ w \in sharing
    BY <2>1 DEF OwnershipInv
  <2>3. ASSUME NEW u \in sharing
        PROVE  lockFile[LockOf(u)] = procOf[u]
    <3>1. u \in Writer /\ Shares(u) > 0
      BY <2>1, SharerIsCounted DEF TypeOK
    <3>. QED BY <2>1, <3>1, LocksOfWriters DEF LeaseAccounting, Shares
  <2>. QED BY <2>2, <2>3
<1>. QED BY <1>1, InductiveInvariant, PTL
=============================================================================
