-------------------------- MODULE EventChainProofs --------------------------
(***************************************************************************)
(* Proofs about EventChain, for any connections, events, bounds and        *)
(* damage: one chain, sound memories of it, and the promise of AppendLog.  *)
(*                                                                         *)
(* No induction over the rows is needed: whatever is done to the bodies,   *)
(* the hashes of the table stay those of the committed events (Chain), so  *)
(* that a row is sound exactly if it says what was committed there.        *)
(***************************************************************************)
EXTENDS EventChain, TLAPS

TableRow == [prev : Seq(Body), body : Body, hash : Seq(Body)]
Anchor == [count : Nat, head : Seq(Body)]
Memory == [version : [foreign : Nat, local : Nat], count : Nat,
           head : Seq(Body), whole : BOOLEAN]

Types ==
    /\ rows \in Seq(TableRow) /\ anchor \in Anchor
    /\ log \in Seq(Body) /\ Len(log) <= MaxRows
    /\ triggers \in BOOLEAN /\ damaged \in BOOLEAN
    /\ lock \in Handle \cup {None}
    /\ foreign \in [Handle -> Nat] /\ local \in [Handle -> Nat]
    /\ pc \in [Handle -> {"idle", "reading", "writing", "stamping"}]
    /\ known \in [Handle -> Memory \cup {None}]
    /\ taken \in [Handle -> Memory \cup {None}]
    /\ view \in [Handle -> [rows : Seq(TableRow), anchor : Anchor]]
    /\ draft \in [Handle -> TableRow \cup {None}]
    /\ asked \in [Handle -> 0 .. MaxRows] /\ outside \in 0 .. MaxOutside
    /\ answer = [h \in Handle |-> answer[h]]

Prefix(l, n) == SubSeq(l, 1, n)

\* The hashes of a table are those of the events it was given.
Linked(rs, l) ==
    /\ Len(rs) <= Len(l)
    /\ \A i \in 1 .. Len(rs) :
          rs[i].prev = Prefix(l, i - 1) /\ rs[i].hash = Prefix(l, i)

Says(rs, l) == \A i \in 1 .. Len(rs) : rs[i].body = l[i]

Chain ==
    /\ Len(rows) = Len(log) /\ Linked(rows, log)
    /\ anchor = [count |-> Len(log), head |-> log]
    /\ ~damaged => Says(rows, log)

\* The write lock is held by the one append that is about to commit, and its
\* row continues the chain.
Lock == \A h \in Handle :
    /\ pc[h] = "writing" <=> lock = h
    /\ pc[h] \in {"writing", "stamping"} => draft[h] \in TableRow
    /\ pc[h] = "writing" => /\ Len(log) < MaxRows
                            /\ draft[h].prev = log
                            /\ draft[h].hash = Append(log, draft[h].body)

\* What a memory p is worth to a connection that counts f commits of others
\* and n changes of its own, on the table rs of the events l.
Worth(p, f, n, l, rs) ==
    /\ p.version.foreign <= f /\ p.version.local <= n
    /\ p.count <= Len(l) /\ p.head = Prefix(l, p.count)
    /\ p.version = [foreign |-> f, local |-> n] =>
          p.count = Len(l) /\ (p.whole => Says(rs, l))

\* What it is worth when the row d was added to it, until others commit.
WorthMore(p, d, f, l, rs) ==
    /\ p.version.foreign <= f
    /\ p.count < Len(l) /\ p.head = Prefix(l, p.count)
    /\ d.hash = Prefix(l, p.count + 1)
    /\ p.version.foreign = f =>
          p.count + 1 = Len(l) /\ (p.whole => Says(rs, l))

MemoryOf(h) ==
    /\ known[h] # None => Worth(known[h], foreign[h], local[h], log, rows)
    /\ pc[h] = "idle" => taken[h] = None
    /\ pc[h] = "reading" =>
          taken[h] \in Memory /\ Worth(taken[h], foreign[h], local[h], log, rows)
    /\ pc[h] = "writing" /\ taken[h] # None =>
          /\ Worth(taken[h], foreign[h], local[h], log, rows)
          /\ taken[h].version = Version(h) /\ ~triggers
    /\ pc[h] = "stamping" /\ taken[h] # None =>
          WorthMore(taken[h], draft[h], foreign[h], log, rows)

Memories == \A h \in Handle : MemoryOf(h)

\* A read in progress looks at a table that stood during it.
SnapshotOf(h) == pc[h] = "reading" =>
    /\ answer[h] = Waiting
    /\ Linked(view[h].rows, log) /\ asked[h] <= Len(view[h].rows)
    /\ taken[h].whole => Says(view[h].rows, log)

Snapshots == \A h \in Handle : SnapshotOf(h)

IInv == Types /\ Chain /\ Lock /\ Memories /\ Snapshots

-----------------------------------------------------------------------------
(* Sequences.                                                              *)

LEMMA PrefixType ==
    ASSUME NEW S, NEW s \in Seq(S), NEW n \in 0 .. Len(s)
    PROVE  SubSeq(s, 1, n) \in Seq(S) /\ Len(SubSeq(s, 1, n)) = n
  OBVIOUS

LEMMA WholePrefix ==
    ASSUME NEW S, NEW s \in Seq(S)
    PROVE  SubSeq(s, 1, Len(s)) = s
  OBVIOUS

LEMMA PrefixOfLonger ==
    ASSUME NEW S, NEW s \in Seq(S), NEW b \in S, NEW n \in 0 .. Len(s)
    PROVE  SubSeq(Append(s, b), 1, n) = SubSeq(s, 1, n)
  OBVIOUS

\* A row is sound exactly if it says what was committed at its place.
LEMMA NextOfPrefix ==
    ASSUME NEW S, NEW s \in Seq(S), NEW i \in 1 .. Len(s), NEW b \in S
    PROVE  SubSeq(s, 1, i) = Append(SubSeq(s, 1, i - 1), b) <=> b = s[i]
  OBVIOUS
-----------------------------------------------------------------------------
(* What the checks of the code amount to on such a table.                  *)

\* A table that never lost its hashes passes the check of its rows exactly
\* if they say what was committed.
LEMMA SoundSays ==
    ASSUME NEW rs \in Seq(TableRow), Linked(rs, log), log \in Seq(Body),
           NEW i \in 1 .. Len(rs)
    PROVE  Sound(rs[i]) <=> rs[i].body = log[i]
<1>1. rs[i].body \in Body
  <2>1. rs[i] \in TableRow
    OBVIOUS
  <2>. QED BY <2>1 DEF TableRow
<1>2. rs[i].prev = SubSeq(log, 1, i - 1) /\ rs[i].hash = SubSeq(log, 1, i)
      /\ i \in 1 .. Len(log)
  BY DEF Linked, Prefix
<1>. QED BY <1>1, <1>2, NextOfPrefix DEF Sound, HashOf

LEMMA HeadIs ==
    ASSUME NEW rs \in Seq(TableRow), Linked(rs, log), log \in Seq(Body)
    PROVE  HeadOf(rs) = Prefix(log, Len(rs))
<1>1. CASE rs = <<>>
  <2>1. Len(rs) = 0 /\ SubSeq(log, 1, 0) = <<>>
    BY <1>1
  <2>. QED BY <1>1, <2>1 DEF HeadOf, Prefix
<1>2. CASE rs # <<>>
  <2>1. Len(rs) \in 1 .. Len(rs)
    BY <1>2
  <2>. QED BY <1>2, <2>1 DEF HeadOf, Linked
<1>. QED BY <1>1, <1>2

LEMMA TableHead ==
    ASSUME Types, Chain
    PROVE  HeadOf(rows) = log /\ Anchored(rows, anchor)
<1>1. HeadOf(rows) = Prefix(log, Len(log))
  BY HeadIs DEF Types, Chain
<1>2. Prefix(log, Len(log)) = log
  BY WholePrefix DEF Types, Prefix
<1>. QED BY <1>1, <1>2 DEF Chain, Anchored

LEMMA FullMeans ==
    ASSUME Types, Chain
    PROVE  Full(rows, anchor) <=> Says(rows, log)
<1>1. \A i \in 1 .. Len(rows) : Sound(rows[i]) <=> rows[i].body = log[i]
  BY SoundSays DEF Types, Chain
<1>2. \A i \in 1 .. Len(rows) :
         rows[i].prev = IF i = 0 + 1 THEN <<>> ELSE rows[i - 1].hash
  <2>1. TAKE i \in 1 .. Len(rows)
  <2>2. rows[i].prev = Prefix(log, i - 1)
    BY DEF Chain, Linked
  <2>3. CASE i = 1
    <3>1. Prefix(log, 0) = <<>>
      BY DEF Prefix, Types
    <3>. QED BY <2>2, <2>3, <3>1
  <2>4. CASE i # 1
    <3>1. i - 1 \in 1 .. Len(rows)
      BY <2>4 DEF Types
    <3>2. rows[i - 1].hash = Prefix(log, i - 1)
      BY <3>1 DEF Chain, Linked
    <3>. QED BY <2>2, <2>4, <3>2
  <2>. QED BY <2>3, <2>4
<1>3. Anchored(rows, anchor)
  BY TableHead
<1>4. (0 + 1) .. Len(rows) = 1 .. Len(rows)
  OBVIOUS
<1>. QED BY <1>1, <1>2, <1>3, <1>4 DEF Full, ValidAfter, Says

\* An undamaged chain extends whatever was proven of it.
LEMMA MemoryExtends ==
    ASSUME Types, Chain, Says(rows, log), NEW h \in Handle, NEW p \in Memory,
           Worth(p, foreign[h], local[h], log, rows)
    PROVE  Extends(p, rows, anchor)
<1>1. \A i \in 1 .. Len(rows) : Sound(rows[i])
  BY SoundSays DEF Types, Chain, Says
<1>2. /\ p.count \in Nat /\ p.count <= Len(rows) /\ p.head = Prefix(log, p.count)
      /\ Len(rows) \in Nat
  BY DEF Worth, Memory, Chain, Types
<1>3. Anchored(rows, anchor)
  BY TableHead
<1>4. ASSUME p.count > 0
      PROVE  Sound(rows[p.count]) /\ rows[p.count].hash = p.head
  <2>1. p.count \in 1 .. Len(rows)
    BY <1>2, <1>4
  <2>. QED BY <1>1, <1>2, <2>1 DEF Chain, Linked
<1>5. ASSUME NEW i \in (p.count + 1) .. Len(rows)
      PROVE  /\ Sound(rows[i])
             /\ rows[i].prev = IF i = p.count + 1 THEN p.head ELSE rows[i - 1].hash
  <2>1. i \in 1 .. Len(rows) /\ (i # p.count + 1 => i - 1 \in 1 .. Len(rows))
    BY <1>2
  <2>2. rows[i].prev = Prefix(log, i - 1) /\ Sound(rows[i])
    BY <1>1, <2>1 DEF Chain, Linked
  <2>3. i # p.count + 1 => rows[i - 1].hash = Prefix(log, i - 1)
    BY <2>1 DEF Chain, Linked
  <2>4. i = p.count + 1 => i - 1 = p.count
    BY <1>2
  <2>. QED BY <1>2, <2>2, <2>3, <2>4
<1>. QED BY <1>2, <1>3, <1>4, <1>5 DEF Extends, ValidAfter

LEMMA NewMemory ==
    ASSUME Types, Chain, NEW h \in Handle, NEW whole \in BOOLEAN,
           whole => Says(rows, log)
    PROVE  /\ Proof(h, whole) \in Memory
           /\ Worth(Proof(h, whole), foreign[h], local[h], log, rows)
           /\ Proof(h, whole).version = Version(h)
           /\ Proof(h, whole).whole = whole
<1>1. foreign[h] \in Nat /\ local[h] \in Nat /\ Len(log) \in Nat
      /\ log \in Seq(Body)
  BY DEF Types
<1>2. HeadOf(rows) = log /\ Len(rows) = Len(log) /\ Prefix(log, Len(log)) = log
  BY TableHead, WholePrefix DEF Chain, Types, Prefix
<1>. QED BY <1>1, <1>2 DEF Proof, Memory, Worth, Version

\* What Retained and Proven return holds now.
LEMMA RetainedWorth ==
    ASSUME Types, Chain, Memories, NEW h \in Handle, NEW p \in Retained(h)
    PROVE  p \in Memory /\ Worth(p, foreign[h], local[h], log, rows) /\ p.version = Version(h)
<1>1. known[h] # None
  BY DEF Retained
<1>2. known[h] \in Memory /\ Worth(known[h], foreign[h], local[h], log, rows)
  BY <1>1 DEF Memories, MemoryOf, Types
<1>3. CASE known[h].version = Version(h)
  <2>1. p = known[h]
    BY <1>1, <1>3 DEF Retained
  <2>. QED BY <1>2, <1>3, <2>1
<1>4. CASE known[h].version # Version(h)
  <2>1. p = Proof(h, FALSE)
    BY <1>1, <1>4 DEF Retained
  <2>. QED BY <2>1, NewMemory
<1>. QED BY <1>3, <1>4

LEMMA ProvenWorth ==
    ASSUME Types, Chain, Memories, NEW h \in Handle, NEW force \in BOOLEAN,
           NEW p \in Proven(h, force)
    PROVE  p \in Memory /\ Worth(p, foreign[h], local[h], log, rows) /\ p.version = Version(h)
<1>1. CASE known[h] # None /\ ~force
  BY <1>1, RetainedWorth DEF Proven
<1>2. CASE ~(known[h] # None /\ ~force)
  <2>1. p = Proof(h, TRUE) /\ Full(rows, anchor)
    BY <1>2 DEF Proven
  <2>. QED BY <2>1, FullMeans, NewMemory
<1>. QED BY <1>1, <1>2

LEMMA InitInv == Init => IInv
<1> SUFFICES ASSUME Init PROVE IInv
  OBVIOUS
<1>. USE DEF Init
<1>1. Types
  <2>1. <<>> \in Seq(TableRow) /\ <<>> \in Seq(Body) /\ Len(<<>>) = 0
    OBVIOUS
  <2>2. Nothing \in [rows : Seq(TableRow), anchor : Anchor]
    BY <2>1 DEF Nothing, Anchor
  <2>3. rows \in Seq(TableRow) /\ anchor \in Anchor /\ log \in Seq(Body)
        /\ Len(log) <= MaxRows
    BY <2>1, BoundsAssumption DEF Nothing, Anchor
  <2>4. /\ foreign \in [Handle -> Nat] /\ local \in [Handle -> Nat]
        /\ asked \in [Handle -> 0 .. MaxRows] /\ outside \in 0 .. MaxOutside
    BY BoundsAssumption
  <2>5. view \in [Handle -> [rows : Seq(TableRow), anchor : Anchor]]
    BY <2>2
  <2>. QED BY <2>3, <2>4, <2>5 DEF Types
<1>2. Chain
  BY DEF Chain, Linked, Says, Prefix, Nothing
<1>3. Lock
  BY BoundsAssumption DEF Lock
<1>4. Memories /\ Snapshots
  BY DEF Memories, MemoryOf, Snapshots, SnapshotOf
<1>. QED BY <1>1, <1>2, <1>3, <1>4 DEF IInv
-----------------------------------------------------------------------------
(* What an append and a change in place do to a table.                     *)

LEMMA ChangedRow ==
    ASSUME NEW rs \in Seq(TableRow), NEW i \in DOMAIN rs, NEW b \in Body
    PROVE  /\ Changed(rs, i, b) \in Seq(TableRow)
           /\ Len(Changed(rs, i, b)) = Len(rs)
           /\ \A k \in 1 .. Len(rs) : /\ Changed(rs, i, b)[k].prev = rs[k].prev
                                      /\ Changed(rs, i, b)[k].hash = rs[k].hash
<1>1. rs[i] \in TableRow
  OBVIOUS
<1>2. [rs[i] EXCEPT !.body = b] \in TableRow
  BY <1>1 DEF TableRow
<1>3. Changed(rs, i, b) = [rs EXCEPT ![i] = [rs[i] EXCEPT !.body = b]]
  BY DEF Changed
<1>4. /\ Changed(rs, i, b) \in Seq(TableRow)
      /\ Len(Changed(rs, i, b)) = Len(rs)
  BY <1>2, <1>3
<1>5. ASSUME NEW k \in 1 .. Len(rs)
      PROVE  /\ Changed(rs, i, b)[k].prev = rs[k].prev
             /\ Changed(rs, i, b)[k].hash = rs[k].hash
  <2>1. CASE k = i
    <3>1. Changed(rs, i, b)[k] = [rs[i] EXCEPT !.body = b]
      BY <1>3, <2>1
    <3>. QED BY <1>1, <2>1, <3>1 DEF TableRow
  <2>2. CASE k # i
    BY <1>3, <2>2
  <2>. QED BY <2>1, <2>2
<1>. QED BY <1>4, <1>5

LEMMA ChangedLinks ==
    ASSUME NEW l \in Seq(Body), NEW rs \in Seq(TableRow), Linked(rs, l),
           NEW i \in DOMAIN rs, NEW b \in Body
    PROVE  Linked(Changed(rs, i, b), l)
<1> DEFINE other == Changed(rs, i, b)
<1>1. /\ Len(other) = Len(rs)
      /\ \A k \in 1 .. Len(rs) :
            other[k].prev = rs[k].prev /\ other[k].hash = rs[k].hash
  BY ChangedRow
<1>2. Len(other) <= Len(l)
  BY <1>1 DEF Linked
<1>3. ASSUME NEW k \in 1 .. Len(other)
      PROVE  other[k].prev = Prefix(l, k - 1) /\ other[k].hash = Prefix(l, k)
  BY <1>1, <1>3 DEF Linked
<1> HIDE DEF other
<1>4. Linked(other, l)
  BY <1>2, <1>3 DEF Linked
<1>. QED BY <1>4 DEF other

\* The old rows keep their places when an event is added.
LEMMA LinksStay ==
    ASSUME NEW l \in Seq(Body), NEW b \in Body, NEW rs \in Seq(TableRow),
           Linked(rs, l)
    PROVE  Linked(rs, Append(l, b)) /\ (Says(rs, l) => Says(rs, Append(l, b)))
<1>1. Len(rs) \in Nat /\ Len(l) \in Nat /\ Len(rs) <= Len(l)
      /\ Len(Append(l, b)) = Len(l) + 1
  BY DEF Linked
<1>2. \A n \in 0 .. Len(l) : Prefix(Append(l, b), n) = Prefix(l, n)
  BY PrefixOfLonger DEF Prefix
<1>3. \A i \in 1 .. Len(rs) : Append(l, b)[i] = l[i]
  BY <1>1
<1>4. Linked(rs, Append(l, b))
  BY <1>1, <1>2 DEF Linked
<1>5. Says(rs, l) => Says(rs, Append(l, b))
  BY <1>3 DEF Says
<1>. QED BY <1>4, <1>5

LEMMA AddedLinks ==
    ASSUME NEW l \in Seq(Body), NEW rs \in Seq(TableRow), Linked(rs, l),
           Len(rs) = Len(l), NEW d \in TableRow, d.prev = l,
           d.hash = Append(l, d.body)
    PROVE  /\ Append(rs, d) \in Seq(TableRow) /\ Len(Append(rs, d)) = Len(l) + 1
           /\ Linked(Append(rs, d), Append(l, d.body))
           /\ Says(rs, l) => Says(Append(rs, d), Append(l, d.body))
<1> DEFINE more == Append(l, d.body)
<1>1. /\ Append(rs, d) \in Seq(TableRow) /\ Len(Append(rs, d)) = Len(l) + 1
      /\ Append(rs, d)[Len(l) + 1] = d
      /\ \A i \in 1 .. Len(rs) : Append(rs, d)[i] = rs[i]
  OBVIOUS
<1>2. d.body \in Body
  BY DEF TableRow
<1>3. more \in Seq(Body) /\ Len(more) = Len(l) + 1 /\ more[Len(l) + 1] = d.body
  BY <1>2
<1>4. Prefix(more, Len(l)) = l /\ Prefix(more, Len(l) + 1) = more
  <2>1. SubSeq(more, 1, Len(l)) = SubSeq(l, 1, Len(l))
    BY <1>2, PrefixOfLonger
  <2>2. SubSeq(more, 1, Len(more)) = more
    BY <1>3, WholePrefix
  <2>. QED BY <1>3, <2>1, <2>2, WholePrefix DEF Prefix
<1>5. Linked(rs, more) /\ (Says(rs, l) => Says(rs, more))
  BY <1>2, LinksStay
<1>6. Len(l) \in Nat
  OBVIOUS
<1>7. \A i \in 1 .. Len(l) + 1 : i \in 1 .. Len(rs) \/ i = Len(l) + 1
  BY <1>6
<1>8. ASSUME NEW i \in 1 .. Len(l) + 1
      PROVE  /\ Append(rs, d)[i].prev = Prefix(more, i - 1)
             /\ Append(rs, d)[i].hash = Prefix(more, i)
  <2>1. CASE i \in 1 .. Len(rs)
    BY <1>1, <1>5, <2>1 DEF Linked
  <2>2. CASE i = Len(l) + 1
    <3>1. i - 1 = Len(l)
      BY <1>6, <2>2
    <3>. QED BY <1>1, <1>4, <2>2, <3>1
  <2>. QED BY <1>7, <2>1, <2>2
<1>9. Linked(Append(rs, d), more)
  BY <1>1, <1>3, <1>6, <1>8 DEF Linked
<1>10. ASSUME Says(rs, l), NEW i \in 1 .. Len(l) + 1
       PROVE  Append(rs, d)[i].body = more[i]
  <2>1. CASE i \in 1 .. Len(rs)
    BY <1>1, <1>5, <1>10, <2>1 DEF Says
  <2>2. CASE i = Len(l) + 1
    BY <1>1, <1>3, <2>2
  <2>. QED BY <1>7, <2>1, <2>2
<1>11. Says(rs, l) => Says(Append(rs, d), more)
  BY <1>1, <1>10 DEF Says
<1>. QED BY <1>1, <1>9, <1>11

-----------------------------------------------------------------------------
(* Types.                                                                  *)

LEMMA CommitsType ==
    ASSUME Types, NEW h \in Handle, Commits(h)
    PROVE  foreign' \in [Handle -> Nat] /\ local' \in [Handle -> Nat]
  BY DEF Types, Commits

LEMMA StampedType ==
    ASSUME Types, Lock, NEW h \in Handle, pc[h] = "stamping"
    PROVE  Stamped(h) \in Memory \cup {None}
<1>1. CASE taken[h] = None \/ taken[h].head # draft[h].prev
  BY <1>1 DEF Stamped
<1>2. CASE ~(taken[h] = None \/ taken[h].head # draft[h].prev)
  <2>1. taken[h] \in Memory /\ draft[h] \in TableRow /\ local[h] \in Nat
    BY <1>2 DEF Types, Lock
  <2>2. Stamped(h) = [version |-> [foreign |-> taken[h].version.foreign,
                                   local |-> local[h]],
                      count |-> taken[h].count + 1, head |-> draft[h].hash,
                      whole |-> taken[h].whole]
    BY <1>2 DEF Stamped
  <2>3. /\ taken[h].version.foreign \in Nat /\ taken[h].count + 1 \in Nat
        /\ taken[h].whole \in BOOLEAN
    BY <2>1 DEF Memory
  <2>4. draft[h].hash \in Seq(Body)
    BY <2>1 DEF TableRow
  <2>. QED BY <2>1, <2>2, <2>3, <2>4 DEF Memory
<1>. QED BY <1>1, <1>2

LEMMA ReadTypes ==
    ASSUME Types, Chain, Memories, NEW h \in Handle,
           (\E force \in BOOLEAN : ReadBegin(h, force)) \/ ReadEnd(h)
    PROVE  Types'
<1>1. ASSUME NEW force \in BOOLEAN, ReadBegin(h, force) PROVE Types'
  <2>1. Len(log) \in 0 .. MaxRows
    BY BoundsAssumption DEF Types
  <2>2. /\ known' \in [Handle -> Memory \cup {None}]
        /\ asked' \in [Handle -> 0 .. MaxRows]
        /\ answer' = [x \in Handle |-> answer'[x]]
    BY <1>1, <2>1 DEF ReadBegin, Types
  <2>3. /\ taken' \in [Handle -> Memory \cup {None}]
        /\ view' \in [Handle -> [rows : Seq(TableRow), anchor : Anchor]]
        /\ pc' \in [Handle -> {"idle", "reading", "writing", "stamping"}]
    <3>1. CASE Proven(h, force) = {}
      BY <1>1, <3>1 DEF ReadBegin, Types
    <3>2. ASSUME NEW p \in Proven(h, force), taken' = [taken EXCEPT ![h] = p],
                 view' = [view EXCEPT ![h] = [rows |-> rows, anchor |-> anchor]],
                 pc' = [pc EXCEPT ![h] = "reading"]
          PROVE  /\ taken' \in [Handle -> Memory \cup {None}]
                 /\ view' \in [Handle -> [rows : Seq(TableRow), anchor : Anchor]]
                 /\ pc' \in [Handle -> {"idle", "reading", "writing", "stamping"}]
      BY <3>2, ProvenWorth DEF Types
    <3>. QED BY <1>1, <3>1, <3>2 DEF ReadBegin
  <2>. QED BY <1>1, <2>2, <2>3 DEF ReadBegin, Types, database
<1>2. CASE ReadEnd(h)
  <2>1. Nothing \in [rows : Seq(TableRow), anchor : Anchor]
    BY DEF Nothing, Anchor
  <2>2. /\ taken' \in [Handle -> Memory \cup {None}]
        /\ pc' \in [Handle -> {"idle", "reading", "writing", "stamping"}]
        /\ known' \in [Handle -> Memory \cup {None}]
        /\ answer' = [x \in Handle |-> answer'[x]]
    BY <1>2 DEF ReadEnd, Types
  <2>3. view' \in [Handle -> [rows : Seq(TableRow), anchor : Anchor]]
    BY <1>2, <2>1 DEF ReadEnd, Types
  <2>. QED BY <1>2, <2>2, <2>3 DEF ReadEnd, Types, database
<1>. QED BY <1>1, <1>2
LEMMA DraftType ==
    ASSUME Types, Chain, NEW b \in Body
    PROVE  /\ Draft(b) \in TableRow /\ Draft(b).body = b
           /\ Draft(b).prev = log /\ Draft(b).hash = Append(log, b)
<1>1. HeadOf(rows) = log /\ log \in Seq(Body)
  BY TableHead DEF Types
<1>2. Append(log, b) \in Seq(Body)
  BY <1>1
<1>. QED BY <1>1, <1>2 DEF Draft, HashOf, TableRow

LEMMA CommittedRows ==
    ASSUME Types, Chain, Lock, NEW h \in Handle, AppendCommit(h)
    PROVE  /\ draft[h] \in TableRow /\ draft[h].body \in Body
           /\ log' = Append(log, draft[h].body)
           /\ rows' \in Seq(TableRow) /\ Len(rows') = Len(log) + 1
           /\ Linked(rows', log')
           /\ triggers \/ rows' = Append(rows, draft[h])
           /\ rows' = Append(rows, draft[h]) /\ Says(rows, log) => Says(rows', log')
           /\ ~damaged' => ~damaged /\ rows' = Append(rows, draft[h])
<1>1. /\ draft[h] \in TableRow /\ draft[h].prev = log
      /\ draft[h].hash = Append(log, draft[h].body)
  BY DEF Lock, AppendCommit
<1>2. /\ log \in Seq(Body) /\ rows \in Seq(TableRow) /\ Linked(rows, log)
      /\ Len(rows) = Len(log)
  BY DEF Types, Chain
<1>3. log' = Append(log, draft[h].body) /\ draft[h].body \in Body
  BY <1>1 DEF AppendCommit, TableRow
<1>4. /\ Append(rows, draft[h]) \in Seq(TableRow)
      /\ Len(Append(rows, draft[h])) = Len(log) + 1
      /\ Linked(Append(rows, draft[h]), log')
      /\ Says(rows, log) => Says(Append(rows, draft[h]), log')
  BY <1>1, <1>2, <1>3, AddedLinks
<1>5. CASE rows' = Append(rows, draft[h]) /\ UNCHANGED damaged
  BY <1>1, <1>3, <1>4, <1>5
<1>6. ASSUME triggers, damaged' = TRUE, NEW i \in DOMAIN Append(rows, draft[h]),
             NEW b \in Body, b # Append(rows, draft[h])[i].body,
             rows' = Changed(Append(rows, draft[h]), i, b)
      PROVE  /\ rows' \in Seq(TableRow) /\ Len(rows') = Len(log) + 1
             /\ Linked(rows', log') /\ rows' # Append(rows, draft[h])
  <2>1. log' \in Seq(Body)
    BY <1>2, <1>3
  <2>2. Append(rows, draft[h])[i] \in TableRow
    BY <1>4
  <2>3. Changed(Append(rows, draft[h]), i, b)[i].body = b
    BY <1>4, <2>2 DEF Changed, TableRow
  <2>. QED BY <1>4, <1>6, <2>1, <2>3, ChangedRow, ChangedLinks
<1>7. \/ /\ triggers /\ damaged' = TRUE
         /\ \E i \in DOMAIN Append(rows, draft[h]), b \in Body :
               /\ b # Append(rows, draft[h])[i].body
               /\ rows' = Changed(Append(rows, draft[h]), i, b)
      \/ rows' = Append(rows, draft[h]) /\ UNCHANGED damaged
  BY DEF AppendCommit
<1>. QED BY <1>1, <1>3, <1>5, <1>6, <1>7

LEMMA AppendTypes ==
    ASSUME Types, Chain, Lock, Memories, NEW h \in Handle,
           \/ \E b \in Body : AppendBegin(h, b)
           \/ AppendCommit(h) \/ AppendRollback(h) \/ AppendStamp(h)
    PROVE  Types'
<1>1. ASSUME NEW b \in Body, AppendBegin(h, b) PROVE Types'
  <2>1. known' \in [Handle -> Memory \cup {None}]
    BY <1>1 DEF AppendBegin, Types
  <2>2. /\ taken' \in [Handle -> Memory \cup {None}]
        /\ draft' \in [Handle -> TableRow \cup {None}]
        /\ pc' \in [Handle -> {"idle", "reading", "writing", "stamping"}]
        /\ lock' \in Handle \cup {None}
    <3>1. CASE UNCHANGED <<lock, pc, taken, draft>>
      BY <3>1 DEF Types
    <3>2. ASSUME lock' = h, pc' = [pc EXCEPT ![h] = "writing"],
                 draft' = [draft EXCEPT ![h] = Draft(b)]
          PROVE  /\ draft' \in [Handle -> TableRow \cup {None}]
                 /\ pc' \in [Handle -> {"idle", "reading", "writing", "stamping"}]
                 /\ lock' \in Handle \cup {None}
      BY <3>2, DraftType DEF Types
    <3>3. ASSUME \/ \E p \in Retained(h) : taken' = [taken EXCEPT ![h] = p]
                 \/ UNCHANGED taken
          PROVE  taken' \in [Handle -> Memory \cup {None}]
      BY <3>3, RetainedWorth DEF Types
    <3>. QED BY <1>1, <3>1, <3>2, <3>3 DEF AppendBegin
  <2>. QED BY <1>1, <2>1, <2>2 DEF AppendBegin, Types, database, reads
<1>2. CASE AppendCommit(h)
  <2>1. foreign' \in [Handle -> Nat] /\ local' \in [Handle -> Nat]
    BY <1>2, CommitsType DEF AppendCommit
  <2>2. /\ rows' \in Seq(TableRow) /\ log' = Append(log, draft[h].body)
        /\ draft[h] \in TableRow /\ draft[h].body \in Body
    BY <1>2, CommittedRows
  <2>3. Len(log) \in Nat /\ Len(log) < MaxRows /\ log \in Seq(Body)
    BY <1>2 DEF Lock, Types, AppendCommit
  <2>4. log' \in Seq(Body) /\ Len(log') <= MaxRows
    BY <2>2, <2>3, BoundsAssumption
  <2>5. anchor' \in Anchor
    <3>1. anchor' = [count |-> Len(Append(rows, draft[h])), head |-> draft[h].hash]
      BY <1>2 DEF AppendCommit
    <3>2. Len(Append(rows, draft[h])) \in Nat
      BY <2>2 DEF Types
    <3>3. draft[h].hash \in Seq(Body)
      BY <2>2 DEF TableRow
    <3>. QED BY <3>1, <3>2, <3>3 DEF Anchor
  <2>6. damaged' \in BOOLEAN
    BY <1>2 DEF AppendCommit, Types
  <2>7. lock' \in Handle \cup {None}
        /\ pc' \in [Handle -> {"idle", "reading", "writing", "stamping"}]
    BY <1>2 DEF AppendCommit, Types
  <2>. QED BY <1>2, <2>1, <2>2, <2>4, <2>5, <2>6, <2>7
           DEF AppendCommit, Types, reads
<1>3. CASE AppendRollback(h)
  <2>1. outside' \in 0 .. MaxOutside
    BY <1>3, BoundsAssumption DEF AppendRollback, Types
  <2>2. /\ local' \in [Handle -> Nat] /\ lock' \in Handle \cup {None}
        /\ pc' \in [Handle -> {"idle", "reading", "writing", "stamping"}]
        /\ taken' \in [Handle -> Memory \cup {None}]
        /\ draft' \in [Handle -> TableRow \cup {None}]
    BY <1>3 DEF AppendRollback, Types
  <2>. QED BY <1>3, <2>1, <2>2 DEF AppendRollback, Types, database, reads
<1>4. CASE AppendStamp(h)
  <2>1. /\ known' \in [Handle -> Memory \cup {None}]
        /\ pc' \in [Handle -> {"idle", "reading", "writing", "stamping"}]
        /\ taken' \in [Handle -> Memory \cup {None}]
        /\ draft' \in [Handle -> TableRow \cup {None}]
    BY <1>4, StampedType DEF AppendStamp, Types
  <2>. QED BY <1>4, <2>1 DEF AppendStamp, Types, database, reads
<1>. QED BY <1>1, <1>2, <1>3, <1>4

LEMMA OtherTypes ==
    ASSUME Types, Chain, Lock, Memories,
           Outside \/ \E h \in Handle : OtherWrite(h) \/ Crash(h)
    PROVE  Types'
<1>1. CASE Outside
  <2>1. rows' \in Seq(TableRow) /\ damaged' \in BOOLEAN /\ triggers' \in BOOLEAN
    <3>1. ASSUME NEW i \in DOMAIN rows, NEW b \in Body, rows' = Changed(rows, i, b)
          PROVE  rows' \in Seq(TableRow)
      BY <3>1, ChangedRow DEF Types
    <3>2. \/ /\ \E i \in DOMAIN rows, b \in Body : rows' = Changed(rows, i, b)
             /\ damaged' = TRUE /\ UNCHANGED triggers
          \/ triggers' = TRUE /\ UNCHANGED <<rows, damaged>>
      BY <1>1 DEF Outside
    <3>. QED BY <3>1, <3>2 DEF Types
  <2>2. foreign' \in [Handle -> Nat] /\ outside' \in 0 .. MaxOutside
    BY <1>1, BoundsAssumption DEF Outside, Types
  <2>. QED BY <1>1, <2>1, <2>2 DEF Outside, Types, calls, reads
<1>2. ASSUME NEW h \in Handle, OtherWrite(h) PROVE Types'
  <2>1. foreign' \in [Handle -> Nat] /\ local' \in [Handle -> Nat]
    BY <1>2, CommitsType DEF OtherWrite
  <2>2. outside' \in 0 .. MaxOutside
    BY <1>2, BoundsAssumption DEF OtherWrite, Types
  <2>. QED BY <1>2, <2>1, <2>2 DEF OtherWrite, Types, calls, reads, database
<1>3. ASSUME NEW h \in Handle, Crash(h) PROVE Types'
  <2>1. outside' \in 0 .. MaxOutside /\ lock' \in Handle \cup {None}
    BY <1>3, BoundsAssumption DEF Crash, Types
  <2>2. Nothing \in [rows : Seq(TableRow), anchor : Anchor]
    BY DEF Nothing, Anchor
  <2>3. /\ pc' \in [Handle -> {"idle", "reading", "writing", "stamping"}]
        /\ known' \in [Handle -> Memory \cup {None}]
        /\ taken' \in [Handle -> Memory \cup {None}]
        /\ draft' \in [Handle -> TableRow \cup {None}]
        /\ answer' = [x \in Handle |-> answer'[x]]
    BY <1>3 DEF Crash, Types
  <2>4. view' \in [Handle -> [rows : Seq(TableRow), anchor : Anchor]]
    BY <1>3, <2>2 DEF Crash, Types
  <2>. QED BY <1>3, <2>1, <2>3, <2>4 DEF Crash, Types, database
<1>. QED BY <1>1, <1>2, <1>3
-----------------------------------------------------------------------------
(* The chain and the write lock.                                           *)

\* Only a commit and somebody outside write to the table.
LEMMA TableStays ==
    ASSUME Next, ~Outside, \A h \in Handle : ~AppendCommit(h)
    PROVE  UNCHANGED <<database, log, damaged>>
<1>. USE DEF database
<1>1. ASSUME NEW h \in Handle, NEW force \in BOOLEAN, ReadBegin(h, force)
      PROVE  UNCHANGED <<database, log, damaged>>
  BY <1>1 DEF ReadBegin
<1>2. ASSUME NEW h \in Handle, NEW b \in Body, AppendBegin(h, b)
      PROVE  UNCHANGED <<database, log, damaged>>
  BY <1>2 DEF AppendBegin
<1>3. ASSUME NEW h \in Handle, ReadEnd(h) \/ AppendRollback(h) \/ AppendStamp(h)
      PROVE  UNCHANGED <<database, log, damaged>>
  BY <1>3 DEF ReadEnd, AppendRollback, AppendStamp
<1>4. ASSUME NEW h \in Handle, OtherWrite(h) \/ Crash(h)
      PROVE  UNCHANGED <<database, log, damaged>>
  BY <1>4 DEF OtherWrite, Crash
<1>. QED BY <1>1, <1>2, <1>3, <1>4 DEF Next

LEMMA ChainNext ==
    ASSUME Types, Chain, Lock, Next
    PROVE  Chain'
<1>1. ASSUME NEW h \in Handle, AppendCommit(h) PROVE Chain'
  <2>1. /\ log' = Append(log, draft[h].body) /\ draft[h].body \in Body
        /\ Len(rows') = Len(log) + 1 /\ Linked(rows', log')
        /\ ~damaged' => ~damaged /\ rows' = Append(rows, draft[h])
        /\ rows' = Append(rows, draft[h]) /\ Says(rows, log) => Says(rows', log')
    BY <1>1, CommittedRows
  <2>2. Len(log') = Len(log) + 1
    BY <2>1 DEF Types
  <2>3. anchor' = [count |-> Len(log'), head |-> log']
    <3>1. anchor' = [count |-> Len(Append(rows, draft[h])), head |-> draft[h].hash]
      BY <1>1 DEF AppendCommit
    <3>2. Len(Append(rows, draft[h])) = Len(log) + 1
      BY DEF Types, Chain
    <3>3. draft[h].hash = log'
      BY <1>1, <2>1 DEF Lock, AppendCommit
    <3>. QED BY <2>2, <3>1, <3>2, <3>3
  <2>4. ~damaged' => Says(rows', log')
    BY <2>1 DEF Chain
  <2>. QED BY <2>1, <2>2, <2>3, <2>4 DEF Chain
<1>2. CASE Outside
  <2>1. UNCHANGED <<anchor, log>>
    BY <1>2 DEF Outside
  <2>2. ASSUME damaged' = TRUE, NEW i \in DOMAIN rows, NEW b \in Body,
               rows' = Changed(rows, i, b)
        PROVE  Chain'
    <3>1. Len(rows') = Len(rows) /\ Linked(rows', log)
      BY <2>2, ChangedRow, ChangedLinks DEF Types, Chain
    <3>. QED BY <2>1, <2>2, <3>1 DEF Chain
  <2>3. CASE UNCHANGED <<rows, damaged>>
    BY <2>1, <2>3 DEF Chain
  <2>. QED BY <1>2, <2>2, <2>3 DEF Outside
<1>3. CASE UNCHANGED <<database, log, damaged>>
  BY <1>3 DEF Chain, database
<1>. QED BY <1>1, <1>2, <1>3, TableStays

\* A step of a connection that neither held nor takes the lock.
LEMMA LockStays ==
    ASSUME Types, Lock, NEW h \in Handle, pc[h] \in {"idle", "reading", "stamping"},
           pc'[h] \in {"idle", "reading"}, UNCHANGED <<lock, log>>,
           \A g \in Handle \ {h} : pc'[g] = pc[g] /\ draft'[g] = draft[g]
    PROVE  Lock'
<1>1. lock # h
  BY DEF Lock
<1>2. pc'[h] \notin {"writing", "stamping"}
  OBVIOUS
<1>. QED BY <1>1, <1>2 DEF Lock

\* A step that ends what held the lock, if it did.
LEMMA LockReleased ==
    ASSUME Types, Lock, NEW h \in Handle, pc'[h] = "idle", UNCHANGED log,
           lock' = IF lock = h THEN None ELSE lock,
           \A g \in Handle \ {h} : pc'[g] = pc[g] /\ draft'[g] = draft[g]
    PROVE  Lock'
<1>1. lock' # h
  BY BoundsAssumption
<1>2. \A g \in Handle \ {h} : lock' = g <=> lock = g
  BY BoundsAssumption
<1>. QED BY <1>1, <1>2 DEF Lock

LEMMA LockNext ==
    ASSUME Types, Chain, Lock, Next
    PROVE  Lock'
<1>1. ASSUME NEW h \in Handle, NEW force \in BOOLEAN, ReadBegin(h, force)
      PROVE  Lock'
  <2>1. /\ pc[h] = "idle" /\ pc'[h] \in {"idle", "reading"} /\ UNCHANGED <<lock, log>>
        /\ \A g \in Handle \ {h} : pc'[g] = pc[g] /\ draft'[g] = draft[g]
    BY <1>1 DEF ReadBegin, Types
  <2>. QED BY <2>1, LockStays
<1>2. ASSUME NEW h \in Handle, ReadEnd(h) \/ AppendStamp(h) PROVE Lock'
  <2>1. /\ pc[h] \in {"reading", "stamping"} /\ pc'[h] = "idle"
        /\ UNCHANGED <<lock, log>>
        /\ \A g \in Handle \ {h} : pc'[g] = pc[g] /\ draft'[g] = draft[g]
    BY <1>2 DEF ReadEnd, AppendStamp, Types
  <2>. QED BY <2>1, LockStays
<1>3. ASSUME NEW h \in Handle, NEW b \in Body, AppendBegin(h, b) PROVE Lock'
  <2>1. CASE UNCHANGED <<lock, pc, draft>>
    BY <1>3, <2>1 DEF AppendBegin, Lock
  <2>2. CASE lock' = h /\ pc' = [pc EXCEPT ![h] = "writing"]
             /\ draft' = [draft EXCEPT ![h] = Draft(b)]
    <3>1. pc[h] = "idle" /\ lock = None /\ Len(log) < MaxRows /\ UNCHANGED log
      BY <1>3 DEF AppendBegin
    <3>2. /\ pc'[h] = "writing" /\ draft'[h] = Draft(b)
          /\ \A g \in Handle \ {h} : pc'[g] = pc[g] /\ draft'[g] = draft[g]
      BY <2>2 DEF Types
    <3>3. \A g \in Handle : pc[g] # "writing"
      BY <3>1, BoundsAssumption DEF Lock
    <3>. QED BY <2>2, <3>1, <3>2, <3>3, DraftType DEF Lock
  <2>. QED BY <1>3, <2>1, <2>2 DEF AppendBegin
<1>4. ASSUME NEW h \in Handle, AppendCommit(h) PROVE Lock'
  <2>1. pc[h] = "writing" /\ lock = h /\ draft[h] \in TableRow
    BY <1>4 DEF AppendCommit, Lock
  <2>2. /\ lock' = None /\ UNCHANGED draft /\ pc'[h] = "stamping"
        /\ \A g \in Handle \ {h} : pc'[g] = pc[g]
    BY <1>4 DEF AppendCommit, Types
  <2>3. \A g \in Handle : lock' # g
    BY <2>2, BoundsAssumption
  <2>4. \A g \in Handle : pc'[g] # "writing"
    BY <2>1, <2>2 DEF Lock
  <2>. QED BY <2>1, <2>2, <2>3, <2>4 DEF Lock
<1>5. ASSUME NEW h \in Handle, AppendRollback(h) \/ Crash(h) PROVE Lock'
  <2>1. lock' = IF lock = h THEN None ELSE lock
    BY <1>5 DEF AppendRollback, Crash, Lock
  <2>2. /\ pc'[h] = "idle" /\ UNCHANGED log
        /\ \A g \in Handle \ {h} : pc'[g] = pc[g] /\ draft'[g] = draft[g]
    BY <1>5 DEF AppendRollback, Crash, Types
  <2>. QED BY <2>1, <2>2, LockReleased
<1>6. ASSUME UNCHANGED <<pc, lock, draft, log>> PROVE Lock'
  BY <1>6 DEF Lock
<1>7. ASSUME Outside \/ \E h \in Handle : OtherWrite(h)
      PROVE  UNCHANGED <<pc, lock, draft, log>>
  BY <1>7 DEF Outside, OtherWrite, calls
<1>. QED BY <1>1, <1>2, <1>3, <1>4, <1>5, <1>6, <1>7 DEF Next
-----------------------------------------------------------------------------
(* Memories.                                                               *)

\* A log that has only grown.
Grown(l2, l) ==
    Len(l) <= Len(l2) /\ \A n \in 0 .. Len(l) : Prefix(l2, n) = Prefix(l, n)

LEMMA LogGrows ==
    ASSUME NEW l \in Seq(Body), NEW b \in Body, NEW l2, l2 = l \/ l2 = Append(l, b)
    PROVE  Grown(l2, l)
<1>1. CASE l2 = l
  BY <1>1 DEF Grown
<1>2. CASE l2 = Append(l, b)
  <2>1. Len(l) <= Len(l2)
    BY <1>2
  <2>2. \A n \in 0 .. Len(l) : Prefix(l2, n) = Prefix(l, n)
    BY <1>2, PrefixOfLonger DEF Prefix
  <2>. QED BY <2>1, <2>2 DEF Grown
<1>. QED BY <1>1, <1>2

\* A memory is of an earlier version once anything was counted after it.
LEMMA WorthLater ==
    ASSUME NEW l \in Seq(Body), NEW l2 \in Seq(Body), Grown(l2, l),
           NEW p \in Memory, NEW f \in Nat, NEW n \in Nat, NEW rs,
           Worth(p, f, n, l, rs), NEW f2 \in Nat, NEW n2 \in Nat,
           f <= f2, n <= n2, <<f, n>> # <<f2, n2>>, NEW rs2
    PROVE  Worth(p, f2, n2, l2, rs2)
<1>1. /\ p.version.foreign \in Nat /\ p.version.local \in Nat /\ p.count \in Nat
      /\ p.version.foreign <= f /\ p.version.local <= n
      /\ p.count <= Len(l) /\ p.head = Prefix(l, p.count)
  BY DEF Worth, Memory
<1>2. p.version # [foreign |-> f2, local |-> n2]
  BY <1>1
<1>3. Len(l) \in Nat /\ Len(l2) \in Nat /\ Len(l) <= Len(l2)
      /\ Prefix(l2, p.count) = Prefix(l, p.count)
  BY <1>1 DEF Grown
<1>4. p.version.foreign <= f2 /\ p.version.local <= n2 /\ p.count <= Len(l2)
  BY <1>1, <1>3
<1>. QED BY <1>1, <1>2, <1>3, <1>4 DEF Worth

LEMMA WorthMoreLater ==
    ASSUME NEW l \in Seq(Body), NEW l2 \in Seq(Body), Grown(l2, l),
           NEW p \in Memory, NEW d, NEW f \in Nat, NEW rs,
           WorthMore(p, d, f, l, rs), NEW rs2
    PROVE  WorthMore(p, d, f + 1, l2, rs2)
<1>1. /\ p.version.foreign \in Nat /\ p.count \in Nat /\ p.version.foreign <= f
      /\ p.count < Len(l) /\ p.head = Prefix(l, p.count)
      /\ d.hash = Prefix(l, p.count + 1)
  BY DEF WorthMore, Memory
<1>2. Len(l) \in Nat /\ Len(l2) \in Nat /\ Len(l) <= Len(l2)
  BY DEF Grown
<1>3. p.count \in 0 .. Len(l) /\ p.count + 1 \in 0 .. Len(l)
  BY <1>1, <1>2
<1>4. /\ Prefix(l2, p.count) = Prefix(l, p.count)
      /\ Prefix(l2, p.count + 1) = Prefix(l, p.count + 1)
  BY <1>3 DEF Grown
<1>5. p.version.foreign <= f + 1 /\ p.version.foreign # f + 1
      /\ p.count < Len(l2)
  BY <1>1, <1>2
<1>. QED BY <1>1, <1>4, <1>5 DEF WorthMore

\* What a connection knows stays true while it and the table do not change.
LEMMA MemoryStays ==
    ASSUME NEW h \in Handle, MemoryOf(h), UNCHANGED <<rows, log, triggers>>,
           foreign'[h] = foreign[h], local'[h] = local[h], pc'[h] = pc[h],
           known'[h] = known[h], taken'[h] = taken[h], draft'[h] = draft[h]
    PROVE  MemoryOf(h)'
  BY DEF MemoryOf, Version

\* And while others commit, of which it takes note, unless it holds the lock.
LEMMA MemoryOfBystander ==
    ASSUME Types, NEW h \in Handle, MemoryOf(h), pc[h] # "writing",
           log' \in Seq(Body), Grown(log', log),
           foreign'[h] = foreign[h] + 1, local'[h] = local[h], pc'[h] = pc[h],
           known'[h] = known[h], taken'[h] = taken[h], draft'[h] = draft[h]
    PROVE  MemoryOf(h)'
<1>1. /\ log \in Seq(Body) /\ foreign[h] \in Nat /\ local[h] \in Nat
      /\ foreign'[h] \in Nat /\ local'[h] \in Nat
      /\ foreign[h] <= foreign'[h] /\ local[h] <= local'[h]
      /\ foreign[h] # foreign'[h]
  BY DEF Types
<1>2. ASSUME NEW p \in Memory, Worth(p, foreign[h], local[h], log, rows)
      PROVE  Worth(p, foreign'[h], local'[h], log', rows')
  <2>1. <<foreign[h], local[h]>> # <<foreign'[h], local'[h]>>
    BY <1>1
  <2>. QED BY <1>1, <1>2, <2>1, WorthLater
<1>3. ASSUME NEW p \in Memory, NEW d, WorthMore(p, d, foreign[h], log, rows)
      PROVE  WorthMore(p, d, foreign'[h], log', rows')
  BY <1>1, <1>3, WorthMoreLater
<1>4. /\ known[h] # None => known[h] \in Memory
      /\ taken[h] # None => taken[h] \in Memory
  BY DEF Types
<1>5. known'[h] # None => Worth(known'[h], foreign'[h], local'[h], log', rows')
  BY <1>2, <1>4 DEF MemoryOf
<1>7. pc'[h] = "reading" =>
          /\ taken'[h] \in Memory
          /\ Worth(taken'[h], foreign'[h], local'[h], log', rows')
  BY <1>2 DEF MemoryOf
<1>8. pc'[h] = "stamping" /\ taken'[h] # None =>
          WorthMore(taken'[h], draft'[h], foreign'[h], log', rows')
  BY <1>3, <1>4 DEF MemoryOf
<1>9. pc'[h] # "writing" /\ (pc'[h] = "idle" => taken'[h] = None)
  BY DEF MemoryOf
<1>. QED BY <1>5, <1>7, <1>8, <1>9 DEF MemoryOf
\* Nothing but its memory is left to an idle connection.
LEMMA MemoryOfIdle ==
    ASSUME NEW h \in Handle, pc'[h] = "idle", taken'[h] = None,
           known'[h] # None => Worth(known'[h], foreign'[h], local'[h], log', rows')
    PROVE  MemoryOf(h)'
  BY DEF MemoryOf

\* A change of its own makes the memory one of an earlier version.
LEMMA KnownLater ==
    ASSUME Types, NEW h \in Handle, MemoryOf(h), log' \in Seq(Body), Grown(log', log),
           foreign'[h] = foreign[h], local'[h] = local[h] + 1, known'[h] = known[h]
    PROVE  known'[h] # None => Worth(known'[h], foreign'[h], local'[h], log', rows')
<1>1. /\ log \in Seq(Body) /\ foreign[h] \in Nat /\ local[h] \in Nat
      /\ foreign'[h] \in Nat /\ local'[h] \in Nat
      /\ foreign[h] <= foreign'[h] /\ local[h] <= local'[h]
      /\ local[h] # local'[h]
  BY DEF Types
<1>2. ASSUME NEW p \in Memory, Worth(p, foreign[h], local[h], log, rows)
      PROVE  Worth(p, foreign'[h], local'[h], log', rows')
  <2>1. <<foreign[h], local[h]>> # <<foreign'[h], local'[h]>>
    BY <1>1
  <2>. QED BY <1>1, <1>2, <2>1, WorthLater
<1>3. known[h] # None => known[h] \in Memory
  BY DEF Types
<1>. QED BY <1>2, <1>3 DEF MemoryOf

\* The connections that a step of one of them leaves alone.
Aside(h) == \A g \in Handle \ {h} :
    /\ pc'[g] = pc[g] /\ known'[g] = known[g] /\ taken'[g] = taken[g]
    /\ draft'[g] = draft[g] /\ local'[g] = local[g]
    /\ view'[g] = view[g] /\ asked'[g] = asked[g] /\ answer'[g] = answer[g]

LEMMA MemoriesAside ==
    ASSUME NEW h \in Handle, Memories, Aside(h),
           UNCHANGED <<rows, log, triggers, foreign>>, MemoryOf(h)'
    PROVE  Memories'
<1>1. ASSUME NEW g \in Handle \ {h} PROVE MemoryOf(g)'
  <2>1. /\ foreign'[g] = foreign[g] /\ local'[g] = local[g] /\ pc'[g] = pc[g]
        /\ known'[g] = known[g] /\ taken'[g] = taken[g] /\ draft'[g] = draft[g]
    BY DEF Aside
  <2>2. MemoryOf(g)
    BY DEF Memories
  <2>. QED BY <2>1, <2>2, MemoryStays
<1>. QED BY <1>1 DEF Memories

LEMMA MemoriesBeside ==
    ASSUME Types, NEW h \in Handle, Memories, Aside(h), Commits(h),
           log' \in Seq(Body), Grown(log', log), MemoryOf(h)',
           \A g \in Handle \ {h} : pc[g] # "writing"
    PROVE  Memories'
<1>1. ASSUME NEW g \in Handle \ {h} PROVE MemoryOf(g)'
  <2>1. /\ foreign'[g] = foreign[g] + 1 /\ local'[g] = local[g] /\ pc'[g] = pc[g]
        /\ known'[g] = known[g] /\ taken'[g] = taken[g] /\ draft'[g] = draft[g]
    BY DEF Aside, Commits
  <2>2. MemoryOf(g) /\ pc[g] # "writing"
    BY DEF Memories
  <2>. QED BY <2>1, <2>2, MemoryOfBystander
<1>. QED BY <1>1 DEF Memories

LEMMA ReadBeginMemory ==
    ASSUME Types, Chain, Memories, NEW h \in Handle, NEW force \in BOOLEAN,
           ReadBegin(h, force)
    PROVE  Memories'
<1>1. Aside(h) /\ UNCHANGED <<rows, log, triggers, foreign, local>>
  BY DEF ReadBegin, Aside, Types, database
<1>2. known'[h] = None /\ pc[h] = "idle" /\ taken[h] = None
  BY DEF ReadBegin, Types, Memories, MemoryOf
<1>3. CASE UNCHANGED <<pc, taken>>
  <2>1. MemoryOf(h)'
    BY <1>2, <1>3, MemoryOfIdle
  <2>. QED BY <1>1, <2>1, MemoriesAside
<1>4. ASSUME NEW p \in Proven(h, force), taken' = [taken EXCEPT ![h] = p],
             pc' = [pc EXCEPT ![h] = "reading"]
      PROVE  Memories'
  <2>1. p \in Memory /\ Worth(p, foreign[h], local[h], log, rows)
    BY ProvenWorth
  <2>2. taken'[h] = p /\ pc'[h] = "reading"
    BY <1>4 DEF Types
  <2>3. MemoryOf(h)'
    BY <1>1, <1>2, <2>1, <2>2 DEF MemoryOf
  <2>. QED BY <1>1, <2>3, MemoriesAside
<1>. QED BY <1>3, <1>4 DEF ReadBegin
LEMMA ReadEndMemory ==
    ASSUME Types, Memories, NEW h \in Handle, ReadEnd(h)
    PROVE  Memories'
<1>1. Aside(h) /\ UNCHANGED <<rows, log, triggers, foreign, local>>
  BY DEF ReadEnd, Aside, Types, database
<1>2. pc'[h] = "idle" /\ taken'[h] = None /\ known'[h] \in {taken[h], known[h]}
  BY DEF ReadEnd, Types
<1>3. /\ Worth(taken[h], foreign[h], local[h], log, rows)
      /\ known[h] # None => Worth(known[h], foreign[h], local[h], log, rows)
  BY DEF ReadEnd, Memories, MemoryOf
<1>4. MemoryOf(h)'
  BY <1>1, <1>2, <1>3, MemoryOfIdle
<1>. QED BY <1>1, <1>4, MemoriesAside

LEMMA AppendBeginMemory ==
    ASSUME Types, Chain, Memories, NEW h \in Handle, NEW b \in Body,
           AppendBegin(h, b)
    PROVE  Memories'
<1>1. Aside(h) /\ UNCHANGED <<rows, log, triggers, foreign, local>>
  BY DEF AppendBegin, Aside, Types, database, reads
<1>2. known'[h] = None /\ taken[h] = None
  BY DEF AppendBegin, Types, Memories, MemoryOf
<1>3. pc' = [pc EXCEPT ![h] = "writing"]
  BY TableHead DEF AppendBegin
<1>4. pc'[h] = "writing"
  BY <1>3 DEF Types
<1>5. ASSUME ~triggers, NEW p \in Retained(h), taken' = [taken EXCEPT ![h] = p]
      PROVE  MemoryOf(h)'
  <2>1. /\ p \in Memory /\ Worth(p, foreign[h], local[h], log, rows)
        /\ p.version = Version(h)
    BY RetainedWorth
  <2>2. taken'[h] = p
    BY <1>5 DEF Types
  <2>3. Version(h)' = Version(h)
    BY <1>1 DEF Version
  <2>. QED BY <1>1, <1>2, <1>4, <1>5, <2>1, <2>2, <2>3 DEF MemoryOf
<1>6. ASSUME UNCHANGED taken PROVE MemoryOf(h)'
  BY <1>2, <1>4, <1>6 DEF MemoryOf
<1>7. MemoryOf(h)'
  BY <1>5, <1>6, TableHead DEF AppendBegin
<1>. QED BY <1>1, <1>7, MemoriesAside

LEMMA CommitMemory ==
    ASSUME Types, Chain, Lock, Memories, NEW h \in Handle, AppendCommit(h)
    PROVE  Memories'
<1>1. Aside(h) /\ Commits(h) /\ UNCHANGED <<known, taken, draft>>
  BY DEF AppendCommit, Aside, Commits, Types, reads
<1>2. /\ log' = Append(log, draft[h].body) /\ draft[h].body \in Body
      /\ triggers \/ rows' = Append(rows, draft[h])
      /\ rows' = Append(rows, draft[h]) /\ Says(rows, log) => Says(rows', log')
  BY CommittedRows
<1>3. /\ log' \in Seq(Body) /\ log \in Seq(Body) /\ Len(log) \in Nat
      /\ Len(log') = Len(log) + 1
  BY <1>2 DEF Types
<1>4. Grown(log', log)
  BY <1>2, <1>3, LogGrows
<1>5. \A g \in Handle \ {h} : pc[g] # "writing"
  BY DEF Lock, AppendCommit
<1>6. foreign'[h] = foreign[h] /\ local'[h] = local[h] + 1
  BY <1>1 DEF Commits, Types
<1>7. pc[h] = "writing" /\ pc'[h] = "stamping"
  BY DEF AppendCommit, Types
<1>8. known'[h] # None => Worth(known'[h], foreign'[h], local'[h], log', rows')
  BY <1>1, <1>3, <1>4, <1>6, KnownLater DEF Memories
<1>9. ASSUME taken[h] # None
      PROVE  WorthMore(taken[h], draft[h], foreign[h], log', rows')
  <2>1. /\ Worth(taken[h], foreign[h], local[h], log, rows)
        /\ taken[h].version = Version(h) /\ ~triggers /\ taken[h] \in Memory
    BY <1>7, <1>9 DEF Memories, MemoryOf, Types
  <2>2. /\ taken[h].version.foreign = foreign[h] /\ taken[h].count = Len(log)
        /\ taken[h].head = Prefix(log, Len(log))
        /\ taken[h].whole => Says(rows, log)
    BY <2>1 DEF Worth, Version
  <2>3. taken[h].whole => Says(rows', log')
    BY <1>2, <2>1, <2>2
  <2>4. draft[h].hash = Prefix(log', Len(log) + 1)
    <3>1. draft[h].hash = log'
      BY <1>2, <1>7 DEF Lock
    <3>. QED BY <1>3, <3>1, WholePrefix DEF Prefix
  <2>5. Prefix(log', Len(log)) = Prefix(log, Len(log))
    BY <1>3, <1>4 DEF Grown
  <2>6. foreign[h] \in Nat
    BY DEF Types
  <2>. QED BY <1>3, <2>2, <2>3, <2>4, <2>5, <2>6 DEF WorthMore
<1>10. MemoryOf(h)'
  BY <1>1, <1>6, <1>7, <1>8, <1>9 DEF MemoryOf
<1>. QED BY <1>1, <1>3, <1>4, <1>5, <1>10, MemoriesBeside

LEMMA StampMemory ==
    ASSUME Types, Lock, Memories, NEW h \in Handle, AppendStamp(h)
    PROVE  Memories'
<1>1. Aside(h) /\ UNCHANGED <<rows, log, triggers, foreign, local>>
  BY DEF AppendStamp, Aside, Types, database, reads
<1>2. pc'[h] = "idle" /\ taken'[h] = None /\ known'[h] = Stamped(h)
  BY DEF AppendStamp, Types
<1>3. ASSUME Stamped(h) # None
      PROVE  Worth(Stamped(h), foreign[h], local[h], log, rows)
  <2> DEFINE p == taken[h]
  <2>1. p # None /\ p.head = draft[h].prev
    BY <1>3 DEF Stamped
  <2>2. /\ p \in Memory /\ WorthMore(p, draft[h], foreign[h], log, rows)
    BY <2>1 DEF AppendStamp, Types, Memories, MemoryOf
  <2>3. Stamped(h) = [version |-> [foreign |-> p.version.foreign, local |-> local[h]],
                      count |-> p.count + 1, head |-> draft[h].hash,
                      whole |-> p.whole]
    BY <2>1 DEF Stamped
  <2>4. /\ p.version.foreign \in Nat /\ p.count \in Nat
        /\ p.version.foreign <= foreign[h]
        /\ p.count < Len(log) /\ draft[h].hash = Prefix(log, p.count + 1)
        /\ p.version.foreign = foreign[h] =>
              p.count + 1 = Len(log) /\ (p.whole => Says(rows, log))
    BY <2>2 DEF WorthMore, Memory
  <2>5. local[h] \in Nat /\ Len(log) \in Nat
    BY DEF Types
  <2>6. p.count + 1 <= Len(log)
    BY <2>4, <2>5
  <2>. QED BY <2>3, <2>4, <2>5, <2>6 DEF Worth
<1>4. MemoryOf(h)'
  BY <1>1, <1>2, <1>3, MemoryOfIdle
<1>. QED BY <1>1, <1>4, MemoriesAside

LEMMA OtherMemory ==
    ASSUME Types, Lock, Memories,
           Outside \/ \E h \in Handle : AppendRollback(h) \/ OtherWrite(h) \/ Crash(h)
    PROVE  Memories'
<1>1. log \in Seq(Body) /\ Grown(log, log)
  BY DEF Types, Grown
<1>2. ASSUME NEW h \in Handle, AppendRollback(h) PROVE Memories'
  <2>1. /\ Aside(h) /\ UNCHANGED <<rows, log, triggers, foreign>>
        /\ pc'[h] = "idle" /\ taken'[h] = None /\ known'[h] = known[h]
        /\ local'[h] = local[h] + 1
    BY <1>2 DEF AppendRollback, Aside, Types, database, reads
  <2>2. known'[h] # None => Worth(known'[h], foreign'[h], local'[h], log', rows')
    BY <1>1, <2>1, KnownLater DEF Memories
  <2>. QED BY <2>1, <2>2, MemoryOfIdle, MemoriesAside
<1>3. ASSUME NEW h \in Handle, OtherWrite(h) PROVE Memories'
  <2>1. /\ Aside(h) /\ Commits(h) /\ UNCHANGED <<rows, log>> /\ pc[h] = "idle"
        /\ pc'[h] = "idle" /\ taken'[h] = taken[h] /\ known'[h] = known[h]
        /\ foreign'[h] = foreign[h] /\ local'[h] = local[h] + 1
    BY <1>3 DEF OtherWrite, Commits, Aside, Types, database, reads, calls
  <2>2. known'[h] # None => Worth(known'[h], foreign'[h], local'[h], log', rows')
    BY <1>1, <2>1, KnownLater DEF Memories
  <2>3. taken[h] = None
    BY <2>1 DEF Memories, MemoryOf
  <2>4. MemoryOf(h)'
    BY <2>1, <2>2, <2>3, MemoryOfIdle
  <2>5. \A g \in Handle \ {h} : pc[g] # "writing"
    BY <1>3, BoundsAssumption DEF Lock, OtherWrite
  <2>. QED BY <1>1, <2>1, <2>4, <2>5, MemoriesBeside
<1>4. ASSUME NEW h \in Handle, Crash(h) PROVE Memories'
  <2>1. /\ Aside(h) /\ UNCHANGED <<rows, log, triggers, foreign>>
        /\ pc'[h] = "idle" /\ taken'[h] = None /\ known'[h] = None
    BY <1>4 DEF Crash, Aside, Types, database
  <2>2. MemoryOf(h)'
    BY <2>1, MemoryOfIdle
  <2>. QED BY <2>1, <2>2, MemoriesAside
<1>5. CASE Outside
  <2>1. \A g \in Handle : pc[g] # "writing"
    BY <1>5, BoundsAssumption DEF Lock, Outside
  <2>2. /\ UNCHANGED <<log, local, pc, known, taken, draft>>
        /\ \A g \in Handle : foreign'[g] = foreign[g] + 1
    BY <1>5 DEF Outside, calls
  <2>3. ASSUME NEW g \in Handle PROVE MemoryOf(g)'
    BY <1>1, <2>1, <2>2, MemoryOfBystander DEF Memories
  <2>. QED BY <2>3 DEF Memories
<1>. QED BY <1>2, <1>3, <1>4, <1>5
-----------------------------------------------------------------------------
(* Snapshots.                                                              *)

SnapshotKept(g) ==
    /\ pc'[g] = pc[g] /\ taken'[g] = taken[g] /\ view'[g] = view[g]
    /\ asked'[g] = asked[g] /\ answer'[g] = answer[g]

LEMMA SnapshotStays ==
    ASSUME NEW g \in Handle, SnapshotOf(g), SnapshotKept(g), UNCHANGED log
    PROVE  SnapshotOf(g)'
  BY DEF SnapshotOf, SnapshotKept

LEMMA SnapshotGrows ==
    ASSUME Types, NEW g \in Handle, SnapshotOf(g), SnapshotKept(g),
           NEW b \in Body, log' = Append(log, b)
    PROVE  SnapshotOf(g)'
<1>1. view[g].rows \in Seq(TableRow) /\ log \in Seq(Body)
  BY DEF Types
<1>2. ASSUME Linked(view[g].rows, log)
      PROVE  /\ Linked(view[g].rows, log')
             /\ Says(view[g].rows, log) => Says(view[g].rows, log')
  BY <1>1, <1>2, LinksStay
<1>. QED BY <1>2 DEF SnapshotOf, SnapshotKept

LEMMA SnapshotsAside ==
    ASSUME NEW h \in Handle, Snapshots, Aside(h), UNCHANGED log, SnapshotOf(h)'
    PROVE  Snapshots'
<1>1. ASSUME NEW g \in Handle \ {h} PROVE SnapshotOf(g)'
  <2>1. SnapshotKept(g)
    BY DEF Aside, SnapshotKept
  <2>. QED BY <2>1, SnapshotStays DEF Snapshots
<1>. QED BY <1>1 DEF Snapshots

LEMMA SnapshotOfOther ==
    ASSUME NEW h \in Handle, pc'[h] # "reading"
    PROVE  SnapshotOf(h)'
  BY DEF SnapshotOf

LEMMA ReadBeginSnapshot ==
    ASSUME Types, Chain, Memories, NEW h \in Handle, NEW force \in BOOLEAN,
           ReadBegin(h, force)
    PROVE  SnapshotOf(h)'
<1>1. UNCHANGED log /\ asked'[h] = Len(log) /\ pc[h] = "idle"
  BY DEF ReadBegin, Types
<1>2. CASE UNCHANGED pc
  BY <1>1, <1>2, SnapshotOfOther
<1>3. ASSUME NEW p \in Proven(h, force), taken' = [taken EXCEPT ![h] = p],
             view' = [view EXCEPT ![h] = [rows |-> rows, anchor |-> anchor]],
             answer' = [answer EXCEPT ![h] = Waiting]
      PROVE  SnapshotOf(h)'
  <2>1. Worth(p, foreign[h], local[h], log, rows) /\ p.version = Version(h)
    BY ProvenWorth
  <2>2. p.whole => Says(rows, log)
    BY <2>1 DEF Worth, Version
  <2>3. taken'[h] = p /\ view'[h].rows = rows
    BY <1>3 DEF Types
  <2>4. answer'[h] = Waiting
    BY <1>3 DEF Types
  <2>5. Linked(rows, log) /\ Len(rows) = Len(log) /\ Len(log) \in Nat
    BY DEF Chain, Types
  <2>. QED BY <1>1, <2>2, <2>3, <2>4, <2>5 DEF SnapshotOf
<1>. QED BY <1>2, <1>3 DEF ReadBegin

LEMMA SnapshotsNext ==
    ASSUME Types, Chain, Lock, Memories, Snapshots, Next
    PROVE  Snapshots'
<1>1. ASSUME NEW h \in Handle, NEW force \in BOOLEAN, ReadBegin(h, force)
      PROVE  Snapshots'
  <2>1. Aside(h) /\ UNCHANGED log
    BY <1>1 DEF ReadBegin, Aside, Types, database
  <2>2. SnapshotOf(h)'
    BY <1>1, ReadBeginSnapshot
  <2>. QED BY <2>1, <2>2, SnapshotsAside
<1>2. ASSUME NEW h \in Handle, NEW b \in Body, AppendBegin(h, b)
      PROVE  Snapshots'
  <2>1. Aside(h) /\ UNCHANGED log /\ pc'[h] # "reading"
    BY <1>2 DEF AppendBegin, Aside, Types, database, reads
  <2>. QED BY <2>1, SnapshotOfOther, SnapshotsAside
<1>3. ASSUME NEW h \in Handle, ReadEnd(h) \/ AppendRollback(h) \/ AppendStamp(h)
      PROVE  Snapshots'
  <2>1. Aside(h) /\ UNCHANGED log /\ pc'[h] # "reading"
    BY <1>3 DEF ReadEnd, AppendRollback, AppendStamp, Aside, Types, database, reads
  <2>. QED BY <2>1, SnapshotOfOther, SnapshotsAside
<1>4. ASSUME NEW h \in Handle, Crash(h) PROVE Snapshots'
  <2>1. Aside(h) /\ UNCHANGED log /\ pc'[h] # "reading"
    BY <1>4 DEF Crash, Aside, Types, database
  <2>. QED BY <2>1, SnapshotOfOther, SnapshotsAside
<1>5. ASSUME NEW h \in Handle, AppendCommit(h) PROVE Snapshots'
  <2>1. log' = Append(log, draft[h].body) /\ draft[h].body \in Body
    BY <1>5, CommittedRows
  <2>2. /\ pc'[h] # "reading"
        /\ \A g \in Handle \ {h} : SnapshotKept(g)
    BY <1>5 DEF AppendCommit, SnapshotKept, Types, reads
  <2>3. \A g \in Handle \ {h} : SnapshotOf(g)'
    BY <2>1, <2>2, SnapshotGrows DEF Snapshots
  <2>. QED BY <2>2, <2>3, SnapshotOfOther DEF Snapshots
<1>6. ASSUME Outside \/ \E h \in Handle : OtherWrite(h) PROVE Snapshots'
  <2>1. UNCHANGED log /\ \A g \in Handle : SnapshotKept(g)
    BY <1>6 DEF Outside, OtherWrite, SnapshotKept, calls, reads
  <2>. QED BY <2>1, SnapshotStays DEF Snapshots
<1>. QED BY <1>1, <1>2, <1>3, <1>4, <1>5, <1>6 DEF Next

-----------------------------------------------------------------------------
(* The theorems.                                                           *)

LEMMA StutterInv == ASSUME IInv, UNCHANGED vars PROVE IInv'
<1>. USE DEF vars, database, calls, reads
<1>1. Types'
  BY DEF IInv, Types
<1>2. Chain' /\ Lock'
  BY DEF IInv, Chain, Lock
<1>3. Memories'
  BY DEF IInv, Memories, MemoryOf, Version
<1>4. Snapshots'
  BY DEF IInv, Snapshots, SnapshotOf
<1>. QED BY <1>1, <1>2, <1>3, <1>4 DEF IInv

LEMMA NextInv == ASSUME IInv, [Next]_vars PROVE IInv'
<1>1. Types /\ Chain /\ Lock /\ Memories /\ Snapshots
  BY DEF IInv
<1>2. CASE Next
  <2>1. Types'
    BY <1>1, <1>2, ReadTypes, AppendTypes, OtherTypes DEF Next
  <2>2. Chain' /\ Lock'
    BY <1>1, <1>2, ChainNext, LockNext
  <2>3. Memories'
    BY <1>1, <1>2, ReadBeginMemory, ReadEndMemory, AppendBeginMemory,
       CommitMemory, StampMemory, OtherMemory DEF Next
  <2>4. Snapshots'
    BY <1>1, <1>2, SnapshotsNext
  <2>. QED BY <2>1, <2>2, <2>3, <2>4 DEF IInv
<1>. QED BY <1>2, StutterInv

\* The invariant that carries the theorems below, for any number of
\* connections, events, writes from outside and triggers.
THEOREM InductiveInvariant == Spec => []IInv
  BY InitInv, NextInv, PTL DEF Spec

LEMMA TypeHolds == IInv => TypeOK
<1> SUFFICES ASSUME IInv PROVE TypeOK
  OBVIOUS
<1>1. Types /\ Chain /\ Lock
  BY DEF IInv
<1>2. \A i \in DOMAIN rows : rows[i].body \in Body
  <2>1. \A i \in DOMAIN rows : rows[i] \in TableRow
    BY <1>1 DEF Types
  <2>. QED BY <2>1 DEF TableRow
<1>3. \A i \in DOMAIN log : log[i] \in Body
  BY <1>1 DEF Types
<1>4. \A h \in Handle : draft[h] # None => draft[h].body \in Body
  BY <1>1 DEF Types, TableRow
<1>5. lock # None => pc[lock] = "writing"
  BY <1>1 DEF Types, Lock
<1>. QED BY <1>1, <1>2, <1>3, <1>4, <1>5 DEF Types, Chain, TypeOK

\* Every variable keeps its type, and the write lock is only ever held inside
\* an append's transaction (append_blocking).
THEOREM TypeCorrect == Spec => []TypeOK
  BY InductiveInvariant, TypeHolds, PTL

LEMMA ChainHolds == IInv => OneChain
<1> SUFFICES ASSUME IInv, ~damaged PROVE Bodies(rows) = log /\ Full(rows, anchor)
  BY DEF OneChain
<1>1. Types /\ Chain /\ Says(rows, log)
  BY DEF IInv, Chain
<1>2. Full(rows, anchor)
  BY <1>1, FullMeans
<1>3. rows \in Seq(TableRow) /\ log \in Seq(Body) /\ Len(rows) = Len(log)
  BY <1>1 DEF Types, Chain
<1>4. DOMAIN rows = DOMAIN log /\ \A i \in DOMAIN rows : rows[i].body = log[i]
  BY <1>1, <1>3 DEF Says
<1>5. Bodies(rows) = log
  BY <1>3, <1>4 DEF Bodies
<1>. QED BY <1>2, <1>5

\* Appends of any number of processes make one chain (append_blocking).
THEOREM AppendsMakeOneChain == Spec => []OneChain
  BY InductiveInvariant, ChainHolds, PTL

LEMMA CurrentHolds == IInv => ProofIsCurrent
<1> SUFFICES ASSUME IInv, NEW h \in Handle, known[h] # None,
                    known[h].version = Version(h)
             PROVE  /\ anchor = [count |-> known[h].count, head |-> known[h].head]
                    /\ known[h].whole => Full(rows, anchor)
  BY DEF ProofIsCurrent
<1>1. Types /\ Chain /\ Worth(known[h], foreign[h], local[h], log, rows)
  BY DEF IInv, Memories, MemoryOf
<1>2. /\ known[h].count = Len(log) /\ known[h].head = Prefix(log, Len(log))
      /\ known[h].whole => Says(rows, log)
  BY <1>1 DEF Worth, Version
<1>3. Prefix(log, Len(log)) = log
  BY <1>1, WholePrefix DEF Types, Prefix
<1>. QED BY <1>1, <1>2, <1>3, FullMeans DEF Chain

\* A memory that is still of the current version is right, although others
\* commit between any two steps of the connection (verified_version).
THEOREM MemoriesAreRight == Spec => []ProofIsCurrent
  BY InductiveInvariant, CurrentHolds, PTL

LEMMA NoAlarm == IInv => NoFalseAlarm
<1> SUFFICES ASSUME IInv, ~damaged, NEW h \in Handle, NEW force \in BOOLEAN
             PROVE  Proven(h, force) # {}
  BY DEF NoFalseAlarm
<1>1. Types /\ Chain /\ Says(rows, log)
  BY DEF IInv, Chain
<1>2. CASE known[h] # None /\ ~force
  <2>1. known[h] \in Memory /\ Worth(known[h], foreign[h], local[h], log, rows)
    BY <1>2 DEF IInv, Types, Memories, MemoryOf
  <2>2. Extends(known[h], rows, anchor)
    BY <1>1, <2>1, MemoryExtends
  <2>3. Retained(h) # {}
    BY <1>2, <2>2 DEF Retained
  <2>. QED BY <1>2, <2>3 DEF Proven
<1>3. CASE ~(known[h] # None /\ ~force)
  BY <1>1, <1>3, FullMeans DEF Proven
<1>. QED BY <1>2, <1>3

\* No read of a chain nobody damaged is refused for what its connection
\* remembers (verify_chain_cached).
THEOREM NoReadIsRefused == Spec => []NoFalseAlarm
  BY InductiveInvariant, NoAlarm, PTL
-----------------------------------------------------------------------------
(* Callers see an append-only log.                                         *)

LEMMA BodiesArePrefix ==
    ASSUME NEW rs \in Seq(TableRow), log \in Seq(Body), Linked(rs, log),
           Says(rs, log)
    PROVE  Bodies(rs) = SubSeq(log, 1, Len(rs))
<1>1. Len(rs) \in Nat /\ Len(rs) <= Len(log) /\ DOMAIN rs = 1 .. Len(rs)
  BY DEF Linked
<1>2. \A i \in 1 .. Len(rs) : rs[i].body = SubSeq(log, 1, Len(rs))[i]
  BY <1>1 DEF Says
<1>3. SubSeq(log, 1, Len(rs)) = [i \in 1 .. Len(rs) |-> SubSeq(log, 1, Len(rs))[i]]
  BY <1>1
<1>. QED BY <1>1, <1>2, <1>3 DEF Bodies

\* What a read has checked is what was committed, whoever changed a row.
LEMMA ReadIsPrefix ==
    ASSUME IInv, NEW h \in Handle, pc[h] = "reading",
           taken[h].whole \/ CheckedRows(view[h].rows, view[h].anchor)
    PROVE  \E n \in asked[h] .. Len(log) :
              Bodies(view[h].rows) = SubSeq(log, 1, n)
<1> DEFINE rs == view[h].rows
<1>1. rs \in Seq(TableRow) /\ log \in Seq(Body) /\ asked[h] \in Nat
  BY DEF IInv, Types
<1>2. Linked(rs, log) /\ asked[h] <= Len(rs) /\ (taken[h].whole => Says(rs, log))
  BY DEF IInv, Snapshots, SnapshotOf
<1>3. CheckedRows(rs, view[h].anchor) => Says(rs, log)
  BY <1>1, <1>2, SoundSays DEF CheckedRows, Says
<1>4. Bodies(rs) = SubSeq(log, 1, Len(rs))
  BY <1>1, <1>2, <1>3, BodiesArePrefix
<1>5. Len(rs) \in asked[h] .. Len(log)
  BY <1>1, <1>2 DEF Linked
<1>. QED BY <1>4, <1>5

LEMMA StepPromised ==
    ASSUME IInv, Next
    PROVE  Promise!Next \/ UNCHANGED Promise!avars
<1>. USE DEF reads
<1>1. ASSUME NEW h \in Handle, NEW force \in BOOLEAN, ReadBegin(h, force)
      PROVE  Promise!Ask(h)
  BY <1>1 DEF ReadBegin, Promise!Ask
<1>2. ASSUME NEW h \in Handle, ReadEnd(h)
      PROVE  Promise!Reply(h) \/ Promise!Fail(h)
  <2>1. pc[h] = "reading" /\ UNCHANGED <<log, asked>>
    BY <1>2 DEF ReadEnd
  <2>2. answer[h] = Waiting
    BY <2>1 DEF IInv, Snapshots, SnapshotOf
  <2>3. CASE answer' = [answer EXCEPT ![h] = Failed]
    BY <2>1, <2>3 DEF Promise!Fail
  <2>4. CASE /\ taken[h].whole \/ CheckedRows(view[h].rows, view[h].anchor)
             /\ answer' = [answer EXCEPT ![h] = Bodies(view[h].rows)]
    <3>1. PICK n \in asked[h] .. Len(log) :
             Bodies(view[h].rows) = SubSeq(log, 1, n)
      BY <2>1, <2>4, ReadIsPrefix
    <3>2. answer' = [answer EXCEPT ![h] = SubSeq(log, 1, n)]
      BY <2>4, <3>1
    <3>. QED BY <2>1, <2>2, <3>2 DEF Promise!Reply
  <2>. QED BY <1>2, <2>3, <2>4 DEF ReadEnd
<1>3. ASSUME NEW h \in Handle, AppendCommit(h)
      PROVE  \E b \in Body : Promise!Add(b)
  <2>1. draft[h] \in TableRow
    BY <1>3 DEF IInv, Lock, AppendCommit
  <2>2. draft[h].body \in Body
    BY <2>1 DEF TableRow
  <2>3. Promise!Add(draft[h].body)
    BY <1>3 DEF AppendCommit, Promise!Add
  <2>. QED BY <2>2, <2>3
<1>4. ASSUME NEW h \in Handle, Crash(h) PROVE Promise!Fail(h)
  BY <1>4 DEF Crash, Promise!Fail
<1>5. ASSUME NEW h \in Handle, NEW b \in Body, AppendBegin(h, b)
      PROVE  UNCHANGED Promise!avars
  BY <1>5 DEF AppendBegin, Promise!avars
<1>6. ASSUME NEW h \in Handle, AppendRollback(h) \/ AppendStamp(h) \/ OtherWrite(h)
      PROVE  UNCHANGED Promise!avars
  BY <1>6 DEF AppendRollback, AppendStamp, OtherWrite, Promise!avars
<1>7. CASE Outside
  BY <1>7 DEF Outside, Promise!avars
<1>. QED BY <1>1, <1>2, <1>3, <1>4, <1>5, <1>6, <1>7 DEF Next, Promise!Next

LEMMA StutterPromised == UNCHANGED vars => UNCHANGED Promise!avars
  BY DEF vars, reads, Promise!avars

LEMMA InitPromised == Init => Promise!Init
  BY DEF Init, Promise!Init

\* A read that succeeds returns the events that were committed, all of them
\* up to one moment of the read, even if rows were changed in place or
\* triggers change them (checked_rows, checked_events).
THEOREM LogRefined == Spec => ReadsAreTheLog
<1>1. IInv /\ [Next]_vars => [Promise!Next]_(Promise!avars)
  BY StepPromised, StutterPromised
<1>. QED BY <1>1, InitPromised, InductiveInvariant, PTL
            DEF Spec, ReadsAreTheLog, Promise!Spec
=============================================================================
