---------------------------- MODULE EventChain -----------------------------
(* The event log in its database: rows chained by hashes, an anchor that   *)
(* names the newest of them, and the connections of several processes,     *)
(* each with a memory of how much of the chain it has proven.              *)
(*                                                                         *)
(* The hash of a row stands for all it covers: it is the sequence of the   *)
(* bodies from the first row to this one, so that two hashes are equal     *)
(* only if everything under them is.                                       *)
EXTENDS FiniteSets, Naturals, Sequences

CONSTANTS
    Handle,     \* connections, each behind its own mutex
    Body,       \* what an event says
    MaxRows,    \* appends that are made
    MaxOutside, \* writes that are not appends
    Waiting, Failed, None

ASSUME BoundsAssumption ==
    MaxRows \in Nat /\ MaxOutside \in Nat /\ None \notin Handle

VARIABLES
    rows,      \* the table of events, by rowid
    anchor,    \* how many rows there are and the newest one's hash
    triggers,  \* whether anyone has installed a trigger
    lock,      \* the connection inside an IMMEDIATE transaction
    foreign,   \* foreign[h]: commits of others, what data_version counts
    local,     \* local[h]: changes made through h, what total_changes counts
    pc,        \* "idle", "reading", "writing", "stamping"
    known,     \* known[h]: what h has proven (verified_version)
    taken,     \* taken[h]: the proof its running call has taken from there
    view,      \* view[h]: the snapshot its read runs on
    draft,     \* draft[h]: the row its append is about to insert
    log,       \* the events whose append was committed
    asked, answer,  \* of each connection's last read
    outside,   \* writes so far that were not appends
    damaged    \* whether one of them, or a trigger, changed a row

database == <<rows, anchor, triggers>>
calls == <<pc, taken, view, draft>>
reads == <<asked, answer>>
vars == <<database, lock, foreign, local, calls, known, log, reads, outside,
          damaged>>

Nothing == [rows |-> <<>>, anchor |-> [count |-> 0, head |-> <<>>]]

Init ==
    /\ rows = <<>> /\ anchor = Nothing.anchor /\ triggers = FALSE
    /\ lock = None
    /\ foreign = [h \in Handle |-> 0] /\ local = [h \in Handle |-> 0]
    /\ pc = [h \in Handle |-> "idle"]
    /\ known = [h \in Handle |-> None] /\ taken = [h \in Handle |-> None]
    /\ view = [h \in Handle |-> Nothing] /\ draft = [h \in Handle |-> None]
    /\ log = <<>>
    /\ asked = [h \in Handle |-> 0] /\ answer = [h \in Handle |-> <<>>]
    /\ outside = 0 /\ damaged = FALSE

-----------------------------------------------------------------------------
(* Checking a chain.                                                       *)

HashOf(prev, b) == Append(prev, b)

\* A row's content matches its stored hash.
Sound(row) == row.hash = HashOf(row.prev, row.body)

HeadOf(rs) == IF rs = <<>> THEN <<>> ELSE rs[Len(rs)].hash

\* The rows after the first n continue from head.
ValidAfter(rs, n, head) ==
    \A i \in (n + 1) .. Len(rs) :
        /\ Sound(rs[i])
        /\ rs[i].prev = IF i = n + 1 THEN head ELSE rs[i - 1].hash

Anchored(rs, a) == a = [count |-> Len(rs), head |-> HeadOf(rs)]

\* The whole chain, from its first row.
Full(rs, a) == ValidAfter(rs, 0, <<>>) /\ Anchored(rs, a)

\* Only what was added to a chain that was proven: its last row is unchanged
\* and the newer ones link on.
Extends(proof, rs, a) ==
    /\ proof.count > 0 =>
          /\ proof.count <= Len(rs)
          /\ Sound(rs[proof.count]) /\ rs[proof.count].hash = proof.head
    /\ ValidAfter(rs, proof.count, proof.head)
    /\ Anchored(rs, a)

\* Variant: the rows are only checked to link to each other.
CheckedLinks(rs, a) ==
    \A i \in DOMAIN rs : rs[i].prev = IF i = 1 THEN <<>> ELSE rs[i - 1].hash

\* Each row a read returns is checked where it sits, between its neighbours,
\* the newest against the anchor.
CheckedRows(rs, a) ==
    /\ \A i \in DOMAIN rs :
          /\ Sound(rs[i])
          /\ rs[i].prev = IF i = 1 THEN <<>> ELSE rs[i - 1].hash
    /\ rs # <<>> => a.head = HeadOf(rs)

Version(h) == [foreign |-> foreign[h], local |-> local[h]]

Proof(h, whole) ==
    [version |-> Version(h), count |-> Len(rows), head |-> HeadOf(rows),
     whole |-> whole]

\* Keep a proof that is still of this version, extend one that is not.
Retained(h) ==
    IF known[h] = None THEN {}
    ELSE IF known[h].version = Version(h) THEN {known[h]}
    ELSE IF Extends(known[h], rows, anchor) THEN {Proof(h, FALSE)}
    ELSE {}

\* What a read runs on: a proof kept or extended, else the whole chain again.
Proven(h, force) ==
    IF known[h] # None /\ ~force THEN Retained(h)
    ELSE IF Full(rows, anchor) THEN {Proof(h, TRUE)}
    ELSE {}

-----------------------------------------------------------------------------
(* Reads.                                                                  *)

Bodies(rs) == [i \in DOMAIN rs |-> rs[i].body]

\* The snapshot is taken and its version sampled inside it; nothing stays
\* known unless the read succeeds.
ReadBegin(h, force) ==
    /\ pc[h] = "idle"
    /\ known' = [known EXCEPT ![h] = None]
    /\ asked' = [asked EXCEPT ![h] = Len(log)]
    /\ IF Proven(h, force) = {}
       THEN /\ answer' = [answer EXCEPT ![h] = Failed]
            /\ UNCHANGED <<pc, taken, view>>
       ELSE /\ \E proof \in Proven(h, force) : taken' = [taken EXCEPT ![h] = proof]
            /\ view' = [view EXCEPT ![h] = [rows |-> rows, anchor |-> anchor]]
            /\ answer' = [answer EXCEPT ![h] = Waiting]
            /\ pc' = [pc EXCEPT ![h] = "reading"]
    /\ UNCHANGED <<database, lock, foreign, local, draft, log, outside, damaged>>

\* The rows are checked unless every row was proven; then the proof is kept.
ReadEnd(h) ==
    /\ pc[h] = "reading"
    /\ LET rs == view[h].rows
       IN \/ /\ taken[h].whole \/ CheckedRows(rs, view[h].anchor)
             /\ answer' = [answer EXCEPT ![h] = Bodies(rs)]
             /\ known' = [known EXCEPT ![h] = taken[h]]
          \/ /\ answer' = [answer EXCEPT ![h] = Failed]
             /\ UNCHANGED known
    /\ pc' = [pc EXCEPT ![h] = "idle"]
    /\ taken' = [taken EXCEPT ![h] = None]
    /\ view' = [view EXCEPT ![h] = Nothing]
    /\ UNCHANGED <<database, lock, foreign, local, draft, log, asked, outside,
                   damaged>>

-----------------------------------------------------------------------------
(* Appends.                                                                *)

Commits(h) ==
    /\ foreign' = [g \in Handle |-> IF g = h THEN foreign[g] ELSE foreign[g] + 1]
    /\ local' = [local EXCEPT ![h] = @ + 1]

\* The row that would continue the chain.
Draft(b) == [prev |-> HeadOf(rows), body |-> b, hash |-> HashOf(HeadOf(rows), b)]

\* Variant: the transaction takes the write lock only when it writes.
AppendBeginDeferred(h, b) ==
    /\ pc[h] = "idle"
    /\ Len(log) < MaxRows
    /\ known' = [known EXCEPT ![h] = None]
    /\ Anchored(rows, anchor)
    /\ lock' = h
    /\ pc' = [pc EXCEPT ![h] = "writing"]
    /\ draft' = [draft EXCEPT ![h] = Draft(b)]
    /\ UNCHANGED <<database, foreign, local, taken, view, log, reads, outside,
                   damaged>>

\* Under the write lock of the database: the proof is taken out, none if
\* there are triggers, and an anchor that does not name the newest row
\* refuses.
AppendBegin(h, b) ==
    /\ pc[h] = "idle" /\ lock = None
    /\ Len(log) < MaxRows
    /\ known' = [known EXCEPT ![h] = None]
    /\ IF ~Anchored(rows, anchor)
       THEN UNCHANGED <<lock, pc, taken, draft>>
       ELSE /\ lock' = h
            /\ pc' = [pc EXCEPT ![h] = "writing"]
            /\ draft' = [draft EXCEPT ![h] = Draft(b)]
            /\ \/ /\ ~triggers
                  /\ \E proof \in Retained(h) : taken' = [taken EXCEPT ![h] = proof]
               \/ /\ triggers \/ Retained(h) = {}
                  /\ UNCHANGED taken
    /\ UNCHANGED <<database, foreign, local, view, log, reads, outside, damaged>>

\* What a row says is changed and its hash is not.
Changed(rs, i, b) == [rs EXCEPT ![i].body = b]

\* The row, its search entry and the anchor become visible together.  A
\* trigger may change any row as it goes.
AppendCommit(h) ==
    /\ pc[h] = "writing"
    /\ LET added == Append(rows, draft[h])
       IN /\ anchor' = [count |-> Len(added), head |-> draft[h].hash]
          /\ \/ rows' = added /\ UNCHANGED damaged
             \/ /\ triggers
                /\ \E i \in DOMAIN added, b \in Body :
                      b # added[i].body /\ rows' = Changed(added, i, b)
                /\ damaged' = TRUE
    /\ log' = Append(log, draft[h].body)
    /\ Commits(h)
    /\ lock' = None
    /\ pc' = [pc EXCEPT ![h] = "stamping"]
    /\ UNCHANGED <<triggers, known, taken, view, draft, reads, outside>>

\* A statement or the commit fails: nothing stays, the changes are counted.
AppendRollback(h) ==
    /\ pc[h] = "writing"
    /\ lock' = None
    /\ pc' = [pc EXCEPT ![h] = "idle"]
    /\ local' = [local EXCEPT ![h] = @ + 1]
    /\ taken' = [taken EXCEPT ![h] = None] /\ draft' = [draft EXCEPT ![h] = None]
    /\ outside < MaxOutside /\ outside' = outside + 1
    /\ UNCHANGED <<database, foreign, known, view, log, reads, damaged>>

\* Variant: the whole version is read again after the commit.
StampedNow(h) ==
    IF taken[h] = None THEN None
    ELSE [version |-> Version(h), count |-> taken[h].count + 1,
          head |-> draft[h].hash, whole |-> taken[h].whole]

\* The proof, if it ended where the row was added, grows by that row and
\* takes the count of local changes, never the version others move.
Stamped(h) ==
    IF taken[h] = None \/ taken[h].head # draft[h].prev THEN None
    ELSE [version |-> [foreign |-> taken[h].version.foreign, local |-> local[h]],
          count |-> taken[h].count + 1,
          head |-> draft[h].hash,
          whole |-> taken[h].whole]

AppendStamp(h) ==
    /\ pc[h] = "stamping"
    /\ known' = [known EXCEPT ![h] = Stamped(h)]
    /\ pc' = [pc EXCEPT ![h] = "idle"]
    /\ taken' = [taken EXCEPT ![h] = None] /\ draft' = [draft EXCEPT ![h] = None]
    /\ UNCHANGED <<database, lock, foreign, local, view, log, reads, outside,
                   damaged>>

-----------------------------------------------------------------------------
(* Everything else that touches the database.                              *)

\* Another write of this program: sessions, titles, the search index.
OtherWrite(h) ==
    /\ pc[h] = "idle" /\ lock = None
    /\ outside < MaxOutside /\ outside' = outside + 1
    /\ Commits(h)
    /\ UNCHANGED <<database, lock, calls, known, log, reads, damaged>>

\* Something else changes what a row says, or installs a trigger.
Outside ==
    /\ lock = None
    /\ outside < MaxOutside /\ outside' = outside + 1
    /\ foreign' = [h \in Handle |-> foreign[h] + 1]
    /\ \/ /\ \E i \in DOMAIN rows, b \in Body :
                b # rows[i].body /\ rows' = Changed(rows, i, b)
          /\ damaged' = TRUE
          /\ UNCHANGED triggers
       \/ /\ triggers' = TRUE
          /\ UNCHANGED <<rows, damaged>>
    /\ UNCHANGED <<anchor, lock, local, calls, known, log, reads>>

\* The process dies and its connection is opened again, knowing nothing.
Crash(h) ==
    /\ pc[h] # "idle"
    /\ outside < MaxOutside /\ outside' = outside + 1
    /\ pc' = [pc EXCEPT ![h] = "idle"]
    /\ lock' = IF lock = h THEN None ELSE lock
    /\ known' = [known EXCEPT ![h] = None] /\ taken' = [taken EXCEPT ![h] = None]
    /\ view' = [view EXCEPT ![h] = Nothing] /\ draft' = [draft EXCEPT ![h] = None]
    /\ answer' = [answer EXCEPT ![h] = Failed]
    /\ UNCHANGED <<database, foreign, local, log, asked, damaged>>

-----------------------------------------------------------------------------

Next ==
    \/ \E h \in Handle :
          \/ \E force \in BOOLEAN : ReadBegin(h, force)
          \/ \E b \in Body : AppendBegin(h, b)
          \/ ReadEnd(h) \/ AppendCommit(h) \/ AppendRollback(h)
          \/ AppendStamp(h) \/ OtherWrite(h) \/ Crash(h)
    \/ Outside

Spec == Init /\ [][Next]_vars

-----------------------------------------------------------------------------
(* Properties.                                                             *)

\* Every variable has its type, and the write lock is only ever held by a
\* connection inside an IMMEDIATE transaction (lib.rs:1187-1189).
TypeOK ==
    /\ \A i \in DOMAIN rows : rows[i].body \in Body
    /\ Len(rows) = Len(log) /\ Len(log) <= MaxRows
    /\ \A i \in DOMAIN log : log[i] \in Body
    /\ triggers \in BOOLEAN /\ damaged \in BOOLEAN
    /\ lock \in Handle \cup {None}
    /\ lock # None => pc[lock] = "writing"
    /\ foreign \in [Handle -> Nat] /\ local \in [Handle -> Nat]
    /\ pc \in [Handle -> {"idle", "reading", "writing", "stamping"}]
    /\ \A h \in Handle : draft[h] # None => draft[h].body \in Body
    /\ asked \in [Handle -> 0 .. MaxRows]
    /\ outside \in 0 .. MaxOutside

\* Appends of several processes make one chain: as long as nothing but this
\* program changes rows, the table is the committed events in order, linked
\* from the first, and the anchor names the last (lib.rs:1187-1244).
OneChain == ~damaged => Bodies(rows) = log /\ Full(rows, anchor)

\* A proof that is still current is one: it ends where the chain ends, and a
\* proof of every row means that every row checks, although others commit
\* between any two steps of this connection (lib.rs:22-25, 1209-1217,
\* 1290-1303).
ProofIsCurrent ==
    \A h \in Handle :
        known[h] # None /\ known[h].version = Version(h) =>
            /\ anchor = [count |-> known[h].count, head |-> known[h].head]
            /\ known[h].whole => Full(rows, anchor)

\* No false alarm: a chain nobody damaged is accepted whatever a connection
\* remembers of it, so that no read of it is refused (lib.rs:78-120).
NoFalseAlarm ==
    ~damaged => \A h \in Handle, force \in BOOLEAN :
                    pc[h] = "idle" => Proven(h, force) # {}

Promise == INSTANCE AppendLog

\* Callers see an append-only log: a read that succeeds returns the events
\* that were committed, all of them up to one moment of the read, even if
\* rows were changed in place or triggers change them (lib.rs:782-817,
\* 1624-1673).
ReadsAreTheLog == Promise!Spec
=============================================================================
