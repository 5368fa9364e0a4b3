-------------------------- MODULE AgentTreeProofs --------------------------
(***************************************************************************)
(* Proofs about AgentTree, for any calls, sessions, permits, depth, names  *)
(* and number of settled rows kept.                                        *)
(*                                                                         *)
(* A session is named after the call that made it and never leaves the     *)
(* address it was made at, and an address has one reservation or one run   *)
(* at a time.  A call that an agent made keeps that agent's run from       *)
(* ending, so the run is the one whose token its child's descends from.    *)
(***************************************************************************)
EXTENDS AgentTree, TLAPS, SequenceTheorems

Reserving == {"permit", "prepare"}
Pending == {"admit", "permit", "prepare", "dispatch"}
Early == {"new", "admit", "permit", "prepare"}

\* Session s was made at address p.
MadeAt(s, p) ==
    /\ s \in Call /\ session[s] = s
    /\ p \in Path /\ at[s] = p
    /\ pc[s] \notin {"new", "admit"}

\* What a call has at its stage.
Stages ==
    \A c \in Call :
        /\ pc[c] = "new" => session[c] = None /\ c \notin resuming
        /\ pc[c] = "admit" => (c \in resuming <=> session[c] # None)
        /\ pc[c] \in Reserving \cup Running => session[c] # None

\* A session stays at its address, in calls and in rows.
Named ==
    /\ \A c \in Call : session[c] # None => MadeAt(session[c], at[c])
    /\ \A p \in Path : row[p] # NoRow => MadeAt(row[p].session, p)

\* A reservation puts back a settled row, if it is a follow-up's.
Restores ==
    \A c \in Call :
        /\ pc[c] \in {"new", "admit"} => restore[c] = NoRow
        /\ pc[c] \in Reserving => (restore[c] # NoRow <=> c \in resuming)
        /\ restore[c] # NoRow =>
              ~restore[c].running /\ MadeAt(restore[c].session, at[c])

\* A reserved address has one reservation.
Reservations ==
    \A c \in Call : pc[c] \in Reserving =>
        /\ at[c] \in reserved
        /\ \A d \in Call \ {c} : pc[d] \in Reserving => at[d] # at[c]

\* A run holds the handles of its address, and only a run, or one that was
\* cut off, does.
Handles ==
    /\ \A c \in Call : pc[c] \in Running => at[c] \in Path /\ live[at[c]] = c
    /\ \A p \in Path : live[p] # None =>
          /\ at[live[p]] = p /\ pc[live[p]] \in Running \cup {"cutoff"}
          /\ row[p].session = session[live[p]]

Places == Stages /\ Named /\ Restores /\ Reservations /\ Handles

Rosters == RosterAgrees /\ Places

\* The surface asks for the session it owns, under the tree's token; while a
\* call of an agent is being admitted, that agent's run goes on.
Askers ==
    \A c \in Call :
        /\ caller[c].path = Root =>
              asked[c].run = Tree /\ caller[c].session = asked[c].owner
        /\ asked[c].run \in Call => pc[asked[c].run] \notin Early
        /\ pc[c] \in Pending /\ caller[c].path # Root =>
              /\ asked[c].run \in Call
              /\ pc[asked[c].run] = "task"
              /\ caller[c] = [path |-> at[asked[c].run],
                              session |-> session[asked[c].run]]
              /\ asked[c].owner = asked[asked[c].run].owner

\* A run's token descends from its asker's.
Tokens ==
    \A c \in Call : pc[c] \in Running =>
        /\ spawner[c] = asked[c].run
        /\ spawner[c] \in cancelled => c \in cancelled

\* A dispatch without a report runs, or was cut off.
Unreported ==
    \A c \in logged : c \in reported \cup lost
                      \/ pc[c] \in {"task", "exit", "report", "cutoff"}

\* NoLostWakeup, from the look on.
Awake ==
    wait \in {"looked", "asleep"} /\ ~woken =>
        \A p \in Path :
            row[p].session \in mine /\ ~row[p].running =>
                \E c \in Call :
                    /\ at[c] = p
                    /\ \/ pc[c] = "notify"
                       \/ c \in resuming /\ pc[c] \in {"refused", "rolledback"}

IInv ==
    /\ Rosters
    /\ Askers /\ OneOwnerTree /\ Tokens
    /\ Unreported /\ Awake

-----------------------------------------------------------------------------
(* Addresses, and the list of settled rows.                                *)

LEMMA PathFacts ==
    /\ Root \notin Path
    /\ \A p \in Path \cup {Root} : \A n \in 1 .. NameTries :
          Len(p) < MaxDepth => Append(p, n) \in Path
<1>1. ASSUME Root \in Path
      PROVE  FALSE
  <2>1. PICK d \in 1 .. MaxDepth : Root \in [1 .. d -> 1 .. NameTries]
    BY <1>1 DEF Path
  <2>2. d \in Nat /\ 1 \in 1 .. d
    BY TreeAssumption
  <2>3. Root \in Seq(Nat) /\ Len(Root) = 0
    BY DEF Root
  <2>4. DOMAIN Root = 1 .. d
    BY <2>1
  <2>. QED BY <2>2, <2>3, <2>4
<1>2. ASSUME NEW p \in Path \cup {Root}, NEW n \in 1 .. NameTries,
             Len(p) < MaxDepth
      PROVE  Append(p, n) \in Path
  <2>1. p \in Seq(1 .. NameTries)
    <3>1. CASE p = Root
      BY <3>1 DEF Root
    <3>2. CASE p \in Path
      <4>1. PICK d \in 1 .. MaxDepth : p \in [1 .. d -> 1 .. NameTries]
        BY <3>2 DEF Path
      <4>2. d \in Nat
        BY TreeAssumption
      <4>3. p \in UNION {[1 .. m -> 1 .. NameTries] : m \in Nat}
        BY <4>1, <4>2
      <4>. QED BY <4>3, SeqDef
    <3>. QED BY <3>1, <3>2
  <2>2. /\ Append(p, n) \in Seq(1 .. NameTries)
        /\ Len(Append(p, n)) = Len(p) + 1
        /\ Len(p) \in Nat
    BY <2>1
  <2>3. Append(p, n) \in [1 .. Len(p) + 1 -> 1 .. NameTries]
    <3> DEFINE q == Append(p, n)
    <3>1. q \in [1 .. Len(q) -> 1 .. NameTries]
      BY <2>2, LenProperties
    <3>. QED BY <2>2, <3>1
  <2>4. Len(p) + 1 \in 1 .. MaxDepth
    BY <1>2, <2>2, TreeAssumption
  <2>. QED BY <2>3, <2>4 DEF Path
<1>. QED BY <1>1, <1>2

Distinct(s) == \A i, j \in DOMAIN s : s[i] = s[j] => i = j

LEMMA RemoveFacts ==
    ASSUME NEW S, NEW s \in Seq(S), Distinct(s), NEW x
    PROVE  /\ Remove(s, x) \in Seq(S)
           /\ Members(Remove(s, x)) = Members(s) \ {x}
           /\ Distinct(Remove(s, x))
<1>1. CASE x \notin Members(s)
  BY <1>1 DEF Remove
<1>2. CASE x \in Members(s)
  <2>1. PICK k \in 1 .. Len(s) : s[k] = x /\ k = CHOOSE i \in DOMAIN s : s[i] = x
    BY <1>2 DEF Members
  <2> DEFINE t == [i \in 1 .. Len(s) - 1 |-> IF i < k THEN s[i] ELSE s[i + 1]]
  <2>2. Remove(s, x) = t
    BY <1>2, <2>1 DEF Remove
  <2>3. Len(s) - 1 \in Nat /\ t \in Seq(S) /\ Len(t) = Len(s) - 1
        /\ DOMAIN t = 1 .. Len(s) - 1
    BY <2>1
  <2>4. Distinct(t)
    <3>1. ASSUME NEW i \in 1 .. Len(s) - 1, NEW j \in 1 .. Len(s) - 1,
                 t[i] = t[j]
          PROVE  i = j
      BY <2>1, <3>1 DEF Distinct
    <3>. QED BY <2>3, <3>1 DEF Distinct
  <2>5. Members(t) \subseteq Members(s) \ {x}
    <3>1. ASSUME NEW i \in 1 .. Len(s) - 1
          PROVE  t[i] \in Members(s) /\ t[i] # x
      BY <2>1 DEF Distinct, Members
    <3>. QED BY <2>3, <3>1 DEF Members
  <2>6. Members(s) \ {x} \subseteq Members(t)
    <3>1. ASSUME NEW i \in 1 .. Len(s), i # k
          PROVE  \E j \in 1 .. Len(s) - 1 : t[j] = s[i]
      <4>1. CASE i < k
        <5>1. i \in 1 .. Len(s) - 1 /\ t[i] = s[i]
          BY <2>1, <4>1
        <5>. QED BY <5>1
      <4>2. CASE i > k
        <5>1. i - 1 \in 1 .. Len(s) - 1 /\ t[i - 1] = s[i]
          BY <2>1, <4>2
        <5>. QED BY <5>1
      <4>. QED BY <3>1, <4>1, <4>2
    <3>2. ASSUME NEW y \in Members(s), y # x
          PROVE  y \in Members(t)
      <4>1. PICK i \in 1 .. Len(s) : s[i] = y
        BY DEF Members
      <4>2. i # k
        BY <2>1, <3>2, <4>1
      <4>3. PICK j \in 1 .. Len(s) - 1 : t[j] = y
        BY <3>1, <4>1, <4>2
      <4>. QED BY <2>3, <4>3 DEF Members
    <3>. QED BY <3>2
  <2>. QED BY <2>2, <2>3, <2>4, <2>5, <2>6
<1>. QED BY <1>1, <1>2

LEMMA AppendFacts ==
    ASSUME NEW S, NEW s \in Seq(S), Distinct(s), NEW x \in S,
           x \notin Members(s)
    PROVE  /\ Append(s, x) \in Seq(S)
           /\ Members(Append(s, x)) = Members(s) \cup {x}
           /\ Distinct(Append(s, x))
<1> DEFINE t == Append(s, x)
<1>1. /\ t \in Seq(S) /\ Len(t) = Len(s) + 1
      /\ DOMAIN t = 1 .. Len(s) + 1 /\ DOMAIN s = 1 .. Len(s)
      /\ \A i \in 1 .. Len(s) : t[i] = s[i]
      /\ t[Len(s) + 1] = x
      /\ Len(s) \in Nat
  BY LenProperties, AppendProperties
<1> HIDE DEF t
<1>2. Members(t) = Members(s) \cup {x}
  <2>1. ASSUME NEW i \in 1 .. Len(s) + 1
        PROVE  t[i] \in Members(s) \cup {x}
    BY <1>1 DEF Members
  <2>2. ASSUME NEW i \in 1 .. Len(s)
        PROVE  s[i] \in Members(t)
    BY <1>1 DEF Members
  <2>3. x \in Members(t)
    BY <1>1 DEF Members
  <2>. QED BY <1>1, <2>1, <2>2, <2>3 DEF Members
<1>3. Distinct(t)
  <2>1. ASSUME NEW i \in 1 .. Len(s) + 1, NEW j \in 1 .. Len(s) + 1,
               t[i] = t[j]
        PROVE  i = j
    BY <1>1, <2>1 DEF Members, Distinct
  <2>. QED BY <1>1, <2>1 DEF Distinct
<1>. QED BY <1>1, <1>2, <1>3 DEF t

\* The first k go.
LEMMA DropFacts ==
    ASSUME NEW S, NEW s \in Seq(S), Distinct(s), NEW k \in 0 .. Len(s)
    PROVE  LET t == SubSeq(s, k + 1, Len(s))
               gone == {s[i] : i \in 1 .. k}
           IN  /\ t \in Seq(S) /\ Distinct(t)
               /\ Members(t) = Members(s) \ gone
               /\ gone \subseteq Members(s)
<1> DEFINE t == SubSeq(s, k + 1, Len(s))
           gone == {s[i] : i \in 1 .. k}
<1>1. Len(s) \in Nat /\ DOMAIN s = 1 .. Len(s) /\ k \in Nat /\ k <= Len(s)
      /\ \A i \in 1 .. Len(s) : s[i] \in S
  BY LenProperties
<1>2. /\ t \in Seq(S) /\ Len(t) = Len(s) - k
      /\ \A i \in 1 .. Len(s) - k : t[i] = s[k + i]
  <2>1. \A i \in k + 1 .. Len(s) : s[i] \in S
    BY <1>1
  <2>2. /\ t \in Seq(S)
        /\ Len(t) = IF k + 1 <= Len(s) THEN Len(s) - (k + 1) + 1 ELSE 0
        /\ \A i \in 1 .. Len(s) - (k + 1) + 1 : t[i] = s[(k + 1) + i - 1]
    BY <1>1, <2>1, SubSeqProperties, k + 1 \in Int, Len(s) \in Int
  <2> HIDE DEF t
  <2>3. Len(s) - (k + 1) + 1 = Len(s) - k
    BY <1>1
  <2>4. Len(t) = Len(s) - k
    <3>1. CASE k + 1 <= Len(s)
      BY <2>2, <2>3, <3>1
    <3>2. CASE ~(k + 1 <= Len(s))
      <4> ASSUME NEW l \in Nat, NEW m \in Nat, m <= l, ~(m + 1 <= l)
          PROVE  l - m = 0
        OBVIOUS
      <4>1. Len(s) - k = 0
        BY <1>1, <3>2
      <4>2. Len(t) = 0
        BY <2>2, <3>2
      <4>. QED BY <4>1, <4>2
    <3>. QED BY <3>1, <3>2
  <2>5. ASSUME NEW i \in 1 .. Len(s) - k
        PROVE  t[i] = s[k + i]
    <3>1. (k + 1) + i - 1 = k + i
      BY <1>1
    <3>. QED BY <2>2, <2>3, <3>1
  <2>. QED BY <2>2, <2>4, <2>5
<1>3. DOMAIN t = 1 .. Len(s) - k
  BY <1>2, LenProperties
<1> HIDE DEF t
<1>4. Distinct(t)
  <2>1. ASSUME NEW i \in 1 .. Len(s) - k, NEW j \in 1 .. Len(s) - k,
               t[i] = t[j]
        PROVE  i = j
    <3>1. k + i \in DOMAIN s /\ k + j \in DOMAIN s
      BY <1>1
    <3>2. s[k + i] = s[k + j]
      BY <1>2, <2>1
    <3>3. k + i = k + j
      BY <3>1, <3>2 DEF Distinct
    <3>. QED BY <1>1, <3>3
  <2>. QED BY <1>3, <2>1 DEF Distinct
<1>5. gone \subseteq Members(s)
  BY <1>1 DEF Members
<1>6. Members(t) \subseteq Members(s) \ gone
  <2>1. ASSUME NEW i \in 1 .. Len(s) - k
        PROVE  t[i] \in Members(s) /\ t[i] \notin gone
    <3>1. k + i \in 1 .. Len(s) /\ t[i] = s[k + i]
      BY <1>1, <1>2
    <3>2. ASSUME NEW j \in 1 .. k
          PROVE  s[j] # s[k + i]
      <4>1. j \in DOMAIN s /\ k + i \in DOMAIN s /\ j # k + i
        BY <1>1, <3>1
      <4>. QED BY <4>1 DEF Distinct
    <3>. QED BY <1>1, <3>1, <3>2 DEF Members
  <2>. QED BY <1>3, <2>1 DEF Members
<1>7. Members(s) \ gone \subseteq Members(t)
  <2>1. ASSUME NEW i \in 1 .. Len(s), s[i] \notin gone
        PROVE  s[i] \in Members(t)
    <3>1. i - k \in 1 .. Len(s) - k
      BY <1>1, <2>1
    <3>2. t[i - k] = s[i]
      BY <1>1, <1>2, <3>1
    <3>. QED BY <1>3, <3>1, <3>2 DEF Members
  <2>. QED BY <1>1, <2>1 DEF Members
<1>. QED BY <1>2, <1>4, <1>5, <1>6, <1>7 DEF t

-----------------------------------------------------------------------------
(* Types.                                                                  *)

LEMMA Apart ==
    /\ None \notin Call /\ None \notin Session /\ Call \cap Session = {}
    /\ NoRow \notin Row /\ NoRow.session = None /\ ~NoRow.running
    /\ \A r \in Row \cup {NoRow} : r # NoRow <=> r.session \in Call
BY TreeAssumption DEF NoRow, Row

\* Only the owner, the texts, the log and the waiter need no more than this.
LEMMA AskTypes ==
    ASSUME Rosters, NEW c \in Call, NEW who \in Callers, Ask(c, who)
    PROVE  /\ who \in Caller
           /\ caller' \in [Call -> Caller]
           /\ asked' \in [Call -> [owner : Session, run : Call \cup {Tree}]]
<1>1. who \in Caller
  <2>1. CASE who = [path |-> Root, session |-> owner]
    BY <2>1 DEF Caller, Rosters, RosterAgrees, TypeOK
  <2>2. CASE \E d \in Call : /\ pc[d] = "task"
                             /\ who = [path |-> at[d], session |-> session[d]]
    <3>1. PICK d \in Call : /\ pc[d] = "task"
                            /\ who = [path |-> at[d], session |-> session[d]]
      BY <2>2
    <3>2. session[d] \in Call /\ at[d] \in Path \cup {Root}
      BY <3>1 DEF Rosters, RosterAgrees, TypeOK, Places, Stages, Running, Permitted
    <3>. QED BY <3>1, <3>2 DEF Caller
  <2>. QED BY <2>1, <2>2 DEF Callers
<1>2. TokenOf(who.path) \in Call \cup {Tree}
  BY <1>1 DEF TokenOf, Caller, Rosters, RosterAgrees, TypeOK, Tree
<1>. QED
  BY <1>1, <1>2 DEF Ask, Rosters, RosterAgrees, TypeOK

LEMMA SpawnTypes ==
    ASSUME Rosters, NEW c \in Call, NEW who \in Callers, Spawn(c, who)
    PROVE  TypeOK'
<1>1. Ask(c, who)
  BY DEF Spawn
<1>2. TypeOK
  BY DEF Rosters, RosterAgrees
<1>3. /\ caller' \in [Call -> Caller]
      /\ asked' \in [Call -> [owner : Session, run : Call \cup {Tree}]]
  BY <1>1, AskTypes
<1>4. pc' \in [Call -> Step]
  BY <1>2 DEF Spawn, Goto, Step, TypeOK
<1>5. /\ UNCHANGED <<owner, roster, restore, spawner, cancelled, log, waiter>>
      /\ UNCHANGED <<at, session, resuming, queue>>
  BY DEF Spawn, Ask
<1>. QED BY <1>2, <1>3, <1>4, <1>5 DEF TypeOK, roster, log, waiter

LEMMA FollowUpTypes ==
    ASSUME Rosters, NEW c \in Call, NEW who \in Callers, NEW p \in Path,
           FollowUp(c, who, p)
    PROVE  TypeOK'
<1>1. Ask(c, who)
  BY DEF FollowUp
<1>2. row[p].session \in Call
  BY Apart DEF FollowUp, Rosters, RosterAgrees, TypeOK
<1>3. pc' \in [Call -> Step]
  BY DEF FollowUp, Goto, Step, Answered, Rosters, RosterAgrees, TypeOK
<1>4. queue' \in [Call -> SUBSET Call]
  BY DEF FollowUp, Accepts, Rosters, RosterAgrees, TypeOK
<1>5. /\ at' \in [Call -> Path \cup {Root}]
      /\ session' \in [Call -> Call \cup {None}]
      /\ resuming' \subseteq Call
  <2>1. \/ UNCHANGED <<at, session, resuming>>
        \/ /\ at' = [at EXCEPT ![c] = p]
           /\ session' = [session EXCEPT ![c] = row[p].session]
           /\ resuming' = resuming \cup {c}
    BY DEF FollowUp
  <2>. QED BY <1>2, <2>1 DEF Rosters, RosterAgrees, TypeOK
<1>. QED
  BY <1>1, <1>3, <1>4, <1>5, AskTypes
  DEF Ask, Rosters, RosterAgrees, TypeOK, roster, log, waiter

LEMMA MessageTypes ==
    ASSUME Rosters, NEW c \in Call, NEW who \in Callers, NEW p \in Path,
           Message(c, who, p)
    PROVE  TypeOK'
<1>1. Ask(c, who)
  BY DEF Message
<1>2. pc' \in [Call -> Step]
  BY DEF Message, Goto, Step, Answered, Rosters, RosterAgrees, TypeOK
<1>3. queue' \in [Call -> SUBSET Call]
  BY DEF Message, Accepts, Rosters, RosterAgrees, TypeOK
<1>. QED
  BY <1>1, <1>2, <1>3, AskTypes
  DEF Message, Ask, Rosters, RosterAgrees, TypeOK, roster, log, waiter

-----------------------------------------------------------------------------
(* What the methods of the roster do to its tables.                        *)

\* RosterAgrees, but for the types.
Tables ==
    /\ \A p \in Path : live[p] # None <=> row[p].running
    /\ \A p \in reserved : row[p] = NoRow
    /\ Members(settled) = {p \in Path : row[p] # NoRow /\ ~row[p].running}
    /\ Distinct(settled)

RosterTypes ==
    /\ row \in [Path -> Row \cup {NoRow}]
    /\ live \in [Path -> Call \cup {None}]
    /\ settled \in Seq(Path)
    /\ reserved \subseteq Path
    /\ archived \in [Path -> Call \cup {None}]

LEMMA AgreeIsTables ==
    /\ RosterAgrees <=> TypeOK /\ Tables
    /\ TypeOK => RosterTypes
BY DEF RosterAgrees, Tables, Distinct, TypeOK, RosterTypes

LEMMA ArchiveTypes ==
    ASSUME RosterTypes, NEW paths, Archive(paths)
    PROVE  archived' \in [Path -> Call \cup {None}]
BY Apart DEF Archive, RosterTypes

LEMMA ResetIdleTables ==
    ASSUME RosterTypes, Tables, ResetIdle
    PROVE  RosterTypes' /\ Tables'
<1>1. archived' \in [Path -> Call \cup {None}]
  BY ArchiveTypes DEF ResetIdle
<1>2. row' = [p \in Path |-> NoRow] /\ settled' = <<>>
      /\ UNCHANGED <<live, reserved>> /\ \A p \in Path : live[p] = None
  BY DEF ResetIdle
<1>3. Members(settled') = {} /\ Distinct(settled')
  BY <1>2 DEF Members, Distinct
<1>4. RosterTypes'
  BY <1>1, <1>2 DEF RosterTypes
<1>5. Tables'
  BY <1>2, <1>3, Apart DEF Tables, RosterTypes
<1>. QED BY <1>4, <1>5

LEMMA ReviveTables ==
    ASSUME RosterTypes, Tables, NEW c \in Call, at[c] \in Path,
           Revivable(c), Revive(c)
    PROVE  RosterTypes' /\ Tables'
<1> DEFINE p == at[c]
<1>1. row[p] # NoRow /\ ~row[p].running /\ live[p] = None
  BY DEF Revivable, Tables
<1>2. /\ row' = [row EXCEPT ![p] = NoRow]
      /\ settled' = Remove(settled, p)
      /\ reserved' = reserved \cup {p}
      /\ UNCHANGED <<live, archived>>
  BY DEF Revive
<1>3. /\ settled' \in Seq(Path)
      /\ Members(settled') = Members(settled) \ {p}
      /\ Distinct(settled')
  BY <1>2, RemoveFacts DEF RosterTypes, Tables
<1> HIDE DEF p
<1>4. p \in Path
  BY DEF p
<1>5. RosterTypes'
  BY <1>2, <1>3, <1>4 DEF RosterTypes
<1>6. Tables'
  BY <1>1, <1>2, <1>3, <1>4, Apart DEF Tables, RosterTypes
<1>. QED BY <1>5, <1>6

LEMMA ClaimTables ==
    ASSUME RosterTypes, Tables, NEW c \in Call, NEW q \in Path \cup {Root},
           Claim(c, q)
    PROVE  /\ RosterTypes' /\ Tables'
           /\ \E p \in Path :
                 /\ p \notin reserved /\ row[p] = NoRow
                 /\ reserved' = reserved \cup {p}
                 /\ at' = [at EXCEPT ![c] = p]
<1>1. PICK n \in Free(q) :
          /\ reserved' = reserved \cup {Append(q, n)}
          /\ at' = [at EXCEPT ![c] = Append(q, n)]
          /\ UNCHANGED <<row, live, settled, archived>>
  BY DEF Claim
<1> DEFINE p == Append(q, n)
<1>2. n \in 1 .. NameTries /\ Len(q) < MaxDepth /\ ~Known(p)
  BY <1>1 DEF Free
<1>3. p \in Path
  BY <1>2, PathFacts
<1> HIDE DEF p
<1>4. p \notin reserved /\ row[p] = NoRow
  BY <1>2 DEF Known
<1>5. /\ reserved' = reserved \cup {p}
      /\ at' = [at EXCEPT ![c] = p]
  BY <1>1 DEF p
<1>6. RosterTypes'
  BY <1>1, <1>3, <1>5 DEF RosterTypes
<1>7. Tables'
  BY <1>1, <1>3, <1>4, <1>5 DEF Tables, Distinct
<1>. QED BY <1>3, <1>4, <1>5, <1>6, <1>7

LEMMA ReleaseTables ==
    ASSUME RosterTypes, Tables, NEW c \in Call, at[c] \in reserved,
           restore[c] \in Row \cup {NoRow}, ~restore[c].running,
           Release(c)
    PROVE  RosterTypes' /\ Tables'
<1> DEFINE p == at[c]
<1>1. p \in Path /\ row[p] = NoRow /\ ~row[p].running /\ live[p] = None
      /\ p \notin Members(settled)
  BY Apart DEF RosterTypes, Tables
<1>2. CASE restore[c] = NoRow
  <2>1. reserved' = reserved \ {p} /\ UNCHANGED <<row, settled, live, archived>>
    BY <1>2 DEF Release
  <2>. QED BY <2>1 DEF RosterTypes, Tables
<1>3. CASE restore[c] # NoRow
  <2>1. /\ row' = [row EXCEPT ![p] = restore[c]]
        /\ settled' = Append(Remove(settled, p), p)
        /\ reserved' = reserved \ {p}
        /\ UNCHANGED <<live, archived>>
    BY <1>3 DEF Release
  <2>2. /\ Remove(settled, p) \in Seq(Path)
        /\ Members(Remove(settled, p)) = Members(settled) \ {p}
        /\ Distinct(Remove(settled, p))
    BY RemoveFacts DEF RosterTypes, Tables
  <2>3. /\ settled' \in Seq(Path)
        /\ Members(settled') = Members(settled) \cup {p}
        /\ Distinct(settled')
    BY <1>1, <2>1, <2>2, AppendFacts
  <2> HIDE DEF p
  <2>4. RosterTypes'
    BY <1>1, <2>1, <2>3 DEF RosterTypes
  <2>5. Tables'
    BY <1>1, <1>3, <2>1, <2>3, Apart DEF Tables, RosterTypes
  <2>. QED BY <2>4, <2>5
<1>. QED BY <1>2, <1>3

LEMMA StartedTables ==
    ASSUME RosterTypes, Tables, NEW c \in Call, at[c] \in reserved,
           session[c] \in Call, Started(c)
    PROVE  RosterTypes' /\ Tables'
<1> DEFINE p == at[c]
           r == [session |-> session[c], running |-> TRUE]
<1>1. p \in Path /\ row[p] = NoRow /\ p \notin Members(settled)
  BY DEF RosterTypes, Tables
<1>2. /\ reserved' = reserved \ {p}
      /\ live' = [live EXCEPT ![p] = c]
      /\ row' = [row EXCEPT ![p] = r]
      /\ UNCHANGED <<settled, archived>>
  BY DEF Started
<1>3. r \in Row /\ r # NoRow /\ r.running
  BY Apart DEF Row
<1> HIDE DEF p, r
<1>4. RosterTypes'
  BY <1>1, <1>2, <1>3 DEF RosterTypes
<1>5. Tables'
  BY <1>1, <1>2, <1>3, Apart DEF Tables, RosterTypes
<1>. QED BY <1>4, <1>5

LEMMA RollbackTables ==
    ASSUME RosterTypes, Tables, NEW c \in Call, at[c] \in Path,
           live[at[c]] = c, session[c] \in Call, RollbackStart(c)
    PROVE  RosterTypes' /\ Tables'
<1> DEFINE p == at[c]
           r == [session |-> session[c], running |-> FALSE]
<1>1. /\ row[p].running /\ row[p] # NoRow /\ p \notin reserved
      /\ p \notin Members(settled)
  BY Apart DEF RosterTypes, Tables
<1>2. /\ Remove(settled, p) \in Seq(Path)
      /\ Members(Remove(settled, p)) = Members(settled) \ {p}
      /\ Distinct(Remove(settled, p))
  BY RemoveFacts DEF RosterTypes, Tables
<1>3. r \in Row /\ r # NoRow /\ ~r.running
  BY Apart DEF Row
<1>4. CASE c \in resuming
  <2>1. /\ row' = [row EXCEPT ![p] = r]
        /\ settled' = Append(Remove(settled, p), p)
        /\ live' = [live EXCEPT ![p] = None]
        /\ UNCHANGED <<reserved, archived>>
    BY <1>4 DEF RollbackStart
  <2>2. /\ settled' \in Seq(Path)
        /\ Members(settled') = Members(settled) \cup {p}
        /\ Distinct(settled')
    BY <1>1, <1>2, <2>1, AppendFacts
  <2> HIDE DEF p, r
  <2>3. p \in Path
    BY DEF p
  <2>4. RosterTypes'
    BY <1>3, <2>1, <2>2, <2>3 DEF RosterTypes
  <2>5. Tables'
    BY <1>1, <1>3, <2>1, <2>2, <2>3, Apart DEF Tables, RosterTypes
  <2>. QED BY <2>4, <2>5
<1>5. CASE c \notin resuming
  <2>1. /\ row' = [row EXCEPT ![p] = NoRow]
        /\ settled' = Remove(settled, p)
        /\ live' = [live EXCEPT ![p] = None]
        /\ UNCHANGED <<reserved, archived>>
    BY <1>5 DEF RollbackStart
  <2> HIDE DEF p
  <2>3. p \in Path
    BY DEF p
  <2>4. RosterTypes'
    BY <1>2, <2>1, <2>3 DEF RosterTypes
  <2>5. Tables'
    BY <1>1, <1>2, <2>1, <2>3, Apart DEF Tables, RosterTypes
  <2>. QED BY <2>4, <2>5
<1>. QED BY <1>4, <1>5

LEMMA SettledTables ==
    ASSUME RosterTypes, Tables, NEW c \in Call, at[c] \in Path,
           live[at[c]] = c, Settled(c)
    PROVE  /\ RosterTypes' /\ Tables'
           /\ live' = [live EXCEPT ![at[c]] = None]
           /\ UNCHANGED reserved
           /\ \A q \in Path :
                 \/ row'[q] = NoRow
                 \/ q # at[c] /\ row'[q] = row[q]
                 \/ q = at[c] /\ row'[q] = [row[q] EXCEPT !.running = FALSE]
<1> DEFINE p == at[c]
           after == Append(Remove(settled, p), p)
           over == IF Len(after) > MaxSettled THEN Len(after) - MaxSettled ELSE 0
           evicted == {after[i] : i \in 1 .. over}
           now == [row EXCEPT ![p].running = FALSE]
<1>1. /\ row[p].running /\ row[p] # NoRow /\ p \notin reserved
      /\ p \notin Members(settled) /\ row[p] \in Row
  BY Apart DEF RosterTypes, Tables
<1>2. /\ Remove(settled, p) \in Seq(Path)
      /\ Members(Remove(settled, p)) = Members(settled) \ {p}
      /\ Distinct(Remove(settled, p))
  BY RemoveFacts DEF RosterTypes, Tables
<1>3. /\ after \in Seq(Path) /\ Distinct(after)
      /\ Members(after) = Members(settled) \cup {p}
  BY <1>1, <1>2, AppendFacts
<1>4. /\ live' = [live EXCEPT ![p] = None]
      /\ settled' = SubSeq(after, over + 1, Len(after))
      /\ row' = [q \in Path |-> IF q \in evicted THEN NoRow ELSE now[q]]
      /\ Archive(evicted)
      /\ UNCHANGED reserved
  BY DEF Settled
<1>5. archived' \in [Path -> Call \cup {None}]
  BY <1>4, ArchiveTypes
<1> HIDE DEF after
<1>6. over \in 0 .. Len(after)
  BY <1>3, TreeAssumption, LenProperties
<1> HIDE DEF over
<1>7. /\ settled' \in Seq(Path) /\ Distinct(settled')
      /\ Members(settled') = Members(after) \ evicted
      /\ evicted \subseteq Members(after)
  BY <1>3, <1>4, <1>6, DropFacts
<1> HIDE DEF evicted
<1>8. /\ now \in [Path -> Row \cup {NoRow}]
      /\ \A q \in Path : q # p => now[q] = row[q]
      /\ now[p] = [row[p] EXCEPT !.running = FALSE]
      /\ now[p] \in Row /\ ~now[p].running
  BY <1>1 DEF RosterTypes, Row
<1> HIDE DEF now
<1>9. p \in Path
  OBVIOUS
<1> HIDE DEF p
<1>10. RosterTypes'
  BY <1>4, <1>5, <1>7, <1>8, <1>9 DEF RosterTypes
<1>11. Tables'
  <2>1. \A q \in Path : live'[q] # None <=> row'[q].running
    <3>1. ASSUME NEW q \in Path, q \in evicted
          PROVE  live'[q] = None /\ ~row'[q].running
      BY <1>3, <1>4, <1>7, <1>9, <3>1, Apart DEF Tables, RosterTypes
    <3>2. ASSUME NEW q \in Path, q \notin evicted
          PROVE  live'[q] # None <=> row'[q].running
      BY <1>4, <1>8, <1>9, <3>2 DEF Tables, RosterTypes
    <3>. QED BY <3>1, <3>2, Apart
  <2>2. \A q \in reserved' : row'[q] = NoRow
    BY <1>1, <1>4, <1>8 DEF Tables, RosterTypes
  <2>3. Members(settled') = {q \in Path : row'[q] # NoRow /\ ~row'[q].running}
    <3>1. ASSUME NEW q \in Path
          PROVE  q \in Members(settled') <=> row'[q] # NoRow /\ ~row'[q].running
      <4>1. CASE q \in evicted
        BY <1>4, <1>7, <4>1
      <4>2. CASE q \notin evicted
        <5>1. row'[q] = now[q] /\ (q \in Members(settled') <=> q \in Members(after))
          BY <1>4, <1>7, <4>2
        <5>2. CASE q = p
          BY <1>3, <1>8, <5>1, <5>2, Apart
        <5>3. CASE q # p
          BY <1>3, <1>8, <5>1, <5>3 DEF Tables
        <5>. QED BY <5>2, <5>3
      <4>. QED BY <4>1, <4>2
    <3>2. Members(settled') \subseteq Path
      BY <1>7, <1>3, <1>9 DEF Tables
    <3>. QED BY <3>1, <3>2
  <2>. QED BY <1>7, <2>1, <2>2, <2>3 DEF Tables
<1>12. ASSUME NEW q \in Path
       PROVE  \/ row'[q] = NoRow
              \/ q # p /\ row'[q] = row[q]
              \/ q = p /\ row'[q] = [row[q] EXCEPT !.running = FALSE]
  BY <1>4, <1>8
<1>. QED BY <1>4, <1>10, <1>11, <1>12 DEF p

-----------------------------------------------------------------------------
(* Sessions, reservations and handles.                                     *)

\* Past its admission a call stays past it, and keeps its address and session.
Settling ==
    \A s \in Call : pc[s] \notin {"new", "admit"} =>
        /\ pc'[s] \notin {"new", "admit"}
        /\ at'[s] = at[s] /\ session'[s] = session[s]

\* Steps that leave the roster alone.
LEMMA MovesKeepPlaces ==
    ASSUME TypeOK, Places, NEW c \in Call, NEW to \in Step,
           pc' = [pc EXCEPT ![c] = to],
           UNCHANGED <<row, live, reserved, at, session, resuming, restore>>,
           to \in Reserving => pc[c] \in Reserving,
           to \in Running => pc[c] \in Running,
           pc[c] \in Running => to \in Running \cup {"cutoff"},
           pc[c] # "cutoff", to # "new", to = "admit" => pc[c] = "new"
    PROVE  Places'
<1>1. pc' \in [Call -> Step] /\ pc'[c] = to
      /\ \A d \in Call : d # c => pc'[d] = pc[d]
  BY DEF TypeOK
<1>2. Settling
  BY <1>1 DEF Settling
<1>3. Stages'
  BY <1>1 DEF Places, Stages, Reserving, Running, Permitted
<1>4. Named'
  BY <1>2 DEF Places, Named, MadeAt, Settling
<1>5. Restores'
  <2>1. ASSUME NEW d \in Call, restore[d] # NoRow
        PROVE  ~restore'[d].running /\ MadeAt(restore[d].session, at[d])'
    <3>1. ~restore[d].running /\ MadeAt(restore[d].session, at[d])
      BY <2>1 DEF Places, Restores
    <3>. QED BY <1>2, <3>1 DEF MadeAt, Settling
  <2>2. ASSUME NEW d \in Call
        PROVE  /\ pc'[d] \in {"new", "admit"} => restore'[d] = NoRow
               /\ pc'[d] \in Reserving =>
                     (restore'[d] # NoRow <=> d \in resuming')
    BY <1>1 DEF Places, Restores, Reserving
  <2>. QED BY <2>1, <2>2 DEF Restores
<1>6. Reservations'
  BY <1>1 DEF Places, Reservations
<1>7. Handles'
  BY <1>1 DEF Places, Handles, TypeOK
<1>. QED BY <1>3, <1>4, <1>5, <1>6, <1>7 DEF Places

LEMMA NothingMoves ==
    ASSUME Places,
           UNCHANGED <<pc, row, live, reserved, at, session, resuming, restore>>
    PROVE  Places'
BY DEF Places, Stages, Named, MadeAt, Restores, Reservations, Handles

LEMMA ResetKeepsPlaces ==
    ASSUME TypeOK, Places, ResetIdle,
           UNCHANGED <<pc, at, session, resuming, restore>>
    PROVE  Places'
<1>1. row' = [p \in Path |-> NoRow] /\ UNCHANGED <<live, reserved>>
      /\ \A p \in Path : live[p] = None
  BY DEF ResetIdle
<1>. QED
  BY <1>1
  DEF Places, Stages, Named, MadeAt, Restores, Reservations, Handles

\* A follow-up to a settled agent.
LEMMA ResumeKeepsPlaces ==
    ASSUME TypeOK, Tables, Places, NEW c \in Call, NEW p \in Path,
           pc[c] = "new", row[p] # NoRow,
           pc' = [pc EXCEPT ![c] = "admit"],
           at' = [at EXCEPT ![c] = p],
           session' = [session EXCEPT ![c] = row[p].session],
           resuming' = resuming \cup {c},
           UNCHANGED <<row, live, reserved, restore>>
    PROVE  Places'
<1>1. /\ pc'[c] = "admit" /\ at'[c] = p /\ session'[c] = row[p].session
      /\ \A d \in Call : d # c =>
            pc'[d] = pc[d] /\ at'[d] = at[d] /\ session'[d] = session[d]
  BY DEF TypeOK
<1>2. Settling
  BY <1>1 DEF Settling
<1>3. row[p].session \in Call /\ row[p].session # None
  BY Apart DEF TypeOK
<1>4. Stages'
  BY <1>1, <1>3 DEF Places, Stages, Reserving, Running, Permitted
<1>5. Named'
  <2>1. ASSUME NEW d \in Call, session'[d] # None
        PROVE  MadeAt(session[d], at[d])'
    <3>1. MadeAt(session'[d], at'[d])
      BY <1>1, <2>1 DEF Places, Named
    <3>. QED BY <1>2, <3>1 DEF MadeAt, Settling
  <2>2. ASSUME NEW q \in Path, row'[q] # NoRow
        PROVE  MadeAt(row[q].session, q)'
    BY <1>2, <2>2 DEF Places, Named, MadeAt, Settling
  <2>. QED BY <2>1, <2>2 DEF Named
<1>6. Restores'
  <2>1. ASSUME NEW d \in Call, restore[d] # NoRow
        PROVE  ~restore'[d].running /\ MadeAt(restore[d].session, at[d])'
    <3>1. d # c
      BY <2>1 DEF Places, Restores
    <3>2. ~restore[d].running /\ MadeAt(restore[d].session, at'[d])
      BY <1>1, <2>1, <3>1 DEF Places, Restores
    <3>. QED BY <1>2, <3>2 DEF MadeAt, Settling
  <2>2. ASSUME NEW d \in Call
        PROVE  /\ pc'[d] \in {"new", "admit"} => restore'[d] = NoRow
               /\ pc'[d] \in Reserving =>
                     (restore'[d] # NoRow <=> d \in resuming')
    BY <1>1 DEF Places, Restores, Reserving
  <2>. QED BY <2>1, <2>2 DEF Restores
<1>7. Reservations'
  BY <1>1 DEF Places, Reservations, Reserving
<1>8. Handles'
  <2>1. ASSUME NEW d \in Call, pc'[d] \in Running
        PROVE  at'[d] \in Path /\ live'[at'[d]] = d
    <3>1. d # c
      BY <1>1, <2>1 DEF Running, Permitted
    <3>. QED BY <1>1, <2>1, <3>1 DEF Places, Handles
  <2>2. ASSUME NEW q \in Path, live'[q] # None
        PROVE  /\ at'[live'[q]] = q /\ pc'[live'[q]] \in Running \cup {"cutoff"}
               /\ row'[q].session = session'[live'[q]]
    <3>1. live[q] \in Call /\ pc[live[q]] \in Running \cup {"cutoff"}
      BY <2>2 DEF Places, Handles, TypeOK
    <3>2. live[q] # c
      BY <3>1 DEF Running, Permitted
    <3>. QED BY <1>1, <2>2, <3>1, <3>2 DEF Places, Handles
  <2>. QED BY <2>1, <2>2 DEF Handles
<1>. QED BY <1>4, <1>5, <1>6, <1>7, <1>8 DEF Places

LEMMA ReviveKeepsPlaces ==
    ASSUME TypeOK, Tables, Places, NEW c \in Call,
           pc[c] = "admit", c \in resuming, at[c] \in Path,
           Revivable(c), Revive(c),
           pc' = [pc EXCEPT ![c] = "permit"], UNCHANGED resuming
    PROVE  Places'
<1> DEFINE p == at[c]
<1>1. /\ row[p] # NoRow /\ ~row[p].running /\ live[p] = None
      /\ p \notin reserved
  BY DEF Revivable, Tables
<1>2. /\ row' = [row EXCEPT ![p] = NoRow]
      /\ restore' = [restore EXCEPT ![c] = row[p]]
      /\ reserved' = reserved \cup {p}
      /\ UNCHANGED <<live, archived, at, session>>
  BY DEF Revive
<1>3. p \in Path
  OBVIOUS
<1> HIDE DEF p
<1>4. /\ pc'[c] = "permit" /\ restore'[c] = row[p]
      /\ \A d \in Call : d # c => pc'[d] = pc[d] /\ restore'[d] = restore[d]
      /\ row'[p] = NoRow /\ \A q \in Path : q # p => row'[q] = row[q]
  BY <1>2, <1>3 DEF TypeOK
<1>5. Settling
  BY <1>2, <1>4 DEF Settling
<1>6. Stages'
  BY <1>2, <1>4 DEF Places, Stages, Reserving, Running, Permitted
<1>7. Named'
  <2>1. ASSUME NEW d \in Call, session'[d] # None
        PROVE  MadeAt(session[d], at[d])'
    BY <1>2, <1>5, <2>1 DEF Places, Named, MadeAt, Settling
  <2>2. ASSUME NEW q \in Path, row'[q] # NoRow
        PROVE  MadeAt(row[q].session, q)'
    <3>1. row'[q] = row[q]
      BY <1>4, <2>2
    <3>. QED BY <1>5, <2>2, <3>1 DEF Places, Named, MadeAt, Settling
  <2>. QED BY <2>1, <2>2 DEF Named
<1>8. Restores'
  <2>1. ASSUME NEW d \in Call, restore'[d] # NoRow
        PROVE  ~restore'[d].running /\ MadeAt(restore[d].session, at[d])'
    <3>1. ~restore'[d].running /\ MadeAt(restore'[d].session, at[d])
      <4>1. CASE d = c
        BY <1>1, <1>3, <1>4, <4>1 DEF Places, Named, p
      <4>2. CASE d # c
        BY <1>4, <2>1, <4>2 DEF Places, Restores
      <4>. QED BY <4>1, <4>2
    <3>. QED BY <1>2, <1>5, <3>1 DEF MadeAt, Settling
  <2>2. ASSUME NEW d \in Call
        PROVE  /\ pc'[d] \in {"new", "admit"} => restore'[d] = NoRow
               /\ pc'[d] \in Reserving =>
                     (restore'[d] # NoRow <=> d \in resuming')
    BY <1>1, <1>4 DEF Places, Restores, Reserving
  <2>. QED BY <2>1, <2>2 DEF Restores
<1>9. Reservations'
  <2>1. ASSUME NEW d \in Call, pc'[d] \in Reserving
        PROVE  at'[d] \in reserved'
    BY <1>2, <1>4, <2>1 DEF Places, Reservations, p
  <2>2. ASSUME NEW d \in Call, NEW e \in Call \ {d},
               pc'[d] \in Reserving, pc'[e] \in Reserving
        PROVE  at'[e] # at'[d]
    <3>1. CASE d = c
      <4>1. at[e] \in reserved
        BY <1>4, <2>2, <3>1 DEF Places, Reservations
      <4>. QED BY <1>1, <1>2, <3>1, <4>1 DEF p
    <3>2. CASE e = c
      <4>1. at[d] \in reserved
        BY <1>4, <2>2, <3>2 DEF Places, Reservations
      <4>. QED BY <1>1, <1>2, <3>2, <4>1 DEF p
    <3>3. CASE d # c /\ e # c
      BY <1>2, <1>4, <2>2, <3>3 DEF Places, Reservations
    <3>. QED BY <3>1, <3>2, <3>3
  <2>. QED BY <2>1, <2>2 DEF Reservations
<1>10. Handles'
  <2>1. ASSUME NEW d \in Call, pc'[d] \in Running
        PROVE  at'[d] \in Path /\ live'[at'[d]] = d
    <3>1. d # c
      BY <1>4, <2>1 DEF Running, Permitted
    <3>. QED BY <1>2, <1>4, <2>1, <3>1 DEF Places, Handles
  <2>2. ASSUME NEW q \in Path, live'[q] # None
        PROVE  /\ at'[live'[q]] = q /\ pc'[live'[q]] \in Running \cup {"cutoff"}
               /\ row'[q].session = session'[live'[q]]
    <3>1. live[q] \in Call /\ pc[live[q]] \in Running \cup {"cutoff"}
      BY <1>2, <2>2 DEF Places, Handles, TypeOK
    <3>2. live[q] # c /\ q # p
      BY <1>1, <1>2, <2>2, <3>1 DEF Running, Permitted
    <3>. QED BY <1>2, <1>4, <2>2, <3>1, <3>2 DEF Places, Handles
  <2>. QED BY <2>1, <2>2 DEF Handles
<1>. QED BY <1>6, <1>7, <1>8, <1>9, <1>10 DEF Places

LEMMA ClaimKeepsPlaces ==
    ASSUME TypeOK, Tables, Places, NEW c \in Call, NEW q \in Path \cup {Root},
           pc[c] = "admit", c \notin resuming, Claim(c, q),
           pc' = [pc EXCEPT ![c] = "permit"], UNCHANGED resuming
    PROVE  Places'
<1>1. PICK p \in Path : /\ p \notin reserved /\ row[p] = NoRow
                        /\ reserved' = reserved \cup {p}
                        /\ at' = [at EXCEPT ![c] = p]
  BY ClaimTables, AgreeIsTables
<1>2. /\ session' = [session EXCEPT ![c] = c]
      /\ UNCHANGED <<row, live, settled, archived, restore>>
  BY DEF Claim
<1>3. /\ pc'[c] = "permit" /\ at'[c] = p /\ session'[c] = c
      /\ \A d \in Call : d # c =>
            pc'[d] = pc[d] /\ at'[d] = at[d] /\ session'[d] = session[d]
  BY <1>1, <1>2 DEF TypeOK
<1>4. Settling
  BY <1>3 DEF Settling
<1>5. live[p] = None
  BY <1>1, Apart DEF Tables
<1>6. Stages'
  BY <1>3, Apart DEF Places, Stages, Reserving, Running, Permitted
<1>7. Named'
  <2>1. ASSUME NEW d \in Call, session'[d] # None
        PROVE  MadeAt(session[d], at[d])'
    <3>1. CASE d = c
      BY <1>3, <3>1 DEF MadeAt
    <3>2. CASE d # c
      <4>1. MadeAt(session'[d], at'[d])
        BY <1>3, <2>1, <3>2 DEF Places, Named
      <4>. QED BY <1>4, <4>1 DEF MadeAt, Settling
    <3>. QED BY <3>1, <3>2
  <2>2. ASSUME NEW x \in Path, row'[x] # NoRow
        PROVE  MadeAt(row[x].session, x)'
    BY <1>2, <1>4, <2>2 DEF Places, Named, MadeAt, Settling
  <2>. QED BY <2>1, <2>2 DEF Named
<1>8. Restores'
  <2>1. ASSUME NEW d \in Call, restore'[d] # NoRow
        PROVE  ~restore'[d].running /\ MadeAt(restore[d].session, at[d])'
    <3>1. d # c
      BY <1>2, <2>1 DEF Places, Restores
    <3>2. ~restore[d].running /\ MadeAt(restore[d].session, at'[d])
      BY <1>2, <1>3, <2>1, <3>1 DEF Places, Restores
    <3>. QED BY <1>2, <1>4, <3>2 DEF MadeAt, Settling
  <2>2. ASSUME NEW d \in Call
        PROVE  /\ pc'[d] \in {"new", "admit"} => restore'[d] = NoRow
               /\ pc'[d] \in Reserving =>
                     (restore'[d] # NoRow <=> d \in resuming')
    BY <1>2, <1>3 DEF Places, Restores, Reserving
  <2>. QED BY <2>1, <2>2 DEF Restores
<1>9. Reservations'
  <2>1. ASSUME NEW d \in Call, pc'[d] \in Reserving
        PROVE  at'[d] \in reserved'
    BY <1>1, <1>3, <2>1 DEF Places, Reservations
  <2>2. ASSUME NEW d \in Call, NEW e \in Call \ {d},
               pc'[d] \in Reserving, pc'[e] \in Reserving
        PROVE  at'[e] # at'[d]
    <3>1. CASE d = c
      <4>1. at[e] \in reserved
        BY <1>3, <2>2, <3>1 DEF Places, Reservations
      <4>. QED BY <1>1, <1>3, <3>1, <4>1
    <3>2. CASE e = c
      <4>1. at[d] \in reserved
        BY <1>3, <2>2, <3>2 DEF Places, Reservations
      <4>. QED BY <1>1, <1>3, <3>2, <4>1
    <3>3. CASE d # c /\ e # c
      BY <1>3, <2>2, <3>3 DEF Places, Reservations
    <3>. QED BY <3>1, <3>2, <3>3
  <2>. QED BY <2>1, <2>2 DEF Reservations
<1>10. Handles'
  <2>1. ASSUME NEW d \in Call, pc'[d] \in Running
        PROVE  at'[d] \in Path /\ live'[at'[d]] = d
    <3>1. d # c
      BY <1>3, <2>1 DEF Running, Permitted
    <3>. QED BY <1>2, <1>3, <2>1, <3>1 DEF Places, Handles
  <2>2. ASSUME NEW x \in Path, live'[x] # None
        PROVE  /\ at'[live'[x]] = x /\ pc'[live'[x]] \in Running \cup {"cutoff"}
               /\ row'[x].session = session'[live'[x]]
    <3>1. live[x] \in Call /\ pc[live[x]] \in Running \cup {"cutoff"}
      BY <1>2, <2>2 DEF Places, Handles, TypeOK
    <3>2. live[x] # c
      BY <3>1 DEF Running, Permitted
    <3>. QED BY <1>2, <1>3, <2>2, <3>1, <3>2 DEF Places, Handles
  <2>. QED BY <2>1, <2>2 DEF Handles
<1>. QED BY <1>6, <1>7, <1>8, <1>9, <1>10 DEF Places

LEMMA ReleaseKeepsPlaces ==
    ASSUME TypeOK, Tables, Places, NEW c \in Call,
           pc[c] \in Reserving, Release(c),
           pc' = [pc EXCEPT ![c] = "refused"],
           UNCHANGED <<at, session, resuming, restore>>
    PROVE  Places'
<1> DEFINE p == at[c]
<1>1. /\ reserved' = reserved \ {p} /\ UNCHANGED live
      /\ \/ UNCHANGED row
         \/ restore[c] # NoRow /\ row' = [row EXCEPT ![p] = restore[c]]
  BY DEF Release
<1>2. /\ p \in reserved /\ p \in Path /\ row[p] = NoRow /\ live[p] = None
      /\ \A d \in Call \ {c} : pc[d] \in Reserving => at[d] # p
  BY Apart DEF Places, Reservations, Tables, TypeOK
<1>3. restore[c] # NoRow => MadeAt(restore[c].session, p)
  BY DEF Places, Restores
<1> HIDE DEF p
<1>4. /\ pc'[c] = "refused"
      /\ \A d \in Call : d # c => pc'[d] = pc[d]
      /\ \A q \in Path : q # p => row'[q] = row[q]
      /\ row'[p] = NoRow \/ (row'[p] = restore[c] /\ restore[c] # NoRow)
  <2>1. /\ pc'[c] = "refused"
        /\ \A d \in Call : d # c => pc'[d] = pc[d]
    BY DEF TypeOK
  <2>2. /\ \A q \in Path : q # p => row'[q] = row[q]
        /\ row'[p] = NoRow \/ (row'[p] = restore[c] /\ restore[c] # NoRow)
    <3>1. CASE row' = row
      BY <1>2, <3>1
    <3>2. CASE restore[c] # NoRow /\ row' = [row EXCEPT ![p] = restore[c]]
      BY <1>2, <3>2 DEF TypeOK
    <3>. QED BY <1>1, <3>1, <3>2
  <2>. QED BY <2>1, <2>2
<1>5. Settling
  BY <1>4 DEF Settling
<1>6. Stages'
  BY <1>4 DEF Places, Stages, Reserving, Running, Permitted
<1>7. Named'
  <2>1. ASSUME NEW d \in Call, session'[d] # None
        PROVE  MadeAt(session[d], at[d])'
    BY <1>5, <2>1 DEF Places, Named, MadeAt, Settling
  <2>2. ASSUME NEW q \in Path, row'[q] # NoRow
        PROVE  MadeAt(row[q].session, q)'
    <3>1. MadeAt(row'[q].session, q)
      BY <1>3, <1>4, <2>2 DEF Places, Named
    <3>. QED BY <1>5, <3>1 DEF MadeAt, Settling
  <2>. QED BY <2>1, <2>2 DEF Named
<1>8. Restores'
  <2>1. ASSUME NEW d \in Call, restore'[d] # NoRow
        PROVE  ~restore'[d].running /\ MadeAt(restore[d].session, at[d])'
    BY <1>5, <2>1 DEF Places, Restores, MadeAt, Settling
  <2>2. ASSUME NEW d \in Call
        PROVE  /\ pc'[d] \in {"new", "admit"} => restore'[d] = NoRow
               /\ pc'[d] \in Reserving =>
                     (restore'[d] # NoRow <=> d \in resuming')
    BY <1>4 DEF Places, Restores, Reserving
  <2>. QED BY <2>1, <2>2 DEF Restores
<1>9. Reservations'
  <2>1. ASSUME NEW d \in Call, pc'[d] \in Reserving
        PROVE  d # c /\ pc[d] \in Reserving /\ at'[d] \in reserved'
    BY <1>1, <1>2, <1>4, <2>1 DEF Places, Reservations, Reserving
  <2>. QED BY <2>1 DEF Places, Reservations
<1>10. Handles'
  <2>1. ASSUME NEW d \in Call, pc'[d] \in Running
        PROVE  at'[d] \in Path /\ live'[at'[d]] = d
    <3>1. d # c
      BY <1>4, <2>1 DEF Running, Permitted
    <3>. QED BY <1>1, <1>4, <2>1, <3>1 DEF Places, Handles
  <2>2. ASSUME NEW q \in Path, live'[q] # None
        PROVE  /\ at'[live'[q]] = q /\ pc'[live'[q]] \in Running \cup {"cutoff"}
               /\ row'[q].session = session'[live'[q]]
    <3>1. live[q] \in Call /\ pc[live[q]] \in Running \cup {"cutoff"}
      BY <1>1, <2>2 DEF Places, Handles, TypeOK
    <3>2. live[q] # c /\ q # p
      BY <1>1, <1>2, <2>2, <3>1 DEF Running, Permitted, Reserving
    <3>. QED BY <1>1, <1>4, <2>2, <3>1, <3>2 DEF Places, Handles
  <2>. QED BY <2>1, <2>2 DEF Handles
<1>. QED BY <1>6, <1>7, <1>8, <1>9, <1>10 DEF Places

LEMMA StartedKeepsPlaces ==
    ASSUME TypeOK, Tables, Places, NEW c \in Call,
           pc[c] = "prepare", Started(c),
           pc' = [pc EXCEPT ![c] = "dispatch"],
           UNCHANGED <<at, session, resuming, restore>>
    PROVE  Places'
<1> DEFINE p == at[c]
<1>1. /\ reserved' = reserved \ {p}
      /\ live' = [live EXCEPT ![p] = c]
      /\ row' = [row EXCEPT ![p] = [session |-> session[c], running |-> TRUE]]
  BY DEF Started
<1>2. /\ p \in reserved /\ p \in Path /\ row[p] = NoRow /\ live[p] = None
      /\ \A d \in Call \ {c} : pc[d] \in Reserving => at[d] # p
  BY Apart DEF Places, Reservations, Tables, TypeOK, Reserving
<1>3. session[c] # None /\ MadeAt(session[c], p)
  BY DEF Places, Stages, Named, Reserving
<1> HIDE DEF p
<1>4. /\ pc'[c] = "dispatch"
      /\ \A d \in Call : d # c => pc'[d] = pc[d]
      /\ \A q \in Path : q # p => row'[q] = row[q] /\ live'[q] = live[q]
      /\ row'[p].session = session[c] /\ live'[p] = c
  BY <1>1, <1>2 DEF TypeOK
<1>5. Settling
  BY <1>4 DEF Settling
<1>6. Stages'
  BY <1>3, <1>4 DEF Places, Stages, Reserving, Running, Permitted
<1>7. Named'
  <2>1. ASSUME NEW d \in Call, session'[d] # None
        PROVE  MadeAt(session[d], at[d])'
    BY <1>5, <2>1 DEF Places, Named, MadeAt, Settling
  <2>2. ASSUME NEW q \in Path, row'[q] # NoRow
        PROVE  MadeAt(row[q].session, q)'
    <3>1. MadeAt(row'[q].session, q)
      BY <1>3, <1>4, <2>2 DEF Places, Named
    <3>. QED BY <1>5, <3>1 DEF MadeAt, Settling
  <2>. QED BY <2>1, <2>2 DEF Named
<1>8. Restores'
  <2>1. ASSUME NEW d \in Call, restore'[d] # NoRow
        PROVE  ~restore'[d].running /\ MadeAt(restore[d].session, at[d])'
    BY <1>5, <2>1 DEF Places, Restores, MadeAt, Settling
  <2>2. ASSUME NEW d \in Call
        PROVE  /\ pc'[d] \in {"new", "admit"} => restore'[d] = NoRow
               /\ pc'[d] \in Reserving =>
                     (restore'[d] # NoRow <=> d \in resuming')
    BY <1>4 DEF Places, Restores, Reserving
  <2>. QED BY <2>1, <2>2 DEF Restores
<1>9. Reservations'
  <2>1. ASSUME NEW d \in Call, pc'[d] \in Reserving
        PROVE  d # c /\ pc[d] \in Reserving /\ at'[d] \in reserved'
    BY <1>1, <1>2, <1>4, <2>1 DEF Places, Reservations, Reserving
  <2>. QED BY <2>1 DEF Places, Reservations
<1>10. Handles'
  <2>1. ASSUME NEW d \in Call, pc'[d] \in Running
        PROVE  at'[d] \in Path /\ live'[at'[d]] = d
    <3>1. CASE d = c
      BY <1>2, <1>4, <3>1 DEF p
    <3>2. CASE d # c
      <4>1. at[d] \in Path /\ live[at[d]] = d
        BY <1>4, <2>1, <3>2 DEF Places, Handles
      <4>2. at[d] # p
        BY <1>2, <4>1, Apart
      <4>. QED BY <1>4, <4>1, <4>2
    <3>. QED BY <3>1, <3>2
  <2>2. ASSUME NEW q \in Path, live'[q] # None
        PROVE  /\ at'[live'[q]] = q /\ pc'[live'[q]] \in Running \cup {"cutoff"}
               /\ row'[q].session = session'[live'[q]]
    <3>1. CASE q = p
      BY <1>4, <3>1 DEF p, Running, Permitted
    <3>2. CASE q # p
      <4>1. live[q] \in Call /\ pc[live[q]] \in Running \cup {"cutoff"}
            /\ live'[q] = live[q] /\ row'[q] = row[q]
        BY <1>4, <2>2, <3>2 DEF Places, Handles, TypeOK
      <4>2. live[q] # c
        BY <4>1 DEF Running, Permitted
      <4>. QED BY <1>4, <2>2, <4>1, <4>2 DEF Places, Handles
    <3>. QED BY <3>1, <3>2
  <2>. QED BY <2>1, <2>2 DEF Handles
<1>. QED BY <1>6, <1>7, <1>8, <1>9, <1>10 DEF Places

\* A run gives its handles back: rolled back, or settled.
LEMMA EndKeepsPlaces ==
    ASSUME TypeOK, Tables, Places, Tables', NEW c \in Call,
           NEW to \in {"rolledback", "notify"}, pc[c] \in Running,
           pc' = [pc EXCEPT ![c] = to],
           live' = [live EXCEPT ![at[c]] = None],
           \A q \in Path : \/ row'[q] = NoRow
                           \/ q # at[c] /\ row'[q] = row[q]
                           \/ q = at[c] /\ row'[q].session = session[c],
           UNCHANGED <<reserved, at, session, resuming, restore>>
    PROVE  Places'
<1> DEFINE p == at[c]
<1>1. p \in Path /\ live[p] = c /\ session[c] # None /\ MadeAt(session[c], p)
  BY DEF Places, Handles, Stages, Named
<1>2. /\ pc'[c] = to /\ \A d \in Call : d # c => pc'[d] = pc[d]
      /\ live'[p] = None /\ \A q \in Path : q # p => live'[q] = live[q]
  BY <1>1 DEF TypeOK
<1>3. ASSUME NEW q \in Path, row'[q] # NoRow
      PROVE  IF q = p THEN row'[q].session = session[c] ELSE row'[q] = row[q]
  BY <1>3
<1> HIDE DEF p
<1>5. Settling
  BY <1>2 DEF Settling
<1>6. Stages'
  BY <1>2 DEF Places, Stages, Reserving, Running, Permitted
<1>7. Named'
  <2>1. ASSUME NEW d \in Call, session'[d] # None
        PROVE  MadeAt(session[d], at[d])'
    BY <1>5, <2>1 DEF Places, Named, MadeAt, Settling
  <2>2. ASSUME NEW q \in Path, row'[q] # NoRow
        PROVE  MadeAt(row[q].session, q)'
    <3>1. MadeAt(row'[q].session, q)
      BY <1>1, <1>3, <2>2 DEF Places, Named
    <3>. QED BY <1>5, <3>1 DEF MadeAt, Settling
  <2>. QED BY <2>1, <2>2 DEF Named
<1>8. Restores'
  <2>1. ASSUME NEW d \in Call, restore'[d] # NoRow
        PROVE  ~restore'[d].running /\ MadeAt(restore[d].session, at[d])'
    BY <1>5, <2>1 DEF Places, Restores, MadeAt, Settling
  <2>2. ASSUME NEW d \in Call
        PROVE  /\ pc'[d] \in {"new", "admit"} => restore'[d] = NoRow
               /\ pc'[d] \in Reserving =>
                     (restore'[d] # NoRow <=> d \in resuming')
    BY <1>2 DEF Places, Restores, Reserving
  <2>. QED BY <2>1, <2>2 DEF Restores
<1>9. Reservations'
  <2>1. ASSUME NEW d \in Call, pc'[d] \in Reserving
        PROVE  d # c /\ pc[d] \in Reserving
    BY <1>2, <2>1 DEF Reserving
  <2>. QED BY <2>1 DEF Places, Reservations
<1>10. Handles'
  <2>1. ASSUME NEW d \in Call, pc'[d] \in Running
        PROVE  at'[d] \in Path /\ live'[at'[d]] = d
    <3>1. d # c
      BY <1>2, <2>1 DEF Running, Permitted
    <3>2. at[d] \in Path /\ live[at[d]] = d
      BY <1>2, <2>1, <3>1 DEF Places, Handles
    <3>. QED BY <1>1, <1>2, <3>1, <3>2
  <2>2. ASSUME NEW q \in Path, live'[q] # None
        PROVE  /\ at'[live'[q]] = q /\ pc'[live'[q]] \in Running \cup {"cutoff"}
               /\ row'[q].session = session'[live'[q]]
    <3>1. q # p /\ live'[q] = live[q] /\ live[q] \in Call /\ at[live[q]] = q
          /\ pc[live[q]] \in Running \cup {"cutoff"}
          /\ row[q].session = session[live[q]]
      BY <1>2, <2>2 DEF Places, Handles, TypeOK
    <3>2. live[q] # c
      BY <3>1 DEF p
    <3>3. row'[q] # NoRow
      BY <2>2, Apart DEF Tables
    <3>. QED BY <1>2, <1>3, <3>1, <3>2, <3>3
  <2>. QED BY <2>1, <2>2 DEF Handles
<1>. QED BY <1>6, <1>7, <1>8, <1>9, <1>10 DEF Places

-----------------------------------------------------------------------------
(* Each step keeps the roster.                                             *)

LEMMA TablesStay ==
    ASSUME Tables, UNCHANGED <<row, live, settled, reserved>>
    PROVE  Tables'
BY DEF Tables, Distinct, Members

\* A call moves on, and the roster is left alone.
LEMMA MovesKeepRosters ==
    ASSUME Rosters, TypeOK', NEW c \in Call, NEW to \in Step,
           pc' = [pc EXCEPT ![c] = to],
           UNCHANGED <<roster, at, session, resuming, restore>>,
           to \in Reserving => pc[c] \in Reserving,
           to \in Running => pc[c] \in Running,
           pc[c] \in Running => to \in Running \cup {"cutoff"},
           pc[c] # "cutoff", to # "new", to = "admit" => pc[c] = "new"
    PROVE  Rosters'
<1>1. TypeOK /\ Tables /\ Places
  BY AgreeIsTables DEF Rosters
<1>2. UNCHANGED <<row, live, settled, reserved>>
  BY DEF roster
<1>3. Places'
  BY <1>1, <1>2, MovesKeepPlaces
<1>4. Tables'
  BY <1>1, <1>2, TablesStay
<1>. QED BY <1>3, <1>4, AgreeIsTables DEF Rosters, RosterAgrees, Tables, Distinct

LEMMA StillKeepsRosters ==
    ASSUME Rosters, TypeOK',
           UNCHANGED <<roster, pc, at, session, resuming, restore>>
    PROVE  Rosters'
<1>1. Tables /\ Places
  BY AgreeIsTables DEF Rosters
<1>2. UNCHANGED <<row, live, settled, reserved>>
  BY DEF roster
<1>3. Places'
  BY <1>1, <1>2, NothingMoves
<1>4. Tables'
  BY <1>1, <1>2, TablesStay
<1>. QED BY <1>3, <1>4 DEF Rosters, RosterAgrees, Tables, Distinct

LEMMA AskKeepsRosters ==
    ASSUME Rosters, NEW c \in Call, NEW who \in Callers,
           \/ Spawn(c, who)
           \/ \E p \in Path : FollowUp(c, who, p) \/ Message(c, who, p)
    PROVE  Rosters'
<1>1. TypeOK /\ Tables /\ Places
  BY AgreeIsTables DEF Rosters
<1>2. pc[c] = "new" /\ UNCHANGED <<roster, restore>>
  BY DEF Spawn, FollowUp, Message, Ask
<1>3. CASE Spawn(c, who)
  <2>1. TypeOK'
    BY <1>3, SpawnTypes
  <2>2. pc' = [pc EXCEPT ![c] = "admit"] /\ UNCHANGED <<at, session, resuming>>
    BY <1>3 DEF Spawn, Goto
  <2>. QED
    BY <1>2, <2>1, <2>2, MovesKeepRosters
    DEF Step, Reserving, Running, Permitted
<1>4. ASSUME NEW p \in Path, FollowUp(c, who, p)
      PROVE  Rosters'
  <2>1. TypeOK'
    BY <1>4, FollowUpTypes
  <2>2. CASE ~row[p].running
    <3>1. /\ pc' = [pc EXCEPT ![c] = "admit"]
          /\ at' = [at EXCEPT ![c] = p]
          /\ session' = [session EXCEPT ![c] = row[p].session]
          /\ resuming' = resuming \cup {c}
          /\ row[p] # NoRow
      BY <1>4, <2>2 DEF FollowUp, Goto
    <3>2. UNCHANGED <<row, live, settled, reserved>>
      BY <1>2 DEF roster
    <3>3. Places'
      BY <1>1, <1>2, <3>1, <3>2, ResumeKeepsPlaces
    <3>4. Tables'
      BY <1>1, <3>2, TablesStay
    <3>. QED BY <2>1, <3>3, <3>4 DEF Rosters, RosterAgrees, Tables, Distinct
  <2>3. CASE row[p].running
    <3>1. PICK to \in {"delivered", "refused"} : pc' = [pc EXCEPT ![c] = to]
      BY <1>4, <2>3 DEF FollowUp, Goto
    <3>2. UNCHANGED <<at, session, resuming>>
      BY <1>4, <2>3 DEF FollowUp
    <3>. QED
      BY <1>2, <2>1, <3>1, <3>2, MovesKeepRosters
      DEF Step, Answered, Reserving, Running, Permitted
  <2>. QED
    BY <1>4, <2>2, <2>3 DEF FollowUp
<1>5. ASSUME NEW p \in Path, Message(c, who, p)
      PROVE  Rosters'
  <2>1. TypeOK'
    BY <1>5, MessageTypes
  <2>2. PICK to \in {"delivered", "refused"} : pc' = [pc EXCEPT ![c] = to]
    BY <1>5 DEF Message, Goto
  <2>3. UNCHANGED <<at, session, resuming>>
    BY <1>5 DEF Message
  <2>. QED
    BY <1>2, <2>1, <2>2, <2>3, MovesKeepRosters
    DEF Step, Answered, Reserving, Running, Permitted
<1>. QED BY <1>3, <1>4, <1>5

LEMMA HeirsFacts ==
    ASSUME NEW d \in Call \cup {Tree}
    PROVE  /\ d \in Heirs(d) /\ Heirs(d) \subseteq Call \cup {Tree}
           /\ \A e \in Call : spawner[e] \in Heirs(d) => e \in Heirs(d)
<1>1. d \in Heirs(d) /\ Heirs(d) \subseteq Call \cup {Tree}
  BY DEF Heirs
<1>2. ASSUME NEW e \in Call, spawner[e] \in Heirs(d),
             NEW S \in SUBSET (Call \cup {Tree}),
             d \in S, \A f \in Call : spawner[f] \in S => f \in S
      PROVE  e \in S
  <2>1. spawner[e] \in S
    BY <1>2 DEF Heirs
  <2>. QED BY <1>2, <2>1
<1>3. ASSUME NEW e \in Call, spawner[e] \in Heirs(d)
      PROVE  e \in Heirs(d)
  BY <1>2, <1>3 DEF Heirs
<1>. QED BY <1>1, <1>3

LEMMA CancelKeepsRosters ==
    ASSUME Rosters, NEW d \in Call \cup {Tree}, Cancel(d)
    PROVE  Rosters'
<1>1. cancelled' \subseteq Call \cup {Tree}
  BY HeirsFacts DEF Cancel, Rosters, RosterAgrees, TypeOK
<1>2. TypeOK'
  BY <1>1
  DEF Cancel, Rosters, RosterAgrees, TypeOK, roster, request, log, waiter
<1>. QED
  BY <1>2, StillKeepsRosters DEF Cancel, request

LEMMA AdoptKeepsRosters ==
    ASSUME Rosters, NEW o \in Session, Adopt(o)
    PROVE  Rosters'
<1>1. TypeOK /\ Tables /\ Places /\ RosterTypes
  BY AgreeIsTables DEF Rosters
<1>2. ResetIdle
  BY DEF Adopt
<1>3. RosterTypes' /\ Tables'
  BY <1>1, <1>2, ResetIdleTables
<1>4. Places'
  BY <1>1, <1>2, ResetKeepsPlaces DEF Adopt, request
<1>5. TypeOK'
  BY <1>1, <1>3 DEF Adopt, TypeOK, RosterTypes, request, log, waiter
<1>. QED BY <1>3, <1>4, <1>5 DEF Rosters, RosterAgrees, Tables, Distinct

\* What a step of one call may change besides its pc, and keep the types.
LEMMA TypesOfStep ==
    ASSUME TypeOK, RosterTypes', NEW c \in Call, NEW to \in Step,
           pc' = [pc EXCEPT ![c] = to],
           at' \in [Call -> Path \cup {Root}],
           session' \in [Call -> Call \cup {None}],
           restore' \in [Call -> Row \cup {NoRow}],
           spawner' \in [Call -> Call \cup {Tree}],
           cancelled' \subseteq Call \cup {Tree},
           queue' \in [Call -> SUBSET Call],
           logged' \subseteq Call, reported' \subseteq Call, lost' \subseteq Call,
           woken' \in BOOLEAN,
           UNCHANGED <<owner, caller, resuming, asked, wait, mine>>
    PROVE  TypeOK'
<1>1. pc' \in [Call -> Step]
  BY DEF TypeOK
<1>. QED BY <1>1 DEF TypeOK, RosterTypes

LEMMA AdmitKeepsRosters ==
    ASSUME Rosters, NEW c \in Call, Admit(c)
    PROVE  Rosters'
<1>1. TypeOK /\ Tables /\ Places /\ RosterTypes
  BY AgreeIsTables DEF Rosters
<1>2. pc[c] = "admit" /\ UNCHANGED <<owner, caller, resuming, asked, spawner,
                                    cancelled, queue, log, waiter>>
  BY DEF Admit
<1>3. CASE c \in resuming /\ Revivable(c) /\ Revive(c) /\ Goto(c, "permit")
  <2>1. at[c] \in Path
    BY <1>1, <1>2, <1>3 DEF Places, Stages, Named, MadeAt
  <2>2. pc' = [pc EXCEPT ![c] = "permit"]
    BY <1>3 DEF Goto
  <2>3. Places'
    BY <1>1, <1>2, <1>3, <2>1, <2>2, ReviveKeepsPlaces
  <2>4. RosterTypes' /\ Tables'
    BY <1>1, <1>3, <2>1, ReviveTables
  <2>5. restore' \in [Call -> Row \cup {NoRow}] /\ UNCHANGED <<at, session>>
    BY <1>1, <1>3, <2>1 DEF Revive, TypeOK
  <2>6. TypeOK'
    BY <1>1, <1>2, <2>2, <2>4, <2>5, TypesOfStep
    DEF TypeOK, Step, log, waiter
  <2>. QED BY <2>3, <2>4, <2>6 DEF Rosters, RosterAgrees, Tables, Distinct
<1>4. CASE c \notin resuming /\ Claim(c, caller[c].path) /\ Goto(c, "permit")
  <2>1. caller[c].path \in Path \cup {Root}
    BY <1>1 DEF TypeOK, Caller
  <2>2. pc' = [pc EXCEPT ![c] = "permit"]
    BY <1>4 DEF Goto
  <2>3. Places'
    BY <1>1, <1>2, <1>4, <2>1, <2>2, ClaimKeepsPlaces
  <2>4. RosterTypes' /\ Tables'
        /\ \E p \in Path : at' = [at EXCEPT ![c] = p]
    BY <1>1, <1>4, <2>1, ClaimTables
  <2>5. /\ at' \in [Call -> Path \cup {Root}]
        /\ session' \in [Call -> Call \cup {None}]
        /\ UNCHANGED restore
    <3>1. session' = [session EXCEPT ![c] = c] /\ UNCHANGED restore
      BY <1>4 DEF Claim
    <3>2. PICK p \in Path : at' = [at EXCEPT ![c] = p]
      BY <2>4
    <3>. QED BY <1>1, <3>1, <3>2 DEF TypeOK
  <2>6. TypeOK'
    BY <1>1, <1>2, <2>2, <2>4, <2>5, TypesOfStep
    DEF TypeOK, Step, log, waiter
  <2>. QED BY <2>3, <2>4, <2>6 DEF Rosters, RosterAgrees, Tables, Distinct
<1>5. CASE Goto(c, "refused") /\ UNCHANGED <<roster, at, session, restore>>
  <2>1. pc' = [pc EXCEPT ![c] = "refused"]
    BY <1>5 DEF Goto
  <2>2. RosterTypes'
    BY <1>1, <1>5 DEF RosterTypes, roster
  <2>3. TypeOK'
    BY <1>1, <1>2, <1>5, <2>1, <2>2, TypesOfStep
    DEF TypeOK, Step, Answered, log, waiter
  <2>. QED
    BY <1>2, <1>5, <2>1, <2>3, MovesKeepRosters
    DEF Step, Answered, Reserving, Running, Permitted
<1>. QED BY <1>3, <1>4, <1>5 DEF Admit

\* A reservation is dropped.
LEMMA ReleaseKeepsRosters ==
    ASSUME Rosters, NEW c \in Call, pc[c] \in Reserving, Release(c),
           Goto(c, "refused"),
           UNCHANGED <<owner, request, restore, spawner, cancelled, queue, log,
                       waiter>>
    PROVE  Rosters'
<1>1. TypeOK /\ Tables /\ Places /\ RosterTypes
  BY AgreeIsTables DEF Rosters
<1>2. pc' = [pc EXCEPT ![c] = "refused"]
  BY DEF Goto
<1>3. Places'
  BY <1>1, <1>2, ReleaseKeepsPlaces DEF request
<1>4. /\ at[c] \in reserved /\ restore[c] \in Row \cup {NoRow}
      /\ ~restore[c].running
  BY <1>1, Apart DEF Places, Reservations, Restores, TypeOK
<1>5. RosterTypes' /\ Tables'
  BY <1>1, <1>4, ReleaseTables
<1>6. TypeOK'
  BY <1>1, <1>2, <1>5, TypesOfStep
  DEF TypeOK, Step, Answered, request, log, waiter
<1>. QED BY <1>3, <1>5, <1>6 DEF Rosters, RosterAgrees, Tables, Distinct

LEMMA CommitKeepsRosters ==
    ASSUME Rosters, NEW c \in Call, Commit(c)
    PROVE  Rosters'
<1>1. TypeOK /\ Tables /\ Places /\ RosterTypes
  BY AgreeIsTables DEF Rosters
<1>2. /\ pc[c] = "prepare" /\ Started(c)
      /\ pc' = [pc EXCEPT ![c] = "dispatch"]
      /\ UNCHANGED <<owner, request, restore, queue, log, waiter>>
  BY DEF Commit, Goto
<1>3. Places'
  BY <1>1, <1>2, StartedKeepsPlaces DEF request
<1>4. at[c] \in reserved /\ session[c] \in Call
  BY <1>1, <1>2 DEF Places, Reservations, Stages, Reserving, TypeOK
<1>5. RosterTypes' /\ Tables'
  BY <1>1, <1>2, <1>4, StartedTables
<1>6. TokenOf(caller[c].path) \in Call \cup {Tree}
  BY <1>1 DEF TypeOK, Caller, TokenOf, Tree
<1>7. /\ spawner' \in [Call -> Call \cup {Tree}]
      /\ cancelled' \subseteq Call \cup {Tree}
  BY <1>1, <1>6 DEF Commit, TypeOK
<1>8. TypeOK'
  BY <1>1, <1>2, <1>5, <1>7, TypesOfStep
  DEF TypeOK, Step, Permitted, request, log, waiter
<1>. QED BY <1>3, <1>5, <1>8 DEF Rosters, RosterAgrees, Tables, Distinct

LEMMA FailDispatchKeepsRosters ==
    ASSUME Rosters, NEW c \in Call, FailDispatch(c)
    PROVE  Rosters'
<1>1. TypeOK /\ Tables /\ Places /\ RosterTypes
  BY AgreeIsTables DEF Rosters
<1>2. /\ pc[c] = "dispatch" /\ RollbackStart(c)
      /\ pc' = [pc EXCEPT ![c] = "rolledback"]
      /\ queue' = [queue EXCEPT ![c] = {}]
      /\ UNCHANGED <<owner, request, restore, spawner, cancelled, log, waiter>>
  BY DEF FailDispatch, Goto
<1>3. /\ at[c] \in Path /\ live[at[c]] = c /\ session[c] \in Call
      /\ pc[c] \in Running
  BY <1>1, <1>2 DEF Places, Handles, Stages, TypeOK, Running, Permitted
<1>4. RosterTypes' /\ Tables'
  BY <1>1, <1>2, <1>3, RollbackTables
<1>5. /\ live' = [live EXCEPT ![at[c]] = None] /\ UNCHANGED reserved
      /\ \A q \in Path : \/ row'[q] = NoRow
                         \/ q # at[c] /\ row'[q] = row[q]
                         \/ q = at[c] /\ row'[q].session = session[c]
  <2>1. \/ row' = [row EXCEPT ![at[c]] = NoRow]
        \/ row' = [row EXCEPT ![at[c]] = [session |-> session[c],
                                          running |-> FALSE]]
    BY <1>2 DEF RollbackStart
  <2>. QED BY <1>1, <1>2, <1>3, <2>1 DEF RollbackStart, TypeOK
<1>6. Places'
  BY <1>1, <1>2, <1>3, <1>4, <1>5, EndKeepsPlaces DEF request
<1>7. queue' \in [Call -> SUBSET Call]
  BY <1>1, <1>2 DEF TypeOK
<1>8. TypeOK'
  BY <1>1, <1>2, <1>4, <1>7, TypesOfStep
  DEF TypeOK, Step, Answered, request, log, waiter
<1>. QED BY <1>4, <1>6, <1>8 DEF Rosters, RosterAgrees, Tables, Distinct

LEMMA SettleKeepsRosters ==
    ASSUME Rosters, NEW c \in Call, Settle(c)
    PROVE  Rosters'
<1>1. TypeOK /\ Tables /\ Places /\ RosterTypes
  BY AgreeIsTables DEF Rosters
<1>2. /\ pc[c] = "settle" /\ Settled(c)
      /\ pc' = [pc EXCEPT ![c] = "notify"]
      /\ UNCHANGED <<owner, request, restore, spawner, cancelled, queue, log,
                     waiter>>
  BY DEF Settle, Goto
<1>3. /\ at[c] \in Path /\ live[at[c]] = c /\ pc[c] \in Running
      /\ row[at[c]].session = session[c]
  <2>1. at[c] \in Path /\ live[at[c]] = c /\ pc[c] \in Running
    BY <1>1, <1>2 DEF Places, Handles, Running, Permitted
  <2>2. \A q \in Path : live[q] # None => row[q].session = session[live[q]]
    BY <1>1 DEF Places, Handles
  <2>. QED BY <2>1, <2>2, Apart
<1>4. /\ RosterTypes' /\ Tables'
      /\ live' = [live EXCEPT ![at[c]] = None]
      /\ UNCHANGED reserved
      /\ \A q \in Path :
            \/ row'[q] = NoRow
            \/ q # at[c] /\ row'[q] = row[q]
            \/ q = at[c] /\ row'[q] = [row[q] EXCEPT !.running = FALSE]
  BY <1>1, <1>2, <1>3, SettledTables
<1>5. \A q \in Path : \/ row'[q] = NoRow
                      \/ q # at[c] /\ row'[q] = row[q]
                      \/ q = at[c] /\ row'[q].session = session[c]
  <2>1. [row[at[c]] EXCEPT !.running = FALSE].session = row[at[c]].session
    BY <1>1, <1>3 DEF TypeOK, Row, NoRow
  <2>. QED BY <1>3, <1>4, <2>1
<1>6. Places'
  BY <1>1, <1>2, <1>3, <1>4, <1>5, EndKeepsPlaces DEF request
<1>7. TypeOK'
  BY <1>1, <1>2, <1>4, TypesOfStep
  DEF TypeOK, Step, Permitted, request, log, waiter
<1>. QED BY <1>4, <1>6, <1>7 DEF Rosters, RosterAgrees, Tables, Distinct

\* A call moves on with the roster, or only its queue and the log, changed.
LEMMA RunKeepsRosters ==
    ASSUME Rosters, NEW c \in Call, NEW to \in Step,
           pc' = [pc EXCEPT ![c] = to],
           queue' \in [Call -> SUBSET Call],
           logged' \subseteq Call, reported' \subseteq Call, lost' \subseteq Call,
           woken' \in BOOLEAN,
           UNCHANGED <<owner, roster, request, restore, spawner, cancelled,
                       wait, mine>>,
           to \notin {"new", "admit"}, pc[c] # "cutoff",
           to \in Reserving => pc[c] \in Reserving,
           to \in Running => pc[c] \in Running,
           pc[c] \in Running => to \in Running \cup {"cutoff"}
    PROVE  Rosters'
<1>1. TypeOK /\ RosterTypes
  BY AgreeIsTables DEF Rosters
<1>2. RosterTypes' /\ UNCHANGED <<at, session, restore, spawner, cancelled>>
  BY <1>1 DEF RosterTypes, roster, request
<1>3. /\ at \in [Call -> Path \cup {Root}]
      /\ session \in [Call -> Call \cup {None}]
      /\ restore \in [Call -> Row \cup {NoRow}]
      /\ spawner \in [Call -> Call \cup {Tree}]
      /\ cancelled \subseteq Call \cup {Tree}
  BY <1>1 DEF TypeOK
<1>4. TypeOK'
  BY <1>1, <1>2, <1>3, TypesOfStep DEF request
<1>. QED BY <1>4, MovesKeepRosters DEF request

\* Of these, a run that goes on, ends or is cut off.
LEMMA RunMovesKeepRosters ==
    ASSUME Rosters, NEW c \in Call,
           NEW to \in {"task", "exit", "report", "tell", "settle", "cutoff"},
           pc[c] \in Running, pc' = [pc EXCEPT ![c] = to],
           queue' \in [Call -> SUBSET Call],
           logged' \subseteq Call, reported' \subseteq Call, lost' \subseteq Call,
           UNCHANGED <<owner, roster, request, restore, spawner, cancelled,
                       waiter>>
    PROVE  Rosters'
<1>1. /\ to \in Step /\ to \notin {"new", "admit"} /\ to \notin Reserving
      /\ to \in Running \cup {"cutoff"}
      /\ pc[c] # "cutoff"
  BY DEF Step, Answered, Permitted, Running, Reserving
<1>2. woken' \in BOOLEAN /\ UNCHANGED <<wait, mine>>
  BY DEF Rosters, RosterAgrees, TypeOK, waiter
<1>. QED BY <1>1, <1>2, RunKeepsRosters

LEMMA TakePermitKeepsRosters ==
    ASSUME Rosters, NEW c \in Call, TakePermit(c)
    PROVE  Rosters'
<1>1. /\ pc[c] = "permit" /\ pc[c] \in Reserving
      /\ UNCHANGED <<owner, request, restore, spawner, cancelled, queue, log,
                     waiter>>
  BY DEF TakePermit, Reserving
<1>2. TypeOK
  BY DEF Rosters, RosterAgrees
<1>3. CASE Goto(c, "prepare") /\ UNCHANGED roster
  <2>1. /\ "prepare" \in Step /\ "prepare" \notin Running
        /\ "prepare" \notin {"new", "admit"}
        /\ pc[c] # "cutoff" /\ pc[c] \notin Running
    BY <1>1 DEF Step, Permitted, Running
  <2>2. pc' = [pc EXCEPT ![c] = "prepare"]
    BY <1>3 DEF Goto
  <2>3. /\ queue' \in [Call -> SUBSET Call]
        /\ logged' \subseteq Call /\ reported' \subseteq Call
        /\ lost' \subseteq Call /\ woken' \in BOOLEAN
        /\ UNCHANGED <<wait, mine>>
    BY <1>1, <1>2 DEF TypeOK, log, waiter
  <2>. QED BY <1>1, <1>3, <2>1, <2>2, <2>3, RunKeepsRosters
<1>4. CASE Goto(c, "refused") /\ Release(c)
  BY <1>1, <1>4, ReleaseKeepsRosters
<1>. QED BY <1>3, <1>4 DEF TakePermit

LEMMA FailAdmissionKeepsRosters ==
    ASSUME Rosters, NEW c \in Call, FailAdmission(c)
    PROVE  Rosters'
BY ReleaseKeepsRosters DEF FailAdmission, Reserving

LEMMA StartKeepsRosters ==
    ASSUME Rosters, NEW c \in Call, StartTask(c) \/ CutOff(c)
    PROVE  Rosters'
<1>1. TypeOK
  BY DEF Rosters, RosterAgrees
<1>2. PICK to \in {"task", "cutoff"} : pc' = [pc EXCEPT ![c] = to]
  BY DEF StartTask, CutOff, Goto
<1>3. /\ pc[c] = "dispatch"
      /\ logged' \subseteq Call
      /\ queue' = queue \/ queue' = [queue EXCEPT ![c] = {}]
      /\ UNCHANGED <<owner, roster, request, restore, spawner, cancelled,
                     reported, lost, waiter>>
  BY <1>1 DEF StartTask, CutOff, TypeOK
<1>4. queue' \in [Call -> SUBSET Call]
  BY <1>1, <1>3 DEF TypeOK
<1>5. pc[c] \in Running /\ reported' \subseteq Call /\ lost' \subseteq Call
  BY <1>1, <1>3 DEF TypeOK, Permitted, Running
<1>. QED BY <1>2, <1>3, <1>4, <1>5, RunMovesKeepRosters

LEMMA EndKeepsRosters ==
    ASSUME Rosters, NEW c \in Call, EndRun(c) \/ CloseQueue(c)
    PROVE  Rosters'
<1>1. TypeOK
  BY DEF Rosters, RosterAgrees
<1>2. /\ pc[c] \in {"task", "exit"}
      /\ queue' = [queue EXCEPT ![c] = {}]
      /\ UNCHANGED <<owner, roster, request, restore, spawner, cancelled, log,
                     waiter>>
  BY DEF EndRun, CloseQueue
<1>3. PICK to \in {"exit", "report"} : pc' = [pc EXCEPT ![c] = to]
  BY DEF EndRun, CloseQueue, Goto
<1>4. queue' \in [Call -> SUBSET Call]
  BY <1>1, <1>2 DEF TypeOK
<1>5. /\ pc[c] \in Running
      /\ logged' \subseteq Call /\ reported' \subseteq Call
      /\ lost' \subseteq Call
  BY <1>1, <1>2 DEF TypeOK, log, Permitted, Running
<1>. QED BY <1>2, <1>3, <1>4, <1>5, RunMovesKeepRosters

LEMMA ReadKeepsRosters ==
    ASSUME Rosters, NEW c \in Call, ReadTexts(c)
    PROVE  Rosters'
<1>1. TypeOK
  BY DEF Rosters, RosterAgrees
<1>2. /\ queue' = [queue EXCEPT ![c] = {}]
      /\ UNCHANGED <<owner, roster, pc, request, restore, spawner, cancelled,
                     log, waiter>>
  BY DEF ReadTexts
<1>3. queue' \in [Call -> SUBSET Call]
  BY <1>1, <1>2 DEF TypeOK
<1>4. TypeOK'
  BY <1>1, <1>2, <1>3 DEF TypeOK, roster, request, log, waiter
<1>. QED BY <1>2, <1>4, StillKeepsRosters DEF request

LEMMA ReportKeepsRosters ==
    ASSUME Rosters, NEW c \in Call, Report(c)
    PROVE  Rosters'
<1>1. TypeOK
  BY DEF Rosters, RosterAgrees
<1>2. /\ pc[c] = "report"
      /\ pc' = [pc EXCEPT ![c] = "tell"]
      /\ UNCHANGED <<owner, roster, request, restore, spawner, cancelled, queue,
                     logged, waiter>>
  BY DEF Report, Goto
<1>3. reported' \subseteq Call /\ lost' \subseteq Call
  BY <1>1 DEF Report, TypeOK
<1>4. /\ pc[c] \in Running /\ logged' \subseteq Call
      /\ queue' \in [Call -> SUBSET Call]
  BY <1>1, <1>2 DEF TypeOK, Permitted, Running
<1>. QED BY <1>2, <1>3, <1>4, RunMovesKeepRosters

LEMMA TellKeepsRosters ==
    ASSUME Rosters, NEW c \in Call, Tell(c)
    PROVE  Rosters'
<1>1. TypeOK
  BY DEF Rosters, RosterAgrees
<1>2. /\ pc[c] = "tell"
      /\ pc' = [pc EXCEPT ![c] = "settle"]
      /\ UNCHANGED <<owner, roster, request, restore, spawner, cancelled, log,
                     waiter>>
      /\ \/ queue' = queue
         \/ \E d : queue' = [queue EXCEPT ![d] = @ \cup {c}]
  BY DEF Tell, Goto
<1>3. queue' \in [Call -> SUBSET Call]
  <2>1. CASE queue' = queue
    BY <1>1, <2>1 DEF TypeOK
  <2>2. ASSUME NEW d, queue' = [queue EXCEPT ![d] = @ \cup {c}]
        PROVE  queue' \in [Call -> SUBSET Call]
    BY <1>1, <2>2 DEF TypeOK
  <2>. QED BY <1>2, <2>1, <2>2
<1>4. /\ pc[c] \in Running
      /\ logged' \subseteq Call /\ reported' \subseteq Call
      /\ lost' \subseteq Call
  BY <1>1, <1>2 DEF TypeOK, log, Permitted, Running
<1>. QED BY <1>2, <1>3, <1>4, RunMovesKeepRosters

LEMMA NotifyKeepsRosters ==
    ASSUME Rosters, NEW c \in Call, NotifyWaiters(c)
    PROVE  Rosters'
<1>1. TypeOK
  BY DEF Rosters, RosterAgrees
<1>2. /\ pc[c] = "notify"
      /\ pc' = [pc EXCEPT ![c] = "done"]
      /\ UNCHANGED <<owner, roster, request, restore, spawner, cancelled, queue,
                     log, wait, mine>>
  BY DEF NotifyWaiters, Goto
<1>3. woken' \in BOOLEAN
  BY DEF NotifyWaiters
<1>4. /\ "done" \in Step /\ "done" \notin Reserving
      /\ "done" \notin Running /\ "done" \notin {"new", "admit"}
      /\ pc[c] # "cutoff" /\ pc[c] \notin Running
  BY <1>2 DEF Step, Answered, Permitted, Running, Reserving
<1>5. /\ queue' \in [Call -> SUBSET Call]
      /\ logged' \subseteq Call /\ reported' \subseteq Call
      /\ lost' \subseteq Call
  BY <1>1, <1>2 DEF TypeOK, log
<1>. QED BY <1>2, <1>3, <1>4, <1>5, RunKeepsRosters

Waiting == Wait \/ Enable \/ Look \/ Sleep \/ Wake \/ GiveUp \/ Waited

LEMMA WaitKeepsRosters ==
    ASSUME Rosters, Waiting
    PROVE  Rosters'
<1>1. TypeOK /\ \A p \in Path : row[p].running => row[p].session \in Call
  BY Apart DEF Rosters, RosterAgrees, TypeOK, Row
<1>2. WaitUnchanged
  BY DEF Waiting, Wait, Enable, Look, Sleep, Wake, GiveUp, Waited
<1>3. RunningSessions \subseteq Call
  BY <1>1 DEF RunningSessions
<1>4. /\ mine' \subseteq Call
      /\ wait' \in {"idle", "enable", "look", "looked", "asleep", "settled"}
      /\ woken' \in BOOLEAN
  BY <1>1, <1>3
  DEF Waiting, Wait, Enable, Look, Sleep, Wake, GiveUp, Waited, TypeOK
<1>5. TypeOK'
  BY <1>1, <1>2, <1>4 DEF TypeOK, WaitUnchanged, roster, request, log
<1>. QED BY <1>2, <1>5, StillKeepsRosters DEF WaitUnchanged, request

LEMMA StutterKeepsRosters ==
    ASSUME Rosters, UNCHANGED vars
    PROVE  Rosters'
<1>1. TypeOK'
  BY DEF Rosters, RosterAgrees, TypeOK, vars
<1>. QED BY <1>1, StillKeepsRosters DEF vars, roster

LEMMA RostersStep ==
    ASSUME Rosters, [Next]_vars
    PROVE  Rosters'
<1>1. CASE UNCHANGED vars
  BY <1>1, StutterKeepsRosters
<1>2. ASSUME NEW c \in Call, NEW who \in Callers,
             \/ Spawn(c, who)
             \/ \E p \in Path : FollowUp(c, who, p) \/ Message(c, who, p)
      PROVE  Rosters'
  BY <1>2, AskKeepsRosters
<1>3. ASSUME NEW d \in Call \cup {Tree}, Cancel(d)
      PROVE  Rosters'
  BY <1>3, CancelKeepsRosters
<1>4. ASSUME NEW o \in Session, Adopt(o)
      PROVE  Rosters'
  BY <1>4, AdoptKeepsRosters
<1>5. ASSUME NEW c \in Call, Progress(c) \/ CutOff(c)
      PROVE  Rosters'
  <2>1. CASE Admit(c)
    BY <2>1, AdmitKeepsRosters
  <2>2. CASE TakePermit(c)
    BY <2>2, TakePermitKeepsRosters
  <2>3. CASE FailAdmission(c)
    BY <2>3, FailAdmissionKeepsRosters
  <2>4. CASE Commit(c)
    BY <2>4, CommitKeepsRosters
  <2>5. CASE StartTask(c) \/ CutOff(c)
    BY <2>5, StartKeepsRosters
  <2>6. CASE FailDispatch(c)
    BY <2>6, FailDispatchKeepsRosters
  <2>7. CASE ReadTexts(c)
    BY <2>7, ReadKeepsRosters
  <2>8. CASE EndRun(c) \/ CloseQueue(c)
    BY <2>8, EndKeepsRosters
  <2>9. CASE Report(c)
    BY <2>9, ReportKeepsRosters
  <2>10. CASE Tell(c)
    BY <2>10, TellKeepsRosters
  <2>11. CASE Settle(c)
    BY <2>11, SettleKeepsRosters
  <2>12. CASE NotifyWaiters(c)
    BY <2>12, NotifyKeepsRosters
  <2>. QED
    BY <1>5, <2>1, <2>2, <2>3, <2>4, <2>5, <2>6, <2>7, <2>8, <2>9, <2>10,
       <2>11, <2>12
    DEF Progress
<1>6. CASE Waiting
  BY <1>6, WaitKeepsRosters
<1>. QED BY <1>1, <1>2, <1>3, <1>4, <1>5, <1>6 DEF Next, Waiting

-----------------------------------------------------------------------------
(* Who asked, and the tokens.                                              *)

\* The steps of a call after its admission, but for the commit.
Goes(c) ==
    \/ TakePermit(c) \/ FailAdmission(c) \/ StartTask(c) \/ FailDispatch(c)
    \/ CutOff(c) \/ ReadTexts(c) \/ EndRun(c) \/ CloseQueue(c)
    \/ Report(c) \/ Tell(c) \/ Settle(c) \/ NotifyWaiters(c)

LEMMA HopsOfGoes ==
    ASSUME NEW c \in Call, Goes(c)
    PROVE  /\ UNCHANGED <<owner, request, spawner, cancelled>>
           /\ \/ UNCHANGED pc
              \/ \E to : /\ pc' = [pc EXCEPT ![c] = to]
                         /\ <<pc[c], to>> \in
                               {<<"permit", "prepare">>, <<"permit", "refused">>,
                                <<"prepare", "refused">>, <<"dispatch", "task">>,
                                <<"dispatch", "rolledback">>,
                                <<"dispatch", "cutoff">>, <<"task", "exit">>,
                                <<"exit", "report">>, <<"report", "tell">>,
                                <<"tell", "settle">>, <<"settle", "notify">>,
                                <<"notify", "done">>}
                         /\ pc[c] = "task" => ~Awaiting(c)
<1>1. UNCHANGED <<owner, request, spawner, cancelled>>
  BY DEF Goes, TakePermit, FailAdmission, StartTask, FailDispatch, CutOff,
         ReadTexts, EndRun, CloseQueue, Report, Tell, Settle, NotifyWaiters
<1>2. CASE ReadTexts(c)
  BY <1>1, <1>2 DEF ReadTexts
<1>3. CASE TakePermit(c) \/ FailAdmission(c)
  BY <1>1, <1>3 DEF TakePermit, FailAdmission, Goto
<1>4. CASE StartTask(c) \/ FailDispatch(c) \/ CutOff(c)
  BY <1>1, <1>4 DEF StartTask, FailDispatch, CutOff, Goto
<1>5. CASE EndRun(c) \/ CloseQueue(c) \/ Report(c)
  BY <1>1, <1>5 DEF EndRun, CloseQueue, Report, Goto
<1>6. CASE Tell(c) \/ Settle(c) \/ NotifyWaiters(c)
  BY <1>1, <1>6 DEF Tell, Settle, NotifyWaiters, Goto
<1>. QED BY <1>2, <1>3, <1>4, <1>5, <1>6 DEF Goes

LEMMA GoesFacts ==
    ASSUME TypeOK, NEW c \in Call, Goes(c), NEW d \in Call
    PROVE  /\ pc'[d] \in Pending => pc[d] \in Pending
           /\ pc'[d] \in Executing => pc[d] \in Executing
           /\ pc'[d] \in Running => pc[d] \in Running
           /\ pc'[d] \in Early => pc[d] \in Early
           /\ pc[d] = "task" => pc'[d] = "task" \/ ~Awaiting(d)
<1>1. CASE UNCHANGED pc
  BY <1>1
<1>2. ASSUME NEW to, pc' = [pc EXCEPT ![c] = to],
             <<pc[c], to>> \in
               {<<"permit", "prepare">>, <<"permit", "refused">>,
                <<"prepare", "refused">>, <<"dispatch", "task">>,
                <<"dispatch", "rolledback">>,
                <<"dispatch", "cutoff">>, <<"task", "exit">>,
                <<"exit", "report">>, <<"report", "tell">>,
                <<"tell", "settle">>, <<"settle", "notify">>,
                <<"notify", "done">>},
             pc[c] = "task" => ~Awaiting(c)
      PROVE  /\ pc'[d] \in Pending => pc[d] \in Pending
             /\ pc'[d] \in Executing => pc[d] \in Executing
             /\ pc'[d] \in Running => pc[d] \in Running
             /\ pc'[d] \in Early => pc[d] \in Early
             /\ pc[d] = "task" => pc'[d] = "task" \/ ~Awaiting(d)
  <2>1. CASE d # c
    BY <1>2, <2>1 DEF TypeOK
  <2>2. CASE d = c
    <3>1. pc'[d] = to
      BY <1>2, <2>2 DEF TypeOK
    <3>. QED
      BY <1>2, <2>2, <3>1
      DEF Pending, Executing, Running, Permitted, Early
  <2>. QED BY <2>1, <2>2
<1>. QED BY <1>1, <1>2, HopsOfGoes

LEMMA GoesLive ==
    ASSUME TypeOK, NEW c \in Call, Goes(c)
    PROVE  \A p \in Path : live'[p] \in {live[p], None}
<1>1. \/ live' = live
      \/ live' = [live EXCEPT ![at[c]] = None]
  BY DEF Goes, TakePermit, FailAdmission, StartTask, FailDispatch, CutOff,
         ReadTexts, EndRun, CloseQueue, Report, Tell, Settle, NotifyWaiters,
         Release, RollbackStart, Settled, roster
<1>. QED BY <1>1 DEF TypeOK

\* Nobody asks, and no run ends that a call of its awaits.
LEMMA StillAsked ==
    ASSUME Askers, UNCHANGED <<caller, asked>>,
           \A d \in Call :
              /\ pc'[d] \in Pending => pc[d] \in Pending
              /\ pc'[d] \in Early => pc[d] \in Early
              /\ pc[d] = "task" =>
                    /\ pc'[d] = "task" \/ ~Awaiting(d)
                    /\ at'[d] = at[d] /\ session'[d] = session[d]
    PROVE  Askers'
<1>1. ASSUME NEW c \in Call, pc'[c] \in Pending, caller[c].path # Root
      PROVE  /\ asked[c].run \in Call
             /\ pc'[asked[c].run] = "task"
             /\ caller[c] = [path |-> at'[asked[c].run],
                             session |-> session'[asked[c].run]]
             /\ asked[c].owner = asked[asked[c].run].owner
  <2>1. /\ pc[c] \in Pending
        /\ asked[c].run \in Call /\ pc[asked[c].run] = "task"
        /\ caller[c] = [path |-> at[asked[c].run],
                        session |-> session[asked[c].run]]
        /\ asked[c].owner = asked[asked[c].run].owner
    BY <1>1 DEF Askers
  <2>2. Awaiting(asked[c].run)
    BY <2>1 DEF Awaiting, Pending
  <2>. QED BY <2>1, <2>2
<1>2. ASSUME NEW c \in Call
      PROVE  /\ caller[c].path = Root =>
                   asked[c].run = Tree /\ caller[c].session = asked[c].owner
             /\ asked[c].run \in Call => pc'[asked[c].run] \notin Early
  BY DEF Askers
<1>. QED BY <1>1, <1>2 DEF Askers

\* The run a call of an agent comes from holds the agent's handles.
LEMMA AskerFacts ==
    ASSUME Rosters, Askers, OneOwnerTree, NEW c \in Call, pc[c] \in Pending
    PROVE  /\ TokenOf(caller[c].path) = asked[c].run
           /\ caller[c].path # Root => asked[c].owner = owner
<1>1. CASE caller[c].path = Root
  BY <1>1 DEF Askers, TokenOf
<1>2. CASE caller[c].path # Root
  <2>1. PICK e \in Call : /\ e = asked[c].run /\ pc[e] = "task"
                          /\ caller[c].path = at[e]
                          /\ asked[c].owner = asked[e].owner
    <3>1. /\ asked[c].run \in Call
          /\ pc[asked[c].run] = "task"
          /\ caller[c] = [path |-> at[asked[c].run],
                          session |-> session[asked[c].run]]
          /\ asked[c].owner = asked[asked[c].run].owner
      BY <1>2 DEF Askers
    <3>2. caller[c].path = at[asked[c].run]
      BY <3>1
    <3>. QED BY <3>1, <3>2
  <2>2. live[at[e]] = e
    BY <2>1 DEF Rosters, Places, Handles, Running, Permitted
  <2>3. asked[e].owner = owner
    BY <2>1 DEF OneOwnerTree, Executing, Running, Permitted
  <2>. QED BY <1>2, <2>1, <2>2, <2>3 DEF TokenOf
<1>. QED BY <1>1, <1>2

\* A new call.
AskMoves(c, who) ==
    /\ pc[c] = "new"
    /\ \E to \in {"admit", "delivered", "refused"} : pc' = [pc EXCEPT ![c] = to]
    /\ caller' = [caller EXCEPT ![c] = who]
    /\ asked' = [asked EXCEPT ![c] = [owner |-> owner,
                                     run |-> TokenOf(who.path)]]
    /\ at' = at \/ \E p : at' = [at EXCEPT ![c] = p]
    /\ session' = session \/ \E s : session' = [session EXCEPT ![c] = s]
    /\ resuming \subseteq resuming'
    /\ UNCHANGED <<owner, roster, spawner, cancelled, log, waiter>>

LEMMA AsksMove ==
    ASSUME NEW c \in Call, NEW who \in Callers,
           \/ Spawn(c, who)
           \/ \E p \in Path : FollowUp(c, who, p) \/ Message(c, who, p)
    PROVE  AskMoves(c, who)
<1>1. Ask(c, who)
  BY DEF Spawn, FollowUp, Message
<1>2. CASE Spawn(c, who)
  BY <1>1, <1>2 DEF Spawn, Ask, AskMoves, Goto
<1>3. ASSUME NEW p \in Path, FollowUp(c, who, p)
      PROVE  AskMoves(c, who)
  BY <1>1, <1>3 DEF FollowUp, Ask, AskMoves, Goto
<1>4. ASSUME NEW p \in Path, Message(c, who, p)
      PROVE  AskMoves(c, who)
  BY <1>1, <1>4 DEF Message, Ask, AskMoves, Goto
<1>. QED BY <1>2, <1>3, <1>4

LEMMA AskKeepsAskers ==
    ASSUME Rosters, Askers, OneOwnerTree, NEW c \in Call, NEW who \in Callers,
           AskMoves(c, who)
    PROVE  Askers'
<1>1. TypeOK
  BY DEF Rosters, RosterAgrees
<1>2. \A d \in Call \ {c} :
         /\ pc'[d] = pc[d] /\ at'[d] = at[d] /\ session'[d] = session[d]
         /\ caller'[d] = caller[d] /\ asked'[d] = asked[d]
  BY <1>1 DEF AskMoves, TypeOK
<1>3. /\ caller'[c] = who /\ asked'[c].owner = owner
      /\ asked'[c].run = TokenOf(who.path)
      /\ pc[c] = "new" /\ pc'[c] # "new"
  BY <1>1 DEF AskMoves, TypeOK
<1>4. ASSUME NEW d \in Call, pc'[d] \in Early \ {"admit"}
      PROVE  d # c /\ pc[d] \in Early
  BY <1>1, <1>2, <1>3, <1>4 DEF AskMoves, Early, TypeOK
<1>5. ASSUME NEW d \in Call, d # c
      PROVE  /\ caller'[d].path = Root =>
                   asked'[d].run = Tree /\ caller'[d].session = asked'[d].owner
             /\ asked'[d].run \in Call => pc'[asked'[d].run] \notin Early
             /\ pc'[d] \in Pending /\ caller'[d].path # Root =>
                   /\ asked'[d].run \in Call
                   /\ pc'[asked'[d].run] = "task"
                   /\ caller'[d] = [path |-> at'[asked'[d].run],
                                    session |-> session'[asked'[d].run]]
                   /\ asked'[d].owner = asked'[asked'[d].run].owner
  <2>1. /\ caller[d].path = Root =>
              asked[d].run = Tree /\ caller[d].session = asked[d].owner
        /\ asked[d].run \in Call => pc[asked[d].run] \notin Early
        /\ pc[d] \in Pending /\ caller[d].path # Root =>
              /\ asked[d].run \in Call
              /\ pc[asked[d].run] = "task"
              /\ caller[d] = [path |-> at[asked[d].run],
                              session |-> session[asked[d].run]]
              /\ asked[d].owner = asked[asked[d].run].owner
    BY DEF Askers
  <2>2. asked[d].run \in Call => asked[d].run # c
    BY <1>3, <2>1 DEF Early
  <2>. QED BY <1>2, <1>5, <2>1, <2>2
<1>6. CASE who = [path |-> Root, session |-> owner]
  <2>1. who.path = Root /\ who.session = owner /\ TokenOf(Root) = Tree
    BY <1>6 DEF TokenOf
  <2>2. Tree \notin Call
    BY Apart DEF Tree
  <2>3. /\ caller'[c].path = Root /\ caller'[c].session = asked'[c].owner
        /\ asked'[c].run = Tree
    BY <1>3, <2>1
  <2>4. ASSUME NEW d \in Call, d = c
        PROVE  /\ caller'[d].path = Root
               /\ asked'[d].run = Tree /\ caller'[d].session = asked'[d].owner
    BY <2>3, <2>4
  <2>5. ASSUME NEW d \in Call
        PROVE  /\ caller'[d].path = Root =>
                     /\ asked'[d].run = Tree
                     /\ caller'[d].session = asked'[d].owner
               /\ asked'[d].run \in Call => pc'[asked'[d].run] \notin Early
               /\ pc'[d] \in Pending /\ caller'[d].path # Root =>
                     /\ asked'[d].run \in Call
                     /\ pc'[asked'[d].run] = "task"
                     /\ caller'[d] = [path |-> at'[asked'[d].run],
                                      session |-> session'[asked'[d].run]]
                     /\ asked'[d].owner = asked'[asked'[d].run].owner
    <3>1. CASE d = c
      BY <2>2, <2>4, <3>1
    <3>2. CASE d # c
      BY <1>5, <3>2
    <3>. QED BY <3>1, <3>2
  <2>. QED BY <2>5 DEF Askers
<1>7. ASSUME NEW e \in Call, pc[e] = "task",
             who = [path |-> at[e], session |-> session[e]]
      PROVE  Askers'
  <2>1. at[e] \in Path /\ live[at[e]] = e
    BY <1>7 DEF Rosters, Places, Handles, Running, Permitted
  <2>2. at[e] # Root /\ TokenOf(at[e]) = e
    BY <2>1, PathFacts DEF TokenOf
  <2>3. asked[e].owner = owner
    BY <1>7 DEF OneOwnerTree, Executing, Running, Permitted
  <2>4. e # c /\ pc'[e] = "task" /\ "task" \notin Early
    BY <1>2, <1>3, <1>7 DEF Early
  <2>5. who.path = at[e]
    BY <1>7
  <2>6. /\ asked'[c].run = e /\ pc'[asked'[c].run] = "task"
        /\ caller'[c].path # Root
        /\ caller'[c] = [path |-> at'[asked'[c].run],
                         session |-> session'[asked'[c].run]]
        /\ asked'[c].owner = asked'[asked'[c].run].owner
    BY <1>2, <1>3, <1>7, <2>2, <2>3, <2>4, <2>5
  <2>7. ASSUME NEW d \in Call, d = c
        PROVE  /\ caller'[d].path # Root
               /\ asked'[d].run \in Call /\ pc'[asked'[d].run] \notin Early
               /\ pc'[asked'[d].run] = "task"
               /\ caller'[d] = [path |-> at'[asked'[d].run],
                                session |-> session'[asked'[d].run]]
               /\ asked'[d].owner = asked'[asked'[d].run].owner
    BY <2>4, <2>6, <2>7
  <2>. QED BY <1>5, <2>7 DEF Askers
<1>. QED BY <1>6, <1>7 DEF Callers

LEMMA AskKeepsOwner ==
    ASSUME Rosters, OneOwnerTree, NEW c \in Call, NEW who, AskMoves(c, who)
    PROVE  OneOwnerTree'
<1>1. /\ TypeOK /\ pc[c] = "new" /\ UNCHANGED <<owner, live>>
      /\ pc'[c] \in {"admit", "delivered", "refused"}
      /\ \A d \in Call \ {c} : pc'[d] = pc[d] /\ asked'[d] = asked[d]
  BY DEF Rosters, RosterAgrees, TypeOK, AskMoves, roster
<1>2. \A p \in Path : live[p] # c
  BY <1>1, Apart DEF Rosters, Places, Handles, Running, Permitted
<1>3. pc'[c] \notin Executing
  BY <1>1 DEF Executing, Running, Permitted
<1>. QED BY <1>1, <1>2, <1>3 DEF OneOwnerTree

\* No run is added under the owner.
LEMMA StillOwned ==
    ASSUME OneOwnerTree, UNCHANGED <<owner, asked>>,
           \A d \in Call : pc'[d] \in Executing => pc[d] \in Executing,
           \A p \in Path : live'[p] \in {live[p], None}
    PROVE  OneOwnerTree'
<1>1. ASSUME NEW d \in Call, pc'[d] \in Executing \/ \E p \in Path : live'[p] = d
      PROVE  asked[d].owner = owner
  BY <1>1, Apart DEF OneOwnerTree
<1>. QED BY <1>1 DEF OneOwnerTree

LEMMA StillTokens ==
    ASSUME Tokens, UNCHANGED <<spawner, cancelled>>,
           \A d \in Call : pc'[d] \in Running =>
              pc[d] \in Running /\ asked'[d] = asked[d]
    PROVE  Tokens'
BY DEF Tokens

LEMMA AskKeepsTokens ==
    ASSUME Rosters, Tokens, NEW c \in Call, NEW who, AskMoves(c, who)
    PROVE  Tokens'
<1>1. ASSUME NEW d \in Call, pc'[d] \in Running
      PROVE  pc[d] \in Running /\ asked'[d] = asked[d]
  <2>1. TypeOK
    BY DEF Rosters, RosterAgrees
  <2>2. d # c
    BY <1>1, <2>1 DEF AskMoves, TypeOK, Running, Permitted
  <2>. QED BY <1>1, <2>1, <2>2 DEF AskMoves, TypeOK
<1>. QED BY <1>1, StillTokens DEF AskMoves

\* Who is admitted asked for the owner of the tree.
LEMMA AdmitKeepsOwner ==
    ASSUME Rosters, Askers, OneOwnerTree, NEW c \in Call, Admit(c)
    PROVE  OneOwnerTree' /\ Askers'
<1>1. TypeOK
  BY DEF Rosters, RosterAgrees
<1>2. /\ pc[c] = "admit" /\ UNCHANGED <<owner, caller, asked>>
      /\ \A d \in Call \ {c} : pc'[d] = pc[d]
      /\ pc'[c] \in {"permit", "refused"}
      /\ pc'[c] = "permit" => ~Stale(c)
      /\ live' = live
  BY <1>1 DEF Admit, Goto, TypeOK, Revive, Claim, roster
<1>3. \/ at' = at /\ session' = session
      \/ /\ \E p : at' = [at EXCEPT ![c] = p]
         /\ \E x : session' = [session EXCEPT ![c] = x]
  BY DEF Admit, Revive, Claim
<1>4. \A d \in Call \ {c} : at'[d] = at[d] /\ session'[d] = session[d]
  BY <1>1, <1>3 DEF TypeOK
<1>5. pc'[c] = "permit" => asked[c].owner = owner
  <2>1. CASE caller[c].path = Root
    BY <1>2, <2>1 DEF Stale, Askers
  <2>2. CASE caller[c].path # Root
    BY <1>2, <2>2, AskerFacts DEF Pending
  <2>. QED BY <2>1, <2>2
<1>6. OneOwnerTree'
  <2>1. "refused" \notin Executing
    BY DEF Executing, Running, Permitted
  <2>. QED BY <1>2, <1>5, <2>1 DEF OneOwnerTree
<1>7. Askers'
  <2>1. \A d \in Call :
           /\ pc'[d] \in Pending => pc[d] \in Pending
           /\ pc'[d] \in Early => pc[d] \in Early
           /\ pc[d] = "task" =>
                 /\ pc'[d] = "task"
                 /\ at'[d] = at[d] /\ session'[d] = session[d]
    BY <1>2, <1>4 DEF Pending, Early
  <2>. QED BY <1>2, <2>1, StillAsked
<1>. QED BY <1>6, <1>7

LEMMA AdmitKeepsTokens ==
    ASSUME Rosters, Tokens, NEW c \in Call, Admit(c)
    PROVE  Tokens'
<1>1. TypeOK
  BY DEF Rosters, RosterAgrees
<1>2. /\ UNCHANGED <<asked, spawner, cancelled>>
      /\ \A d \in Call \ {c} : pc'[d] = pc[d]
      /\ pc'[c] \in {"permit", "refused"}
  BY <1>1 DEF Admit, Goto, TypeOK
<1>3. pc'[c] \notin Running
  BY <1>2 DEF Running, Permitted
<1>. QED BY <1>2, <1>3, StillTokens

\* Adoption waits until nothing is reserved and nothing runs.
LEMMA AdoptKeepsOwner ==
    ASSUME Rosters, OneOwnerTree, NEW o \in Session, Adopt(o)
    PROVE  OneOwnerTree'
<1>1. /\ \A p \in Path : live[p] = None
      /\ reserved = {} /\ UNCHANGED <<live, pc, asked>>
  BY DEF Adopt, ResetIdle, request
<1>2. \A d \in Call : pc[d] \notin Reserving /\ pc[d] \notin Running
  BY <1>1, Apart DEF Rosters, Places, Reservations, Handles
<1>3. \A d \in Call : pc[d] \notin Executing
  BY <1>2 DEF Executing, Reserving
<1>. QED BY <1>1, <1>3, Apart DEF OneOwnerTree

LEMMA CommitKeepsOwner ==
    ASSUME Rosters, Askers, OneOwnerTree, NEW c \in Call, Commit(c)
    PROVE  OneOwnerTree' /\ Askers'
<1>1. TypeOK
  BY DEF Rosters, RosterAgrees
<1>2. /\ pc[c] = "prepare" /\ UNCHANGED <<owner, caller, asked, at, session>>
      /\ \A d \in Call \ {c} : pc'[d] = pc[d]
      /\ pc'[c] = "dispatch"
      /\ live' = [live EXCEPT ![at[c]] = c]
  BY <1>1 DEF Commit, Goto, TypeOK, Started, request
<1>3. \A p \in Path : live'[p] \in {live[p], c}
  BY <1>1, <1>2 DEF TypeOK
<1>4. pc[c] \in Executing
  BY <1>2 DEF Executing
<1>5. OneOwnerTree'
  BY <1>2, <1>3, <1>4 DEF OneOwnerTree
<1>6. \A d \in Call :
         /\ pc'[d] \in Pending => pc[d] \in Pending
         /\ pc'[d] \in Early => pc[d] \in Early
         /\ pc[d] = "task" => pc'[d] = "task"
  BY <1>2 DEF Pending, Early
<1>. QED BY <1>2, <1>5, <1>6, StillAsked

\* The committed run's token is a child of its asker's.
LEMMA CommitKeepsTokens ==
    ASSUME Rosters, Askers, OneOwnerTree, Tokens, NEW c \in Call, Commit(c)
    PROVE  Tokens'
<1>1. TypeOK
  BY DEF Rosters, RosterAgrees
<1>2. /\ pc[c] = "prepare" /\ asked' = asked
      /\ \A d \in Call \ {c} : pc'[d] = pc[d]
      /\ \A d \in Call \ {c} : spawner'[d] = spawner[d]
      /\ spawner'[c] = TokenOf(caller[c].path)
      /\ cancelled' = IF TokenOf(caller[c].path) \in cancelled
                      THEN cancelled \cup {c} ELSE cancelled
  BY <1>1 DEF Commit, Goto, TypeOK, request
<1>3. TokenOf(caller[c].path) = asked[c].run
  BY <1>2, AskerFacts DEF Pending
<1>4. \A d \in Call : asked[d].run # c
  BY <1>2 DEF Askers, Early
<1>5. ASSUME NEW d \in Call, d # c, pc'[d] \in Running
      PROVE  /\ spawner'[d] = asked'[d].run
             /\ spawner'[d] \in cancelled' => d \in cancelled'
  <2>1. /\ spawner[d] = asked[d].run
        /\ spawner[d] \in cancelled => d \in cancelled
    BY <1>2, <1>5 DEF Tokens
  <2>. QED BY <1>2, <1>4, <1>5, <2>1
<1>6. /\ spawner'[c] = asked'[c].run
      /\ spawner'[c] \in cancelled' => c \in cancelled'
  BY <1>2, <1>3, <1>4
<1>. QED BY <1>5, <1>6 DEF Tokens

\* A cancel reaches the tokens below.
LEMMA CancelKeepsTokens ==
    ASSUME Tokens, NEW d \in Call \cup {Tree}, Cancel(d)
    PROVE  Tokens'
<1>1. cancelled' = cancelled \cup Heirs(d) /\ UNCHANGED <<pc, asked, spawner>>
  BY DEF Cancel, request
<1>. QED BY <1>1, HeirsFacts DEF Tokens

LEMMA GoesKeepsAskers ==
    ASSUME Rosters, Askers, OneOwnerTree, Tokens, NEW c \in Call, Goes(c)
    PROVE  Askers' /\ OneOwnerTree' /\ Tokens'
<1>1. TypeOK
  BY DEF Rosters, RosterAgrees
<1>2. UNCHANGED <<owner, caller, at, session, asked, spawner, cancelled>>
  BY HopsOfGoes DEF request
<1>3. \A d \in Call :
         /\ pc'[d] \in Pending => pc[d] \in Pending
         /\ pc'[d] \in Executing => pc[d] \in Executing
         /\ pc'[d] \in Running => pc[d] \in Running
         /\ pc'[d] \in Early => pc[d] \in Early
         /\ pc[d] = "task" => pc'[d] = "task" \/ ~Awaiting(d)
  BY <1>1, GoesFacts
<1>4. Askers'
  BY <1>2, <1>3, StillAsked
<1>5. OneOwnerTree'
  BY <1>1, <1>2, <1>3, GoesLive, StillOwned
<1>6. Tokens'
  BY <1>2, <1>3, StillTokens
<1>. QED BY <1>4, <1>5, <1>6

-----------------------------------------------------------------------------
(* Reports, and the waiter.                                                *)

Unsaid == {"task", "exit", "report", "cutoff"}

LEMMA LogStays ==
    ASSUME Unreported, UNCHANGED <<logged, reported, lost>>,
           \A d \in Call : pc[d] \in Unsaid => pc'[d] \in Unsaid,
           logged \subseteq Call
    PROVE  Unreported'
BY DEF Unreported, Unsaid

LEMMA GoesKeepsLog ==
    ASSUME TypeOK, Unreported, NEW c \in Call, Goes(c)
    PROVE  Unreported'
<1>1. logged \subseteq Call
  BY DEF TypeOK
<1>2. CASE ReadTexts(c)
  BY <1>1, <1>2, LogStays DEF ReadTexts, log
<1>3. CASE TakePermit(c) \/ FailAdmission(c) \/ FailDispatch(c)
  <2>1. /\ pc[c] \notin Unsaid
        /\ \A d \in Call \ {c} : pc'[d] = pc[d]
        /\ UNCHANGED log
    BY <1>3 DEF TakePermit, FailAdmission, FailDispatch, Goto, TypeOK, Unsaid
  <2>. QED BY <1>1, <2>1, LogStays DEF log
<1>4. CASE StartTask(c) \/ CutOff(c)
  <2>1. /\ pc'[c] \in Unsaid
        /\ \A d \in Call \ {c} : pc'[d] = pc[d]
        /\ logged' \subseteq logged \cup {c}
        /\ UNCHANGED <<reported, lost>>
    BY <1>4 DEF StartTask, CutOff, Goto, TypeOK, Unsaid
  <2>. QED BY <1>1, <2>1 DEF Unreported, Unsaid
<1>5. CASE EndRun(c) \/ CloseQueue(c)
  <2>1. /\ pc'[c] \in Unsaid
        /\ \A d \in Call \ {c} : pc'[d] = pc[d]
        /\ UNCHANGED log
    BY <1>5 DEF EndRun, CloseQueue, Goto, TypeOK, Unsaid
  <2>. QED BY <1>1, <2>1, LogStays DEF log
<1>6. CASE Report(c)
  <2>1. /\ c \in reported' \cup lost'
        /\ reported \subseteq reported' /\ lost \subseteq lost'
        /\ \A d \in Call \ {c} : pc'[d] = pc[d]
        /\ UNCHANGED logged
    BY <1>6 DEF Report, Goto, TypeOK
  <2>. QED BY <1>1, <2>1 DEF Unreported
<1>7. CASE Tell(c) \/ Settle(c) \/ NotifyWaiters(c)
  <2>1. /\ pc[c] \notin Unsaid
        /\ \A d \in Call \ {c} : pc'[d] = pc[d]
        /\ UNCHANGED log
    BY <1>7 DEF Tell, Settle, NotifyWaiters, Goto, TypeOK, Unsaid
  <2>. QED BY <1>1, <2>1, LogStays DEF log
<1>. QED BY <1>2, <1>3, <1>4, <1>5, <1>6, <1>7 DEF Goes

LEMMA OthersKeepLog ==
    ASSUME TypeOK, Unreported, NEW c \in Call,
           Admit(c) \/ Commit(c) \/ \E who \in Callers : AskMoves(c, who)
    PROVE  Unreported'
<1>1. /\ pc[c] \notin Unsaid
      /\ \A d \in Call \ {c} : pc'[d] = pc[d]
      /\ UNCHANGED log /\ logged \subseteq Call
  BY DEF Admit, Commit, AskMoves, Goto, TypeOK, Unsaid
<1>. QED BY <1>1, LogStays DEF log

\* Who wakes the waiter, or put its row back.
Excused(c) ==
    \/ pc[c] = "notify"
    \/ c \in resuming /\ pc[c] \in {"refused", "rolledback"}

\* A row that comes to be settled has a call that answers for it.
LEMMA AwakeStays ==
    ASSUME Awake, UNCHANGED waiter,
           \A p \in Path :
              row'[p].session \in mine /\ ~row'[p].running =>
                 \/ row'[p] = row[p]
                 \/ \E c \in Call : at'[c] = p /\ Excused(c)',
           \A c \in Call : Excused(c) => at'[c] = at[c] /\ Excused(c)'
    PROVE  Awake'
<1>1. ASSUME wait \in {"looked", "asleep"}, ~woken, NEW p \in Path,
             row'[p].session \in mine, ~row'[p].running
      PROVE  \E c \in Call : at'[c] = p /\ Excused(c)'
  <2>1. CASE row'[p] = row[p]
    <3>1. PICK c \in Call : at[c] = p /\ Excused(c)
      BY <1>1, <2>1 DEF Awake, Excused
    <3>. QED BY <3>1
  <2>. QED BY <1>1, <2>1
<1>2. wait' \in {"looked", "asleep"} /\ ~woken' =>
        \A p \in Path : row'[p].session \in mine' /\ ~row'[p].running =>
            \E c \in Call : at'[c] = p /\ Excused(c)'
  BY <1>1 DEF waiter
<1>. QED BY <1>2 DEF Awake, Excused

LEMMA AskKeepsAwake ==
    ASSUME Rosters, Awake, NEW c \in Call, NEW who, AskMoves(c, who)
    PROVE  Awake'
<1>1. TypeOK
  BY DEF Rosters, RosterAgrees
<1>2. /\ UNCHANGED <<row, waiter>> /\ resuming \subseteq resuming'
      /\ pc[c] = "new"
      /\ \A d \in Call \ {c} : pc'[d] = pc[d] /\ at'[d] = at[d]
  BY <1>1 DEF AskMoves, roster, TypeOK
<1>3. c \notin resuming
  BY <1>2 DEF Rosters, Places, Stages
<1>. QED BY <1>2, <1>3, AwakeStays DEF Excused

LEMMA AdmitKeepsAwake ==
    ASSUME Rosters, Awake, NEW c \in Call, Admit(c)
    PROVE  Awake'
<1>1. TypeOK
  BY DEF Rosters, RosterAgrees
<1>2. /\ UNCHANGED <<waiter, resuming>> /\ pc[c] = "admit"
      /\ \A d \in Call \ {c} : pc'[d] = pc[d]
  BY <1>1 DEF Admit, Goto, TypeOK
<1>3. at' = at \/ \E p : at' = [at EXCEPT ![c] = p]
  BY DEF Admit, Revive, Claim
<1>4. \A d \in Call \ {c} : at'[d] = at[d]
  BY <1>1, <1>3 DEF TypeOK
<1>5. \/ row' = row
      \/ row' = [row EXCEPT ![at[c]] = NoRow]
  BY DEF Admit, Revive, Claim, roster
<1>6. NoRow.session \notin mine
  BY <1>1, Apart DEF TypeOK
<1>7. \A p \in Path : row'[p] = row[p] \/ row'[p] = NoRow
  BY <1>1, <1>5 DEF TypeOK
<1>. QED BY <1>2, <1>4, <1>6, <1>7, AwakeStays DEF Excused

LEMMA AdoptKeepsAwake ==
    ASSUME Rosters, Awake, NEW o \in Session, Adopt(o)
    PROVE  Awake'
<1>1. NoRow.session \notin mine
  BY Apart DEF Rosters, RosterAgrees, TypeOK
<1>2. /\ \A p \in Path : row'[p] = NoRow
      /\ UNCHANGED <<waiter, pc, at, resuming>>
  BY DEF Adopt, ResetIdle, request
<1>. QED BY <1>1, <1>2, AwakeStays DEF Excused

LEMMA CommitKeepsAwake ==
    ASSUME Rosters, Awake, NEW c \in Call, Commit(c)
    PROVE  Awake'
<1>1. TypeOK
  BY DEF Rosters, RosterAgrees
<1>2. /\ UNCHANGED <<waiter, at, resuming>> /\ pc[c] = "prepare"
      /\ \A d \in Call \ {c} : pc'[d] = pc[d]
      /\ row' = [row EXCEPT ![at[c]] = [session |-> session[c],
                                        running |-> TRUE]]
  BY <1>1 DEF Commit, Started, Goto, TypeOK, request
<1>3. \A p \in Path : row'[p] = row[p] \/ row'[p].running
  BY <1>1, <1>2 DEF TypeOK
<1>. QED BY <1>2, <1>3, AwakeStays DEF Excused

\* A row is put back by a follow-up that failed, and settled by a run that
\* is about to wake the waiter.
LEMMA GoesKeepsAwake ==
    ASSUME Rosters, Awake, NEW c \in Call, Goes(c)
    PROVE  Awake'
<1>1. TypeOK
  BY DEF Rosters, RosterAgrees
<1>2. UNCHANGED <<at, resuming>>
  BY HopsOfGoes DEF request
<1>3. NoRow.session \notin mine
  BY <1>1, Apart DEF TypeOK
<1>4. CASE /\ UNCHANGED <<row, waiter>>
           /\ \/ pc' = pc
              \/ /\ pc[c] \notin {"notify", "refused", "rolledback"}
                 /\ \A d \in Call \ {c} : pc'[d] = pc[d]
  BY <1>2, <1>4, AwakeStays DEF Excused
<1>5. ASSUME pc[c] \in Reserving, Release(c), Goto(c, "refused"),
             UNCHANGED waiter
      PROVE  Awake'
  <2>1. /\ pc'[c] = "refused"
        /\ \A d \in Call \ {c} : pc'[d] = pc[d]
        /\ pc[c] \notin {"notify", "refused", "rolledback"}
    BY <1>1, <1>5 DEF Goto, TypeOK, Reserving
  <2>2. restore[c] # NoRow => c \in resuming
    BY <1>5 DEF Rosters, Places, Restores
  <2>3. \A p \in Path : row'[p] # row[p] => p = at[c] /\ c \in resuming
    <3>1. \/ row' = row
          \/ c \in resuming /\ row' = [row EXCEPT ![at[c]] = restore[c]]
      BY <1>5, <2>2 DEF Release
    <3>2. row \in [Path -> Row \cup {NoRow}]
      BY <1>1 DEF TypeOK
    <3>. QED BY <3>1, <3>2
  <2>. QED BY <1>2, <1>5, <2>1, <2>3, AwakeStays DEF Excused
<1>6. CASE TakePermit(c) \/ FailAdmission(c)
  <2>1. CASE Goto(c, "prepare") /\ UNCHANGED roster /\ TakePermit(c)
    BY <1>1, <1>4, <2>1 DEF TakePermit, Goto, TypeOK, roster
  <2>2. CASE Goto(c, "refused") /\ Release(c)
    BY <1>5, <1>6, <2>2 DEF TakePermit, FailAdmission, Reserving
  <2>. QED BY <1>6, <2>1, <2>2 DEF TakePermit, FailAdmission
<1>7. CASE StartTask(c) \/ CutOff(c) \/ ReadTexts(c) \/ EndRun(c)
  BY <1>1, <1>4, <1>7
  DEF StartTask, CutOff, ReadTexts, EndRun, Goto, TypeOK, roster
<1>8. CASE CloseQueue(c) \/ Report(c) \/ Tell(c)
  BY <1>1, <1>4, <1>8 DEF CloseQueue, Report, Tell, Goto, TypeOK, roster
<1>9. CASE FailDispatch(c)
  <2>1. /\ pc'[c] = "rolledback"
        /\ \A d \in Call \ {c} : pc'[d] = pc[d]
        /\ pc[c] \notin {"notify", "refused", "rolledback"}
        /\ UNCHANGED waiter
    BY <1>1, <1>9 DEF FailDispatch, Goto, TypeOK
  <2>2. \A p \in Path : row'[p] \notin {row[p], NoRow}
                          => p = at[c] /\ c \in resuming
    <3>1. \/ row' = [row EXCEPT ![at[c]] = NoRow]
          \/ /\ c \in resuming
             /\ \E r : row' = [row EXCEPT ![at[c]] = r]
      BY <1>9 DEF FailDispatch, RollbackStart
    <3>2. row \in [Path -> Row \cup {NoRow}]
      BY <1>1 DEF TypeOK
    <3>. QED BY <3>1, <3>2
  <2>. QED BY <1>2, <1>3, <2>1, <2>2, AwakeStays DEF Excused
<1>10. CASE Settle(c)
  <2>1. /\ pc'[c] = "notify"
        /\ \A d \in Call \ {c} : pc'[d] = pc[d]
        /\ pc[c] \notin {"notify", "refused", "rolledback"}
        /\ UNCHANGED waiter
    BY <1>1, <1>10 DEF Settle, Goto, TypeOK
  <2>2. \A p \in Path : \/ row'[p] = row[p] \/ row'[p] = NoRow \/ p = at[c]
    BY <1>1, <1>10 DEF Settle, Settled, TypeOK
  <2>. QED BY <1>2, <1>3, <2>1, <2>2, AwakeStays DEF Excused
<1>11. CASE NotifyWaiters(c)
  BY <1>11 DEF NotifyWaiters, Registered, Awake
<1>. QED BY <1>6, <1>7, <1>8, <1>9, <1>10, <1>11 DEF Goes

LEMMA WaitKeepsAwake ==
    ASSUME Rosters, Awake, Waiting
    PROVE  Awake'
<1>1. UNCHANGED <<row, pc, at, resuming>>
  BY DEF Waiting, Wait, Enable, Look, Sleep, Wake, GiveUp, Waited,
         WaitUnchanged, roster, request
<1>2. CASE Look
  <2>1. CASE mine \cap DoneSessions # {}
    BY <1>2, <2>1 DEF Look, Awake
  <2>2. CASE mine \cap DoneSessions = {}
    <3>1. mine' = mine
      BY <1>2 DEF Look
    <3>2. NoRow.session \notin mine
      BY Apart DEF Rosters, RosterAgrees, TypeOK
    <3>3. ASSUME NEW p \in Path, row[p].session \in mine, ~row[p].running
          PROVE  FALSE
      <4>1. row[p].session \in DoneSessions
        BY <3>2, <3>3 DEF DoneSessions
      <4>. QED BY <2>2, <3>3, <4>1
    <3>. QED BY <1>1, <3>1, <3>3 DEF Awake
  <2>. QED BY <2>1, <2>2
<1>3. CASE Sleep
  BY <1>1, <1>3 DEF Sleep, Awake
<1>4. CASE Wait \/ Enable \/ Wake \/ GiveUp \/ Waited
  BY <1>4 DEF Wait, Enable, Wake, GiveUp, Waited, Awake
<1>. QED BY <1>2, <1>3, <1>4 DEF Waiting

-----------------------------------------------------------------------------
(* The inductive invariant.                                                *)

LEMMA InitIInv == Init => IInv
<1> SUFFICES ASSUME Init PROVE IInv
  OBVIOUS
<1>1. \A c \in Call : /\ pc[c] = "new" /\ session[c] = None
                      /\ restore[c] = NoRow /\ at[c] = Root
                      /\ caller[c] = [path |-> Root, session |-> owner]
                      /\ asked[c] = [owner |-> owner, run |-> Tree]
  BY DEF Init
<1>2. TypeOK
  <2>1. /\ owner \in Session
        /\ row \in [Path -> Row \cup {NoRow}]
        /\ live \in [Path -> Call \cup {None}]
        /\ settled \in Seq(Path) /\ reserved \subseteq Path
        /\ archived \in [Path -> Call \cup {None}]
    BY DEF Init
  <2>2. /\ pc \in [Call -> Step] /\ session \in [Call -> Call \cup {None}]
        /\ at \in [Call -> Path \cup {Root}]
        /\ resuming \subseteq Call
        /\ restore \in [Call -> Row \cup {NoRow}]
        /\ spawner \in [Call -> Call \cup {Tree}]
        /\ cancelled \subseteq Call \cup {Tree}
        /\ queue \in [Call -> SUBSET Call]
    BY DEF Init, Step
  <2>3. caller \in [Call -> Caller]
    <3>1. [path |-> Root, session |-> owner] \in Caller
      BY <2>1 DEF Caller
    <3>. QED BY <3>1 DEF Init
  <2>4. asked \in [Call -> [owner : Session, run : Call \cup {Tree}]]
    <3>1. [owner |-> owner, run |-> Tree]
             \in [owner : Session, run : Call \cup {Tree}]
      BY <2>1
    <3>. QED BY <3>1 DEF Init
  <2>5. /\ logged \subseteq Call /\ reported \subseteq Call /\ lost \subseteq Call
        /\ wait \in {"idle", "enable", "look", "looked", "asleep", "settled"}
        /\ mine \subseteq Call /\ woken \in BOOLEAN
    BY DEF Init
  <2>. QED BY <2>1, <2>2, <2>3, <2>4, <2>5 DEF TypeOK
<1>3. Members(settled) = {}
  BY DEF Init, Members
<1>4. RosterAgrees
  BY <1>2, <1>3, Apart DEF Init, RosterAgrees
<1>5. \A c \in Call : pc[c] \notin Reserving /\ pc[c] \notin Running
                     /\ pc[c] \notin Pending /\ pc[c] \notin Executing
  BY <1>1 DEF Reserving, Running, Permitted, Pending, Executing
<1>6. Places
  BY <1>1, <1>5, Apart
  DEF Init, Places, Stages, Named, Restores, Reservations, Handles
<1>7. Askers
  BY <1>1, <1>5, Apart DEF Askers, Tree
<1>8. OneOwnerTree /\ Tokens /\ Unreported /\ Awake
  BY <1>5, Apart DEF Init, OneOwnerTree, Tokens, Unreported, Awake
<1>. QED BY <1>4, <1>6, <1>7, <1>8 DEF IInv, Rosters

LEMMA StepIInv ==
    ASSUME IInv, [Next]_vars
    PROVE  IInv'
<1>1. /\ Rosters /\ Askers /\ OneOwnerTree /\ Tokens
      /\ Unreported /\ Awake /\ TypeOK
  BY DEF IInv, Rosters, RosterAgrees
<1>2. Rosters'
  BY <1>1, RostersStep
<1>3. logged \subseteq Call
  BY <1>1 DEF TypeOK
<1>4. ASSUME NEW c \in Call, NEW who \in Callers,
             \/ Spawn(c, who)
             \/ \E p \in Path : FollowUp(c, who, p) \/ Message(c, who, p)
      PROVE  IInv'
  <2>1. AskMoves(c, who)
    BY <1>4, AsksMove
  <2>2. Askers' /\ OneOwnerTree' /\ Tokens'
    BY <1>1, <2>1, AskKeepsAskers, AskKeepsOwner, AskKeepsTokens
  <2>3. Unreported' /\ Awake'
    BY <1>1, <2>1, OthersKeepLog, AskKeepsAwake
  <2>. QED BY <1>2, <2>2, <2>3 DEF IInv
<1>5. ASSUME NEW d \in Call \cup {Tree}, Cancel(d)
      PROVE  IInv'
  <2>1. UNCHANGED <<owner, roster, pc, request, log, waiter>>
    BY <1>5 DEF Cancel
  <2>2. Askers' /\ OneOwnerTree'
    BY <1>1, <2>1 DEF Askers, OneOwnerTree, roster, request
  <2>3. Tokens'
    BY <1>1, <1>5, CancelKeepsTokens
  <2>4. Unreported' /\ Awake'
    BY <1>1, <2>1 DEF Unreported, Awake, log, waiter, roster, request
  <2>. QED BY <1>2, <2>2, <2>3, <2>4 DEF IInv
<1>6. ASSUME NEW o \in Session, Adopt(o)
      PROVE  IInv'
  <2>1. UNCHANGED <<pc, request, spawner, cancelled, log>>
    BY <1>6 DEF Adopt
  <2>2. Askers' /\ Tokens' /\ Unreported'
    BY <1>1, <2>1 DEF Askers, Tokens, Unreported, request, log
  <2>3. OneOwnerTree' /\ Awake'
    BY <1>1, <1>6, AdoptKeepsOwner, AdoptKeepsAwake
  <2>. QED BY <1>2, <2>2, <2>3 DEF IInv
<1>7. ASSUME NEW c \in Call, Admit(c)
      PROVE  IInv'
  <2>1. Askers' /\ OneOwnerTree' /\ Tokens'
    BY <1>1, <1>7, AdmitKeepsOwner, AdmitKeepsTokens
  <2>2. Unreported' /\ Awake'
    BY <1>1, <1>7, OthersKeepLog, AdmitKeepsAwake
  <2>. QED BY <1>2, <2>1, <2>2 DEF IInv
<1>8. ASSUME NEW c \in Call, Commit(c)
      PROVE  IInv'
  <2>1. Askers' /\ OneOwnerTree' /\ Tokens'
    BY <1>1, <1>8, CommitKeepsOwner, CommitKeepsTokens
  <2>2. Unreported' /\ Awake'
    BY <1>1, <1>8, OthersKeepLog, CommitKeepsAwake
  <2>. QED BY <1>2, <2>1, <2>2 DEF IInv
<1>9. ASSUME NEW c \in Call, Goes(c)
      PROVE  IInv'
  <2>1. Askers' /\ OneOwnerTree' /\ Tokens'
    BY <1>1, <1>9, GoesKeepsAskers
  <2>2. Unreported' /\ Awake'
    BY <1>1, <1>9, GoesKeepsLog, GoesKeepsAwake
  <2>. QED BY <1>2, <2>1, <2>2 DEF IInv
<1>10. CASE Waiting
  <2>1. UNCHANGED <<owner, roster, pc, request, spawner, cancelled, log>>
    BY <1>10 DEF Waiting, Wait, Enable, Look, Sleep, Wake, GiveUp, Waited,
                 WaitUnchanged
  <2>2. Askers' /\ OneOwnerTree' /\ Tokens' /\ Unreported'
    BY <1>1, <2>1
    DEF Askers, OneOwnerTree, Tokens, Unreported, roster, request, log
  <2>3. Awake'
    BY <1>1, <1>10, WaitKeepsAwake
  <2>. QED BY <1>2, <2>2, <2>3 DEF IInv
<1>11. CASE UNCHANGED vars
  <2>1. Askers' /\ OneOwnerTree' /\ Tokens' /\ Unreported' /\ Awake'
    BY <1>1, <1>11
    DEF Askers, OneOwnerTree, Tokens, Unreported, Awake, vars
  <2>. QED BY <1>2, <2>1 DEF IInv
<1>12. ASSUME NEW c \in Call, Progress(c) \/ CutOff(c)
       PROVE  Admit(c) \/ Commit(c) \/ Goes(c)
  BY <1>12 DEF Progress, Goes
<1>. QED
  BY <1>4, <1>5, <1>6, <1>7, <1>8, <1>9, <1>10, <1>11, <1>12
  DEF Next, Waiting

\* Every step of a call, of the surface and of the waiter keeps what the
\* registry, the calls, the tokens, the log and the waiter say of each other.
THEOREM Invariant == Spec => []IInv
<1>1. Init => IInv
  BY InitIInv
<1>2. IInv /\ [Next]_vars => IInv'
  BY StepIInv
<1>. QED BY <1>1, <1>2, PTL DEF Spec

-----------------------------------------------------------------------------
(* What follows from it.                                                   *)

\* A running row has handles, a reserved name has no row and the settled list
\* is the settled rows, each once, whatever spawns, follow-ups, roll-backs,
\* evictions and adoptions interleave (registry.rs Tree).
THEOREM RosterAlwaysAgrees == Spec => []RosterAgrees
<1>1. IInv => RosterAgrees
  BY DEF IInv, Rosters
<1>. QED BY <1>1, Invariant, PTL

LEMMA OneAddress ==
    ASSUME Rosters, NEW c \in Call, NEW d \in Call,
           session[c] # None, session[c] = session[d]
    PROVE  at[c] = at[d]
BY DEF Rosters, Places, Named, MadeAt

LEMMA SessionsApart ==
    ASSUME Rosters, NEW c \in Call, NEW d \in Call, c # d,
           pc[c] \in Executing, pc[d] \in Executing
    PROVE  session[c] # session[d]
<1> SUFFICES ASSUME session[c] = session[d] PROVE FALSE
  OBVIOUS
<1>1. /\ pc[c] \in Reserving \/ pc[c] \in Running
      /\ pc[d] \in Reserving \/ pc[d] \in Running
  BY DEF Executing, Reserving
<1>2. at[c] = at[d]
  BY <1>1, OneAddress DEF Rosters, Places, Stages
<1>3. CASE pc[c] \in Reserving /\ pc[d] \in Reserving
  BY <1>2, <1>3 DEF Rosters, Places, Reservations
<1>4. CASE pc[c] \in Running /\ pc[d] \in Running
  BY <1>2, <1>4 DEF Rosters, Places, Handles
<1>5. ASSUME NEW e \in Call, at[e] = at[c], pc[e] \in Running,
             at[c] \in reserved
      PROVE  FALSE
  <2>1. at[c] \in Path /\ live[at[c]] # None
    BY <1>5, Apart DEF Rosters, Places, Handles
  <2>2. row[at[c]].running /\ row[at[c]] = NoRow
    BY <1>5, <2>1 DEF Rosters, RosterAgrees
  <2>. QED BY <2>2, Apart
<1>6. CASE pc[c] \in Reserving /\ pc[d] \in Running
  BY <1>2, <1>5, <1>6 DEF Rosters, Places, Reservations
<1>7. CASE pc[c] \in Running /\ pc[d] \in Reserving
  BY <1>2, <1>5, <1>7 DEF Rosters, Places, Reservations
<1>. QED BY <1>1, <1>3, <1>4, <1>6, <1>7

\* Of the spawns and follow-ups that race, no two hold the same agent
\* session, from the reservation to the settling (lib.rs admit, registry.rs
\* revive and Reservation).
THEOREM SessionsRunOnce == Spec => []OneRunPerSession
<1>1. IInv => OneRunPerSession
  BY SessionsApart DEF IInv, OneRunPerSession
<1>. QED BY <1>1, Invariant, PTL

\* No request made before the surface adopted another session starts an agent
\* or stays in the roster after it: the gate refuses the stale ones, and the
\* adoption waits for those it let in (lib.rs admit, adopt; registry.rs
\* reset_idle).
THEOREM TreeHasOneOwner == Spec => []OneOwnerTree
<1>1. IInv => OneOwnerTree
  BY DEF IInv
<1>. QED BY <1>1, Invariant, PTL

\* A run whose asker's token is cancelled is cancelled too, whether the cancel
\* came before its row was committed or after (lib.rs admit's child_token).
THEOREM CancelAlwaysDescends == Spec => []CancelReachesDescendants
<1>1. IInv => CancelReachesDescendants
  BY DEF IInv, Tokens, CancelReachesDescendants
<1>. QED BY <1>1, Invariant, PTL

LEMMA SettledHasReported ==
    ASSUME Rosters, Unreported, NEW p \in Path, row[p] # NoRow,
           ~row[p].running, NEW c \in logged, session[c] = row[p].session,
           pc[c] # "cutoff"
    PROVE  c \in reported \cup lost
<1>1. CASE pc[c] \in {"task", "exit", "report"}
  <2>1. c \in Call /\ live[at[c]] = c /\ c # None
    BY <1>1, Apart
    DEF Rosters, RosterAgrees, TypeOK, Places, Handles, Running, Permitted
  <2>2. MadeAt(session[c], p) /\ session[c] # None
    BY Apart DEF Rosters, Places, Named, MadeAt
  <2>3. at[c] = p
    BY <2>1, <2>2 DEF Rosters, Places, Named, MadeAt
  <2>. QED BY <2>1, <2>3 DEF Rosters, RosterAgrees
<1>. QED BY <1>1 DEF Unreported

\* What the roster shows as settled has its reports on the log, or the log
\* refused them (lib.rs execute: finished before settled).
THEOREM SettledAlwaysCollectable == Spec => []SettledIsCollectable
<1>1. IInv => SettledIsCollectable
  BY SettledHasReported DEF IInv, SettledIsCollectable
<1>. QED BY <1>1, Invariant, PTL

\* A sleeping waiter misses no settling: it registers before it looks, and a
\* run settles before it wakes (lib.rs wait, execute).
THEOREM WakeupsAreNotLost == Spec => []NoLostWakeup
<1>1. IInv => NoLostWakeup
  BY DEF IInv, Awake, NoLostWakeup
<1>. QED BY <1>1, Invariant, PTL

=============================================================================
