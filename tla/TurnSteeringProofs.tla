-------------------------- MODULE TurnSteeringProofs --------------------------
(***************************************************************************)
(* What TurnSteering promises of a message, proved for any messages, any   *)
(* bound and any faults.  Two of its promises lean on facts that span the  *)
(* turn and the backend: the ledger and the log meet only in the message   *)
(* that is being noted, and a prompt extends the log by messages that are  *)
(* neither in it nor waiting.                                              *)
(***************************************************************************)
EXTENDS TurnSteering, TLAPS

Distinct(s) == \A i, j \in DOMAIN s : s[i] = s[j] => i = j
Apart(s, t) == Members(s) \cap Members(t) = {}

\* Whatever is anywhere was acknowledged.
Acknowledged ==
    /\ Members(unread) \subseteq Members(accepted)
    /\ Members(log) \subseteq Members(accepted)
    /\ Members(transcript) \subseteq Members(accepted)
    /\ Members(returned) \subseteq Members(accepted)

\* What waits waits once.
WaitsOnce ==
    /\ Distinct(unread) /\ Distinct(queue) /\ Distinct(batch)
    /\ Apart(queue, batch)
    /\ phase \notin {"applying", "noting"} => batch = <<>>
    /\ phase \in {"idle", "ended"} => closed /\ queue = <<>>
    /\ aborted => stopped

\* The message being noted is the one that is in the log and in the ledger.
Noting ==
    phase = "noting" =>
        /\ batch # <<>>
        /\ Head(batch) \in Members(log)
        /\ \A m \in Members(unread) : m # Head(batch) => m \notin Members(log)

\* Otherwise the two are apart, but after a force-stop.
Unlogged ==
    phase # "noting" =>
        \/ Apart(unread, log)
        \/ phase = "ended" /\ outcome = "failed" /\ stopped

\* The transcript is the log, followed by prompts nobody has seen.
Opening ==
    /\ phase = "idle" => transcript = log /\ unread = <<>>
    /\ phase = "opening" =>
        /\ Len(log) <= Len(transcript)
        /\ \A i \in 1 .. Len(log) : transcript[i] = log[i]
        /\ Distinct(transcript)
        /\ Apart(transcript, unread)
        /\ stopped \/ Apart(transcript, returned)

LogOnce ==
    /\ Distinct(log)
    /\ Apart(unread, returned)
    /\ stopped \/ Apart(log, returned)

IInv ==
    /\ TypeOK /\ Acknowledged /\ WaitsOnce
    /\ QueueIsInLedger /\ SteersAreAccountedFor
    /\ Noting /\ Unlogged /\ Opening /\ LogOnce

-----------------------------------------------------------------------------
(* Members of sequences.                                                   *)

LEMMA NoMembers ==
    /\ Members(<<>>) = {} /\ Distinct(<<>>)
    /\ <<>> \in Seq(Message) /\ Len(<<>>) = 0
BY DEF Members, Distinct

LEMMA MembersTyped ==
    ASSUME NEW S, NEW s \in Seq(S)
    PROVE  Members(s) \subseteq S
BY DEF Members

\* One message more.
LEMMA Appended ==
    ASSUME NEW S, NEW s \in Seq(S), NEW m \in S
    PROVE  /\ Append(s, m) \in Seq(S)
           /\ Len(Append(s, m)) = Len(s) + 1
           /\ Members(Append(s, m)) = Members(s) \cup {m}
           /\ Distinct(s) /\ m \notin Members(s) => Distinct(Append(s, m))
<1> DEFINE t == Append(s, m)
<1>1. /\ t \in Seq(S) /\ Len(t) = Len(s) + 1
      /\ \A i \in 1 .. Len(s) : t[i] = s[i]
      /\ t[Len(s) + 1] = m
  OBVIOUS
<1>2. DOMAIN t = 1 .. (Len(s) + 1) /\ DOMAIN s = 1 .. Len(s) /\ Len(s) \in Nat
  BY <1>1
<1> HIDE DEF t
<1>3. Members(t) \subseteq Members(s) \cup {m}
  BY <1>1, <1>2 DEF Members
<1>4. Members(s) \subseteq Members(t)
  <2>1. ASSUME NEW i \in DOMAIN s PROVE s[i] \in Members(t)
    BY <1>1, <1>2 DEF Members
  <2>. QED BY <2>1 DEF Members
<1>5. m \in Members(t)
  BY <1>1, <1>2 DEF Members
<1>6. ASSUME Distinct(s), m \notin Members(s) PROVE Distinct(t)
  <2>1. \A i \in DOMAIN s : s[i] # m
    BY <1>6 DEF Members
  <2>. QED BY <1>1, <1>2, <1>6, <2>1 DEF Distinct
<1>. QED BY <1>1, <1>3, <1>4, <1>5, <1>6 DEF t

\* The messages of one sequence after those of another.
LEMMA Joined ==
    ASSUME NEW S, NEW s \in Seq(S), NEW t \in Seq(S)
    PROVE  /\ s \o t \in Seq(S)
           /\ Len(s \o t) = Len(s) + Len(t)
           /\ \A i \in 1 .. Len(s) : (s \o t)[i] = s[i]
           /\ Members(s \o t) = Members(s) \cup Members(t)
           /\ Distinct(s) /\ Distinct(t) /\ Apart(s, t) => Distinct(s \o t)
<1> DEFINE u == s \o t
<1>1. /\ u \in Seq(S) /\ Len(u) = Len(s) + Len(t)
      /\ \A i \in 1 .. Len(s) : u[i] = s[i]
      /\ \A i \in 1 .. Len(t) : u[Len(s) + i] = t[i]
  OBVIOUS
<1>2. /\ DOMAIN u = 1 .. (Len(s) + Len(t))
      /\ DOMAIN s = 1 .. Len(s) /\ DOMAIN t = 1 .. Len(t)
      /\ Len(s) \in Nat /\ Len(t) \in Nat
  BY <1>1
<1> HIDE DEF u
<1>3. ASSUME NEW i \in DOMAIN u, i > Len(s)
      PROVE  i - Len(s) \in DOMAIN t /\ u[i] = t[i - Len(s)]
  <2>1. i - Len(s) \in 1 .. Len(t)
    BY <1>2, <1>3
  <2>2. u[Len(s) + (i - Len(s))] = t[i - Len(s)]
    BY <1>1, <2>1
  <2>. QED BY <1>2, <2>1, <2>2
<1>4. Members(u) \subseteq Members(s) \cup Members(t)
  <2>1. ASSUME NEW i \in DOMAIN u PROVE u[i] \in Members(s) \cup Members(t)
    <3>1. CASE i > Len(s)
      BY <1>3, <3>1 DEF Members
    <3>2. CASE ~(i > Len(s))
      BY <1>1, <1>2, <3>2 DEF Members
    <3>. QED BY <3>1, <3>2
  <2>. QED BY <2>1 DEF Members
<1>5. Members(s) \subseteq Members(u)
  <2>1. ASSUME NEW i \in DOMAIN s PROVE s[i] \in Members(u)
    BY <1>1, <1>2 DEF Members
  <2>. QED BY <2>1 DEF Members
<1>6. Members(t) \subseteq Members(u)
  <2>1. ASSUME NEW i \in DOMAIN t PROVE t[i] \in Members(u)
    <3>1. Len(s) + i \in DOMAIN u
      BY <1>2
    <3>. QED BY <1>1, <1>2, <3>1 DEF Members
  <2>. QED BY <2>1 DEF Members
<1>7. ASSUME Distinct(s), Distinct(t), Apart(s, t) PROVE Distinct(u)
  <2>1. ASSUME NEW i \in DOMAIN s, NEW j \in DOMAIN t PROVE s[i] # t[j]
    BY <1>7 DEF Apart, Members
  <2>2. SUFFICES ASSUME NEW i \in DOMAIN u, NEW j \in DOMAIN u, u[i] = u[j]
                 PROVE  i = j
    BY DEF Distinct
  <2>3. CASE i > Len(s) /\ j > Len(s)
    <3>1. i - Len(s) = j - Len(s)
      BY <1>3, <1>7, <2>2, <2>3 DEF Distinct
    <3>. QED BY <1>2, <3>1
  <2>4. CASE i > Len(s) /\ ~(j > Len(s))
    <3>1. j \in DOMAIN s /\ u[j] = s[j]
      BY <1>1, <1>2, <2>4
    <3>. QED BY <1>3, <2>1, <2>2, <2>4, <3>1
  <2>5. CASE ~(i > Len(s)) /\ j > Len(s)
    <3>1. i \in DOMAIN s /\ u[i] = s[i]
      BY <1>1, <1>2, <2>5
    <3>. QED BY <1>3, <2>1, <2>2, <2>5, <3>1
  <2>6. CASE ~(i > Len(s)) /\ ~(j > Len(s))
    BY <1>1, <1>2, <1>7, <2>2, <2>6 DEF Distinct
  <2>. QED BY <2>3, <2>4, <2>5, <2>6
<1>. QED BY <1>1, <1>4, <1>5, <1>6, <1>7 DEF u

\* The first message and those after it.
LEMMA Split ==
    ASSUME NEW S, NEW s \in Seq(S), s # <<>>
    PROVE  /\ Head(s) \in Members(s) /\ Tail(s) \in Seq(S)
           /\ Members(s) = {Head(s)} \cup Members(Tail(s))
           /\ Distinct(s) => Distinct(Tail(s)) /\ Head(s) \notin Members(Tail(s))
<1> DEFINE t == Tail(s)
<1>1. /\ Len(s) \in Nat \ {0} /\ t \in Seq(S) /\ Len(t) = Len(s) - 1
      /\ Head(s) = s[1]
      /\ \A i \in 1 .. (Len(s) - 1) : t[i] = s[i + 1]
  OBVIOUS
<1>2. DOMAIN t = 1 .. (Len(s) - 1) /\ DOMAIN s = 1 .. Len(s)
  BY <1>1
<1> HIDE DEF t
<1>3. s[1] \in Members(s)
  BY <1>1, <1>2 DEF Members
<1>4. Members(t) \subseteq Members(s)
  BY <1>1, <1>2 DEF Members
<1>5. Members(s) \subseteq {s[1]} \cup Members(t)
  <2>1. ASSUME NEW i \in DOMAIN s, i # 1 PROVE s[i] \in Members(t)
    <3>1. i - 1 \in DOMAIN t /\ t[i - 1] = s[i]
      BY <1>1, <1>2, <2>1
    <3>. QED BY <3>1 DEF Members
  <2>. QED BY <2>1 DEF Members
<1>6. ASSUME Distinct(s) PROVE Distinct(t) /\ s[1] \notin Members(t)
  <2>1. Distinct(t)
    <3>1. SUFFICES ASSUME NEW i \in DOMAIN t, NEW j \in DOMAIN t, t[i] = t[j]
                   PROVE  i = j
      BY DEF Distinct
    <3>2. s[i + 1] = s[j + 1] /\ i + 1 \in DOMAIN s /\ j + 1 \in DOMAIN s
      BY <1>1, <1>2, <3>1
    <3>3. i + 1 = j + 1
      BY <1>6, <3>2 DEF Distinct
    <3>. QED BY <1>2, <3>3
  <2>2. s[1] \notin Members(t)
    BY <1>1, <1>2, <1>6 DEF Distinct, Members
  <2>. QED BY <2>1, <2>2
<1>. QED BY <1>1, <1>3, <1>4, <1>5, <1>6 DEF t

\* settle_unread takes one copy, and there is but one.
LEMMA Removed ==
    ASSUME NEW S, NEW s \in Seq(S), NEW m, Distinct(s)
    PROVE  /\ Without(s, m) \in Seq(S)
           /\ Len(Without(s, m)) <= Len(s)
           /\ Members(Without(s, m)) = Members(s) \ {m}
           /\ Distinct(Without(s, m))
<1>1. CASE m \notin Members(s)
  BY <1>1 DEF Without
<1>2. CASE m \in Members(s)
  <2> DEFINE k == CHOOSE i \in DOMAIN s : s[i] = m
             t == [i \in 1 .. (Len(s) - 1) |-> IF i < k THEN s[i] ELSE s[i + 1]]
  <2>1. k \in 1 .. Len(s) /\ s[k] = m
    <3>1. \E i \in DOMAIN s : s[i] = m
      BY <1>2 DEF Members
    <3>2. k \in DOMAIN s /\ s[k] = m
      BY <3>1
    <3>. QED BY <3>2
  <2>2. Without(s, m) = t
    BY <1>2 DEF Without
  <2> HIDE DEF k
  <2>3. Len(s) - 1 \in Nat /\ DOMAIN t = 1 .. (Len(s) - 1) /\ DOMAIN s = 1 .. Len(s)
    BY <2>1
  <2>4. t \in Seq(S) /\ Len(t) = Len(s) - 1
    <3>1. \A i \in 1 .. (Len(s) - 1) : t[i] \in S
      BY <2>1
    <3>. QED BY <2>3, <3>1
  <2>5. ASSUME NEW i \in DOMAIN t
        PROVE  \E a \in DOMAIN s : /\ t[i] = s[a] /\ a # k
                                   /\ a = IF i < k THEN i ELSE i + 1
    BY <2>1, <2>3
  <2>6. ASSUME NEW a \in DOMAIN s, a # k
        PROVE  \E i \in DOMAIN t : t[i] = s[a]
    <3>1. CASE a < k
      BY <2>1, <2>3, <3>1
    <3>2. CASE a > k
      <4>1. a - 1 \in DOMAIN t /\ t[a - 1] = s[a]
        BY <2>1, <2>3, <3>2
      <4>. QED BY <4>1
    <3>. QED BY <2>1, <2>3, <2>6, <3>1, <3>2
  <2> HIDE DEF t
  <2>7. Members(t) \subseteq Members(s) \ {m}
    <3>1. ASSUME NEW i \in DOMAIN t PROVE t[i] \in Members(s) \ {m}
      <4>1. PICK a \in DOMAIN s : t[i] = s[a] /\ a # k
        BY <2>5
      <4>2. s[a] # s[k]
        BY <2>1, <2>3, <4>1 DEF Distinct
      <4>. QED BY <2>1, <4>1, <4>2 DEF Members
    <3>. QED BY <3>1 DEF Members
  <2>8. Members(s) \ {m} \subseteq Members(t)
    <3>1. ASSUME NEW a \in DOMAIN s, s[a] # m PROVE s[a] \in Members(t)
      <4>1. PICK i \in DOMAIN t : t[i] = s[a]
        BY <2>1, <2>6, <3>1
      <4>. QED BY <4>1 DEF Members
    <3>. QED BY <3>1 DEF Members
  <2>9. Distinct(t)
    <3>1. SUFFICES ASSUME NEW i \in DOMAIN t, NEW j \in DOMAIN t, t[i] = t[j]
                   PROVE  i = j
      BY DEF Distinct
    <3>2. PICK a \in DOMAIN s : t[i] = s[a] /\ a = IF i < k THEN i ELSE i + 1
      BY <2>5
    <3>3. PICK b \in DOMAIN s : t[j] = s[b] /\ b = IF j < k THEN j ELSE j + 1
      BY <2>5
    <3>4. a = b
      BY <3>1, <3>2, <3>3 DEF Distinct
    <3>. QED BY <2>1, <2>3, <3>2, <3>3, <3>4
  <2>. QED BY <2>1, <2>2, <2>4, <2>7, <2>8, <2>9
<1>. QED BY <1>1, <1>2

-----------------------------------------------------------------------------
(* The steps of the turn's task.                                           *)

LEMMA LogPromptKeeps ==
    ASSUME IInv, LogPrompt
    PROVE  IInv'
<1> DEFINE m == transcript[Len(log) + 1]
<1> USE DEF LogPrompt, turn, pending, chat
<1>1. /\ log \in Seq(Message) /\ transcript \in Seq(Message)
      /\ Len(log) \in Nat /\ Len(transcript) \in Nat
      /\ m \in Message /\ m \in Members(transcript)
  BY DEF IInv, TypeOK, Members
<1>2. m \notin Members(log)
  <2>1. ASSUME NEW i \in DOMAIN log PROVE log[i] # m
    <3>1. transcript[i] = log[i] /\ i # Len(log) + 1
      BY <1>1 DEF IInv, Opening
    <3>2. i \in DOMAIN transcript /\ Len(log) + 1 \in DOMAIN transcript
      BY <1>1
    <3>. QED BY <3>1, <3>2 DEF IInv, Opening, Distinct
  <2>. QED BY <2>1 DEF Members
<1>3. /\ log' \in Seq(Message) /\ Len(log') = Len(log) + 1
      /\ Members(log') = Members(log) \cup {m} /\ Distinct(log')
  BY <1>1, <1>2, Appended DEF IInv, LogOnce
<1>4. log' = Append(log, m)
  OBVIOUS
<1> HIDE DEF m
<1>5. TypeOK'
  BY <1>3 DEF IInv, TypeOK
<1>6. Acknowledged' /\ WaitsOnce' /\ QueueIsInLedger'
  BY <1>1, <1>3 DEF IInv, Acknowledged, WaitsOnce, QueueIsInLedger, Apart
<1>7. SteersAreAccountedFor' /\ Noting'
  BY <1>3 DEF IInv, SteersAreAccountedFor, Noting
<1>8. Unlogged'
  BY <1>1, <1>3 DEF IInv, Unlogged, Opening, Apart
<1>9. Opening'
  <2>1. \A i \in 1 .. Len(log') : transcript[i] = log'[i]
    BY <1>1, <1>4 DEF IInv, Opening, m
  <2>. QED BY <1>1, <1>3, <2>1 DEF IInv, Opening, Apart
<1>10. LogOnce'
  BY <1>1, <1>3 DEF IInv, LogOnce, Opening, Apart
<1>. QED BY <1>5, <1>6, <1>7, <1>8, <1>9, <1>10 DEF IInv

\* An exit empties the queue; what was in it stays in the ledger.
LEMMA LeaveKeeps ==
    ASSUME IInv, NEW how \in {"completed", "interrupted"}, Leave(how),
           phase # "noting", batch = <<>>,
           phase # "idle", phase # "ended"
    PROVE  IInv'
<1> USE DEF Leave, HandBack, chat
<1>1. TypeOK'
  <2>1. /\ phase' \in Active \cup {"idle", "ended"}
        /\ outcome' \in {"none", "completed", "interrupted", "failed"}
        /\ steered' \cup carried' \subseteq Message
    BY DEF IInv, TypeOK, Active
  <2>2. {aborted', closed', cancelled', stopped'} \subseteq BOOLEAN
    BY DEF IInv, TypeOK
  <2>3. /\ queue' \in Seq(Message) /\ batch' \in Seq(Message)
        /\ unread' \in Seq(Message) /\ log' \in Seq(Message)
        /\ transcript' \in Seq(Message) /\ returned' \in Seq(Message)
        /\ accepted' \in Seq(Message)
    BY NoMembers DEF IInv, TypeOK
  <2>4. Len(queue') <= MaxSteers /\ Len(unread') <= MaxSteers
    BY NoMembers, SteeringAssumption DEF IInv, TypeOK
  <2>. QED BY <2>1, <2>2, <2>3, <2>4 DEF TypeOK
<1>2. Acknowledged' /\ WaitsOnce' /\ QueueIsInLedger'
  BY NoMembers DEF IInv, Acknowledged, WaitsOnce, QueueIsInLedger, Apart
<1>3. SteersAreAccountedFor' /\ Noting' /\ Unlogged' /\ Opening' /\ LogOnce'
  BY DEF IInv, SteersAreAccountedFor, Noting, Unlogged, Opening, LogOnce, Apart
<1>. QED BY <1>1, <1>2, <1>3 DEF IInv

LEMMA OpenedKeeps ==
    ASSUME IInv, Opened
    PROVE  IInv'
<1>1. batch = <<>>
  BY DEF Opened, IInv, WaitsOnce
<1>2. CASE Leave("completed")
  BY <1>1, <1>2, LeaveKeeps DEF Opened
<1>3. CASE phase' = "boundary" /\ UNCHANGED <<outcome, batch, pending, log, chat>>
  BY <1>3 DEF Opened, pending, chat, IInv, TypeOK, Active, Acknowledged, WaitsOnce,
     QueueIsInLedger, SteersAreAccountedFor, Noting, Unlogged, Opening, LogOnce
<1>. QED BY <1>2, <1>3 DEF Opened

LEMMA DrainKeeps ==
    ASSUME IInv, Drain
    PROVE  IInv'
<1> USE DEF Drain, chat
<1>1. TypeOK'
  <2>1. /\ phase' \in Active \cup {"idle", "ended"}
        /\ outcome' \in {"none", "completed", "interrupted", "failed"}
        /\ steered' \cup carried' \subseteq Message
    BY DEF IInv, TypeOK, Active
  <2>2. {aborted', closed', cancelled', stopped'} \subseteq BOOLEAN
    BY DEF IInv, TypeOK
  <2>3. /\ queue' \in Seq(Message) /\ batch' \in Seq(Message)
        /\ unread' \in Seq(Message) /\ log' \in Seq(Message)
        /\ transcript' \in Seq(Message) /\ returned' \in Seq(Message)
        /\ accepted' \in Seq(Message)
    BY NoMembers DEF IInv, TypeOK
  <2>4. Len(queue') <= MaxSteers /\ Len(unread') <= MaxSteers
    BY NoMembers, SteeringAssumption DEF IInv, TypeOK
  <2>. QED BY <2>1, <2>2, <2>3, <2>4 DEF TypeOK
<1>2. Acknowledged' /\ WaitsOnce'
  BY NoMembers DEF IInv, Acknowledged, WaitsOnce, Apart
<1>3. QueueIsInLedger'
  BY NoMembers DEF IInv, QueueIsInLedger
<1>4. SteersAreAccountedFor' /\ Noting' /\ Unlogged' /\ Opening' /\ LogOnce'
  BY DEF IInv, SteersAreAccountedFor, Noting, Unlogged, Opening, LogOnce, Apart
<1>. QED BY <1>1, <1>2, <1>3, <1>4 DEF IInv

LEMMA ApplyKeeps ==
    ASSUME IInv, Apply
    PROVE  IInv'
<1> DEFINE m == Head(batch)
<1> USE DEF Apply, pending, chat
<1>1. /\ batch \in Seq(Message) /\ log \in Seq(Message)
      /\ Members(batch) \subseteq Members(unread)
  BY DEF IInv, TypeOK, QueueIsInLedger
<1>2. m \in Members(batch) /\ m \in Message
  BY <1>1, Split, MembersTyped
<1>3. m \notin Members(log)
  BY <1>1, <1>2 DEF IInv, Unlogged, Apart
<1>4. /\ log' \in Seq(Message)
      /\ Members(log') = Members(log) \cup {m} /\ Distinct(log')
  BY <1>1, <1>2, <1>3, Appended DEF IInv, LogOnce
<1> HIDE DEF m
<1>5. TypeOK'
  BY <1>4 DEF IInv, TypeOK, Active
<1>6. Acknowledged' /\ WaitsOnce' /\ QueueIsInLedger'
  BY <1>1, <1>2, <1>4 DEF IInv, Acknowledged, WaitsOnce, QueueIsInLedger, Apart
<1>7. SteersAreAccountedFor' /\ Unlogged' /\ Opening'
  BY <1>4 DEF IInv, SteersAreAccountedFor, Unlogged, Opening
<1>8. Noting'
  <2>1. Head(batch') = m /\ m \in Members(log')
    BY <1>4 DEF m
  <2>2. ASSUME NEW x \in Members(unread), x # m PROVE x \notin Members(log')
    BY <1>4, <2>2 DEF IInv, Unlogged, Apart
  <2>. QED BY <2>1, <2>2 DEF Noting
<1>9. LogOnce'
  BY <1>1, <1>2, <1>4 DEF IInv, LogOnce, Apart
<1>. QED BY <1>5, <1>6, <1>7, <1>8, <1>9 DEF IInv

LEMMA AppliedKeeps ==
    ASSUME IInv, Applied
    PROVE  IInv'
<1> DEFINE m == Head(batch)
<1> USE DEF Applied, pending
<1>1. /\ batch \in Seq(Message) /\ unread \in Seq(Message) /\ batch # <<>>
      /\ Distinct(batch) /\ Distinct(unread)
      /\ m \in Members(log)
      /\ \A x \in Members(unread) : x # m => x \notin Members(log)
  BY DEF IInv, TypeOK, WaitsOnce, Noting
<1>2. /\ unread' \in Seq(Message) /\ Len(unread') <= Len(unread)
      /\ Members(unread') = Members(unread) \ {m} /\ Distinct(unread')
  BY <1>1, Removed
<1>3. /\ batch' \in Seq(Message) /\ Distinct(batch')
      /\ m \notin Members(batch')
      /\ Members(batch) = {m} \cup Members(batch')
  BY <1>1, Split
<1>4. m \notin Members(queue)
  BY <1>3 DEF IInv, WaitsOnce, Apart
<1> HIDE DEF m
<1>5. TypeOK'
  <2>1. /\ phase' \in Active \cup {"idle", "ended"}
        /\ outcome' \in {"none", "completed", "interrupted", "failed"}
        /\ steered' \cup carried' \subseteq Message
    BY DEF IInv, TypeOK, Active
  <2>2. {aborted', closed', cancelled', stopped'} \subseteq BOOLEAN
    BY DEF IInv, TypeOK
  <2>3. /\ queue' \in Seq(Message) /\ batch' \in Seq(Message)
        /\ unread' \in Seq(Message) /\ log' \in Seq(Message)
        /\ transcript' \in Seq(Message) /\ returned' \in Seq(Message)
        /\ accepted' \in Seq(Message)
    BY <1>2, <1>3 DEF IInv, TypeOK
  <2>4. Len(queue') <= MaxSteers /\ Len(unread') <= MaxSteers
    BY <1>1, <1>2, SteeringAssumption DEF IInv, TypeOK
  <2>. QED BY <2>1, <2>2, <2>3, <2>4 DEF TypeOK
<1>6. Acknowledged' /\ WaitsOnce'
  BY <1>2, <1>3 DEF IInv, Acknowledged, WaitsOnce, Apart
<1>7. QueueIsInLedger'
  BY <1>2, <1>3, <1>4 DEF IInv, QueueIsInLedger
<1>8. SteersAreAccountedFor'
  BY <1>1, <1>2 DEF IInv, SteersAreAccountedFor
<1>9. Noting' /\ Opening'
  BY DEF IInv, Noting, Opening
<1>10. Unlogged'
  BY <1>1, <1>2 DEF Unlogged, Apart
<1>11. LogOnce'
  BY <1>2 DEF IInv, LogOnce, Apart
<1>. QED BY <1>5, <1>6, <1>7, <1>8, <1>9, <1>10, <1>11 DEF IInv

LEMMA BetweenTurnsKeeps ==
    ASSUME IInv, BoundaryCancelled \/ Begin \/ Work
    PROVE  IInv'
<1>1. /\ batch = <<>>
      /\ phase \in {"boundary", "applying", "working"}
  BY DEF BoundaryCancelled, Begin, Work, IInv, WaitsOnce
<1>2. ASSUME NEW how \in {"completed", "interrupted"}, Leave(how) PROVE IInv'
  BY <1>1, <1>2, LeaveKeeps
<1>3. ASSUME phase' \in {"boundary", "working"},
             UNCHANGED <<outcome, batch, pending, log, chat>>
      PROVE  IInv'
  BY <1>1, <1>3 DEF pending, chat, IInv, TypeOK, Active, Acknowledged, WaitsOnce,
     QueueIsInLedger, SteersAreAccountedFor, Noting, Unlogged, Opening, LogOnce
<1>. QED BY <1>2, <1>3 DEF BoundaryCancelled, Begin, Work

\* The queue and the batch go with the run; the ledger stays.
LEMMA EndKeeps ==
    ASSUME IInv, Return \/ Fail \/ Die
    PROVE  IInv'
<1> USE DEF Return, Fail, Die, End, chat
<1>1. TypeOK'
  <2>1. /\ phase' \in Active \cup {"idle", "ended"}
        /\ outcome' \in {"none", "completed", "interrupted", "failed"}
        /\ steered' \cup carried' \subseteq Message
    BY DEF IInv, TypeOK, Active
  <2>2. {aborted', closed', cancelled', stopped'} \subseteq BOOLEAN
    BY DEF IInv, TypeOK
  <2>3. /\ queue' \in Seq(Message) /\ batch' \in Seq(Message)
        /\ unread' \in Seq(Message) /\ log' \in Seq(Message)
        /\ transcript' \in Seq(Message) /\ returned' \in Seq(Message)
        /\ accepted' \in Seq(Message)
    BY NoMembers DEF IInv, TypeOK
  <2>4. Len(queue') <= MaxSteers /\ Len(unread') <= MaxSteers
    BY NoMembers, SteeringAssumption DEF IInv, TypeOK
  <2>. QED BY <2>1, <2>2, <2>3, <2>4 DEF TypeOK
<1>2. Acknowledged' /\ WaitsOnce' /\ QueueIsInLedger'
  BY NoMembers DEF IInv, Acknowledged, WaitsOnce, QueueIsInLedger, Apart
<1>3. SteersAreAccountedFor' /\ Noting' /\ Opening' /\ LogOnce'
  BY DEF IInv, SteersAreAccountedFor, Noting, Opening, LogOnce
<1>4. Unlogged'
  BY DEF IInv, Unlogged, WaitsOnce, Active
<1>. QED BY <1>1, <1>2, <1>3, <1>4 DEF IInv

-----------------------------------------------------------------------------
(* The steps of the backend's loop.                                        *)

LEMMA PromptKeeps ==
    ASSUME IInv, NEW m \in Message, Prompt(m)
    PROVE  IInv'
<1> USE DEF Prompt, Start
<1>1. /\ transcript = log /\ unread = <<>> /\ batch = <<>>
      /\ log \in Seq(Message) /\ accepted \in Seq(Message)
      /\ Distinct(log)
      /\ Members(log) \subseteq Members(accepted)
      /\ Members(returned) \subseteq Members(accepted)
  BY DEF IInv, Opening, WaitsOnce, LogOnce, TypeOK, Acknowledged
<1>2. m \notin Members(log) /\ m \notin Members(returned)
  BY <1>1
<1>3. /\ accepted' \in Seq(Message)
      /\ Members(accepted') = Members(accepted) \cup {m}
  BY <1>1, Appended
<1>4. /\ transcript' \in Seq(Message) /\ Len(transcript') = Len(log) + 1
      /\ Members(transcript') = Members(log) \cup {m} /\ Distinct(transcript')
  BY <1>1, <1>2, Appended
<1>5. \A i \in 1 .. Len(log) : transcript'[i] = log[i]
  BY <1>1
<1>6. TypeOK'
  <2>1. /\ phase' \in Active \cup {"idle", "ended"}
        /\ outcome' \in {"none", "completed", "interrupted", "failed"}
        /\ steered' \cup carried' \subseteq Message
    BY <1>1 DEF IInv, TypeOK, Active
  <2>2. {aborted', closed', cancelled', stopped'} \subseteq BOOLEAN
    BY DEF IInv, TypeOK
  <2>3. /\ queue' \in Seq(Message) /\ batch' \in Seq(Message)
        /\ unread' \in Seq(Message) /\ log' \in Seq(Message)
        /\ transcript' \in Seq(Message) /\ returned' \in Seq(Message)
        /\ accepted' \in Seq(Message)
    BY <1>3, <1>4, NoMembers DEF IInv, TypeOK
  <2>4. Len(queue') <= MaxSteers /\ Len(unread') <= MaxSteers
    BY <1>3, NoMembers, SteeringAssumption DEF IInv, TypeOK
  <2>. QED BY <2>1, <2>2, <2>3, <2>4 DEF TypeOK
<1>7. Acknowledged' /\ WaitsOnce' /\ QueueIsInLedger'
  BY <1>1, <1>3, <1>4, NoMembers
     DEF IInv, Acknowledged, WaitsOnce, QueueIsInLedger, Apart
<1>8. SteersAreAccountedFor' /\ Noting' /\ Unlogged' /\ LogOnce'
  BY <1>1, NoMembers
     DEF IInv, SteersAreAccountedFor, Noting, Unlogged, LogOnce, Apart
<1>9. Opening'
  <2>1. Len(log) <= Len(transcript')
    BY <1>1, <1>4
  <2>2. Apart(transcript', unread')
    BY <1>1, NoMembers DEF Apart
  <2>3. stopped' \/ Apart(transcript', returned')
    BY <1>2, <1>4 DEF IInv, LogOnce, Apart
  <2>. QED BY <1>4, <1>5, <2>1, <2>2, <2>3 DEF Opening
<1>. QED BY <1>6, <1>7, <1>8, <1>9 DEF IInv

LEMMA SteerKeeps ==
    ASSUME IInv, NEW m \in Message, Steer(m)
    PROVE  IInv'
<1> USE DEF Steer, Admit, turn
<1>1. /\ unread \in Seq(Message) /\ queue \in Seq(Message)
      /\ accepted \in Seq(Message)
      /\ Distinct(unread) /\ Distinct(queue)
      /\ Members(queue) \subseteq Members(unread)
      /\ Members(batch) \subseteq Members(unread)
      /\ Members(unread) \subseteq Members(accepted)
      /\ Len(unread) \in Nat /\ Len(queue) \in Nat
  BY DEF IInv, TypeOK, WaitsOnce, QueueIsInLedger, Acknowledged
<1>2. /\ m \notin Members(unread) /\ m \notin Members(log)
      /\ m \notin Members(transcript) /\ m \notin Members(returned)
      /\ m \notin Members(queue) /\ m \notin Members(batch)
  BY <1>1 DEF IInv, Acknowledged
<1>3. /\ unread' \in Seq(Message) /\ Len(unread') = Len(unread) + 1
      /\ Members(unread') = Members(unread) \cup {m} /\ Distinct(unread')
  BY <1>1, <1>2, Appended
<1>4. /\ queue' \in Seq(Message) /\ Len(queue') = Len(queue) + 1
      /\ Members(queue') = Members(queue) \cup {m} /\ Distinct(queue')
  BY <1>1, <1>2, Appended
<1>5. /\ accepted' \in Seq(Message)
      /\ Members(accepted') = Members(accepted) \cup {m}
  BY <1>1, Appended
<1>6. TypeOK'
  <2>1. /\ phase' \in Active \cup {"idle", "ended"}
        /\ outcome' \in {"none", "completed", "interrupted", "failed"}
        /\ steered' \cup carried' \subseteq Message
    BY <1>1 DEF IInv, TypeOK, Active
  <2>2. {aborted', closed', cancelled', stopped'} \subseteq BOOLEAN
    BY DEF IInv, TypeOK
  <2>3. /\ queue' \in Seq(Message) /\ batch' \in Seq(Message)
        /\ unread' \in Seq(Message) /\ log' \in Seq(Message)
        /\ transcript' \in Seq(Message) /\ returned' \in Seq(Message)
        /\ accepted' \in Seq(Message)
    BY <1>3, <1>4, <1>5 DEF IInv, TypeOK
  <2>4. Len(queue') <= MaxSteers /\ Len(unread') <= MaxSteers
    BY <1>1, <1>3, <1>4, SteeringAssumption DEF IInv, TypeOK
  <2>. QED BY <2>1, <2>2, <2>3, <2>4 DEF TypeOK
<1>7. Acknowledged' /\ QueueIsInLedger'
  BY <1>3, <1>4, <1>5 DEF IInv, Acknowledged, QueueIsInLedger
<1>8. WaitsOnce'
  BY <1>2, <1>3, <1>4 DEF IInv, WaitsOnce, Apart
<1>9. SteersAreAccountedFor'
  BY <1>3 DEF IInv, SteersAreAccountedFor
<1>10. Noting' /\ Unlogged' /\ LogOnce'
  BY <1>2, <1>3 DEF IInv, Noting, Unlogged, LogOnce, Apart
<1>11. Opening'
  BY <1>2, <1>3 DEF IInv, Opening, Apart
<1>. QED BY <1>6, <1>7, <1>8, <1>9, <1>10, <1>11 DEF IInv

LEMMA StopKeeps ==
    ASSUME IInv, Cancel \/ Abort
    PROVE  IInv'
<1> USE DEF Cancel, Abort, turn, pending
<1>1. TypeOK'
  <2>1. /\ phase' \in Active \cup {"idle", "ended"}
        /\ outcome' \in {"none", "completed", "interrupted", "failed"}
        /\ steered' \cup carried' \subseteq Message
    BY IInv DEF IInv, TypeOK, Active
  <2>2. {aborted', closed', cancelled', stopped'} \subseteq BOOLEAN
    BY DEF IInv, TypeOK
  <2>3. /\ queue' \in Seq(Message) /\ batch' \in Seq(Message)
        /\ unread' \in Seq(Message) /\ log' \in Seq(Message)
        /\ transcript' \in Seq(Message) /\ returned' \in Seq(Message)
        /\ accepted' \in Seq(Message)
    BY IInv DEF IInv, TypeOK
  <2>4. Len(queue') <= MaxSteers /\ Len(unread') <= MaxSteers
    BY IInv, SteeringAssumption DEF IInv, TypeOK
  <2>. QED BY <2>1, <2>2, <2>3, <2>4 DEF TypeOK
<1>2. Acknowledged' /\ WaitsOnce' /\ QueueIsInLedger' /\ SteersAreAccountedFor'
  BY DEF IInv, Acknowledged, WaitsOnce, QueueIsInLedger, SteersAreAccountedFor
<1>3. Noting' /\ Unlogged' /\ LogOnce'
  BY DEF IInv, Noting, Unlogged, LogOnce
<1>4. Opening'
  BY DEF IInv, Opening, Active
<1>. QED BY <1>1, <1>2, <1>3, <1>4 DEF IInv

\* After a normal end the ledger becomes prompts, which extend the log.
LEMMA CarryKeeps ==
    ASSUME IInv, Join, Completed, Carry(unread)
    PROVE  IInv'
<1> USE DEF Join, Carry, Start
<1>1. /\ unread \in Seq(Message) /\ log \in Seq(Message) /\ batch = <<>>
      /\ Distinct(log) /\ Distinct(unread)
      /\ Apart(log, unread) /\ Apart(unread, returned)
      /\ Len(unread) \in Nat /\ Len(log) \in Nat
  BY DEF IInv, TypeOK, WaitsOnce, LogOnce, Unlogged, Completed, Apart
<1>2. /\ transcript' \in Seq(Message)
      /\ Len(transcript') = Len(log) + Len(unread)
      /\ \A i \in 1 .. Len(log) : transcript'[i] = log[i]
      /\ Members(transcript') = Members(log) \cup Members(unread)
      /\ Distinct(transcript')
  BY <1>1, Joined
<1>3. Members(unread) \subseteq Message
  BY <1>1, MembersTyped
<1>4. TypeOK'
  <2>1. /\ phase' \in Active \cup {"idle", "ended"}
        /\ outcome' \in {"none", "completed", "interrupted", "failed"}
        /\ steered' \cup carried' \subseteq Message
    BY <1>3 DEF IInv, TypeOK, Active
  <2>2. {aborted', closed', cancelled', stopped'} \subseteq BOOLEAN
    BY DEF IInv, TypeOK
  <2>3. /\ queue' \in Seq(Message) /\ batch' \in Seq(Message)
        /\ unread' \in Seq(Message) /\ log' \in Seq(Message)
        /\ transcript' \in Seq(Message) /\ returned' \in Seq(Message)
        /\ accepted' \in Seq(Message)
    BY <1>2, NoMembers DEF IInv, TypeOK
  <2>4. Len(queue') <= MaxSteers /\ Len(unread') <= MaxSteers
    BY <1>2, NoMembers, SteeringAssumption DEF IInv, TypeOK
  <2>. QED BY <2>1, <2>2, <2>3, <2>4 DEF TypeOK
<1>5. Acknowledged' /\ WaitsOnce' /\ QueueIsInLedger'
  BY <1>1, <1>2, NoMembers
     DEF IInv, Acknowledged, WaitsOnce, QueueIsInLedger, Apart
<1>6. SteersAreAccountedFor'
  BY DEF IInv, SteersAreAccountedFor
<1>7. Noting' /\ Unlogged' /\ LogOnce'
  BY NoMembers DEF IInv, Noting, Unlogged, LogOnce, Apart
<1>8. Opening'
  <2>1. Len(log') <= Len(transcript')
    BY <1>1, <1>2
  <2>2. Apart(transcript', unread')
    BY NoMembers DEF Apart
  <2>3. stopped' \/ Apart(transcript', returned')
    BY <1>1, <1>2 DEF IInv, LogOnce, Apart
  <2>. QED BY <1>2, <2>1, <2>2, <2>3 DEF Opening
<1>. QED BY <1>4, <1>5, <1>6, <1>7, <1>8 DEF IInv

\* After any other end the ledger goes back to the user.
LEMMA RestKeeps ==
    ASSUME IInv, Join, Rest(unread)
    PROVE  IInv'
<1> USE DEF Join, Rest, pending
<1>1. /\ unread \in Seq(Message) /\ returned \in Seq(Message) /\ batch = <<>>
      /\ \/ Apart(unread, log) \/ stopped
      /\ stopped \/ Apart(log, returned)
  BY DEF IInv, TypeOK, WaitsOnce, Unlogged, LogOnce
<1>2. /\ returned' \in Seq(Message)
      /\ Members(returned') = Members(returned) \cup Members(unread)
  BY <1>1, Joined
<1>3. queue' = <<>> /\ batch' = <<>>
  BY <1>1 DEF IInv, WaitsOnce
<1>4. TypeOK'
  <2>1. /\ phase' \in Active \cup {"idle", "ended"}
        /\ outcome' \in {"none", "completed", "interrupted", "failed"}
        /\ steered' \cup carried' \subseteq Message
    BY <1>1 DEF IInv, TypeOK, Active
  <2>2. {aborted', closed', cancelled', stopped'} \subseteq BOOLEAN
    BY DEF IInv, TypeOK
  <2>3. /\ queue' \in Seq(Message) /\ batch' \in Seq(Message)
        /\ unread' \in Seq(Message) /\ log' \in Seq(Message)
        /\ transcript' \in Seq(Message) /\ returned' \in Seq(Message)
        /\ accepted' \in Seq(Message)
    BY <1>2, NoMembers DEF IInv, TypeOK
  <2>4. Len(queue') <= MaxSteers /\ Len(unread') <= MaxSteers
    BY <1>2, NoMembers, SteeringAssumption DEF IInv, TypeOK
  <2>. QED BY <2>1, <2>2, <2>3, <2>4 DEF TypeOK
<1>5. Acknowledged'
  BY <1>2, NoMembers DEF IInv, Acknowledged
<1>6. WaitsOnce'
  BY <1>3, NoMembers DEF IInv, WaitsOnce, Apart
<1>7. QueueIsInLedger'
  BY <1>3, NoMembers DEF QueueIsInLedger
<1>8. SteersAreAccountedFor'
  BY <1>2 DEF IInv, SteersAreAccountedFor
<1>9. Noting' /\ Unlogged' /\ Opening'
  BY NoMembers DEF Noting, Unlogged, Opening, Apart
<1>10. LogOnce'
  BY <1>1, <1>2, NoMembers DEF IInv, LogOnce, Apart
<1>. QED BY <1>4, <1>5, <1>6, <1>7, <1>8, <1>9, <1>10 DEF IInv

-----------------------------------------------------------------------------
(* The invariant, and what follows from it.                                *)

LEMMA InitKeeps ==
    ASSUME Init
    PROVE  IInv
<1> USE DEF Init
<1>1. TypeOK
  <2>1. {aborted, closed, cancelled, stopped} \subseteq BOOLEAN
    OBVIOUS
  <2>. QED BY <2>1, NoMembers, SteeringAssumption DEF TypeOK
<1>2. Acknowledged /\ WaitsOnce /\ QueueIsInLedger /\ SteersAreAccountedFor
  BY NoMembers DEF Acknowledged, WaitsOnce, QueueIsInLedger,
     SteersAreAccountedFor, Apart
<1>3. Noting /\ Unlogged /\ Opening /\ LogOnce
  BY NoMembers DEF Noting, Unlogged, Opening, LogOnce, Apart
<1>. QED BY <1>1, <1>2, <1>3 DEF IInv

LEMMA StutterKeeps ==
    ASSUME IInv, UNCHANGED vars
    PROVE  IInv'
BY DEF vars, IInv, TypeOK, Acknowledged, WaitsOnce, QueueIsInLedger,
   SteersAreAccountedFor, Noting, Unlogged, Opening, LogOnce

LEMMA StepKeeps ==
    ASSUME IInv, [Next]_vars
    PROVE  IInv'
<1>1. CASE Progress
  BY <1>1, LogPromptKeeps, OpenedKeeps, DrainKeeps, ApplyKeeps, AppliedKeeps,
     BetweenTurnsKeeps, EndKeeps DEF Progress
<1>2. CASE Fail \/ Die
  BY <1>2, EndKeeps
<1>3. CASE Cancel \/ Abort
  BY <1>3, StopKeeps
<1>4. CASE Join
  BY <1>4, CarryKeeps, RestKeeps DEF Join
<1>5. ASSUME NEW m \in Message, Prompt(m) \/ Steer(m) PROVE IInv'
  BY <1>5, PromptKeeps, SteerKeeps
<1>6. CASE UNCHANGED vars
  BY <1>6, StutterKeeps
<1>. QED BY <1>1, <1>2, <1>3, <1>4, <1>5, <1>6 DEF Next

\* The invariant holds along every run: turns that finish, are cancelled,
\* fail at an append or are force-stopped, and joins between them.
THEOREM InductiveInvariant == Spec => []IInv
<1>1. Init => IInv
  BY InitKeeps
<1>2. IInv /\ [Next]_vars => IInv'
  BY StepKeeps
<1>. QED BY <1>1, <1>2, PTL DEF Spec

\* The queue and the ledger keep to their bound, and every variable to its
\* type (Pending, Unread).
THEOREM TypeCorrect == Spec => []TypeOK
<1>1. IInv => TypeOK
  BY DEF IInv
<1>. QED BY <1>1, InductiveInvariant, PTL

\* What the queue or a drained batch holds is in the ledger, so dropping the
\* queue loses nothing (admit_steer, InterruptQueue::drop).
THEOREM LedgerCoversQueue == Spec => []QueueIsInLedger
<1>1. IInv => QueueIsInLedger
  BY DEF IInv
<1>. QED BY <1>1, InductiveInvariant, PTL

\* A steer is unread, read, returned or carried on, at every step of every
\* exit (turn_boundary, return_unapplied_steers, take_unread).
THEOREM SteersKept == Spec => []SteersAreAccountedFor
<1>1. IInv => SteersAreAccountedFor
  BY DEF IInv
<1>. QED BY <1>1, InductiveInvariant, PTL

\* The log holds a message once, and unless a turn was force-stopped no
\* message is both read and handed back (settle_unread).
THEOREM EachReadOnce == Spec => []ReadOnce
<1>1. ASSUME IInv PROVE ReadOnce
  <2>1. Distinct(log) /\ (stopped \/ Apart(log, returned))
    BY <1>1 DEF IInv, LogOnce
  <2>2. \A i, j \in DOMAIN log : log[i] = log[j] => i = j
    BY <2>1 DEF Distinct
  <2>3. ~stopped => \A m \in Members(log) : m \notin Members(returned)
    BY <2>1 DEF Apart
  <2>. QED BY <2>2, <2>3 DEF ReadOnce
<1>. QED BY <1>1, InductiveInvariant, PTL

-----------------------------------------------------------------------------
(* Order.  o is the order in which messages were acknowledged.             *)

Ordered(s, o) == \A i, j \in DOMAIN s : i < j => Before(o, s[i], s[j])
Precedes(s, t, o) == \A a \in Members(s), b \in Members(t) : Before(o, a, b)

Sorted ==
    /\ Ordered(log, accepted) /\ Ordered(unread, accepted)
    /\ Ordered(queue, accepted) /\ Ordered(batch, accepted)
    /\ Precedes(batch, queue, accepted)

\* Until the exit drains the queue, what is unread is in it or in the batch.
Waiting ==
    phase \in Active \ {"leaving"} =>
        Members(unread) \subseteq Members(batch) \cup Members(queue)

PromptsFirst ==
    phase = "opening" =>
        /\ Ordered(transcript, accepted)
        /\ Precedes(transcript, unread, accepted)

NotedFirst ==
    phase = "noting" =>
        \A a \in Members(log), b \in Members(unread) :
            b # Head(batch) => Before(accepted, a, b)

ReadFirst ==
    phase # "noting" =>
        \/ Precedes(log, unread, accepted)
        \/ phase = "ended" /\ outcome = "failed"

\* Everything that waits is in the order it was sent, after what is read.
OrderInv == Sorted /\ Waiting /\ PromptsFirst /\ NotedFirst /\ ReadFirst

LEMMA NoneOrdered ==
    ASSUME NEW o, NEW s
    PROVE  Ordered(<<>>, o) /\ Precedes(s, <<>>, o) /\ Precedes(<<>>, s, o)
BY NoMembers DEF Ordered, Precedes

\* A message acknowledged now comes after all others and moves none.
LEMMA OrderGrows ==
    ASSUME NEW o \in Seq(Message), NEW m \in Message
    PROVE  /\ \A a, b : Before(o, a, b) => Before(Append(o, m), a, b)
           /\ \A a \in Members(o) : Before(Append(o, m), a, m)
           /\ \A s : Ordered(s, o) => Ordered(s, Append(o, m))
           /\ \A s, t : Precedes(s, t, o) => Precedes(s, t, Append(o, m))
<1> DEFINE u == Append(o, m)
<1>1. /\ DOMAIN u = 1 .. (Len(o) + 1) /\ DOMAIN o = 1 .. Len(o) /\ Len(o) \in Nat
      /\ \A i \in 1 .. Len(o) : u[i] = o[i]
      /\ u[Len(o) + 1] = m
  OBVIOUS
<1> HIDE DEF u
<1>2. \A a, b : Before(o, a, b) => Before(u, a, b)
  BY <1>1 DEF Before
<1>3. ASSUME NEW a \in Members(o) PROVE Before(u, a, m)
  <2>1. PICK i \in DOMAIN o : o[i] = a
    BY DEF Members
  <2>2. i \in DOMAIN u /\ Len(o) + 1 \in DOMAIN u /\ i < Len(o) + 1
    BY <1>1, <2>1
  <2>. QED BY <1>1, <2>1, <2>2 DEF Before
<1>4. \A s : Ordered(s, o) => Ordered(s, u)
  BY <1>2 DEF Ordered
<1>5. \A s, t : Precedes(s, t, o) => Precedes(s, t, u)
  BY <1>2 DEF Precedes
<1>. QED BY <1>2, <1>3, <1>4, <1>5 DEF u

LEMMA OrderedAppended ==
    ASSUME NEW o, NEW s \in Seq(Message), NEW m \in Message,
           Ordered(s, o), \A a \in Members(s) : Before(o, a, m)
    PROVE  Ordered(Append(s, m), o)
<1> DEFINE t == Append(s, m)
<1>1. /\ DOMAIN t = 1 .. (Len(s) + 1) /\ DOMAIN s = 1 .. Len(s) /\ Len(s) \in Nat
      /\ \A i \in 1 .. Len(s) : t[i] = s[i]
      /\ t[Len(s) + 1] = m
  OBVIOUS
<1> HIDE DEF t
<1>2. \A i \in DOMAIN s : Before(o, s[i], m)
  BY DEF Members
<1>3. Ordered(t, o)
  BY <1>1, <1>2 DEF Ordered
<1>. QED BY <1>3 DEF t

LEMMA OrderedJoined ==
    ASSUME NEW o, NEW s \in Seq(Message), NEW t \in Seq(Message),
           Ordered(s, o), Ordered(t, o), Precedes(s, t, o)
    PROVE  Ordered(s \o t, o)
<1> DEFINE u == s \o t
<1>1. /\ DOMAIN u = 1 .. (Len(s) + Len(t))
      /\ DOMAIN s = 1 .. Len(s) /\ DOMAIN t = 1 .. Len(t)
      /\ Len(s) \in Nat /\ Len(t) \in Nat
      /\ \A i \in 1 .. Len(s) : u[i] = s[i]
      /\ \A i \in 1 .. (Len(s) + Len(t)) : i > Len(s) => u[i] = t[i - Len(s)]
  OBVIOUS
<1> HIDE DEF u
<1>2. SUFFICES ASSUME NEW i \in DOMAIN u, NEW j \in DOMAIN u, i < j
               PROVE  Before(o, u[i], u[j])
  BY DEF Ordered, u
<1>3. CASE j <= Len(s)
  BY <1>1, <1>2, <1>3 DEF Ordered
<1>4. CASE i <= Len(s) /\ ~(j <= Len(s))
  <2>1. j - Len(s) \in DOMAIN t /\ u[j] = t[j - Len(s)]
    BY <1>1, <1>4
  <2>2. u[i] \in Members(s) /\ u[j] \in Members(t)
    BY <1>1, <1>4, <2>1 DEF Members
  <2>. QED BY <2>2 DEF Precedes
<1>5. CASE ~(i <= Len(s))
  <2>1. /\ i - Len(s) \in DOMAIN t /\ u[i] = t[i - Len(s)]
        /\ j - Len(s) \in DOMAIN t /\ u[j] = t[j - Len(s)]
        /\ i - Len(s) < j - Len(s)
    BY <1>1, <1>2, <1>5
  <2>. QED BY <2>1 DEF Ordered
<1>. QED BY <1>1, <1>2, <1>3, <1>4, <1>5

LEMMA OrderedSplit ==
    ASSUME NEW o, NEW s \in Seq(Message), s # <<>>, Ordered(s, o)
    PROVE  /\ Ordered(Tail(s), o)
           /\ \A b \in Members(Tail(s)) : Before(o, Head(s), b)
<1> DEFINE t == Tail(s)
<1>1. /\ Len(s) \in Nat \ {0} /\ Head(s) = s[1]
      /\ DOMAIN t = 1 .. (Len(s) - 1) /\ DOMAIN s = 1 .. Len(s)
      /\ \A i \in 1 .. (Len(s) - 1) : t[i] = s[i + 1]
  OBVIOUS
<1> HIDE DEF t
<1>2. Ordered(t, o)
  BY <1>1 DEF Ordered
<1>3. ASSUME NEW i \in DOMAIN t PROVE Before(o, s[1], t[i])
  BY <1>1 DEF Ordered
<1>. QED BY <1>1, <1>2, <1>3 DEF t, Members

LEMMA OrderedRemoved ==
    ASSUME NEW o, NEW s \in Seq(Message), NEW m, Ordered(s, o)
    PROVE  Ordered(Without(s, m), o)
<1>1. CASE m \notin Members(s)
  BY <1>1 DEF Without
<1>2. CASE m \in Members(s)
  <2> DEFINE k == CHOOSE i \in DOMAIN s : s[i] = m
             t == [i \in 1 .. (Len(s) - 1) |-> IF i < k THEN s[i] ELSE s[i + 1]]
  <2>1. k \in 1 .. Len(s)
    <3>1. \E i \in DOMAIN s : s[i] = m
      BY <1>2 DEF Members
    <3>2. k \in DOMAIN s
      BY <3>1
    <3>. QED BY <3>2
  <2>2. Without(s, m) = t
    BY <1>2 DEF Without
  <2> HIDE DEF k
  <2>3. SUFFICES ASSUME NEW i \in 1 .. (Len(s) - 1), NEW j \in 1 .. (Len(s) - 1),
                        i < j
                 PROVE  Before(o, t[i], t[j])
    BY <2>2 DEF Ordered
  <2> DEFINE a == IF i < k THEN i ELSE i + 1
             b == IF j < k THEN j ELSE j + 1
  <2>4. a \in DOMAIN s /\ b \in DOMAIN s /\ a < b
    BY <2>1, <2>3
  <2>5. t[i] = s[a] /\ t[j] = s[b]
    OBVIOUS
  <2>. QED BY <2>4, <2>5 DEF Ordered
<1>. QED BY <1>1, <1>2

LEMMA LogPromptSorts ==
    ASSUME IInv, OrderInv, LogPrompt
    PROVE  OrderInv'
<1> USE DEF LogPrompt, turn, pending, chat
<1> DEFINE m == transcript[Len(log) + 1]
<1>1. /\ log \in Seq(Message) /\ transcript \in Seq(Message)
      /\ Len(log) \in Nat /\ Len(transcript) \in Nat
      /\ m \in Message /\ m \in Members(transcript)
      /\ \A i \in 1 .. Len(log) : transcript[i] = log[i]
      /\ Ordered(transcript, accepted) /\ Precedes(transcript, unread, accepted)
  BY DEF IInv, TypeOK, Members, Opening, OrderInv, PromptsFirst
<1>2. /\ Len(log') = Len(log) + 1 /\ log' \in Seq(Message)
      /\ \A i \in 1 .. Len(log') : transcript[i] = log'[i]
  BY <1>1
<1>3. DOMAIN log' = 1 .. Len(log') /\ DOMAIN log' \subseteq DOMAIN transcript
  BY <1>1, <1>2
<1>4. Ordered(log', accepted')
  BY <1>1, <1>2, <1>3 DEF Ordered
<1>5. Members(log') \subseteq Members(transcript)
  BY <1>2, <1>3 DEF Members
<1>6. Precedes(log', unread', accepted')
  BY <1>1, <1>5 DEF Precedes
<1> HIDE DEF m
<1>7. Sorted'
  BY <1>4 DEF OrderInv, Sorted
<1>8. Waiting' /\ PromptsFirst' /\ NotedFirst' /\ ReadFirst'
  BY <1>6 DEF OrderInv, Waiting, PromptsFirst, NotedFirst, ReadFirst
<1>. QED BY <1>7, <1>8 DEF OrderInv

LEMMA LeaveSorts ==
    ASSUME IInv, OrderInv, NEW how, Leave(how),
           phase # "noting", phase # "ended"
    PROVE  OrderInv'
<1> USE DEF Leave, HandBack, chat
<1>1. Sorted'
  BY NoneOrdered DEF OrderInv, Sorted
<1>2. Waiting' /\ PromptsFirst' /\ NotedFirst' /\ ReadFirst'
  BY DEF OrderInv, Waiting, PromptsFirst, NotedFirst, ReadFirst
<1>. QED BY <1>1, <1>2 DEF OrderInv

LEMMA BetweenTurnsSorts ==
    ASSUME IInv, OrderInv, Opened \/ BoundaryCancelled \/ Begin \/ Work
    PROVE  OrderInv'
<1>1. phase \in {"opening", "boundary", "applying", "working"}
  BY DEF Opened, BoundaryCancelled, Begin, Work
<1>2. ASSUME NEW how, Leave(how) PROVE OrderInv'
  BY <1>1, <1>2, LeaveSorts
<1>3. ASSUME phase' \in {"boundary", "working"},
             UNCHANGED <<outcome, batch, pending, log, chat>>
      PROVE  OrderInv'
  BY <1>1, <1>3 DEF pending, chat, OrderInv, Sorted, Waiting, PromptsFirst,
     NotedFirst, ReadFirst, Active
<1>. QED BY <1>2, <1>3 DEF Opened, BoundaryCancelled, Begin, Work

LEMMA DrainSorts ==
    ASSUME IInv, OrderInv, Drain
    PROVE  OrderInv'
<1> USE DEF Drain, chat
<1>1. batch = <<>>
  BY DEF IInv, WaitsOnce
<1>2. Sorted'
  BY NoneOrdered DEF OrderInv, Sorted
<1>3. Waiting'
  BY <1>1, NoMembers DEF OrderInv, Waiting, Active
<1>4. PromptsFirst' /\ NotedFirst' /\ ReadFirst'
  BY DEF OrderInv, PromptsFirst, NotedFirst, ReadFirst
<1>. QED BY <1>2, <1>3, <1>4 DEF OrderInv

\* The oldest waiting message is read after all that are read.
LEMMA ApplySorts ==
    ASSUME IInv, OrderInv, Apply
    PROVE  OrderInv'
<1> DEFINE m == Head(batch)
<1> USE DEF Apply, pending, chat
<1>1. /\ batch \in Seq(Message) /\ log \in Seq(Message)
      /\ Members(batch) \subseteq Members(unread)
      /\ Members(unread) \subseteq Members(batch) \cup Members(queue)
      /\ Ordered(log, accepted) /\ Ordered(batch, accepted)
      /\ Precedes(batch, queue, accepted)
      /\ Precedes(log, unread, accepted)
  BY DEF IInv, TypeOK, QueueIsInLedger, OrderInv, Sorted, Waiting, ReadFirst,
     Active
<1>2. /\ m \in Members(batch) /\ m \in Message
      /\ Members(batch) = {m} \cup Members(Tail(batch))
  BY <1>1, Split, MembersTyped
<1>3. \A a \in Members(log) : Before(accepted, a, m)
  BY <1>1, <1>2 DEF Precedes
<1>4. Ordered(log', accepted') /\ Members(log') = Members(log) \cup {m}
  BY <1>1, <1>2, <1>3, OrderedAppended, Appended
<1>5. \A b \in Members(Tail(batch)) : Before(accepted, m, b)
  BY <1>1, OrderedSplit
<1>6. \A b \in Members(queue) : Before(accepted, m, b)
  BY <1>1, <1>2 DEF Precedes
<1> HIDE DEF m
<1>8. NotedFirst'
  <2>1. ASSUME NEW a \in Members(log'), NEW b \in Members(unread), b # m
        PROVE  Before(accepted, a, b)
    <3>1. CASE a \in Members(log)
      BY <1>1, <3>1 DEF Precedes
    <3>2. CASE a = m
      BY <1>1, <1>2, <1>5, <1>6, <2>1, <3>2
    <3>. QED BY <1>4, <3>1, <3>2
  <2>. QED BY <2>1 DEF NotedFirst, m
<1>9. Sorted'
  BY <1>4 DEF OrderInv, Sorted
<1>10. Waiting' /\ PromptsFirst' /\ ReadFirst'
  BY <1>1 DEF Waiting, PromptsFirst, ReadFirst
<1>. QED BY <1>8, <1>9, <1>10 DEF OrderInv

LEMMA AppliedSorts ==
    ASSUME IInv, OrderInv, Applied
    PROVE  OrderInv'
<1> DEFINE m == Head(batch)
<1> USE DEF Applied, pending
<1>1. /\ batch \in Seq(Message) /\ unread \in Seq(Message) /\ batch # <<>>
      /\ Distinct(batch) /\ Distinct(unread)
      /\ Ordered(batch, accepted) /\ Ordered(unread, accepted)
      /\ Precedes(batch, queue, accepted)
      /\ Members(unread) \subseteq Members(batch) \cup Members(queue)
  BY DEF IInv, TypeOK, WaitsOnce, Noting, OrderInv, Sorted, Waiting, Active
<1>2. /\ Members(unread') = Members(unread) \ {m}
      /\ Ordered(unread', accepted')
  BY <1>1, Removed, OrderedRemoved
<1>3. /\ Ordered(batch', accepted')
      /\ Members(batch) = {m} \cup Members(batch')
  BY <1>1, Split, OrderedSplit
<1>4. Precedes(batch', queue', accepted')
  BY <1>1, <1>3 DEF Precedes
<1>5. Precedes(log', unread', accepted')
  BY <1>2 DEF Precedes, OrderInv, NotedFirst
<1> HIDE DEF m
<1>6. Sorted'
  BY <1>2, <1>3, <1>4 DEF OrderInv, Sorted
<1>7. Waiting'
  BY <1>1, <1>2, <1>3 DEF Waiting
<1>8. PromptsFirst' /\ NotedFirst' /\ ReadFirst'
  BY <1>5 DEF PromptsFirst, NotedFirst, ReadFirst
<1>. QED BY <1>6, <1>7, <1>8 DEF OrderInv

LEMMA EndSorts ==
    ASSUME IInv, OrderInv, Return \/ Fail \/ Die
    PROVE  OrderInv'
<1> USE DEF Return, Fail, Die, End, chat
<1>1. Sorted'
  BY NoneOrdered DEF OrderInv, Sorted
<1>2. ReadFirst'
  BY DEF OrderInv, ReadFirst
<1>3. Waiting' /\ PromptsFirst' /\ NotedFirst'
  BY DEF Waiting, PromptsFirst, NotedFirst, Active
<1>. QED BY <1>1, <1>2, <1>3 DEF OrderInv

LEMMA PromptSorts ==
    ASSUME IInv, OrderInv, NEW m \in Message, Prompt(m)
    PROVE  OrderInv'
<1> USE DEF Prompt, Start
<1>1. /\ transcript = log /\ unread = <<>> /\ batch = <<>>
      /\ log \in Seq(Message) /\ accepted \in Seq(Message)
      /\ Ordered(log, accepted)
      /\ Members(log) \subseteq Members(accepted)
  BY DEF IInv, Opening, WaitsOnce, TypeOK, Acknowledged, OrderInv, Sorted
<1>2. /\ Ordered(log, accepted')
      /\ \A a \in Members(log) : Before(accepted', a, m)
  BY <1>1, OrderGrows
<1>3. Ordered(transcript', accepted')
  BY <1>1, <1>2, OrderedAppended
<1>4. Sorted'
  BY <1>1, <1>2, NoneOrdered DEF Sorted
<1>5. Waiting' /\ PromptsFirst' /\ NotedFirst' /\ ReadFirst'
  BY <1>1, <1>3, NoneOrdered, NoMembers
     DEF Waiting, PromptsFirst, NotedFirst, ReadFirst
<1>. QED BY <1>4, <1>5 DEF OrderInv

LEMMA SteerSorts ==
    ASSUME IInv, OrderInv, NEW m \in Message, Steer(m)
    PROVE  OrderInv'
<1> USE DEF Steer, Admit, turn
<1>1. /\ unread \in Seq(Message) /\ queue \in Seq(Message)
      /\ accepted \in Seq(Message)
      /\ Members(queue) \subseteq Members(accepted)
      /\ Members(batch) \subseteq Members(accepted)
      /\ Members(unread) \subseteq Members(accepted)
      /\ Members(log) \subseteq Members(accepted)
      /\ Members(transcript) \subseteq Members(accepted)
  BY DEF IInv, TypeOK, QueueIsInLedger, Acknowledged
<1>2. /\ \A a, b : Before(accepted, a, b) => Before(accepted', a, b)
      /\ \A a \in Members(accepted) : Before(accepted', a, m)
      /\ \A s : Ordered(s, accepted) => Ordered(s, accepted')
      /\ \A s, t : Precedes(s, t, accepted) => Precedes(s, t, accepted')
  BY <1>1, OrderGrows
<1>3. /\ Members(unread') = Members(unread) \cup {m}
      /\ Members(queue') = Members(queue) \cup {m}
  BY <1>1, Appended
<1>4. Ordered(unread', accepted') /\ Ordered(queue', accepted')
  BY <1>1, <1>2, OrderedAppended DEF OrderInv, Sorted
<1>5. ASSUME NEW s, Members(s) \subseteq Members(accepted)
      PROVE  /\ Precedes(s, unread, accepted) => Precedes(s, unread', accepted')
             /\ Precedes(s, queue, accepted) => Precedes(s, queue', accepted')
  BY <1>2, <1>3, <1>5 DEF Precedes
<1>6. Sorted'
  BY <1>1, <1>2, <1>4, <1>5 DEF OrderInv, Sorted
<1>7. Waiting'
  BY <1>3 DEF OrderInv, Waiting
<1>8. PromptsFirst'
  BY <1>1, <1>2, <1>5 DEF OrderInv, PromptsFirst
<1>9. NotedFirst'
  BY <1>1, <1>2, <1>3 DEF OrderInv, NotedFirst
<1>10. ReadFirst'
  BY <1>1, <1>5 DEF OrderInv, ReadFirst
<1>. QED BY <1>6, <1>7, <1>8, <1>9, <1>10 DEF OrderInv

LEMMA StopSorts ==
    ASSUME IInv, OrderInv, Cancel \/ Abort
    PROVE  OrderInv'
<1> USE DEF Cancel, Abort, turn, pending
<1>1. Sorted' /\ Waiting' /\ PromptsFirst'
  BY DEF OrderInv, Sorted, Waiting, PromptsFirst
<1>2. NotedFirst' /\ ReadFirst'
  BY DEF OrderInv, NotedFirst, ReadFirst
<1>. QED BY <1>1, <1>2 DEF OrderInv

\* What is carried on was sent after all that was read.
LEMMA JoinSorts ==
    ASSUME IInv, OrderInv, Join
    PROVE  OrderInv'
<1>1. /\ unread' = <<>> /\ queue' = <<>> /\ batch' = <<>>
      /\ log' = log /\ accepted' = accepted
  BY DEF Join, Carry, Start, Rest, pending, IInv, WaitsOnce
<1>2. Sorted'
  BY <1>1, NoneOrdered DEF OrderInv, Sorted
<1>3. CASE Rest(unread)
  BY <1>1, <1>2, <1>3, NoneOrdered
     DEF Rest, OrderInv, Waiting, PromptsFirst, NotedFirst, ReadFirst, Active
<1>4. CASE Completed /\ Carry(unread)
  <2>1. /\ log \in Seq(Message) /\ unread \in Seq(Message)
        /\ Ordered(log, accepted) /\ Ordered(unread, accepted)
        /\ Precedes(log, unread, accepted)
        /\ transcript' = log \o unread /\ phase' = "opening"
    BY <1>4 DEF Join, Completed, Carry, Start, IInv, TypeOK, OrderInv, Sorted,
       ReadFirst
  <2>2. Ordered(transcript', accepted')
    BY <1>1, <2>1, OrderedJoined
  <2>3. Waiting' /\ PromptsFirst' /\ NotedFirst' /\ ReadFirst'
    BY <1>1, <2>1, <2>2, NoneOrdered, NoMembers
       DEF Waiting, PromptsFirst, NotedFirst, ReadFirst
  <2>. QED BY <1>2, <2>3 DEF OrderInv
<1>. QED BY <1>3, <1>4 DEF Join

LEMMA InitSorts ==
    ASSUME Init
    PROVE  OrderInv
BY NoneOrdered DEF Init, OrderInv, Sorted, Waiting, PromptsFirst, NotedFirst,
   ReadFirst, Active

LEMMA StepSorts ==
    ASSUME IInv, OrderInv, [Next]_vars
    PROVE  OrderInv'
<1>1. CASE Progress
  BY <1>1, LogPromptSorts, BetweenTurnsSorts, DrainSorts, ApplySorts,
     AppliedSorts, EndSorts DEF Progress
<1>2. CASE Fail \/ Die
  BY <1>2, EndSorts
<1>3. CASE Cancel \/ Abort
  BY <1>3, StopSorts
<1>4. CASE Join
  BY <1>4, JoinSorts
<1>5. ASSUME NEW m \in Message, Prompt(m) \/ Steer(m) PROVE OrderInv'
  BY <1>5, PromptSorts, SteerSorts
<1>6. CASE UNCHANGED vars
  BY <1>6 DEF vars, OrderInv, Sorted, Waiting, PromptsFirst, NotedFirst, ReadFirst
<1>. QED BY <1>1, <1>2, <1>3, <1>4, <1>5, <1>6 DEF Next

\* The model reads messages in the order they were sent, through boundaries,
\* exits and the turns that carry them on (drain_steers, take_unread).
THEOREM ReadsInOrder == Spec => []ReadInOrder
<1>1. Init => OrderInv
  BY InitSorts
<1>2. IInv /\ OrderInv /\ [Next]_vars => OrderInv'
  BY StepSorts
<1>3. OrderInv => ReadInOrder
  BY DEF OrderInv, Sorted, Ordered, ReadInOrder
<1>. QED BY <1>1, <1>2, <1>3, InductiveInvariant, PTL DEF Spec
=============================================================================
