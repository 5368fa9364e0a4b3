-------------------------- MODULE ToolRoundProofs --------------------------
(***************************************************************************)
(* Proofs about ToolRound, for rounds of any length and kind, any number   *)
(* of calls in flight, and with or without faults.                         *)
(*                                                                         *)
(* What a call has reached tells what the log holds: a call that started   *)
(* was logged as an intent, one that was decided has its decision, and one *)
(* that runs a change has its execution record.  Records are only added.   *)
(***************************************************************************)
EXTENDS ToolRound, TLAPS

LogRecord == [what : {"intent", "policy", "prepared", "memory", "result"},
              of : Nat]

\* Stages after the decision is in the log.
Decided == {"asking", "approved", "preparing", "running", "applied", "network"}

Ran == {"running", "applied"}

TypeInv ==
    /\ round \in [Call -> Kind]
    /\ pc \in {"admitting", "running", "saving", "done", "failed"}
    /\ admitted \in 0 .. N /\ saved \in Nat
    /\ at \in [Call -> Stage]
    /\ log \in Seq(LogRecord)
    /\ world \in Seq(1 .. Rival)

IntentsLogged == \A c \in Call : c <= admitted => Logged("intent", c)

AllAdmitted ==
    /\ pc = "admitting" => admitted < N
    /\ pc \notin {"admitting", "failed"} => admitted = N

StartedLogged == \A c \in Call : at[c] # "waiting" => Logged("intent", c)

DecidedLogged == \A c \in Call : at[c] \in Decided => Logged("policy", c)

RanLogged ==
    \A c \in Call : at[c] \in Ran /\ Changes(c) => Logged("prepared", c)

Asks == {"asking", "network"}

\* Only a call that asks has a card.
CardAsks == card \in Call => at[card] \in Asks

IInv ==
    /\ TypeInv /\ CardAsks
    /\ IntentsLogged /\ AllAdmitted
    /\ StartedLogged /\ DecidedLogged /\ RanLogged
    /\ AnnouncedBeforeEffect

\* The log keeps what it holds.
LogKeeps ==
    /\ log' \in Seq(LogRecord)
    /\ \A what, c : Logged(what, c) => Logged(what, c)'

-----------------------------------------------------------------------------
(* The log only grows.                                                     *)

LEMMA LogStays ==
    ASSUME TypeInv, UNCHANGED log
    PROVE  LogKeeps
BY DEF TypeInv, LogKeeps, Logged

LEMMA LogAdds ==
    ASSUME TypeInv, NEW r \in LogRecord, log' = Append(log, r)
    PROVE  LogKeeps /\ Logged(r.what, r.of)'
<1>1. /\ log' \in Seq(LogRecord)
      /\ Len(log') = Len(log) + 1
      /\ \A i \in 1 .. Len(log) : log'[i] = log[i]
      /\ log'[Len(log) + 1] = r
  BY DEF TypeInv
<1>2. ASSUME NEW what, NEW c, Logged(what, c)
      PROVE  Logged(what, c)'
  <2>1. PICK i \in 1 .. Len(log) : log[i] = Rec(what, c)
    BY <1>2 DEF Logged, TypeInv
  <2>2. i \in 1 .. Len(log') /\ log'[i] = Rec(what, c)
    BY <1>1, <2>1 DEF TypeInv
  <2>. QED BY <1>1, <2>2 DEF Logged
<1>3. Logged(r.what, r.of)'
  <2>1. r = Rec(r.what, r.of)
    BY DEF LogRecord, Rec
  <2>2. Len(log) + 1 \in 1 .. Len(log')
    BY <1>1 DEF TypeInv
  <2>. QED BY <1>1, <2>1, <2>2 DEF Logged
<1>. QED BY <1>1, <1>2, <1>3 DEF LogKeeps

LEMMA RecordType ==
    ASSUME NEW what \in {"intent", "policy", "prepared", "memory", "result"},
           NEW c \in Nat
    PROVE  /\ Rec(what, c) \in LogRecord
           /\ Rec(what, c).what = what /\ Rec(what, c).of = c
BY DEF LogRecord, Rec

-----------------------------------------------------------------------------
(* Two kinds of steps keep the invariant.                                  *)

\* One call moves on; what its new stage claims must be in the log.
LEMMA CallMoves ==
    ASSUME IInv, LogKeeps, NEW c \in Call, NEW stage \in Stage,
           at' = [at EXCEPT ![c] = stage],
           UNCHANGED <<round, pc, admitted, saved, world>>,
           at[c] # "waiting" \/ pc = "running",
           \/ card' = Loop
           \/ card' = card /\ (card # c \/ at[c] \notin Asks),
           stage \in Decided => Logged("policy", c)',
           stage \in Ran /\ Changes(c) => Logged("prepared", c)'
    PROVE  IInv'
<1>1. TypeInv'
  BY DEF IInv, TypeInv, LogKeeps
<1>2. IntentsLogged' /\ AllAdmitted'
  BY DEF IInv, IntentsLogged, AllAdmitted, LogKeeps
<1>3. Logged("intent", c)
  <2>1. CASE at[c] # "waiting"
    BY <2>1 DEF IInv, StartedLogged
  <2>2. CASE pc = "running"
    <3>1. c <= admitted
      BY <2>2, RoundAssumption DEF IInv, AllAdmitted, Call
    <3>. QED BY <3>1 DEF IInv, IntentsLogged
  <2>. QED BY <2>1, <2>2
<1>4. \A d \in Call : d # c => at'[d] = at[d]
  BY DEF IInv, TypeInv
<1>5. at'[c] = stage
  BY DEF IInv, TypeInv
<1>6. StartedLogged'
  BY <1>3, <1>4 DEF IInv, StartedLogged, LogKeeps
<1>7. DecidedLogged'
  BY <1>4, <1>5 DEF IInv, DecidedLogged, LogKeeps
<1>8. RanLogged'
  BY <1>4, <1>5 DEF IInv, RanLogged, Changes, LogKeeps
<1>9. AnnouncedBeforeEffect'
  BY DEF IInv, AnnouncedBeforeEffect, LogKeeps
<1>10. CardAsks'
  <2>1. CASE card' = Loop
    BY <2>1 DEF CardAsks, Loop, Call
  <2>2. CASE card' = card
    <3>1. card \in Call => card # c
      BY <2>2 DEF IInv, CardAsks, Loop, Call
    <3>. QED BY <1>4, <2>2, <3>1 DEF IInv, CardAsks
  <2>. QED BY <2>1, <2>2
<1>. QED BY <1>1, <1>2, <1>6, <1>7, <1>8, <1>9, <1>10 DEF IInv

\* No call moves, and at most a result of somebody else is in the world.
LEMMA OthersMove ==
    ASSUME IInv, LogKeeps,
           UNCHANGED <<round, at>>, saved' \in Nat,
           \/ UNCHANGED world
           \/ world' = Append(world, Rival),
           \/ UNCHANGED card
           \/ card' \in Call /\ at[card'] \in Asks,
           \/ UNCHANGED <<pc, admitted>>
           \/ pc' \in {"running", "saving", "done", "failed"}
              /\ (pc' # "failed" => pc # "admitting" /\ pc # "failed")
              /\ UNCHANGED admitted
    PROVE  IInv'
<1>1. Rival \in 1 .. Rival /\ Rival \notin Call
  BY RoundAssumption DEF Rival, Call
<1>2. world' \in Seq(1 .. Rival)
  <2>1. CASE UNCHANGED world
    BY <2>1 DEF IInv, TypeInv
  <2>2. CASE world' = Append(world, Rival)
    <3>1. world \in Seq(1 .. Rival)
      BY DEF IInv, TypeInv
    <3>. QED BY <1>1, <2>2, <3>1
  <2>. QED BY <2>1, <2>2
<1>3. TypeInv'
  BY <1>2 DEF IInv, TypeInv, LogKeeps
<1>4. IntentsLogged'
  BY DEF IInv, IntentsLogged, LogKeeps
<1>5. AllAdmitted'
  BY DEF IInv, TypeInv, AllAdmitted
<1>6. StartedLogged' /\ DecidedLogged'
  BY DEF IInv, StartedLogged, DecidedLogged, LogKeeps
<1>7. RanLogged'
  BY DEF IInv, RanLogged, Changes, LogKeeps
<1>8. AnnouncedBeforeEffect'
  <2>1. ASSUME NEW i \in DOMAIN world', world'[i] \in Call
        PROVE  i \in DOMAIN world /\ world[i] = world'[i]
    <3>1. CASE UNCHANGED world
      BY <2>1, <3>1
    <3>2. CASE world' = Append(world, Rival)
      <4>1. world \in Seq(1 .. Rival)
        BY DEF IInv, TypeInv
      <4>2. i \in 1 .. Len(world) + 1
        BY <2>1, <3>2, <4>1
      <4>3. i # Len(world) + 1
        BY <1>1, <2>1, <3>2, <4>1
      <4>. QED BY <3>2, <4>1, <4>2, <4>3
    <3>. QED BY <3>1, <3>2
  <2>2. ASSUME NEW i \in DOMAIN world', world'[i] \in Call,
               NEW what \in {"intent", "policy", "prepared"}
        PROVE  \A d \in Call : world'[i] = d => Logged(what, d)'
    <3>1. TAKE d \in Call
    <3>2. HAVE world'[i] = d
    <3>3. Logged(what, d)
      BY <2>1, <2>2, <3>2 DEF IInv, AnnouncedBeforeEffect
    <3>. QED BY <3>3 DEF LogKeeps
  <2>. QED BY <2>2 DEF AnnouncedBeforeEffect
<1>9. CardAsks'
  BY DEF IInv, CardAsks
<1>. QED BY <1>3, <1>4, <1>5, <1>6, <1>7, <1>8, <1>9 DEF IInv

-----------------------------------------------------------------------------
(* The steps of one call.                                                  *)

LEMMA StageFacts ==
    /\ {"settled", "deciding", "asking", "approved", "preparing", "running",
        "applied", "network"} \cup Verdict \subseteq Stage
    /\ {"settled", "deciding"} \cap Decided = {}
    /\ Verdict \cap Decided = {}
    /\ {"asking", "approved", "preparing", "network"} \cap Ran = {}
    /\ "settled" \notin Ran /\ "deciding" \notin Ran /\ Verdict \cap Ran = {}
BY DEF Stage, Decided, Ran, Verdict

LEMMA SettleKeeps ==
    ASSUME IInv, LogKeeps, NEW c \in Call,
           at' = [at EXCEPT ![c] = "settled"],
           UNCHANGED <<round, pc, admitted, saved, world>>,
           at[c] # "waiting" \/ pc = "running",
           \/ card' = Loop
           \/ card' = card /\ (card # c \/ at[c] \notin Asks)
    PROVE  IInv'
BY CallMoves, StageFacts

LEMMA StartKeeps ==
    ASSUME IInv, NEW c \in Call, Start(c)
    PROVE  IInv'
<1>1. LogKeeps
  BY LogStays DEF IInv, Start
<1>2. /\ UNCHANGED <<round, pc, admitted, saved, world>> /\ pc = "running"
      /\ \/ at' = [at EXCEPT ![c] = "settled"]
         \/ at' = [at EXCEPT ![c] = "deciding"]
  BY DEF Start, Settle, Go, cursors
<1>3. card' = card /\ at[c] \notin Asks
  BY DEF Start, Asks
<1>. QED BY <1>1, <1>2, <1>3, CallMoves, StageFacts

LEMMA DecideKeeps ==
    ASSUME IInv, NEW c \in Call, Decide(c)
    PROVE  IInv'
<1>1. LogKeeps
  BY LogStays DEF IInv, Decide
<1>2. /\ UNCHANGED <<round, pc, admitted, saved, world>> /\ at[c] # "waiting"
      /\ \/ at' = [at EXCEPT ![c] = "settled"]
         \/ \E verdict \in Verdict : at' = [at EXCEPT ![c] = verdict]
  BY DEF Decide, Settle, Go, cursors
<1>3. PICK stage \in {"settled"} \cup Verdict : at' = [at EXCEPT ![c] = stage]
  BY <1>2
<1>4. stage \in Stage /\ stage \notin Decided /\ stage \notin Ran
  BY StageFacts
<1>5. card' = card /\ at[c] \notin Asks
  BY DEF Decide, Asks
<1>. QED BY <1>1, <1>2, <1>3, <1>4, <1>5, CallMoves

LEMMA RecordPolicyKeeps ==
    ASSUME IInv, NEW c \in Call, RecordPolicy(c)
    PROVE  IInv'
<1>1. c \in Nat
  BY RoundAssumption DEF Call
<1>2. LogKeeps /\ Logged("policy", c)'
  BY <1>1, LogAdds, RecordType DEF IInv, RecordPolicy, Commit
<1>3. /\ UNCHANGED <<round, pc, admitted, saved, world>> /\ at[c] # "waiting"
      /\ \/ at' = [at EXCEPT ![c] = "settled"]
         \/ at' = [at EXCEPT ![c] = "asking"]
         \/ at' = [at EXCEPT ![c] = "approved"]
  BY DEF RecordPolicy, Settle, Go, cursors, Verdict
<1>4. PICK stage \in {"settled", "asking", "approved"} :
        at' = [at EXCEPT ![c] = stage]
  BY <1>3
<1>5. stage \in Stage /\ stage \notin Ran
  BY StageFacts
<1>6. card' = card /\ at[c] \notin Asks
  BY DEF RecordPolicy, Asks, Verdict
<1>. QED BY <1>2, <1>3, <1>4, <1>5, <1>6, CallMoves

LEMMA RecordPreparedKeeps ==
    ASSUME IInv, NEW c \in Call, RecordPrepared(c)
    PROVE  IInv'
<1>1. c \in Nat
  BY RoundAssumption DEF Call
<1>2. LogKeeps /\ Logged("prepared", c)'
  BY <1>1, LogAdds, RecordType DEF IInv, RecordPrepared, Commit
<1>3. /\ UNCHANGED <<round, pc, admitted, saved, world>> /\ at[c] = "preparing"
      /\ at' = [at EXCEPT ![c] = "running"]
  BY DEF RecordPrepared, Go, cursors
<1>4. Logged("policy", c)'
  BY <1>2, <1>3 DEF IInv, DecidedLogged, Decided, LogKeeps
<1>5. card' = card /\ at[c] \notin Asks
  BY DEF RecordPrepared, Asks
<1>. QED BY <1>2, <1>3, <1>4, <1>5, CallMoves, StageFacts

\* A decided call moves on without running a change; the log stays.
LEMMA GoKeeps ==
    ASSUME IInv, NEW c \in Call, NEW stage \in Stage,
           at[c] \in Decided, at' = [at EXCEPT ![c] = stage],
           stage \notin Ran \/ ~Changes(c),
           \/ card' = Loop
           \/ card' = card /\ (card # c \/ at[c] \notin Asks),
           UNCHANGED <<log, round, pc, admitted, saved, world>>
    PROVE  IInv'
<1>1. LogKeeps
  BY LogStays DEF IInv
<1>2. Logged("policy", c)'
  BY <1>1 DEF IInv, DecidedLogged, LogKeeps
<1>3. at[c] # "waiting"
  BY DEF Decided
<1>. QED BY <1>1, <1>2, <1>3, CallMoves

LEMMA EnterKeeps ==
    ASSUME IInv, NEW c \in Call, Enter(c)
    PROVE  IInv'
<1>1. /\ at[c] \in Decided
      /\ card' = card /\ at[c] \notin Asks
      /\ UNCHANGED <<log, round, pc, admitted, saved, world>>
  BY DEF Enter, Decided, Asks, cursors
<1>2. CASE ~Changes(c)
  <2>1. at' = [at EXCEPT ![c] = "running"]
    BY <1>2 DEF Enter, Go
  <2>. QED BY <1>1, <1>2, <2>1, GoKeeps, StageFacts
<1>3. CASE Changes(c)
  <2>1. \/ at' = [at EXCEPT ![c] = "preparing"]
        \/ at' = [at EXCEPT ![c] = "settled"]
    BY <1>3 DEF Enter, Go, Settle
  <2>. QED BY <1>1, <2>1, GoKeeps, StageFacts
<1>. QED BY <1>2, <1>3

LEMMA ApplyKeeps ==
    ASSUME IInv, NEW c \in Call, Apply(c)
    PROVE  IInv'
<1>1. /\ at[c] = "running" /\ Changes(c)
      /\ at' = [at EXCEPT ![c] = "applied"]
      /\ world' = Append(world, c)
      /\ UNCHANGED <<log, round, pc, admitted, saved, card>>
  BY DEF Apply, Go, cursors
<1>2. LogKeeps
  BY <1>1, LogStays DEF IInv
<1>3. /\ Logged("intent", c) /\ Logged("policy", c) /\ Logged("prepared", c)
  BY <1>1 DEF IInv, StartedLogged, DecidedLogged, RanLogged, Decided, Ran
<1>4. \A d \in Call : d # c => at'[d] = at[d]
  BY <1>1 DEF IInv, TypeInv
<1>5. TypeInv'
  <2>1. c \in 1 .. Rival
    BY RoundAssumption DEF Call, Rival
  <2>2. world' \in Seq(1 .. Rival)
    BY <1>1, <2>1 DEF IInv, TypeInv
  <2>3. at' \in [Call -> Stage]
    BY <1>1 DEF IInv, TypeInv, Stage
  <2>. QED BY <1>1, <2>2, <2>3 DEF IInv, TypeInv
<1>6. IntentsLogged' /\ AllAdmitted'
  BY <1>1, <1>2 DEF IInv, IntentsLogged, AllAdmitted, LogKeeps
<1>7. StartedLogged' /\ DecidedLogged'
  BY <1>2, <1>3, <1>4 DEF IInv, StartedLogged, DecidedLogged, LogKeeps
<1>8. RanLogged'
  BY <1>1, <1>2, <1>3, <1>4 DEF IInv, RanLogged, Changes, LogKeeps
<1>9. AnnouncedBeforeEffect'
  <2>1. ASSUME NEW i \in DOMAIN world', world'[i] \in Call
        PROVE  \/ i \in DOMAIN world /\ world[i] = world'[i]
               \/ world'[i] = c
    BY <1>1 DEF IInv, TypeInv
  <2>2. ASSUME NEW i \in DOMAIN world', world'[i] \in Call,
               NEW what \in {"intent", "policy", "prepared"}
        PROVE  \A d \in Call : world'[i] = d => Logged(what, d)'
    <3>1. TAKE d \in Call
    <3>2. HAVE world'[i] = d
    <3>3. Logged(what, d)
      <4>1. CASE world'[i] = c
        BY <1>3, <2>2, <3>2, <4>1
      <4>2. CASE i \in DOMAIN world /\ world[i] = world'[i]
        BY <2>2, <3>2, <4>2 DEF IInv, AnnouncedBeforeEffect
      <4>. QED BY <2>1, <2>2, <4>1, <4>2
    <3>. QED BY <1>2, <3>3 DEF LogKeeps
  <2>. QED BY <2>2 DEF AnnouncedBeforeEffect
<1>10. CardAsks'
  BY <1>1, <1>4 DEF IInv, CardAsks, Apply, Asks
<1>. QED BY <1>5, <1>6, <1>7, <1>8, <1>9, <1>10 DEF IInv

LEMMA FinishKeeps ==
    ASSUME IInv, NEW c \in Call, Finish(c)
    PROVE  IInv'
<1>1. /\ UNCHANGED <<log, round, pc, admitted, saved, world>> /\ at[c] \in Decided
      /\ at' = [at EXCEPT ![c] = "settled"]
      /\ card' = card /\ at[c] \notin Asks
  BY DEF Finish, Settle, cursors, Decided, Asks
<1>. QED BY <1>1, GoKeeps, StageFacts

LEMMA DeniedNetworkKeeps ==
    ASSUME IInv, NEW c \in Call, DeniedNetwork(c)
    PROVE  IInv'
<1>1. /\ UNCHANGED <<log, round, pc, admitted, saved, world>> /\ at[c] \in Decided
      /\ at' = [at EXCEPT ![c] = "network"]
      /\ card' = card /\ at[c] \notin Asks
  BY DEF DeniedNetwork, cursors, Decided, Asks
<1>. QED BY <1>1, GoKeeps, StageFacts

LEMMA EndsKeep ==
    ASSUME IInv, NEW c \in Call, GiveUp(c) \/ RecordFails(c) \/ CutOff(c)
    PROVE  IInv'
<1>1. /\ UNCHANGED <<log, round, pc, admitted, saved, world>> /\ at[c] # "waiting"
      /\ at' = [at EXCEPT ![c] = "settled"]
  BY DEF GiveUp, RecordFails, CutOff, Reject, Settle, cursors, Verdict
<1>2. \/ card' = Loop
      \/ card' = card /\ (card # c \/ at[c] \notin Asks)
  BY DEF GiveUp, RecordFails, CutOff, Verdict, Asks
<1>3. LogKeeps
  BY <1>1, LogStays DEF IInv
<1>. QED BY <1>1, <1>2, <1>3, SettleKeeps

LEMMA ShowCardKeeps ==
    ASSUME IInv, NEW c \in Call, ShowCard(c)
    PROVE  IInv'
<1>1. /\ UNCHANGED <<log, round, pc, admitted, world, saved, at>>
      /\ card' = c /\ at[c] \in Asks
  BY DEF ShowCard, cursors, calls, Asks
<1>2. LogKeeps
  BY <1>1, LogStays DEF IInv
<1>3. card' \in Call /\ at[card'] \in Asks
  BY <1>1
<1>4. saved' \in Nat
  BY <1>1 DEF IInv, TypeInv
<1>. QED BY <1>1, <1>2, <1>3, <1>4, OthersMove

LEMMA ApproveKeeps ==
    ASSUME IInv, NEW c \in Call, Approve(c)
    PROVE  IInv'
<1>1. at[c] \in Asks
  BY DEF IInv, CardAsks, Approve
<1>2. /\ UNCHANGED <<log, round, pc, admitted, saved, world>> /\ card' = Loop
      /\ at' = [at EXCEPT ![c] = "approved"] /\ at[c] \in Decided
  BY <1>1 DEF Approve, Go, cursors, Asks, Decided
<1>. QED BY <1>2, GoKeeps, StageFacts

LEMMA DenyKeeps ==
    ASSUME IInv, NEW c \in Call, Deny(c),
           UNCHANGED <<log, round, pc, admitted, saved, world>>
    PROVE  IInv'
<1>1. at[c] \in Asks
  BY DEF IInv, CardAsks, Deny
<1>2. /\ card' = Loop
      /\ at' = [at EXCEPT ![c] = "settled"] /\ at[c] \in Decided
  BY <1>1 DEF Deny, Settle, Asks, Decided
<1>. QED BY <1>2, GoKeeps, StageFacts

-----------------------------------------------------------------------------
(* The steps of the round and of everybody else.                           *)

LEMMA AdmitIntentKeeps ==
    ASSUME IInv, AdmitIntent
    PROVE  IInv'
<1>1. /\ admitted + 1 \in 1 .. N /\ pc = "admitting"
      /\ admitted' = admitted + 1
      /\ UNCHANGED <<round, at, world, card, saved>>
      /\ pc' = IF admitted' = N THEN "running" ELSE pc
  BY RoundAssumption DEF AdmitIntent, IInv, TypeInv, AllAdmitted, calls
<1>2. PICK e \in Call : e = admitted + 1 /\ e \in Nat
  BY <1>1 DEF Call
<1>3. LogKeeps /\ Logged("intent", e)'
  <2>1. log' = Append(log, Rec("intent", e))
    BY <1>2 DEF AdmitIntent, Commit
  <2>. QED BY <1>2, <2>1, LogAdds, RecordType DEF IInv
<1>4. TypeInv'
  BY <1>1, <1>3, RoundAssumption DEF IInv, TypeInv, LogKeeps
<1>5. IntentsLogged'
  <2>1. SUFFICES ASSUME NEW c \in Call, c <= admitted + 1
                 PROVE  Logged("intent", c)'
    BY <1>1 DEF IntentsLogged
  <2>2. CASE c = admitted + 1
    <3>1. c = e
      BY <1>2, <2>2
    <3>. QED BY <1>3, <3>1
  <2>3. CASE c # admitted + 1
    <3>1. c <= admitted
      BY <2>1, <2>3 DEF IInv, TypeInv, Call
    <3>. QED BY <1>3, <3>1 DEF IInv, IntentsLogged, LogKeeps
  <2>. QED BY <2>2, <2>3
<1>6. AllAdmitted'
  BY <1>1, RoundAssumption DEF IInv, TypeInv, AllAdmitted
<1>7. StartedLogged' /\ DecidedLogged' /\ RanLogged'
  BY <1>1, <1>3
     DEF IInv, StartedLogged, DecidedLogged, RanLogged, Changes, LogKeeps
<1>8. AnnouncedBeforeEffect' /\ CardAsks'
  BY <1>1, <1>3 DEF IInv, AnnouncedBeforeEffect, CardAsks, LogKeeps
<1>. QED BY <1>4, <1>5, <1>6, <1>7, <1>8 DEF IInv

\* The round's record of a call it saves.
LEMMA SaveKeeps ==
    ASSUME IInv, SaveMemory \/ SaveResult
    PROVE  IInv'
<1>1. /\ UNCHANGED <<round, at, world, card, admitted>> /\ pc = "saving"
      /\ pc' \in {"saving", "running", "done"}
  BY DEF SaveMemory, SaveResult, After, cursors, calls
<1>2. saved' \in Nat /\ saved + 1 \in Nat
  BY DEF IInv, TypeInv, SaveMemory, SaveResult, cursors
<1>3. LogKeeps
  <2>1. PICK what \in {"memory", "result"} : log' = Append(log, Rec(what, saved + 1))
    BY DEF SaveMemory, SaveResult, Commit
  <2>. QED BY <1>2, <2>1, LogAdds, RecordType DEF IInv
<1>. QED BY <1>1, <1>2, <1>3, OthersMove

LEMMA RoundStepKeeps ==
    ASSUME IInv, RoundStep
    PROVE  IInv'
<1>1. CASE LoopClaims \/ AllSettled \/ RoundFails
  <2>1. /\ UNCHANGED <<log, round, at, world, card, admitted, saved>>
        /\ \/ UNCHANGED pc
           \/ pc = "running" /\ pc' = "saving"
           \/ pc' = "failed"
    BY <1>1 DEF LoopClaims, AllSettled, RoundFails, Reject, cursors, calls
  <2>2. LogKeeps /\ saved' \in Nat
    BY <2>1, LogStays DEF IInv, TypeInv
  <2>. QED BY <2>1, <2>2, OthersMove
<1>2. CASE AdmitIntent
  BY <1>2, AdmitIntentKeeps
<1>3. CASE SaveMemory \/ SaveResult
  BY <1>3, SaveKeeps
<1>. QED BY <1>1, <1>2, <1>3 DEF RoundStep

LEMMA RivalKeeps ==
    ASSUME IInv, RivalEnters \/ RivalStep
    PROVE  IInv'
<1>1. /\ UNCHANGED <<round, at, card, pc, admitted, saved>>
      /\ UNCHANGED world \/ world' = Append(world, Rival)
  BY DEF RivalEnters, RivalStep, RivalApplies, RivalSaves, cursors, calls
<1>2. LogKeeps
  <2>1. CASE UNCHANGED log
    BY <2>1, LogStays DEF IInv
  <2>2. CASE RivalSaves
    <3>1. log' = Append(log, Rec("result", Rival)) /\ Rival \in Nat
      BY <2>2, RoundAssumption DEF RivalSaves, Commit, Rival
    <3>. QED BY <3>1, LogAdds, RecordType DEF IInv
  <2>. QED BY <2>1, <2>2 DEF RivalEnters, RivalStep, RivalApplies
<1>3. saved' \in Nat
  BY <1>1 DEF IInv, TypeInv
<1>. QED BY <1>1, <1>2, <1>3, OthersMove

LEMMA StopsKeep ==
    ASSUME IInv, Cancel \/ GraceEnds \/ Expire
    PROVE  IInv'
<1>1. UNCHANGED <<log, round, pc, admitted, saved, world>>
  BY DEF Cancel, GraceEnds, Expire, cursors
<1>2. CASE \E c \in Call : Deny(c)
  BY <1>1, <1>2, DenyKeeps
<1>3. CASE UNCHANGED <<at, card>>
  <2>1. LogKeeps /\ saved' \in Nat
    BY <1>1, LogStays DEF IInv, TypeInv
  <2>. QED BY <1>1, <1>3, <2>1, OthersMove
<1>. QED BY <1>2, <1>3 DEF Cancel, GraceEnds, Expire, calls

LEMMA CallStepKeeps ==
    ASSUME IInv, NEW c \in Call, CallStep(c) \/ Approve(c) \/ Decline(c)
    PROVE  IInv'
<1>1. CASE Decline(c)
  <2>1. Deny(c) /\ UNCHANGED <<log, round, pc, admitted, saved, world>>
    BY <1>1 DEF Decline, cursors
  <2>. QED BY <2>1, DenyKeeps
<1>2. CASE Start(c) \/ Decide(c) \/ RecordPolicy(c)
  BY <1>2, StartKeeps, DecideKeeps, RecordPolicyKeeps
<1>3. CASE RecordFails(c) \/ GiveUp(c) \/ CutOff(c)
  BY <1>3, EndsKeep
<1>4. CASE ShowCard(c) \/ Approve(c) \/ Enter(c)
  BY <1>4, ShowCardKeeps, ApproveKeeps, EnterKeeps
<1>5. CASE RecordPrepared(c) \/ Apply(c)
  BY <1>5, RecordPreparedKeeps, ApplyKeeps
<1>6. CASE Finish(c) \/ DeniedNetwork(c)
  BY <1>6, FinishKeeps, DeniedNetworkKeeps
<1>. QED BY <1>1, <1>2, <1>3, <1>4, <1>5, <1>6 DEF CallStep

LEMMA StutterKeeps ==
    ASSUME IInv, UNCHANGED vars
    PROVE  IInv'
<1>1. UNCHANGED <<log, round, pc, admitted, saved, world, at, card>>
  BY DEF vars, cursors, calls
<1>2. LogKeeps /\ saved' \in Nat
  BY <1>1, LogStays DEF IInv, TypeInv
<1>. QED BY <1>1, <1>2, OthersMove

LEMMA InitInv == Init => IInv
<1>1. SUFFICES ASSUME Init
               PROVE  IInv
  OBVIOUS
<1>2. TypeInv
  BY <1>1, RoundAssumption DEF Init, TypeInv, Stage
<1>3. IntentsLogged /\ AllAdmitted
  BY <1>1, RoundAssumption DEF Init, IntentsLogged, AllAdmitted, Call
<1>4. StartedLogged /\ DecidedLogged /\ RanLogged
  BY <1>1 DEF Init, StartedLogged, DecidedLogged, RanLogged, Decided, Ran
<1>5. AnnouncedBeforeEffect /\ CardAsks
  BY <1>1 DEF Init, AnnouncedBeforeEffect, CardAsks, Loop, Call
<1>. QED BY <1>2, <1>3, <1>4, <1>5 DEF IInv

-----------------------------------------------------------------------------
(* In every round, what a call has reached is in the log: its intent before *)
(* it starts, its decision before it may run, its execution record before   *)
(* its change (execute_with_effect_outbox, persist_admitted).               *)
THEOREM InductiveInvariant == Spec => []IInv
<1>1. IInv /\ [Next]_vars => IInv'
  BY RoundStepKeeps, RivalKeeps, StopsKeep, CallStepKeeps, StutterKeeps DEF Next
<1>. QED BY <1>1, InitInv, PTL DEF Spec

(* No change is made before the log holds its intent, its decision and its  *)
(* execution record, whatever fails, is cut off, retried or cancelled.      *)
THEOREM EffectsAnnounced == Spec => []AnnouncedBeforeEffect
<1>1. IInv => AnnouncedBeforeEffect
  BY DEF IInv
<1>. QED BY <1>1, InductiveInvariant, PTL

-----------------------------------------------------------------------------
(* The write lane: who holds it is preparing, running or done.             *)

Holding == {"preparing", "running", "applied", "settled"}

LaneHeld == lane \in Call => at[lane] \in Holding

LEMMA LaneFacts ==
    /\ Rival \notin Call /\ Loop \notin Call
    /\ {"preparing", "running", "applied", "settled"} \subseteq Holding
    /\ Holding \cap Asks = {}
BY RoundAssumption DEF Rival, Loop, Call, Holding, Asks

\* A call that holds no lane moves on and takes none.
LEMMA LaneAbsent ==
    ASSUME IInv, LaneHeld, NEW c \in Call, NEW stage,
           at' = [at EXCEPT ![c] = stage],
           at[c] \notin Holding, lane' = lane
    PROVE  LaneHeld'
<1>1. \A d \in Call : d # c => at'[d] = at[d]
  BY DEF IInv, TypeInv
<1>. QED BY <1>1 DEF LaneHeld

\* A call moves on to a stage at which it may hold the lane.
LEMMA LaneKept ==
    ASSUME IInv, LaneHeld, NEW c \in Call, NEW stage \in Holding,
           at' = [at EXCEPT ![c] = stage],
           lane' = lane \/ lane' = c
    PROVE  LaneHeld'
<1>1. at'[c] = stage /\ \A d \in Call : d # c => at'[d] = at[d]
  BY DEF IInv, TypeInv
<1>. QED BY <1>1 DEF LaneHeld

LEMMA LaneFreed ==
    ASSUME lane' = Loop
    PROVE  LaneHeld'
BY LaneFacts DEF LaneHeld

\* No call moves.
LEMMA LaneRests ==
    ASSUME LaneHeld, UNCHANGED at, lane' \in {lane, Loop, Rival}
    PROVE  LaneHeld'
BY LaneFacts DEF LaneHeld

\* A call settles, and may keep the lane until its result is saved.
LEMMA LaneSettles ==
    ASSUME IInv, LaneHeld, NEW c \in Call,
           at' = [at EXCEPT ![c] = "settled"], lane' = lane
    PROVE  LaneHeld'
BY LaneKept, LaneFacts

LEMMA LaneCallStep ==
    ASSUME IInv, LaneHeld, NEW c \in Call,
           CallStep(c) \/ Approve(c) \/ Decline(c)
    PROVE  LaneHeld'
<1>1. CASE Start(c) \/ Decide(c)
  <2>1. PICK stage \in {"settled", "deciding"} \cup Verdict :
        at' = [at EXCEPT ![c] = stage]
    BY <1>1 DEF Start, Decide, Settle, Go
  <2>2. lane' = lane /\ at[c] \notin Holding
    BY <1>1 DEF Start, Decide, Holding
  <2>. QED BY <2>1, <2>2, LaneAbsent
<1>2. CASE RecordPolicy(c)
  <2>1. PICK stage \in {"settled", "asking", "approved"} :
        at' = [at EXCEPT ![c] = stage]
    BY <1>2 DEF RecordPolicy, Settle, Go
  <2>2. lane' = lane /\ at[c] \notin Holding
    BY <1>2 DEF RecordPolicy, Holding, Verdict
  <2>. QED BY <2>1, <2>2, LaneAbsent
<1>3. CASE RecordFails(c) \/ GiveUp(c) \/ CutOff(c) \/ Finish(c) \/ Decline(c)
  <2>1. at' = [at EXCEPT ![c] = "settled"] /\ lane' = lane
    BY <1>3 DEF RecordFails, GiveUp, CutOff, Finish, Decline, Deny, Settle
  <2>. QED BY <2>1, LaneSettles
<1>4. CASE ShowCard(c)
  BY <1>4, LaneRests DEF ShowCard, calls
<1>5. CASE Approve(c)
  <2>1. at[c] \notin Holding
    BY <1>5, LaneFacts DEF Approve, IInv, CardAsks
  <2>2. at' = [at EXCEPT ![c] = "approved"] /\ lane' = lane
    BY <1>5 DEF Approve, Go
  <2>. QED BY <2>1, <2>2, LaneAbsent
<1>6. CASE Enter(c)
  <2>1. PICK stage \in {"running", "preparing", "settled"} :
        at' = [at EXCEPT ![c] = stage]
    BY <1>6 DEF Enter, Go, Settle
  <2>2. lane' = lane \/ lane' = c
    BY <1>6 DEF Enter
  <2>. QED BY <2>1, <2>2, LaneKept, LaneFacts
<1>7. CASE RecordPrepared(c) \/ Apply(c)
  <2>1. PICK stage \in {"running", "applied"} : at' = [at EXCEPT ![c] = stage]
    BY <1>7 DEF RecordPrepared, Apply, Go
  <2>2. lane' = lane
    BY <1>7 DEF RecordPrepared, Apply
  <2>. QED BY <2>1, <2>2, LaneKept, LaneFacts
<1>8. CASE DeniedNetwork(c)
  BY <1>8, LaneFreed DEF DeniedNetwork
<1>. QED BY <1>1, <1>2, <1>3, <1>4, <1>5, <1>6, <1>7, <1>8 DEF CallStep

LEMMA LaneOtherStep ==
    ASSUME IInv, LaneHeld,
           \/ RoundStep \/ RivalEnters \/ RivalStep
           \/ Cancel \/ GraceEnds \/ Expire \/ UNCHANGED vars
    PROVE  LaneHeld'
<1>1. CASE RoundStep
  <2>1. UNCHANGED at /\ lane' \in {lane, Loop}
    BY <1>1 DEF RoundStep, LoopClaims, AdmitIntent, AllSettled, SaveMemory,
                SaveResult, RoundFails, calls
  <2>. QED BY <2>1, LaneRests
<1>2. CASE RivalEnters \/ RivalStep
  <2>1. UNCHANGED at /\ lane' \in {lane, Loop, Rival}
    BY <1>2 DEF RivalEnters, RivalStep, RivalApplies, RivalSaves, calls
  <2>. QED BY <2>1, LaneRests
<1>3. CASE Cancel \/ GraceEnds \/ Expire \/ UNCHANGED vars
  <2>1. lane' = lane
    BY <1>3 DEF Cancel, GraceEnds, Expire, vars
  <2>2. UNCHANGED at \/ \E c \in Call : at' = [at EXCEPT ![c] = "settled"]
    BY <1>3 DEF Cancel, GraceEnds, Expire, Deny, Settle, vars, calls
  <2>. QED BY <2>1, <2>2, LaneRests, LaneSettles
<1>. QED BY <1>1, <1>2, <1>3

(* No call keeps the write lane while a person is asked, for the change or  *)
(* for the network: a card never answered blocks no other change (Lane,     *)
(* execute_with_net_retry).                                                 *)
THEOREM LanesNeverWait == Spec => []LaneNeverWaitsOnPerson
<1>1. Init => LaneHeld
  BY LaneFacts DEF Init, LaneHeld
<1>2. IInv /\ LaneHeld /\ [Next]_vars => LaneHeld'
  BY LaneCallStep, LaneOtherStep DEF Next
<1>3. IInv /\ LaneHeld => LaneNeverWaitsOnPerson
  BY LaneFacts DEF LaneHeld, LaneNeverWaitsOnPerson, Asks
<1>. QED BY <1>1, <1>2, <1>3, InductiveInvariant, PTL DEF Spec

-----------------------------------------------------------------------------
(* The results: a batch is saved once all of it has settled.               *)

\* A call in flight is of the batch that runs.
InFlight ==
    \A c \in Call : at[c] \notin {"waiting", "settled"} =>
        pc = "running" /\ c \in Batch

Cursors ==
    /\ from \in Call /\ saved \in 0 .. N
    /\ pc \in {"admitting", "running"} => saved = from - 1
    /\ pc = "saving" => saved + 1 \in Batch /\ \A c \in Batch : Settled(c)
    /\ \A c \in Call : c <= saved => Settled(c)

Orderly ==
    /\ IInv
    /\ result \in [Call -> Result]
    /\ InFlight /\ Cursors /\ ResultsInCallOrder

LEMMA CallFacts ==
    /\ \A c \in Call : c \in Nat /\ 1 <= c /\ c <= N
    /\ N \in Nat /\ N \in Call /\ 1 \in Call
    /\ Rival = N + 1 /\ Rival \notin Call /\ Loop \notin Call
    /\ Rival \in Nat /\ Loop # Rival
BY RoundAssumption DEF Call, Rival, Loop

\* A record that is no result of a call leaves the results as they are.
OtherRecord ==
    \/ UNCHANGED log
    \/ \E r \in LogRecord : ~IsCallsResult(r) /\ log' = Append(log, r)

LEMMA ResultsStay ==
    ASSUME TypeInv, ResultsInCallOrder, OtherRecord,
           UNCHANGED saved, pc' = "done" => saved = N
    PROVE  /\ ResultsInCallOrder'
           /\ \A c \in Call : Logged("result", c)' <=> Logged("result", c)
<1>1. CASE UNCHANGED log
  BY <1>1 DEF ResultsInCallOrder, Logged
<1>2. ASSUME NEW r \in LogRecord, ~IsCallsResult(r), log' = Append(log, r)
      PROVE  /\ ResultsInCallOrder'
             /\ \A c \in Call : Logged("result", c)' <=> Logged("result", c)
  <2>1. /\ Len(log) \in Nat /\ DOMAIN log = 1 .. Len(log)
        /\ DOMAIN log' = 1 .. Len(log) + 1
        /\ \A i \in 1 .. Len(log) : log'[i] = log[i]
        /\ log'[Len(log) + 1] = r
    BY <1>2 DEF TypeInv
  <2>2. ASSUME NEW c \in Call
        PROVE  Logged("result", c)' <=> Logged("result", c)
    <3>1. IsCallsResult(Rec("result", c))
      BY DEF IsCallsResult, Rec
    <3>2. r # Rec("result", c)
      BY <1>2, <3>1
    <3>3. \A i \in 1 .. Len(log) + 1 :
             log'[i] = Rec("result", c) => i \in 1 .. Len(log)
      BY <2>1, <3>2
    <3>4. \A i \in 1 .. Len(log) : i \in 1 .. Len(log) + 1
      BY <2>1
    <3>. QED BY <2>1, <3>3, <3>4 DEF Logged
  <2>3. ASSUME NEW i \in DOMAIN log', NEW j \in DOMAIN log',
               i < j, IsCallsResult(log'[i]), IsCallsResult(log'[j])
        PROVE  log'[i].of < log'[j].of
    <3>1. i \in 1 .. Len(log) /\ j \in 1 .. Len(log)
      BY <1>2, <2>1, <2>3
    <3>2. log'[i] = log[i] /\ log'[j] = log[j]
      BY <2>1, <3>1
    <3>. QED BY <2>1, <2>3, <3>1, <3>2 DEF ResultsInCallOrder
  <2>4. (\A c \in Call : Logged("result", c) <=> c <= saved)'
    <3>1. \A c \in Call : Logged("result", c) <=> c <= saved
      BY DEF ResultsInCallOrder
    <3>. QED BY <2>2, <3>1
  <2>5. (\A i, j \in DOMAIN log :
            i < j /\ IsCallsResult(log[i]) /\ IsCallsResult(log[j])
                => log[i].of < log[j].of)'
    BY <2>3 DEF IsCallsResult
  <2>6. ResultsInCallOrder'
    BY <2>4, <2>5 DEF ResultsInCallOrder
  <2>. QED BY <2>2, <2>6
<1>. QED BY <1>1, <1>2 DEF OtherRecord

\* The next result is after all that are there.
LEMMA ResultSaved ==
    ASSUME TypeInv, ResultsInCallOrder, NEW c \in Call, c = saved + 1,
           log' = Append(log, Rec("result", c)), saved' = saved + 1,
           pc' = "done" => saved' = N
    PROVE  /\ ResultsInCallOrder'
           /\ \A d \in Call :
                 Logged("result", d)' <=> Logged("result", d) \/ d = c
<1>1. /\ Len(log) \in Nat /\ DOMAIN log = 1 .. Len(log)
      /\ DOMAIN log' = 1 .. Len(log) + 1
      /\ \A i \in 1 .. Len(log) : log'[i] = log[i]
      /\ log'[Len(log) + 1] = Rec("result", c)
  <2>1. Rec("result", c) \in LogRecord
    BY RecordType, CallFacts
  <2>. QED BY <2>1 DEF TypeInv
<1>2. ASSUME NEW d \in Call
      PROVE  Logged("result", d)' <=> Logged("result", d) \/ d = c
  <2>1. Rec("result", c) = Rec("result", d) => c = d
    BY DEF Rec
  <2>2. \A i \in 1 .. Len(log) : i \in 1 .. Len(log) + 1
    BY <1>1
  <2>3. \A i \in 1 .. Len(log) + 1 : i \in 1 .. Len(log) \/ i = Len(log) + 1
    BY <1>1
  <2>4. Len(log) + 1 \in 1 .. Len(log) + 1
    BY <1>1
  <2>. QED BY <1>1, <2>1, <2>2, <2>3, <2>4 DEF Logged
<1>3. ASSUME NEW d \in Call
      PROVE  Logged("result", d)' <=> d <= saved'
  <2>1. Logged("result", d) <=> d <= saved
    BY DEF ResultsInCallOrder
  <2>2. d <= saved + 1 <=> d <= saved \/ d = saved + 1
    BY CallFacts DEF TypeInv
  <2>. QED BY <1>2, <2>1, <2>2
<1>4. ASSUME NEW i \in 1 .. Len(log), IsCallsResult(log[i])
      PROVE  log[i].of < c
  <2>1. log[i] \in LogRecord
    BY <1>1 DEF TypeInv
  <2>2. PICK d \in Call : d = log[i].of /\ log[i] = Rec("result", d)
    BY <1>4, <2>1 DEF IsCallsResult, Rec, LogRecord
  <2>3. Logged("result", d)
    BY <1>1, <2>2 DEF Logged
  <2>4. d <= saved
    BY <2>3 DEF ResultsInCallOrder
  <2>. QED BY <2>2, <2>4, CallFacts DEF TypeInv
<1>5. ASSUME NEW i \in 1 .. Len(log) + 1, NEW j \in 1 .. Len(log) + 1,
             i < j, IsCallsResult(log'[i]), IsCallsResult(log'[j])
      PROVE  log'[i].of < log'[j].of
  <2>1. i \in 1 .. Len(log) /\ log'[i] = log[i]
    BY <1>1, <1>5
  <2>2. CASE j = Len(log) + 1
    <3>1. log'[j].of = c
      BY <1>1, <2>2 DEF Rec
    <3>. QED BY <1>4, <1>5, <2>1, <3>1
  <2>3. CASE j \in 1 .. Len(log)
    <3>1. log'[j] = log[j]
      BY <1>1, <2>3
    <3>. QED BY <1>1, <1>5, <2>1, <2>3, <3>1 DEF ResultsInCallOrder
  <2>. QED BY <1>1, <2>2, <2>3
<1>6. ResultsInCallOrder'
  <2>1. (\A d \in Call : Logged("result", d) <=> d <= saved)'
    BY <1>3
  <2>2. (\A i, j \in DOMAIN log :
            i < j /\ IsCallsResult(log[i]) /\ IsCallsResult(log[j])
                => log[i].of < log[j].of)'
    BY <1>1, <1>5 DEF IsCallsResult
  <2>. QED BY <2>1, <2>2 DEF ResultsInCallOrder
<1>. QED BY <1>2, <1>6

Busy == {"preparing", "running", "applied"}

\* A record of a decision, of an execution or of an intent.
QuietRecord ==
    \/ UNCHANGED log
    \/ \E r \in LogRecord :
          r.what \notin {"memory", "result"} /\ log' = Append(log, r)

\* A step of call c, which has not settled.
Moves(c) ==
    /\ UNCHANGED <<round, pc, from, saved, rival>>
    /\ \E stage \in Stage \ {"waiting"} : at' = [at EXCEPT ![c] = stage]
    /\ \/ UNCHANGED result
       \/ \E how \in Result : result' = [result EXCEPT ![c] = how]
    /\ at[c] # "settled"
    /\ at[c] = "waiting" => pc = "running" /\ c \in Batch
    /\ QuietRecord

\* What such a step does to the lane and to the world: nothing, the lane is
\* taken, the change is made, or the lane is left for the network card.
Aside(c) ==
    /\ UNCHANGED <<world, retried, lane>>
    /\ Changes(c) /\ at'[c] \in Busy => at[c] \in Busy
    /\ round[c] = "memory" => at'[c] # "applied"
    /\ round[c] = "memory" =>
          IF at[c] = "applied" THEN result'[c] \in {"real", "failed"}
                                    /\ at'[c] = "settled"
          ELSE UNCHANGED result \/ result'[c] # "real"
Enters(c) ==
    /\ UNCHANGED <<world, retried>>
    /\ Changes(c) /\ lane = Loop /\ lane' = c
    /\ at[c] = "approved" /\ at'[c] # "applied"
    /\ UNCHANGED result \/ result'[c] # "real"
Applies(c) ==
    /\ UNCHANGED <<retried, lane, log, result>>
    /\ Changes(c) /\ at[c] = "running" /\ at'[c] = "applied"
    /\ world' = Append(world, c)
Leaves(c) ==
    /\ UNCHANGED <<world, result>>
    /\ round[c] = "change" /\ at[c] \in Busy /\ at'[c] \notin Busy
    /\ lane' = Loop /\ retried' = retried \cup {c}
Effects(c) == Aside(c) \/ Enters(c) \/ Applies(c) \/ Leaves(c)

Still == UNCHANGED <<round, pc, from, saved, at, result, log, world, retried,
                     lane, rival>>

LEMMA RecordFacts ==
    ASSUME NEW c \in Call, NEW what \in {"intent", "policy", "prepared", "memory"},
           log' = Append(log, Rec(what, c))
    PROVE  /\ OtherRecord
           /\ what # "memory" => QuietRecord
<1>1. Rec(what, c) \in LogRecord /\ Rec(what, c).what = what
  BY RecordType, CallFacts
<1>2. ~IsCallsResult(Rec(what, c))
  BY <1>1 DEF IsCallsResult
<1>3. OtherRecord
  BY <1>1, <1>2 DEF OtherRecord
<1>4. ASSUME what # "memory"
      PROVE  QuietRecord
  <2>1. Rec(what, c).what \notin {"memory", "result"}
    BY <1>1, <1>4
  <2>. QED BY <1>1, <2>1 DEF QuietRecord
<1>. QED BY <1>3, <1>4

LEMMA QuietIsOther ==
    ASSUME QuietRecord
    PROVE  OtherRecord
BY DEF QuietRecord, OtherRecord, IsCallsResult

LEMMA CallStepMoves ==
    ASSUME IInv, NEW c \in Call,
           CallStep(c) \/ Approve(c) \/ Decline(c)
    PROVE  Moves(c) \/ Still
<1>1. {"deciding", "asking", "approved", "preparing", "running", "applied",
       "network", "settled"} \cup Verdict \subseteq Stage \ {"waiting"}
  BY DEF Stage, Verdict
<1>2. {"real", "failed", "refused", "interrupted"} \subseteq Result
  BY DEF Result
<1>3. card = c => at[c] \in Asks
  BY DEF IInv, CardAsks
<1>4. CASE Start(c)
  BY <1>1, <1>2, <1>4 DEF Start, Settle, Go, Moves, QuietRecord, cursors
<1>5. CASE Decide(c)
  BY <1>1, <1>2, <1>5 DEF Decide, Settle, Go, Moves, QuietRecord, cursors
<1>6. CASE RecordPolicy(c)
  <2>1. QuietRecord
    BY <1>6, RecordFacts DEF RecordPolicy, Commit
  <2>2. PICK stage \in {"settled", "asking", "approved"} :
          at' = [at EXCEPT ![c] = stage]
    BY <1>6 DEF RecordPolicy, Settle, Go
  <2>3. \/ UNCHANGED result
        \/ \E how \in Result : result' = [result EXCEPT ![c] = how]
    BY <1>2, <1>6 DEF RecordPolicy, Settle, Go
  <2>4. at[c] \in Verdict /\ UNCHANGED <<round, pc, from, saved, rival>>
    BY <1>6 DEF RecordPolicy, cursors
  <2>. QED BY <1>1, <2>1, <2>2, <2>3, <2>4 DEF Moves, Verdict
<1>7. CASE RecordPrepared(c)
  <2>1. QuietRecord
    BY <1>7, RecordFacts DEF RecordPrepared, Commit
  <2>. QED BY <1>1, <1>7, <2>1 DEF RecordPrepared, Go, Moves, cursors
<1>8. CASE RecordFails(c)
  BY <1>1, <1>2, <1>8
  DEF RecordFails, Reject, Settle, Moves, QuietRecord, cursors, Verdict
<1>9. CASE ShowCard(c)
  BY <1>9 DEF ShowCard, Still, cursors, calls
<1>10. CASE Enter(c)
  BY <1>1, <1>2, <1>10 DEF Enter, Settle, Go, Moves, QuietRecord, cursors
<1>11. CASE GiveUp(c) \/ CutOff(c)
  BY <1>1, <1>2, <1>11 DEF GiveUp, CutOff, Settle, Moves, QuietRecord, cursors
<1>12. CASE Apply(c) \/ DeniedNetwork(c)
  BY <1>1, <1>12 DEF Apply, DeniedNetwork, Go, Moves, QuietRecord, cursors
<1>13. CASE Finish(c)
  BY <1>1, <1>2, <1>13 DEF Finish, Settle, Moves, QuietRecord, cursors
<1>14. CASE Approve(c)
  BY <1>1, <1>3, <1>14 DEF Approve, Go, Moves, QuietRecord, cursors, Asks
<1>15. CASE Decline(c)
  BY <1>1, <1>2, <1>3, <1>15
  DEF Decline, Deny, Settle, Moves, QuietRecord, cursors, Asks
<1>. QED
  BY <1>4, <1>5, <1>6, <1>7, <1>8, <1>9, <1>10, <1>11, <1>12, <1>13, <1>14,
     <1>15
  DEF CallStep

LEMMA CallStepEffects ==
    ASSUME IInv, result \in [Call -> Result], NEW c \in Call,
           CallStep(c) \/ Approve(c) \/ Decline(c)
    PROVE  Effects(c) \/ Still
<1>1. at \in [Call -> Stage] /\ (card = c => at[c] \in Asks)
  BY DEF IInv, TypeInv, CardAsks
<1>2. ASSUME UNCHANGED <<world, retried, lane>>,
             NEW stage, at' = [at EXCEPT ![c] = stage],
             stage \notin Busy, at[c] # "applied",
             UNCHANGED result \/
                \E how : how # "real" /\ result' = [result EXCEPT ![c] = how]
      PROVE  Effects(c)
  BY <1>1, <1>2 DEF Effects, Aside, Busy
<1>3. CASE Start(c)
  BY <1>2, <1>3 DEF Start, Settle, Go, calls, Busy
<1>4. CASE Decide(c)
  BY <1>2, <1>4 DEF Decide, Settle, Go, calls, Busy, Verdict
<1>5. CASE RecordPolicy(c) \/ RecordFails(c)
  BY <1>2, <1>5 DEF RecordPolicy, RecordFails, Settle, Go, calls, Busy, Verdict
<1>6. CASE ShowCard(c)
  BY <1>6 DEF ShowCard, Still, cursors, calls
<1>7. CASE Approve(c) \/ Decline(c)
  BY <1>1, <1>2, <1>7 DEF Approve, Decline, Deny, Settle, Go, calls, Busy, Asks
<1>8. CASE GiveUp(c)
  BY <1>2, <1>8 DEF GiveUp, Settle, calls, Busy
<1>9. CASE CutOff(c)
  <2>1. /\ UNCHANGED <<world, retried, lane>> /\ round[c] # "memory"
        /\ at' = [at EXCEPT ![c] = "settled"]
    BY <1>9 DEF CutOff, Settle
  <2>. QED BY <1>1, <2>1 DEF Effects, Aside, Busy
<1>10. CASE Enter(c)
  <2>1. CASE ~Changes(c)
    <3>1. UNCHANGED <<world, retried, lane>>
      BY <1>10, <2>1 DEF Enter, Go
    <3>. QED BY <2>1, <3>1 DEF Effects, Aside, Changes
  <2>2. CASE Changes(c)
    <3>1. /\ UNCHANGED <<world, retried>> /\ lane = Loop /\ lane' = c
          /\ at[c] = "approved"
          /\ \/ at' = [at EXCEPT ![c] = "preparing"] /\ UNCHANGED result
             \/ /\ at' = [at EXCEPT ![c] = "settled"]
                /\ result' = [result EXCEPT ![c] = "failed"]
      BY <1>10, <2>2 DEF Enter, Go, Settle
    <3>. QED BY <1>1, <2>2, <3>1 DEF Effects, Enters
  <2>. QED BY <2>1, <2>2
<1>11. CASE RecordPrepared(c)
  <2>1. /\ UNCHANGED <<world, retried, lane, result>> /\ at[c] = "preparing"
        /\ at' = [at EXCEPT ![c] = "running"]
    BY <1>11 DEF RecordPrepared, Go
  <2>. QED BY <1>1, <2>1 DEF Effects, Aside, Busy
<1>12. CASE Apply(c)
  BY <1>1, <1>12 DEF Apply, Go, Effects, Applies
<1>13. CASE Finish(c)
  <2>1. /\ UNCHANGED <<world, retried, lane>>
        /\ at' = [at EXCEPT ![c] = "settled"]
        /\ at[c] \in {"running", "applied"}
        /\ \/ result' = [result EXCEPT ![c] = "failed"]
           \/ /\ result' = [result EXCEPT ![c] = "real"]
              /\ at[c] = "applied" \/ ~Changes(c)
    BY <1>13 DEF Finish, Settle
  <2>2. at'[c] = "settled" /\ result'[c] \in {"real", "failed"}
        /\ (result'[c] = "real" => at[c] = "applied" \/ ~Changes(c))
    BY <1>1, <2>1
  <2>3. round[c] = "memory" => Changes(c)
    BY DEF Changes
  <2>. QED BY <2>1, <2>2, <2>3 DEF Effects, Aside, Busy
<1>14. CASE DeniedNetwork(c)
  BY <1>1, <1>14 DEF DeniedNetwork, Effects, Leaves, Busy
<1>. QED
  BY <1>3, <1>4, <1>5, <1>6, <1>7, <1>8, <1>9, <1>10, <1>11, <1>12, <1>13,
     <1>14
  DEF CallStep

LEMMA StopsMove ==
    ASSUME IInv, result \in [Call -> Result],
           Cancel \/ GraceEnds \/ Expire \/ UNCHANGED vars
    PROVE  Still \/ \E c \in Call : Moves(c) /\ Effects(c)
<1>1. CASE GraceEnds \/ Expire \/ UNCHANGED vars
  BY <1>1 DEF GraceEnds, Expire, vars, Still, cursors, calls
<1>2. CASE Cancel /\ UNCHANGED calls
  BY <1>2 DEF Cancel, Still, cursors, calls
<1>3. ASSUME Cancel, NEW c \in Call, Deny(c)
      PROVE  Moves(c) /\ Effects(c)
  <2>1. "settled" \in Stage \ {"waiting"} /\ {"failed", "refused"} \subseteq Result
    BY DEF Stage, Result
  <2>2. at[c] \in Asks
    BY <1>3 DEF Deny, IInv, CardAsks
  <2>3. PICK how \in {"failed", "refused"} : result' = [result EXCEPT ![c] = how]
    BY <1>3 DEF Deny, Settle
  <2>4. /\ at' = [at EXCEPT ![c] = "settled"]
        /\ UNCHANGED <<round, pc, from, saved, rival, log, world, lane, retried>>
    BY <1>3 DEF Cancel, Deny, Settle, cursors
  <2>5. at'[c] = "settled" /\ result'[c] # "real" /\ at[c] # "applied"
    BY <2>2, <2>3, <2>4 DEF IInv, TypeInv, Asks
  <2>6. Moves(c)
    BY <2>1, <2>2, <2>3, <2>4 DEF Moves, QuietRecord, Asks
  <2>7. Effects(c)
    BY <2>4, <2>5 DEF Effects, Aside, Busy
  <2>. QED BY <2>6, <2>7
<1>. QED BY <1>1, <1>2, <1>3 DEF Cancel

LEMMA RivalMoves ==
    ASSUME IInv, RivalEnters \/ RivalStep
    PROVE  UNCHANGED <<round, pc, from, saved, at, result>> /\ OtherRecord
<1>1. UNCHANGED <<round, pc, from, saved, at, result>>
  BY DEF RivalEnters, RivalStep, RivalApplies, RivalSaves, cursors, calls
<1>2. CASE UNCHANGED log
  BY <1>1, <1>2 DEF OtherRecord
<1>3. CASE RivalSaves
  <2>1. log' = Append(log, Rec("result", Rival))
    BY <1>3 DEF RivalSaves, Commit
  <2>2. Rec("result", Rival) \in LogRecord /\ ~IsCallsResult(Rec("result", Rival))
    BY RecordType, CallFacts DEF IsCallsResult
  <2>. QED BY <1>1, <2>1, <2>2 DEF OtherRecord
<1>. QED BY <1>2, <1>3 DEF RivalEnters, RivalStep, RivalApplies

LEMMA BatchStays ==
    ASSUME UNCHANGED <<round, from>>
    PROVE  Batch' = Batch
BY DEF Batch, Changes

LEMMA MovesKeepOrder ==
    ASSUME Orderly, IInv', NEW c \in Call, Moves(c)
    PROVE  Orderly'
<1>1. PICK stage \in Stage \ {"waiting"} : at' = [at EXCEPT ![c] = stage]
  BY DEF Moves
<1>2. /\ \A d \in Call : d # c => at'[d] = at[d]
      /\ at'[c] # "waiting" /\ at[c] # "settled"
      /\ at[c] = "waiting" => pc = "running" /\ c \in Batch
      /\ UNCHANGED <<round, pc, from, saved>>
  BY <1>1 DEF Moves, Orderly, IInv, TypeInv
<1>3. Batch' = Batch
  BY <1>2, BatchStays
<1>4. pc = "running" /\ c \in Batch
  BY <1>2 DEF Orderly, InFlight
<1>5. InFlight'
  BY <1>2, <1>3, <1>4 DEF Orderly, InFlight
<1>6. \A d \in Call : Settled(d) => Settled(d)'
  BY <1>2 DEF Settled
<1>7. Cursors'
  BY <1>2, <1>3, <1>4, <1>6 DEF Orderly, Cursors
<1>8. ResultsInCallOrder'
  <2>1. OtherRecord
    BY QuietIsOther DEF Moves
  <2>. QED BY <1>2, <1>4, <2>1, ResultsStay DEF Orderly, IInv
<1>9. result' \in [Call -> Result]
  BY DEF Moves, Orderly
<1>. QED BY <1>5, <1>7, <1>8, <1>9 DEF Orderly

LEMMA RestsKeepOrder ==
    ASSUME Orderly, IInv', OtherRecord,
           UNCHANGED <<round, pc, from, saved, at, result>>
    PROVE  Orderly'
<1>1. Batch' = Batch
  BY BatchStays
<1>2. InFlight' /\ result' \in [Call -> Result]
  BY <1>1 DEF Orderly, InFlight
<1>3. Cursors'
  BY <1>1 DEF Orderly, Cursors, Settled
<1>4. ResultsInCallOrder'
  BY ResultsStay DEF Orderly, IInv, ResultsInCallOrder
<1>. QED BY <1>2, <1>3, <1>4 DEF Orderly

LEMMA FirstOfBatch ==
    ASSUME from \in Call
    PROVE  from \in Batch
BY CallFacts DEF Batch, Changes

\* The calls stand still while the round goes on.
LEMMA RoundKeepsOrder ==
    ASSUME Orderly, IInv', RoundStep
    PROVE  Orderly'
<1>1. /\ InFlight /\ Cursors /\ ResultsInCallOrder /\ TypeInv
      /\ result \in [Call -> Result]
  BY DEF Orderly, IInv
<1>2. UNCHANGED <<round, at, result>>
  BY DEF RoundStep, LoopClaims, AdmitIntent, AllSettled, SaveMemory,
         SaveResult, RoundFails, calls
<1>3. result' \in [Call -> Result]
  BY <1>1, <1>2
<1>4. CASE LoopClaims
  BY <1>2, <1>4, RestsKeepOrder DEF LoopClaims, OtherRecord, cursors
<1>5. CASE AdmitIntent
  <2>1. /\ pc = "admitting" /\ pc' \in {"admitting", "running"}
        /\ UNCHANGED <<from, saved>>
    BY <1>5 DEF AdmitIntent
  <2>2. OtherRecord
    <3>1. admitted + 1 \in Call
      BY <1>5, RoundAssumption DEF AdmitIntent, Orderly, IInv, TypeInv,
                                   AllAdmitted, Call
    <3>2. log' = Append(log, Rec("intent", admitted + 1))
      BY <1>5 DEF AdmitIntent, Commit
    <3>. QED BY <3>1, <3>2, RecordFacts
  <2>3. InFlight'
    BY <1>1, <1>2, <2>1 DEF InFlight
  <2>4. Cursors'
    BY <1>1, <1>2, <2>1 DEF Cursors, Settled
  <2>5. ResultsInCallOrder'
    BY <1>1, <2>1, <2>2, ResultsStay
  <2>. QED BY <1>3, <2>3, <2>4, <2>5 DEF Orderly
<1>6. CASE AllSettled
  <2>1. /\ pc = "running" /\ pc' = "saving"
        /\ \A c \in Batch : Settled(c)
        /\ UNCHANGED <<from, saved, log>>
    BY <1>6 DEF AllSettled, cursors
  <2>2. Batch' = Batch
    BY <1>2, <2>1, BatchStays
  <2>3. InFlight'
    BY <1>1, <1>2, <2>1 DEF InFlight, Settled
  <2>4. saved + 1 \in Batch
    <3>1. saved + 1 = from
      BY <1>1, <2>1, CallFacts DEF Cursors
    <3>. QED BY <1>1, <3>1, FirstOfBatch DEF Cursors
  <2>5. Cursors'
    BY <1>1, <1>2, <2>1, <2>2, <2>4 DEF Cursors, Settled
  <2>6. ResultsInCallOrder'
    BY <1>1, <2>1, ResultsStay DEF OtherRecord
  <2>. QED BY <1>3, <2>3, <2>5, <2>6 DEF Orderly
<1>7. CASE SaveMemory
  <2>1. UNCHANGED <<pc, from, saved>> /\ pc = "saving"
    BY <1>7 DEF SaveMemory, cursors
  <2>2. OtherRecord
    <3>1. saved + 1 \in Call
      BY <1>1, <2>1 DEF Cursors, Batch
    <3>2. log' = Append(log, Rec("memory", saved + 1))
      BY <1>7 DEF SaveMemory, Commit
    <3>. QED BY <3>1, <3>2, RecordFacts
  <2>. QED BY <1>2, <2>1, <2>2, RestsKeepOrder
<1>8. CASE SaveResult
  <2>1. /\ pc = "saving" /\ saved' = saved + 1 /\ After(saved + 1)
        /\ log' = Append(log, Rec("result", saved + 1))
    BY <1>8 DEF SaveResult, Commit
  <2>2. saved + 1 \in Call /\ saved + 1 \in Batch /\ Settled(saved + 1)
    BY <1>1, <2>1 DEF Cursors, Batch
  <2>3. PICK c \in Call : c = saved + 1
    BY <2>2
  <2>4. \A d \in Call : at[d] \in {"waiting", "settled"}
    BY <1>1, <2>1 DEF InFlight
  <2>5. InFlight'
    BY <1>2, <2>4 DEF InFlight
  <2>6. \A d \in Call : d <= c => Settled(d)'
    <3>1. \A d \in Call : d <= saved => Settled(d)
      BY <1>1 DEF Cursors
    <3>2. \A d \in Call : d <= c => d <= saved \/ d = c
      BY <1>1, <2>3, CallFacts DEF Cursors
    <3>. QED BY <1>2, <2>2, <2>3, <3>1, <3>2 DEF Settled
  <2>7. c \in 0 .. N /\ (c # N => c + 1 \in Call)
    BY CallFacts DEF Call
  <2>8. CASE c = N
    <3>1. pc' = "done" /\ from' = from /\ saved' = N
      BY <2>1, <2>3, <2>8 DEF After
    <3>2. Cursors'
      BY <1>1, <2>3, <2>6, <2>7, <2>8, <3>1 DEF Cursors
    <3>3. ResultsInCallOrder'
      BY <1>1, <2>1, <2>3, <3>1, ResultSaved
    <3>. QED BY <1>3, <2>5, <3>2, <3>3 DEF Orderly
  <2>9. CASE c # N /\ c + 1 \in Batch
    <3>1. pc' = "saving" /\ from' = from /\ saved' = c
      BY <2>1, <2>3, <2>9 DEF After
    <3>2. Batch' = Batch
      BY <1>2, <3>1, BatchStays
    <3>3. Cursors'
      BY <1>1, <1>2, <2>1, <2>6, <2>7, <2>9, <3>1, <3>2 DEF Cursors, Settled
    <3>4. ResultsInCallOrder'
      BY <1>1, <2>1, <2>3, <3>1, ResultSaved
    <3>. QED BY <1>3, <2>5, <3>3, <3>4 DEF Orderly
  <2>10. CASE c # N /\ c + 1 \notin Batch
    <3>1. pc' = "running" /\ from' = c + 1 /\ saved' = c
      BY <2>1, <2>3, <2>10 DEF After
    <3>2. saved' = from' - 1
      BY <3>1, CallFacts
    <3>3. Cursors'
      BY <2>6, <2>7, <2>10, <3>1, <3>2 DEF Cursors
    <3>4. ResultsInCallOrder'
      BY <1>1, <2>1, <2>3, <3>1, ResultSaved
    <3>. QED BY <1>3, <2>5, <3>3, <3>4 DEF Orderly
  <2>. QED BY <2>8, <2>9, <2>10
<1>9. CASE RoundFails
  <2>1. /\ pc \in {"admitting", "saving"} /\ pc' = "failed"
        /\ UNCHANGED <<from, saved, log>>
    BY <1>9 DEF RoundFails, Reject, cursors
  <2>2. InFlight'
    BY <1>1, <1>2, <2>1 DEF InFlight
  <2>3. Cursors'
    BY <1>1, <1>2, <2>1 DEF Cursors, Settled
  <2>4. ResultsInCallOrder'
    BY <1>1, <2>1, ResultsStay DEF OtherRecord
  <2>. QED BY <1>3, <2>2, <2>3, <2>4 DEF Orderly
<1>. QED BY <1>4, <1>5, <1>6, <1>7, <1>8, <1>9 DEF RoundStep

LEMMA InitOrder == Init => Orderly
<1> SUFFICES ASSUME Init PROVE Orderly
  OBVIOUS
<1>1. IInv
  BY InitInv
<1>2. result \in [Call -> Result] /\ InFlight
  BY DEF Init, Result, InFlight
<1>3. Cursors /\ ResultsInCallOrder
  BY CallFacts DEF Init, Cursors, ResultsInCallOrder, Logged, Call
<1>. QED BY <1>1, <1>2, <1>3 DEF Orderly

LEMMA IInvStep ==
    ASSUME IInv, [Next]_vars
    PROVE  IInv'
BY RoundStepKeeps, RivalKeeps, StopsKeep, CallStepKeeps, StutterKeeps DEF Next

\* Every step is one of a call, of the round, of the rival, or leaves them
\* alone.
LEMMA StepKinds ==
    ASSUME IInv, result \in [Call -> Result], [Next]_vars
    PROVE  \/ RoundStep \/ RivalEnters \/ RivalStep \/ Still
           \/ \E c \in Call : Moves(c) /\ Effects(c)
BY CallStepMoves, CallStepEffects, StopsMove DEF Next

LEMMA OrderStep ==
    ASSUME Orderly, [Next]_vars
    PROVE  Orderly'
<1>1. IInv /\ IInv' /\ result \in [Call -> Result]
  BY IInvStep DEF Orderly
<1>2. CASE RivalEnters \/ RivalStep
  BY <1>1, <1>2, RivalMoves, RestsKeepOrder
<1>3. CASE Still
  BY <1>1, <1>3, RestsKeepOrder DEF Still, OtherRecord
<1>. QED BY <1>1, <1>2, <1>3, StepKinds, RoundKeepsOrder, MovesKeepOrder

(* Every call has its result once, in call order, when all of its batch has *)
(* settled, and a round that ends has them all (settle_reads,               *)
(* persist_admitted).                                                       *)
THEOREM ResultsStayOrdered == Spec => []ResultsInCallOrder
<1>1. Orderly => ResultsInCallOrder
  BY DEF Orderly
<1>. QED BY <1>1, InitOrder, OrderStep, PTL DEF Spec

-----------------------------------------------------------------------------
(* Memory calls: store and log.                                            *)

InWorld(c) == \E i \in DOMAIN world : world[i] = c

Remembers ==
    \A c \in Call :
        /\ round[c] = "memory" =>
              /\ InWorld(c) => \/ at[c] = "applied"
                               \/ Settled(c) /\ result[c] \in {"real", "failed"}
              /\ at[c] = "applied" => InWorld(c)
              /\ result[c] = "real" => InWorld(c) /\ Settled(c)
              /\ Logged("result", c) /\ result[c] = "real" => Logged("memory", c)
        /\ Logged("memory", c) => round[c] = "memory" /\ result[c] = "real"

LEMMA LoggedAfter ==
    ASSUME TypeInv, NEW r \in LogRecord, log' = Append(log, r), NEW what, NEW c
    PROVE  Logged(what, c)' <=> Logged(what, c) \/ r = Rec(what, c)
<1>1. /\ Len(log) \in Nat /\ DOMAIN log = 1 .. Len(log)
      /\ DOMAIN log' = 1 .. Len(log) + 1
      /\ \A i \in 1 .. Len(log) : log'[i] = log[i]
      /\ log'[Len(log) + 1] = r
  BY DEF TypeInv
<1>2. \A i \in 1 .. Len(log) : i \in 1 .. Len(log) + 1
  BY <1>1
<1>3. \A i \in 1 .. Len(log) + 1 : i \in 1 .. Len(log) \/ i = Len(log) + 1
  BY <1>1
<1>4. Len(log) + 1 \in 1 .. Len(log) + 1
  BY <1>1
<1>. QED BY <1>1, <1>2, <1>3, <1>4 DEF Logged

\* Memory operations and results stay as they are.
LEMMA QuietFacts ==
    ASSUME TypeInv, QuietRecord, NEW c, NEW what \in {"memory", "result"}
    PROVE  Logged(what, c)' <=> Logged(what, c)
<1>1. CASE UNCHANGED log
  BY <1>1 DEF Logged
<1>2. ASSUME NEW r \in LogRecord, r.what \notin {"memory", "result"},
             log' = Append(log, r)
      PROVE  Logged(what, c)' <=> Logged(what, c)
  <2>1. r # Rec(what, c)
    BY <1>2 DEF Rec
  <2>. QED BY <1>2, <2>1, LoggedAfter
<1>. QED BY <1>1, <1>2 DEF QuietRecord

LEMMA WorldAfter ==
    ASSUME TypeInv, NEW w \in 1 .. Rival, world' = Append(world, w)
    PROVE  /\ Len(world) \in Nat /\ DOMAIN world = 1 .. Len(world)
           /\ DOMAIN world' = 1 .. Len(world) + 1
           /\ \A i \in 1 .. Len(world) : world'[i] = world[i]
           /\ world'[Len(world) + 1] = w
           /\ \A c : InWorld(c)' <=> InWorld(c) \/ c = w
<1>1. /\ Len(world) \in Nat /\ DOMAIN world = 1 .. Len(world)
      /\ DOMAIN world' = 1 .. Len(world) + 1
      /\ \A i \in 1 .. Len(world) : world'[i] = world[i]
      /\ world'[Len(world) + 1] = w
  BY DEF TypeInv
<1>2. \A i \in 1 .. Len(world) : i \in 1 .. Len(world) + 1
  BY <1>1
<1>3. \A i \in 1 .. Len(world) + 1 :
         i \in 1 .. Len(world) \/ i = Len(world) + 1
  BY <1>1
<1>4. Len(world) + 1 \in 1 .. Len(world) + 1
  BY <1>1
<1>5. ASSUME NEW c
      PROVE  InWorld(c)' <=> InWorld(c) \/ c = w
  BY <1>1, <1>2, <1>3, <1>4 DEF InWorld
<1>. QED BY <1>1, <1>5

\* Nothing a memory call has done or will say changes.
LEMMA SameRemembers ==
    ASSUME Remembers, UNCHANGED <<round, at, result>>,
           \A c \in Call : /\ InWorld(c)' <=> InWorld(c)
                           /\ Logged("result", c)' <=> Logged("result", c)
                           /\ Logged("memory", c)' <=> Logged("memory", c)
    PROVE  Remembers'
BY DEF Remembers, Settled

LEMMA MovesRemember ==
    ASSUME Orderly, Remembers, NEW c \in Call, Moves(c), Effects(c)
    PROVE  Remembers'
<1>1. TypeInv /\ result \in [Call -> Result] /\ QuietRecord
  BY DEF Orderly, IInv, Moves
<1>2. \A d \in Call : /\ Logged("result", d)' <=> Logged("result", d)
                      /\ Logged("memory", d)' <=> Logged("memory", d)
  BY <1>1, QuietFacts
<1>3. UNCHANGED world \/ world' = Append(world, c)
  BY DEF Effects, Aside, Enters, Applies, Leaves
<1>4. c \in 1 .. Rival
  BY CallFacts
<1>5. \A d \in Call : InWorld(d)' <=> InWorld(d) \/ (d = c /\ world' # world)
  <2>1. CASE UNCHANGED world
    BY <2>1 DEF InWorld
  <2>2. CASE world' = Append(world, c)
    <3>1. \A d : InWorld(d)' <=> InWorld(d) \/ d = c
      BY <1>1, <1>4, <2>2, WorldAfter
    <3>2. world' # world
      BY <1>1, <2>2 DEF TypeInv
    <3>. QED BY <3>1, <3>2
  <2>. QED BY <1>3, <2>1, <2>2
<1>6. \A d \in Call : d # c => at'[d] = at[d] /\ result'[d] = result[d]
  BY <1>1 DEF Moves, TypeInv
<1>7. round' = round /\ at[c] # "settled"
  BY DEF Moves
<1>8. ~Logged("result", c)
  BY <1>7, CallFacts DEF Orderly, ResultsInCallOrder, Cursors, Settled
<1>9. ASSUME NEW d \in Call, d # c
      PROVE  /\ round'[d] = "memory" =>
                  /\ InWorld(d)' => \/ at'[d] = "applied"
                                    \/ /\ at'[d] = "settled"
                                       /\ result'[d] \in {"real", "failed"}
                  /\ at'[d] = "applied" => InWorld(d)'
                  /\ result'[d] = "real" => InWorld(d)' /\ at'[d] = "settled"
                  /\ Logged("result", d)' /\ result'[d] = "real"
                        => Logged("memory", d)'
             /\ Logged("memory", d)' => round'[d] = "memory" /\ result'[d] = "real"
  BY <1>2, <1>5, <1>6, <1>7, <1>9 DEF Remembers, Settled
<1>10. ~Logged("memory", c)
  <2>1. Logged("memory", c) => at[c] = "settled"
    BY DEF Remembers, Settled
  <2>. QED BY <1>7, <2>1
<1>11. ASSUME round[c] = "memory"
       PROVE  /\ InWorld(c)' => \/ at'[c] = "applied"
                                \/ /\ at'[c] = "settled"
                                   /\ result'[c] \in {"real", "failed"}
              /\ at'[c] = "applied" => InWorld(c)'
              /\ result'[c] = "real" => InWorld(c)' /\ at'[c] = "settled"
  <2>1. /\ InWorld(c) => at[c] = "applied"
        /\ at[c] = "applied" => InWorld(c)
        /\ result[c] # "real"
    BY <1>7, <1>11 DEF Remembers, Settled
  <2>2. CASE Aside(c)
    <3>1. InWorld(c)' <=> InWorld(c)
      BY <2>2 DEF Aside, InWorld
    <3>. QED BY <1>11, <2>1, <2>2, <3>1 DEF Aside
  <2>3. CASE Enters(c)
    <3>1. InWorld(c)' <=> InWorld(c)
      BY <2>3 DEF Enters, InWorld
    <3>. QED BY <2>1, <2>3, <3>1 DEF Enters
  <2>4. CASE Applies(c)
    <3>1. InWorld(c)'
      BY <1>1, <1>4, <2>4, WorldAfter DEF Applies
    <3>. QED BY <2>1, <2>4, <3>1 DEF Applies
  <2>5. CASE Leaves(c)
    BY <1>11, <2>5 DEF Leaves
  <2>. QED BY <2>2, <2>3, <2>4, <2>5 DEF Effects
<1>. QED BY <1>2, <1>7, <1>8, <1>9, <1>10, <1>11 DEF Remembers, Settled

\* The operation is logged before the result, if there is one.
LEMMA RoundRemembers ==
    ASSUME Orderly, Remembers, RoundStep
    PROVE  Remembers'
<1>1. TypeInv /\ Cursors
  BY DEF Orderly, IInv
<1>2. UNCHANGED <<round, at, result, world>>
  BY DEF RoundStep, LoopClaims, AdmitIntent, AllSettled, SaveMemory,
         SaveResult, RoundFails, calls
<1>3. \A c \in Call : InWorld(c)' <=> InWorld(c)
  BY <1>2 DEF InWorld
<1>4. CASE QuietRecord
  BY <1>1, <1>2, <1>3, <1>4, QuietFacts, SameRemembers
<1>5. CASE LoopClaims \/ AllSettled \/ RoundFails
  BY <1>4, <1>5 DEF LoopClaims, AllSettled, RoundFails, Reject, QuietRecord
<1>6. CASE AdmitIntent
  <2>1. admitted + 1 \in Call
    BY <1>6, RoundAssumption DEF AdmitIntent, Orderly, IInv, TypeInv,
                                 AllAdmitted, Call
  <2>2. log' = Append(log, Rec("intent", admitted + 1))
    BY <1>6 DEF AdmitIntent, Commit
  <2>. QED BY <1>4, <2>1, <2>2, RecordFacts
<1>7. CASE SaveMemory \/ SaveResult
  <2>1. pc = "saving"
    BY <1>7 DEF SaveMemory, SaveResult
  <2>2. saved + 1 \in Call /\ Settled(saved + 1)
    BY <1>1, <2>1 DEF Cursors, Batch
  <2>3. PICK c \in Call : c = saved + 1
    BY <2>2
  <2>4. PICK what \in {"memory", "result"} :
          /\ log' = Append(log, Rec(what, c))
          /\ what = "memory" => Owes(c)
          /\ what = "result" => ~Owes(c)
    BY <1>7, <2>3 DEF SaveMemory, SaveResult, Commit
  <2>5. Rec(what, c) \in LogRecord
    BY RecordType, CallFacts
  <2>6. ASSUME NEW d \in Call, NEW x \in {"memory", "result"}
        PROVE  Logged(x, d)' <=> Logged(x, d) \/ (x = what /\ d = c)
    <3>1. Rec(what, c) = Rec(x, d) <=> x = what /\ d = c
      BY DEF Rec
    <3>. QED BY <1>1, <2>4, <2>5, <3>1, LoggedAfter
  <2>7. Owes(c) <=> /\ round[c] = "memory" /\ result[c] = "real"
                    /\ ~Logged("memory", c)
    BY DEF Owes, Logged
  <2>8. CASE what = "memory"
    BY <1>2, <1>3, <2>4, <2>6, <2>7, <2>8 DEF Remembers, Settled
  <2>9. CASE what = "result"
    BY <1>2, <1>3, <2>4, <2>6, <2>7, <2>9 DEF Remembers, Settled
  <2>. QED BY <2>8, <2>9
<1>. QED BY <1>5, <1>6, <1>7 DEF RoundStep

LEMMA RivalRemembers ==
    ASSUME Orderly, Remembers, RivalEnters \/ RivalStep
    PROVE  Remembers'
<1>1. TypeInv /\ UNCHANGED <<round, at, result>>
  BY RivalMoves DEF Orderly, IInv
<1>2. \A c \in Call : InWorld(c)' <=> InWorld(c)
  <2>1. CASE UNCHANGED world
    BY <2>1 DEF InWorld
  <2>2. CASE world' = Append(world, Rival)
    <3>1. Rival \in 1 .. Rival
      BY CallFacts
    <3>2. \A c : InWorld(c)' <=> InWorld(c) \/ c = Rival
      BY <1>1, <2>2, <3>1, WorldAfter
    <3>. QED BY <3>2, CallFacts
  <2>. QED BY <2>1, <2>2 DEF RivalEnters, RivalStep, RivalApplies, RivalSaves
<1>3. \A c \in Call : /\ Logged("result", c)' <=> Logged("result", c)
                      /\ Logged("memory", c)' <=> Logged("memory", c)
  <2>1. CASE UNCHANGED log
    BY <2>1 DEF Logged
  <2>2. CASE log' = Append(log, Rec("result", Rival))
    <3>1. Rec("result", Rival) \in LogRecord
      BY RecordType, CallFacts
    <3>2. \A c \in Call : /\ Rec("result", Rival) # Rec("result", c)
                          /\ Rec("result", Rival) # Rec("memory", c)
      BY CallFacts DEF Rec
    <3>. QED BY <1>1, <2>2, <3>1, <3>2, LoggedAfter
  <2>. QED
    BY <2>1, <2>2
    DEF RivalEnters, RivalStep, RivalApplies, RivalSaves, Commit
<1>. QED BY <1>1, <1>2, <1>3, SameRemembers

LEMMA RemembersStep ==
    ASSUME Orderly, Remembers, [Next]_vars
    PROVE  Remembers'
<1>1. CASE Still
  BY <1>1, SameRemembers DEF Still, InWorld, Logged
<1>2. IInv /\ result \in [Call -> Result]
  BY DEF Orderly
<1>. QED
  BY <1>1, <1>2, StepKinds, RoundRemembers, RivalRemembers, MovesRemember

LEMMA RemembersAgree ==
    ASSUME Orderly, Remembers
    PROVE  MemoryAgrees
<1>1. SUFFICES ASSUME NEW c \in Call, round[c] = "memory",
                      Logged("result", c), result[c] # "failed"
               PROVE  Logged("memory", c) <=> InWorld(c)
  BY DEF MemoryAgrees, InWorld
<1>2. Settled(c)
  BY <1>1 DEF Orderly, Cursors, ResultsInCallOrder
<1>. QED BY <1>1, <1>2 DEF Remembers, Settled

(* A memory call whose result is saved is in the log as an operation if and *)
(* only if it wrote its store, though stops cut the other calls off and     *)
(* appends fail; a result that a required hook turned into an error is      *)
(* excepted (persist_admitted, execute_admitted).                           *)
THEOREM MemoryAlwaysAgrees == Spec => []MemoryAgrees
<1>1. Init => Remembers
  BY DEF Init, Remembers, InWorld, Logged
<1>. QED
  BY <1>1, RemembersAgree, InitOrder, OrderStep, RemembersStep, PTL DEF Spec

-----------------------------------------------------------------------------
(* Changes are made and logged in one order: the lane is kept from a change *)
(* to its result.                                                           *)

\* It is logged, was let go for the network card, or will never be logged.
Past(w) ==
    \/ w \in retried \/ Logged("result", w)
    \/ pc = "failed" /\ w \in Call

LaneTaken ==
    /\ \A c \in Call : at[c] \in Busy /\ Changes(c) => lane = c
    /\ rival \in {"holding", "saving"} => lane = Rival
    /\ Logged("result", Rival) => rival = "done"

WorldHeld == \A i \in DOMAIN world : Past(world[i]) \/ lane = world[i]

InTurn ==
    \A i, j \in DOMAIN world :
        i < j /\ world[i] # world[j] => Past(world[i])

Serial == LaneTaken /\ WorldHeld /\ InTurn /\ ReplayAgrees

\* What is past stays past.
LEMMA PastStays ==
    ASSUME LogKeeps, retried \subseteq retried',
           pc = "failed" => pc' = "failed", NEW w, Past(w)
    PROVE  Past(w)'
BY DEF Past, LogKeeps

\* The log's new record is of a change whose forerunners are logged.
LEMMA ReplayLogs ==
    ASSUME TypeInv, ReplayAgrees, InTurn, UNCHANGED world,
           retried \subseteq retried',
           NEW r \in LogRecord, log' = Append(log, r),
           IsCallsResult(r) => pc # "failed"
    PROVE  ReplayAgrees'
<1>1. /\ Len(log) \in Nat /\ DOMAIN log = 1 .. Len(log)
      /\ DOMAIN log' = 1 .. Len(log) + 1
      /\ \A i \in 1 .. Len(log) : log'[i] = log[i]
      /\ log'[Len(log) + 1] = r
  BY DEF TypeInv
<1>2. \A w : Logged("result", w)' <=> Logged("result", w) \/ r = Rec("result", w)
  BY LoggedAfter
<1>3. ASSUME NEW i \in DOMAIN world, NEW j \in DOMAIN world,
             i < j, world[i] # world[j],
             {world[i], world[j]} \cap retried' = {},
             Logged("result", world[i])', Logged("result", world[j])'
      PROVE  \E k, l \in DOMAIN log' :
                /\ log'[k] = Rec("result", world[i])
                /\ log'[l] = Rec("result", world[j])
                /\ k < l
  <2>1. {world[i], world[j]} \cap retried = {}
    BY <1>3
  <2>2. Logged("result", world[i])
    <3>1. Past(world[i]) /\ world[i] \notin retried
      BY <1>3, <2>1 DEF InTurn
    <3>2. ASSUME pc = "failed", world[i] \in Call, r = Rec("result", world[i])
          PROVE  FALSE
      <4>1. IsCallsResult(r)
        BY <3>2 DEF IsCallsResult, Rec
      <4>. QED BY <3>2, <4>1
    <3>. QED BY <1>2, <1>3, <3>1, <3>2 DEF Past
  <2>3. CASE Logged("result", world[j])
    <3>1. PICK k \in DOMAIN log, l \in DOMAIN log :
            /\ log[k] = Rec("result", world[i])
            /\ log[l] = Rec("result", world[j])
            /\ k < l
      BY <1>3, <2>1, <2>2, <2>3 DEF ReplayAgrees
    <3>2. /\ k \in DOMAIN log' /\ l \in DOMAIN log'
          /\ log'[k] = log[k] /\ log'[l] = log[l]
      BY <1>1
    <3>. QED BY <3>1, <3>2
  <2>4. CASE r = Rec("result", world[j])
    <3>1. PICK k \in DOMAIN log : log[k] = Rec("result", world[i])
      BY <2>2 DEF Logged
    <3>2. /\ k \in DOMAIN log' /\ Len(log) + 1 \in DOMAIN log'
          /\ log'[k] = log[k] /\ k < Len(log) + 1
      BY <1>1
    <3>. QED BY <1>1, <2>4, <3>1, <3>2
  <2>. QED BY <1>2, <1>3, <2>3, <2>4
<1>4. (\A i, j \in DOMAIN world :
          /\ i < j /\ world[i] # world[j]
          /\ {world[i], world[j]} \cap retried = {}
          /\ Logged("result", world[i]) /\ Logged("result", world[j])
          =>
              \E k, l \in DOMAIN log :
                  /\ log[k] = Rec("result", world[i])
                  /\ log[l] = Rec("result", world[j])
                  /\ k < l)'
  <2>1. \A w : Logged("result", w)' =
               \E k \in DOMAIN log' : log'[k] = Rec("result", w)
    BY DEF Logged, Rec
  <2>2. ASSUME NEW i \in DOMAIN world', NEW j \in DOMAIN world',
               i < j, world'[i] # world'[j],
               {world'[i], world'[j]} \cap retried' = {},
               \E k \in DOMAIN log' : log'[k] = Rec("result", world'[i]),
               \E k \in DOMAIN log' : log'[k] = Rec("result", world'[j])
        PROVE  \E k, l \in DOMAIN log' :
                  /\ log'[k] = Rec("result", world'[i])
                  /\ log'[l] = Rec("result", world'[j])
                  /\ k < l
    BY <1>3, <2>1, <2>2
  <2>. QED BY <2>2 DEF Logged, Rec
<1>. QED BY <1>4 DEF ReplayAgrees

\* Nothing is logged; a change that is made has no result yet.
LEMMA ReplayStays ==
    ASSUME TypeInv, ReplayAgrees, UNCHANGED log, retried \subseteq retried',
           \/ UNCHANGED world
           \/ \E w \in 1 .. Rival : ~Logged("result", w)
                                   /\ world' = Append(world, w)
    PROVE  ReplayAgrees'
<1>1. \A w : Logged("result", w)' <=> Logged("result", w)
  BY DEF Logged
<1>2. CASE UNCHANGED world
  BY <1>2 DEF ReplayAgrees, Logged
<1>3. ASSUME NEW w \in 1 .. Rival, ~Logged("result", w),
             world' = Append(world, w)
      PROVE  ReplayAgrees'
  <2>1. /\ Len(world) \in Nat /\ DOMAIN world = 1 .. Len(world)
        /\ DOMAIN world' = 1 .. Len(world) + 1
        /\ \A i \in 1 .. Len(world) : world'[i] = world[i]
        /\ world'[Len(world) + 1] = w
    BY <1>3, WorldAfter
  <2>2. ASSUME NEW i \in DOMAIN world', NEW j \in DOMAIN world',
               i < j, world'[i] # world'[j],
               {world'[i], world'[j]} \cap retried' = {},
               Logged("result", world'[i]), Logged("result", world'[j])
        PROVE  \E k, l \in DOMAIN log :
                  /\ log[k] = Rec("result", world'[i])
                  /\ log[l] = Rec("result", world'[j])
                  /\ k < l
    <3>1. i # Len(world) + 1 /\ j # Len(world) + 1
      BY <1>3, <2>1, <2>2
    <3>2. i \in DOMAIN world /\ j \in DOMAIN world
      BY <2>1, <3>1
    <3>3. world'[i] = world[i] /\ world'[j] = world[j]
      BY <2>1, <3>2
    <3>. QED BY <2>2, <3>2, <3>3 DEF ReplayAgrees
  <2>. QED BY <2>2 DEF ReplayAgrees, Logged
<1>. QED BY <1>2, <1>3

\* The lane goes from a change only when it is past.
LEMMA HeldStays ==
    ASSUME TypeInv, WorldHeld, InTurn, UNCHANGED world,
           \A w : Past(w) => Past(w)',
           \A w \in 1 .. Rival : lane = w => lane' = w \/ Past(w)'
    PROVE  WorldHeld' /\ InTurn'
<1>1. \A i \in DOMAIN world : world[i] \in 1 .. Rival
  <2>1. world \in Seq(1 .. Rival)
    BY DEF TypeInv
  <2>2. PICK S : S = 1 .. Rival
    OBVIOUS
  <2>3. world \in Seq(S)
    BY <2>1, <2>2
  <2>4. \A i \in DOMAIN world : world[i] \in S
    BY <2>3
  <2>. QED BY <2>2, <2>4
<1>2. \A i \in DOMAIN world : \A w : w = world[i] => Past(w)' \/ lane' = w
  <2>1. SUFFICES ASSUME NEW i \in DOMAIN world, NEW w, w = world[i]
                 PROVE  Past(w)' \/ lane' = w
    OBVIOUS
  <2>2. Past(w) \/ lane = w
    BY <2>1 DEF WorldHeld
  <2>3. w \in 1 .. Rival
    BY <1>1, <2>1
  <2>. QED BY <2>2, <2>3
<1>3. WorldHeld'
  BY <1>2 DEF WorldHeld, Past, Logged
<1>4. \A i, j \in DOMAIN world :
         i < j /\ world[i] # world[j] => \A w : w = world[i] => Past(w)'
  <2>1. SUFFICES ASSUME NEW i \in DOMAIN world, NEW j \in DOMAIN world,
                        i < j, world[i] # world[j], NEW w, w = world[i]
                 PROVE  Past(w)'
    OBVIOUS
  <2>2. Past(w)
    BY <2>1 DEF InTurn
  <2>. QED BY <2>2
<1>5. InTurn'
  BY <1>4 DEF InTurn, Past, Logged
<1>. QED BY <1>3, <1>5

\* Who makes a change holds the lane, so the others' are past.
LEMMA HeldAdds ==
    ASSUME TypeInv, WorldHeld, InTurn, NEW w \in 1 .. Rival,
           world' = Append(world, w), lane = w, lane' = w,
           \A x : Past(x) => Past(x)'
    PROVE  WorldHeld' /\ InTurn'
<1>1. /\ Len(world) \in Nat /\ DOMAIN world = 1 .. Len(world)
      /\ DOMAIN world' = 1 .. Len(world) + 1
      /\ \A i \in 1 .. Len(world) : world'[i] = world[i]
      /\ world'[Len(world) + 1] = w
  BY WorldAfter
<1>2. ASSUME NEW i \in DOMAIN world'
      PROVE  \/ i \in DOMAIN world /\ world'[i] = world[i]
             \/ i = Len(world) + 1 /\ world'[i] = w
  BY <1>1
<1>3. \A i \in DOMAIN world' : \A x : x = world'[i] => Past(x)' \/ lane' = x
  <2>1. SUFFICES ASSUME NEW i \in DOMAIN world', NEW x, x = world'[i]
                 PROVE  Past(x)' \/ lane' = x
    OBVIOUS
  <2>2. CASE i \in DOMAIN world /\ world'[i] = world[i]
    <3>1. Past(x) \/ lane = x
      BY <2>1, <2>2 DEF WorldHeld
    <3>. QED BY <3>1
  <2>3. CASE world'[i] = w
    BY <2>1, <2>3
  <2>. QED BY <1>2, <2>2, <2>3
<1>4. \A i, j \in DOMAIN world' :
         i < j /\ world'[i] # world'[j] => \A x : x = world'[i] => Past(x)'
  <2>1. SUFFICES ASSUME NEW i \in DOMAIN world', NEW j \in DOMAIN world',
                        i < j, world'[i] # world'[j], NEW x, x = world'[i]
                 PROVE  Past(x)'
    OBVIOUS
  <2>2. i \in DOMAIN world /\ world'[i] = world[i]
    BY <1>1, <2>1
  <2>3. CASE j \in DOMAIN world /\ world'[j] = world[j]
    <3>1. Past(x)
      BY <2>1, <2>2, <2>3 DEF InTurn
    <3>. QED BY <3>1
  <2>4. CASE world'[j] = w
    <3>1. lane # x
      BY <2>1, <2>4
    <3>2. Past(x)
      BY <2>1, <2>2, <3>1 DEF WorldHeld
    <3>. QED BY <3>2
  <2>. QED BY <1>2, <2>3, <2>4
<1>5. WorldHeld'
  BY <1>3 DEF WorldHeld, Past, Logged
<1>6. InTurn'
  BY <1>4 DEF InTurn, Past, Logged
<1>. QED BY <1>5, <1>6

LEMMA QuietKeeps ==
    ASSUME TypeInv, QuietRecord
    PROVE  LogKeeps
<1>1. CASE UNCHANGED log
  BY <1>1, LogStays
<1>2. ASSUME NEW r \in LogRecord, log' = Append(log, r)
      PROVE  LogKeeps
  BY <1>2, LogAdds
<1>. QED BY <1>1, <1>2 DEF QuietRecord

LEMMA MovesSerial ==
    ASSUME Orderly, Serial, NEW c \in Call, Moves(c), Effects(c)
    PROVE  Serial'
<1>1. /\ TypeInv /\ QuietRecord /\ UNCHANGED <<round, pc, rival>>
      /\ LaneTaken /\ WorldHeld /\ InTurn /\ ReplayAgrees
  BY DEF Orderly, IInv, Moves, Serial
<1>2. retried \subseteq retried'
  BY DEF Effects, Aside, Enters, Applies, Leaves
<1>3. \A w : Past(w) => Past(w)'
  BY <1>1, <1>2, QuietKeeps, PastStays
<1>4. Logged("result", Rival)' <=> Logged("result", Rival)
  BY <1>1, QuietFacts
<1>5. /\ \A d \in Call : d # c => at'[d] = at[d]
      /\ \A d \in Call : Changes(d)' <=> Changes(d)
  BY <1>1 DEF Moves, TypeInv, Changes
<1>6. c \in 1 .. Rival /\ c # Loop /\ c # Rival
  BY CallFacts
<1>7. CASE UNCHANGED world
  <2>1. ReplayAgrees'
    <3>1. CASE UNCHANGED log
      BY <1>1, <1>2, <1>7, <3>1, ReplayStays
    <3>2. ASSUME NEW r \in LogRecord, r.what \notin {"memory", "result"},
                 log' = Append(log, r)
          PROVE  ReplayAgrees'
      BY <1>1, <1>2, <1>7, <3>2, ReplayLogs DEF IsCallsResult
    <3>. QED BY <1>1, <3>1, <3>2 DEF QuietRecord
  <2>2. CASE Aside(c)
    <3>1. lane' = lane
      BY <2>2 DEF Aside
    <3>2. WorldHeld' /\ InTurn'
      BY <1>1, <1>3, <1>7, <3>1, HeldStays
    <3>3. \A d \in Call : at'[d] \in Busy /\ Changes(d) => at[d] \in Busy
      BY <1>5, <2>2 DEF Aside
    <3>4. LaneTaken'
      BY <1>1, <1>4, <1>5, <3>1, <3>3 DEF LaneTaken
    <3>. QED BY <2>1, <3>2, <3>4 DEF Serial
  <2>3. CASE Enters(c)
    <3>1. lane = Loop /\ lane' = c
      BY <2>3 DEF Enters
    <3>2. WorldHeld' /\ InTurn'
      <4>1. \A w \in 1 .. Rival : lane # w
        BY <3>1 DEF Loop
      <4>. QED BY <1>1, <1>3, <1>7, <4>1, HeldStays
    <3>3. \A d \in Call : d # c => ~(at[d] \in Busy /\ Changes(d))
      BY <1>1, <3>1, CallFacts DEF LaneTaken
    <3>4. rival \notin {"holding", "saving"}
      BY <1>1, <3>1, CallFacts DEF LaneTaken
    <3>5. LaneTaken'
      BY <1>1, <1>4, <1>5, <3>1, <3>3, <3>4 DEF LaneTaken
    <3>. QED BY <2>1, <3>2, <3>5 DEF Serial
  <2>4. CASE Leaves(c)
    <3>1. /\ lane' = Loop /\ lane = c /\ c \in retried' /\ at'[c] \notin Busy
      BY <1>1, <2>4 DEF Leaves, LaneTaken, Changes
    <3>2. WorldHeld' /\ InTurn'
      <4>1. Past(c)'
        BY <3>1 DEF Past
      <4>. QED BY <1>1, <1>3, <1>7, <3>1, <4>1, HeldStays
    <3>3. \A d \in Call : d # c => ~(at[d] \in Busy /\ Changes(d))
      BY <1>1, <3>1 DEF LaneTaken
    <3>4. rival \notin {"holding", "saving"}
      BY <1>1, <1>6, <3>1 DEF LaneTaken
    <3>5. LaneTaken'
      BY <1>1, <1>4, <1>5, <3>1, <3>3, <3>4 DEF LaneTaken
    <3>. QED BY <2>1, <3>2, <3>5 DEF Serial
  <2>5. CASE Applies(c)
    <3>1. world' = Append(world, c) /\ world' # world
      BY <1>1, <1>6, <2>5 DEF Applies, TypeInv
    <3>. QED BY <1>7, <3>1
  <2>. QED BY <2>2, <2>3, <2>4, <2>5 DEF Effects
<1>8. CASE Applies(c)
  <2>1. /\ world' = Append(world, c) /\ UNCHANGED <<retried, lane, log>>
        /\ Changes(c) /\ at[c] \in Busy
    BY <1>8 DEF Applies, Busy
  <2>2. lane = c
    BY <1>1, <2>1 DEF LaneTaken
  <2>3. ~Logged("result", c)
    BY CallFacts DEF Moves, Orderly, ResultsInCallOrder, Cursors, Settled
  <2>4. ReplayAgrees'
    BY <1>1, <1>6, <2>1, <2>3, ReplayStays
  <2>5. WorldHeld' /\ InTurn'
    BY <1>1, <1>3, <1>6, <2>1, <2>2, HeldAdds
  <2>6. LaneTaken'
    BY <1>1, <1>4, <1>5, <2>1, <2>2 DEF LaneTaken
  <2>. QED BY <2>4, <2>5, <2>6 DEF Serial
<1>. QED BY <1>7, <1>8 DEF Effects, Aside, Enters, Leaves

\* The lane is left when the result is logged, or with the round.
LEMMA RoundSerial ==
    ASSUME Orderly, Serial, RoundStep
    PROVE  Serial'
<1>1. /\ TypeInv /\ LaneTaken /\ WorldHeld /\ InTurn /\ ReplayAgrees
      /\ InFlight /\ Cursors
  BY DEF Orderly, IInv, Serial
<1>2. UNCHANGED <<round, at, retried, world, rival>>
  BY DEF RoundStep, LoopClaims, AdmitIntent, AllSettled, SaveMemory,
         SaveResult, RoundFails, calls
<1>3. \A d \in Call : Changes(d)' <=> Changes(d)
  BY <1>2 DEF Changes
<1>4. CASE LoopClaims \/ AllSettled
  <2>1. /\ UNCHANGED <<log, lane>> /\ (pc = "failed" => pc' = "failed")
    BY <1>4 DEF LoopClaims, AllSettled
  <2>2. \A w : Past(w) => Past(w)'
    BY <1>1, <1>2, <2>1, LogStays, PastStays
  <2>3. WorldHeld' /\ InTurn'
    BY <1>1, <1>2, <2>1, <2>2, HeldStays
  <2>4. LaneTaken'
    BY <1>1, <1>2, <1>3, <2>1 DEF LaneTaken, Logged
  <2>5. ReplayAgrees'
    BY <1>1, <1>2, <2>1, ReplayStays
  <2>. QED BY <2>3, <2>4, <2>5 DEF Serial
<1>5. CASE AdmitIntent \/ SaveMemory \/ SaveResult
  <2>1. pc # "failed"
    BY <1>5 DEF AdmitIntent, SaveMemory, SaveResult
  <2>2. PICK c \in Call, what \in {"intent", "memory", "result"} :
          /\ log' = Append(log, Rec(what, c))
          /\ lane' = lane \/ (what = "result" /\ lane = c /\ lane' = Loop
                              /\ pc = "saving")
    <3>1. CASE AdmitIntent
      <4>1. admitted + 1 \in Call
        BY <3>1, RoundAssumption DEF AdmitIntent, Orderly, IInv, TypeInv,
                                     AllAdmitted, Call
      <4>. QED BY <3>1, <4>1 DEF AdmitIntent, Commit
    <3>2. CASE SaveMemory \/ SaveResult
      <4>1. saved + 1 \in Call
        BY <1>1, <3>2 DEF SaveMemory, SaveResult, Cursors, Batch
      <4>. QED BY <3>2, <4>1 DEF SaveMemory, SaveResult, Commit
    <3>. QED BY <1>5, <3>1, <3>2
  <2>3. Rec(what, c) \in LogRecord
    BY RecordType, CallFacts
  <2>4. ReplayAgrees'
    BY <1>1, <1>2, <2>1, <2>2, <2>3, ReplayLogs
  <2>5. LogKeeps /\ Logged(what, c)'
    <3>1. Rec(what, c).what = what /\ Rec(what, c).of = c
      BY DEF Rec
    <3>. QED BY <1>1, <2>2, <2>3, <3>1, LogAdds
  <2>6. \A w : Past(w) => Past(w)'
    BY <1>2, <2>1, <2>5, PastStays
  <2>8. WorldHeld' /\ InTurn'
    <3>1. \A w \in 1 .. Rival : lane = w => lane' = w \/ Past(w)'
      <4>1. what = "result" => Past(c)'
        BY <2>5 DEF Past
      <4>. QED BY <2>2, <4>1
    <3>. QED BY <1>1, <1>2, <2>6, <3>1, HeldStays
  <2>9. Logged("result", Rival)' <=> Logged("result", Rival)
    <3>1. Rec(what, c) # Rec("result", Rival)
      BY CallFacts DEF Rec
    <3>. QED BY <1>1, <2>2, <2>3, <3>1, LoggedAfter
  <2>10. LaneTaken'
    <3>1. CASE lane' = lane
      BY <1>1, <1>2, <1>3, <2>9, <3>1 DEF LaneTaken
    <3>2. CASE pc = "saving" /\ lane = c
      <4>1. \A d \in Call : at[d] \notin Busy
        BY <1>1, <3>2 DEF InFlight, Busy
      <4>2. rival \notin {"holding", "saving"}
        BY <1>1, <3>2, CallFacts DEF LaneTaken
      <4>. QED BY <1>1, <1>2, <2>9, <4>1, <4>2 DEF LaneTaken
    <3>. QED BY <2>2, <3>1, <3>2
  <2>. QED BY <2>4, <2>8, <2>10 DEF Serial
<1>6. CASE RoundFails
  <2>1. /\ pc \in {"admitting", "saving"} /\ pc' = "failed" /\ UNCHANGED log
        /\ lane' = IF lane = Rival THEN lane ELSE Loop
    BY <1>6 DEF RoundFails, Reject
  <2>2. \A w : Past(w) => Past(w)'
    BY <1>1, <1>2, <2>1, LogStays, PastStays
  <2>3. \A w \in 1 .. Rival : w # Rival => w \in Call
    BY RoundAssumption DEF Call, Rival
  <2>4. \A w \in 1 .. Rival : lane = w => lane' = w \/ Past(w)'
    BY <2>1, <2>3 DEF Past
  <2>5. WorldHeld' /\ InTurn'
    BY <1>1, <1>2, <2>2, <2>4, HeldStays
  <2>6. \A d \in Call : at[d] \notin Busy
    BY <1>1, <2>1 DEF InFlight, Busy
  <2>7. LaneTaken'
    BY <1>1, <1>2, <2>1, <2>6 DEF LaneTaken, Logged
  <2>8. ReplayAgrees'
    BY <1>1, <1>2, <2>1, ReplayStays
  <2>. QED BY <2>5, <2>7, <2>8 DEF Serial
<1>. QED BY <1>4, <1>5, <1>6 DEF RoundStep

LEMMA RivalSerial ==
    ASSUME Orderly, Serial, RivalEnters \/ RivalStep
    PROVE  Serial'
<1>1. /\ TypeInv /\ LaneTaken /\ WorldHeld /\ InTurn /\ ReplayAgrees
      /\ UNCHANGED <<round, at, retried, pc>>
  BY RivalMoves
     DEF Orderly, IInv, Serial, RivalEnters, RivalStep, RivalApplies,
         RivalSaves, calls
<1>2. \A d \in Call : Changes(d)' <=> Changes(d)
  BY <1>1 DEF Changes
<1>3. Rival \in 1 .. Rival /\ Rival # Loop /\ Rival \notin Call
  BY CallFacts
<1>4. CASE RivalEnters
  <2>1. /\ lane = Loop /\ lane' = Rival /\ rival = "idle" /\ rival' = "holding"
        /\ UNCHANGED <<log, world>>
    BY <1>4 DEF RivalEnters
  <2>2. \A w : Past(w) => Past(w)'
    BY <1>1, <2>1, LogStays, PastStays
  <2>3. \A w \in 1 .. Rival : lane # w
    BY <2>1 DEF Loop
  <2>4. WorldHeld' /\ InTurn'
    BY <1>1, <2>1, <2>2, <2>3, HeldStays
  <2>5. /\ \A d \in Call : ~(at[d] \in Busy /\ Changes(d))
        /\ ~Logged("result", Rival)
    BY <1>1, <2>1, CallFacts DEF LaneTaken
  <2>6. LaneTaken'
    BY <1>1, <1>2, <2>1, <2>5 DEF LaneTaken, Logged
  <2>7. ReplayAgrees'
    BY <1>1, <2>1, ReplayStays
  <2>. QED BY <2>4, <2>6, <2>7 DEF Serial
<1>5. CASE RivalApplies
  <2>1. /\ rival = "holding" /\ rival' = "saving"
        /\ world' = Append(world, Rival) /\ UNCHANGED <<log, lane>>
    BY <1>5 DEF RivalApplies
  <2>2. lane = Rival /\ ~Logged("result", Rival)
    BY <1>1, <2>1 DEF LaneTaken
  <2>3. \A w : Past(w) => Past(w)'
    BY <1>1, <2>1, LogStays, PastStays
  <2>4. WorldHeld' /\ InTurn'
    BY <1>1, <1>3, <2>1, <2>2, <2>3, HeldAdds
  <2>5. LaneTaken'
    BY <1>1, <1>2, <2>1, <2>2 DEF LaneTaken, Logged
  <2>6. ReplayAgrees'
    BY <1>1, <1>3, <2>1, <2>2, ReplayStays
  <2>. QED BY <2>4, <2>5, <2>6 DEF Serial
<1>6. CASE RivalSaves
  <2>1. /\ rival = "saving" /\ rival' = "done" /\ lane' = Loop
        /\ log' = Append(log, Rec("result", Rival)) /\ UNCHANGED world
    BY <1>6 DEF RivalSaves, Commit
  <2>2. lane = Rival
    BY <1>1, <2>1 DEF LaneTaken
  <2>3. Rec("result", Rival) \in LogRecord
    BY RecordType, CallFacts
  <2>4. ~IsCallsResult(Rec("result", Rival))
    BY <1>3 DEF IsCallsResult, Rec
  <2>5. ReplayAgrees'
    BY <1>1, <2>1, <2>3, <2>4, ReplayLogs
  <2>6. LogKeeps /\ Logged("result", Rival)'
    <3>1. /\ Rec("result", Rival).what = "result"
          /\ Rec("result", Rival).of = Rival
      BY DEF Rec
    <3>. QED BY <1>1, <2>1, <2>3, <3>1, LogAdds
  <2>7. \A w : Past(w) => Past(w)'
    BY <1>1, <2>6, PastStays
  <2>8. Past(Rival)'
    BY <2>6 DEF Past
  <2>9. WorldHeld' /\ InTurn'
    BY <1>1, <2>1, <2>2, <2>7, <2>8, HeldStays
  <2>10. \A d \in Call : ~(at[d] \in Busy /\ Changes(d))
    BY <1>1, <1>3, <2>2 DEF LaneTaken
  <2>11. LaneTaken'
    BY <1>1, <1>2, <2>1, <2>10 DEF LaneTaken
  <2>. QED BY <2>5, <2>9, <2>11 DEF Serial
<1>. QED BY <1>4, <1>5, <1>6 DEF RivalStep

LEMMA SerialStep ==
    ASSUME Orderly, Serial, [Next]_vars
    PROVE  Serial'
<1>1. CASE Still
  <2>1. /\ UNCHANGED <<log, world, retried, lane, pc, at, round, rival>>
        /\ LaneTaken /\ WorldHeld /\ InTurn /\ ReplayAgrees
    BY <1>1 DEF Still, Serial
  <2>2. LaneTaken'
    BY <2>1 DEF LaneTaken, Changes, Logged
  <2>3. WorldHeld' /\ InTurn'
    BY <2>1 DEF WorldHeld, InTurn, Past, Logged
  <2>4. ReplayAgrees'
    BY <2>1 DEF ReplayAgrees, Logged
  <2>. QED BY <2>2, <2>3, <2>4 DEF Serial
<1>2. IInv /\ result \in [Call -> Result]
  BY DEF Orderly
<1>. QED BY <1>1, <1>2, StepKinds, RoundSerial, RivalSerial, MovesSerial

(* Where two changes were made and both have results, the log has them in   *)
(* the order they were made, so replay agrees with live state               *)
(* (dispatch_turn): a lane is kept until its change's result is saved, by   *)
(* the round and by the other session, or it is let go for a network grant. *)
THEOREM ReplayAlwaysAgrees == Spec => []ReplayAgrees
<1>1. Init => Serial
  BY DEF Init, Serial, LaneTaken, WorldHeld, InTurn, ReplayAgrees, Busy, Logged
<1>2. Serial => ReplayAgrees
  BY DEF Serial
<1>. QED BY <1>1, <1>2, InitOrder, OrderStep, SerialStep, PTL DEF Spec


-----------------------------------------------------------------------------
(* Types: what a step does to the variables that the proofs above leave out. *)

Queues == Seq(0 .. Rival)

Records == [what : {"intent", "policy", "prepared", "memory", "result"},
            of : 1 .. Rival]

Rest ==
    /\ round \in Rounds /\ retried \subseteq Call
    /\ line \in Queues /\ log \in Seq(Records)
    /\ lane \in 0 .. Rival /\ card \in 0 .. Rival
    /\ {cancelled, graced, overdue} \subseteq BOOLEAN
    /\ rival \in {"idle", "holding", "saving", "done"}

\* The event log's queue is joined at its end and left from its head, or from
\* anywhere by a call that is cut off.
LineStep ==
    \/ line' = line
    \/ \E w \in 0 .. Rival : line' = Append(line, w)
    \/ line # <<>> /\ line' = Tail(line)
    \/ \E c \in Call : Leave(c)

LogStep ==
    \/ log' = log
    \/ \E r \in Records : log' = Append(log, r)

OtherStep ==
    /\ round' = round
    /\ retried' = retried \/ \E c \in Call : retried' = retried \cup {c}
    /\ lane' \in {lane, Loop, Rival} \cup Call
    /\ card' \in {card, Loop} \cup Call
    /\ {cancelled', graced', overdue'} \subseteq {cancelled, graced, overdue, TRUE}
    /\ rival' \in {rival, "holding", "saving", "done"}

LEMMA Participants ==
    /\ Loop \in 0 .. Rival /\ Rival \in 0 .. Rival /\ Rival \in 1 .. Rival
    /\ Call \subseteq 1 .. Rival /\ Call \subseteq 0 .. Rival
BY RoundAssumption DEF Call, Loop, Rival

LEMMA RecordOf ==
    ASSUME NEW what \in {"intent", "policy", "prepared", "memory", "result"},
           NEW w \in 1 .. Rival
    PROVE  Rec(what, w) \in Records
BY DEF Rec, Records

LEMMA OneDropped ==
    ASSUME NEW S, NEW s \in Seq(S), Len(s) >= 1, NEW k
    PROVE  [i \in 1 .. Len(s) - 1 |-> IF i < k THEN s[i] ELSE s[i + 1]]
               \in Seq(S)
<1>1. Len(s) \in Nat /\ Len(s) - 1 \in Nat
  OBVIOUS
<1>2. \A i \in 1 .. Len(s) : s[i] \in S
  OBVIOUS
<1>3. \A i \in 1 .. Len(s) - 1 : (IF i < k THEN s[i] ELSE s[i + 1]) \in S
  <2>1. \A i \in 1 .. Len(s) - 1 : i \in 1 .. Len(s) /\ i + 1 \in 1 .. Len(s)
    BY <1>1
  <2>. QED BY <1>2, <2>1
<1>. QED BY <1>1, <1>3

LEMMA QueueLeft ==
    ASSUME line \in Queues, NEW c, Leave(c)
    PROVE  line' \in Queues
<1> DEFINE k == CHOOSE i \in DOMAIN line : line[i] = c
<1>1. CASE \E i \in DOMAIN line : line[i] = c
  <2>1. Len(line) >= 1
    BY <1>1 DEF Queues
  <2>2. line' = [i \in 1 .. Len(line) - 1 |->
                    IF i < k THEN line[i] ELSE line[i + 1]]
    BY <1>1 DEF Leave
  <2> HIDE DEF k
  <2>. QED BY <2>1, <2>2, OneDropped DEF Queues
<1>2. CASE ~\E i \in DOMAIN line : line[i] = c
  BY <1>2 DEF Leave
<1>. QED BY <1>1, <1>2

LEMMA QueueStep ==
    ASSUME line \in Queues, LineStep
    PROVE  line' \in Queues
<1>1. CASE \E w \in 0 .. Rival : line' = Append(line, w)
  BY <1>1 DEF Queues
<1>2. CASE line # <<>> /\ line' = Tail(line)
  BY <1>2 DEF Queues
<1>. QED BY <1>1, <1>2, QueueLeft DEF LineStep

LEMMA CallRest ==
    ASSUME NEW c \in Call, CallStep(c) \/ Approve(c) \/ Decline(c)
    PROVE  LineStep /\ LogStep /\ OtherStep
<1>0. /\ c \in 0 .. Rival
      /\ Rec("policy", c) \in Records /\ Rec("prepared", c) \in Records
  BY Participants, RecordOf
<1>1. CASE RecordPolicy(c) \/ RecordPrepared(c)
  BY <1>0, <1>1
  DEF RecordPolicy, RecordPrepared, Commit, Turn, Go, Settle, LineStep, LogStep,
      OtherStep, cursors, stops
<1>2. CASE RecordFails(c)
  BY <1>2 DEF RecordFails, Reject, Turn, Settle, LineStep, LogStep, OtherStep,
              cursors, stops
<1>3. CASE Decide(c) \/ Enter(c)
  BY <1>0, <1>3 DEF Decide, Enter, Claim, Go, Settle, LineStep, LogStep,
                    OtherStep, cursors, stops
<1>4. CASE CutOff(c)
  BY <1>4 DEF CutOff, Settle, LineStep, LogStep, OtherStep, cursors, stops
<1>5. CASE Start(c) \/ ShowCard(c) \/ GiveUp(c) \/ Approve(c) \/ Decline(c)
  BY <1>5 DEF Start, ShowCard, GiveUp, Approve, Decline, Deny, Go, Settle,
              LineStep, LogStep, OtherStep, cursors, calls, stops
<1>6. CASE Apply(c) \/ Finish(c) \/ DeniedNetwork(c)
  BY <1>6 DEF Apply, Finish, DeniedNetwork, Go, Settle, LineStep, LogStep,
              OtherStep, cursors, stops
<1>. QED BY <1>1, <1>2, <1>3, <1>4, <1>5, <1>6 DEF CallStep

LEMMA RoundRest ==
    ASSUME admitted \in 0 .. N, saved \in 0 .. N, RoundStep
    PROVE  LineStep /\ LogStep /\ OtherStep
<1>1. /\ Rec("intent", admitted + 1) \in Records
      /\ Rec("memory", saved + 1) \in Records
      /\ Rec("result", saved + 1) \in Records
  <2>1. admitted + 1 \in 1 .. Rival /\ saved + 1 \in 1 .. Rival
    BY RoundAssumption DEF Rival
  <2>. QED BY <2>1, RecordOf
<1>2. CASE LoopClaims
  BY <1>2, Participants DEF LoopClaims, Claim, LineStep, LogStep, OtherStep,
                            calls, cursors, stops
<1>3. CASE AdmitIntent
  BY <1>1, <1>3 DEF AdmitIntent, Commit, Turn, LineStep, LogStep, OtherStep,
                    calls, stops
<1>4. CASE AllSettled
  BY <1>4 DEF AllSettled, LineStep, LogStep, OtherStep, calls, stops
<1>5. CASE SaveMemory \/ SaveResult
  BY <1>1, <1>5 DEF SaveMemory, SaveResult, Commit, Turn, LineStep, LogStep,
                    OtherStep, calls, cursors, stops
<1>6. CASE RoundFails
  BY <1>6 DEF RoundFails, Reject, Turn, LineStep, LogStep, OtherStep, calls,
              cursors, stops
<1>. QED BY <1>2, <1>3, <1>4, <1>5, <1>6 DEF RoundStep

LEMMA OthersRest ==
    ASSUME RivalEnters \/ RivalStep \/ Cancel \/ GraceEnds \/ Expire
           \/ UNCHANGED vars
    PROVE  LineStep /\ LogStep /\ OtherStep
<1>0. Rec("result", Rival) \in Records
  BY Participants, RecordOf
<1>1. CASE RivalEnters \/ RivalStep
  BY <1>0, <1>1, Participants
  DEF RivalEnters, RivalStep, RivalApplies, RivalSaves, Claim, Commit, Turn,
      LineStep, LogStep, OtherStep, calls, stops
<1>2. CASE Cancel
  BY <1>2 DEF Cancel, Deny, Settle, LineStep, LogStep, OtherStep, calls
<1>3. CASE GraceEnds \/ Expire
  BY <1>3 DEF GraceEnds, Expire, LineStep, LogStep, OtherStep, calls
<1>4. CASE UNCHANGED vars
  BY <1>4 DEF vars, calls, stops, LineStep, LogStep, OtherStep
<1>. QED BY <1>1, <1>2, <1>3, <1>4

LEMMA RestStep ==
    ASSUME Orderly, Rest, [Next]_vars
    PROVE  Rest'
<1>1. admitted \in 0 .. N /\ saved \in 0 .. N
  BY DEF Orderly, Cursors, IInv, TypeInv
<1>2. LineStep /\ LogStep /\ OtherStep
  BY <1>1, CallRest, RoundRest, OthersRest DEF Next
<1>3. line' \in Queues
  BY <1>2, QueueStep DEF Rest
<1>4. log' \in Seq(Records)
  BY <1>2 DEF Rest, LogStep
<1>5. /\ round' \in Rounds /\ retried' \subseteq Call
      /\ lane' \in 0 .. Rival /\ card' \in 0 .. Rival
  BY <1>2, Participants DEF Rest, OtherStep
<1>6. /\ {cancelled', graced', overdue'} \subseteq BOOLEAN
      /\ rival' \in {"idle", "holding", "saving", "done"}
  BY <1>2 DEF Rest, OtherStep
<1>. QED BY <1>3, <1>4, <1>5, <1>6 DEF Rest

(* The calls, the log, its queue, the lane and the round's cursors keep     *)
(* their types, and the cursors stay within the round (dispatch_turn,       *)
(* settle_reads, persist_admitted).                                         *)
THEOREM TypeCorrect == Spec => []TypeOK
<1>1. ASSUME Init PROVE Rest
  <2>1. line \in Queues /\ log \in Seq(Records)
    BY <1>1 DEF Init, Queues
  <2>2. /\ round \in Rounds /\ retried \subseteq Call
        /\ lane \in 0 .. Rival /\ card \in 0 .. Rival
    BY <1>1, Participants DEF Init
  <2>3. /\ {cancelled, graced, overdue} \subseteq BOOLEAN
        /\ rival \in {"idle", "holding", "saving", "done"}
    BY <1>1 DEF Init
  <2>. QED BY <2>1, <2>2, <2>3 DEF Rest
<1>2. ASSUME Orderly, Rest PROVE TypeOK
  <2>1. /\ pc \in {"admitting", "running", "saving", "done", "failed"}
        /\ admitted \in 0 .. N /\ from \in Call /\ saved \in 0 .. N
        /\ at \in [Call -> Stage] /\ result \in [Call -> Result]
        /\ world \in Seq(1 .. Rival)
    BY <1>2 DEF Orderly, IInv, TypeInv, Cursors
  <2>2. {lane, card} \subseteq 0 .. Rival
    BY <1>2 DEF Rest
  <2>. QED BY <1>2, <2>1, <2>2 DEF Rest, Queues, Records, TypeOK
<1>3. Orderly /\ Rest /\ [Next]_vars => Orderly' /\ Rest'
  BY OrderStep, RestStep
<1>. QED BY <1>1, <1>2, <1>3, InitOrder, PTL DEF Spec
=============================================================================
