--------------------------- MODULE ModelFailover ---------------------------
(* What is tried when a model cannot be used: the ladder of one request     *)
(* (kernel/src/turn.rs, the table of kernel/src/recovery.rs), the hand-over *)
(* to a stand-in and the wait for a server (kernel/src/session/recovery.rs) *)
(* and the connection they act on (providers/src/client/fallback.rs,        *)
(* key_rotation.rs), which a chat shares with its sub-agents.               *)
(*                                                                          *)
(* A request is prepared for the model in use and may fail when another     *)
(* session has moved the connection on, which is what the ladder reads.     *)
(* What run_turn asks of the client after a failure is one step, and the    *)
(* hand-over that recover_turn asks for is another.                         *)
(* Its definitions are named apart from BudgetPool's, since ModelCallProofs *)
(* is about both.                                                           *)
EXTENDS FiniteSets, Naturals

CONSTANTS
    Run,          \* sessions on the connection
    Chat,         \* the one of them a person types in; the others are agents
    Listed,       \* stand-ins, in the user's order: 1 .. Listed; 0 is their own
    Unusable,     \* stand-ins that cannot be switched to
    Keys,         \* keys saved for the own model's server: 1 .. Keys
    Messages,     \* how many messages each session is sent
    MaxRetries,   \* MAX_TURN_RETRIES: 5
    Soon,         \* retries of a server out of reach, with a stand-in: 2
    MaxGarbled,   \* retries of a reply that cannot be read: 2
    MaxStalls,    \* MAX_STALL_RETRIES: 2
    MaxWaits,     \* server_waits: 5
    MaxLapses     \* rests of a key that end

ASSUME FailoverAssumption ==
    /\ Chat \in Run
    /\ {Listed, Keys, MaxRetries, Soon, MaxGarbled, MaxStalls, MaxWaits,
        MaxLapses} \subseteq Nat
    /\ Messages \in [Run -> Nat]
    /\ Keys > 0
    /\ Unusable \subseteq 1 .. Listed

VARIABLES
    using,     \* connection: the model in use
    switched,  \* Fallbacks.own is held: a stand-in answers
    next,      \* Fallbacks.next: how many stand-ins were switched to or passed
    rested,    \* Fallbacks.rested_until is ahead: the own model is left alone
    key,       \* the own model's credential
    resting,   \* RESTING
    lapses,    \* rests of a key that ended
    place,     \* where each session is
    model,     \* the model its request was prepared for
    cause,     \* what the request failed with, until that is dealt with
    tries,     \* what its run_turn has tried: retries, of them of a stall, and
               \* whether a limited key was given its one more try
    waits,     \* how often its run waited for a server
    messages,  \* how many messages it was sent
    blamed,    \* history: models given up on since the own one returned
    capped,    \* history: the own one was among them, for a limit
    stale,     \* history: sessions whose request is older than that return
    tainted    \* history: one of them has handed over since

connection == <<using, switched, next, rested>>
rotation == <<key, resting>>
history == <<blamed, capped, stale, tainted>>
session == <<model, cause, tries>>
failoverVars ==
    <<connection, rotation, lapses, place, session, waits, messages, history>>

Model == 0 .. Listed
Key == 1 .. Keys
Requesting == {"asking", "unavailable"}
Where == Requesting \cup {"idle", "preparing", "waiting"}

\* The table.  limit, plan and upstream are answers 429: of the key, of its
\* plan, and of a server further on; rules and later are a ChatGPT plan's.
Kind == {"limit", "plan", "upstream", "refused", "credit", "away", "failing",
         "silent", "garbled", "declined", "rules", "later"}
Retryable == Kind \ {"refused", "credit", "declined", "rules"}
KeyFault == {"limit", "plan", "refused", "credit"}
Limits == {"limit", "plan", "upstream", "credit"}
ComesBack == {"away", "failing"}
NoStandIn == {"rules", "later"}

Smaller(m, n) == IF m < n THEN m ELSE n
HandOverAfter(k) ==
    CASE k \in {"limit", "plan", "upstream"} -> 0
      [] k = "away" -> Soon
      [] OTHER -> MaxRetries
Most(k) == IF k = "garbled" THEN MaxGarbled ELSE MaxRetries

\* What ModelUnavailable says of its cause: whether the model is to rest, and
\* whether its server comes back.
Cause(k) ==
    CASE k \in Limits -> "limited" [] k \in ComesBack -> "absent" [] OTHER -> "other"
Causes == {"limited", "absent", "other"}

NoTries == [retries |-> 0, stalls |-> 0, limited |-> FALSE]

FailoverInit ==
    /\ using = 0 /\ switched = FALSE /\ next = 0 /\ rested = FALSE
    /\ key = 1 /\ resting = {}
    /\ lapses = 0
    /\ place = [r \in Run |-> "idle"]
    /\ model = [r \in Run |-> 0]
    /\ cause = [r \in Run |-> "none"]
    /\ tries = [r \in Run |-> NoTries]
    /\ waits = [r \in Run |-> 0]
    /\ messages = [r \in Run |-> 0]
    /\ blamed = {} /\ capped = FALSE /\ stale = {} /\ tainted = FALSE

MoveTo(r, to) == place' = [place EXCEPT ![r] = to]

\* The request is over, and what was noted about it is forgotten.
Leave(r, to) ==
    /\ MoveTo(r, to)
    /\ model' = [model EXCEPT ![r] = 0]
    /\ cause' = [cause EXCEPT ![r] = "none"]
    /\ tries' = [tries EXCEPT ![r] = NoTries]

\* The run is over.
Return(r) == Leave(r, "idle") /\ waits' = [waits EXCEPT ![r] = 0]

-----------------------------------------------------------------------------
(* The client (providers/src/client/fallback.rs).                           *)

Ready(held) == Key \ held
First(k, keys) == \A l \in keys : k <= l

\* return_to_own: unless it rests, the own model answers the next message,
\* with the first key that is ready.
ReturnToOwn(r) ==
    IF rested /\ switched
    THEN UNCHANGED <<connection, rotation, history>>
    ELSE /\ using' = 0 /\ switched' = FALSE /\ next' = 0 /\ rested' = FALSE
         /\ IF Keys > 1 /\ Ready(resting) # {}
            THEN \E k \in Ready(resting) : First(k, Ready(resting)) /\ key' = k
            ELSE UNCHANGED key
         /\ blamed' = {} /\ capped' = FALSE /\ tainted' = FALSE
         /\ stale' = {s \in Run \ {r} : place[s] \in Requesting}
         /\ UNCHANGED resting

\* has_another_key
AnotherKey == ~switched /\ Ready(resting \cup {key}) # {}

\* turn_to_next_key rests the key in use, and turns to another if one is ready.
Turns == ~switched /\ Keys > 1
NextKey == Turns /\ Ready(resting \cup {key}) # {}
TurnToNextKey ==
    IF Turns
    THEN /\ resting' = resting \cup {key}
         /\ IF NextKey
            THEN \E k \in Ready(resting') : First(k, Ready(resting')) /\ key' = k
            ELSE UNCHANGED key
    ELSE UNCHANGED rotation

\* has_stand_in_left
StandInLeft == next < Listed

\* Those still to be tried; one that cannot be switched to is passed over.
Untried == {m \in Model : next < m} \ Unusable

\* Mutant: it does not ask whether another session has left that model.
AlreadyLeftUnasked(failed) == FALSE

\* stand_in_for switches on, when the model it is told of is still the one in
\* use; while the own model answers it does not look which one failed.
AlreadyLeft(failed) == switched /\ failed # using
HandsOver(failed) == AlreadyLeft(failed) \/ Untried # {}
StandInFor(r, failed, limit) ==
    IF AlreadyLeft(failed)
    THEN UNCHANGED <<connection, stale, tainted>>
    ELSE /\ IF Untried = {}
            THEN next' = Listed /\ UNCHANGED <<using, switched, rested>>
            ELSE \E m \in Untried :
                    /\ First(m, Untried)
                    /\ using' = m /\ next' = m /\ switched' = TRUE
                    /\ rested' = (rested \/ (~switched /\ limit))
         /\ tainted' = (tainted \/ r \in stale)
         /\ UNCHANGED stale

-----------------------------------------------------------------------------
(* A session.                                                               *)

\* begin_run; only the person's own message returns to the own model.
Start(r) ==
    /\ place[r] = "idle" /\ messages[r] < Messages[r]
    /\ messages' = [messages EXCEPT ![r] = @ + 1]
    /\ MoveTo(r, "preparing")
    /\ IF r = Chat THEN ReturnToOwn(r)
                   ELSE UNCHANGED <<connection, rotation, history>>
    /\ UNCHANGED <<lapses, session, waits>>

\* prepare_turn, and a fresh run_turn.
Prepare(r) ==
    /\ place[r] = "preparing"
    /\ MoveTo(r, "asking")
    /\ model' = [model EXCEPT ![r] = using]
    /\ stale' = stale \ {r}
    /\ UNCHANGED <<connection, rotation, lapses, cause, tries, waits, messages,
                   blamed, capped, tainted>>

AnswerArrives(r) ==
    /\ place[r] = "asking"
    /\ Return(r)
    /\ UNCHANGED <<connection, rotation, lapses, messages, history>>

Blame(r, m, limit) ==
    /\ blamed' = IF r \in stale THEN blamed ELSE blamed \cup {m}
    /\ capped' = (capped \/ (r \notin stale /\ m = 0 /\ limit))

\* run_turn: a rate limit is first given one more try on the same key; any
\* other key that was turned away is swapped for the next, and the request goes
\* out again as it is.
OnceMore(r, k) == k = "limit" /\ ~tries[r].limited /\ AnotherKey
TurnedAway(r, k) == k \in KeyFault /\ ~OnceMore(r, k)

SwapKey(r, k) ==
    /\ place[r] = "asking" /\ TurnedAway(r, k) /\ NextKey
    /\ TurnToNextKey
    /\ tries' = [tries EXCEPT ![r].limited = FALSE]
    /\ UNCHANGED <<connection, lapses, place, model, cause, waits, messages,
                   history>>

\* run_turn: the key is not at fault, was the last, or is tried once more.
KeepKey(r, k) ==
    /\ place[r] = "asking" /\ ~(TurnedAway(r, k) /\ NextKey)
    /\ IF TurnedAway(r, k) THEN TurnToNextKey ELSE UNCHANGED rotation

\* run_turn: how many retries this failure is given.
Patience(r, k) ==
    IF StandInLeft /\ ~OnceMore(r, k) THEN HandOverAfter(k) ELSE MaxRetries
MayRetry(r, k) ==
    /\ k \in Retryable
    /\ tries[r].retries < Smaller(Smaller(Patience(r, k), Most(k)), MaxRetries)
    /\ k = "silent" => tries[r].stalls < MaxStalls

\* A nap, and the request goes out again.
Retry(r, k) ==
    /\ KeepKey(r, k) /\ MayRetry(r, k)
    /\ tries' = [tries EXCEPT ![r] =
                    [retries |-> @.retries + 1,
                     stalls |-> IF k = "silent" THEN @.stalls + 1 ELSE @.stalls,
                     limited |-> (@.limited \/ OnceMore(r, k))]]
    /\ UNCHANGED <<connection, lapses, place, model, cause, waits, messages,
                   history>>

\* The error is final; another model may answer, except to a plan's.
GiveUp(r, k) ==
    /\ KeepKey(r, k) /\ ~MayRetry(r, k)
    /\ IF k \in NoStandIn
       THEN Return(r) /\ UNCHANGED <<blamed, capped>>
       ELSE /\ MoveTo(r, "unavailable")
            /\ cause' = [cause EXCEPT ![r] = Cause(k)]
            /\ tries' = [tries EXCEPT ![r] = NoTries]
            /\ Blame(r, model[r], k \in Limits)
            /\ UNCHANGED <<model, waits>>
    /\ UNCHANGED <<connection, lapses, messages, stale, tainted>>

\* Mutant: a wait is not counted.
WaitUncounted(r) == Leave(r, "waiting") /\ UNCHANGED waits

\* recover_turn: a server that is only away is waited for, a few times.
Await(r) == Leave(r, "waiting") /\ waits' = [waits EXCEPT ![r] = @ + 1]

\* recover_turn: the next model, or a wait for a server that is only away.
HandOver(r) ==
    /\ place[r] = "unavailable"
    /\ StandInFor(r, model[r], cause[r] = "limited")
    /\ \/ /\ HandsOver(model[r])
          /\ Leave(r, "preparing")
          /\ UNCHANGED waits
       \/ /\ ~HandsOver(model[r])
          /\ cause[r] = "absent" /\ waits[r] < MaxWaits
          /\ Await(r)
       \/ /\ ~HandsOver(model[r])
          /\ cause[r] = "absent" => waits[r] = MaxWaits
          /\ Return(r)
    /\ UNCHANGED <<rotation, lapses, messages, blamed, capped>>

\* waited_out: the time is over, or the person has spoken.
WaitOver(r) ==
    /\ place[r] = "waiting"
    /\ MoveTo(r, "preparing")
    /\ UNCHANGED <<connection, rotation, lapses, session, waits, messages,
                   history>>

\* retry_empty_response, its own tries used up: the model in use now is left.
KeptEmpty(r) ==
    /\ place[r] = "asking"
    /\ Blame(r, using, FALSE)
    /\ StandInFor(r, using, FALSE)
    /\ IF HandsOver(using) THEN Leave(r, "preparing") /\ UNCHANGED waits
                           ELSE Return(r)
    /\ UNCHANGED <<rotation, lapses, messages>>

\* Esc, or the deadline, in a stream, a backoff or a wait.
Stop(r) ==
    /\ place[r] \in {"preparing", "asking", "waiting"}
    /\ Return(r)
    /\ UNCHANGED <<connection, rotation, lapses, messages, history>>

-----------------------------------------------------------------------------
(* Rests end.                                                               *)

KeyLapses(k) ==
    /\ k \in resting /\ lapses < MaxLapses
    /\ resting' = resting \ {k}
    /\ lapses' = lapses + 1
    /\ UNCHANGED <<connection, key, place, session, waits, messages, history>>

OwnLapses ==
    /\ rested
    /\ rested' = FALSE
    /\ UNCHANGED <<using, switched, next, rotation, lapses, place, session,
                   waits, messages, history>>

-----------------------------------------------------------------------------
Failure(r) == \E k \in Kind : SwapKey(r, k) \/ Retry(r, k) \/ GiveUp(r, k)

Progress(r) ==
    \/ Prepare(r) \/ AnswerArrives(r) \/ Failure(r) \/ KeptEmpty(r)
    \/ HandOver(r) \/ WaitOver(r)

FailoverNext ==
    \/ \E r \in Run : Start(r) \/ Progress(r) \/ Stop(r)
    \/ \E k \in Key : KeyLapses(k)
    \/ OwnLapses

\* A stream ends or is cut off when it is silent, and naps are timers.
Fairness == \A r \in Run : WF_failoverVars(Progress(r))

FailoverSpec == FailoverInit /\ [][FailoverNext]_failoverVars /\ Fairness

-----------------------------------------------------------------------------
(* The client and its sessions keep their types.                            *)
FailoverTypeOK ==
    /\ using \in Model /\ next \in Model
    /\ {switched, rested, capped, tainted} \subseteq BOOLEAN
    /\ key \in Key /\ resting \subseteq Key
    /\ lapses \in 0 .. MaxLapses
    /\ place \in [Run -> Where]
    /\ model \in [Run -> Model]
    /\ cause \in [Run -> Causes \cup {"none"}]
    /\ tries \in [Run -> [retries : 0 .. MaxRetries, stalls : 0 .. MaxStalls,
                           limited : BOOLEAN]]
    /\ stale \subseteq Run
    /\ waits \in [Run -> 0 .. MaxWaits]
    /\ \A r \in Run : messages[r] \in 0 .. Messages[r]
    /\ blamed \subseteq Model

(* Nothing is passed over that may still answer: every model before the one *)
(* in use, and every one after it that is counted as tried, was given up on *)
(* since the own model last returned or cannot be switched to; and the own  *)
(* model rests only for a limit of its own ("the one standing in has not    *)
(* failed, and is not passed over for the next", stand_in_for).  Excepted   *)
(* is a request that is older than that return: it is not asked which model *)
(* it failed on.                                                            *)
NothingPassedOver ==
    ~tainted =>
        /\ \A m \in Model \ (Unusable \cup {using}) :
               m < using \/ (m <= next /\ m # 0) => m \in blamed
        /\ rested => capped

(* Every message is answered, fails or is stopped: keys, retries, stand-ins *)
(* and waits are used up, whatever the other sessions do to the connection. *)
LadderEnds == \A r \in Run : place[r] = "preparing" ~> place[r] = "idle"
=============================================================================
