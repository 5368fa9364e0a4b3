----------------------------- MODULE BudgetPool -----------------------------
(***************************************************************************)
(* The allowance an agent tree shares (kernel/src/budgets.rs), as its      *)
(* sessions and its auxiliary calls spend it (session/boundary.rs,         *)
(* session/prepare.rs, turn.rs, budget_finish.rs, auxiliary.rs).           *)
(*                                                                         *)
(* One pool of tokens and of cost sits behind a mutex; each method of      *)
(* Governor and ModelReservation takes it once, so a method is one step.   *)
(* A request is sized from what the pool holds, reserved at its worst case *)
(* later, and reconciled with what the provider reports later still.  The  *)
(* other sessions of the tree run between any two of those steps.          *)
(***************************************************************************)
EXTENDS Integers, FiniteSets

CONSTANTS
    Session,     \* sessions of the tree: the root's and its descendants'
    Auxiliary,   \* model calls made beside a session: vision, judge, summary
    MaxTurns,    \* max_turns of each session
    Capped,      \* the resources the task has a ceiling for
    Ceiling,     \* max_tokens and max_cost_usd
    PriceIn,     \* cost of one token sent
    PriceOut,    \* cost of one token received
    Prompt,      \* how many tokens a request's input may count
    AuxOutput,   \* the output an auxiliary call asks for
    Usage,       \* what a provider may report it charged
    ModelOutput, \* the model's own output limit
    OneReply,    \* the least a working request asks for: 4,096
    FinishCap,   \* the most a handover may write: 512
    Slack        \* tokens added to the first count of a handover: 32

Governor == Session \cup Auxiliary
Resource == {"tokens", "cost"}
Amount == [Resource -> Nat]
Zero == [r \in Resource |-> 0]

ASSUME TreeAssumption ==
    /\ IsFiniteSet(Session) /\ IsFiniteSet(Auxiliary)
    /\ Session \cap Auxiliary = {}
    /\ MaxTurns \in [Session -> Nat]

ASSUME CeilingAssumption ==
    /\ Capped \subseteq Resource
    /\ Ceiling \in Amount
    /\ Usage \subseteq Amount

ASSUME RequestAssumption ==
    /\ Prompt \subseteq Nat \ {0}
    /\ {PriceIn, PriceOut, AuxOutput, OneReply, FinishCap, Slack} \subseteq Nat
    /\ ModelOutput \in Nat

VARIABLES
    pc,        \* where each session or auxiliary call is
    turns,     \* per session: turns begun
    finishing, \* sessions that have begun their wrap-up
    ask,       \* the request each one has sized: its input and output tokens
    hold,      \* the unsettled reservation of each one; Zero when it has none
    reserved,  \* the pool: reserved_tokens and reserved_cost_usd
    spent,     \* the pool: tokens and cost_usd
    excess,    \* history: what providers charged beyond the reservations
    stretched, \* history: a first request reached into the finish reserve
    handed     \* history: sessions whose handover request was admitted

pool == <<reserved, spent, excess>>
vars == <<pc, turns, finishing, ask, hold, reserved, spent, excess,
          stretched, handed>>

-----------------------------------------------------------------------------
(* What a governor may use.                                                *)

Lesser(a, b) == IF a < b THEN a ELSE b
Greater(a, b) == IF a < b THEN b ELSE a
Monus(a, b) == IF b < a THEN a - b ELSE 0

\* The most a request of this size can be charged.
WorstCase(a) ==
    [r \in Resource |->
        IF r = "tokens" THEN a.prompt + a.output
                        ELSE a.prompt * PriceIn + a.output * PriceOut]

Use(r) == spent[r] + reserved[r]
Fresh == \A r \in Resource : Use(r) = 0

Share(n) == (n * 95) \div 100

\* Mutant: the whole of each ceiling is open to working requests.
AllForWork(g, r) == Ceiling[r]

\* working_share: 5% is kept for the finish once the task has started.
WorkingCeiling(g, r) ==
    IF g \in finishing \/ Fresh THEN Ceiling[r] ELSE Share(Ceiling[r])

\* Mutant: what others have reserved is not counted.
FitsBeside(g, amount) ==
    \A r \in Capped : spent[r] + amount[r] <= WorkingCeiling(g, r)

\* reserve_model's admission test, under the pool's mutex.
Fits(g, amount) ==
    \A r \in Capped : Use(r) + amount[r] <= WorkingCeiling(g, r)

\* Output tokens the limits t and c pay for after the prompt, at most `most`.
Affordable(most, t, c, prompt) ==
    LET byTokens == Monus(t, Use("tokens") + prompt)
        byCost == Monus(c, Use("cost") + prompt * PriceIn) \div PriceOut
        n == IF "tokens" \in Capped THEN Lesser(most, byTokens) ELSE most
    IN  IF "cost" \in Capped /\ PriceOut > 0 THEN Lesser(n, byCost) ELSE n

\* output_room and capped_output: what the working share pays for, and never
\* less than one reply.
OutputFor(g, prompt) ==
    Greater(Affordable(ModelOutput, WorkingCeiling(g, "tokens"),
                       WorkingCeiling(g, "cost"), prompt),
            Lesser(OneReply, ModelOutput))

\* begin_wrap_up's cap: the handover is given what the whole ceiling leaves.
WrapUpCap(prompt) ==
    Affordable(FinishCap, Ceiling["tokens"], Ceiling["cost"], prompt)

PaysForInput(prompt) ==
    "cost" \in Capped => Use("cost") + prompt * PriceIn <= Ceiling["cost"]

-----------------------------------------------------------------------------
Goto(g, label) == pc' = [pc EXCEPT ![g] = label]

Init ==
    /\ pc = [g \in Governor |-> IF g \in Session THEN "boundary" ELSE "call"]
    /\ turns = [g \in Session |-> 0]
    /\ finishing = {}
    /\ ask = [g \in Governor |-> [prompt |-> 0, output |-> 0]]
    /\ hold = [g \in Governor |-> Zero]
    /\ reserved = Zero
    /\ spent = Zero
    /\ excess = Zero
    /\ stretched = FALSE
    /\ handed = {}

TurnsLeft(g) == turns[g] < MaxTurns[g]
CeilingReached == \E r \in Capped : Use(r) >= Ceiling[r]

\* turn_boundary: check, then begin a turn, wrap up, or stop.
Boundary(g) ==
    /\ pc[g] = "boundary"
    /\ \/ ~TurnsLeft(g) /\ Goto(g, "ended") /\ UNCHANGED turns
       \/ /\ TurnsLeft(g) /\ CeilingReached
          /\ Goto(g, "finish") /\ UNCHANGED turns
       \/ /\ TurnsLeft(g) /\ ~CeilingReached
          /\ Goto(g, "prepare")
          /\ turns' = [turns EXCEPT ![g] = @ + 1]
    /\ UNCHANGED <<finishing, ask, hold, pool, stretched, handed>>

\* prepare: the cap the request carries, from what the pool can pay for now.
CapRequest(g) ==
    /\ pc[g] = "prepare"
    /\ Goto(g, "capped")
    /\ \E estimate \in Prompt :
        ask' = [ask EXCEPT ![g] = [prompt |-> estimate, output |-> OutputFor(g, estimate)]]
    /\ UNCHANGED <<turns, finishing, hold, pool, stretched, handed>>

\* prepare, when the input has been counted: the output to reserve for it.
Size(g) ==
    /\ pc[g] = "capped"
    /\ Goto(g, "sized")
    /\ \E prompt \in Prompt :
        ask' = [ask EXCEPT ![g] = [prompt |-> prompt, output |-> OutputFor(g, prompt)]]
    /\ UNCHANGED <<turns, finishing, hold, pool, stretched, handed>>

\* auxiliary::context: an auxiliary call brings its own size.
SizeAuxiliary(g) ==
    /\ pc[g] = "call"
    /\ Goto(g, "sized")
    /\ \E prompt \in Prompt :
        ask' = [ask EXCEPT ![g] = [prompt |-> prompt, output |-> AuxOutput]]
    /\ UNCHANGED <<turns, finishing, hold, pool, stretched, handed>>

-----------------------------------------------------------------------------
(* Reserving.                                                              *)

Take(g) ==
    /\ hold' = [hold EXCEPT ![g] = WorstCase(ask[g])]
    /\ reserved' = [r \in Resource |-> reserved[r] + WorstCase(ask[g])[r]]
    /\ UNCHANGED <<spent, excess>>

\* reserve_model for a working request or an auxiliary call.
Reserve(g) ==
    /\ pc[g] = "sized"
    /\ Fits(g, WorstCase(ask[g]))
    /\ Take(g)
    /\ Goto(g, "streaming")
    /\ stretched' = (stretched \/ \E r \in Capped :
                                    WorstCase(ask[g])[r] > Share(Ceiling[r]))
    /\ UNCHANGED <<turns, finishing, ask, handed>>

\* reserve_model refuses: a session wraps up, an auxiliary call reports it.
Refuse(g) ==
    /\ pc[g] = "sized"
    /\ ~Fits(g, WorstCase(ask[g]))
    /\ Goto(g, IF g \in Session THEN "finish" ELSE "ended")
    /\ UNCHANGED <<turns, finishing, ask, hold, pool, stretched, handed>>

\* finish_budget and begin_wrap_up: the cap comes from what is left now.
BeginWrapUp(g, prompt) ==
    /\ pc[g] = "finish"
    /\ g \notin finishing /\ Capped # {}
    /\ PaysForInput(prompt + Slack)
    /\ WrapUpCap(prompt + Slack) > 0
    /\ \E recount \in Prompt :
        ask' = [ask EXCEPT ![g] = [prompt |-> recount,
                                   output |-> WrapUpCap(prompt + Slack)]]
    /\ finishing' = finishing \cup {g}
    /\ Goto(g, "wrapping")
    /\ UNCHANGED <<turns, hold, pool, stretched, handed>>

\* begin_wrap_up finds no room, and the saved-work notice stands in for it.
NoWrapUp(g, prompt) ==
    /\ pc[g] = "finish"
    /\ \/ g \in finishing
       \/ Capped = {}
       \/ ~PaysForInput(prompt + Slack)
       \/ WrapUpCap(prompt + Slack) = 0
    /\ Goto(g, "ended")
    /\ UNCHANGED <<turns, finishing, ask, hold, pool, stretched, handed>>

\* finish_budget reserves the handover, unless the room has gone meanwhile.
ReserveWrapUp(g) ==
    /\ pc[g] = "wrapping"
    /\ \/ /\ Fits(g, WorstCase(ask[g]))
          /\ Take(g)
          /\ Goto(g, "handover")
          /\ handed' = handed \cup {g}
       \/ /\ ~Fits(g, WorstCase(ask[g]))
          /\ Goto(g, "ended")
          /\ UNCHANGED <<hold, pool, handed>>
    /\ UNCHANGED <<turns, finishing, ask, stretched>>

-----------------------------------------------------------------------------
(* Settling.                                                               *)

\* Mutant: what is charged is added, what was reserved is not given back.
SettleTwice(g, charge) ==
    /\ spent' = [r \in Resource |-> spent[r] + charge[r]]
    /\ hold' = [hold EXCEPT ![g] = Zero]
    /\ excess' = [r \in Resource |-> excess[r] + Monus(charge[r], hold[g][r])]
    /\ UNCHANGED reserved

Settle(g, charge) ==
    /\ reserved' = [r \in Resource |-> Monus(reserved[r], hold[g][r])]
    /\ spent' = [r \in Resource |-> spent[r] + charge[r]]
    /\ hold' = [hold EXCEPT ![g] = Zero]
    /\ excess' = [r \in Resource |-> excess[r] + Monus(charge[r], hold[g][r])]

\* reconcile_attempt: reported usage, the worst case when none is reported,
\* nothing when the provider rejected the request before it was billed.
ChargeFor(g) == Usage \cup {hold[g], Zero}

Overrun(g, charge) == \E r \in Capped : charge[r] > hold[g][r]

\* run_turn: an overrun ends the work; else retry, prepare again, go on, stop.
Reconcile(g) ==
    /\ pc[g] = "streaming"
    /\ \E charge \in ChargeFor(g) :
        /\ Settle(g, charge)
        /\ \/ g \in Session /\ Overrun(g, charge) /\ Goto(g, "finish")
           \/ /\ g \in Session /\ ~Overrun(g, charge)
              /\ \E next \in {"sized", "prepare", "boundary", "ended"} :
                    Goto(g, next)
           \/ g \in Auxiliary /\ Goto(g, "ended")
    /\ UNCHANGED <<turns, finishing, ask, stretched, handed>>

ReconcileWrapUp(g) ==
    /\ pc[g] = "handover"
    /\ \E charge \in ChargeFor(g) : Settle(g, charge)
    /\ Goto(g, "ended")
    /\ UNCHANGED <<turns, finishing, ask, stretched, handed>>

\* Mutant: a reservation that is dropped is forgotten.
AbandonForgetting(g) ==
    /\ pc[g] # "ended"
    /\ Goto(g, "ended")
    /\ UNCHANGED <<turns, finishing, ask, hold, pool, stretched, handed>>

\* The run stops for another reason or its future is dropped: what it still
\* holds is charged in full (Drop for ModelReservation).
Abandon(g) ==
    /\ pc[g] # "ended"
    /\ Settle(g, hold[g])
    /\ Goto(g, "ended")
    /\ UNCHANGED <<turns, finishing, ask, stretched, handed>>

-----------------------------------------------------------------------------
Answered(g) == Reconcile(g) \/ ReconcileWrapUp(g)

SessionStep(g) ==
    \/ Boundary(g)
    \/ CapRequest(g)
    \/ Size(g)
    \/ \E prompt \in Prompt : BeginWrapUp(g, prompt)
    \/ \E prompt \in Prompt : NoWrapUp(g, prompt)
    \/ ReserveWrapUp(g)

RequestStep(g) ==
    \/ Reserve(g)
    \/ Refuse(g)
    \/ Answered(g)
    \/ Abandon(g)

Next ==
    \/ \E g \in Session : SessionStep(g)
    \/ \E g \in Auxiliary : SizeAuxiliary(g)
    \/ \E g \in Governor : RequestStep(g)

Spec == Init /\ [][Next]_vars

\* A stream ends: its provider answers, fails, or is cut off when idle.
FairSpec == Spec /\ \A g \in Governor : WF_vars(Answered(g))

-----------------------------------------------------------------------------
(* What the pool promises.                                                 *)

Label == {"boundary", "call", "prepare", "capped", "sized", "streaming", "finish",
          "wrapping", "handover", "ended"}

(* The types, and no session begins more turns than it was given.          *)
TypeOK ==
    /\ pc \in [Governor -> Label]
    /\ turns \in [Session -> Nat]
    /\ \A g \in Session : turns[g] <= MaxTurns[g]
    /\ finishing \subseteq Session
    /\ ask \in [Governor -> [prompt : Nat, output : Nat]]
    /\ hold \in [Governor -> Amount]
    /\ {reserved, spent, excess} \subseteq Amount
    /\ stretched \in BOOLEAN
    /\ handed \subseteq finishing

Held(r) == UNION {{g} \X (1..hold[g][r]) : g \in Governor}

(* What the pool calls reserved is what the unsettled reservations of the  *)
(* whole tree add up to: every one is given back exactly once, whichever   *)
(* of reconcile, an error path and Drop settles it (ModelReservation).     *)
PoolAccounting ==
    \A r \in Resource : reserved[r] = Cardinality(Held(r))

(* However the sessions of a tree interleave between sizing, reserving and *)
(* settling, spent and reserved together pass a ceiling only by what a     *)
(* provider charged beyond a reservation (reserve_model, settle).          *)
NeverOverAdmitted ==
    \A r \in Capped : Use(r) <= Ceiling[r] + excess[r]

(* Until somebody wraps up, working requests and auxiliary calls leave the *)
(* finish reserve alone, but for the first request of the task, which may  *)
(* use the full allowance (working_share).                                 *)
WorkLeavesTheFinish ==
    finishing = {} /\ ~stretched =>
        \A r \in Capped : Use(r) <= Share(Ceiling[r]) + excess[r]

(* A reservation never outlives its request: the answer, its failure or    *)
(* the drop of the run settles it.                                         *)
EveryReservationSettles ==
    \A g \in Governor : hold[g] # Zero ~> hold[g] = Zero
=============================================================================
