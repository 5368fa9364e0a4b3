-------------------------- MODULE ModelCallProofs ---------------------------
(***************************************************************************)
(* Proofs about a model call: what it may cost, from BudgetPool, and what  *)
(* is tried when its model cannot be used, from ModelFailover.  They hold  *)
(* for any tree of sessions, any ceilings, prices, request sizes and       *)
(* reported usage, and any stand-ins and bounds of the ladder.             *)
(*                                                                         *)
(* The pool is exact because a reservation is changed by nobody but its    *)
(* owner: the tokens reserved are counted as the disjoint union of one set *)
(* of units per owner, and a step replaces the set of one of them.         *)
(*                                                                         *)
(* A stand-in is left only for the next that can be used, so what lies     *)
(* between the model in use and the last one tried cannot (Position); what *)
(* lies before it was blamed (Blaming); and a request that is not older    *)
(* than the own model's return knows whom to blame: while the own model    *)
(* answers it was prepared for no other (Knowing).                         *)
(***************************************************************************)
EXTENDS BudgetPool, ModelFailover, FiniteSetTheorems, TLAPS

-----------------------------------------------------------------------------
(* BudgetPool.                                                             *)

\* Only a request on the wire holds a reservation.
HoldInv == \A g \in Governor :
              pc[g] \notin {"streaming", "handover"} => hold[g] = Zero

FiniteHolds == \A r \in Resource : IsFiniteSet(Held(r))

WrapUpInv == \A g \in Governor : pc[g] = "wrapping" => g \in finishing

AccountInv == TypeOK /\ WrapUpInv /\ HoldInv /\ FiniteHolds /\ PoolAccounting

IInv == AccountInv /\ NeverOverAdmitted /\ WorkLeavesTheFinish

Others(g, r) == UNION {{x} \X (1..hold[x][r]) : x \in Governor \ {g}}

-----------------------------------------------------------------------------
(* Counting the units that are held.                                       *)

LEMMA ColumnCount ==
    ASSUME NEW g, NEW n \in Nat
    PROVE  IsFiniteSet({g} \X (1..n)) /\ Cardinality({g} \X (1..n)) = n
<1>1. IsFiniteSet({g}) /\ Cardinality({g}) = 1
  BY FS_Singleton
<1>2. IsFiniteSet(1..n) /\ Cardinality(1..n) = n
  BY FS_Interval
<1>3. /\ IsFiniteSet({g} \X (1..n))
      /\ Cardinality({g} \X (1..n)) = Cardinality({g}) * Cardinality(1..n)
  BY <1>1, <1>2, FS_Product
<1>. QED BY <1>1, <1>2, <1>3

\* A holder's units are apart from everybody else's.
LEMMA HeldSplits ==
    ASSUME NEW g \in Governor, NEW r \in Resource
    PROVE  /\ Held(r) = Others(g, r) \cup ({g} \X (1..hold[g][r]))
           /\ Others(g, r) \cap ({g} \X (1..hold[g][r])) = {}
<1>1. Held(r) \subseteq Others(g, r) \cup ({g} \X (1..hold[g][r]))
  BY DEF Held, Others
<1>2. Others(g, r) \cup ({g} \X (1..hold[g][r])) \subseteq Held(r)
  BY DEF Held, Others
<1>3. Others(g, r) \cap ({g} \X (1..hold[g][r])) = {}
  BY DEF Others
<1>. QED BY <1>1, <1>2, <1>3

LEMMA HeldCount ==
    ASSUME NEW g \in Governor, NEW r \in Resource, hold[g][r] \in Nat,
           IsFiniteSet(Held(r))
    PROVE  /\ IsFiniteSet(Others(g, r)) /\ Cardinality(Others(g, r)) \in Nat
           /\ Cardinality(Held(r)) = Cardinality(Others(g, r)) + hold[g][r]
<1>1. IsFiniteSet(Others(g, r))
  <2>1. Others(g, r) \in SUBSET Held(r)
    BY HeldSplits
  <2>. QED BY <2>1, FS_Subset
<1>2. Cardinality(Others(g, r)) \in Nat
  BY <1>1, FS_CardinalityType
<1>3. Cardinality(Others(g, r) \cap ({g} \X (1..hold[g][r]))) = 0
  BY HeldSplits, FS_EmptySet
<1>4. Cardinality(Held(r)) = Cardinality(Others(g, r))
         + Cardinality({g} \X (1..hold[g][r]))
         - Cardinality(Others(g, r) \cap ({g} \X (1..hold[g][r])))
  <2> DEFINE B == {g} \X (1..hold[g][r])
  <2>1. IsFiniteSet(B)
    BY ColumnCount
  <2>2. Cardinality(Others(g, r) \cup B) = Cardinality(Others(g, r))
           + Cardinality(B) - Cardinality(Others(g, r) \cap B)
    BY <1>1, <2>1, FS_Union
  <2>3. Held(r) = Others(g, r) \cup B
    BY HeldSplits
  <2>. QED BY <2>2, <2>3
<1>5. Cardinality({g} \X (1..hold[g][r])) = hold[g][r]
  BY ColumnCount
<1>. QED BY <1>1, <1>2, <1>3, <1>4, <1>5

\* What a step that replaces one holder's reservation does to the count.
LEMMA HoldReplaced ==
    ASSUME TypeOK, FiniteHolds, NEW g \in Governor, NEW a \in Amount,
           hold' = [hold EXCEPT ![g] = a], NEW r \in Resource
    PROVE  /\ IsFiniteSet(Held(r)') /\ hold[g][r] \in Nat
           /\ hold[g][r] <= Cardinality(Held(r))
           /\ Cardinality(Held(r)') = Cardinality(Held(r)) - hold[g][r] + a[r]
<1>1. hold[g][r] \in Nat /\ a[r] \in Nat /\ hold'[g] = a
  BY DEF TypeOK, Amount
<1>2. IsFiniteSet(Held(r))
  BY DEF FiniteHolds
<1>3. Others(g, r)' = Others(g, r)
  <2>1. \A x \in Governor \ {g} : hold'[x] = hold[x]
    BY DEF TypeOK
  <2>. QED BY <2>1 DEF Others
<1>4. /\ IsFiniteSet(Others(g, r)) /\ Cardinality(Others(g, r)) \in Nat
      /\ Cardinality(Held(r)) = Cardinality(Others(g, r)) + hold[g][r]
  BY <1>1, <1>2, HeldCount
<1>5. /\ Held(r)' = Others(g, r) \cup ({g} \X (1..a[r]))
      /\ Others(g, r) \cap ({g} \X (1..a[r])) = {}
  <2>1. Held(r)' \subseteq Others(g, r) \cup ({g} \X (1..a[r]))
    BY <1>1, <1>3 DEF Held, Others
  <2>2. Others(g, r) \cup ({g} \X (1..a[r])) \subseteq Held(r)'
    BY <1>1, <1>3 DEF Held, Others
  <2>3. Others(g, r) \cap ({g} \X (1..a[r])) = {}
    BY DEF Others
  <2>. QED BY <2>1, <2>2, <2>3
<1>6. /\ IsFiniteSet({g} \X (1..a[r]))
      /\ Cardinality({g} \X (1..a[r])) = a[r]
  BY <1>1, ColumnCount
<1>7. Cardinality(Others(g, r) \cap ({g} \X (1..a[r]))) = 0
  BY <1>5, FS_EmptySet
<1>8. /\ IsFiniteSet(Held(r)')
      /\ Cardinality(Held(r)') = Cardinality(Others(g, r))
           + Cardinality({g} \X (1..a[r]))
           - Cardinality(Others(g, r) \cap ({g} \X (1..a[r])))
  BY <1>4, <1>5, <1>6, FS_Union
<1>. QED BY <1>1, <1>4, <1>6, <1>7, <1>8
-----------------------------------------------------------------------------
(* Types.                                                                  *)

LEMMA WorstCaseAmount ==
    ASSUME NEW a \in [prompt : Nat, output : Nat]
    PROVE  WorstCase(a) \in Amount
<1>1. PriceIn \in Nat /\ PriceOut \in Nat
  BY RequestAssumption
<1>2. a.prompt \in Nat /\ a.output \in Nat
  OBVIOUS
<1>3. a.prompt * PriceIn \in Nat /\ a.output * PriceOut \in Nat
  BY <1>1, <1>2
<1>4. \A r \in Resource : WorstCase(a)[r] \in Nat
  BY <1>2, <1>3 DEF WorstCase
<1>. QED BY <1>4 DEF WorstCase, Amount

LEMMA UseType ==
    ASSUME TypeOK, NEW r \in Resource
    PROVE  /\ spent[r] \in Nat /\ reserved[r] \in Nat /\ excess[r] \in Nat
           /\ Use(r) \in Nat /\ Ceiling[r] \in Nat
  BY CeilingAssumption DEF TypeOK, Amount, Use

LEMMA ShareBelow ==
    ASSUME NEW n \in Nat
    PROVE  Share(n) \in Nat /\ Share(n) <= n
  BY DEF Share

LEMMA WorkingCeilingType ==
    ASSUME TypeOK, NEW g, NEW r \in Resource
    PROVE  WorkingCeiling(g, r) \in Nat /\ WorkingCeiling(g, r) <= Ceiling[r]
  BY UseType, ShareBelow DEF WorkingCeiling

LEMMA AffordableType ==
    ASSUME TypeOK, NEW most \in Nat, NEW t \in Nat, NEW c \in Nat,
           NEW prompt \in Nat
    PROVE  Affordable(most, t, c, prompt) \in Nat
<1>1. PriceIn \in Nat /\ PriceOut \in Nat
  BY RequestAssumption
<1>2. Use("tokens") \in Nat /\ Use("cost") \in Nat
  BY UseType DEF Resource
<1>3. prompt * PriceIn \in Nat
  BY <1>1
<1> DEFINE byTokens == Monus(t, Use("tokens") + prompt)
           left == Monus(c, Use("cost") + prompt * PriceIn)
           byCost == left \div PriceOut
           n == IF "tokens" \in Capped THEN Lesser(most, byTokens) ELSE most
<1>4. byTokens \in Nat /\ left \in Nat
  BY <1>2, <1>3 DEF Monus
<1>5. PriceOut > 0 => byCost \in Nat
  <2>. SUFFICES ASSUME PriceOut > 0
                PROVE  byCost \in Nat
    OBVIOUS
  <2>. HIDE DEF left
  <2>. QED BY <1>1, <1>4
<1>. HIDE DEF byTokens, byCost
<1>6. n \in Nat
  BY <1>4 DEF Lesser
<1>. HIDE DEF n
<1>7. (IF "cost" \in Capped /\ PriceOut > 0 THEN Lesser(n, byCost) ELSE n) \in Nat
  BY <1>5, <1>6 DEF Lesser
<1>. QED BY <1>7 DEF Affordable, byTokens, byCost, n

\* A step moves nobody but the one that takes it.
LEMMA GotoType ==
    ASSUME TypeOK, NEW g \in Governor, NEW label \in Label, Goto(g, label)
    PROVE  /\ pc' \in [Governor -> Label] /\ pc'[g] = label
           /\ \A h \in Governor \ {g} : pc'[h] = pc[h]
  BY DEF TypeOK, Goto

LEMMA AskType ==
    ASSUME TypeOK, NEW g \in Governor, NEW prompt \in Prompt, NEW n \in Nat,
           ask' = [ask EXCEPT ![g] = [prompt |-> prompt, output |-> n]]
    PROVE  ask' \in [Governor -> [prompt : Nat, output : Nat]]
<1>1. prompt \in Nat
  BY RequestAssumption
<1>2. [prompt |-> prompt, output |-> n] \in [prompt : Nat, output : Nat]
  BY <1>1
<1>. QED BY <1>2 DEF TypeOK

LEMMA TakeType ==
    ASSUME TypeOK, NEW g \in Governor, Take(g)
    PROVE  /\ hold' \in [Governor -> Amount] /\ reserved' \in Amount
           /\ spent' = spent /\ excess' = excess
           /\ WorstCase(ask[g]) \in Amount
           /\ hold' = [hold EXCEPT ![g] = WorstCase(ask[g])]
<1>1. WorstCase(ask[g]) \in Amount
  BY WorstCaseAmount DEF TypeOK
<1>2. hold' \in [Governor -> Amount]
  BY <1>1 DEF TypeOK, Take
<1>3. \A r \in Resource : reserved[r] + WorstCase(ask[g])[r] \in Nat
  BY <1>1, UseType DEF Amount
<1>. HIDE DEF Take
<1>4. reserved' = [r \in Resource |-> reserved[r] + WorstCase(ask[g])[r]]
  BY DEF Take
<1>5. reserved' \in Amount
  BY <1>3, <1>4 DEF Amount
<1>. QED BY <1>1, <1>2, <1>5 DEF Take

LEMMA SettleType ==
    ASSUME TypeOK, NEW g \in Governor, NEW charge \in Amount, Settle(g, charge)
    PROVE  /\ hold' \in [Governor -> Amount] /\ hold' = [hold EXCEPT ![g] = Zero]
           /\ reserved' \in Amount /\ spent' \in Amount /\ excess' \in Amount
           /\ Zero \in Amount
<1>1. Zero \in Amount
  BY DEF Zero, Amount
<1>2. hold' = [hold EXCEPT ![g] = Zero]
  BY DEF Settle
<1>3. hold' \in [Governor -> Amount]
  BY <1>1, <1>2 DEF TypeOK
<1>4. \A r \in Resource : hold[g][r] \in Nat /\ charge[r] \in Nat
  BY DEF TypeOK, Amount
<1>5. \A r \in Resource : Monus(reserved[r], hold[g][r]) \in Nat
  BY <1>4, UseType DEF Monus
<1>6. \A r \in Resource : spent[r] + charge[r] \in Nat
  BY <1>4, UseType
<1>7. \A r \in Resource : excess[r] + Monus(charge[r], hold[g][r]) \in Nat
  BY <1>4, UseType DEF Monus
<1>8. reserved' \in Amount
  BY <1>5 DEF Settle, Amount
<1>9. spent' \in Amount
  BY <1>6 DEF Settle, Amount
<1>10. excess' \in Amount
  BY <1>7 DEF Settle, Amount
<1>. QED BY <1>1, <1>2, <1>3, <1>8, <1>9, <1>10

LEMMA ChargeType ==
    ASSUME TypeOK, NEW g \in Governor, NEW charge \in ChargeFor(g)
    PROVE  charge \in Amount
<1>1. Zero \in Amount
  BY DEF Zero, Amount
<1>2. hold[g] \in Amount
  BY DEF TypeOK
<1>. QED BY <1>1, <1>2, CeilingAssumption DEF ChargeFor

LEMMA InitInv == Init => IInv
<1>. SUFFICES ASSUME Init
              PROVE  IInv
  OBVIOUS
<1>1. Zero \in Amount /\ \A r \in Resource : Zero[r] = 0
  BY DEF Zero, Amount
<1>2. pc \in [Governor -> Label]
  BY DEF Init, Label
<1>3. TypeOK
  <2>1. ask \in [Governor -> [prompt : Nat, output : Nat]]
    BY DEF Init
  <2>2. hold \in [Governor -> Amount] /\ {reserved, spent, excess} \subseteq Amount
    BY <1>1 DEF Init
  <2>3. turns \in [Session -> Nat] /\ \A g \in Session : turns[g] <= MaxTurns[g]
    BY TreeAssumption DEF Init
  <2>. QED BY <1>2, <2>1, <2>2, <2>3 DEF Init, TypeOK
<1>4. WrapUpInv /\ HoldInv
  BY DEF Init, WrapUpInv, HoldInv
<1>5. \A r \in Resource : Held(r) = {}
  <2>1. \A r \in Resource, g \in Governor : 1..hold[g][r] = {}
    BY <1>1 DEF Init
  <2>. QED BY <2>1 DEF Held
<1>6. FiniteHolds /\ PoolAccounting
  BY <1>1, <1>5, FS_EmptySet DEF FiniteHolds, PoolAccounting, Init
<1>7. \A r \in Resource : Use(r) = 0 /\ excess[r] = 0
  BY <1>1 DEF Init, Use
<1>8. \A r \in Resource : Ceiling[r] \in Nat /\ Share(Ceiling[r]) \in Nat
  BY CeilingAssumption, ShareBelow DEF Amount
<1>9. Capped \subseteq Resource
  BY CeilingAssumption
<1>10. NeverOverAdmitted
  BY <1>7, <1>8, <1>9 DEF NeverOverAdmitted
<1>11. WorkLeavesTheFinish
  BY <1>7, <1>8, <1>9 DEF WorkLeavesTheFinish
<1>. QED BY <1>3, <1>4, <1>6, <1>10, <1>11 DEF IInv, AccountInv
-----------------------------------------------------------------------------
(* Reserving and settling, whoever does it.                                *)

LEMMA TakeKeepsAccounts ==
    ASSUME AccountInv, NEW g \in Governor, hold[g] = Zero, Take(g)
    PROVE  FiniteHolds' /\ PoolAccounting'
<1>. SUFFICES ASSUME NEW r \in Resource
              PROVE  IsFiniteSet(Held(r)') /\ reserved'[r] = Cardinality(Held(r)')
  BY DEF FiniteHolds, PoolAccounting
<1>1. TypeOK /\ FiniteHolds /\ reserved[r] = Cardinality(Held(r))
  BY DEF AccountInv, PoolAccounting
<1>2. PICK a \in Amount : a = WorstCase(ask[g])
  BY <1>1, TakeType
<1>3. hold' = [hold EXCEPT ![g] = a]
  BY <1>2 DEF Take
<1>4. reserved'[r] = reserved[r] + a[r]
  BY <1>2 DEF Take
<1>5. /\ IsFiniteSet(Held(r)')
      /\ Cardinality(Held(r)') = Cardinality(Held(r)) - hold[g][r] + a[r]
  BY <1>1, <1>3, HoldReplaced
<1>6. hold[g][r] = 0
  BY DEF Zero
<1>7. reserved[r] \in Nat /\ a[r] \in Nat
  BY <1>1, UseType DEF Amount
<1>. QED BY <1>1, <1>4, <1>5, <1>6, <1>7

LEMMA SettleKeepsAccounts ==
    ASSUME AccountInv, NEW g \in Governor, NEW charge \in Amount,
           Settle(g, charge), NEW r \in Resource
    PROVE  /\ IsFiniteSet(Held(r)') /\ reserved'[r] = Cardinality(Held(r)')
           /\ reserved'[r] = reserved[r] - hold[g][r]
           /\ hold[g][r] \in Nat
<1>1. TypeOK /\ FiniteHolds /\ reserved[r] = Cardinality(Held(r))
  BY DEF AccountInv, PoolAccounting
<1>2. Zero \in Amount /\ hold' = [hold EXCEPT ![g] = Zero] /\ Zero[r] = 0
  BY DEF Settle, Zero, Amount
<1>3. /\ IsFiniteSet(Held(r)') /\ hold[g][r] \in Nat
      /\ hold[g][r] <= Cardinality(Held(r))
      /\ Cardinality(Held(r)') = Cardinality(Held(r)) - hold[g][r] + Zero[r]
  BY <1>1, <1>2, HoldReplaced
<1>4. reserved'[r] = Monus(reserved[r], hold[g][r])
  BY DEF Settle
<1>5. reserved[r] \in Nat
  BY <1>1, UseType
<1>6. reserved'[r] = reserved[r] - hold[g][r]
  BY <1>1, <1>3, <1>4, <1>5 DEF Monus
<1>. QED BY <1>1, <1>2, <1>3, <1>5, <1>6

\* What settling adds to the pool's use, it adds to the excess.
LEMMA SettleBounded ==
    ASSUME AccountInv, NEW g \in Governor, NEW charge \in Amount,
           Settle(g, charge), NEW r \in Resource, NEW limit \in Nat,
           Use(r) <= limit + excess[r]
    PROVE  Use(r)' <= limit + excess'[r]
<1>1. /\ reserved'[r] = reserved[r] - hold[g][r] /\ hold[g][r] \in Nat
  BY SettleKeepsAccounts
<1>2. /\ spent'[r] = spent[r] + charge[r]
      /\ excess'[r] = excess[r] + Monus(charge[r], hold[g][r])
  BY DEF Settle
<1>3. charge[r] \in Nat
  BY DEF Amount
<1>4. charge[r] - hold[g][r] <= Monus(charge[r], hold[g][r])
  BY <1>1, <1>3 DEF Monus
<1>5. Monus(charge[r], hold[g][r]) \in Nat
  BY <1>1, <1>3 DEF Monus
<1>6. spent[r] \in Nat /\ reserved[r] \in Nat /\ excess[r] \in Nat
  BY UseType DEF AccountInv
<1>7. Use(r) = spent[r] + reserved[r] /\ Use(r)' = spent'[r] + reserved'[r]
  BY DEF Use
<1>. HIDE DEF Settle
<1>. QED BY <1>1, <1>2, <1>3, <1>4, <1>5, <1>6, <1>7

LEMMA SettleKeepsBounds ==
    ASSUME IInv, NEW g \in Governor, NEW charge \in Amount,
           Settle(g, charge), UNCHANGED <<stretched, finishing>>
    PROVE  /\ FiniteHolds' /\ PoolAccounting'
           /\ NeverOverAdmitted' /\ WorkLeavesTheFinish'
<1>1. AccountInv /\ NeverOverAdmitted /\ WorkLeavesTheFinish
  BY DEF IInv
<1>2. FiniteHolds' /\ PoolAccounting'
  BY <1>1, SettleKeepsAccounts DEF FiniteHolds, PoolAccounting
<1>3. \A r \in Capped : r \in Resource
  BY CeilingAssumption
<1>4. \A r \in Capped : Ceiling[r] \in Nat /\ Share(Ceiling[r]) \in Nat
  BY <1>1, <1>3, UseType, ShareBelow DEF AccountInv
<1>5. NeverOverAdmitted'
  <2>. SUFFICES ASSUME NEW r \in Capped
                PROVE  Use(r)' <= Ceiling[r] + excess'[r]
    BY DEF NeverOverAdmitted
  <2>1. Use(r) <= Ceiling[r] + excess[r]
    BY <1>1 DEF NeverOverAdmitted
  <2>. QED BY <1>1, <1>3, <1>4, <2>1, SettleBounded
<1>6. WorkLeavesTheFinish'
  <2>. SUFFICES ASSUME finishing = {}, ~stretched, NEW r \in Capped
                PROVE  Use(r)' <= Share(Ceiling[r]) + excess'[r]
    BY DEF WorkLeavesTheFinish
  <2>1. Use(r) <= Share(Ceiling[r]) + excess[r]
    BY <1>1 DEF WorkLeavesTheFinish
  <2>. QED BY <1>1, <1>3, <1>4, <2>1, SettleBounded
<1>. QED BY <1>2, <1>5, <1>6

LEMMA TakeUse ==
    ASSUME TypeOK, NEW g \in Governor, Take(g), NEW r \in Resource
    PROVE  /\ Use(r)' = Use(r) + WorstCase(ask[g])[r]
           /\ WorstCase(ask[g])[r] \in Nat /\ excess'[r] = excess[r]
<1>1. WorstCase(ask[g])[r] \in Nat
  BY TakeType DEF Amount
<1>2. reserved'[r] = reserved[r] + WorstCase(ask[g])[r]
  BY DEF Take
<1>3. spent' = spent /\ excess' = excess
  BY DEF Take
<1>4. spent[r] \in Nat /\ reserved[r] \in Nat
  BY UseType
<1>5. Use(r) = spent[r] + reserved[r] /\ Use(r)' = spent'[r] + reserved'[r]
  BY DEF Use
<1>. HIDE DEF Take
<1>. QED BY <1>1, <1>2, <1>3, <1>4, <1>5

LEMMA TakeKeepsCeiling ==
    ASSUME IInv, NEW g \in Governor, Take(g), Fits(g, WorstCase(ask[g]))
    PROVE  NeverOverAdmitted'
<1>. SUFFICES ASSUME NEW r \in Capped
              PROVE  Use(r)' <= Ceiling[r] + excess'[r]
  BY DEF NeverOverAdmitted
<1>1. TypeOK /\ r \in Resource
  BY CeilingAssumption DEF IInv, AccountInv
<1>2. Use(r) + WorstCase(ask[g])[r] <= WorkingCeiling(g, r)
  BY DEF Fits
<1>3. WorkingCeiling(g, r) \in Nat /\ WorkingCeiling(g, r) <= Ceiling[r]
  BY <1>1, WorkingCeilingType
<1>4. Use(r) \in Nat /\ excess[r] \in Nat /\ Ceiling[r] \in Nat
  BY <1>1, UseType
<1>5. /\ Use(r)' = Use(r) + WorstCase(ask[g])[r]
      /\ WorstCase(ask[g])[r] \in Nat /\ excess'[r] = excess[r]
  BY <1>1, TakeUse
<1>. QED BY <1>2, <1>3, <1>4, <1>5
-----------------------------------------------------------------------------
(* The steps.                                                              *)

\* A step that leaves the pool and every reservation alone.
LEMMA QuietStep ==
    ASSUME IInv, TypeOK', NEW g \in Governor,
           UNCHANGED <<hold, pool, stretched>>,
           pc[g] \notin {"streaming", "handover"},
           \A h \in Governor \ {g} : pc'[h] = pc[h],
           pc'[g] = "wrapping" => g \in finishing',
           finishing \subseteq finishing'
    PROVE  IInv'
<1>1. WrapUpInv'
  BY DEF IInv, AccountInv, WrapUpInv
<1>2. HoldInv'
  BY DEF IInv, AccountInv, HoldInv
<1>3. UNCHANGED <<hold, reserved, spent, excess>>
  BY DEF pool
<1>4. FiniteHolds' /\ PoolAccounting'
  BY <1>3 DEF IInv, AccountInv, FiniteHolds, PoolAccounting, Held
<1>5. NeverOverAdmitted'
  BY <1>3 DEF IInv, NeverOverAdmitted, Use
<1>6. WorkLeavesTheFinish'
  BY <1>3 DEF IInv, WorkLeavesTheFinish, Use
<1>. QED BY <1>1, <1>2, <1>4, <1>5, <1>6 DEF IInv, AccountInv

\* A step that settles one reservation.
LEMMA SettleStep ==
    ASSUME IInv, NEW g \in Governor, NEW charge \in Amount, NEW label \in Label,
           Settle(g, charge), Goto(g, label),
           label \notin {"streaming", "handover", "wrapping"},
           UNCHANGED <<turns, finishing, ask, stretched, handed>>
    PROVE  IInv'
<1>1. TypeOK
  BY DEF IInv, AccountInv
<1>2. /\ pc' \in [Governor -> Label] /\ pc'[g] = label
      /\ \A h \in Governor \ {g} : pc'[h] = pc[h]
  BY <1>1, GotoType
<1>3. /\ hold' \in [Governor -> Amount] /\ hold' = [hold EXCEPT ![g] = Zero]
      /\ reserved' \in Amount /\ spent' \in Amount /\ excess' \in Amount
  BY <1>1, SettleType
<1>4. TypeOK'
  BY <1>1, <1>2, <1>3 DEF TypeOK
<1>5. WrapUpInv'
  BY <1>2 DEF IInv, AccountInv, WrapUpInv
<1>6. HoldInv'
  <2>. SUFFICES ASSUME NEW h \in Governor,
                       pc'[h] \notin {"streaming", "handover"}
                PROVE  hold'[h] = Zero
    BY DEF HoldInv
  <2>1. CASE h = g
    BY <1>1, <1>3, <2>1 DEF TypeOK
  <2>2. CASE h # g
    <3>1. pc'[h] = pc[h] /\ hold'[h] = hold[h]
      BY <1>1, <1>2, <1>3, <2>2 DEF TypeOK
    <3>. QED BY <3>1 DEF IInv, AccountInv, HoldInv
  <2>. QED BY <2>1, <2>2
<1>7. FiniteHolds' /\ PoolAccounting' /\ NeverOverAdmitted' /\ WorkLeavesTheFinish'
  BY SettleKeepsBounds
<1>. QED BY <1>4, <1>5, <1>6, <1>7 DEF IInv, AccountInv

\* A step that makes a reservation that fits.
LEMMA TakeStep ==
    ASSUME IInv, TypeOK', NEW g \in Governor, Take(g),
           Fits(g, WorstCase(ask[g])),
           pc[g] \notin {"streaming", "handover"},
           pc'[g] \in {"streaming", "handover"},
           \A h \in Governor \ {g} : pc'[h] = pc[h],
           UNCHANGED finishing, WorkLeavesTheFinish'
    PROVE  IInv'
<1>1. AccountInv /\ TypeOK /\ WrapUpInv /\ HoldInv
  BY DEF IInv, AccountInv
<1>2. hold[g] = Zero
  BY <1>1 DEF HoldInv
<1>3. FiniteHolds' /\ PoolAccounting'
  BY <1>1, <1>2, TakeKeepsAccounts
<1>4. NeverOverAdmitted'
  BY TakeKeepsCeiling
<1>5. WrapUpInv'
  BY <1>1 DEF WrapUpInv
<1>6. HoldInv'
  <2>. SUFFICES ASSUME NEW h \in Governor,
                       pc'[h] \notin {"streaming", "handover"}
                PROVE  hold'[h] = Zero
    BY DEF HoldInv
  <2>1. h # g /\ pc'[h] = pc[h]
    OBVIOUS
  <2>2. hold'[h] = hold[h]
    BY <1>1, <2>1 DEF Take, TypeOK
  <2>. QED BY <1>1, <2>1, <2>2 DEF HoldInv
<1>. QED BY <1>3, <1>4, <1>5, <1>6 DEF IInv, AccountInv

LEMMA BoundaryStep ==
    ASSUME IInv, NEW g \in Session, Boundary(g)
    PROVE  IInv'
<1>1. TypeOK /\ g \in Governor
  BY DEF IInv, AccountInv, Governor
<1>2. PICK label \in {"ended", "finish", "prepare"} : Goto(g, label)
  BY DEF Boundary
<1>3. /\ pc' \in [Governor -> Label] /\ pc'[g] = label
      /\ \A h \in Governor \ {g} : pc'[h] = pc[h]
  BY <1>1, <1>2, GotoType DEF Label
<1>4. turns' \in [Session -> Nat] /\ \A h \in Session : turns'[h] <= MaxTurns[h]
  <2>1. CASE UNCHANGED turns
    BY <1>1, <2>1 DEF TypeOK
  <2>2. CASE TurnsLeft(g) /\ turns' = [turns EXCEPT ![g] = @ + 1]
    <3>1. turns[g] \in Nat /\ MaxTurns[g] \in Nat /\ turns[g] < MaxTurns[g]
      BY <1>1, <2>2, TreeAssumption DEF TypeOK, TurnsLeft
    <3>2. turns[g] + 1 \in Nat /\ turns[g] + 1 <= MaxTurns[g]
      BY <3>1
    <3>3. turns' \in [Session -> Nat] /\ turns'[g] = turns[g] + 1
      BY <1>1, <2>2, <3>2 DEF TypeOK
    <3>4. \A h \in Session \ {g} : turns'[h] = turns[h]
      BY <1>1, <2>2 DEF TypeOK
    <3>. QED BY <1>1, <3>2, <3>3, <3>4 DEF TypeOK
  <2>. QED BY <2>1, <2>2 DEF Boundary
<1>5. UNCHANGED <<finishing, ask, hold, pool, stretched, handed>>
  BY DEF Boundary
<1>6. TypeOK'
  BY <1>1, <1>3, <1>4, <1>5 DEF TypeOK, pool
<1>7. pc[g] = "boundary"
  BY DEF Boundary
<1>. QED BY <1>1, <1>2, <1>3, <1>5, <1>6, <1>7, QuietStep

\* Sizing a request, by either of the two that do.
LEMMA SizeStep ==
    ASSUME IInv, NEW g \in Governor, NEW prompt \in Prompt, NEW n \in Nat,
           ask' = [ask EXCEPT ![g] = [prompt |-> prompt, output |-> n]],
           pc[g] \in {"prepare", "capped", "call", "finish"},
           UNCHANGED <<turns, hold, pool, stretched, handed>>,
           \/ (Goto(g, "capped") \/ Goto(g, "sized")) /\ UNCHANGED finishing
           \/ Goto(g, "wrapping") /\ finishing' = finishing \cup {g} /\ g \in Session
    PROVE  IInv'
<1>1. TypeOK
  BY DEF IInv, AccountInv
<1>2. ask' \in [Governor -> [prompt : Nat, output : Nat]]
  BY <1>1, AskType
<1>3. PICK label \in {"capped", "sized", "wrapping"} : Goto(g, label)
  OBVIOUS
<1>4. /\ pc' \in [Governor -> Label] /\ pc'[g] = label
      /\ \A h \in Governor \ {g} : pc'[h] = pc[h]
  BY <1>1, <1>3, GotoType DEF Label
<1>5. finishing' \subseteq Session /\ finishing \subseteq finishing'
  BY <1>1 DEF TypeOK
<1>6. TypeOK'
  BY <1>1, <1>2, <1>4, <1>5 DEF TypeOK, pool
<1>7. pc'[g] = "wrapping" => g \in finishing'
  <2>1. CASE Goto(g, "capped") \/ Goto(g, "sized")
    BY <1>1, <2>1 DEF Goto, TypeOK
  <2>2. CASE finishing' = finishing \cup {g}
    BY <2>2
  <2>. QED BY <2>1, <2>2
<1>. QED BY <1>4, <1>5, <1>6, <1>7, QuietStep

LEMMA OutputTypes ==
    ASSUME TypeOK, NEW g, NEW prompt \in Prompt
    PROVE  OutputFor(g, prompt) \in Nat /\ WrapUpCap(prompt + Slack) \in Nat
<1>1. /\ ModelOutput \in Nat /\ OneReply \in Nat /\ FinishCap \in Nat
      /\ prompt \in Nat /\ Slack \in Nat
  BY RequestAssumption
<1>2. "tokens" \in Resource /\ "cost" \in Resource
  BY DEF Resource
<1>3. /\ WorkingCeiling(g, "tokens") \in Nat /\ WorkingCeiling(g, "cost") \in Nat
      /\ Ceiling["tokens"] \in Nat /\ Ceiling["cost"] \in Nat
  BY <1>2, WorkingCeilingType, UseType
<1>4. Affordable(ModelOutput, WorkingCeiling(g, "tokens"),
                 WorkingCeiling(g, "cost"), prompt) \in Nat
  BY <1>1, <1>3, AffordableType
<1>5. prompt + Slack \in Nat
  BY <1>1
<1>6. Affordable(FinishCap, Ceiling["tokens"], Ceiling["cost"], prompt + Slack) \in Nat
  BY <1>1, <1>3, <1>5, AffordableType
<1>. QED BY <1>1, <1>4, <1>6 DEF OutputFor, WrapUpCap, Greater, Lesser

\* Refusals, and the endings that had nothing reserved.
LEMMA LeaveStep ==
    ASSUME IInv, NEW g \in Governor, NEW label \in {"finish", "ended"},
           Goto(g, label), pc[g] \in {"sized", "finish", "wrapping"},
           UNCHANGED <<turns, finishing, ask, hold, pool, stretched, handed>>
    PROVE  IInv'
<1>1. TypeOK
  BY DEF IInv, AccountInv
<1>2. /\ pc' \in [Governor -> Label] /\ pc'[g] = label
      /\ \A h \in Governor \ {g} : pc'[h] = pc[h]
  BY <1>1, GotoType DEF Label
<1>3. TypeOK'
  BY <1>1, <1>2 DEF TypeOK, pool
<1>. QED BY <1>2, <1>3, QuietStep

LEMMA ReserveStep ==
    ASSUME IInv, NEW g \in Governor, Reserve(g)
    PROVE  IInv'
<1>1. TypeOK /\ AccountInv /\ WorkLeavesTheFinish
  BY DEF IInv, AccountInv
<1>2. /\ pc[g] = "sized" /\ Take(g) /\ Goto(g, "streaming")
      /\ Fits(g, WorstCase(ask[g]))
      /\ UNCHANGED <<turns, finishing, ask, handed>>
      /\ stretched' = (stretched \/ \E r \in Capped :
                                      WorstCase(ask[g])[r] > Share(Ceiling[r]))
  BY DEF Reserve
<1>3. /\ pc' \in [Governor -> Label] /\ pc'[g] = "streaming"
      /\ \A h \in Governor \ {g} : pc'[h] = pc[h]
  BY <1>1, <1>2, GotoType DEF Label
<1>4. /\ hold' \in [Governor -> Amount] /\ reserved' \in Amount
      /\ spent' = spent /\ excess' = excess
  BY <1>1, <1>2, TakeType
<1>5. stretched' \in BOOLEAN
  BY <1>1, <1>2 DEF TypeOK
<1>6. TypeOK'
  BY <1>1, <1>2, <1>3, <1>4, <1>5 DEF TypeOK
<1>7. WorkLeavesTheFinish'
  <2>. SUFFICES ASSUME finishing' = {}, ~stretched', NEW r \in Capped
                PROVE  Use(r)' <= Share(Ceiling[r]) + excess'[r]
    BY DEF WorkLeavesTheFinish
  <2>1. r \in Resource
    BY CeilingAssumption
  <2>2. /\ Use(r)' = Use(r) + WorstCase(ask[g])[r]
        /\ WorstCase(ask[g])[r] \in Nat /\ excess'[r] = excess[r]
    BY <1>1, <1>2, <2>1, TakeUse
  <2>3. Use(r) \in Nat /\ Ceiling[r] \in Nat /\ excess[r] \in Nat
    BY <1>1, <2>1, UseType
  <2>4. Share(Ceiling[r]) \in Nat
    BY <2>3, ShareBelow
  <2>5. ~(WorstCase(ask[g])[r] > Share(Ceiling[r]))
    BY <1>2
  <2>6. CASE Fresh
    <3>1. Use(r) = 0
      BY <2>1, <2>6 DEF Fresh
    <3>. QED BY <2>2, <2>3, <2>4, <2>5, <3>1
  <2>7. CASE ~Fresh
    <3>1. WorkingCeiling(g, r) = Share(Ceiling[r])
      BY <1>2, <2>7 DEF WorkingCeiling
    <3>2. Use(r) + WorstCase(ask[g])[r] <= Share(Ceiling[r])
      BY <1>2, <3>1 DEF Fits
    <3>. QED BY <2>2, <2>3, <2>4, <3>2
  <2>. QED BY <2>6, <2>7
<1>. QED BY <1>2, <1>3, <1>6, <1>7, TakeStep

LEMMA ReserveWrapUpStep ==
    ASSUME IInv, NEW g \in Governor, ReserveWrapUp(g)
    PROVE  IInv'
<1>1. TypeOK /\ AccountInv /\ WrapUpInv
  BY DEF IInv, AccountInv
<1>2. pc[g] = "wrapping" /\ UNCHANGED <<turns, finishing, ask, stretched>>
  BY DEF ReserveWrapUp
<1>3. CASE /\ Fits(g, WorstCase(ask[g])) /\ Take(g) /\ Goto(g, "handover")
           /\ handed' = handed \cup {g}
  <2>1. /\ pc' \in [Governor -> Label] /\ pc'[g] = "handover"
        /\ \A h \in Governor \ {g} : pc'[h] = pc[h]
    BY <1>1, <1>3, GotoType DEF Label
  <2>2. /\ hold' \in [Governor -> Amount] /\ reserved' \in Amount
        /\ spent' = spent /\ excess' = excess
    BY <1>1, <1>3, TakeType
  <2>3. g \in finishing
    BY <1>1, <1>2 DEF WrapUpInv
  <2>4. TypeOK'
    BY <1>1, <1>2, <1>3, <2>1, <2>2, <2>3 DEF TypeOK
  <2>5. WorkLeavesTheFinish'
    BY <1>2, <2>3 DEF WorkLeavesTheFinish
  <2>. QED BY <1>2, <1>3, <2>1, <2>4, <2>5, TakeStep
<1>4. CASE Goto(g, "ended") /\ UNCHANGED <<hold, pool, handed>>
  BY <1>2, <1>4, LeaveStep
<1>. QED BY <1>3, <1>4 DEF ReserveWrapUp

LEMMA ReconcileStep ==
    ASSUME IInv, NEW g \in Governor, Reconcile(g)
    PROVE  IInv'
<1>1. TypeOK
  BY DEF IInv, AccountInv
<1>2. PICK charge \in ChargeFor(g) :
        /\ Settle(g, charge)
        /\ \E label \in {"finish", "sized", "prepare", "boundary", "ended"} :
              Goto(g, label)
  BY DEF Reconcile
<1>3. charge \in Amount
  BY <1>1, ChargeType
<1>4. UNCHANGED <<turns, finishing, ask, stretched, handed>>
  BY DEF Reconcile
<1>5. PICK label \in {"finish", "sized", "prepare", "boundary", "ended"} :
         Goto(g, label)
  BY <1>2
<1>6. label \in Label /\ label \notin {"streaming", "handover", "wrapping"}
  BY DEF Label
<1>. QED BY <1>2, <1>3, <1>4, <1>5, <1>6, SettleStep

LEMMA ReconcileWrapUpStep ==
    ASSUME IInv, NEW g \in Governor, ReconcileWrapUp(g)
    PROVE  IInv'
<1>1. TypeOK
  BY DEF IInv, AccountInv
<1>2. PICK charge \in ChargeFor(g) : Settle(g, charge)
  BY DEF ReconcileWrapUp
<1>3. charge \in Amount
  BY <1>1, ChargeType
<1>4. Goto(g, "ended") /\ UNCHANGED <<turns, finishing, ask, stretched, handed>>
  BY DEF ReconcileWrapUp
<1>. QED BY <1>2, <1>3, <1>4, SettleStep DEF Label

LEMMA AbandonStep ==
    ASSUME IInv, NEW g \in Governor, Abandon(g)
    PROVE  IInv'
<1>1. hold[g] \in Amount
  BY DEF IInv, AccountInv, TypeOK
<1>2. /\ Settle(g, hold[g]) /\ Goto(g, "ended")
      /\ UNCHANGED <<turns, finishing, ask, stretched, handed>>
  BY DEF Abandon
<1>. QED BY <1>1, <1>2, SettleStep DEF Label
-----------------------------------------------------------------------------

LEMMA NextInv == IInv /\ [Next]_vars => IInv'
<1>. SUFFICES ASSUME IInv, [Next]_vars
              PROVE  IInv'
  OBVIOUS
<1>1. TypeOK
  BY DEF IInv, AccountInv
<1>2. ASSUME NEW g \in Session, SessionStep(g)
      PROVE  IInv'
  <2>1. g \in Governor
    BY DEF Governor
  <2>2. CASE Boundary(g)
    BY <2>2, BoundaryStep
  <2>3. CASE CapRequest(g) \/ Size(g)
    <3>1. PICK prompt \in Prompt :
             ask' = [ask EXCEPT ![g] = [prompt |-> prompt,
                                        output |-> OutputFor(g, prompt)]]
      BY <2>3 DEF CapRequest, Size
    <3>2. OutputFor(g, prompt) \in Nat
      BY <1>1, OutputTypes
    <3>3. /\ pc[g] \in {"prepare", "capped"}
          /\ Goto(g, "capped") \/ Goto(g, "sized")
          /\ UNCHANGED <<turns, finishing, hold, pool, stretched, handed>>
      BY <2>3 DEF CapRequest, Size
    <3>. QED BY <2>1, <3>1, <3>2, <3>3, SizeStep
  <2>4. ASSUME NEW prompt \in Prompt, BeginWrapUp(g, prompt)
        PROVE  IInv'
    <3>1. PICK recount \in Prompt :
             ask' = [ask EXCEPT ![g] = [prompt |-> recount,
                                        output |-> WrapUpCap(prompt + Slack)]]
      BY <2>4 DEF BeginWrapUp
    <3>2. WrapUpCap(prompt + Slack) \in Nat
      BY <1>1, OutputTypes
    <3>3. /\ pc[g] = "finish" /\ Goto(g, "wrapping")
          /\ finishing' = finishing \cup {g}
          /\ UNCHANGED <<turns, hold, pool, stretched, handed>>
      BY <2>4 DEF BeginWrapUp
    <3>. QED BY <2>1, <3>1, <3>2, <3>3, SizeStep
  <2>5. ASSUME NEW prompt \in Prompt, NoWrapUp(g, prompt)
        PROVE  IInv'
    <3>1. /\ pc[g] = "finish" /\ Goto(g, "ended")
          /\ UNCHANGED <<turns, finishing, ask, hold, pool, stretched, handed>>
      BY <2>5 DEF NoWrapUp
    <3>. QED BY <2>1, <3>1, LeaveStep
  <2>6. CASE ReserveWrapUp(g)
    BY <2>1, <2>6, ReserveWrapUpStep
  <2>. QED BY <1>2, <2>2, <2>3, <2>4, <2>5, <2>6 DEF SessionStep
<1>3. ASSUME NEW g \in Auxiliary, SizeAuxiliary(g)
      PROVE  IInv'
  <2>1. PICK prompt \in Prompt :
           ask' = [ask EXCEPT ![g] = [prompt |-> prompt, output |-> AuxOutput]]
    BY <1>3 DEF SizeAuxiliary
  <2>2. AuxOutput \in Nat /\ g \in Governor
    BY RequestAssumption DEF Governor
  <2>3. /\ pc[g] = "call" /\ Goto(g, "sized")
        /\ UNCHANGED <<turns, finishing, hold, pool, stretched, handed>>
    BY <1>3 DEF SizeAuxiliary
  <2>. QED BY <2>1, <2>2, <2>3, SizeStep
<1>4. ASSUME NEW g \in Governor, RequestStep(g)
      PROVE  IInv'
  <2>1. CASE Reserve(g)
    BY <2>1, ReserveStep
  <2>2. CASE Refuse(g)
    <3>1. PICK label \in {"finish", "ended"} : Goto(g, label)
      BY <2>2 DEF Refuse
    <3>2. /\ pc[g] = "sized"
          /\ UNCHANGED <<turns, finishing, ask, hold, pool, stretched, handed>>
      BY <2>2 DEF Refuse
    <3>. QED BY <3>1, <3>2, LeaveStep
  <2>3. CASE Reconcile(g)
    BY <2>3, ReconcileStep
  <2>4. CASE ReconcileWrapUp(g)
    BY <2>4, ReconcileWrapUpStep
  <2>5. CASE Abandon(g)
    BY <2>5, AbandonStep
  <2>. QED BY <1>4, <2>1, <2>2, <2>3, <2>4, <2>5 DEF RequestStep, Answered
<1>5. CASE UNCHANGED vars
  <2>1. UNCHANGED <<pc, turns, finishing, ask, hold, reserved, spent, excess,
                    stretched, handed>>
    BY <1>5 DEF vars
  <2>2. TypeOK' /\ WrapUpInv' /\ HoldInv'
    BY <2>1 DEF IInv, AccountInv, TypeOK, WrapUpInv, HoldInv
  <2>3. FiniteHolds' /\ PoolAccounting'
    BY <2>1 DEF IInv, AccountInv, FiniteHolds, PoolAccounting, Held
  <2>4. NeverOverAdmitted' /\ WorkLeavesTheFinish'
    BY <2>1 DEF IInv, NeverOverAdmitted, WorkLeavesTheFinish, Use
  <2>. QED BY <2>2, <2>3, <2>4 DEF IInv, AccountInv
<1>. QED BY <1>2, <1>3, <1>4, <1>5 DEF Next

\* The invariant that carries the theorems below, for every tree and pool.
THEOREM InductiveInvariant == Spec => []IInv
  BY InitInv, NextInv, PTL DEF Spec

\* No session begins more turns than its own ceiling (Governor::check before
\* record_turn), whatever the pool holds.
THEOREM TypeCorrect == Spec => []TypeOK
<1>1. IInv => TypeOK
  BY DEF IInv, AccountInv
<1>. QED BY <1>1, InductiveInvariant, PTL

\* reserved_tokens and reserved_cost_usd are exactly what the live
\* reservations of the tree add up to (ModelReservation::settle, its Drop).
THEOREM ReservationsAddUp == Spec => []PoolAccounting
<1>1. IInv => PoolAccounting
  BY DEF IInv, AccountInv
<1>. QED BY <1>1, InductiveInvariant, PTL

\* Concurrent sessions cannot together be admitted past a ceiling: the pool's
\* use exceeds it only by charges above a reservation (reserve_model).
THEOREM CeilingHolds == Spec => []NeverOverAdmitted
<1>1. IInv => NeverOverAdmitted
  BY DEF IInv
<1>. QED BY <1>1, InductiveInvariant, PTL

\* Work leaves 5% of every ceiling to the finish, but for the first request
\* (Governor::working_share).
THEOREM FinishIsFunded == Spec => []WorkLeavesTheFinish
<1>1. IInv => WorkLeavesTheFinish
  BY DEF IInv
<1>. QED BY <1>1, InductiveInvariant, PTL

-----------------------------------------------------------------------------
(* ModelFailover.                                                           *)

USE FailoverAssumption

Position ==
    /\ ~switched => using = 0 /\ ~rested
    /\ switched => 0 < using /\ using <= next
    /\ \A m \in Model : using < m /\ m <= next => m \in Unusable

Blaming ==
    ~tainted =>
        /\ \A m \in Model : m < using => m \in blamed \cup Unusable
        /\ rested => capped

Knowing ==
    \A r \in Run \ stale :
        /\ place[r] \in Requesting /\ ~switched => model[r] = 0
        /\ place[r] = "unavailable" =>
              /\ model[r] \in blamed
              /\ cause[r] = "limited" /\ model[r] = 0 => capped

FailoverInv == FailoverTypeOK /\ Position /\ Blaming /\ Knowing

-----------------------------------------------------------------------------
(* Types.                                                                   *)

LEMMA FreshType == NoTries \in [retries : 0 .. MaxRetries, stalls : 0 .. MaxStalls,
                              limited : BOOLEAN]
BY DEF NoTries

\* What the end of a request leaves of it.
LEMMA LeaveTypes ==
    ASSUME FailoverTypeOK, NEW r \in Run, NEW to \in Where, Leave(r, to)
    PROVE  /\ place' \in [Run -> Where] /\ model' \in [Run -> Model]
           /\ cause' \in [Run -> Causes \cup {"none"}]
           /\ tries' \in [Run -> [retries : 0 .. MaxRetries,
                                  stalls : 0 .. MaxStalls, limited : BOOLEAN]]
BY FreshType DEF FailoverTypeOK, Leave, MoveTo, Model

LEMMA ReturnTypes ==
    ASSUME FailoverTypeOK, NEW r \in Run, Return(r)
    PROVE  /\ place' \in [Run -> Where] /\ model' \in [Run -> Model]
           /\ cause' \in [Run -> Causes \cup {"none"}]
           /\ tries' \in [Run -> [retries : 0 .. MaxRetries,
                                  stalls : 0 .. MaxStalls, limited : BOOLEAN]]
           /\ waits' \in [Run -> 0 .. MaxWaits]
<1>1. "idle" \in Where BY DEF Where
<1>2. Leave(r, "idle") BY DEF Return
<1>3. waits' \in [Run -> 0 .. MaxWaits] BY DEF FailoverTypeOK, Return
<1> QED BY <1>1, <1>2, <1>3, LeaveTypes

LEMMA KeyTypes ==
    ASSUME FailoverTypeOK, TurnToNextKey \/ UNCHANGED rotation
    PROVE  key' \in Key /\ resting' \subseteq Key
BY DEF FailoverTypeOK, TurnToNextKey, rotation, Ready

LEMMA StandInTypes ==
    ASSUME FailoverTypeOK, NEW r, NEW failed, NEW limit \in BOOLEAN,
           StandInFor(r, failed, limit)
    PROVE  /\ using' \in Model /\ next' \in Model
           /\ {switched', rested', tainted'} \subseteq BOOLEAN
           /\ stale' \subseteq Run
<1>1. CASE AlreadyLeft(failed)
  BY <1>1 DEF FailoverTypeOK, StandInFor, connection
<1>2. CASE ~AlreadyLeft(failed)
  <2>1. stale' = stale BY <1>2 DEF StandInFor
  <2>2. tainted' \in BOOLEAN BY <1>2, Zenon DEF StandInFor
  <2>3. CASE Untried = {}
    BY <1>2, <2>1, <2>2, <2>3 DEF StandInFor, FailoverTypeOK, Model
  <2>4. CASE Untried # {}
    <3>1. PICK m \in Untried :
              using' = m /\ next' = m /\ switched' = TRUE
              /\ rested' = (rested \/ (~switched /\ limit))
      BY <1>2, <2>4 DEF StandInFor
    <3>2. rested' \in BOOLEAN BY <3>1, Zenon
    <3>3. m \in Model BY DEF Untried
    <3> QED BY <2>1, <2>2, <3>1, <3>2, <3>3 DEF FailoverTypeOK
  <2> QED BY <2>3, <2>4
<1> QED BY <1>1, <1>2

LEMMA BlameTypes ==
    ASSUME FailoverTypeOK, NEW r \in Run, NEW m \in Model, NEW limit,
           Blame(r, m, limit)
    PROVE  blamed' \subseteq Model /\ capped' \in BOOLEAN
<1>1. blamed' \subseteq Model BY DEF FailoverTypeOK, Blame
<1>2. capped' \in BOOLEAN BY Zenon DEF Blame
<1> QED BY <1>1, <1>2

LEMMA StartTypes ==
    ASSUME FailoverTypeOK, NEW r \in Run, Start(r)
    PROVE  FailoverTypeOK'
<1>1. place' \in [Run -> Where] BY DEF FailoverTypeOK, Start, MoveTo, Where
<1>2. \A s \in Run : messages'[s] \in 0 .. Messages[s]
  BY DEF FailoverTypeOK, Start
<1>3. /\ lapses' = lapses /\ waits' = waits /\ model' = model
      /\ cause' = cause /\ tries' = tries
  BY DEF Start, session
<1>4. CASE r = Chat /\ ~(rested /\ switched)
  <2>1. /\ using' = 0 /\ switched' = FALSE /\ next' = 0 /\ rested' = FALSE
        /\ blamed' = {} /\ capped' = FALSE /\ tainted' = FALSE
        /\ stale' \subseteq Run /\ resting' = resting
    BY <1>4 DEF Start, ReturnToOwn
  <2>2. key' \in Key
    BY <1>4 DEF Start, ReturnToOwn, Ready, FailoverTypeOK
  <2>3. 0 \in Model BY DEF Model
  <2>4. {switched', rested', capped', tainted'} \subseteq BOOLEAN BY <2>1
  <2>5. blamed' \subseteq Model BY <2>1
  <2>6. lapses' \in 0 .. MaxLapses /\ resting' \subseteq Key
        /\ model' \in [Run -> Model]
        /\ cause' \in [Run -> Causes \cup {"none"}]
        /\ tries' \in [Run -> [retries : 0 .. MaxRetries, stalls : 0 .. MaxStalls,
                               limited : BOOLEAN]]
        /\ waits' \in [Run -> 0 .. MaxWaits]
    BY <1>3, <2>1 DEF FailoverTypeOK
  <2> QED BY <1>1, <1>2, <2>1, <2>2, <2>3, <2>4, <2>5, <2>6 DEF FailoverTypeOK
<1>5. CASE ~(r = Chat /\ ~(rested /\ switched))
  <2>1. UNCHANGED <<connection, rotation, history>>
    BY <1>5 DEF Start, ReturnToOwn
  <2> QED BY <1>1, <1>2, <1>3, <2>1
          DEF FailoverTypeOK, connection, rotation, history
<1> QED BY <1>4, <1>5

LEMMA TriesTypes ==
    ASSUME FailoverTypeOK, NEW r \in Run, NEW k \in Kind,
           SwapKey(r, k) \/ Retry(r, k)
    PROVE  tries' \in [Run -> [retries : 0 .. MaxRetries,
                               stalls : 0 .. MaxStalls, limited : BOOLEAN]]
<1> DEFINE T == [retries : 0 .. MaxRetries, stalls : 0 .. MaxStalls,
                 limited : BOOLEAN]
<1>1. tries \in [Run -> T] BY DEF FailoverTypeOK
<1>2. CASE SwapKey(r, k) BY <1>1, <1>2 DEF SwapKey
<1>3. CASE Retry(r, k)
  <2>1. tries[r].retries + 1 \in 0 .. MaxRetries
    BY <1>1, <1>3 DEF Retry, MayRetry, Smaller, Patience, HandOverAfter, Most
  <2>2. k = "silent" => tries[r].stalls + 1 \in 0 .. MaxStalls
    BY <1>1, <1>3 DEF Retry, MayRetry
  <2>3. (tries[r].limited \/ OnceMore(r, k)) \in BOOLEAN BY Zenon
  <2> DEFINE V == [retries |-> tries[r].retries + 1,
                   stalls |-> IF k = "silent" THEN tries[r].stalls + 1
                                              ELSE tries[r].stalls,
                   limited |-> (tries[r].limited \/ OnceMore(r, k))]
  <2>4. V \in T BY <1>1, <2>1, <2>2, <2>3
  <2>5. tries' = [tries EXCEPT ![r] = V] BY <1>3, Zenon DEF Retry
  <2>6. tries' \in [Run -> T]
    <3> HIDE DEF T, V
    <3> QED BY <1>1, <2>4, <2>5
  <2> QED BY <2>6
<1> QED BY <1>2, <1>3

LEMMA EndTypes ==
    ASSUME FailoverTypeOK, NEW r \in Run,
           Prepare(r) \/ WaitOver(r) \/ AnswerArrives(r) \/ Stop(r)
    PROVE  FailoverTypeOK'
<1>1. CASE Prepare(r)
  BY <1>1 DEF FailoverTypeOK, Prepare, MoveTo, Where, Requesting, connection,
              rotation
<1>2. CASE WaitOver(r)
  BY <1>2 DEF FailoverTypeOK, WaitOver, MoveTo, Where, connection, rotation,
              session,
              history
<1>3. CASE AnswerArrives(r) \/ Stop(r)
  <2>1. Return(r) /\ UNCHANGED <<connection, rotation, lapses, messages, history>>
    BY <1>3 DEF AnswerArrives, Stop
  <2>2. /\ place' \in [Run -> Where] /\ model' \in [Run -> Model]
        /\ cause' \in [Run -> Causes \cup {"none"}]
        /\ tries' \in [Run -> [retries : 0 .. MaxRetries,
                               stalls : 0 .. MaxStalls, limited : BOOLEAN]]
        /\ waits' \in [Run -> 0 .. MaxWaits]
    BY <2>1, ReturnTypes
  <2> QED BY <2>1, <2>2 DEF FailoverTypeOK, connection, rotation, history
<1> QED BY <1>1, <1>2, <1>3

LEMMA KeyStepTypes ==
    ASSUME FailoverTypeOK, NEW r \in Run, NEW k \in Kind,
           SwapKey(r, k) \/ Retry(r, k)
    PROVE  FailoverTypeOK'
<1>1. key' \in Key /\ resting' \subseteq Key
  BY KeyTypes DEF SwapKey, Retry, KeepKey
<1>2. tries' \in [Run -> [retries : 0 .. MaxRetries, stalls : 0 .. MaxStalls,
                          limited : BOOLEAN]]
  BY TriesTypes
<1>3. UNCHANGED <<connection, lapses, place, model, cause, waits, messages, history>>
  BY DEF SwapKey, Retry
<1> QED BY <1>1, <1>2, <1>3 DEF FailoverTypeOK, connection, history

LEMMA GiveUpTypes ==
    ASSUME FailoverTypeOK, NEW r \in Run, NEW k \in Kind, GiveUp(r, k)
    PROVE  FailoverTypeOK'
<1>1. key' \in Key /\ resting' \subseteq Key
  BY KeyTypes DEF GiveUp, KeepKey
<1>2. UNCHANGED <<connection, lapses, messages, stale, tainted>>
  BY DEF GiveUp
<1>3. CASE k \in NoStandIn
  <2>1. Return(r) /\ UNCHANGED <<blamed, capped>> BY <1>3 DEF GiveUp
  <2>2. /\ place' \in [Run -> Where] /\ model' \in [Run -> Model]
        /\ cause' \in [Run -> Causes \cup {"none"}]
        /\ tries' \in [Run -> [retries : 0 .. MaxRetries,
                               stalls : 0 .. MaxStalls, limited : BOOLEAN]]
        /\ waits' \in [Run -> 0 .. MaxWaits]
    BY <2>1, ReturnTypes
  <2> QED BY <1>1, <1>2, <2>1, <2>2 DEF FailoverTypeOK, connection
<1>4. CASE k \notin NoStandIn
  <2>1. /\ MoveTo(r, "unavailable") /\ cause' = [cause EXCEPT ![r] = Cause(k)]
        /\ tries' = [tries EXCEPT ![r] = NoTries]
        /\ Blame(r, model[r], k \in Limits) /\ UNCHANGED <<model, waits>>
    BY <1>4 DEF GiveUp
  <2>2. model[r] \in Model BY DEF FailoverTypeOK
  <2>3. blamed' \subseteq Model /\ capped' \in BOOLEAN
    BY <2>1, <2>2, BlameTypes
  <2>4. place' \in [Run -> Where]
    BY <2>1 DEF FailoverTypeOK, MoveTo, Where, Requesting
  <2>5. cause' \in [Run -> Causes \cup {"none"}]
    BY <2>1 DEF FailoverTypeOK, Cause, Causes
  <2>6. tries' \in [Run -> [retries : 0 .. MaxRetries, stalls : 0 .. MaxStalls,
                            limited : BOOLEAN]]
    BY <2>1, FreshType DEF FailoverTypeOK
  <2> QED BY <1>1, <1>2, <2>1, <2>3, <2>4, <2>5, <2>6
          DEF FailoverTypeOK, connection
<1> QED BY <1>3, <1>4

LEMMA HandOverTypes ==
    ASSUME FailoverTypeOK, NEW r \in Run, HandOver(r)
    PROVE  FailoverTypeOK'
<1>1. /\ using' \in Model /\ next' \in Model
      /\ {switched', rested', tainted'} \subseteq BOOLEAN /\ stale' \subseteq Run
  BY StandInTypes DEF HandOver
<1>2. UNCHANGED <<rotation, lapses, messages, blamed, capped>> BY DEF HandOver
<1>3. PICK to \in Where : Leave(r, to)
  BY DEF HandOver, Await, Return, Where
<1>4. /\ place' \in [Run -> Where] /\ model' \in [Run -> Model]
      /\ cause' \in [Run -> Causes \cup {"none"}]
      /\ tries' \in [Run -> [retries : 0 .. MaxRetries,
                             stalls : 0 .. MaxStalls, limited : BOOLEAN]]
  BY <1>3, LeaveTypes
<1>5. waits' \in [Run -> 0 .. MaxWaits]
  <2>1. waits \in [Run -> 0 .. MaxWaits] BY DEF FailoverTypeOK
  <2>2. \/ waits' = waits \/ waits' = [waits EXCEPT ![r] = 0]
        \/ waits[r] < MaxWaits /\ waits' = [waits EXCEPT ![r] = @ + 1]
    BY DEF HandOver, Await, Return
  <2> QED BY <2>1, <2>2
<1> QED BY <1>1, <1>2, <1>4, <1>5 DEF FailoverTypeOK, rotation

LEMMA KeptEmptyTypes ==
    ASSUME FailoverTypeOK, NEW r \in Run, KeptEmpty(r)
    PROVE  FailoverTypeOK'
<1>1. /\ using' \in Model /\ next' \in Model
      /\ {switched', rested', tainted'} \subseteq BOOLEAN /\ stale' \subseteq Run
  BY StandInTypes DEF KeptEmpty
<1>2. UNCHANGED <<rotation, lapses, messages>> BY DEF KeptEmpty
<1>3. blamed' \subseteq Model /\ capped' \in BOOLEAN
  BY BlameTypes DEF KeptEmpty, FailoverTypeOK
<1>4. PICK to \in Where : Leave(r, to)
  BY DEF KeptEmpty, Return, Where
<1>5. /\ place' \in [Run -> Where] /\ model' \in [Run -> Model]
      /\ cause' \in [Run -> Causes \cup {"none"}]
      /\ tries' \in [Run -> [retries : 0 .. MaxRetries,
                             stalls : 0 .. MaxStalls, limited : BOOLEAN]]
  BY <1>4, LeaveTypes
<1>6. waits' = waits \/ waits' = [waits EXCEPT ![r] = 0]
  BY DEF KeptEmpty, Return
<1>7. waits' \in [Run -> 0 .. MaxWaits] BY <1>6 DEF FailoverTypeOK
<1> QED BY <1>1, <1>2, <1>3, <1>5, <1>7 DEF FailoverTypeOK, rotation

LEMMA LapseTypes ==
    ASSUME FailoverTypeOK, (\E k \in Key : KeyLapses(k)) \/ OwnLapses
    PROVE  FailoverTypeOK'
<1>1. CASE \E k \in Key : KeyLapses(k)
  BY <1>1 DEF FailoverTypeOK, KeyLapses, connection, session, history
<1>2. CASE OwnLapses
  BY <1>2 DEF FailoverTypeOK, OwnLapses, rotation, session, history
<1> QED BY <1>1, <1>2

LEMMA TypesKept == ASSUME FailoverTypeOK, [FailoverNext]_failoverVars PROVE FailoverTypeOK'
<1>1. CASE \E r \in Run : Start(r) BY <1>1, StartTypes
<1>2. CASE \E r \in Run : Prepare(r) \/ WaitOver(r) \/ AnswerArrives(r) \/ Stop(r)
  BY <1>2, EndTypes
<1>3. CASE \E r \in Run, k \in Kind : SwapKey(r, k) \/ Retry(r, k)
  BY <1>3, KeyStepTypes
<1>4. CASE \E r \in Run, k \in Kind : GiveUp(r, k) BY <1>4, GiveUpTypes
<1>5. CASE \E r \in Run : HandOver(r) BY <1>5, HandOverTypes
<1>6. CASE \E r \in Run : KeptEmpty(r) BY <1>6, KeptEmptyTypes
<1>7. CASE (\E k \in Key : KeyLapses(k)) \/ OwnLapses BY <1>7, LapseTypes
<1>8. CASE UNCHANGED failoverVars
  BY <1>8 DEF FailoverTypeOK, failoverVars, connection, rotation, session,
              history
<1> QED BY <1>1, <1>2, <1>3, <1>4, <1>5, <1>6, <1>7, <1>8
        DEF FailoverNext, Progress, Failure

-----------------------------------------------------------------------------
(* A move to a stand-in.                                                    *)

\* It is to the first that is left, so what it skips cannot be switched to.
LEMMA StandInMove ==
    ASSUME FailoverTypeOK, NEW r, NEW failed, NEW limit,
           StandInFor(r, failed, limit), ~AlreadyLeft(failed), Untried # {}
    PROVE  /\ using' = next' /\ switched' = TRUE /\ using' \in Model
           /\ next < using'
           /\ \A m \in Model : next < m /\ m < using' => m \in Unusable
<1>1. PICK n \in Untried :
          First(n, Untried) /\ using' = n /\ next' = n /\ switched' = TRUE
  BY DEF StandInFor
<1>2. n \in Model /\ next < n BY DEF Untried
<1>3. ASSUME NEW m \in Model, next < m, m < n PROVE m \in Unusable
  <2>1. m \notin Untried BY <1>1, <1>2, <1>3 DEF First, Model
  <2> QED BY <1>3, <2>1 DEF Untried
<1> QED BY <1>1, <1>2, <1>3

\* When none is left, they are all passed.
LEMMA StandInNone ==
    ASSUME FailoverTypeOK, NEW r, NEW failed, NEW limit,
           StandInFor(r, failed, limit), ~AlreadyLeft(failed), Untried = {}
    PROVE  /\ UNCHANGED <<using, switched, rested>> /\ next' = Listed
           /\ \A m \in Model : next < m => m \in Unusable
<1>1. UNCHANGED <<using, switched, rested>> /\ next' = Listed
  BY DEF StandInFor
<1>2. \A m \in Model : next < m => m \in Unusable BY DEF Untried
<1> QED BY <1>1, <1>2

LEMMA StandInPosition ==
    ASSUME FailoverTypeOK, Position, NEW r, NEW failed, NEW limit,
           StandInFor(r, failed, limit)
    PROVE  Position' /\ (~switched' => ~switched)
<1>1. CASE AlreadyLeft(failed)
  BY <1>1 DEF StandInFor, connection, Position
<1>2. CASE ~AlreadyLeft(failed) /\ Untried # {}
  <2>1. /\ using' = next' /\ switched' = TRUE /\ using' \in Model /\ next < using'
    BY <1>2, StandInMove
  <2>2. next \in Nat /\ using' \in Nat BY <2>1 DEF FailoverTypeOK, Model
  <2> QED BY <2>1, <2>2 DEF Position, Model
<1>3. CASE ~AlreadyLeft(failed) /\ Untried = {}
  <2>1. /\ UNCHANGED <<using, switched, rested>> /\ next' = Listed
        /\ \A m \in Model : next < m => m \in Unusable
    BY <1>3, StandInNone
  <2>2. using \in Nat /\ next \in Nat /\ next <= Listed
    BY DEF FailoverTypeOK, Model
  <2>3. \A m \in Model : using < m => m \in Unusable
    BY <2>1, <2>2 DEF Position, Model
  <2> QED BY <2>1, <2>2, <2>3 DEF Position
<1> QED BY <1>1, <1>2, <1>3

\* The model that is left was blamed, if the request that leaves it is none
\* of those that are older than the own model's return.
LEMMA StandInBlaming ==
    ASSUME FailoverTypeOK, Position, Blaming, NEW r, NEW failed, NEW limit,
           StandInFor(r, failed, limit),
           r \notin stale /\ ~AlreadyLeft(failed) => using \in blamed',
           r \notin stale /\ ~AlreadyLeft(failed) /\ ~switched /\ limit => capped',
           blamed \subseteq blamed', capped => capped'
    PROVE  Blaming'
<1>1. CASE AlreadyLeft(failed)
  <2>1. UNCHANGED <<using, rested, tainted>> BY <1>1 DEF StandInFor, connection
  <2> QED BY <2>1 DEF Blaming
<1>2. CASE ~AlreadyLeft(failed)
  <2>1. tainted' = (tainted \/ r \in stale) BY <1>2 DEF StandInFor
  <2>2. SUFFICES ASSUME ~tainted'
                 PROVE  /\ \A m \in Model : m < using' => m \in blamed' \cup Unusable
                        /\ rested' => capped'
    BY DEF Blaming
  <2>3. ~tainted /\ r \notin stale BY <2>1, <2>2, Zenon
  <2>4. \A m \in Model : m < using => m \in blamed' \cup Unusable
    BY <2>3 DEF Blaming
  <2>5. rested => capped' BY <2>3 DEF Blaming
  <2>6. CASE Untried = {}
    <3>1. UNCHANGED <<using, switched, rested>> BY <1>2, <2>6, StandInNone
    <3> QED BY <2>4, <2>5, <3>1
  <2>7. CASE Untried # {}
    <3>1. /\ using' \in Model
          /\ \A m \in Model : next < m /\ m < using' => m \in Unusable
      BY <1>2, <2>7, StandInMove
    <3>5. rested' => rested \/ (~switched /\ limit)
      <4>1. PICK n \in Untried : rested' = (rested \/ (~switched /\ limit))
        BY <1>2, <2>7 DEF StandInFor
      <4> QED BY <4>1, Zenon
    <3>2. using \in blamed' BY <1>2, <2>3
    <3>3. rested' => capped' BY <1>2, <2>3, <2>5, <3>5
    <3>4. ASSUME NEW m \in Model, m < using' PROVE m \in blamed' \cup Unusable
      <4>1. CASE m < using BY <2>4, <4>1
      <4>2. CASE m = using BY <3>2, <4>2
      <4>3. CASE using < m /\ m <= next BY <4>3 DEF Position
      <4>4. CASE next < m BY <3>1, <3>4, <4>4
      <4>5. m \in Nat /\ using \in Nat /\ next \in Nat
        BY DEF FailoverTypeOK, Model
      <4> QED BY <4>1, <4>2, <4>3, <4>4, <4>5
    <3> QED BY <3>3, <3>4
  <2> QED BY <2>6, <2>7
<1> QED BY <1>1, <1>2

\* A failure is noted against a model, and nothing is forgotten.
LEMMA BlameGrows ==
    ASSUME NEW r, NEW m, NEW limit, Blame(r, m, limit)
    PROVE  /\ blamed \subseteq blamed' /\ (capped => capped')
           /\ r \notin stale => m \in blamed'
           /\ r \notin stale /\ m = 0 /\ limit => capped'
<1>1. blamed \subseteq blamed' /\ (r \notin stale => m \in blamed')
  BY DEF Blame
<1>2. (capped => capped') /\ (r \notin stale /\ m = 0 /\ limit => capped')
  BY Zenon DEF Blame
<1> QED BY <1>1, <1>2

-----------------------------------------------------------------------------
(* The invariant is kept.                                                   *)

\* Nothing Position and Blaming speak of changes.
Untouched == UNCHANGED <<connection, blamed, capped, stale, tainted>>

LEMMA UntouchedKept ==
    ASSUME Position, Blaming, Untouched
    PROVE  Position' /\ Blaming'
BY DEF Position, Blaming, Untouched, connection

LEMMA StartKept ==
    ASSUME FailoverInv, NEW r \in Run, Start(r)
    PROVE  Position' /\ Blaming' /\ Knowing'
<1>1. place' = [place EXCEPT ![r] = "preparing"] /\ model' = model /\ cause' = cause
  BY DEF Start, MoveTo, session
<1>2. CASE r = Chat /\ ~(rested /\ switched)
  <2>1. /\ using' = 0 /\ switched' = FALSE /\ next' = 0 /\ rested' = FALSE
        /\ stale' = {s \in Run \ {r} : place[s] \in Requesting}
    BY <1>2 DEF Start, ReturnToOwn
  <2>2. Position' BY <2>1 DEF Position, Model
  <2>3. Blaming' BY <2>1 DEF Blaming, Model
  <2>4. \A s \in Run \ stale' : place'[s] \notin Requesting
    BY <1>1, <2>1 DEF FailoverInv, FailoverTypeOK, Requesting
  <2>5. Knowing' BY <2>4 DEF Knowing, Requesting
  <2> QED BY <2>2, <2>3, <2>5
<1>3. CASE ~(r = Chat /\ ~(rested /\ switched))
  <2>1. UNCHANGED <<connection, history>> BY <1>3 DEF Start, ReturnToOwn
  <2>2. Untouched BY <2>1 DEF Untouched, history
  <2>3. Knowing'
    BY <1>1, <2>1 DEF FailoverInv, FailoverTypeOK, Knowing, Requesting,
                      connection, history
  <2> QED BY <2>2, <2>3, UntouchedKept DEF FailoverInv
<1> QED BY <1>2, <1>3

LEMMA PrepareKept ==
    ASSUME FailoverInv, NEW r \in Run, Prepare(r)
    PROVE  Position' /\ Blaming' /\ Knowing'
<1>1. /\ place' = [place EXCEPT ![r] = "asking"] /\ model' = [model EXCEPT ![r] = using]
      /\ stale' = stale \ {r}
      /\ UNCHANGED <<connection, cause, blamed, capped, tainted>>
  BY DEF Prepare, MoveTo
<1>2. Position' BY <1>1 DEF FailoverInv, Position, connection
<1>3. Blaming' BY <1>1 DEF FailoverInv, Blaming, connection
<1>4. Knowing'
  BY <1>1 DEF FailoverInv, FailoverTypeOK, Position, Knowing, Requesting,
              connection
<1> QED BY <1>2, <1>3, <1>4

\* A request that ends has nobody left to blame.
LEMMA LeftKept ==
    ASSUME FailoverTypeOK, Knowing, NEW r \in Run,
           NEW to \in Where \ Requesting,
           Leave(r, to), ~switched' => ~switched, stale' = stale,
           blamed \subseteq blamed', capped => capped'
    PROVE  Knowing'
<1>1. /\ place' = [place EXCEPT ![r] = to] /\ model' = [model EXCEPT ![r] = 0]
      /\ cause' = [cause EXCEPT ![r] = "none"]
  BY DEF Leave, MoveTo
<1> QED BY <1>1 DEF FailoverTypeOK, Knowing, Requesting

LEMMA EndKept ==
    ASSUME FailoverInv, NEW r \in Run,
           WaitOver(r) \/ AnswerArrives(r) \/ Stop(r)
    PROVE  Position' /\ Blaming' /\ Knowing'
<1>1. Untouched BY DEF WaitOver, AnswerArrives, Stop, history, Untouched
<1>2. UNCHANGED <<switched, stale, blamed, capped>>
  BY <1>1 DEF Untouched, connection
<1>3. CASE WaitOver(r)
  <2>1. place' = [place EXCEPT ![r] = "preparing"] /\ UNCHANGED <<model, cause>>
    BY <1>3 DEF WaitOver, MoveTo, session
  <2>2. Knowing'
    BY <1>2, <2>1 DEF FailoverInv, FailoverTypeOK, Knowing, Requesting
  <2> QED BY <1>1, <2>2, UntouchedKept DEF FailoverInv
<1>4. CASE AnswerArrives(r) \/ Stop(r)
  <2>1. Leave(r, "idle") BY <1>4 DEF AnswerArrives, Stop, Return
  <2>2. "idle" \in Where \ Requesting BY DEF Where, Requesting
  <2>3. Knowing' BY <1>2, <2>1, <2>2, LeftKept DEF FailoverInv
  <2> QED BY <1>1, <2>3, UntouchedKept DEF FailoverInv
<1> QED BY <1>3, <1>4

LEMMA KeyStepKept ==
    ASSUME FailoverInv, NEW r \in Run, NEW k \in Kind,
           SwapKey(r, k) \/ Retry(r, k)
    PROVE  Position' /\ Blaming' /\ Knowing'
<1>1. UNCHANGED <<connection, place, model, cause, history>>
  BY DEF SwapKey, Retry
<1>2. Untouched BY <1>1 DEF Untouched, history
<1>3. Knowing' BY <1>1 DEF FailoverInv, Knowing, connection, history
<1> QED BY <1>2, <1>3, UntouchedKept DEF FailoverInv

LEMMA GiveUpKept ==
    ASSUME FailoverInv, NEW r \in Run, NEW k \in Kind, GiveUp(r, k)
    PROVE  Position' /\ Blaming' /\ Knowing'
<1>1. UNCHANGED <<connection, stale, tainted>> BY DEF GiveUp
<1>2. blamed \subseteq blamed' /\ (capped => capped')
  BY BlameGrows DEF GiveUp
<1>3. Position' BY <1>1 DEF FailoverInv, Position, connection
<1>4. Blaming' BY <1>1, <1>2 DEF FailoverInv, Blaming, connection
<1>5. CASE k \in NoStandIn
  <2>1. Leave(r, "idle") BY <1>5 DEF GiveUp, Return
  <2>2. "idle" \in Where \ Requesting BY DEF Where, Requesting
  <2>3. Knowing' BY <1>1, <1>2, <2>1, <2>2, LeftKept DEF FailoverInv, connection
  <2> QED BY <1>3, <1>4, <2>3
<1>6. CASE k \notin NoStandIn
  <2>1. /\ place' = [place EXCEPT ![r] = "unavailable"]
        /\ cause' = [cause EXCEPT ![r] = Cause(k)] /\ model' = model
        /\ Blame(r, model[r], k \in Limits) /\ place[r] = "asking"
    BY <1>6 DEF GiveUp, MoveTo, KeepKey
  <2>2. r \notin stale => model[r] \in blamed' BY <2>1, BlameGrows
  <2>3. r \notin stale /\ model[r] = 0 /\ k \in Limits => capped'
    BY <2>1, BlameGrows
  <2>4. Cause(k) = "limited" => k \in Limits BY DEF Cause
  <2>5. Knowing'
    <3> SUFFICES ASSUME NEW s \in Run \ stale
                 PROVE  /\ place'[s] \in Requesting /\ ~switched => model[s] = 0
                        /\ place'[s] = "unavailable" =>
                              /\ model[s] \in blamed'
                              /\ cause'[s] = "limited" /\ model[s] = 0 => capped'
      BY <1>1, <2>1 DEF Knowing, connection
    <3>1. CASE s = r
      BY <2>1, <2>2, <2>3, <2>4, <3>1
      DEF FailoverInv, FailoverTypeOK, Knowing, Requesting
    <3>2. CASE s # r
      BY <1>2, <2>1, <3>2 DEF FailoverInv, FailoverTypeOK, Knowing
    <3> QED BY <3>1, <3>2
  <2> QED BY <1>3, <1>4, <2>5
<1> QED BY <1>5, <1>6

LEMMA HandOverKept ==
    ASSUME FailoverInv, NEW r \in Run, HandOver(r)
    PROVE  Position' /\ Blaming' /\ Knowing'
<1>1. /\ place[r] = "unavailable" /\ UNCHANGED <<blamed, capped>>
      /\ StandInFor(r, model[r], cause[r] = "limited")
  BY DEF HandOver
<1>2. stale' = stale BY <1>1 DEF StandInFor
<1>3. Position' /\ (~switched' => ~switched)
  BY <1>1, StandInPosition DEF FailoverInv
<1>4. ASSUME r \notin stale, ~AlreadyLeft(model[r])
      PROVE  using \in blamed /\ (~switched /\ cause[r] = "limited" => capped)
  <2>1. model[r] \in blamed
    BY <1>1, <1>4 DEF FailoverInv, Knowing
  <2>2. ~switched => model[r] = 0 /\ using = 0
    BY <1>1, <1>4 DEF FailoverInv, Knowing, Position, Requesting
  <2>3. model[r] = using BY <1>4, <2>2 DEF AlreadyLeft
  <2>4. ~switched /\ cause[r] = "limited" => capped
    BY <1>1, <1>4, <2>2 DEF FailoverInv, Knowing
  <2> QED BY <2>1, <2>3, <2>4
<1>5. Blaming' BY <1>1, <1>4, StandInBlaming DEF FailoverInv
<1>6. PICK to \in Where \ Requesting : Leave(r, to)
  BY DEF HandOver, Await, Return, Where, Requesting
<1>7. Knowing' BY <1>1, <1>2, <1>3, <1>6, LeftKept DEF FailoverInv
<1> QED BY <1>3, <1>5, <1>7

LEMMA KeptEmptyKept ==
    ASSUME FailoverInv, NEW r \in Run, KeptEmpty(r)
    PROVE  Position' /\ Blaming' /\ Knowing'
<1>1. Blame(r, using, FALSE) /\ StandInFor(r, using, FALSE) BY DEF KeptEmpty
<1>2. stale' = stale BY <1>1 DEF StandInFor
<1>3. Position' /\ (~switched' => ~switched)
  BY <1>1, StandInPosition DEF FailoverInv
<1>4. /\ blamed \subseteq blamed' /\ (capped => capped')
      /\ r \notin stale => using \in blamed'
  BY <1>1, BlameGrows
<1>5. Blaming' BY <1>1, <1>4, StandInBlaming DEF FailoverInv
<1>6. PICK to \in Where \ Requesting : Leave(r, to)
  BY DEF KeptEmpty, Return, Where, Requesting
<1>7. Knowing' BY <1>2, <1>3, <1>4, <1>6, LeftKept DEF FailoverInv
<1> QED BY <1>3, <1>5, <1>7

LEMMA LapseKept ==
    ASSUME FailoverInv, (\E k \in Key : KeyLapses(k)) \/ OwnLapses
    PROVE  Position' /\ Blaming' /\ Knowing'
<1>1. CASE \E k \in Key : KeyLapses(k)
  <2>1. UNCHANGED <<connection, place, session, history>>
    BY <1>1 DEF KeyLapses
  <2>2. Untouched BY <2>1 DEF Untouched, history
  <2>3. Knowing' BY <2>1 DEF FailoverInv, Knowing, connection, session, history
  <2> QED BY <2>2, <2>3, UntouchedKept DEF FailoverInv
<1>2. CASE OwnLapses
  <2>1. /\ rested' = FALSE /\ UNCHANGED <<using, switched, next, place, session>>
        /\ UNCHANGED <<blamed, capped, stale, tainted>>
    BY <1>2 DEF OwnLapses, history
  <2>2. Position' BY <2>1 DEF FailoverInv, Position
  <2>3. Blaming' BY <2>1 DEF FailoverInv, Blaming
  <2>4. Knowing' BY <2>1 DEF FailoverInv, Knowing, session
  <2> QED BY <2>2, <2>3, <2>4
<1> QED BY <1>1, <1>2

LEMMA StepKept ==
    ASSUME FailoverInv,
           [FailoverNext]_failoverVars PROVE Position' /\ Blaming' /\ Knowing'
<1>1. CASE \E r \in Run : Start(r) BY <1>1, StartKept
<1>2. CASE \E r \in Run : Prepare(r) BY <1>2, PrepareKept
<1>3. CASE \E r \in Run : WaitOver(r) \/ AnswerArrives(r) \/ Stop(r)
  BY <1>3, EndKept
<1>4. CASE \E r \in Run, k \in Kind : SwapKey(r, k) \/ Retry(r, k)
  BY <1>4, KeyStepKept
<1>5. CASE \E r \in Run, k \in Kind : GiveUp(r, k) BY <1>5, GiveUpKept
<1>6. CASE \E r \in Run : HandOver(r) BY <1>6, HandOverKept
<1>7. CASE \E r \in Run : KeptEmpty(r) BY <1>7, KeptEmptyKept
<1>8. CASE (\E k \in Key : KeyLapses(k)) \/ OwnLapses BY <1>8, LapseKept
<1>9. CASE UNCHANGED failoverVars
  <2>1. UNCHANGED <<connection, place, session, history>>
    BY <1>9 DEF failoverVars
  <2>2. Untouched BY <2>1 DEF Untouched, history
  <2>3. Knowing' BY <2>1 DEF FailoverInv, Knowing, connection, session, history
  <2> QED BY <2>2, <2>3, UntouchedKept DEF FailoverInv
<1> QED BY <1>1, <1>2, <1>3, <1>4, <1>5, <1>6, <1>7, <1>8, <1>9
        DEF FailoverNext, Progress, Failure

-----------------------------------------------------------------------------
(* The theorems.                                                            *)

LEMMA FailoverStart == FailoverInit => FailoverInv
<1> SUFFICES ASSUME FailoverInit PROVE FailoverInv OBVIOUS
<1>1. NoTries \in [retries : 0 .. MaxRetries, stalls : 0 .. MaxStalls,
                 limited : BOOLEAN]
  BY FreshType
<1>2. 0 \in Model /\ 1 \in Key /\ "idle" \in Where BY DEF Model, Key, Where
<1>3. /\ lapses \in 0 .. MaxLapses /\ waits \in [Run -> 0 .. MaxWaits]
      /\ \A r \in Run : messages[r] \in 0 .. Messages[r]
  BY DEF FailoverInit
<1>4. /\ tries \in [Run -> [retries : 0 .. MaxRetries, stalls : 0 .. MaxStalls,
                            limited : BOOLEAN]]
      /\ place \in [Run -> Where] /\ model \in [Run -> Model]
      /\ cause \in [Run -> Causes \cup {"none"}]
  BY <1>1, <1>2 DEF FailoverInit
<1>5. FailoverTypeOK BY <1>2, <1>3, <1>4 DEF FailoverInit, FailoverTypeOK
<1>6. Position BY DEF FailoverInit, Position, Model
<1>7. Blaming BY DEF FailoverInit, Blaming, Model
<1>8. Knowing BY DEF FailoverInit, Knowing, Requesting
<1> QED BY <1>5, <1>6, <1>7, <1>8 DEF FailoverInv

LEMMA FailoverInvariant == FailoverSpec => []FailoverInv
<1>1. FailoverInv /\ [FailoverNext]_failoverVars => FailoverInv'
  <2> SUFFICES ASSUME FailoverInv,
                      [FailoverNext]_failoverVars PROVE FailoverInv' OBVIOUS
  <2>1. FailoverTypeOK' BY TypesKept DEF FailoverInv
  <2>2. Position' /\ Blaming' /\ Knowing' BY StepKept
  <2> QED BY <2>1, <2>2 DEF FailoverInv
<1> QED BY FailoverStart, <1>1, PTL DEF FailoverSpec

(* The connection, the keys' rests and what each session notes keep their   *)
(* types through every step of the ladder, the hand-over and the lapses of  *)
(* turn.rs, session/recovery.rs and client/fallback.rs.                     *)
THEOREM FailoverTypes == FailoverSpec => []FailoverTypeOK
<1>1. FailoverInv => FailoverTypeOK BY DEF FailoverInv
<1> QED BY FailoverInvariant, <1>1, PTL

(* stand_in_for leaves no model, and counts none as tried, that was not     *)
(* given up on or cannot be switched to, and rests the own model for a      *)
(* limit of its own only, however many sessions share the connection, as    *)
(* long as no request outlives the own model's return.                      *)
THEOREM OnlyFailedAreLeft == FailoverSpec => []NothingPassedOver
<1>1. FailoverInv => NothingPassedOver
  <2> SUFFICES ASSUME FailoverInv, ~tainted
               PROVE  /\ \A m \in Model \ (Unusable \cup {using}) :
                             m < using \/ (m <= next /\ m # 0) => m \in blamed
                      /\ rested => capped
    BY DEF NothingPassedOver
  <2>1. rested => capped BY DEF FailoverInv, Blaming
  <2>2. ASSUME NEW m \in Model \ (Unusable \cup {using}),
               m < using \/ (m <= next /\ m # 0)
        PROVE  m \in blamed
    <3>1. m \in Nat /\ using \in Nat BY DEF FailoverInv, FailoverTypeOK, Model
    <3>2. CASE m < using BY <3>2 DEF FailoverInv, Blaming
    <3>3. CASE using < m
      <4>1. m <= next BY <2>2, <3>1, <3>3
      <4> QED BY <3>3, <4>1 DEF FailoverInv, Position
    <3> QED BY <3>1, <3>2, <3>3
  <2> QED BY <2>1, <2>2
<1> QED BY FailoverInvariant, <1>1, PTL
=============================================================================
