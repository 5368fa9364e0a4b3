---------------------------- MODULE MCBudgetPool ----------------------------
(* BudgetPool with a parent, its child and an auxiliary call on one pool.  *)
EXTENDS BudgetPool, TLC

CONSTANTS parent, child, judge

MCMaxTurns == [s \in {parent, child} |-> IF s = parent THEN 2 ELSE 1]
Both(t, c) == [r \in Resource |-> IF r = "tokens" THEN t ELSE c]

MCCeiling == Both(20, 30)
\* One report passes the cost reserved, the other the tokens.
MCUsage == {Both(2, 20), Both(13, 2)}
=============================================================================
