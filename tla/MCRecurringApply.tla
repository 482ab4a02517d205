-------------------------- MODULE MCRecurringApply --------------------------
EXTENDS RecurringApply, TLC

CONSTANTS k1, k2

MCPlan1 == <<k1>>
MCPlan2 == <<k1, k2>>
MCNoDeps == [k \in Keys |-> {}]
Symm == Permutations(Runs)
MCTokens == Runs \X Keys
MCFp == [r \in Runs |-> [k \in Keys |-> "f1"]]
=============================================================================
