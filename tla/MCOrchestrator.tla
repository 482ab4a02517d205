--------------------------- MODULE MCOrchestrator ---------------------------
(* Two runs of two dependent, reversible writes and a read of their        *)
(* outcome: every interleaving of claim, dispatch, failure, rollback and   *)
(* crash.                                                                  *)
EXTENDS Orchestrator

CONSTANTS k1, k2, k3, r1, r2

MCTokens == Runs \X Keys

MCPlan3 == <<k1, k2, k3>>
MCDeps3 == [k \in Keys |-> IF k = k2 THEN {k1}
                           ELSE IF k = k3 THEN {k2} ELSE {}]

MCOneEffect == [r \in Runs |-> [k \in Keys |-> "f1"]]
=============================================================================
