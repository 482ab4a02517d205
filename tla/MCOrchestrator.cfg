CONSTANTS
    k1 = k1
    k2 = k2
    k3 = k3
    r1 = r1
    r2 = r2
    Keys = {k1, k2, k3}
    Runs = {r1, r2}
    Fingerprints = {"f1"}
    Results = {v1}
    Tokens <- MCTokens
    Plan <- MCPlan3
    Deps <- MCDeps3
    EffectFp <- MCOneEffect
    Effectful = {k1, k2}
    Reversible = {k1, k2}
    CompensateOnFailure = TRUE
    NoFp = NoFp
    NoToken = NoToken
    NoResult = NoResult
SPECIFICATION Spec
INVARIANTS SafetyInv AtMostOneEffect StuckClaimExplained OnlyRollbackRevokesSuccess DependenciesStandAtDispatch
PROPERTIES UndoneInReverseOrder ImplementsEffectOnce
CHECK_DEADLOCK FALSE
