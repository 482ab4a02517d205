CONSTANTS
    k1 = k1
    k2 = k2
    Keys = {k1}
    Runs = {r1, r2}
    Attempts = {r1, r2}
    NoAttempt = NoAttempt
    NoOutcomes = NoOutcomes
    LocalGeneration = {}
    Fingerprints = {"f1"}
    Results = {v1}
    Tokens <- MCTokens
    Plan <- MCPlan1
    Deps <- MCNoDeps
    EffectFp <- MCFp
    Effectful = {k1}
    Reversible = {k1}
    CompensateOnFailure = TRUE
    NoFp = NoFp
    NoToken = NoToken
    NoResult = NoResult
    LeaseDuration = 1
    Expires = 2
    ResumeDeadline = 3
    MaxClock = 3
SPECIFICATION ApplySpec
SYMMETRY Symm
INVARIANTS RecoverableMeansNothingInFlight
CHECK_DEADLOCK FALSE
