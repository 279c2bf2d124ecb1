SPECIFICATION Spec
CONSTANTS
    e1 = e1
    p1 = p1
    l1 = l1
    Executions = {e1}
    PoolRunners = {p1}
    LegacyRunners = {l1}
    NumSteps = 1
    RequiresApproval = {1}
    TimedApproval = {1}
    PoolLimit = 1
    MaxClaims = 2
    MaxAttempts = 1
    MaxRequests = 2
    LeaseUpdateFaults = TRUE
    NoRunner = NoRunner
    NoExecution = NoExecution
INVARIANTS
    TypeOK
    LeaseMatchesClaim
    ApprovalGate
PROPERTIES
    FinalStatesStay
    OldTokensDecideNothing
    ImplementsLifecycle
