SPECIFICATION LoopSpec
CONSTANTS
    e1 = e1
    p1 = p1
    l1 = l1
    Executions = {e1}
    PoolRunners = {p1}
    LegacyRunners = {l1}
    NumSteps = 2
    RequiresApproval = {1}
    TimedApproval = {1}
    PoolLimit = 1
    MaxClaims = 2
    MaxAttempts = 1
    MaxRequests = 2
    LeaseUpdateFaults = FALSE
    NoRunner = NoRunner
    NoExecution = NoExecution
INVARIANTS
    StepsInOrder
    CommandsWereCleared
    LeaseSettled
