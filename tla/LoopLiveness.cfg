SPECIFICATION FairLoopSpec
CONSTANTS
    e1 = e1
    p1 = p1
    l1 = l1
    Executions = {e1}
    PoolRunners = {p1}
    LegacyRunners = {}
    NumSteps = 1
    RequiresApproval = {}
    TimedApproval = {1}
    PoolLimit = 1
    MaxClaims = 1
    MaxAttempts = 2
    MaxRequests = 2
    LeaseUpdateFaults = FALSE
    NoRunner = NoRunner
    NoExecution = NoExecution
PROPERTIES
    ActiveExecutionEnds
