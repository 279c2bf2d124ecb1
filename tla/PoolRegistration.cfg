SPECIFICATION Spec
CONSTANTS
    p1 = p1
    t1 = t1
    f1 = f1
    f2 = f2
    w1 = w1
    w2 = w2
    Workers = {w1, w2}
    None = None
    Operations = {"disable_runner", "revoke_runner", "revoke_token", "drain_pool", "reactivate_pool"}
    Fingerprints = {f1, f2}
    MaxRunners = 2
    NumExecutions = 2
    MaxRegistrations <- TwoRegistrations
    MaxConcurrent <- OneSlot
    OrgLimit = 2
    Pools = {p1}
    Tokens = {t1}
    PoolOf <- OnePoolOf
    DefaultPools = {p1}
    ChangeBound = {1}
    RoutedTo <- RoutedToFirst
    Capable <- AllCapable
SYMMETRY WorkerSymmetry
INVARIANTS
    PoolWithinLimit
    RegistrationsCounted
    OneIdentity
PROPERTIES
    StopIsRespected
