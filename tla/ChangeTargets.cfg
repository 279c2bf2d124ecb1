SPECIFICATION Spec
CONSTANTS
    c1 = c1
    c2 = c2
    t1 = t1
    t2 = t2
    r1 = r1
    r2 = r2
    k1 = k1
    k2 = k2
    None = None
    Targets = {t1, t2}
    TargetsOf <- OverlappingTargets
    Changes = {c1, c2}
    Runners = {r1, r2}
    NeedsApproval = {}
    NeedsVerification = {c1}
    Checks = {k1}
    ScheduledLater = {c2}
    Windowed = {}
    Freezable = {t2}
    CancelRequests = TRUE
    HookFaults = TRUE
CHECK_DEADLOCK FALSE
SYMMETRY RunnerSymmetry
INVARIANTS
    TargetExclusion
    LocksCoverDispatch
    WorkIsBound
