SPECIFICATION FairSpec
CONSTANTS
    c1 = c1
    c2 = c2
    t1 = t1
    t2 = t2
    r1 = r1
    r2 = r2
    k1 = k1
    k2 = k2
    None = None
    Targets = {t1, t2}
    TargetsOf <- OverlappingTargets
    Changes = {c1}
    Runners = {r1, r2}
    NeedsApproval = {c1}
    NeedsVerification = {c1}
    Checks = {k1, k2}
    ScheduledLater = {c1}
    Windowed = {c1}
    Freezable = {t2}
    CancelRequests = FALSE
    HookFaults = FALSE
CHECK_DEADLOCK FALSE
INVARIANTS
    DispatchedWindowApproved
PROPERTIES
    DispatchedChangeEnds
