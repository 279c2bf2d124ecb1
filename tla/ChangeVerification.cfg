SPECIFICATION Spec
CONSTANTS
    u1 = u1
    u2 = u2
    NoUser = NoUser
    NoKind = NoKind
    NumChecks = 6
    TypeOf <- Types
    StepOf <- StepKeys
    KindOf <- KindKeys
    Keyed = {1, 2}
    Optional = {4}
    Independent = {3}
    OpenAssertions = {4}
    RoleAllowed <- Roles
    Templates <- TemplateSets
    ProfileMode = "mixed"
    NumSteps = 2
    StepMixes = {{}, {1}}
    Users = {u1, u2}
    Involved = {u1}
    UserEvidence <- Handed
    MaxFaults = 2
CHECK_DEADLOCK FALSE
INVARIANTS
    VerifiedByEvidence
    VerdictAfterExecution
    PendingCanBeDecided
PROPERTIES
    VerdictIsFinal
