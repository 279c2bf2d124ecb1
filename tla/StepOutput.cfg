SPECIFICATION Spec
CONSTANTS
    Declared <- TwoKeys
    Pathless = {"log"}
    Required = {"log", "report"}
    StreamLimit = 2
    FileLimit = 1
    MaxArtifacts = 1
    Quota = 3
    DailyQuota = 4
    StepLimit = 4
    MaxRetries = 2
    CleanupPolicy = "always"
    SecretSize = 2
    MaskSize = 1
    MaxBytes = 2
    NoisyStreams = {"stdout"}
    MaxOthers = 1
    MaxFaults = 2
CHECK_DEADLOCK FALSE
INVARIANTS
    GroupStopped
    StreamAsWritten
    RowsBacked
    EvidenceComplete
PROPERTY
    HandlerReturns
