SPECIFICATION Spec
CONSTANTS
    w1 = w1
    w2 = w2
    x1 = x1
    h1 = h1
    h2 = h2
    a1 = a1
    owner = owner
    secret = secret
    NoFile = NoFile
    Garbage = Garbage
    Workers = {w1, w2}
    MaxVersion = 1
    Exports = {x1}
    Holds = {h1, h2}
    Artifacts = {a1}
    Values = {owner, secret}
    Policies <- RedactionPolicies
    Retained = TRUE
    MaxEdits = 2
    MaxFaults = 2
SYMMETRY Symmetric
CHECK_DEADLOCK FALSE
INVARIANTS
    SealedAsRecorded
    ExportAsPromised
PROPERTIES
    SealedNeverRewritten
    HeldBundleKept
