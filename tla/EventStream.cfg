SPECIFICATION Spec
CONSTANTS
    BufferSize = 2
    MaxFailures = 3
    MaxSteps = 2
    MaxFaults = 3
CHECK_DEADLOCK FALSE
INVARIANTS
    ShownIsCommitted
    ReplayLeavesNoGap
    SettledIsFinal
PROPERTY
    EndIsShown
