SPECIFICATION Spec
CONSTANTS
    NumVdevs = 2
    Total = 1
INVARIANT TypeOK
PROPERTIES
    SnapshotIsReal
    RunningIsShown
    RetryIsAsked
