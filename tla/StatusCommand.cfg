SPECIFICATION Spec
CONSTANTS
    Timeout = 3
    Nap = 2
    MaxOutput = 2
    MaxCalls = 2
    MaxTime = 12
CHECK_DEADLOCK FALSE
INVARIANTS
    TypeOK
    OutputIsWhole
    TimelyOnceClosed
PROPERTY
    ReturnsOnceClosed
