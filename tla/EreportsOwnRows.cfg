SPECIFICATION Spec
CONSTANTS
    Fields <- MCFields
    Kinds <- Mixed
    BufferCap = 2
    WindowCap = 2
    Window = 1
    Replayed = 1
    MaxEvents = 2
    MaxTime = 1
    WordMax = 7
    Devices <- MCDevices
    PathOf <- MCPathOf
    OffsetOf <- MCOffsetOf
    Columns <- MCColumns
    Widths <- MCWidths
INVARIANT
    OwnRows
