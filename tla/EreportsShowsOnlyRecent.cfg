SPECIFICATION Spec
CONSTANTS
    Fields <- MCFields
    Kinds <- KeptOnly
    BufferCap = 2
    WindowCap = 2
    Window = 1
    Replayed = 1
    MaxEvents = 2
    MaxTime = 3
    WordMax = 7
    Devices <- MCDevices
    PathOf <- MCPathOf
    OffsetOf <- MCOffsetOf
    Columns <- MCColumns
    Widths <- MCWidths
PROPERTY
    ShowsOnlyRecent
