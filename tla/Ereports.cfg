SPECIFICATION Spec
CONSTANTS
    Fields <- MCFields
    Kinds <- Few
    BufferCap = 2
    WindowCap = 2
    Window = 1
    Replayed = 1
    MaxEvents = 3
    MaxTime = 2
    WordMax = 7
    Devices <- MCDevices
    PathOf <- MCPathOf
    OffsetOf <- MCOffsetOf
    Columns <- MCColumns
    Widths <- MCWidths
INVARIANTS
    TypeOK
    NothingLost
    NeverReused
    MapTellsTheScreen
    CountIsNotCrowdedOut
PROPERTIES
    ShowsTheNewest
    Delivered
    StaleLeaves
