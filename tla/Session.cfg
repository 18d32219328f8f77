SPECIFICATION DemoSpec
CONSTANTS
    Ticks = 10
    FirstError = 3
    WindowCap = 3
    MaxTick = 16
INVARIANTS
    DemoTypeOK
    TerminalRestored
    ChildNeverOutlives
    ExitTells
    DemoIsJudged
    MapIsOfTheTick
PROPERTIES
    FinishedStays
    DemoEnds
