SPECIFICATION Spec
CONSTANTS
    Indents = {0, 1, 2}
    MaxRows = 4
    Unit = 4
    Counts = {0, 1, 3, 6, 63, 64, 1000, 1024, 4096}
INVARIANTS
    TypeOK
    PanelIsTheText
    HealthIsTheWorstRow
    RetryOnlyWhatRecovers
    BadgeBesideTab
    MarksAreEnough
    CountersSurvive
    PanelIsNeverLost
PROPERTY IsTheOutline
\* the parser stops at the end of the text
CHECK_DEADLOCK FALSE
