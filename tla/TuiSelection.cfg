SPECIFICATION Spec
CONSTANTS
    Pools <- MCPools3
    NoPool = 0
    Pins <- NotPinned
    Records <- NoRecords
    Texts <- NoTexts
    Nothing = "nothing"
    OverflowChecks = FALSE
    Keys <- AllKeys
    Digits <- MCDigits
    MaxScroll = 1
INVARIANTS
    TypeOK
    ActiveInRange
    SelectionKept
    NobodyIsMissing
    GivesUpOnlyWithoutPools
