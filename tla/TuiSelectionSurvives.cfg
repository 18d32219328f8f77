SPECIFICATION Spec
CONSTANTS
    Pools <- MCPools2
    NoPool = 0
    Pins <- NotPinned
    Records <- NoRecords
    Texts <- NoTexts
    Nothing = "nothing"
    OverflowChecks = FALSE
    Keys <- TabKeys
    Digits <- MCDigits
    MaxScroll = 0
INVARIANT
    SelectionSurvives
