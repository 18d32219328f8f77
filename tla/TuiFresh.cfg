SPECIFICATION Spec
CONSTANTS
    Pools <- MCPools2
    NoPool = 0
    Pins <- PinnedOrNot
    Records <- MCRecords
    Texts <- MCTexts
    Nothing = "nothing"
    OverflowChecks = FALSE
    Keys <- NoKeys
    Digits <- NoDigits
    MaxScroll = 0
INVARIANT
    FramesAreFresh
PROPERTY
    Converges
