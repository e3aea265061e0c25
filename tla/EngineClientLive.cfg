\* The engine may stop doing anything at any time without exiting.
SPECIFICATION HangingSpec
CONSTANTS
    r1 = r1
    r2 = r2
    Requests <- TwoRequests
    MaxTokens <- OneEach
    InputCap = 1
    OutputCap = 1
PROPERTIES
    CloseEnds
    DeathEndsEveryCall
CHECK_DEADLOCK FALSE
