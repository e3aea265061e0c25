\* The engine does not hang, though it may exit at any time.  While two outputs
\* fill the pipe and the engine's send, what the client sends fills the input and
\* waits: the first request's ABORT and the second's ADD, or the ABORTs of both.
\* The system stops when it is closed and every call has ended.
SPECIFICATION RunningSpec
CONSTANTS
    r1 = r1
    r2 = r2
    Requests <- TwoRequests
    MaxTokens <- TwoAndOne
    InputCap = 1
    OutputCap = 1
INVARIANTS
    NothingLostOrRepeated
    FinishedForGood
    NoOrphans
    NobodyForgotten
    ClosedMeansStopped
PROPERTIES
    EveryCallEnds
CHECK_DEADLOCK FALSE
