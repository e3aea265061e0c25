\* A chat and an answer in one piece share the engine, or one request of
\* any kind has it.
\* The process stops.
SPECIFICATION ServerSpec
CONSTANTS
    r1 = r1
    r2 = r2
    Requests <- TwoRequests
    Bodies <- Mixes
    MaxTokens <- TwoEach
    InputCap = 1
    OutputCap = 1
INVARIANTS
    AnswersAreWhole
    HandlersLeaveNothing
PROPERTIES
    ShutdownCompletes
CHECK_DEADLOCK FALSE
