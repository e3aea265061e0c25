\* Three requests of two prompts, so that some share blocks, in a cache that
\* holds one request at its longest: blocks are shared, evicted, and taken back
\* by preemption, and a prompt takes two steps under the budget.
\* The system stops when every request came and went.
SPECIFICATION Spec
CONSTANTS
    NumBlocks = 3
    BlockSize = 2
    PrefixCaching = {TRUE}
    MaxRequests = 3
    Tokens = {1, 2}
    MaxNumSeqs = 2
    MaxScheduledTokens = 2
    MaxModelLen = 6
    Prompts <- SharedPrompts
    MaxOutputs = {2, 4}
    IgnoreEos = {TRUE, FALSE}
    Eos = 2
INVARIANTS
    TypeOK
    BlocksAccountedFor
    IndexMatchesBlocks
    FirstComeFirstServed
    BatchIsHeadOfLine
    WithinLimits
    WritesArePrivate
    ContextIsOwn
    HashTellsContent
    SampledAtTheEnd
    StepComputes
PROPERTIES
    ImplementsService
CHECK_DEADLOCK FALSE
