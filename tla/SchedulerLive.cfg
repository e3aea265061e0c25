\* With and without prefix caching, and a budget below the longest prompt:
\* prefills are cut in chunks, the third one running beside two requests that
\* decode, in a cache of one request at its longest.
\* The system stops when every request came and went.
SPECIFICATION FairSpec
CONSTANTS
    NumBlocks = 3
    BlockSize = 2
    PrefixCaching = {TRUE, FALSE}
    MaxRequests = 3
    Tokens = {1, 2}
    MaxNumSeqs = 3
    MaxScheduledTokens = 2
    MaxModelLen = 6
    Prompts <- MixedPrompts
    MaxOutputs = {3}
    IgnoreEos = {FALSE}
    Eos = 2
INVARIANTS
    ContextIsOwn
PROPERTIES
    EveryRequestLeaves
CHECK_DEADLOCK FALSE
