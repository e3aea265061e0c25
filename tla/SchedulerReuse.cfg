\* Two requests that decode past their prompt, in a cache too small for both.
SPECIFICATION Spec
CONSTANTS
    NumBlocks = 4
    BlockSize = 2
    PrefixCaching = {TRUE}
    MaxRequests = 2
    Tokens = {1, 2}
    MaxNumSeqs = 2
    MaxScheduledTokens = 3
    MaxModelLen = 7
    Prompts <- OnePrompt
    MaxOutputs = {4}
    IgnoreEos = {FALSE}
    Eos = 2
PROPERTIES
    ReuseIsOfPrompt
CHECK_DEADLOCK FALSE
