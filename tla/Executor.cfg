\* Batches of up to four tokens of two requests, padded to buckets of 1, 2 and
\* 4 rows when there are graphs, in a kv cache that holds one request at its
\* longest, or in memory too small for it; a prompt fills a whole batch, or is
\* cut beside another request.  Tiles of two tokens and two warps, so that
\* requests begin inside a tile.  The model's sizes are those of Qwen3-0.6B
\* divided by 8, so that the buffers lie over each other as its do, but for the
\* head's, which has all of its 128 elements.
SPECIFICATION Spec
CONSTANTS
    NumRequests = 2
    PromptLen <- MCPromptLen
    MaxModelLen = 5
    MaxTokens = 4
    MaxSeqs = 2
    BlockSize = 2
    MaxBlocks = 3
    NumLayers = 2
    GroupSize = 2
    WarpRows = 2
    NumWarps = 2
    KvTile = 2
    ElementSize = 2
    HiddenSize = 128
    QuerySize = 256
    KeySize = 128
    Intermediate = 384
    VocabSize = 18992
    HalfLanes = 8
    NumExperts = 0
    ExpertsPerToken = 0
    ExpertIntermediate = 0
INVARIANTS
    ResultsAreOwn
    CacheIsExact
    RowsDoNotRace
