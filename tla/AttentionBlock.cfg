\* Two warps of two rows, tiles of two keys copied by both warps, five keys: three
\* tiles, the last one half filled.  One query token fills a warp and leaves the
\* other one padding; three take two blocks, the second one partly padding.
SPECIFICATION Spec
CONSTANTS
    GroupSize = 2
    WarpRows = 2
    NumWarps = 2
    KvTile = 2
    CopyRows = 1
    MaxExponentGap = 2
    Scores = {0, 2, 3}
    SeqLens = {5}
    QueryLens = {1, 3}
INVARIANTS
    TilesAreWhole
    OutputIsAttention
    WeightsAreBounded
PROPERTIES
    BlockEnds
CHECK_DEADLOCK FALSE
