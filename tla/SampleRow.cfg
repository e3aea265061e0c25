SPECIFICATION Spec
CONSTANTS
    VocabSize = 5
    TileSize = 2
    NumThreads = 2
    Vec = 1
    Base = 4
    Patterns = {9, 8, 0, 2}
    One = 8
    TopKs = {0, 1, 3}
    TopPOne = 8
    TopPs = {1, 5, 8}
    FloatStep = 1
INVARIANTS
    TopKIsExact
    DrawIsProportional
    NucleusIsSampled
PROPERTIES
    RowIsSampled
CHECK_DEADLOCK FALSE
