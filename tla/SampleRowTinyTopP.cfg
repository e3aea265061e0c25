SPECIFICATION Spec
CONSTANTS
    VocabSize = 5
    TileSize = 2
    NumThreads = 2
    Vec = 1
    Base = 4
    Patterns = {9, 8, 0, 2}
    One = 8
    TopKs = {0, 2}
    TopPOne = 8
    TopPs = {1}
    FloatStep = 2
PROPERTIES
    RowIsSampled
CHECK_DEADLOCK FALSE
