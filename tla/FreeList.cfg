\* Five blocks: the list has an inside, and blocks leave it from both ends
\* and from the middle; two references are the least that share a block.
SPECIFICATION Spec
CONSTANTS
    NumBlocks = 5
    MaxRefs = 2
INVARIANTS
    TypeOK
    ListIsConsistent
PROPERTIES
    ImplementsPool
