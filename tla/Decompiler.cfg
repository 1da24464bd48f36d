SPECIFICATION Spec
CONSTANTS
    CellCount = 5
    MaxListing = 10
    MemoryWord <- MCMemoryWord
    VectorOf <- MCVectorOf
INVARIANTS ListingTilesMemory JumpTargetsLabelled VectorsNamed
PROPERTY EndsOrStraddles
CHECK_DEADLOCK FALSE
