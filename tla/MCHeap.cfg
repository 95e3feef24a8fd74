SPECIFICATION FairSpec
CONSTANTS
    HeapSize <- MCHeapSize
    Header <- MCHeader
    Sizes <- MCSizes
INVARIANTS
    TypeOK
    Tiling
    FreeListSorted
    SeekBrackets
PROPERTIES
    LiveBlocksUntouched
    CallsReturn
    ImplementsHeapSpec
