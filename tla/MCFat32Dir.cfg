SPECIFICATION Spec
CONSTANTS
    x = x
    y = y
    z = z
    dot = dot
    dotdot = dotdot
    Names <- MCNames
    Dot = dot
    DotDot = dotdot
    EntriesPerCluster = 3
    LastCluster = 5
    EndOfChain <- MCEndOfChain
    Volumes <- MCVolumes
SYMMETRY Symmetry
CHECK_DEADLOCK FALSE
INVARIANTS
    TypeOK
    NoDuplicates
    EntriesApart
    ListsWhatIsFound
PROPERTIES
    ImplementsTree
    PlacedIsFound
