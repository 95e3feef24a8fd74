SPECIFICATION Spec
CONSTANTS
    file1 = file1
    file2 = file2
    node1 = node1
    node2 = node2
    Files <- MCFiles
    Handles = {node1}
    Bytes = {0, 1, 2}
    Buffers <- MCBuffers
    ClusterSize = 2
    Clusters = 3
    Wrap = 64
    MaxOffset = 7
    MaxRequest = 3
    Saves = {TRUE}
    BadClusters <- NoneBad
SYMMETRY Symmetric
CHECK_DEADLOCK FALSE
INVARIANTS
    TypeOK
    ShortWriteMeansNoCluster
PROPERTIES
    ImplementsFileSpec
