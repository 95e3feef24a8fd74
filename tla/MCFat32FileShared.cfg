SPECIFICATION Spec
CONSTANTS
    file1 = file1
    file2 = file2
    node1 = node1
    node2 = node2
    Files = {file1}
    Handles <- MCHandles
    Bytes = {0, 1, 2}
    Buffers <- Plain
    ClusterSize = 2
    Clusters = 2
    Wrap = 64
    MaxOffset = 5
    MaxRequest = 2
    Saves = {TRUE, FALSE}
    BadClusters <- OneBad
SYMMETRY Symmetric
CHECK_DEADLOCK FALSE
INVARIANTS
    SizeWithinChain
