SPECIFICATION Spec
CONSTANTS
    a = a
    b = b
    Names <- MCNames
    NumSectors = 1
    EntriesPerSector = 6
    LastCluster = 5
    EndOfChain <- MCEndOfChain
    Stored <- MCStored
    Disks <- MCDisks
    Garbage <- MCGarbage
    Failing = {"zero", "entry", "write1", "write2", "read"}
    MaxFailures = 1
    MaxPowerCuts = 1
INVARIANTS
    TypeOK
    NoCrossLink
    NoStaleBytes
    CopiesAgree
