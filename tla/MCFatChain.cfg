SPECIFICATION FairSpec
CONSTANTS
    a = a
    b = b
    Names <- MCNames
    NumSectors = 2
    EntriesPerSector = 4
    LastCluster = 5
    EndOfChain <- MCEndOfChain
    Stored <- MCStored
    Disks <- MCDisks
    Garbage <- MCGarbage
    Failing = {"zero", "entry", "unlink", "write1", "write2", "read"}
    MaxFailures = 1
    MaxPowerCuts = 0
INVARIANTS
    NoCrossLink
    NoLeak
    DurableWhenIdle
    RestartFindsFiles
    CleanBufferOnDisk
PROPERTIES
    ImplementsOwners
    ImplementsFatTable
    CallsReturn
