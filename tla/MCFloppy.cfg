SPECIFICATION Spec
CONSTANTS
    sectors_per_track = 3
    Cylinders = 2
    MaxSegment = 2
    Requests <- MCRequests
    MaxCalls = 2
    Tries = 2
    SeekTries = 2
    PioTries = 2
    Garbage <- MCGarbage
INVARIANTS OneCommandAtATime SuccessMeansMoved
PROPERTY CallsReturn
CHECK_DEADLOCK FALSE
