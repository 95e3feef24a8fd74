SPECIFICATION FairSpec
CONSTANTS
    Sectors = 13
    Radix = 2
    Top = 2
    Firsts <- MCFirsts
    Writes <- MCWrites
    MaxCount = 2
    Kinds <- MCKinds
    Junk = Junk
    NoCall = NoCall
PROPERTIES ImplementsSectorDevice CallsReturn
CHECK_DEADLOCK FALSE
