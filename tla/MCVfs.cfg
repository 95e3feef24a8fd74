SPECIFICATION Spec
CONSTANTS
    Clusters <- MCClusters
    Slots = {s1, s2}
    Letters <- MCLetters
    Handles = {h1}
    NoEntry = NoEntry
    NoNode = NoNode
    Unset = Unset
SYMMETRY Symmetry
INVARIANTS LettersAreVolumes 
CHECK_DEADLOCK FALSE
