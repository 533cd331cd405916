SPECIFICATION MCSpec
CONSTANTS
    letter1 = letter1
    letter2 = letter2
    note = note
    MaxCluster = 6
    Slots = 3
    MaxListed = 3
    Names <- MCNames
    Short <- MCShort
    Long <- MCLong
    Lengths = {0, 2}
    MaxFaults = 1
    Tolerated = {}
SYMMETRY Exchange
INVARIANTS
    TypeOK NoClusterShared ReadsBack NoLeak NamesUnique
CHECK_DEADLOCK FALSE
