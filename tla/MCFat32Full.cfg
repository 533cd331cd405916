SPECIFICATION MCSpec
CONSTANTS
    letter1 = letter1
    letter2 = letter2
    note = note
    MaxCluster = 6
    Slots = 3
    MaxListed = 3
    Names <- MCNames
    Short <- MCShort
    Long <- MCLong
    Lengths = {1, 3}
    MaxFaults = 0
    Tolerated = {"freed"}
SYMMETRY Exchange
INVARIANTS
    NoFileShares
CHECK_DEADLOCK FALSE
