SPECIFICATION Spec
CONSTANTS
    TCP_BUF_SIZE = 2
    TCP_MSS = 2
    MaxRetrans = 1
    SeqSpace = 16
    Iss = {13}
    Windows = {1}
    PeerLen = 3
    MaxWrite = 2
    MaxRead = 3
INVARIANT RetransmitsData
CHECK_DEADLOCK FALSE
