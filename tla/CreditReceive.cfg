SPECIFICATION Spec
CONSTANTS
    RxBuf = 2
    Threshold = 1
    PeerBuf = 2
    W = 16
    Lens = {1, 2}
    PartialReads = TRUE
    CopyCanFail = TRUE
    SendCanFail = FALSE
    Congested = TRUE
    PeerAsks = TRUE
    MaxSent = 1
    MaxReceived = 3
PROPERTIES ResetOnlyMidPacket
CHECK_DEADLOCK FALSE
