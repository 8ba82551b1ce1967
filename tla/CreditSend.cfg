SPECIFICATION FairSpec
CONSTANTS
    RxBuf = 2
    Threshold = 1
    PeerBuf = 2
    W = 16
    Lens = {1, 2}
    PartialReads = FALSE
    CopyCanFail = FALSE
    SendCanFail = TRUE
    Congested = TRUE
    PeerAsks = FALSE
    MaxSent = 4
    MaxReceived = 1
INVARIANTS SendsWithinCredit
PROPERTIES SenderResumes
CHECK_DEADLOCK FALSE
