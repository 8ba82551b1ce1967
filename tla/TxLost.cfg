SPECIFICATION FairSpec
CONSTANTS
    Conn = {c1, c2}
    QueueSize = 1
    PendingBytes = 1
    Lens = {1}
    MaxSeq = 2
    BuildCanFail = FALSE
PROPERTY AcceptedIsTransmitted
CHECK_DEADLOCK FALSE
