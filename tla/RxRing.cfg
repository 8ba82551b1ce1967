SPECIFICATION FairSpec
CONSTANTS
    Token = {t1, t2, t3}
    DebugAssertions = TRUE
    AllocCanFail = TRUE
    ShortPackets = TRUE
    MaxPackets = 5
INVARIANTS TypeOK LiveBuffers
PROPERTIES EveryPacketDelivered
CHECK_DEADLOCK FALSE
