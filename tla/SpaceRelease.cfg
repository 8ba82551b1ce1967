SPECIFICATION FairSpec
CONSTANTS
    Obj = {o1, o2}
    Active = {}
    Passive = {p1}
    PassiveKey = {k}
    None = None
    MaxBacklog = 1
    MaxRx = 1
    PeerFlags <- BothOrWrite
    MaxPackets = 4
    MaxInbound = 1
    MaxResets = 0
    CanFail = {"response", "rst"}
    Congested = FALSE
    PeerReuses = TRUE
INVARIANTS InOneTable OrphanWillClose
PROPERTIES NeverRelisted ReleasedIsFreed
CHECK_DEADLOCK FALSE
