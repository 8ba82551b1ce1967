SPECIFICATION FairSpec
CONSTANTS
    Obj = {o1}
    Active = {a}
    Passive = {}
    PassiveKey = {}
    None = None
    MaxBacklog = 1
    MaxRx = 1
    PeerFlags <- BothOrWrite
    MaxPackets = 2
    MaxInbound = 2
    MaxResets = 1
    CanFail = {"request", "shutdown", "rst"}
    Congested = TRUE
    PeerReuses = FALSE
INVARIANTS ConnectWillEnd
PROPERTIES ConnectReturns
CHECK_DEADLOCK FALSE
