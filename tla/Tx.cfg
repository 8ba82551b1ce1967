SPECIFICATION FairSpec
CONSTANTS
    Conn = {c1, c2}
    QueueSize = 2
    PendingBytes = 2
    Lens = {1, 2}
    MaxSeq = 2
    BuildCanFail = TRUE
INVARIANT DescriptorBudget
INVARIANT ReservedIsHeld
INVARIANT BudgetConserved
PROPERTY ExactlyOnce
PROPERTY PendingDrainsWhileBusy
CHECK_DEADLOCK FALSE
