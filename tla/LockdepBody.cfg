CONSTANTS
    Bodies <- AllBodies
    Contexts = {"Task", "BottomHalfL1"}
    Crate = {}
SPECIFICATION Spec
INVARIANTS
    IrqFollowsGuards
    HeldOnEveryPath
    NoMissedOrder
PROPERTIES
    OnlyLosesFacts
CHECK_DEADLOCK FALSE
