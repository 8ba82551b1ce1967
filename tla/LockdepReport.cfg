CONSTANTS
    Orders <- MCOrders
    Usages <- MCUsages
    Fns = {"f", "ignored"}
    Ignored = {"ignored"}
    MaxReads = 4
SPECIFICATION Spec
INVARIANT SccsAreMutualReach
INVARIANT CyclesAreReal
INVARIANT ExclusiveCyclesReported
INVARIANT SingleLockIsExact
INVARIANT DependenciesReported
