CONSTANTS
    Fns = {"f", "g", "h"}
    Crates <- AllCrates
    MaxRounds = 20
    MaxDepth = 4
SPECIFICATION Spec
INVARIANT EveryContextAnalysed
INVARIANT EveryOrderReported
INVARIANT EveryUsageReported
INVARIANT LeastClosure
PROPERTY PropagateSpec
