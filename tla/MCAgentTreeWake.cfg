SPECIFICATION Spec
SYMMETRY TaskSymmetry
CONSTANTS
    Tasks = {t1, t2, t3}
    Ops = {"send", "wake", "stop"}
    MaxConvs = 3
    MaxDepth = 2
    MaxFaults = 0
INVARIANTS
    StoppedRunsNothing
CHECK_DEADLOCK FALSE
