SPECIFICATION Spec
SYMMETRY TaskSymmetry
CONSTANTS
    Tasks = {t1, t2, t3}
    Ops = {"create", "send", "delete"}
    MaxConvs = 4
    MaxDepth = 2
    MaxFaults = 1
INVARIANTS
    NeverStartedNeverRuns
CHECK_DEADLOCK FALSE
