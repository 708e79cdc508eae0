SPECIFICATION Spec
SYMMETRY TaskSymmetry
CONSTANTS
    Tasks = {t1, t2, t3}
    Ops = {"create", "finish", "message", "wake", "delete"}
    MaxConvs = 4
    MaxDepth = 2
    MaxFaults = 0
INVARIANTS
    CascadeCovered
PROPERTIES
    FinishReadsAll
CHECK_DEADLOCK FALSE
