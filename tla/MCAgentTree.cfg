SPECIFICATION Spec
SYMMETRY TaskSymmetry
CONSTANTS
    Tasks = {t1, t2, t3}
    Ops = {"create", "send", "stop", "delete"}
    MaxConvs = 4
    MaxDepth = 2
    MaxFaults = 0
INVARIANTS
    NoWaitCycle
    NoStartUnderEnded
    StopStands
    StoppedRunsNothing
CHECK_DEADLOCK FALSE
