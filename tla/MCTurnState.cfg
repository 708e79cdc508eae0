SPECIFICATION PairsSpec
CONSTANTS
    Turns = {t1, t2}
    NoLock = NoLock
    Kinds = {"send", "answer", "wake", "deliver"}
    Child = FALSE
    Deletable = FALSE
    Owes = {1, 2, 4}
    MaxStops = 2
    MaxShown = 0
    MaxFaults = 0
    MaxRounds = 1
SYMMETRY Symmetry
INVARIANTS
    OneWriter
    StopEndsExactly
    NoTurnGoesOnPaused
    StopNoted
    SavedInOrder
PROPERTIES
    FailuresKept
CHECK_DEADLOCK FALSE
