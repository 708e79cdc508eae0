SPECIFICATION Spec
CONSTANTS
    Turns = {t1, t2}
    NoLock = NoLock
    Kinds = {"send", "deliver"}
    Child = TRUE
    Deletable = TRUE
    Owes = {}
    MaxStops = 0
    MaxShown = 1
    MaxFaults = 1
    MaxRounds = 1
SYMMETRY Symmetry
INVARIANTS
    TurnsDontMix
    CountExact
    NothingLeft
CHECK_DEADLOCK FALSE
