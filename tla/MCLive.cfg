SPECIFICATION LiveSpec
CONSTANTS
    Turns = {t1, t2}
    NoLock = NoLock
    Kinds = {"send", "deliver", "wake"}
    Child = FALSE
    Deletable = FALSE
    Owes = {}
    MaxStops = 1
    MaxShown = 0
    MaxFaults = 1
    MaxRounds = 0
    MaxJobs = 3
    MaxShells = 3
    MaxCmds = 3
    MaxLinks = 3
    MaxTerms = 2
INVARIANTS
    ExitsAccounted
PROPERTIES
    TurnEnds
    ExitIsTold
    OverGetsExit
CHECK_DEADLOCK FALSE
