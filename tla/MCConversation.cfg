SPECIFICATION AllSpec
CONSTANTS
    Tasks = {t1, t2, t3}
    MaxTries = 2
    MaxFaults = 2
    MaxCrashes = 1
    Deletable = TRUE
    MaxEvents = 1
    MaxTools = 2
    MaxRestarts = 1
SYMMETRY Symmetry
INVARIANTS
    StoredMirrorsMemory
    QuestionAccounted
    NothingStranded
    ParentTold
CHECK_DEADLOCK FALSE
