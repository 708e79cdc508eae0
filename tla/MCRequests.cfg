SPECIFICATION AllSpec
CONSTANTS
    Turns = {t1, t2}
    MaxLimit = 2
    MaxVersion = 3
    MaxPools = 2
    MaxRounds = 1
    Own = {0, 40}
    Reported = {28}
    Servers = {8, 24}
    Kinds = {"counts", "silent"}
    Fixeds = {4, 17}
    Typed = {0, 14}
    Results = {6}
    Wants = {1, 9}
    Summaries = {1, 3}
    Skews <- MCSkews
    MaxHistory = 24
    MaxEdits = 1
SYMMETRY Symmetry
INVARIANTS
    SlotsConserved
    NobodyWaitsOnIdlePool
    LimitFollowsRow
    SendGetsThrough
    WakesStopSpending
    RoomIsKept
