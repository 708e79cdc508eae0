SPECIFICATION FairSpec
CONSTANTS
    Turns = {t1, t2}
    MaxLimit = 2
    MaxVersion = 2
    MaxPools = 2
    MaxRounds = 1
PROPERTIES
    SlotGranted
