SPECIFICATION Spec
CONSTANTS
    Turns = {t1, t2, t3}
    MaxLimit = 2
    MaxVersion = 2
    MaxPools = 2
    MaxRounds = 1
PROPERTIES
    NoNewRequestOverLimit
CHECK_DEADLOCK FALSE
