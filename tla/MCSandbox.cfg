SPECIFICATION AllSpec
CONSTANTS
    Pods <- MCPods
    MaxOps = 5
    MaxFaults = 1
    Callers = {a, b}
    MaxConns = 2
    MaxAsks = 3
    MaxConnFaults = 1
    MaxTerms = 1
    MaxAttempts = 2
    Shapes <- MCShapes
    MaxTurns = 2
    MaxReplies = 2
    MaxProcs = 3
    MaxBends = 1
    MaxCliFaults = 1
INVARIANTS
    StopKeepsStorage
    OneTrueNotice
    NothingLeft
    RegistryAgrees
    WaiterIsHeard
    CrashToldOnce
    ShownOnce
    SessionsAlone
PROPERTIES
    ImplementsStorage
CHECK_DEADLOCK FALSE
