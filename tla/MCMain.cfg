SPECIFICATION MainFairSpec
CONSTANTS
    N = 2
    StopCalls = {s1, s2}
    Timeout = 3
    WorkTime = 2
    EarlyStop = FALSE
    MaxStarts = 2
    Undefined = Undefined
    Null = Null
    Files <- MCFiles
INVARIANTS
    MainTypeOK
    SingleWork
    CleanStop
    DeployedFirst
    OnlyEnabledTick
PROPERTIES
    StartDecides
    StopEnds
CHECK_DEADLOCK FALSE
