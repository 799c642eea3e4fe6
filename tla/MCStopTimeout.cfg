SPECIFICATION Spec
CONSTANTS
    N = 2
    StopCalls = {s1}
    Timeout = 3
    WorkTime = 0
    EarlyStop = TRUE
    MaxStarts = 1
INVARIANTS
    TimeoutKept
CHECK_DEADLOCK FALSE
