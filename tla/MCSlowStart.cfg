SPECIFICATION Spec
CONSTANTS
    Uint64Max = 4
    MaxBlocks = 3
    MaxTxSeq = 2
    Body = {tx}
    MaxPage = 1
    Hash <- MCHash
    Faults = {"crash"}
    MaxFaults = 1
    MaxTxs = 1
    SlowStart = TRUE
    MaxPending = 2
INVARIANTS
    PrunedIsPublished
CHECK_DEADLOCK FALSE
