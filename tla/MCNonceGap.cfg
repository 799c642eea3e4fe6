SPECIFICATION FairSpec
CONSTANTS
    Uint64Max = 4
    MaxBlocks = 3
    MaxTxSeq = 2
    Body = {tx}
    MaxPage = 1
    Hash <- MCHash
    Faults = {"resync"}
    MaxFaults = 1
    MaxTxs = 1
    SlowStart = FALSE
    MaxPending = 2
PROPERTIES
    EventuallyPublished
CHECK_DEADLOCK FALSE
