SPECIFICATION ClientFairSpec
CONSTANTS
    Uint64Max = 1
    MaxBlocks = 1
    MaxTxSeq = 3
    Body = {a}
    Hash <- MCHash
    Faults = {"lostAnswer"}
    MaxFaults = 1
    Handlers = {h1}
    EarlyTick = FALSE
PROPERTIES
    AdvancesFromZero
CHECK_DEADLOCK FALSE
