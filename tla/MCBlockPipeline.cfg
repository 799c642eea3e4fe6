SPECIFICATION Spec
CONSTANTS
    Uint64Max = 5
    MaxBlocks = 4
    MaxTxSeq = 3
    Body = {tx}
    MaxPage = 1
    Hash <- MCHash
    Faults = {"crash", "ipfs", "insertBlock", "deleteTx", "prune", "rpcRead", "send", "resync", "drop"}
    MaxFaults = 2
    MaxTxs = 2
    SlowStart = FALSE
    MaxPending = 2
INVARIANTS
    TypeOK
    NoFork
    ContractIsPrefix
    PrunedIsPublished
    NewestRowKept
    NodeKnowsLastBlock
    ReceivedNotLost
    CopiesNeedFaults
    InSequenceOrder
    SendsNext
PROPERTIES
    ImplementsLedger
CHECK_DEADLOCK FALSE
