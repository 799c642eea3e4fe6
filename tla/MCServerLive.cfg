SPECIFICATION ServerFairSpec
CONSTANTS
    Uint64Max = 5
    MaxBlocks = 4
    MaxTxSeq = 2
    Body = {tx}
    MaxPage = 1
    Hash <- MCHash
    Faults = {"crash", "stop", "setSetting", "insertTx", "ipfs", "deleteTx", "prune", "rpcRead", "send"}
    MaxFaults = 1
    MaxTxs = 1
    SlowStart = FALSE
    MaxPending = 2
    Handlers = {h1}
INVARIANTS
    NoNonceGap
PROPERTIES
    PublishedOrStuck
    EventuallyEmptied
CHECK_DEADLOCK FALSE
