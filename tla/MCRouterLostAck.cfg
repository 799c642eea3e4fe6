SPECIFICATION Spec
CONSTANTS
    Uint64Max = 1
    MaxBlocks = 1
    MaxTxSeq = 2
    Body = {a, b}
    Hash <- MCHash
    Faults = {}
    MaxFaults = 0
    Handlers = {h1, h2}
INVARIANTS
    AckedNotLost
CHECK_DEADLOCK FALSE
