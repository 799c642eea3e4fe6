SPECIFICATION ServerSpec
CONSTANTS
    Uint64Max = 5
    MaxBlocks = 4
    MaxTxSeq = 3
    Body = {a, b}
    MaxPage = 1
    Hash <- MCHash
    Faults = {"crash", "stop", "setSetting", "insertTx", "deleteTx"}
    MaxFaults = 1
    MaxTxs = 1
    SlowStart = FALSE
    MaxPending = 1
    Handlers = {h1}
SYMMETRY MCSymmetry
INVARIANTS
    ServerTypeOK
    NeverAhead
    FieldAgrees
    AckedNotLost
    AckedKept
    RepeatsNeedFaults
    BuildsOnLast
    OneChain
PROPERTIES
    IncreasesByOne
    ImplementsSequencedLedger
CHECK_DEADLOCK FALSE
