SPECIFICATION ClientFairSpec
CONSTANTS
    Uint64Max = 1
    MaxBlocks = 1
    MaxTxSeq = 5
    Body = {a}
    Hash <- MCHash
    Faults = {"crash", "clientCrash", "getSetting", "insertTx", "setSetting", "lostAnswer", "brokenConnection"}
    MaxFaults = 3
    Handlers = {h1, h2}
    EarlyTick = TRUE
INVARIANTS
    ClientTypeOK
    ClientNotAhead
    NoGap
    NeverAhead
PROPERTIES
    Advances
CHECK_DEADLOCK FALSE
