SPECIFICATION RollUpSpec
CONSTANTS
    Uint64Max = 4
    MaxBlocks = 3
    MaxTxSeq = 1
    Body = {t}
    MaxPage = 2
    Hash <- MCHash
INVARIANTS
    ChainLinked
    SizeAgrees
    ReadsExact
    HashLookup
CHECK_DEADLOCK FALSE
