-------------------------------- MODULE Node --------------------------------
(***************************************************************************)
(* The scheduler that makes blocks (service/scheduler/Node.ts), with the   *)
(* pool of transactions that it takes them from (TransactionPool.ts) and   *)
(* the search for the last block when it starts (LastBlockInfo.ts).        *)
(*                                                                         *)
(* A handler is cut at the calls it awaits: the other scheduler, the       *)
(* router and a crash come between two of its actions.  Scheduler.ts runs  *)
(* one work() of a scheduler at a time.                                    *)
(***************************************************************************)
EXTENDS RollupStorage, RollUp, Faults

CONSTANTS
    MaxTxs,      \* config.node.max_txs, the most transactions in a block
    SlowStart    \* whether onStart may take longer than the first tick

ASSUME NodeAssumption == MaxTxs \in Nat /\ SlowStart \in BOOLEAN

VARIABLES
    prev_hash,     \* this.prev_hash
    prev_height,   \* this.prev_height
    heightType,    \* the type of its value, "bigint" or "number"
    startPc,       \* onStart: "storage" and "contract" await a read, "done"
    startInfo,     \* info_storage: {} for undefined, or {[height, hash]}
    nodePc,        \* work: "idle", or what it awaits, "get", "ipfs", "remove"
    nodeTxs,       \* work: txs, those not removed yet once in "remove"
    nodeBlock      \* work: block, {} before it is created

startVars == <<startPc, startInfo>>
nodeVars == <<prev_hash, prev_height, heightType, startPc, startInfo, nodePc, nodeTxs, nodeBlock>>

(* The constructor, and the call of onStart. *)
NodeInit ==
    /\ prev_hash = NullHash
    /\ prev_height = -1
    /\ heightType = "bigint"
    /\ startPc = "storage"
    /\ startInfo = {}
    /\ nodePc = "idle"
    /\ nodeTxs = {}
    /\ nodeBlock = {}

(* The same for a process that is started again. *)
NodeRestart ==
    /\ prev_hash' = NullHash
    /\ prev_height' = -1
    /\ heightType' = "bigint"
    /\ startPc' = "storage"
    /\ startInfo' = {}
    /\ nodePc' = "idle"
    /\ nodeTxs' = {}
    /\ nodeBlock' = {}

-----------------------------------------------------------------------------
(* LastBlockInfo.getInfo, in its two reads. *)

(* getInfoByStorage: the height is as sqlite gives it, a number.           *)
InfoByStorage ==
    {[height |-> row.height, hash |-> row.curBlock, type |-> "number"] : row \in LastRow}

(* getInfoByContract *)
InfoByContract ==
    IF lastHeight = Uint64Max THEN {}
    ELSE {[height |-> lastHeight, hash |-> GetByHeight(lastHeight).curBlock, type |-> "bigint"]}

(* Faulty variant: the contract is believed whenever it answers.           *)
NewestOfContract(infoStorage, infoContract) ==
    IF infoContract = {} THEN infoStorage ELSE infoContract

(* getInfo: the higher of the two, the contract's when they are level.     *)
Newest(infoStorage, infoContract) ==
    IF infoContract = {} \/ \E s \in infoStorage, c \in infoContract : s.height > c.height
    THEN infoStorage ELSE infoContract

(* The await of getInfoByStorage returns: any error becomes undefined.     *)
OnStartStorage ==
    /\ startPc = "storage"
    /\ startPc' = "contract"
    /\ \/ startInfo' = InfoByStorage /\ faults' = faults
       \/ startInfo' = {} /\ Fault("dbRead")
    /\ UNCHANGED <<prev_hash, prev_height, heightType, nodePc, nodeTxs, nodeBlock,
                   storageVars, contractVars>>

(* The await of getInfoByContract returns, and the rest of onStart.        *)
SetPrevious(info) ==
    IF info = {} THEN UNCHANGED <<prev_hash, prev_height, heightType>>
    ELSE \E i \in info : prev_hash' = i.hash /\ prev_height' = i.height /\ heightType' = i.type

OnStartContract ==
    /\ startPc = "contract"
    /\ startPc' = "done"
    /\ startInfo' = {}
    /\ \/ SetPrevious(Newest(startInfo, InfoByContract)) /\ faults' = faults
       \/ SetPrevious(startInfo) /\ Fault("rpcRead")
    /\ UNCHANGED <<nodePc, nodeTxs, nodeBlock, storageVars, contractVars>>

-----------------------------------------------------------------------------
(* work().  The scheduler ticks from before onStart is called, so a tick   *)
(* may come while onStart awaits its reads.                                *)
NodeTicks == startPc = "done" \/ SlowStart

(* Faulty variant: an empty list makes a block too.                        *)
WorkGetEmpty ==
    /\ NodeTicks
    /\ nodePc = "idle"
    /\ nodeTxs' = SelectTxByLength(MaxTxs)
    /\ nodePc' = "get"
    /\ UNCHANGED <<prev_hash, prev_height, heightType, startVars, nodeBlock,
                   storageVars, contractVars, faults>>

(* Faulty variant: the pool gives its transactions away at once.           *)
WorkGetRemoves ==
    /\ NodeTicks
    /\ nodePc = "idle"
    /\ SelectTxByLength(MaxTxs) # {}
    /\ nodeTxs' = SelectTxByLength(MaxTxs)
    /\ txs' = txs \ nodeTxs'
    /\ nodePc' = "get"
    /\ UNCHANGED <<prev_hash, prev_height, heightType, startVars, nodeBlock,
                   blocks, ledger, contractVars, faults>>

(* A tick in a new period reads the pool, which is not empty.              *)
WorkGet ==
    /\ NodeTicks
    /\ nodePc = "idle"
    /\ SelectTxByLength(MaxTxs) # {}
    /\ nodeTxs' = SelectTxByLength(MaxTxs)
    /\ nodePc' = "get"
    /\ UNCHANGED <<prev_hash, prev_height, heightType, startVars, nodeBlock,
                   storageVars, contractVars, faults>>

(* Faulty variant: the height before the previous block's is passed on.    *)
WorkCreateSameHeight ==
    /\ nodePc = "get"
    /\ heightType = "bigint"
    /\ nodeBlock' = {CreateBlock(prev_hash, prev_height - 1, nodeTxs)}
    /\ nodePc' = "ipfs"
    /\ UNCHANGED <<prev_hash, prev_height, heightType, startVars, nodeTxs,
                   storageVars, contractVars, faults>>

(* The read returns and the block is created after the previous one, as    *)
(* this.prev_hash and this.prev_height say now.                            *)
WorkCreate ==
    /\ nodePc = "get"
    /\ heightType = "bigint"
    /\ nodeBlock' = {CreateBlock(prev_hash, prev_height, nodeTxs)}
    /\ nodePc' = "ipfs"
    /\ UNCHANGED <<prev_hash, prev_height, heightType, startVars, nodeTxs,
                   storageVars, contractVars, faults>>

(* Or createBlock adds 1n to a number, which throws: work() is over, with  *)
(* nothing done, and with the next tick it is the same.                    *)
WorkCreateThrows ==
    /\ nodePc = "get"
    /\ heightType = "number"
    /\ nodePc' = "idle"
    /\ nodeTxs' = {}
    /\ UNCHANGED <<prev_hash, prev_height, heightType, startVars, nodeBlock, storageVars,
                   contractVars, faults>>

(* Faulty variant: prev_hash is not assigned.                              *)
WorkInsertOldHash ==
    /\ nodePc = "ipfs"
    /\ Len(ledger) < MaxBlocks
    /\ \E b \in nodeBlock :
         /\ InsertBlock(b, b.CID)
         /\ prev_hash' = prev_hash
         /\ prev_height' = b.height
    /\ heightType' = "bigint"
    /\ nodePc' = "remove"
    /\ nodeBlock' = {}
    /\ UNCHANGED <<startVars, nodeTxs, txs, contractVars, faults>>

(* IPFS stores the block, its row is inserted, and it is the previous one. *)
(* IPFS is content addressed and shared with nobody, and nothing reads     *)
(* prev_hash between the insert and the assignment.                        *)
WorkInsert ==
    /\ nodePc = "ipfs"
    /\ Len(ledger) < MaxBlocks
    /\ \E b \in nodeBlock :
         /\ InsertBlock(b, b.CID)
         /\ prev_hash' = NextHash
         /\ prev_height' = b.height
    /\ heightType' = "bigint"
    /\ nodePc' = "remove"
    /\ nodeBlock' = {}
    /\ UNCHANGED <<startVars, nodeTxs, txs, contractVars, faults>>

(* The block is given up: IPFS or the insert failed, the latter also when  *)
(* a row has its height.                                                   *)
WorkFail ==
    /\ nodePc = "ipfs"
    /\ \/ Fault("ipfs") \/ Fault("insertBlock")
       \/ (\E b \in nodeBlock : ~HeightIsFree(b.height)) /\ faults' = faults
    /\ nodePc' = "idle"
    /\ nodeTxs' = {}
    /\ nodeBlock' = {}
    /\ UNCHANGED <<prev_hash, prev_height, heightType, startVars, storageVars, contractVars>>

(* pool.remove deletes the transactions one after the other.  With the     *)
(* last one work() is over.                                                *)
WorkRemove ==
    /\ nodePc = "remove"
    /\ \E t \in nodeTxs :
         /\ \A u \in nodeTxs : t.sequence <= u.sequence
         /\ DeleteTxByHash(t)
         /\ nodeTxs' = nodeTxs \ {t}
         /\ nodePc' = IF nodeTxs = {t} THEN "idle" ELSE "remove"
    /\ UNCHANGED <<prev_hash, prev_height, heightType, startVars, nodeBlock,
                   blocks, ledger, contractVars, faults>>

(* A delete fails: pool.remove throws and the rest stays in the pool.      *)
WorkRemoveFail ==
    /\ nodePc = "remove"
    /\ Fault("deleteTx")
    /\ nodePc' = "idle"
    /\ nodeTxs' = {}
    /\ UNCHANGED <<prev_hash, prev_height, heightType, startVars, nodeBlock,
                   storageVars, contractVars>>

OnStart == OnStartStorage \/ OnStartContract

Work ==
    \/ WorkGet \/ WorkCreate \/ WorkCreateThrows \/ WorkInsert \/ WorkFail
    \/ WorkRemove \/ WorkRemoveFail

NodeNext == OnStart \/ Work

-----------------------------------------------------------------------------
NodeTypeOK ==
    /\ prev_hash \in Hash
    /\ prev_height \in -1..(MaxBlocks - 1)
    /\ startPc \in {"storage", "contract", "done"}
    /\ heightType \in {"bigint", "number"}
    /\ startInfo \subseteq [height : Uint64, hash : Hash, type : {"number"}]
    /\ nodePc \in {"idle", "get", "ipfs", "remove"}
    /\ nodeTxs \subseteq Tx
    /\ nodeBlock \subseteq [height : Uint64, prevBlock : Hash, CID : CID]
=============================================================================
