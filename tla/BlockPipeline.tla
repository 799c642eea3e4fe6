---------------------------- MODULE BlockPipeline ----------------------------
(***************************************************************************)
(* The server behind its HTTP interface: transactions come into the pool,  *)
(* Node makes blocks of them, SendBlock sends the blocks to the contract   *)
(* and deletes those that are there.  The process may crash at any step    *)
(* and is started again; the database and the chain survive.               *)
(***************************************************************************)
EXTENDS SendBlock

VARIABLE received   \* history: the transactions that the pool has taken

vars == <<received, txs, blocks, ledger, lastHeight, blockArray, blockMap,
          prev_hash, prev_height, heightType, startPc, startInfo, nodePc, nodeTxs, nodeBlock,
          sendPc, sendLast, sendData, nonce, mempool, mined, faults>>

Init ==
    /\ received = <<>>
    /\ StorageInit
    /\ RollUpInit
    /\ NodeInit
    /\ SendInit
    /\ ChainInit
    /\ FaultsInit

(* Node.receive, called in the order of the sequence numbers and only      *)
(* after RollupServer.start has started the schedulers.                    *)
Receive ==
    /\ startPc = "done"
    /\ Len(received) < MaxTxSeq
    /\ \E body \in Body :
         LET t == [sequence |-> Len(received), body |-> body]
         IN  InsertTx(t) /\ received' = Append(received, t)
    /\ UNCHANGED <<blocks, ledger, contractVars, nodeVars, sendVars, chainVars, faults>>

Crash ==
    /\ Fault("crash")
    /\ NodeRestart
    /\ SendRestart
    /\ UNCHANGED <<received, storageVars, contractVars, chainVars>>

ServerStep == NodeNext /\ UNCHANGED <<received, sendVars, chainVars>>
SendStep == Send /\ UNCHANGED received
ChainStep == Chain /\ UNCHANGED received

Next == Receive \/ ServerStep \/ SendStep \/ ChainStep \/ Crash

Spec == Init /\ [][Next]_vars

(* The schedulers tick as long as the process runs, an awaited call        *)
(* returns, and the chain mines what has the next nonce.                   *)
FairSpec ==
    /\ Spec
    /\ WF_vars(ServerStep)
    /\ WF_vars(SendStep)
    /\ WF_vars(Mine /\ UNCHANGED received)

-----------------------------------------------------------------------------
(* The variables have the types their declarations give them.              *)
TypeOK ==
    /\ received \in Seq(Tx)
    /\ txs \subseteq Tx
    /\ blocks \subseteq Header
    /\ ledger \in Seq(Header)
    /\ RollUpTypeOK
    /\ NodeTypeOK
    /\ SendTypeOK
    /\ faults \in 0..MaxFaults

(* Node never forks: over all restarts and failures, the blocks it stores  *)
(* are one chain, each after the one stored before it (Node.ts 194-219).   *)
NoFork ==
    \A i \in 1..Len(ledger) :
        /\ ledger[i].height = i - 1
        /\ ledger[i].prevBlock = IF i = 1 THEN NullHash ELSE ledger[i - 1].curBlock

(* The contract holds the blocks that Node stored, in that order from the  *)
(* first, whatever was sent twice, late, or lost (SendBlock.ts 130-160).   *)
ContractIsPrefix ==
    /\ Len(blockArray) <= Len(ledger)
    /\ blockArray = SubSeq(ledger, 1, Len(blockArray))

(* A row that was deleted from the table blocks is in the contract         *)
(* (SendBlock.ts 169-171).                                                 *)
PrunedIsPublished ==
    \A i \in 1..Len(ledger) :
        ledger[i] \notin blocks =>
            \E j \in 1..Len(blockArray) : blockArray[j] = ledger[i]

(* The newest block stays in the database, where a restart of Node finds   *)
(* it even if the chain cannot be read (LastBlockInfo.ts 77-89).           *)
NewestRowKept == Len(ledger) > 0 => ledger[Len(ledger)] \in blocks

(* Once onStart is over, prev_hash and prev_height are those of the last   *)
(* block created (the fields' comments, Node.ts 56-64).                    *)
NodeKnowsLastBlock ==
    startPc = "done" =>
        /\ prev_height = Len(ledger) - 1
        /\ prev_hash = IF ledger = <<>> THEN NullHash ELSE ledger[Len(ledger)].curBlock

(* A transaction that the pool has taken is in the pool, or in a block of  *)
(* the database or of the contract: no crash and no failed call between    *)
(* the insert of a block and the deletes from the pool loses it, and no    *)
(* delete of blocks (Node.ts 207-221, SendBlock.ts 169-171).               *)
ReceivedNotLost ==
    \A i \in 1..Len(received) :
        \/ received[i] \in txs
        \/ \E row \in blocks : received[i] \in row.CID
        \/ \E j \in 1..Len(blockArray) : received[i] \in blockArray[j].CID

(* A transaction is in two blocks only if a crash or a failed delete came  *)
(* between: each fault may add one copy, and without faults there is one.  *)
CopiesNeedFaults ==
    \A i \in 1..Len(received) :
        Cardinality({j \in 1..Len(ledger) : received[i] \in ledger[j].CID})
            <= 1 + (MaxFaults - faults)

(* Transactions come into the chain in the order of their sequence         *)
(* numbers: a block holds one only with or after all the earlier ones      *)
(* (ORDER BY sequence ASC LIMIT, RollupSchema.ts 99-101).                  *)
InSequenceOrder ==
    \A j \in 1..Len(ledger) : \A t \in ledger[j].CID :
        \A i \in 1..t.sequence : \E k \in 1..j : received[i] \in ledger[k].CID

(* The contract has a block with the n-th transaction received. *)
Published(n) ==
    /\ n <= Len(received)
    /\ \E j \in 1..Len(blockArray) : received[n] \in blockArray[j].CID

(* Every transaction that the pool has taken is published in the end: a    *)
(* tick follows every failed one, and a restart finds where to go on.      *)
EventuallyPublished ==
    \A n \in 1..MaxTxSeq : n <= Len(received) ~> Published(n)

(* The pipeline implements the abstract ledger. *)
Ledger == INSTANCE BlockLedger WITH chain <- blockArray

ImplementsLedger == Ledger!Spec
=============================================================================
