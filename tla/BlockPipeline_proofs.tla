------------------------ MODULE BlockPipeline_proofs ------------------------
(***************************************************************************)
(* Proofs about the pipeline, for every number of transactions and blocks, *)
(* every bound on the chain's pool, and any number of faults.  Those about *)
(* the chain of blocks are under NormalStart: Node ticks only after        *)
(* onStart, and the database can be read at the start.  What is sent, and  *)
(* what the contract makes of it, does not depend on how the server        *)
(* started.                                                                *)
(***************************************************************************)
EXTENDS BlockPipeline, SendBlock_proofs, FiniteSetTheorems

(* The pool holds received transactions, and one that has left is in a     *)
(* created block.                                                          *)
Pooled ==
    /\ \A i \in 1..Len(received) : received[i].sequence = i - 1
    /\ txs \cup nodeTxs \subseteq {received[i] : i \in 1..Len(received)}
    /\ \A i \in 1..Len(received) :
         received[i] \in txs \/ \E row \in Created : received[i] \in row.CID

(* The inductive invariant: what the components keep to together, what     *)
(* Node knows once it has started, and where the transactions are.         *)
IInv ==
    /\ TypeOK /\ CoreInv /\ Pooled
    /\ startPc = "done" => Knows

LEMMA TypesFromCore ==
    ASSUME CoreInv, received \in Seq(Tx), txs \subseteq Tx, faults \in 0..MaxFaults
    PROVE  TypeOK
BY DEF CoreInv, CoreTypeOK, TypeOK

LEMMA TypesFromCorePrimed ==
    ASSUME CoreInv', received' \in Seq(Tx), txs' \subseteq Tx, faults' \in 0..MaxFaults
    PROVE  TypeOK'
BY DEF CoreInv, CoreTypeOK, TypeOK

(* The pool, where a step only takes from it what a block has. *)
LEMMA PoolFrame ==
    ASSUME IInv, received' = received, Created \subseteq Created',
           txs' \cup nodeTxs' \subseteq txs \cup nodeTxs,
           \A t \in txs : t \in txs' \/ \E row \in Created : t \in row.CID
    PROVE  Pooled' /\ txs' \subseteq Tx
<1>1. txs' \subseteq Tx
  BY DEF IInv, TypeOK, NodeTypeOK
<1>2. \A i \in 1..Len(received) :
        received[i] \in txs' \/ \E row \in Created' : received[i] \in row.CID
  BY DEF IInv, Pooled
<1> QED
  BY <1>1, <1>2 DEF IInv, Pooled

-----------------------------------------------------------------------------
(* The steps. *)
LEMMA InitInv == Init => IInv
<1> SUFFICES ASSUME Init PROVE IInv
  OBVIOUS
<1>1. CoreInv
  BY CoreInit DEF Init
<1>2. received = <<>> /\ txs = {} /\ nodeTxs = {} /\ startPc = "storage" /\ faults = MaxFaults
  BY DEF Init, StorageInit, NodeInit, FaultsInit
<1>3. TypeOK
  BY <1>1, <1>2, TypesFromCore, Bounds
<1>4. Pooled
  BY <1>2 DEF Pooled
<1> QED
  BY <1>1, <1>2, <1>3, <1>4 DEF IInv

(* Receiving a transaction: its number is above those of the pool. *)
LEMMA ReceiveInv == ASSUME IInv, Receive PROVE IInv'
<1> DEFINE n == Len(received)
<1>1. PICK body \in Body :
         LET t == [sequence |-> n, body |-> body]
         IN  InsertTx(t) /\ received' = Append(received, t)
  BY DEF Receive
<1> DEFINE t == [sequence |-> n, body |-> body]
<1>2. /\ UNCHANGED <<blocks, ledger, contractVars, nodeVars, sendVars, chainVars, faults>>
      /\ n < MaxTxSeq
  BY DEF Receive
<1>3. received \in Seq(Tx) /\ n \in Nat /\ t \in Tx
  BY <1>2, Bounds DEF IInv, TypeOK, Tx
<1>4. /\ received' \in Seq(Tx)
      /\ Len(received') = n + 1
      /\ received'[n + 1] = t
      /\ \A i \in 1..n : received'[i] = received[i]
  BY <1>1, <1>3
<1>5. txs' = txs \cup {t}
  <2>1. txs' = {u \in txs : u.sequence # n} \cup {t}
    BY <1>1 DEF InsertTx
  <2>2. \A u \in txs : u.sequence # n
    BY <1>3 DEF IInv, Pooled
  <2> QED
    BY <2>1, <2>2
<1>6. CoreInv'
  BY <1>2, CoreFrame DEF IInv
<1>7. TypeOK'
  BY <1>2, <1>3, <1>4, <1>5, <1>6, TypesFromCorePrimed DEF IInv, TypeOK
<1>8. startPc' = "done" => Knows'
  BY <1>2 DEF IInv, Knows, nodeVars
<1>9. Pooled'
  <2>1. \A i \in 1..(n + 1) : received'[i].sequence = i - 1
    BY <1>3, <1>4 DEF IInv, Pooled
  <2>2. txs' \cup nodeTxs' \subseteq {received'[i] : i \in 1..(n + 1)}
    <3>1. txs \cup nodeTxs \subseteq {received'[i] : i \in 1..n}
      BY <1>3, <1>4 DEF IInv, Pooled
    <3>2. nodeTxs' = nodeTxs /\ t \in {received'[i] : i \in 1..(n + 1)}
      BY <1>2, <1>3, <1>4 DEF nodeVars
    <3> QED
      BY <3>1, <3>2, <1>3, <1>5
  <2>3. \A i \in 1..(n + 1) :
          received'[i] \in txs' \/ \E row \in Created' : received'[i] \in row.CID
    BY <1>2, <1>3, <1>4, <1>5 DEF IInv, Pooled, Created
  <2> QED
    BY <2>1, <2>2, <2>3, <1>4 DEF Pooled
<1> QED
  BY <1>6, <1>7, <1>8, <1>9 DEF IInv

LEMMA NodeInv == ASSUME NormalStart, IInv, ServerStep PROVE IInv'
<1>1. NodeNext /\ UNCHANGED <<received, sendVars, chainVars>>
  BY DEF ServerStep
<1>2. /\ CoreInv /\ txs \subseteq Tx /\ received \in Seq(Tx) /\ faults \in 0..MaxFaults
      /\ nodePc = "get" => Knows
  BY DEF IInv, TypeOK, CoreInv, Starting
<1>3. /\ CoreInv'
      /\ Created \subseteq Created'
      /\ \A t \in txs : t \in txs' \/ \E row \in Created : t \in row.CID
      /\ txs' \cup nodeTxs' \subseteq txs \cup nodeTxs
      /\ Knows' \/ UNCHANGED <<prev_hash, prev_height, ledger>>
      /\ startPc' = "done" => startPc = "done" \/ Knows'
  BY <1>1, <1>2, CoreNode
<1>4. startPc' = "done" => Knows'
  BY <1>3 DEF IInv, Knows
<1>5. Pooled' /\ txs' \subseteq Tx
  BY <1>1, <1>3, PoolFrame
<1>6. TypeOK'
  BY <1>1, <1>2, <1>3, <1>5, FaultsLeft, TypesFromCorePrimed
<1> QED
  BY <1>3, <1>4, <1>5, <1>6 DEF IInv

LEMMA SendChainInv == ASSUME IInv, SendStep \/ ChainStep PROVE IInv'
<1>1. (Send \/ Chain) /\ received' = received
  BY DEF SendStep, ChainStep
<1>2. CoreInv' /\ UNCHANGED <<nodeVars, txs, ledger>>
  BY <1>1, CoreSend, CoreChain DEF IInv
<1>3. Pooled' /\ txs' \subseteq Tx
  BY <1>1, <1>2, PoolFrame DEF Created, nodeVars
<1>4. TypeOK'
  BY <1>1, <1>2, <1>3, FaultsLeft, TypesFromCorePrimed DEF IInv, TypeOK
<1>5. startPc' = "done" => Knows'
  BY <1>2 DEF IInv, Knows, nodeVars
<1> QED
  BY <1>2, <1>3, <1>4, <1>5 DEF IInv

(* A crash leaves the database and the chain. *)
LEMMA CrashInv == ASSUME IInv, Crash PROVE IInv'
<1>1. /\ NodeRestart /\ SendRestart
      /\ UNCHANGED <<received, storageVars, contractVars, chainVars>>
      /\ faults' \in 0..MaxFaults
  BY Bounds DEF Crash, Fault, IInv, TypeOK
<1>2. CoreInv'
  BY <1>1, CoreRestart DEF IInv, storageVars
<1>3. Pooled' /\ txs' \subseteq Tx
  BY <1>1, PoolFrame DEF Created, NodeRestart, storageVars
<1>4. TypeOK'
  BY <1>1, <1>2, <1>3, TypesFromCorePrimed DEF IInv, TypeOK
<1>5. startPc' # "done"
  BY <1>1 DEF NodeRestart
<1> QED
  BY <1>2, <1>3, <1>4, <1>5 DEF IInv

(* Every step preserves the invariant. *)
LEMMA StepInv == ASSUME NormalStart, IInv, [Next]_vars PROVE IInv'
<1>1. CASE Next
  BY <1>1, ReceiveInv, NodeInv, SendChainInv, CrashInv DEF Next
<1>2. CASE UNCHANGED vars
  <2>1. CoreInv'
    BY <1>2, CoreFrame DEF vars, IInv, contractVars, nodeVars, sendVars, chainVars
  <2>2. TypeOK' /\ Pooled' /\ (startPc' = "done" => Knows')
    BY <1>2, <2>1, TypesFromCorePrimed DEF vars, IInv, TypeOK, Pooled, Created, Knows
  <2> QED
    BY <2>1, <2>2 DEF IInv
<1> QED
  BY <1>1, <1>2

(* The strengthened invariant holds in every state. *)
THEOREM PipelineInvariant == ASSUME NormalStart PROVE Spec => []IInv
<1>1. Init => IInv
  BY InitInv
<1>2. IInv /\ [Next]_vars => IInv'
  BY StepInv
<1> QED
  BY <1>1, <1>2, PTL DEF Spec

(* Node never forks the chain of blocks that it stores. *)
THEOREM NodeNeverForks == ASSUME NormalStart PROVE Spec => []NoFork
<1>1. IInv => NoFork
  BY Lengths, Bounds DEF IInv, CoreInv, Linear, NoFork, NullHash
<1> QED
  BY <1>1, PipelineInvariant, PTL

(* The contract has the blocks that Node stored, in that order. *)
THEOREM ContractHoldsPrefix == ASSUME NormalStart PROVE Spec => []ContractIsPrefix
<1>1. IInv => ContractIsPrefix
  BY ArrayIsPrefix DEF IInv, ContractIsPrefix
<1> QED
  BY <1>1, PipelineInvariant, PTL

(* What is deleted from the database is in the contract. *)
THEOREM PrunedRowsArePublished == ASSUME NormalStart PROVE Spec => []PrunedIsPublished
<1>1. IInv => PrunedIsPublished
  BY CreatedIsHeld DEF IInv, PrunedIsPublished
<1> QED
  BY <1>1, PipelineInvariant, PTL

(* The newest block is never deleted. *)
THEOREM NewestRowStays == ASSUME NormalStart PROVE Spec => []NewestRowKept
<1>1. IInv => NewestRowKept
  BY Lengths, Bounds DEF IInv, CoreInv, Kept, NewestRowKept
<1> QED
  BY <1>1, PipelineInvariant, PTL

(* After any restart Node goes on from the last block. *)
THEOREM NodeResumes == ASSUME NormalStart PROVE Spec => []NodeKnowsLastBlock
<1>1. IInv => NodeKnowsLastBlock
  BY Lengths, Bounds DEF IInv, CoreInv, Knows, Linear, NodeKnowsLastBlock, NullHash
<1> QED
  BY <1>1, PipelineInvariant, PTL

(* No transaction that the pool has taken is lost. *)
THEOREM NothingReceivedIsLost == ASSUME NormalStart PROVE Spec => []ReceivedNotLost
<1>1. IInv => ReceivedNotLost
  <2> SUFFICES ASSUME IInv, NEW i \in 1..Len(received), received[i] \notin txs
               PROVE  \/ \E row \in blocks : received[i] \in row.CID
                      \/ \E j \in 1..Len(blockArray) : received[i] \in blockArray[j].CID
    BY DEF ReceivedNotLost
  <2>1. PICK k \in 1..Len(ledger) : received[i] \in ledger[k].CID
    BY DEF IInv, Pooled, Created
  <2> QED
    BY <2>1, CreatedIsHeld DEF IInv
<1> QED
  BY <1>1, PipelineInvariant, PTL

-----------------------------------------------------------------------------
(* However Node starts: also when it ticks before onStart is over, or when *)
(* the database cannot be read.                                            *)

SoundPipeline ==
    /\ SoundInv
    /\ received \in Seq(Tx) /\ txs \subseteq Tx
    /\ faults \in 0..MaxFaults

LEMMA SoundPipelineInit == Init => SoundPipeline
<1> SUFFICES ASSUME Init PROVE SoundPipeline
  OBVIOUS
<1>1. SoundInv
  BY SoundInit DEF Init
<1> QED
  BY <1>1, Bounds DEF Init, StorageInit, FaultsInit, SoundPipeline

(* Every step preserves it, and drives the contract as it may be driven.   *)
LEMMA SoundPipelineStep ==
    ASSUME SoundPipeline, [Next]_vars
    PROVE  SoundPipeline' /\ [RollUpNext]_contractVars
<1>1. /\ SoundInv /\ txs \subseteq Tx /\ received \in Seq(Tx)
      /\ faults \in 0..MaxFaults /\ MaxFaults \in Nat
  BY Bounds DEF SoundPipeline
<1>2. CASE Receive
  <2>1. PICK body \in Body :
           LET t == [sequence |-> Len(received), body |-> body]
           IN  InsertTx(t) /\ received' = Append(received, t)
    BY <1>2 DEF Receive
  <2>2. [sequence |-> Len(received), body |-> body] \in Tx
    BY <1>1, <1>2, Bounds DEF Receive, Tx
  <2>3. received' \in Seq(Tx) /\ txs' \subseteq Tx
    BY <1>1, <2>1, <2>2 DEF InsertTx
  <2>4. UNCHANGED <<blocks, ledger, contractVars, nodeVars, sendVars, chainVars, faults>>
    BY <1>2 DEF Receive
  <2> QED
    BY <1>1, <2>3, <2>4, SoundFrame DEF SoundPipeline
<1>3. CASE ServerStep
  <2>1. NodeNext /\ UNCHANGED <<received, sendVars, chainVars>>
    BY <1>3 DEF ServerStep
  <2>2. SoundInv' /\ UNCHANGED contractVars
    BY <1>1, <2>1, SoundNode
  <2>3. txs' \subseteq Tx
    BY <1>1, <2>1
    DEF NodeNext, OnStart, OnStartStorage, OnStartContract, Work, WorkGet, WorkCreate,
        WorkInsert, WorkCreateThrows, WorkFail, WorkRemove, WorkRemoveFail, DeleteTxByHash, storageVars
  <2> QED
    BY <1>1, <2>1, <2>2, <2>3, FaultsLeft DEF SoundPipeline
<1>4. CASE SendStep \/ ChainStep
  <2>1. (Send \/ Chain) /\ received' = received
    BY <1>4 DEF SendStep, ChainStep
  <2>2. SoundInv' /\ (RollUpNext \/ UNCHANGED contractVars)
    BY <1>1, <2>1, SoundSend, SoundChain
  <2>3. txs' = txs
    BY <2>1
    DEF Send, SendRead, SendNoBlock, SendSelect, SendAdd, SendAddFail, SendResync,
        SendResyncFail, SendPrune, SendPruneFail, Chain, Mine, Drop, storageVars
  <2> QED
    BY <1>1, <2>1, <2>2, <2>3, FaultsLeft DEF SoundPipeline
<1>5. CASE Crash
  <2>1. /\ NodeRestart /\ SendRestart
        /\ UNCHANGED <<received, storageVars, contractVars, chainVars>>
        /\ faults' \in 0..MaxFaults
    BY <1>1, <1>5 DEF Crash, Fault
  <2> QED
    BY <1>1, <2>1, SoundRestart DEF SoundPipeline, storageVars
<1>6. CASE UNCHANGED vars
  <2>1. UNCHANGED <<received, txs, blocks, ledger, faults, contractVars, nodeVars, sendVars, chainVars>>
    BY <1>6 DEF vars, contractVars, nodeVars, sendVars, chainVars
  <2> QED
    BY <1>1, <2>1, SoundFrame DEF SoundPipeline
<1> QED
  BY <1>2, <1>3, <1>4, <1>5, <1>6 DEF Next

(* What the chain is sent is sound in every state, for any start: also     *)
(* when blocks were made after one that is not the last.                   *)
THEOREM PipelineSound == Spec => []SoundPipeline
<1>1. SoundPipeline /\ [Next]_vars => SoundPipeline'
  BY SoundPipelineStep
<1> QED
  BY <1>1, SoundPipelineInit, PTL DEF Spec

(* The state of the pipeline has its types. *)
THEOREM PipelineTypeCorrect == Spec => []TypeOK
<1>1. SoundPipeline => TypeOK
  BY DEF SoundPipeline, SoundInv, CoreTypeOK, TypeOK
<1> QED
  BY <1>1, PipelineSound, PTL

(* What is sent, after whatever was pruned, forked or deleted since the    *)
(* contract was asked, is its next block or one that it has.               *)
THEOREM PipelineSendsNext == Spec => []SendsNext
<1>1. SoundPipeline => SendsNext
  BY SoundSendsNext DEF SoundPipeline
<1> QED
  BY <1>1, PipelineSound, PTL

(* The contract is driven as its specification allows, so that all that is *)
(* proved of the contract by itself holds in the pipeline.                 *)
THEOREM PipelineDrivesContract == Spec => RollUpSpec
<1>1. Init => RollUpInit
  BY DEF Init
<1>2. SoundPipeline /\ [Next]_vars => [RollUpNext]_contractVars
  BY SoundPipelineStep
<1> QED
  BY <1>1, <1>2, PipelineSound, PTL DEF Spec, RollUpSpec

(* Whatever was forked or lost in the database, the contract has one chain *)
(* of headers and answers its reads exactly.                               *)
THEOREM PipelineContractChain == Spec => [](ChainLinked /\ ReadsExact /\ HashLookup)
  BY PipelineDrivesContract, ContractChainLinked, ContractReadsExact, ContractHashLookup, PTL

(* No transaction that was sent waits behind a nonce that none has, if the *)
(* chain forgets none and its count can be read after every failed call.   *)
THEOREM PipelineLeavesNoNonceGap ==
    ASSUME "resync" \notin Faults, "drop" \notin Faults
    PROVE  Spec => []NoNonceGap
<1>1. Init => Gapless
  BY GaplessInit DEF Init
<1>2. SoundPipeline /\ Gapless /\ [Next]_vars => Gapless'
  <2> SUFFICES ASSUME SoundPipeline, Gapless, [Next]_vars PROVE Gapless'
    OBVIOUS
  <2>1. SendTypeOK
    BY DEF SoundPipeline, SoundInv, CoreTypeOK
  <2>2. CASE SendStep
    BY <2>1, <2>2, GaplessSend DEF SendStep
  <2>3. CASE ChainStep
    BY <2>1, <2>3, GaplessChain DEF ChainStep
  <2>4. CASE Receive \/ ServerStep \/ Crash \/ UNCHANGED vars
    BY <2>4, GaplessFrame DEF Receive, ServerStep, Crash, vars, sendVars, chainVars
  <2> QED
    BY <2>2, <2>3, <2>4 DEF Next
<1>3. Gapless => NoNonceGap
  BY DEF Gapless
<1> QED
  BY <1>1, <1>2, <1>3, PipelineSound, PTL DEF Spec

-----------------------------------------------------------------------------
(* The order of the blocks.  A transaction in a block has all earlier ones *)
(* with or before it, and what Node took from the pool has them with it or *)
(* in blocks.                                                              *)
Ordered ==
    /\ \A j \in 1..Len(ledger) : \A t \in ledger[j].CID : \A i \in 1..t.sequence :
         i <= Len(received) /\ \E k \in 1..j : received[i] \in ledger[k].CID
    /\ nodePc \in {"get", "ipfs"} =>
         \A t \in nodeTxs : \A i \in 1..t.sequence :
           /\ i <= Len(received)
           /\ received[i] \in nodeTxs \/ \E row \in Created : received[i] \in row.CID
    /\ IsFiniteSet(txs)

(* It stays while the ledger does and Node takes nothing. *)
LEMMA OrderedKept ==
    ASSUME Ordered, ledger' = ledger,
           nodePc' \in {"get", "ipfs"} => nodePc \in {"get", "ipfs"} /\ nodeTxs' = nodeTxs,
           Len(received) \in Nat, Len(received') \in Nat, Len(received) <= Len(received'),
           \A i \in 1..Len(received) : received'[i] = received[i],
           IsFiniteSet(txs')
    PROVE  Ordered'
<1>1. ASSUME NEW n, NEW i \in 1..n, i <= Len(received)
      PROVE  i <= Len(received') /\ received'[i] = received[i]
  BY <1>1
<1>2. ASSUME NEW j \in 1..Len(ledger'), NEW t \in ledger'[j].CID, NEW i \in 1..t.sequence
      PROVE  i <= Len(received') /\ \E k \in 1..j : received'[i] \in ledger'[k].CID
  <2>1. i <= Len(received) /\ \E k \in 1..j : received[i] \in ledger[k].CID
    BY <1>2 DEF Ordered
  <2> QED
    BY <1>1, <2>1
<1>3. ASSUME nodePc' \in {"get", "ipfs"}, NEW t \in nodeTxs', NEW i \in 1..t.sequence
      PROVE  /\ i <= Len(received')
             /\ received'[i] \in nodeTxs' \/ \E row \in Created' : received'[i] \in row.CID
  <2>1. /\ nodeTxs' = nodeTxs /\ Created' = Created
        /\ i <= Len(received)
        /\ received[i] \in nodeTxs \/ \E row \in Created : received[i] \in row.CID
    BY <1>3 DEF Ordered, Created
  <2> QED
    BY <1>1, <2>1
<1> QED
  BY <1>2, <1>3 DEF Ordered

(* LIMIT leaves out a transaction only if it leaves out the later ones. *)
LEMMA SelectedWithEarlier ==
    ASSUME txs \subseteq Tx, IsFiniteSet(txs), NEW t \in SelectTxByLength(MaxTxs),
           NEW u \in txs, u.sequence <= t.sequence
    PROVE  u \in SelectTxByLength(MaxTxs)
<1> DEFINE Before(s) == {v \in txs : v.sequence < s}
<1>1. Cardinality(Before(t.sequence)) < MaxTxs
  BY DEF SelectTxByLength
<1>2. Before(u.sequence) \subseteq Before(t.sequence)
  BY BlockAssumption DEF SelectTxByLength, Tx
<1>3. IsFiniteSet(Before(t.sequence))
  BY FS_Subset
<1>4. Cardinality(Before(u.sequence)) < MaxTxs
  <2> HIDE DEF Before
  <2>1. /\ IsFiniteSet(Before(u.sequence))
        /\ Cardinality(Before(u.sequence)) <= Cardinality(Before(t.sequence))
    BY <1>2, <1>3, FS_Subset
  <2>2. Cardinality(Before(u.sequence)) \in Nat /\ Cardinality(Before(t.sequence)) \in Nat
    BY <1>3, <2>1, FS_CardinalityType
  <2> QED
    BY <1>1, <2>1, <2>2, NodeAssumption
<1> QED
  BY <1>4 DEF SelectTxByLength

LEMMA WorkGetOrdered ==
    ASSUME IInv, Ordered, WorkGet, UNCHANGED received
    PROVE  Ordered'
<1>1. /\ nodeTxs' = SelectTxByLength(MaxTxs) /\ nodeTxs' \subseteq txs
      /\ UNCHANGED <<received, txs, ledger>>
  BY DEF WorkGet, SelectTxByLength, storageVars
<1>2. ASSUME NEW t \in nodeTxs', NEW i \in 1..t.sequence
      PROVE  /\ i <= Len(received)
             /\ received[i] \in nodeTxs' \/ \E row \in Created : received[i] \in row.CID
  <2>1. PICK n \in 1..Len(received) : t = received[n]
    BY <1>1 DEF IInv, Pooled
  <2>2. t.sequence = n - 1 /\ Len(received) \in Nat
    BY <2>1 DEF IInv, Pooled, TypeOK
  <2>3. i \in 1..Len(received) /\ received[i].sequence <= t.sequence
    BY <2>2 DEF IInv, Pooled
  <2>4. CASE received[i] \in txs
    <3>1. txs \subseteq Tx /\ IsFiniteSet(txs)
      BY DEF IInv, TypeOK, Ordered
    <3> QED
      BY <1>1, <2>3, <2>4, <3>1, SelectedWithEarlier
  <2> QED
    BY <2>3, <2>4 DEF IInv, Pooled
<1> QED
  BY <1>1, <1>2 DEF Ordered, Created

(* The ledger after an insert. *)
LEMMA AppendedBlock ==
    ASSUME IInv, WorkInsert, UNCHANGED <<received, sendVars, chainVars>>
    PROVE  /\ Len(ledger) \in Nat /\ Len(ledger') = Len(ledger) + 1
           /\ ledger'[Len(ledger) + 1].CID = nodeTxs
           /\ \A i \in 1..Len(ledger) : ledger'[i] = ledger[i]
<1> DEFINE n == Len(ledger)
           row == [height |-> n, curBlock |-> n + 1, prevBlock |-> n, CID |-> nodeTxs]
<1>1. ledger' = Append(ledger, row)
  BY CoreWorkInsert DEF IInv
<1>2. ledger \in Seq(Header) /\ n \in Nat /\ n < MaxBlocks /\ nodeTxs \subseteq Tx
  BY Lengths, Bounds DEF IInv, TypeOK, NodeTypeOK, WorkInsert
<1>3. row \in Header
  BY <1>2, Bounds DEF Header, CID
<1> QED
  BY <1>1, <1>2, <1>3

LEMMA WorkInsertOrdered ==
    ASSUME IInv, Ordered, WorkInsert, UNCHANGED <<received, sendVars, chainVars>>
    PROVE  Ordered'
<1> DEFINE n == Len(ledger)
<1>1. nodePc = "ipfs" /\ nodePc' = "remove" /\ txs' = txs
  BY DEF WorkInsert
<1>2. /\ n \in Nat /\ Len(ledger') = n + 1 /\ ledger'[n + 1].CID = nodeTxs
      /\ \A i \in 1..n : ledger'[i] = ledger[i]
  BY AppendedBlock
<1>3. ASSUME NEW j \in 1..(n + 1), NEW t \in ledger'[j].CID, NEW i \in 1..t.sequence
      PROVE  i <= Len(received) /\ \E k \in 1..j : received[i] \in ledger'[k].CID
  <2>1. CASE j \in 1..n
    <3>1. i <= Len(received) /\ \E k \in 1..j : received[i] \in ledger[k].CID
      BY <1>2, <2>1 DEF Ordered
    <3> QED
      BY <1>2, <2>1, <3>1
  <2>2. CASE j = n + 1
    <3>1. /\ i <= Len(received)
          /\ received[i] \in nodeTxs \/ \E r \in Created : received[i] \in r.CID
      BY <1>1, <1>2, <2>2 DEF Ordered
    <3>2. CASE received[i] \in nodeTxs
      BY <1>2, <2>2, <3>1, <3>2
    <3>3. CASE \E r \in Created : received[i] \in r.CID
      BY <1>2, <2>2, <3>1, <3>3 DEF Created
    <3> QED
      BY <3>1, <3>2, <3>3
  <2> QED
    BY <1>2, <2>1, <2>2
<1> QED
  BY <1>1, <1>2, <1>3 DEF Ordered, WorkInsert

LEMMA StepOrdered == ASSUME IInv, Ordered, [Next]_vars PROVE Ordered'
<1>1. /\ received \in Seq(Tx) /\ Len(received) \in Nat /\ IsFiniteSet(txs)
  BY DEF IInv, TypeOK, Ordered
<1>2. CASE Receive
  <2>1. PICK body \in Body :
           LET t == [sequence |-> Len(received), body |-> body]
           IN  InsertTx(t) /\ received' = Append(received, t)
    BY <1>2 DEF Receive
  <2> DEFINE t == [sequence |-> Len(received), body |-> body]
  <2>2. t \in Tx /\ UNCHANGED <<ledger, nodePc, nodeTxs>>
    BY <1>1, <1>2, Bounds DEF Receive, Tx, nodeVars
  <2>3. /\ Len(received') = Len(received) + 1
        /\ \A i \in 1..Len(received) : received'[i] = received[i]
    BY <1>1, <2>1, <2>2
  <2>4. IsFiniteSet(txs')
    <3>1. txs' = {u \in txs : u.sequence # Len(received)} \cup {t}
      BY <2>1 DEF InsertTx
    <3>2. IsFiniteSet({u \in txs : u.sequence # Len(received)})
      BY <1>1, FS_Subset
    <3> QED
      BY <3>1, <3>2, FS_AddElement
  <2> QED
    BY <1>1, <2>2, <2>3, <2>4, OrderedKept
<1>3. CASE ServerStep
  <2>1. NodeNext /\ UNCHANGED <<received, sendVars, chainVars>>
    BY <1>3 DEF ServerStep
  <2>2. CASE WorkGet
    BY <2>1, <2>2, WorkGetOrdered
  <2>3. CASE WorkInsert
    BY <2>1, <2>3, WorkInsertOrdered
  <2>4. CASE ~WorkGet /\ ~WorkInsert
    <3>1. /\ ledger' = ledger /\ txs' \subseteq txs
          /\ nodePc' \in {"get", "ipfs"} => nodePc \in {"get", "ipfs"} /\ nodeTxs' = nodeTxs
      BY <2>1, <2>4
      DEF NodeNext, OnStart, OnStartStorage, OnStartContract, Work, WorkCreate, WorkCreateThrows, WorkFail,
          WorkRemove, WorkRemoveFail, DeleteTxByHash, storageVars
    <3>2. IsFiniteSet(txs')
      BY <1>1, <3>1, FS_Subset
    <3> QED
      BY <1>1, <2>1, <3>1, <3>2, OrderedKept
  <2> QED
    BY <2>2, <2>3, <2>4
<1>4. CASE SendStep \/ ChainStep
  <2>1. UNCHANGED <<received, nodePc, nodeTxs, txs, ledger>>
    BY <1>4, CoreSend, CoreChain DEF SendStep, ChainStep, IInv, nodeVars
  <2> QED
    BY <1>1, <2>1, OrderedKept
<1>5. CASE Crash \/ UNCHANGED vars
  <2>1. /\ UNCHANGED <<received, txs, ledger>>
        /\ nodePc' = "idle" \/ UNCHANGED <<nodePc, nodeTxs>>
    BY <1>5 DEF Crash, NodeRestart, storageVars, vars
  <2> QED
    BY <1>1, <2>1, OrderedKept
<1> QED
  BY <1>2, <1>3, <1>4, <1>5 DEF Next

(* The blocks hold the transactions in the order of their numbers, over    *)
(* any number of crashes and of deletes from the pool that fail.           *)
THEOREM BlocksInOrder == ASSUME NormalStart PROVE Spec => []InSequenceOrder
<1>1. Init => Ordered
  BY FS_EmptySet DEF Init, StorageInit, NodeInit, Ordered
<1>2. IInv /\ Ordered /\ [Next]_vars => Ordered'
  BY StepOrdered
<1>3. Ordered => InSequenceOrder
  BY DEF Ordered, InSequenceOrder
<1> QED
  BY <1>1, <1>2, <1>3, PipelineInvariant, PTL DEF Spec

-----------------------------------------------------------------------------
(* The copies.  A transaction that waits in the pool may come into one     *)
(* more block; one that is being removed does so only after a fault.       *)
Copies(t) == {j \in 1..Len(ledger) : t \in ledger[j].CID}

Waits(t) == t \in txs /\ ~(nodePc = "remove" /\ t \in nodeTxs)

Copied ==
    /\ nodePc \in {"get", "ipfs"} => nodeTxs \subseteq txs
    /\ \A j \in 1..Len(ledger) : ledger[j].CID \subseteq {received[i] : i \in 1..Len(received)}
    /\ \A i \in 1..Len(received) :
         Cardinality(Copies(received[i])) + (IF Waits(received[i]) THEN 1 ELSE 0)
             <= 1 + (MaxFaults - faults)

LEMMA CopiesFinite ==
    ASSUME IInv, NEW t
    PROVE  IsFiniteSet(Copies(t)) /\ Cardinality(Copies(t)) \in Nat
<1>1. 0 \in Int /\ 1 \in Int /\ Len(ledger) \in Int
  BY Lengths, Bounds DEF IInv
<1>2. IsFiniteSet(1..Len(ledger))
  BY <1>1, FS_Interval
<1> QED
  BY <1>2, FS_Subset, FS_CardinalityType DEF Copies

(* Steps that put nothing in blocks or in the pool: either nothing waits   *)
(* that did not, or a fault has happened.                                  *)
LEMMA CopiedKept ==
    ASSUME IInv, IInv', Copied, UNCHANGED <<received, ledger>>,
           nodePc' \in {"get", "ipfs"} => nodeTxs' \subseteq txs',
           \/ faults' <= faults /\ \A t : Waits(t)' => Waits(t)
           \/ faults' = faults - 1
    PROVE  Copied'
<1>1. faults \in Int /\ faults' \in Int /\ MaxFaults \in Int
  BY Bounds DEF IInv, TypeOK
<1>2. ASSUME NEW i \in 1..Len(received)
      PROVE  Cardinality(Copies(received[i])) + (IF Waits(received[i])' THEN 1 ELSE 0)
                 <= 1 + (MaxFaults - faults')
  <2>1. /\ Cardinality(Copies(received[i])) \in Nat
        /\ Cardinality(Copies(received[i])) + (IF Waits(received[i]) THEN 1 ELSE 0)
             <= 1 + (MaxFaults - faults)
    BY CopiesFinite DEF Copied
  <2> DEFINE c == Cardinality(Copies(received[i]))
  <2> HIDE DEF c
  <2>2. CASE faults' <= faults /\ (Waits(received[i])' => Waits(received[i]))
    BY <1>1, <2>1, <2>2 DEF c
  <2>3. CASE faults' = faults - 1
    BY <1>1, <2>1, <2>3 DEF c
  <2> QED
    BY <2>2, <2>3
<1>3. \A t : Copies(t)' = Copies(t)
  BY DEF Copies
<1> QED
  BY <1>2, <1>3 DEF Copied

LEMMA ReceiveCopied == ASSUME IInv, IInv', Copied, Receive PROVE Copied'
<1> DEFINE n == Len(received)
<1>1. PICK body \in Body :
         LET new == [sequence |-> n, body |-> body]
         IN  InsertTx(new) /\ received' = Append(received, new)
  BY DEF Receive
<1> DEFINE new == [sequence |-> n, body |-> body]
<1>2. UNCHANGED <<ledger, nodePc, nodeTxs, faults>> /\ n < MaxTxSeq /\ n \in Nat
  BY DEF Receive, nodeVars, IInv, TypeOK
<1>3. new \in Tx /\ received \in Seq(Tx)
  BY <1>2, Bounds DEF IInv, TypeOK, Tx
<1>4. /\ Len(received') = n + 1 /\ received'[n + 1] = new
      /\ \A i \in 1..n : received'[i] = received[i] /\ received[i].sequence = i - 1
  BY <1>1, <1>2, <1>3 DEF IInv, Pooled
<1>5. txs' = {u \in txs : u.sequence # n} \cup {new}
  BY <1>1 DEF InsertTx
<1>6. \A u \in txs : u.sequence # n
  BY <1>2 DEF IInv, Pooled
<1>7. \A u : u \in txs' <=> u \in txs \/ u = new
  BY <1>5, <1>6
<1>8. \A u : Copies(u)' = Copies(u)
  BY <1>2 DEF Copies
<1>9. Copies(new) = {}
  <2>1. \A i \in 1..n : received[i] # new
    BY <1>2, <1>4
  <2> QED
    BY <2>1 DEF Copied, Copies
<1>10. ASSUME NEW i \in 1..(n + 1), NEW u, u = received'[i]
       PROVE  Cardinality(Copies(u)') + (IF Waits(u)' THEN 1 ELSE 0) <= 1 + (MaxFaults - faults)
  <2>1. CASE i \in 1..n
    <3>1. u = received[i] /\ u # new
      BY <1>2, <1>4, <1>10, <2>1
    <3>2. Waits(u)' <=> Waits(u)
      BY <1>2, <1>7, <3>1 DEF Waits
    <3>3. Cardinality(Copies(u)) + (IF Waits(u) THEN 1 ELSE 0) <= 1 + (MaxFaults - faults)
      BY <2>1, <3>1 DEF Copied
    <3> QED
      BY <1>2, <1>8, <3>2, <3>3
  <2>2. CASE i = n + 1
    <3>1. Cardinality(Copies(u)') = 0
      BY <1>4, <1>8, <1>9, <1>10, <2>2, FS_EmptySet
    <3>2. MaxFaults \in Int /\ faults \in Int /\ faults <= MaxFaults
      BY Bounds DEF IInv, TypeOK
    <3> QED
      BY <3>1, <3>2
  <2> QED
    BY <1>2, <2>1, <2>2
<1>11. \A j \in 1..Len(ledger') : ledger'[j].CID \subseteq {received'[i] : i \in 1..Len(received')}
  BY <1>2, <1>4 DEF Copied
<1>12. nodePc' \in {"get", "ipfs"} => nodeTxs' \subseteq txs'
  BY <1>2, <1>7 DEF Copied
<1> QED
  BY <1>2, <1>4, <1>10, <1>11, <1>12 DEF Copied

LEMMA WorkInsertCopied ==
    ASSUME IInv, IInv', Copied, WorkInsert, UNCHANGED <<received, sendVars, chainVars>>
    PROVE  Copied'
<1> DEFINE n == Len(ledger)
<1>1. /\ nodePc = "ipfs" /\ nodePc' = "remove"
      /\ UNCHANGED <<received, nodeTxs, txs, faults>>
      /\ nodeTxs \subseteq txs
  BY DEF WorkInsert, Copied
<1>2. /\ n \in Nat /\ Len(ledger') = n + 1 /\ ledger'[n + 1].CID = nodeTxs
      /\ \A i \in 1..n : ledger'[i] = ledger[i]
  BY AppendedBlock
<1>3. ASSUME NEW i \in 1..Len(received)
      PROVE  Cardinality(Copies(received[i])') + (IF Waits(received[i])' THEN 1 ELSE 0)
                 <= 1 + (MaxFaults - faults)
  <2> DEFINE t == received[i]
             old == Copies(t)
  <2>1. IsFiniteSet(old) /\ Cardinality(old) \in Nat
    BY CopiesFinite
  <2>2. Cardinality(old) + (IF Waits(t) THEN 1 ELSE 0) <= 1 + (MaxFaults - faults)
    BY DEF Copied
  <2>3. CASE t \in nodeTxs
    <3>1. Copies(t)' = old \cup {n + 1} /\ n + 1 \notin old
      BY <1>1, <1>2, <2>3 DEF Copies
    <3>2. Cardinality(Copies(t)') = Cardinality(old) + 1
      BY <2>1, <3>1, FS_AddElement
    <3>3. Waits(t) /\ ~Waits(t)'
      BY <1>1, <2>3 DEF Waits
    <3> QED
      BY <1>1, <2>1, <2>2, <3>2, <3>3
  <2>4. CASE t \notin nodeTxs
    <3>1. Copies(t)' = old
      BY <1>1, <1>2, <2>4 DEF Copies
    <3>2. Waits(t)' <=> Waits(t)
      BY <1>1, <2>4 DEF Waits
    <3> QED
      BY <1>1, <2>2, <3>1, <3>2
  <2> QED
    BY <2>3, <2>4
<1>4. \A j \in 1..(n + 1) : ledger'[j].CID \subseteq {received[i] : i \in 1..Len(received)}
  BY <1>2 DEF Copied, IInv, Pooled
<1> QED
  BY <1>1, <1>2, <1>3, <1>4 DEF Copied

LEMMA StepCopied == ASSUME IInv, IInv', Copied, [Next]_vars PROVE Copied'
<1>1. faults \in Int
  BY DEF IInv, TypeOK
<1>2. CASE ServerStep
  <2>1. NodeNext /\ UNCHANGED <<received, sendVars, chainVars>>
    BY <1>2 DEF ServerStep
  <2>2. CASE WorkInsert
    BY <2>1, <2>2, WorkInsertCopied
  <2>3. CASE WorkGet
    <3>1. /\ UNCHANGED <<ledger, txs, faults>> /\ nodePc = "idle" /\ nodePc' = "get"
          /\ nodeTxs' \subseteq txs
      BY <2>3 DEF WorkGet, SelectTxByLength, storageVars
    <3> QED
      BY <1>1, <2>1, <3>1, CopiedKept DEF Waits
  <2>4. CASE WorkRemove
    <3>1. PICK t \in nodeTxs :
             /\ txs' = txs \ {t} /\ nodeTxs' = nodeTxs \ {t}
             /\ nodePc' = IF nodeTxs = {t} THEN "idle" ELSE "remove"
      BY <2>4 DEF WorkRemove, DeleteTxByHash
    <3>2. UNCHANGED <<ledger, faults>> /\ nodePc = "remove"
      BY <2>4 DEF WorkRemove
    <3>3. \A u : Waits(u)' => Waits(u)
      BY <3>1, <3>2 DEF Waits
    <3>4. nodePc' \notin {"get", "ipfs"}
      BY <3>1
    <3> QED
      BY <1>1, <2>1, <3>2, <3>3, <3>4, CopiedKept
  <2>5. CASE WorkRemoveFail
    BY <2>1, <2>5, CopiedKept DEF WorkRemoveFail, Fault, storageVars
  <2>6. CASE OnStart \/ WorkCreate \/ WorkCreateThrows \/ WorkFail
    <3>1. /\ UNCHANGED <<ledger, txs>>
          /\ faults' = faults \/ faults' = faults - 1
          /\ \/ UNCHANGED <<nodePc, nodeTxs>>
             \/ nodePc \in {"get", "ipfs"} /\ nodePc' = "idle"
             \/ nodePc = "get" /\ nodePc' = "ipfs" /\ nodeTxs' = nodeTxs
      BY <2>6 DEF OnStart, OnStartStorage, OnStartContract, WorkCreate, WorkCreateThrows, WorkFail, Fault, storageVars
    <3>2. \A t : Waits(t)' => Waits(t)
      BY <3>1 DEF Waits
    <3>3. nodePc' \in {"get", "ipfs"} => nodeTxs' \subseteq txs'
      BY <3>1 DEF Copied
    <3> QED
      BY <1>1, <2>1, <3>1, <3>2, <3>3, CopiedKept
  <2> QED
    BY <2>1, <2>2, <2>3, <2>4, <2>5, <2>6 DEF NodeNext, Work
<1>3. CASE SendStep \/ ChainStep
  <2>1. UNCHANGED <<received, nodePc, nodeTxs, txs, ledger>>
    BY <1>3, CoreSend, CoreChain DEF SendStep, ChainStep, IInv, nodeVars
  <2>2. faults' <= faults
    BY <1>1, <1>3
    DEF SendStep, Send, SendRead, SendNoBlock, SendSelect, SendAdd, SendAddFail, SendResync,
        SendResyncFail, SendPrune, SendPruneFail, ChainStep, Chain, Mine, Drop, Fault
  <2> QED
    BY <2>1, <2>2, CopiedKept DEF Waits, Copied
<1>4. CASE Crash
  BY <1>4, CopiedKept DEF Crash, Fault, NodeRestart, storageVars
<1>5. CASE UNCHANGED vars
  <2>1. UNCHANGED <<received, nodePc, nodeTxs, txs, ledger, faults>>
    BY <1>5 DEF vars
  <2> QED
    BY <1>1, <2>1, CopiedKept DEF Waits, Copied
<1> QED
  BY <1>2, <1>3, <1>4, <1>5, ReceiveCopied DEF Next

(* A transaction is in one block, and in one more for each fault at most.  *)
THEOREM CopiesAreBounded == ASSUME NormalStart PROVE Spec => []CopiesNeedFaults
<1>1. Init => Copied
  BY DEF Init, StorageInit, NodeInit, Copied
<1>2. IInv /\ IInv' /\ Copied /\ [Next]_vars => Copied'
  BY StepCopied
<1>3. IInv /\ Copied => CopiesNeedFaults
  <2> SUFFICES ASSUME IInv, Copied, NEW i \in 1..Len(received)
               PROVE  Cardinality(Copies(received[i])) <= 1 + (MaxFaults - faults)
    BY DEF CopiesNeedFaults, Copies
  <2>1. Cardinality(Copies(received[i])) \in Nat
    BY CopiesFinite
  <2>2. faults \in Int /\ MaxFaults \in Int
    BY Bounds DEF IInv, TypeOK
  <2> DEFINE c == Cardinality(Copies(received[i]))
  <2>3. c + (IF Waits(received[i]) THEN 1 ELSE 0) <= 1 + (MaxFaults - faults)
    BY DEF Copied
  <2> HIDE DEF c
  <2>4. c \in Nat
    BY <2>1 DEF c
  <2>5. c <= 1 + (MaxFaults - faults)
    BY <2>2, <2>3, <2>4
  <2> QED
    BY <2>5 DEF c
<1> QED
  BY <1>1, <1>2, <1>3, PipelineInvariant, PTL DEF Spec

-----------------------------------------------------------------------------
(* The pipeline implements the abstract ledger: storing a block creates    *)
(* it, mining an accepted call publishes it, and all else changes nothing  *)
(* that the ledger shows.                                                  *)

LEMMA ReceiveRefines == ASSUME IInv, Receive PROVE Ledger!Receive
<1> DEFINE n == Len(received)
<1>1. PICK body \in Body : received' = Append(received, [sequence |-> n, body |-> body])
  BY DEF Receive
<1>2. UNCHANGED <<ledger, blockArray>> /\ n < MaxTxSeq
  BY DEF Receive, contractVars
<1>3. n \in Nat
  BY DEF IInv, TypeOK
<1> DEFINE t == [sequence |-> n, body |-> body]
<1>4. t \in Tx /\ t.sequence = n
  BY <1>2, <1>3, Bounds DEF Tx
<1> QED
  BY <1>1, <1>2, <1>4 DEF Ledger!Receive, Ledger!Tx, Tx

LEMMA WorkInsertRefines ==
    ASSUME IInv, WorkInsert, UNCHANGED <<received, sendVars, chainVars>>
    PROVE  Ledger!Create
<1>1. nodePc = "ipfs" /\ UNCHANGED <<received, blockArray>>
  BY DEF WorkInsert, contractVars
<1>2. ledger' = Append(ledger, [height |-> Len(ledger), curBlock |-> Len(ledger) + 1,
                                prevBlock |-> Len(ledger), CID |-> nodeTxs])
  BY CoreWorkInsert DEF IInv
<1>3. nodeTxs \in CID /\ nodeTxs # {}
  BY <1>1 DEF IInv, CoreInv, Building, TypeOK, NodeTypeOK, CID
<1>4. \A t \in nodeTxs : \E i \in 1..Len(received) : received[i] = t
  BY DEF IInv, Pooled
<1> QED
  BY <1>1, <1>2, <1>3, <1>4 DEF Ledger!Create, Ledger!CID, Ledger!Tx, CID, Tx

LEMMA MineRefines ==
    ASSUME IInv, IInv', Mine, UNCHANGED received
    PROVE  Ledger!Publish \/ UNCHANGED Ledger!ledgerVars
<1>1. PICK m \in mempool :
         Add(m.header) \/ (~AddAccepted(m.header) /\ UNCHANGED contractVars)
  BY DEF Mine
<1>2. UNCHANGED <<received, ledger>>
  BY DEF Mine, storageVars
<1>3. CASE UNCHANGED contractVars
  BY <1>2, <1>3 DEF contractVars, Ledger!ledgerVars
<1>4. CASE Add(m.header)
  <2> DEFINE c == Len(blockArray)
  <2>1. blockArray' = Append(blockArray, m.header)
    BY <1>4 DEF Add
  <2>2. m.header \in Header /\ blockArray \in Seq(Header) /\ c \in Nat
    BY Lengths, Bounds DEF IInv, CoreInv, TypeOK, SendTypeOK
  <2>3. Len(blockArray') = c + 1 /\ blockArray'[c + 1] = m.header
    BY <2>1, <2>2
  <2>4. c + 1 <= Len(ledger) /\ m.header = ledger[c + 1]
    BY <2>2, <2>3, <1>2 DEF IInv, CoreInv, Prefix
  <2>5. c < Len(ledger)
    BY <2>2, <2>4, Lengths, Bounds DEF IInv
  <2> QED
    BY <2>1, <2>4, <2>5, <1>2 DEF Ledger!Publish
<1> QED
  BY <1>1, <1>3, <1>4

(* The pipeline implements the abstract ledger: what is received is put    *)
(* into blocks, which are published in order, each once.                   *)
THEOREM PipelineImplementsLedger == ASSUME NormalStart PROVE Spec => ImplementsLedger
<1>1. Init => Ledger!Init
  BY DEF Init, StorageInit, RollUpInit, Ledger!Init
<1>2. IInv /\ IInv' /\ [Next]_vars => [Ledger!Next]_(Ledger!ledgerVars)
  <2> SUFFICES ASSUME IInv, IInv', [Next]_vars
               PROVE  Ledger!Next \/ UNCHANGED Ledger!ledgerVars
    OBVIOUS
  <2>1. CASE Receive
    BY <2>1, ReceiveRefines DEF Ledger!Next
  <2>2. CASE ServerStep
    <3>1. CASE WorkInsert
      BY <2>2, <3>1, WorkInsertRefines DEF ServerStep, Ledger!Next
    <3>2. CASE ~WorkInsert
      BY <2>2, <3>2
      DEF ServerStep, NodeNext, OnStart, OnStartStorage, OnStartContract, Work, WorkGet,
          WorkCreate, WorkCreateThrows, WorkFail, WorkRemove, WorkRemoveFail, Ledger!ledgerVars,
          storageVars, contractVars
    <3> QED
      BY <3>1, <3>2
  <2>3. CASE SendStep
    BY <2>3 DEF SendStep, Send, SendRead, SendNoBlock, SendSelect, SendAdd, SendAddFail,
                SendResync, SendResyncFail, SendPrune, SendPruneFail, Ledger!ledgerVars,
                storageVars, contractVars
  <2>4. CASE ChainStep
    <3>1. CASE Mine
      BY <2>4, <3>1, MineRefines DEF ChainStep, Ledger!Next
    <3>2. CASE Drop
      BY <2>4, <3>2 DEF ChainStep, Drop, Ledger!ledgerVars, storageVars, contractVars
    <3> QED
      BY <2>4, <3>1, <3>2 DEF ChainStep, Chain
  <2>5. CASE Crash
    BY <2>5 DEF Crash, Ledger!ledgerVars, storageVars, contractVars
  <2>6. CASE UNCHANGED vars
    BY <2>6 DEF vars, Ledger!ledgerVars
  <2> QED
    BY <2>1, <2>2, <2>3, <2>4, <2>5, <2>6 DEF Next
<1> QED
  BY <1>1, <1>2, PipelineInvariant, PTL DEF Spec, ImplementsLedger, Ledger!Spec
=============================================================================
