-------------------------- MODULE SendBlock_proofs --------------------------
(***************************************************************************)
(* What Node, SendBlock, the contract and the chain keep to together, one  *)
(* lemma per step, for every number of blocks and every bound on the       *)
(* chain's pool.  BlockPipeline and ServerPipeline are made of these       *)
(* steps, and their proofs rest on these lemmas.                           *)
(***************************************************************************)
EXTENDS SendBlock, RollUp_proofs

(* When the server starts, Node ticks only after onStart, and the database *)
(* can be read.                                                            *)
NormalStart == SlowStart = FALSE /\ "dbRead" \notin Faults

-----------------------------------------------------------------------------
(* The inductive invariant of the pipeline behind the pool, in parts. *)

Created == {ledger[i] : i \in 1..Len(ledger)}

(* The blocks created are a chain, and hashes are places in it. *)
Linear ==
    /\ Len(ledger) <= MaxBlocks
    /\ \A i \in 1..Len(ledger) :
         ledger[i].height = i - 1 /\ ledger[i].curBlock = i /\ ledger[i].prevBlock = i - 1

(* The contract has a prefix of them, and says so by its last height. *)
Prefix ==
    /\ Len(blockArray) <= Len(ledger)
    /\ \A i \in 1..Len(blockArray) : blockArray[i] = ledger[i]
    /\ SizeAgrees

(* The database has only created blocks, and all those from the last one   *)
(* that the contract has.                                                  *)
Kept ==
    /\ blocks \subseteq Created
    /\ \A i \in 1..Len(ledger) : i >= Len(blockArray) => ledger[i] \in blocks

(* What is sent, or about to be, is a created block, and a height that the *)
(* contract answered is not above the one it has now.                      *)
Sending ==
    /\ sendData \subseteq Created
    /\ \A m \in mempool : m.header \in Created
    /\ sendLast # Uint64Max => sendLast < Len(blockArray)

(* Height and hash of the last block, as LastBlockInfo answers, and what   *)
(* Node has to know to go on from it.                                      *)
LastInfo ==
    IF Len(ledger) = 0 THEN {}
    ELSE {[height |-> Len(ledger) - 1, hash |-> Len(ledger), type |-> "number"]}

Knows == prev_height = Len(ledger) - 1 /\ prev_hash = Len(ledger)

(* onStart holds the last block while it reads the contract; until it is   *)
(* over, prev_hash and prev_height are the constructor's, and no work is   *)
(* done.                                                                   *)
Starting ==
    /\ startPc = "contract" => startInfo = LastInfo
    /\ startPc # "done" => /\ prev_height = -1 /\ prev_hash = 0
                           /\ nodePc = "idle" /\ nodeBlock = {}

(* A block that is built comes after the last one, is not empty, and is    *)
(* there only while it is stored.                                          *)
Building ==
    /\ nodePc # "ipfs" => nodeBlock = {}
    /\ nodePc \in {"get", "ipfs"} => nodeTxs # {}
    /\ \A b \in nodeBlock :
         b.height = Len(ledger) /\ b.prevBlock = Len(ledger) /\ b.CID = nodeTxs

(* What is being removed from the pool is in the last block. *)
Removing == nodePc = "remove" => Len(ledger) > 0 /\ nodeTxs \subseteq ledger[Len(ledger)].CID

CoreTypeOK ==
    /\ blocks \subseteq Header /\ ledger \in Seq(Header)
    /\ RollUpTypeOK /\ NodeTypeOK /\ SendTypeOK

CoreInv ==
    /\ CoreTypeOK /\ Linear /\ Prefix /\ Kept /\ Sending
    /\ Starting /\ Building /\ Removing

-----------------------------------------------------------------------------
(* Facts about the constants and the ledger that the steps share. *)

LEMMA Bounds ==
    /\ MaxBlocks \in Nat /\ Uint64Max \in Nat /\ MaxBlocks <= Uint64Max
    /\ \A n \in 0..MaxBlocks : n \in Hash /\ n \in Uint64
    /\ MaxTxSeq \in Nat /\ MaxPending \in Nat /\ MaxFaults \in Nat
BY BlockAssumption, SendBlockAssumption, FaultsAssumption DEF Uint64

LEMMA Lengths ==
    ASSUME CoreInv
    PROVE  /\ Len(ledger) \in 0..MaxBlocks
           /\ Len(blockArray) \in 0..Len(ledger)
           /\ ledger \in Seq(Header) /\ blockArray \in Seq(Header)
BY BlockAssumption DEF CoreInv, CoreTypeOK, RollUpTypeOK, Linear, Prefix

(* The number of faults that may still happen has its type. *)
LEMMA FaultsLeft ==
    ASSUME faults \in 0..MaxFaults, NodeNext \/ Send \/ Chain
    PROVE  faults' \in 0..MaxFaults
<1>1. faults' = faults \/ \E kind \in Faults : Fault(kind)
  <2>1. CASE NodeNext
    BY <2>1 DEF NodeNext, OnStart, OnStartStorage, OnStartContract, Work, WorkGet, WorkCreate,
                WorkInsert, WorkCreateThrows, WorkFail, WorkRemove, WorkRemoveFail, Fault
  <2>2. CASE Send
    BY <2>2 DEF Send, SendRead, SendNoBlock, SendSelect, SendAdd, SendAddFail, SendResync,
                SendResyncFail, SendPrune, SendPruneFail, Fault
  <2>3. CASE Chain
    BY <2>3 DEF Chain, Mine, Drop, Fault
  <2> QED
    BY <2>1, <2>2, <2>3
<1> QED
  BY <1>1, Bounds DEF Fault

(* The parts that a step leaves alone when it moves neither the blocks nor *)
(* what is sent.                                                           *)
LEMMA BlocksFrame ==
    ASSUME CoreInv, UNCHANGED <<ledger, blocks, lastHeight, blockArray>>
    PROVE  Linear' /\ Prefix' /\ Kept'
<1>1. Linear'
  BY DEF CoreInv, Linear
<1>2. Prefix'
  BY DEF CoreInv, Prefix, SizeAgrees
<1>3. Kept'
  BY DEF CoreInv, Kept, Created
<1> QED
  BY <1>1, <1>2, <1>3

LEMMA LedgerFrame ==
    ASSUME CoreInv, UNCHANGED <<ledger, blocks, lastHeight, blockArray, sendLast, sendData, mempool>>
    PROVE  Linear' /\ Prefix' /\ Kept' /\ Sending'
<1>1. Sending'
  BY DEF CoreInv, Sending, Created
<1> QED
  BY <1>1, BlocksFrame

(* A step of Node that moves no block keeps what it keeps by itself. *)
LEMMA NodeFrame ==
    ASSUME CoreInv, UNCHANGED <<ledger, blocks, contractVars, sendVars, chainVars>>,
           NodeTypeOK', Starting', Building', Removing'
    PROVE  CoreInv'
<1>1. CoreTypeOK'
  BY DEF CoreInv, CoreTypeOK, RollUpTypeOK, SendTypeOK, contractVars, sendVars, chainVars
<1>2. Linear' /\ Prefix' /\ Kept' /\ Sending'
  BY LedgerFrame DEF contractVars, sendVars, chainVars
<1> QED
  BY <1>1, <1>2 DEF CoreInv

(* A step of others leaves all of it. *)
LEMMA CoreFrame ==
    ASSUME CoreInv, UNCHANGED <<ledger, blocks, contractVars, nodeVars, sendVars, chainVars>>
    PROVE  CoreInv'
<1>1. NodeTypeOK' /\ Starting' /\ Building' /\ Removing'
  BY DEF CoreInv, CoreTypeOK, NodeTypeOK, Starting, LastInfo, Building, Removing, nodeVars
<1> QED
  BY <1>1, NodeFrame

-----------------------------------------------------------------------------
(* The initial states, and a process that is started again. *)
LEMMA CoreInit ==
    ASSUME StorageInit, RollUpInit, NodeInit, SendInit, ChainInit
    PROVE  CoreInv
<1> USE DEF StorageInit, RollUpInit, NodeInit, SendInit, ChainInit
<1>1. CoreTypeOK
  BY Bounds DEF CoreTypeOK, RollUpTypeOK, NodeTypeOK, SendTypeOK, Uint64, NullHash
<1>2. Linear /\ Prefix /\ Kept /\ Sending
  BY Bounds DEF Linear, Prefix, Kept, Sending, SizeAgrees
<1>3. Starting /\ Building /\ Removing
  BY DEF Starting, NullHash, Building, Removing
<1> QED
  BY <1>1, <1>2, <1>3 DEF CoreInv

LEMMA CoreRestart ==
    ASSUME CoreInv, NodeRestart, SendRestart, UNCHANGED <<blocks, ledger, contractVars, chainVars>>
    PROVE  CoreInv'
<1>1. CoreTypeOK'
  BY Bounds DEF CoreInv, CoreTypeOK, RollUpTypeOK, NodeTypeOK, SendTypeOK, NullHash, Uint64,
                NodeRestart, SendRestart, contractVars, chainVars
<1>2. Linear' /\ Prefix' /\ Kept'
  BY BlocksFrame DEF contractVars
<1>3. Sending'
  BY DEF CoreInv, Sending, Created, SendRestart, contractVars, chainVars
<1>4. Starting' /\ Building' /\ Removing'
  BY DEF Starting, Building, Removing, NodeRestart, NullHash
<1> QED
  BY <1>1, <1>2, <1>3, <1>4 DEF CoreInv

-----------------------------------------------------------------------------
(* LastBlockInfo. *)

(* The last row of the database is that of the last block created. *)
LEMMA LastRowIsNewest ==
    ASSUME CoreInv
    PROVE  LastRow = IF Len(ledger) = 0 THEN {} ELSE {ledger[Len(ledger)]}
<1>1. /\ \A i \in 1..Len(ledger) : ledger[i].height = i - 1
      /\ blocks \subseteq {ledger[i] : i \in 1..Len(ledger)}
      /\ Len(ledger) \in Nat
      /\ Len(ledger) # 0 => ledger[Len(ledger)] \in blocks
  <2>1. Len(ledger) \in Nat /\ Len(blockArray) \in Nat /\ Len(ledger) >= Len(blockArray)
    BY Lengths, Bounds
  <2>2. Len(ledger) # 0 => ledger[Len(ledger)] \in blocks
    BY <2>1 DEF CoreInv, Kept
  <2> QED
    BY <2>1, <2>2 DEF CoreInv, Linear, Kept, Created
<1>2. CASE Len(ledger) = 0
  BY <1>1, <1>2 DEF LastRow
<1>3. CASE Len(ledger) # 0
  <2> DEFINE last == ledger[Len(ledger)]
  <2>1. last \in blocks /\ \A row \in blocks : row.height <= last.height
    BY <1>1, <1>3
  <2>2. \A row \in blocks : row.height >= last.height => row = last
    BY <1>1, <1>3
  <2>3. \A row \in blocks : row.height \in Int
    BY <1>1
  <2>4. \A row \in blocks : (\A other \in blocks : other.height <= row.height) => row = last
    BY <2>1, <2>2, <2>3
  <2>5. LastRow = {last}
    BY <2>1, <2>4 DEF LastRow
  <2> QED
    BY <2>5, <1>3
<1> QED
  BY <1>2, <1>3

(* So the database answers with the last block, the contract with one of   *)
(* the blocks, and getInfo with the last block if the database did.        *)
LEMMA StorageInfoIsLast == ASSUME CoreInv PROVE InfoByStorage = LastInfo
<1>1. Len(ledger) # 0 => /\ ledger[Len(ledger)].height = Len(ledger) - 1
                         /\ ledger[Len(ledger)].curBlock = Len(ledger)
  BY Lengths, Bounds DEF CoreInv, Linear
<1> QED
  BY <1>1, LastRowIsNewest DEF InfoByStorage, LastInfo

LEMMA ContractInfo ==
    ASSUME CoreInv
    PROVE  InfoByContract = IF Len(blockArray) = 0 THEN {}
                            ELSE {[height |-> Len(blockArray) - 1, hash |-> Len(blockArray),
                                   type |-> "bigint"]}
<1> DEFINE c == Len(blockArray)
<1>1. CASE c = 0
  BY <1>1 DEF CoreInv, Prefix, SizeAgrees, InfoByContract
<1>2. CASE c # 0
  <2>1. c \in 1..Len(ledger) /\ c - 1 # Uint64Max
    BY <1>2, Lengths, Bounds
  <2>2. lastHeight = c - 1 /\ lastHeight # Uint64Max
    BY <1>2, <2>1 DEF CoreInv, Prefix, SizeAgrees
  <2>3. blockArray[lastHeight + 1].curBlock = c
    BY <2>1, <2>2, Lengths, Bounds DEF CoreInv, Prefix, Linear
  <2> QED
    BY <2>2, <2>3, <1>2 DEF InfoByContract, GetByHeight
<1> QED
  BY <1>1, <1>2

(* What tells the last block, with a height of either type. *)
HeightTypes == {"bigint", "number"}

IsLast(info) ==
    /\ info = {} => Len(ledger) = 0
    /\ \A i \in info : i.height = Len(ledger) - 1 /\ i.hash = Len(ledger) /\ i.type \in HeightTypes

LEMMA RecordIsLast ==
    ASSUME NEW type \in HeightTypes
    PROVE  IsLast({[height |-> Len(ledger) - 1, hash |-> Len(ledger), type |-> type]})
<1> DEFINE r == [height |-> Len(ledger) - 1, hash |-> Len(ledger), type |-> type]
<1>1. r.height = Len(ledger) - 1 /\ r.hash = Len(ledger) /\ r.type \in HeightTypes
  OBVIOUS
<1> HIDE DEF r
<1>2. {r} # {} /\ \A i \in {r} : i = r
  OBVIOUS
<1>3. IsLast({r})
  BY <1>1, <1>2, Zenon DEF IsLast
<1> QED
  BY <1>3 DEF r

(* When the two are level it is the contract's record that getInfo takes.  *)
LEMMA NewestIsLast ==
    ASSUME CoreInv PROVE IsLast(LastInfo) /\ IsLast(Newest(LastInfo, InfoByContract))
<1> DEFINE n == Len(ledger)
           c == Len(blockArray)
<1>0. IsLast(LastInfo)
  <2>1. CASE n = 0
    BY <2>1 DEF IsLast, LastInfo
  <2>2. CASE n # 0
    <3>1. LastInfo = {[height |-> n - 1, hash |-> n, type |-> "number"]}
      BY <2>2 DEF LastInfo
    <3> QED
      BY <3>1, RecordIsLast DEF HeightTypes
  <2> QED
    BY <2>1, <2>2
<1>1. n \in Nat /\ c \in 0..n
  BY Lengths, Bounds
<1>2. CASE c = 0
  BY <1>0, <1>2, ContractInfo DEF Newest
<1>3. CASE c # 0 /\ c = n
  <2>1. InfoByContract = {[height |-> n - 1, hash |-> n, type |-> "bigint"]}
    BY <1>3, ContractInfo
  <2>2. Newest(LastInfo, InfoByContract) \in {LastInfo, InfoByContract}
    BY DEF Newest
  <2>3. IsLast(InfoByContract)
    BY <2>1, RecordIsLast DEF HeightTypes
  <2> QED
    BY <1>0, <2>2, <2>3
<1>4. CASE c # 0 /\ c < n
  <2>1. /\ [height |-> n - 1, hash |-> n, type |-> "number"] \in LastInfo
        /\ [height |-> c - 1, hash |-> c, type |-> "bigint"] \in InfoByContract
    BY <1>1, <1>4, ContractInfo DEF LastInfo
  <2>2. \E s \in LastInfo, d \in InfoByContract : s.height > d.height
    BY <1>1, <1>4, <2>1
  <2> QED
    BY <1>0, <2>2 DEF Newest
<1> QED
  BY <1>0, <1>1, <1>2, <1>3, <1>4

(* Assigning the last block is knowing it, also when there is none.        *)
LEMMA SetPreviousKnows ==
    ASSUME CoreInv, NEW info, IsLast(info), SetPrevious(info), ledger' = ledger,
           Len(ledger) = 0 => Knows
    PROVE  Knows' /\ heightType' \in HeightTypes
<1>1. CASE info = {}
  <2>1. UNCHANGED <<prev_hash, prev_height, heightType>>
    BY <1>1 DEF SetPrevious
  <2>2. heightType \in HeightTypes
    BY DEF CoreInv, CoreTypeOK, NodeTypeOK, HeightTypes
  <2> QED
    BY <1>1, <2>1, <2>2 DEF IsLast, Knows
<1>2. CASE info # {}
  <2>1. PICK i \in info : prev_hash' = i.hash /\ prev_height' = i.height /\ heightType' = i.type
    BY <1>2 DEF SetPrevious
  <2> QED
    BY <2>1 DEF IsLast, Knows
<1> QED
  BY <1>1, <1>2

(* What Node may be told is known to have its types. *)
LEMMA KnownTypes ==
    ASSUME CoreInv
    PROVE  /\ Len(ledger) - 1 \in -1..(MaxBlocks - 1) /\ Len(ledger) \in Hash
           /\ LastInfo \subseteq [height : Uint64, hash : Hash, type : {"number"}]
BY Lengths, Bounds DEF LastInfo

-----------------------------------------------------------------------------
(* Node starts. *)

LEMMA CoreOnStartStorage ==
    ASSUME NormalStart, CoreInv, OnStartStorage, UNCHANGED <<sendVars, chainVars>>
    PROVE  CoreInv' /\ UNCHANGED <<prev_hash, prev_height, ledger>> /\ startPc' # "done"
<1>1. /\ startPc = "storage" /\ startPc' = "contract"
      /\ startInfo' = InfoByStorage
      /\ UNCHANGED <<prev_hash, prev_height, heightType, nodePc, nodeTxs, nodeBlock, blocks, ledger,
                  contractVars>>
  BY DEF OnStartStorage, Fault, NormalStart, storageVars
<1>2. startInfo' = LastInfo /\ LastInfo' = LastInfo
  BY <1>1, StorageInfoIsLast DEF LastInfo
<1>3. NodeTypeOK'
  BY <1>1, <1>2, KnownTypes DEF CoreInv, CoreTypeOK, NodeTypeOK
<1>4. Starting' /\ Building' /\ Removing'
  BY <1>1, <1>2 DEF CoreInv, Starting, Building, Removing
<1> QED
  BY <1>1, <1>3, <1>4, NodeFrame

(* It knows the last block when onStart is over. *)
LEMMA CoreOnStartContract ==
    ASSUME CoreInv, OnStartContract, UNCHANGED <<sendVars, chainVars>>
    PROVE  CoreInv' /\ Knows'
<1>1. /\ startPc = "contract" /\ startPc' = "done" /\ startInfo' = {}
      /\ \/ SetPrevious(Newest(startInfo, InfoByContract))
         \/ SetPrevious(startInfo)
      /\ UNCHANGED <<nodePc, nodeTxs, nodeBlock, blocks, ledger, contractVars>>
  BY DEF OnStartContract, storageVars
<1>2. startInfo = LastInfo
  BY <1>1 DEF CoreInv, Starting
<1>3. \E info : IsLast(info) /\ SetPrevious(info)
  BY <1>1, <1>2, NewestIsLast
<1>4. Len(ledger) = 0 => Knows
  BY <1>1 DEF CoreInv, Starting, Knows
<1>5. Knows' /\ heightType' \in HeightTypes
  BY <1>1, <1>3, <1>4, SetPreviousKnows
<1>6. NodeTypeOK'
  BY <1>1, <1>5, KnownTypes DEF CoreInv, CoreTypeOK, NodeTypeOK, Knows, HeightTypes
<1>7. Starting' /\ Building' /\ Removing'
  BY <1>1 DEF CoreInv, Starting, Building, Removing
<1> QED
  BY <1>1, <1>5, <1>6, <1>7, NodeFrame

-----------------------------------------------------------------------------
(* Node works: the steps that do not change the ledger. *)

LEMMA CoreWorkGet ==
    ASSUME NormalStart, CoreInv, txs \subseteq Tx, WorkGet, UNCHANGED <<sendVars, chainVars>>
    PROVE  CoreInv'
<1>1. /\ startPc = "done"
      /\ nodePc = "idle" /\ nodePc' = "get"
      /\ nodeTxs' # {} /\ nodeTxs' \subseteq txs
      /\ UNCHANGED <<prev_hash, prev_height, heightType, startVars, nodeBlock, blocks, ledger, contractVars>>
  BY DEF WorkGet, NodeTicks, NormalStart, SelectTxByLength, storageVars
<1>2. NodeTypeOK'
  BY <1>1 DEF CoreInv, CoreTypeOK, NodeTypeOK, startVars
<1>3. Starting' /\ Building' /\ Removing'
  BY <1>1 DEF CoreInv, Starting, Building, Removing, startVars
<1> QED
  BY <1>1, <1>2, <1>3, NodeFrame

(* The block is made after the last one, as Node knows it. *)
LEMMA CoreWorkCreate ==
    ASSUME CoreInv, Knows, WorkCreate, UNCHANGED <<sendVars, chainVars>>
    PROVE  CoreInv'
<1> DEFINE b == [height |-> prev_height + 1, prevBlock |-> prev_hash, CID |-> nodeTxs]
<1>1. /\ nodePc = "get" /\ nodePc' = "ipfs"
      /\ nodeBlock' = {b}
      /\ UNCHANGED <<prev_hash, prev_height, heightType, startVars, nodeTxs, blocks, ledger, contractVars>>
  BY DEF WorkCreate, CreateBlock, storageVars
<1>2. b.height = Len(ledger) /\ b.prevBlock = Len(ledger) /\ b.CID = nodeTxs
  BY Lengths, Bounds DEF Knows
<1>3. b \in [height : Uint64, prevBlock : Hash, CID : CID]
  BY <1>2, Lengths, Bounds DEF CoreInv, CoreTypeOK, NodeTypeOK, CID
<1>4. NodeTypeOK'
  BY <1>1, <1>3 DEF CoreInv, CoreTypeOK, NodeTypeOK, startVars
<1>5. Starting' /\ Building' /\ Removing'
  BY <1>1, <1>2 DEF CoreInv, Starting, Building, Removing, startVars
<1> QED
  BY <1>1, <1>4, <1>5, NodeFrame

(* Work that ends without a block, or with transactions left in the pool.  *)
LEMMA CoreWorkGivenUp ==
    ASSUME CoreInv, WorkCreateThrows \/ WorkFail \/ WorkRemoveFail, UNCHANGED <<sendVars, chainVars>>
    PROVE  CoreInv' /\ UNCHANGED <<txs, ledger>> /\ nodeTxs' = {}
<1>1. /\ nodePc # "idle" /\ nodePc' = "idle" /\ nodeTxs' = {}
      /\ nodeBlock' = {} \/ (nodeBlock' = nodeBlock /\ nodePc \in {"get", "remove"})
      /\ UNCHANGED <<prev_hash, prev_height, heightType, startVars, txs, blocks, ledger, contractVars>>
  BY DEF WorkCreateThrows, WorkFail, WorkRemoveFail, storageVars
<1>2. nodeBlock' = {}
  BY <1>1 DEF CoreInv, Building
<1>3. NodeTypeOK'
  BY <1>1, <1>2 DEF CoreInv, CoreTypeOK, NodeTypeOK, startVars
<1>4. Starting' /\ Building' /\ Removing'
  BY <1>1, <1>2 DEF CoreInv, Starting, Building, Removing, startVars
<1> QED
  BY <1>1, <1>3, <1>4, NodeFrame

(* A transaction leaves the pool only when the last block has it. *)
LEMMA CoreWorkRemove ==
    ASSUME CoreInv, WorkRemove, UNCHANGED <<sendVars, chainVars>>
    PROVE  /\ CoreInv'
           /\ \A t \in txs : t \in txs' \/ \E row \in Created : t \in row.CID
<1>1. PICK t \in nodeTxs :
         /\ txs' = txs \ {t} /\ nodeTxs' = nodeTxs \ {t}
         /\ nodePc' = IF nodeTxs = {t} THEN "idle" ELSE "remove"
  BY DEF WorkRemove, DeleteTxByHash
<1>2. /\ nodePc = "remove"
      /\ UNCHANGED <<prev_hash, prev_height, heightType, startVars, nodeBlock, blocks, ledger, contractVars>>
  BY DEF WorkRemove
<1>3. nodeBlock = {} /\ startPc = "done"
  BY <1>2 DEF CoreInv, Building, Starting
<1>4. ledger[Len(ledger)] \in Created /\ t \in ledger[Len(ledger)].CID
  BY <1>2, Lengths, Bounds DEF CoreInv, Removing, Created
<1>5. NodeTypeOK'
  BY <1>1, <1>2 DEF CoreInv, CoreTypeOK, NodeTypeOK, startVars
<1>6. Starting' /\ Building' /\ Removing'
  BY <1>1, <1>2, <1>3 DEF CoreInv, Starting, Building, Removing, startVars
<1>7. CoreInv'
  BY <1>2, <1>5, <1>6, NodeFrame
<1> QED
  BY <1>1, <1>4, <1>7

-----------------------------------------------------------------------------
(* Node stores a block: the ledger grows by the block that comes next. *)

LEMMA CoreWorkInsert ==
    ASSUME CoreInv, WorkInsert, UNCHANGED <<sendVars, chainVars>>
    PROVE  /\ CoreInv' /\ Knows' /\ nodePc' = "remove"
           /\ Created \subseteq Created'
           /\ ledger' = Append(ledger, [height |-> Len(ledger), curBlock |-> Len(ledger) + 1,
                                        prevBlock |-> Len(ledger), CID |-> nodeTxs])
<1> DEFINE n == Len(ledger)
<1>1. PICK b \in nodeBlock :
         /\ InsertBlock(b, b.CID)
         /\ prev_hash' = NextHash /\ prev_height' = b.height
  BY DEF WorkInsert
<1> DEFINE row == [height |-> n, curBlock |-> n + 1, prevBlock |-> n, CID |-> nodeTxs]
<1>2. /\ nodePc = "ipfs" /\ nodePc' = "remove" /\ nodeBlock' = {} /\ n < MaxBlocks
      /\ heightType' = "bigint"
      /\ UNCHANGED <<startVars, nodeTxs, txs, sendVars, chainVars, contractVars>>
  BY DEF WorkInsert
<1>3. b.height = n /\ b.prevBlock = n /\ b.CID = nodeTxs
  BY DEF CoreInv, Building
<1>4. /\ blocks' = blocks \cup {row} /\ ledger' = Append(ledger, row)
      /\ prev_hash' = n + 1 /\ prev_height' = n
  BY <1>1, <1>3 DEF InsertBlock, NextHash
<1>5. startPc = "done"
  BY <1>2 DEF CoreInv, Starting
<1>6. /\ n \in Nat /\ n + 1 \in 1..MaxBlocks /\ ledger \in Seq(Header)
      /\ Len(blockArray) \in 0..n /\ blockArray \in Seq(Header)
  BY <1>2, Lengths, Bounds
<1>7. row \in Header
  BY <1>2, <1>6, Bounds DEF CoreInv, CoreTypeOK, NodeTypeOK, Header, CID
<1>8. /\ ledger' \in Seq(Header) /\ Len(ledger') = n + 1 /\ ledger'[n + 1] = row
      /\ \A i \in 1..n : ledger'[i] = ledger[i]
  BY <1>4, <1>6, <1>7
<1>9. Created' = Created \cup {row}
  <2>1. Created' = {ledger'[i] : i \in 1..(n + 1)}
    BY <1>8 DEF Created
  <2>2. \A i \in 1..(n + 1) : ledger'[i] \in Created \cup {row}
    BY <1>6, <1>8 DEF Created
  <2>3. \A i \in 1..n : ledger[i] \in {ledger'[j] : j \in 1..(n + 1)}
    BY <1>6, <1>8
  <2>4. row \in {ledger'[j] : j \in 1..(n + 1)}
    BY <1>6, <1>8
  <2> QED
    BY <2>1, <2>2, <2>3, <2>4 DEF Created
<1>10. CoreTypeOK'
  BY <1>2, <1>4, <1>6, <1>7, <1>8, Bounds
  DEF CoreInv, CoreTypeOK, RollUpTypeOK, NodeTypeOK, SendTypeOK,
      startVars, contractVars, sendVars, chainVars
<1>11. Linear'
  <2>1. ASSUME NEW i \in 1..(n + 1)
        PROVE  /\ ledger'[i].height = i - 1 /\ ledger'[i].curBlock = i
               /\ ledger'[i].prevBlock = i - 1
    <3>1. CASE i \in 1..n
      BY <3>1, <1>8 DEF CoreInv, Linear
    <3>2. CASE i = n + 1
      BY <3>2, <1>6, <1>8
    <3> QED
      BY <3>1, <3>2, <1>6
  <2> QED
    BY <2>1, <1>6, <1>8, Bounds DEF Linear
<1>12. Prefix'
  <2>1. UNCHANGED <<blockArray, lastHeight>>
    BY <1>2 DEF contractVars
  <2> QED
    BY <2>1, <1>6, <1>8 DEF CoreInv, Prefix, SizeAgrees
<1>13. Kept'
  <2>1. blocks' \subseteq Created'
    BY <1>4, <1>9 DEF CoreInv, Kept
  <2>2. UNCHANGED blockArray
    BY <1>2 DEF contractVars
  <2>3. \A i \in 1..(n + 1) : i >= Len(blockArray) => ledger'[i] \in blocks'
    BY <1>4, <1>6, <1>8 DEF CoreInv, Kept
  <2> QED
    BY <2>1, <2>2, <2>3, <1>8 DEF Kept
<1>14. Sending'
  BY <1>2, <1>9 DEF CoreInv, Sending, contractVars, sendVars, chainVars
<1>15. Starting' /\ Building'
  BY <1>2, <1>5 DEF Starting, Building, startVars
<1>16. Removing'
  BY <1>2, <1>6, <1>8 DEF Removing
<1>17. Knows'
  BY <1>4, <1>6, <1>8 DEF Knows
<1>18. CoreInv'
  BY <1>10, <1>11, <1>12, <1>13, <1>14, <1>15, <1>16 DEF CoreInv
<1> QED
  BY <1>2, <1>4, <1>9, <1>17, <1>18

(* A step of Node, if Node knows the last block when it makes a block:     *)
(* what leaves the pool is in a block, and it knows the last block when    *)
(* onStart is over and when it has stored one.                             *)
LEMMA CoreNode ==
    ASSUME NormalStart, CoreInv, txs \subseteq Tx, nodePc = "get" => Knows,
           NodeNext, UNCHANGED <<sendVars, chainVars>>
    PROVE  /\ CoreInv'
           /\ Created \subseteq Created'
           /\ \A t \in txs : t \in txs' \/ \E row \in Created : t \in row.CID
           /\ txs' \cup nodeTxs' \subseteq txs \cup nodeTxs
           /\ Knows' \/ UNCHANGED <<prev_hash, prev_height, ledger>>
           /\ startPc' = "done" => startPc = "done" \/ Knows'
<1>1. CASE OnStartStorage
  BY <1>1, CoreOnStartStorage DEF OnStartStorage, storageVars, Created
<1>2. CASE OnStartContract
  BY <1>2, CoreOnStartContract DEF OnStartContract, storageVars, Created
<1>3. CASE WorkGet
  <2>1. /\ nodeTxs' \subseteq txs
        /\ UNCHANGED <<txs, ledger, prev_hash, prev_height, startPc>>
    BY <1>3 DEF WorkGet, SelectTxByLength, storageVars, startVars
  <2> QED
    BY <1>3, <2>1, CoreWorkGet DEF Created
<1>4. CASE WorkCreate
  <2>1. CoreInv'
    BY <1>4, CoreWorkCreate DEF WorkCreate
  <2> QED
    BY <1>4, <2>1 DEF WorkCreate, storageVars, startVars, Created
<1>5. CASE WorkInsert
  BY <1>5, CoreWorkInsert DEF WorkInsert, startVars
<1>6. CASE WorkCreateThrows \/ WorkFail \/ WorkRemoveFail
  <2>1. UNCHANGED <<prev_hash, prev_height, startPc>>
    BY <1>6 DEF WorkCreateThrows, WorkFail, WorkRemoveFail, startVars
  <2> QED
    BY <1>6, <2>1, CoreWorkGivenUp DEF Created
<1>7. CASE WorkRemove
  <2>1. txs' \cup nodeTxs' \subseteq txs \cup nodeTxs
    BY <1>7 DEF WorkRemove, DeleteTxByHash
  <2>2. UNCHANGED <<prev_hash, prev_height, startPc, ledger>>
    BY <1>7 DEF WorkRemove, startVars
  <2> QED
    BY <1>7, <2>1, <2>2, CoreWorkRemove DEF Created
<1> QED
  BY <1>1, <1>2, <1>3, <1>4, <1>5, <1>6, <1>7 DEF NodeNext, OnStart, Work

-----------------------------------------------------------------------------
(* SendBlock: only created blocks are sent, and what it deletes is below   *)
(* a height that the contract has.                                         *)

LEMMA PendingCountNat == CoreInv => PendingCount \subseteq Nat /\ NonceBound \in Nat
  BY Bounds DEF CoreInv, CoreTypeOK, SendTypeOK, PendingCount, NonceBound

(* Every step of work() but the delete. *)
LEMMA CoreSendQuiet ==
    ASSUME CoreInv, Send, UNCHANGED blocks
    PROVE  CoreInv'
<1>1. UNCHANGED <<nodeVars, txs, ledger, contractVars, mined>>
  BY DEF Send, SendRead, SendNoBlock, SendSelect, SendAdd, SendAddFail, SendResync,
         SendResyncFail, SendPrune, SendPruneFail, storageVars, chainVars
<1>2. sendData' \subseteq Created
  <2>1. NextToSend \subseteq Created
    BY DEF NextToSend, SelectBlockByHeight, CoreInv, Kept
  <2> QED
    BY <2>1 DEF Send, SendRead, SendNoBlock, SendSelect, SendAdd, SendAddFail, SendResync,
         SendResyncFail, SendPrune, SendPruneFail, CoreInv, Sending
<1>3. nonce' \subseteq Nat
  <2>1. nonce \subseteq Nat /\ mined \in Nat
    BY DEF CoreInv, CoreTypeOK, SendTypeOK
  <2>2. ASSUME NEW k \in NextNonce PROVE Counted(k) \subseteq Nat
    <3>1. k \in Nat
      BY <2>1, PendingCountNat DEF NextNonce
    <3> QED
      BY <3>1 DEF Counted
  <2>3. \/ nonce' = nonce
        \/ \E k \in NextNonce : nonce' = Counted(k)
        \/ nonce' = {mined}
    BY DEF Send, SendRead, SendNoBlock, SendSelect, SendAdd, SendAddFail, SendResync,
           SendResyncFail, SendPrune, SendPruneFail
  <2> QED
    BY <2>1, <2>2, <2>3
<1>4. \A m \in mempool' :
         m \in mempool \/ \E k \in Nat, r \in sendData : m = [nonce |-> k, header |-> r]
  BY PendingCountNat
  DEF Send, SendRead, SendNoBlock, SendSelect, SendAdd, SendAddFail, SendResync,
      SendResyncFail, SendPrune, SendPruneFail, Submit, Refuse, NextNonce, chainVars,
      CoreInv, CoreTypeOK, SendTypeOK
<1>5. sendLast' = sendLast \/ sendLast' = lastHeight
  BY DEF Send, SendRead, SendNoBlock, SendSelect, SendAdd, SendAddFail, SendResync,
         SendResyncFail, SendPrune, SendPruneFail
<1>6. sendPc' \in {"idle", "select", "add", "resync", "prune"}
  BY DEF Send, SendRead, SendNoBlock, SendSelect, SendAdd, SendAddFail, SendResync,
         SendResyncFail, SendPrune, SendPruneFail
<1>7. Created \subseteq Header
  BY Lengths DEF Created
<1>8. SendTypeOK'
  <2>1. mempool' \subseteq [nonce : Nat, header : Header]
    BY <1>4, <1>7 DEF CoreInv, CoreTypeOK, SendTypeOK, Sending
  <2>2. sendLast' \in Uint64
    BY <1>5 DEF CoreInv, CoreTypeOK, RollUpTypeOK, SendTypeOK
  <2> QED
    BY <2>1, <2>2, <1>1, <1>2, <1>3, <1>6, <1>7 DEF CoreInv, CoreTypeOK, SendTypeOK
<1>9. Sending'
  <2>1. \A m \in mempool' : m.header \in Created
    BY <1>4 DEF CoreInv, Sending
  <2>2. sendLast' # Uint64Max => sendLast' < Len(blockArray)
    BY <1>5, Lengths, Bounds DEF CoreInv, Sending, Prefix, SizeAgrees
  <2> QED
    BY <2>1, <2>2, <1>1, <1>2 DEF Sending, Created, contractVars
<1>10. Linear' /\ Prefix' /\ Kept'
  BY <1>1, BlocksFrame DEF contractVars
<1>11. CoreTypeOK' /\ Starting' /\ Building' /\ Removing'
  BY <1>1, <1>8
  DEF CoreInv, CoreTypeOK, RollUpTypeOK, NodeTypeOK, Starting, LastInfo, Building, Removing,
      nodeVars, contractVars
<1> QED
  BY <1>9, <1>10, <1>11 DEF CoreInv

LEMMA CoreSendPrune == ASSUME CoreInv, SendPrune PROVE CoreInv'
<1>1. /\ blocks' \subseteq blocks
      /\ \A row \in blocks : row \notin blocks' => sendLast # Uint64Max /\ ~(row.height >= sendLast)
      /\ sendPc' = "idle" /\ sendData' = {}
      /\ UNCHANGED <<sendLast, nonce, chainVars, nodeVars, txs, ledger, contractVars>>
  BY DEF SendPrune, DeleteBlockByHeight
<1>2. CoreTypeOK'
  BY <1>1 DEF CoreInv, CoreTypeOK, RollUpTypeOK, NodeTypeOK, SendTypeOK,
              contractVars, nodeVars, chainVars
<1>3. Kept'
  <2>1. ASSUME NEW i \in 1..Len(ledger), i >= Len(blockArray) PROVE ledger[i] \in blocks'
    <3>1. ledger[i].height = i - 1 /\ ledger[i] \in blocks
      BY <2>1 DEF CoreInv, Linear, Kept
    <3>2. sendLast # Uint64Max => sendLast \in Nat /\ sendLast < Len(blockArray)
      BY Bounds DEF CoreInv, Sending, CoreTypeOK, SendTypeOK, Uint64
    <3>3. sendLast # Uint64Max => ledger[i].height >= sendLast
      BY <2>1, <3>1, <3>2, Lengths, Bounds
    <3> QED
      BY <3>1, <3>3, <1>1
  <2>2. blocks' \subseteq Created
    BY <1>1 DEF CoreInv, Kept
  <2> QED
    BY <2>1, <2>2, <1>1 DEF Kept, Created, contractVars
<1>4. Linear' /\ Prefix' /\ Sending'
  BY <1>1 DEF CoreInv, Linear, Prefix, Sending, Created, SizeAgrees, contractVars, chainVars
<1>5. Starting' /\ Building' /\ Removing'
  BY <1>1 DEF CoreInv, Starting, LastInfo, Building, Removing, nodeVars
<1> QED
  BY <1>2, <1>3, <1>4, <1>5 DEF CoreInv

LEMMA CoreSend ==
    ASSUME CoreInv, Send
    PROVE  CoreInv' /\ UNCHANGED <<nodeVars, txs, ledger, lastHeight, blockArray>>
<1>1. UNCHANGED <<nodeVars, txs, ledger, lastHeight, blockArray>>
  BY DEF Send, SendRead, SendNoBlock, SendSelect, SendAdd, SendAddFail, SendResync,
         SendResyncFail, SendPrune, SendPruneFail, storageVars, contractVars
<1>2. CASE SendPrune
  BY <1>1, <1>2, CoreSendPrune
<1>3. CASE ~SendPrune
  <2>1. UNCHANGED blocks
    BY <1>3 DEF Send, SendRead, SendNoBlock, SendSelect, SendAdd, SendAddFail,
                SendResync, SendResyncFail, SendPruneFail, storageVars
  <2> QED
    BY <1>1, <2>1, CoreSendQuiet
<1> QED
  BY <1>2, <1>3

-----------------------------------------------------------------------------
(* The chain: what it mines is a created block, and the contract takes it  *)
(* only if it is the one that comes next.                                  *)

LEMMA CoreMine == ASSUME CoreInv, Mine PROVE CoreInv'
<1> DEFINE c == Len(blockArray)
<1>1. PICK m \in mempool :
         /\ mempool' = mempool \ {m}
         /\ Add(m.header) \/ (~AddAccepted(m.header) /\ UNCHANGED contractVars)
  BY DEF Mine
<1>2. mined' = mined + 1 /\ UNCHANGED <<sendVars, nodeVars, storageVars>>
  BY DEF Mine
<1>3. \A x \in mempool' : x \in mempool
  BY <1>1
<1>4. SendTypeOK' /\ NodeTypeOK'
  BY <1>2, <1>3 DEF CoreInv, CoreTypeOK, SendTypeOK, NodeTypeOK, sendVars, nodeVars
<1>5. Linear' /\ Starting' /\ Building' /\ Removing'
  BY <1>2 DEF CoreInv, Linear, Starting, LastInfo, Building, Removing, storageVars, nodeVars
<1>6. Created' = Created
  BY <1>2 DEF Created, storageVars
<1>7. CASE ~AddAccepted(m.header) /\ UNCHANGED contractVars
  <2>1. CoreTypeOK'
    BY <1>2, <1>4, <1>7 DEF CoreInv, CoreTypeOK, RollUpTypeOK, storageVars, contractVars
  <2>2. Prefix' /\ Kept'
    BY <1>2, <1>6, <1>7 DEF CoreInv, Prefix, Kept, SizeAgrees, storageVars, contractVars
  <2>3. Sending'
    BY <1>2, <1>3, <1>6, <1>7 DEF CoreInv, Sending, sendVars, contractVars
  <2> QED
    BY <2>1, <2>2, <2>3, <1>5 DEF CoreInv
<1>8. CASE Add(m.header)
  <2>1. PICK j \in 1..Len(ledger) : m.header = ledger[j]
    BY DEF CoreInv, Sending, Created
  <2>2. m.header \in Header /\ m.header.height = j - 1
    BY <2>1, Lengths DEF CoreInv, Linear
  <2>3. ChainLinked
    <3> SUFFICES ASSUME NEW i \in 1..c
                 PROVE  /\ blockArray[i].height = i - 1
                        /\ i > 1 => blockArray[i].prevBlock = blockArray[i - 1].curBlock
      BY DEF ChainLinked
    <3>1. i \in 1..Len(ledger) /\ blockArray[i] = ledger[i]
      BY Lengths, Bounds DEF CoreInv, Prefix
    <3>2. i > 1 => i - 1 \in 1..Len(ledger) /\ blockArray[i - 1] = ledger[i - 1]
      BY Lengths, Bounds DEF CoreInv, Prefix
    <3> QED
      BY <3>1, <3>2 DEF CoreInv, Linear
  <2>4. /\ c \in Nat /\ Len(ledger) \in Nat /\ c <= Len(ledger) /\ j \in Nat
        /\ c < Uint64Max => Len(ledger) <= Uint64Max
    BY Lengths, Bounds
  <2>5. c < Uint64Max
    <3>1. SUFFICES ASSUME c = Uint64Max PROVE FALSE
      BY Lengths, Bounds
    <3>2. c # 0 => m.header.height = c
      <4> SUFFICES ASSUME c # 0 PROVE m.header.height = c
        OBVIOUS
      <4>1. lastHeight = c - 1 /\ lastHeight # Uint64Max
        BY <3>1, <2>4, Bounds DEF CoreInv, Prefix, SizeAgrees
      <4> QED
        BY <4>1, <1>8, <2>4 DEF Add, AddAccepted, HeightAccepted
    <3>3. j - 1 < c
      BY <3>1, <2>1, Lengths, Bounds
    <3> QED
      BY <3>1, <3>2, <3>3, <2>1, <2>2, <2>4, Bounds
  <2>6. /\ m.header.height = c
        /\ Len(blockArray') = c + 1
        /\ RollUpTypeOK' /\ SizeAgrees'
    BY <1>8, <2>2, <2>3, <2>5, AddExtends DEF CoreInv, CoreTypeOK, Prefix
  <2>7. j = c + 1 /\ blockArray' = Append(blockArray, ledger[c + 1])
    BY <1>8, <2>1, <2>2, <2>4, <2>6 DEF Add
  <2>8. /\ blockArray'[c + 1] = ledger[c + 1]
        /\ \A i \in 1..c : blockArray'[i] = blockArray[i]
    BY <2>7, Lengths
  <2>9. Prefix'
    <3>1. ASSUME NEW i \in 1..(c + 1) PROVE blockArray'[i] = ledger[i]
      <4>1. CASE i \in 1..c
        BY <4>1, <2>8 DEF CoreInv, Prefix
      <4>2. CASE i = c + 1
        BY <4>2, <2>8
      <4> QED
        BY <4>1, <4>2, <2>4
    <3> QED
      BY <3>1, <2>1, <2>4, <2>6, <2>7, <1>2 DEF Prefix, storageVars
  <2>10. Kept'
    <3>1. UNCHANGED <<ledger, blocks>>
      BY <1>2 DEF storageVars
    <3>2. \A i \in 1..Len(ledger) : i >= c + 1 => ledger[i] \in blocks
      BY <2>4 DEF CoreInv, Kept
    <3> QED
      BY <3>1, <3>2, <2>6, <1>6 DEF CoreInv, Kept
  <2>11. Sending'
    <3>1. sendLast # Uint64Max => sendLast < c + 1
      BY <2>4, Bounds DEF CoreInv, Sending, CoreTypeOK, SendTypeOK, Uint64
    <3> QED
      BY <3>1, <2>6, <1>2, <1>3, <1>6 DEF CoreInv, Sending, sendVars
  <2>12. CoreTypeOK'
    BY <2>6, <1>2, <1>4 DEF CoreInv, CoreTypeOK, storageVars
  <2> QED
    BY <2>9, <2>10, <2>11, <2>12, <1>5 DEF CoreInv
<1> QED
  BY <1>1, <1>7, <1>8

LEMMA CoreDrop == ASSUME CoreInv, Drop PROVE CoreInv'
<1>1. /\ \A m \in mempool' : m \in mempool
      /\ UNCHANGED <<mined, sendVars, nodeVars, storageVars, contractVars>>
  BY DEF Drop
<1>2. CoreTypeOK'
  BY <1>1 DEF CoreInv, CoreTypeOK, RollUpTypeOK, NodeTypeOK, SendTypeOK,
              contractVars, storageVars, sendVars, nodeVars
<1>3. Linear' /\ Prefix' /\ Kept'
  BY <1>1, BlocksFrame DEF contractVars, storageVars
<1>4. Sending'
  BY <1>1 DEF CoreInv, Sending, Created, contractVars, storageVars, sendVars
<1>5. Starting' /\ Building' /\ Removing'
  BY <1>1 DEF CoreInv, Starting, LastInfo, Building, Removing, storageVars, nodeVars
<1> QED
  BY <1>2, <1>3, <1>4, <1>5 DEF CoreInv

LEMMA CoreChain ==
    ASSUME CoreInv, Chain
    PROVE  CoreInv' /\ UNCHANGED <<nodeVars, txs, ledger>>
  BY CoreMine, CoreDrop DEF Chain, Mine, Drop, storageVars

-----------------------------------------------------------------------------
(* What follows from it. *)

(* The rows in the database and the headers in the contract are all the    *)
(* blocks created.                                                         *)
LEMMA CreatedIsHeld ==
    ASSUME CoreInv, NEW k \in 1..Len(ledger)
    PROVE  ledger[k] \in blocks \/ \E j \in 1..Len(blockArray) : blockArray[j] = ledger[k]
<1>1. CASE k >= Len(blockArray)
  BY <1>1 DEF CoreInv, Kept
<1>2. CASE k < Len(blockArray)
  BY <1>2, Lengths, Bounds DEF CoreInv, Prefix
<1> QED
  BY <1>1, <1>2, Lengths, Bounds

LEMMA ArrayIsPrefix ==
    ASSUME CoreInv
    PROVE  /\ Len(blockArray) <= Len(ledger)
           /\ blockArray = SubSeq(ledger, 1, Len(blockArray))
<1> DEFINE c == Len(blockArray)
           p == SubSeq(ledger, 1, c)
<1>1. c \in Nat /\ c <= Len(ledger) /\ Len(ledger) \in Nat
  BY Lengths, Bounds
<1>2. p \in Seq(Header) /\ Len(p) = c /\ \A i \in 1..c : p[i] = ledger[i]
  BY <1>1, Lengths
<1>3. \A i \in 1..c : blockArray[i] = p[i]
  BY <1>2 DEF CoreInv, Prefix
<1>4. blockArray = p
  BY <1>1, <1>2, <1>3, Lengths
<1> QED
  BY <1>1, <1>4

-----------------------------------------------------------------------------
(* What holds however Node starts: also when it ticks before onStart is    *)
(* over, or when the database or the contract could not be read, so that   *)
(* it makes blocks after one that is not the last.  Such a block has a     *)
(* height that the contract is past, or one whose row is still there and   *)
(* keeps a second one out.                                                 *)

(* A block that comes after this one is not next for the contract, or is   *)
(* rightly so: the contract is past it, it is the first block, or the row  *)
(* of the one before it is there.                                          *)
OnChain(height, hash) ==
    \/ height < Len(blockArray) - 1
    \/ height = -1 /\ hash = NullHash
    \/ \E row \in blocks : row.height = height /\ row.curBlock = hash

Told(height, hash) ==
    /\ height \in -1..(Len(ledger) - 1)
    /\ hash \in 0..Len(ledger)
    /\ OnChain(height, hash)

(* Hashes are places in the ledger, and a height has one row at a time.    *)
Stored ==
    /\ Len(ledger) <= MaxBlocks
    /\ \A i \in 1..Len(ledger) : ledger[i].height < i /\ ledger[i].curBlock = i
    /\ blocks \subseteq Created
    /\ \A r, s \in blocks : r.height = s.height => r = s
    /\ \A r \in blocks : Told(r.height - 1, r.prevBlock)

(* The contract is a chain of blocks created.  The row of its last one is  *)
(* there, and those from the height that work() has asked it for.          *)
KeptFrom ==
    IF sendLast # Uint64Max THEN sendLast
    ELSE IF sendPc = "idle" THEN Len(blockArray) ELSE 0

InContract ==
    /\ ChainLinked /\ SizeAgrees
    /\ \A i \in 1..Len(blockArray) : blockArray[i] \in Created
    /\ \A i \in 1..Len(blockArray) :
         i = Len(blockArray) \/ i > KeptFrom => blockArray[i] \in blocks

(* What is sent, or about to be, is the contract's next block with its row *)
(* still there, or one that the contract has.                              *)
Due(b) ==
    \/ b \in blocks /\ b.height = Len(blockArray)
    \/ b.height < Len(blockArray) /\ b = blockArray[b.height + 1]

OnTheWay ==
    /\ \A b \in sendData : Due(b)
    /\ \A m \in mempool : Due(m.header)
    /\ sendLast # Uint64Max => sendLast < Len(blockArray)

(* What Node has been told is the last block, and what it builds on it.    *)
Heard ==
    /\ Told(prev_height, prev_hash)
    /\ \A s \in startInfo : Told(s.height, s.hash)
    /\ \A b \in nodeBlock : Told(b.height - 1, b.prevBlock)

SoundInv == CoreTypeOK /\ Stored /\ InContract /\ OnTheWay /\ Heard

LEMMA SoundLengths ==
    ASSUME SoundInv
    PROVE  /\ Len(ledger) \in 0..MaxBlocks
           /\ Len(blockArray) \in 0..Len(ledger)
           /\ ledger \in Seq(Header) /\ blockArray \in Seq(Header)
<1>1. /\ ledger \in Seq(Header) /\ blockArray \in Seq(Header)
      /\ Len(ledger) \in Nat /\ Len(blockArray) \in Nat /\ Len(ledger) <= MaxBlocks
  BY DEF SoundInv, CoreTypeOK, RollUpTypeOK, Stored
<1>2. CASE Len(blockArray) = 0
  BY <1>1, <1>2, Bounds
<1>3. CASE Len(blockArray) # 0
  <2>1. Len(blockArray) \in 1..Len(blockArray)
    BY <1>1, <1>3
  <2>2. PICK i \in 1..Len(ledger) : blockArray[Len(blockArray)] = ledger[i]
    BY <2>1 DEF SoundInv, InContract, Created
  <2>3. blockArray[Len(blockArray)].height = Len(blockArray) - 1
    BY <2>1 DEF SoundInv, InContract, ChainLinked
  <2>4. ledger[i].height < i
    BY DEF SoundInv, Stored
  <2> QED
    BY <1>1, <2>2, <2>3, <2>4, Bounds
<1> QED
  BY <1>2, <1>3

(* The rows and the headers have places in the ledger. *)
LEMMA SoundRows ==
    ASSUME SoundInv, NEW b \in Created
    PROVE  /\ b \in Header
           /\ b.height \in 0..(Len(ledger) - 1) /\ b.curBlock \in 1..Len(ledger)
           /\ b.height < Uint64Max
<1>1. PICK i \in 1..Len(ledger) : b = ledger[i]
  BY DEF Created
<1>2. ledger[i].height < i /\ ledger[i].curBlock = i /\ ledger[i] \in Header
  BY SoundLengths DEF SoundInv, Stored
<1>3. ledger[i].height \in Nat
  BY <1>2, Bounds DEF Header, Uint64
<1> QED
  BY <1>1, <1>2, <1>3, SoundLengths, Bounds

(* Whatever is told has the types of prev_height and prev_hash. *)
LEMMA ToldTypes ==
    ASSUME SoundInv, NEW height, NEW hash, Told(height, hash)
    PROVE  /\ height \in -1..(MaxBlocks - 1) /\ hash \in Hash
           /\ height + 1 \in Uint64
           /\ height # -1 => height \in Uint64
  BY SoundLengths, Bounds DEF Told, Uint64

(* It stays so while the ledger and the contract grow and only rows below  *)
(* the contract's last block are deleted.                                  *)
LEMMA ToldStays ==
    ASSUME SoundInv, NEW height, NEW hash, Told(height, hash),
           Len(ledger') \in Nat, Len(ledger') >= Len(ledger),
           Len(blockArray') \in Nat, Len(blockArray') >= Len(blockArray),
           \A row \in blocks : row \in blocks' \/ row.height < Len(blockArray) - 1
    PROVE  Told(height, hash)'
<1>1. height \in Int /\ Len(ledger) \in Nat /\ Len(blockArray) \in Nat
  BY SoundLengths, Bounds DEF Told
<1>2. OnChain(height, hash)'
  BY <1>1 DEF Told, OnChain
<1> QED
  BY <1>1, <1>2 DEF Told

-----------------------------------------------------------------------------
(* The steps that leave parts of it alone. *)

LEMMA SoundStoredFrame ==
    ASSUME SoundInv, UNCHANGED <<ledger, blocks, lastHeight, blockArray>>
    PROVE  /\ Stored' /\ ChainLinked' /\ SizeAgrees' /\ Created' = Created
           /\ \A height, hash : Told(height, hash) => Told(height, hash)'
           /\ \A b : Due(b) => Due(b)'
<1>1. \A height, hash : Told(height, hash) => Told(height, hash)'
  BY DEF Told, OnChain
<1>2. Created' = Created
  BY DEF Created
<1>3. Stored'
  BY <1>1, <1>2 DEF SoundInv, Stored
<1>4. ChainLinked' /\ SizeAgrees'
  BY DEF SoundInv, InContract, ChainLinked, SizeAgrees
<1>5. \A b : Due(b) => Due(b)'
  BY DEF Due
<1> QED
  BY <1>1, <1>2, <1>3, <1>4, <1>5

LEMMA SoundNodeFrame ==
    ASSUME SoundInv, UNCHANGED <<ledger, blocks, contractVars, sendVars, chainVars>>,
           NodeTypeOK', Heard'
    PROVE  SoundInv'
<1>1. CoreTypeOK'
  BY DEF SoundInv, CoreTypeOK, RollUpTypeOK, SendTypeOK, contractVars, sendVars, chainVars
<1>2. Stored' /\ ChainLinked' /\ SizeAgrees' /\ Created' = Created /\ \A b : Due(b) => Due(b)'
  BY SoundStoredFrame DEF contractVars
<1>3. InContract'
  BY <1>2 DEF SoundInv, InContract, KeptFrom, contractVars, sendVars
<1>4. OnTheWay'
  BY <1>2 DEF SoundInv, OnTheWay, contractVars, sendVars, chainVars
<1> QED
  BY <1>1, <1>2, <1>3, <1>4 DEF SoundInv

LEMMA SoundFrame ==
    ASSUME SoundInv, UNCHANGED <<ledger, blocks, contractVars, nodeVars, sendVars, chainVars>>
    PROVE  SoundInv'
<1>1. NodeTypeOK'
  BY DEF SoundInv, CoreTypeOK, NodeTypeOK, nodeVars
<1>2. Heard'
  BY SoundStoredFrame DEF SoundInv, Heard, nodeVars, contractVars
<1> QED
  BY <1>1, <1>2, SoundNodeFrame

(* The initial states, and a process that is started again. *)
LEMMA SoundInit ==
    ASSUME StorageInit, RollUpInit, NodeInit, SendInit, ChainInit
    PROVE  SoundInv
<1> USE DEF StorageInit, RollUpInit, NodeInit, SendInit, ChainInit
<1>1. CoreTypeOK
  BY CoreInit DEF CoreInv
<1>2. Stored /\ OnTheWay
  BY Bounds DEF Stored, OnTheWay
<1>3. InContract
  BY DEF InContract, ChainLinked, SizeAgrees
<1>4. Told(prev_height, prev_hash)
  BY DEF Told, OnChain, NullHash
<1> QED
  BY <1>1, <1>2, <1>3, <1>4 DEF SoundInv, Heard

LEMMA SoundRestart ==
    ASSUME SoundInv, NodeRestart, SendRestart, UNCHANGED <<blocks, ledger, contractVars, chainVars>>
    PROVE  SoundInv'
<1>1. CoreTypeOK'
  BY Bounds DEF SoundInv, CoreTypeOK, RollUpTypeOK, NodeTypeOK, SendTypeOK, NullHash, Uint64,
                NodeRestart, SendRestart, contractVars, chainVars
<1>2. Stored' /\ ChainLinked' /\ SizeAgrees' /\ Created' = Created /\ \A b : Due(b) => Due(b)'
  BY SoundStoredFrame DEF contractVars
<1>3. InContract'
  BY <1>2, SoundLengths, Bounds DEF SoundInv, InContract, KeptFrom, SendRestart, contractVars
<1>4. OnTheWay'
  BY <1>2 DEF SoundInv, OnTheWay, SendRestart, contractVars, chainVars
<1>5. Heard'
  <2>1. Len(ledger') \in Nat
    BY SoundLengths, Bounds
  <2>2. Told(prev_height, prev_hash)'
    BY <2>1 DEF Told, OnChain, NodeRestart, NullHash
  <2> QED
    BY <2>2 DEF Heard, NodeRestart
<1> QED
  BY <1>1, <1>2, <1>3, <1>4, <1>5 DEF SoundInv

-----------------------------------------------------------------------------
(* Node, whatever its reads answer. *)

LEMMA SoundStorageInfo ==
    ASSUME SoundInv, NEW s \in InfoByStorage
    PROVE  Told(s.height, s.hash) /\ s \in [height : Uint64, hash : Hash, type : {"number"}]
<1>1. PICK row \in blocks : s = [height |-> row.height, hash |-> row.curBlock, type |-> "number"]
  BY DEF InfoByStorage, LastRow
<1>2. row \in Created
  BY DEF SoundInv, Stored
<1>3. /\ row.height \in 0..(Len(ledger) - 1) /\ row.curBlock \in 1..Len(ledger)
      /\ row.height \in Uint64 /\ row.curBlock \in Hash
  BY <1>2, SoundRows DEF Header
<1>4. OnChain(row.height, row.curBlock)
  BY DEF OnChain
<1> QED
  BY <1>1, <1>3, <1>4, SoundLengths, Bounds DEF Told

LEMMA SoundContractInfo ==
    ASSUME SoundInv, NEW s \in InfoByContract
    PROVE  Told(s.height, s.hash) /\ s \in [height : Uint64, hash : Hash, type : {"bigint"}]
<1> DEFINE c == Len(blockArray)
<1>1. /\ lastHeight # Uint64Max
      /\ s = [height |-> lastHeight, hash |-> blockArray[lastHeight + 1].curBlock, type |-> "bigint"]
  BY DEF InfoByContract, GetByHeight
<1>2. c \in Nat /\ c # 0 /\ lastHeight = c - 1
  BY <1>1, SoundLengths, Bounds DEF SoundInv, InContract, SizeAgrees
<1>3. blockArray[c] \in blocks /\ blockArray[c].height = c - 1
  BY <1>2 DEF SoundInv, InContract, ChainLinked
<1>4. blockArray[c] \in Created
  BY <1>3 DEF SoundInv, Stored
<1>5. /\ blockArray[c].height \in 0..(Len(ledger) - 1) /\ blockArray[c].curBlock \in 1..Len(ledger)
      /\ blockArray[c].height \in Uint64 /\ blockArray[c].curBlock \in Hash
  BY <1>4, SoundRows DEF Header
<1>6. OnChain(c - 1, blockArray[c].curBlock)
  BY <1>3 DEF OnChain
<1>7. s = [height |-> c - 1, hash |-> blockArray[c].curBlock, type |-> "bigint"]
  BY <1>1, <1>2
<1> QED
  BY <1>3, <1>5, <1>6, <1>7, SoundLengths, Bounds DEF Told

(* What Node assigns was told by one of them. *)
LEMMA SoundPrevious ==
    ASSUME SoundInv, NEW info, \A s \in info : Told(s.height, s.hash) /\ s.type \in HeightTypes,
           SetPrevious(info) \/ SetPrevious(Newest(info, InfoByContract))
    PROVE  /\ Told(prev_height', prev_hash')
           /\ prev_hash' \in Hash /\ prev_height' \in -1..(MaxBlocks - 1)
           /\ heightType' \in HeightTypes
<1>1. \/ UNCHANGED <<prev_hash, prev_height, heightType>>
      \/ \E s \in info \cup InfoByContract :
           prev_hash' = s.hash /\ prev_height' = s.height /\ heightType' = s.type
  BY DEF SetPrevious, Newest
<1>2. Told(prev_height', prev_hash')
  BY <1>1, SoundContractInfo DEF SoundInv, Heard
<1>3. heightType' \in HeightTypes
  BY <1>1, SoundContractInfo DEF SoundInv, CoreTypeOK, NodeTypeOK, HeightTypes
<1> QED
  BY <1>2, <1>3, ToldTypes

LEMMA SoundOnStart ==
    ASSUME SoundInv, OnStart, UNCHANGED <<sendVars, chainVars>>
    PROVE  SoundInv' /\ \A height, hash : Told(height, hash) => Told(height, hash)'
<1>1. UNCHANGED <<nodePc, nodeTxs, nodeBlock, ledger, blocks, contractVars>>
  BY DEF OnStart, OnStartStorage, OnStartContract, storageVars
<1>2. \A height, hash : Told(height, hash) => Told(height, hash)'
  BY <1>1, SoundStoredFrame DEF contractVars
<1>3. CASE OnStartStorage
  <2>1. /\ startPc' = "contract" /\ UNCHANGED <<prev_hash, prev_height, heightType>>
        /\ \A s \in startInfo' : s \in InfoByStorage
    BY <1>3 DEF OnStartStorage
  <2>2. NodeTypeOK'
    BY <1>1, <2>1, SoundStorageInfo DEF SoundInv, CoreTypeOK, NodeTypeOK
  <2>3. Heard'
    BY <1>1, <1>2, <2>1, SoundStorageInfo DEF SoundInv, Heard
  <2> QED
    BY <1>1, <1>2, <2>2, <2>3, SoundNodeFrame
<1>4. CASE OnStartContract
  <2>1. /\ startPc' = "done" /\ startInfo' = {}
        /\ SetPrevious(startInfo) \/ SetPrevious(Newest(startInfo, InfoByContract))
    BY <1>4 DEF OnStartContract
  <2>2. /\ Told(prev_height', prev_hash')
        /\ prev_hash' \in Hash /\ prev_height' \in -1..(MaxBlocks - 1)
        /\ heightType' \in HeightTypes
    <3>1. \A s \in startInfo : Told(s.height, s.hash) /\ s.type \in HeightTypes
      BY DEF SoundInv, Heard, CoreTypeOK, NodeTypeOK, HeightTypes
    <3> QED
      BY <2>1, <3>1, SoundPrevious
  <2>3. NodeTypeOK'
    BY <1>1, <2>1, <2>2 DEF SoundInv, CoreTypeOK, NodeTypeOK, HeightTypes
  <2>4. Told(prev_height, prev_hash)'
    BY <1>1, <2>2 DEF Told, OnChain, contractVars
  <2>5. Heard'
    BY <1>1, <1>2, <2>1, <2>4 DEF SoundInv, Heard
  <2> QED
    BY <1>1, <1>2, <2>3, <2>5, SoundNodeFrame
<1> QED
  BY <1>3, <1>4 DEF OnStart

(* Work on what Node has been told, up to the insert and after it. *)
LEMMA SoundWork ==
    ASSUME SoundInv, txs \subseteq Tx, Work, ~WorkInsert, UNCHANGED <<sendVars, chainVars>>
    PROVE  SoundInv' /\ \A height, hash : Told(height, hash) => Told(height, hash)'
<1>1. UNCHANGED <<prev_hash, prev_height, heightType, startVars, ledger, blocks, contractVars>>
  BY DEF Work, WorkGet, WorkCreate, WorkCreateThrows, WorkFail, WorkRemove, WorkRemoveFail, storageVars
<1>2. \A height, hash : Told(height, hash) => Told(height, hash)'
  BY <1>1, SoundStoredFrame DEF contractVars
<1>3. nodePc' \in {"idle", "get", "ipfs", "remove"} /\ nodeTxs' \subseteq Tx
  BY DEF Work, WorkGet, WorkCreate, WorkCreateThrows, WorkFail, WorkRemove, WorkRemoveFail, SelectTxByLength,
         SoundInv, CoreTypeOK, NodeTypeOK
<1>4. \/ nodeBlock' \subseteq nodeBlock
      \/ nodeBlock' = {[height |-> prev_height + 1, prevBlock |-> prev_hash, CID |-> nodeTxs]}
  BY DEF Work, WorkGet, WorkCreate, WorkCreateThrows, WorkFail, WorkRemove, WorkRemoveFail, CreateBlock
<1>5. /\ Told(prev_height, prev_hash) /\ prev_height + 1 \in Uint64 /\ prev_hash \in Hash
      /\ prev_height \in Int
  BY ToldTypes DEF SoundInv, Heard
<1>6. NodeTypeOK'
  BY <1>1, <1>3, <1>4, <1>5 DEF SoundInv, CoreTypeOK, NodeTypeOK, startVars, CID
<1>7. \A b \in nodeBlock' : Told(b.height - 1, b.prevBlock)
  <2> SUFFICES ASSUME NEW b \in nodeBlock' PROVE Told(b.height - 1, b.prevBlock)
    OBVIOUS
  <2>1. CASE b \in nodeBlock
    BY <2>1 DEF SoundInv, Heard
  <2>2. CASE b = [height |-> prev_height + 1, prevBlock |-> prev_hash, CID |-> nodeTxs]
    <3>1. b.height - 1 = prev_height /\ b.prevBlock = prev_hash
      BY <2>2, <1>5
    <3> QED
      BY <3>1, <1>5
  <2> QED
    BY <2>1, <2>2, <1>4
<1>8. Heard'
  BY <1>1, <1>2, <1>7 DEF SoundInv, Heard, startVars
<1> QED
  BY <1>1, <1>2, <1>6, <1>8, SoundNodeFrame

(* A row is inserted at a height that has none: the contract is past it,   *)
(* or it is on a row that is there.                                        *)
LEMMA SoundWorkInsert ==
    ASSUME SoundInv, WorkInsert, UNCHANGED <<sendVars, chainVars>>
    PROVE  SoundInv' /\ \A height, hash : Told(height, hash) => Told(height, hash)'
<1> DEFINE n == Len(ledger)
<1>1. PICK b \in nodeBlock :
         /\ InsertBlock(b, b.CID)
         /\ prev_hash' = NextHash /\ prev_height' = b.height
  BY DEF WorkInsert
<1> DEFINE row == [height |-> b.height, curBlock |-> n + 1, prevBlock |-> b.prevBlock, CID |-> b.CID]
<1>2. /\ nodePc' = "remove" /\ nodeBlock' = {} /\ n < MaxBlocks /\ heightType' = "bigint"
      /\ UNCHANGED <<startVars, nodeTxs, txs, contractVars>>
  BY DEF WorkInsert
<1>3. /\ \A r \in blocks : r.height # b.height
      /\ blocks' = blocks \cup {row} /\ ledger' = Append(ledger, row)
      /\ prev_hash' = n + 1 /\ prev_height' = b.height
  BY <1>1 DEF InsertBlock, NextHash, HeightIsFree
<1>4. /\ b \in [height : Uint64, prevBlock : Hash, CID : CID] /\ b.height \in Nat
      /\ Told(b.height - 1, b.prevBlock)
  BY Bounds DEF SoundInv, CoreTypeOK, NodeTypeOK, Heard, Uint64
<1>5. /\ n \in Nat /\ n + 1 \in 1..MaxBlocks /\ ledger \in Seq(Header)
      /\ Len(blockArray) \in 0..n /\ blockArray \in Seq(Header)
      /\ b.height \in 0..n
  BY <1>2, <1>4, SoundLengths, Bounds DEF Told
<1>6. row \in Header
  BY <1>4, <1>5, Bounds DEF Header
<1>7. /\ ledger' \in Seq(Header) /\ Len(ledger') = n + 1 /\ ledger'[n + 1] = row
      /\ \A i \in 1..n : ledger'[i] = ledger[i]
  BY <1>3, <1>5, <1>6
<1>8. Created \subseteq Created' /\ row \in Created'
  BY <1>5, <1>7 DEF Created
<1>9. UNCHANGED <<lastHeight, blockArray, blockMap, sendPc, sendLast, sendData, nonce, mempool, mined,
                  startPc, startInfo>>
  BY <1>2 DEF contractVars, sendVars, chainVars, startVars
<1>10. \A height, hash : Told(height, hash) => Told(height, hash)'
  BY <1>3, <1>5, <1>7, <1>9, ToldStays
<1>11. Told(prev_height, prev_hash)'
  <2>1. OnChain(prev_height, prev_hash)'
    BY <1>3 DEF OnChain
  <2> QED
    BY <2>1, <1>3, <1>5, <1>7 DEF Told
<1>12. CoreTypeOK'
  <2>1. NodeTypeOK'
    BY <1>2, <1>3, <1>5, <1>9, Bounds DEF SoundInv, CoreTypeOK, NodeTypeOK
  <2> QED
    BY <2>1, <1>3, <1>6, <1>7, <1>9 DEF SoundInv, CoreTypeOK, RollUpTypeOK, SendTypeOK
<1>13. Stored'
  <2>1. \A i \in 1..(n + 1) : ledger'[i].height < i /\ ledger'[i].curBlock = i
    <3> SUFFICES ASSUME NEW i \in 1..(n + 1)
                 PROVE  ledger'[i].height < i /\ ledger'[i].curBlock = i
      OBVIOUS
    <3>1. CASE i \in 1..n
      BY <3>1, <1>7 DEF SoundInv, Stored
    <3>2. CASE i = n + 1
      BY <3>2, <1>5, <1>7
    <3> QED
      BY <3>1, <3>2, <1>5
  <2>2. blocks' \subseteq Created'
    BY <1>3, <1>8 DEF SoundInv, Stored
  <2>3. \A r, s \in blocks' : r.height = s.height => r = s
    BY <1>3 DEF SoundInv, Stored
  <2>4. \A r \in blocks' : Told(r.height - 1, r.prevBlock)
    BY <1>3, <1>4 DEF SoundInv, Stored
  <2> QED
    BY <2>1, <2>2, <2>3, <2>4, <1>5, <1>7, <1>10, Bounds DEF Stored
<1>14. InContract'
  BY <1>3, <1>8, <1>9 DEF SoundInv, InContract, ChainLinked, SizeAgrees, KeptFrom
<1>15. OnTheWay'
  BY <1>3, <1>9 DEF SoundInv, OnTheWay, Due
<1>16. Heard'
  BY <1>2, <1>9, <1>10, <1>11 DEF SoundInv, Heard
<1> QED
  BY <1>10, <1>12, <1>13, <1>14, <1>15, <1>16 DEF SoundInv

LEMMA SoundNode ==
    ASSUME SoundInv, txs \subseteq Tx, NodeNext, UNCHANGED <<sendVars, chainVars>>
    PROVE  /\ SoundInv' /\ UNCHANGED contractVars
           /\ \A height, hash : Told(height, hash) => Told(height, hash)'
<1>1. UNCHANGED contractVars
  BY DEF NodeNext, OnStart, OnStartStorage, OnStartContract, Work, WorkGet, WorkCreate,
         WorkInsert, WorkCreateThrows, WorkFail, WorkRemove, WorkRemoveFail
<1> QED
  BY <1>1, SoundOnStart, SoundWork, SoundWorkInsert DEF NodeNext

-----------------------------------------------------------------------------
(* SendBlock: the row it selects is the contract's next block or one that  *)
(* the contract has, although it asked for the height a while ago.         *)

LEMMA SoundNextToSend ==
    ASSUME SoundInv, sendPc = "select", NEW b \in NextToSend
    PROVE  Due(b)
<1> DEFINE c == Len(blockArray)
           h == IF sendLast = Uint64Max THEN 0 ELSE sendLast + 1
<1>1. /\ c \in Nat /\ h \in Nat
      /\ sendLast = Uint64Max => KeptFrom = 0
      /\ sendLast # Uint64Max => KeptFrom = sendLast /\ sendLast \in Nat /\ sendLast < c
  BY SoundLengths, Bounds DEF SoundInv, CoreTypeOK, SendTypeOK, OnTheWay, KeptFrom, Uint64
<1>2. b \in blocks /\ b.height = h
  BY DEF NextToSend, SelectBlockByHeight
<1>3. CASE h = c
  BY <1>2, <1>3 DEF Due
<1>4. CASE h < c
  <2>1. h + 1 \in 1..c /\ h + 1 > KeptFrom
    BY <1>1, <1>4
  <2>2. blockArray[h + 1] \in blocks /\ blockArray[h + 1].height = h
    BY <2>1, <1>1 DEF SoundInv, InContract, ChainLinked
  <2>3. b = blockArray[h + 1]
    BY <2>2, <1>2 DEF SoundInv, Stored
  <2> QED
    BY <2>3, <1>2, <1>4 DEF Due
<1>5. h <= c
  BY <1>1
<1> QED
  BY <1>1, <1>3, <1>4, <1>5

(* Nonces are numbers, whatever the signer counts on from. *)
LEMMA SendTypes ==
    ASSUME CoreTypeOK, Send, sendData' \subseteq Header, sendData \subseteq Header
    PROVE  /\ SendTypeOK'
           /\ \A m \in mempool' :
                m \in mempool \/ \E k \in Nat, r \in sendData : m = [nonce |-> k, header |-> r]
<1>1. nonce \subseteq Nat /\ mined \in Nat /\ PendingCount \subseteq Nat /\ NonceBound \in Nat
  BY Bounds DEF CoreTypeOK, SendTypeOK, PendingCount, NonceBound
<1>2. ASSUME NEW k \in NextNonce PROVE k \in Nat /\ Counted(k) \subseteq Nat
  BY <1>1, <1>2 DEF NextNonce, Counted
<1>3. \/ nonce' = nonce
      \/ \E k \in NextNonce : nonce' = Counted(k)
      \/ nonce' = {mined}
  BY DEF Send, SendRead, SendNoBlock, SendSelect, SendAdd, SendAddFail, SendResync,
         SendResyncFail, SendPrune, SendPruneFail
<1>4. \A m \in mempool' :
         m \in mempool \/ \E k \in Nat, r \in sendData : m = [nonce |-> k, header |-> r]
  BY <1>2
  DEF Send, SendRead, SendNoBlock, SendSelect, SendAdd, SendAddFail, SendResync,
      SendResyncFail, SendPrune, SendPruneFail, Submit, Refuse, chainVars
<1>5. /\ sendLast' = sendLast \/ sendLast' = lastHeight
      /\ sendPc' \in {"idle", "select", "add", "resync", "prune"}
      /\ mined' = mined
  BY DEF Send, SendRead, SendNoBlock, SendSelect, SendAdd, SendAddFail, SendResync,
         SendResyncFail, SendPrune, SendPruneFail, chainVars
<1>6. mempool' \subseteq [nonce : Nat, header : Header]
  BY <1>4 DEF CoreTypeOK, SendTypeOK
<1>7. SendTypeOK'
  <2>1. nonce' \subseteq Nat
    BY <1>1, <1>2, <1>3
  <2> QED
    BY <2>1, <1>1, <1>5, <1>6 DEF CoreTypeOK, RollUpTypeOK, SendTypeOK
<1> QED
  BY <1>4, <1>7

(* work() keeps the rows from the height it asked for on, and deletes      *)
(* those below it when it is over.                                         *)
LEMMA SoundKept ==
    ASSUME SoundInv, Send
    PROVE  /\ KeptFrom' \in Nat
           /\ \A i \in 1..Len(blockArray) :
                i = Len(blockArray) \/ i > KeptFrom' => blockArray[i] \in blocks
           /\ sendLast' # Uint64Max => sendLast' < Len(blockArray)
           /\ sendLast' \in Uint64
<1> DEFINE c == Len(blockArray)
<1>1. /\ c \in Nat /\ c <= Uint64Max
      /\ sendLast \in Uint64 /\ lastHeight \in Uint64
      /\ sendLast # Uint64Max => sendLast < c
      /\ KeptFrom \in Nat
      /\ \A h \in Uint64 : h \in Nat
      /\ UNCHANGED blockArray
  BY SoundLengths, Bounds
  DEF SoundInv, CoreTypeOK, SendTypeOK, RollUpTypeOK, OnTheWay, KeptFrom, Uint64,
      Send, SendRead, SendNoBlock, SendSelect, SendAdd, SendAddFail, SendResync,
      SendResyncFail, SendPrune, SendPruneFail, contractVars
<1>2. CASE SendRead
  <2>1. sendLast' = lastHeight /\ sendPc' = "select"
    BY <1>2 DEF SendRead
  <2>2. CASE c = 0
    BY <2>1, <2>2, <1>1, Bounds DEF SoundInv, InContract, SizeAgrees, KeptFrom
  <2>3. CASE c # 0
    <3>1. lastHeight = c - 1 /\ lastHeight # Uint64Max
      BY <2>3, <1>1, Bounds DEF SoundInv, InContract, SizeAgrees
    <3>2. KeptFrom' = c - 1
      BY <2>1, <3>1 DEF KeptFrom
    <3> QED
      BY <2>1, <2>3, <3>1, <3>2, <1>1 DEF SoundInv, InContract
  <2> QED
    BY <2>2, <2>3
<1>3. CASE ~SendRead
  <2>1. sendLast' = sendLast /\ sendPc # "idle"
    BY <1>3 DEF Send, SendNoBlock, SendSelect, SendAdd, SendAddFail, SendResync,
                SendResyncFail, SendPrune, SendPruneFail
  <2>2. KeptFrom' \in Nat /\ KeptFrom' >= KeptFrom
    BY <2>1, <1>1 DEF KeptFrom
  <2> QED
    BY <2>1, <2>2, <1>1 DEF SoundInv, InContract
<1> QED
  BY <1>2, <1>3

LEMMA SoundSend ==
    ASSUME SoundInv, Send
    PROVE  /\ SoundInv' /\ UNCHANGED contractVars
           /\ \A height, hash : Told(height, hash) => Told(height, hash)'
<1> DEFINE c == Len(blockArray)
<1>1. UNCHANGED <<nodeVars, txs, ledger, contractVars, mined>>
  BY DEF Send, SendRead, SendNoBlock, SendSelect, SendAdd, SendAddFail, SendResync,
         SendResyncFail, SendPrune, SendPruneFail, storageVars, chainVars
<1>2. \/ UNCHANGED blocks
      \/ /\ sendLast # Uint64Max /\ sendLast' = sendLast /\ sendPc' = "idle"
         /\ blocks' = {row \in blocks : row.height >= sendLast}
  BY DEF Send, SendRead, SendNoBlock, SendSelect, SendAdd, SendAddFail, SendResync,
         SendResyncFail, SendPrune, SendPruneFail, storageVars, DeleteBlockByHeight
<1>3. /\ c \in Nat
      /\ sendLast # Uint64Max => sendLast \in Nat /\ sendLast < c
      /\ \A row \in blocks : row.height \in Nat
  BY SoundLengths, SoundRows, Bounds DEF SoundInv, CoreTypeOK, SendTypeOK, OnTheWay, Uint64, Stored
<1>4. /\ blocks' \subseteq blocks
      /\ \A row \in blocks : row \in blocks' \/ row.height < c - 1
  BY <1>2, <1>3
<1>5. \A b \in sendData' : Due(b)
  <2>1. \/ sendData' \subseteq sendData
        \/ sendPc = "select" /\ sendData' = NextToSend
    BY DEF Send, SendRead, SendNoBlock, SendSelect, SendAdd, SendAddFail, SendResync,
         SendResyncFail, SendPrune, SendPruneFail
  <2> QED
    BY <2>1, SoundNextToSend DEF SoundInv, OnTheWay
<1>6. \A b : Due(b) => Due(b)'
  BY <1>1, <1>3, <1>4 DEF Due, contractVars
<1>7. sendData' \subseteq Header /\ sendData \subseteq Header
  <2>1. sendData \subseteq Header
    BY DEF SoundInv, CoreTypeOK, SendTypeOK
  <2>2. NextToSend \subseteq Header
    BY DEF NextToSend, SelectBlockByHeight, SoundInv, CoreTypeOK
  <2> QED
    BY <2>1, <2>2 DEF Send, SendRead, SendNoBlock, SendSelect, SendAdd, SendAddFail, SendResync,
         SendResyncFail, SendPrune, SendPruneFail
<1>8. /\ SendTypeOK'
      /\ \A m \in mempool' : m \in mempool \/ m.header \in sendData
  <2>1. CoreTypeOK
    BY DEF SoundInv
  <2> QED
    BY <2>1, <1>7, SendTypes
<1>9. CoreTypeOK'
  BY <1>1, <1>4, <1>8 DEF SoundInv, CoreTypeOK, RollUpTypeOK, NodeTypeOK, nodeVars, contractVars
<1>10. \A height, hash : Told(height, hash) => Told(height, hash)'
  BY <1>1, <1>4, SoundLengths, ToldStays DEF contractVars
<1>11. Created' = Created
  BY <1>1 DEF Created
<1>12. Stored'
  BY <1>1, <1>4, <1>10, <1>11 DEF SoundInv, Stored
<1>13. InContract'
  <2>1. ASSUME NEW i \in 1..c, i = c \/ i > KeptFrom' PROVE blockArray[i] \in blocks'
    <3>1. blockArray[i] \in blocks /\ blockArray[i].height = i - 1
      BY <2>1, SoundKept DEF SoundInv, InContract, ChainLinked
    <3>2. CASE UNCHANGED blocks
      BY <3>1, <3>2
    <3>3. CASE ~UNCHANGED blocks
      <4>1. KeptFrom' = sendLast
        BY <3>3, <1>2 DEF KeptFrom
      <4>2. i - 1 >= sendLast
        BY <3>3, <4>1, <2>1, <1>2, <1>3
      <4> QED
        BY <3>1, <3>3, <4>2, <1>2
    <3> QED
      BY <3>2, <3>3
  <2>2. ChainLinked' /\ SizeAgrees'
    BY <1>1 DEF SoundInv, InContract, ChainLinked, SizeAgrees, contractVars
  <2> QED
    BY <2>1, <2>2, <1>1, <1>11 DEF SoundInv, InContract, contractVars
<1>14. OnTheWay'
  <2>1. \A m \in mempool' : Due(m.header)
    BY <1>8 DEF SoundInv, OnTheWay
  <2> QED
    BY <2>1, <1>1, <1>5, <1>6, SoundKept DEF OnTheWay, contractVars
<1>15. Heard'
  BY <1>1, <1>10 DEF SoundInv, Heard, nodeVars
<1> QED
  BY <1>1, <1>9, <1>10, <1>12, <1>13, <1>14, <1>15 DEF SoundInv

-----------------------------------------------------------------------------
(* The chain: a call that the contract accepts is of a block whose row is  *)
(* there, and every other one that is on the way is of the same block or   *)
(* of one that the contract has.                                           *)

LEMMA SoundAccepted ==
    ASSUME SoundInv, NEW m \in mempool, Add(m.header)
    PROVE  /\ m.header \in blocks /\ m.header \in Header
           /\ m.header.height = Len(blockArray)
           /\ Len(blockArray) < MaxBlocks /\ Len(blockArray) < Uint64Max
<1> DEFINE c == Len(blockArray)
           h == m.header.height
<1>1. Due(m.header) /\ m.header \in Header
  BY DEF SoundInv, OnTheWay, CoreTypeOK, SendTypeOK
<1>2. c \in Nat /\ c <= Len(ledger) /\ Len(ledger) <= MaxBlocks /\ h \in Nat
  BY <1>1, SoundLengths, Bounds DEF Header, Uint64
<1>3. h = c
  <2> SUFFICES ASSUME h < c PROVE FALSE
    BY <1>1, <1>2 DEF Due
  <2>1. lastHeight = c - 1 /\ lastHeight # Uint64Max
    BY <1>2, Bounds DEF SoundInv, InContract, SizeAgrees
  <2>2. h = c
    BY <2>1, <1>2 DEF Add, AddAccepted, HeightAccepted
  <2> QED
    BY <2>2, <1>2
<1>4. m.header \in blocks
  BY <1>1, <1>2, <1>3 DEF Due
<1>5. m.header \in Created
  BY <1>4 DEF SoundInv, Stored
<1>6. h \in 0..(Len(ledger) - 1)
  BY <1>5, SoundRows
<1> QED
  BY <1>1, <1>2, <1>3, <1>4, <1>6, Bounds

LEMMA SoundMine ==
    ASSUME SoundInv, Mine
    PROVE  /\ SoundInv' /\ (RollUpNext \/ UNCHANGED contractVars)
           /\ \A height, hash : Told(height, hash) => Told(height, hash)'
<1> DEFINE c == Len(blockArray)
<1>1. PICK m \in mempool :
         /\ mempool' = mempool \ {m}
         /\ Add(m.header) \/ (~AddAccepted(m.header) /\ UNCHANGED contractVars)
  BY DEF Mine
<1>2. mined' = mined + 1 /\ UNCHANGED <<sendVars, nodeVars, storageVars>>
  BY DEF Mine
<1>3. SendTypeOK' /\ NodeTypeOK'
  BY <1>1, <1>2 DEF SoundInv, CoreTypeOK, SendTypeOK, NodeTypeOK, sendVars, nodeVars
<1>4. CASE UNCHANGED contractVars
  <2>1. CoreTypeOK'
    BY <1>2, <1>3, <1>4 DEF SoundInv, CoreTypeOK, RollUpTypeOK, storageVars, contractVars
  <2>2. /\ Stored' /\ ChainLinked' /\ SizeAgrees' /\ Created' = Created
        /\ \A height, hash : Told(height, hash) => Told(height, hash)'
        /\ \A b : Due(b) => Due(b)'
    BY <1>2, <1>4, SoundStoredFrame DEF storageVars, contractVars
  <2>3. InContract'
    BY <2>2, <1>2, <1>4 DEF SoundInv, InContract, KeptFrom, storageVars, sendVars, contractVars
  <2>4. OnTheWay'
    BY <2>2, <1>1, <1>2, <1>4 DEF SoundInv, OnTheWay, sendVars, contractVars
  <2>5. Heard'
    BY <2>2, <1>2 DEF SoundInv, Heard, nodeVars
  <2> QED
    BY <2>1, <2>2, <2>3, <2>4, <2>5, <1>4 DEF SoundInv
<1>5. CASE Add(m.header)
  <2>1. /\ m.header \in blocks /\ m.header \in Header /\ m.header.height = c
        /\ c < MaxBlocks /\ c < Uint64Max
    BY <1>5, SoundAccepted
  <2>2. /\ Len(blockArray') = c + 1
        /\ RollUpTypeOK' /\ SizeAgrees' /\ ChainLinked'
    BY <1>5, <2>1, AddExtends DEF SoundInv, CoreTypeOK, InContract
  <2>3. c \in Nat /\ blockArray \in Seq(Header) /\ blockArray' = Append(blockArray, m.header)
    BY <1>5, SoundLengths, Bounds DEF Add
  <2>4. /\ blockArray'[c + 1] = m.header
        /\ \A i \in 1..c : blockArray'[i] = blockArray[i]
    BY <2>3, <2>1
  <2>5. UNCHANGED <<txs, blocks, ledger, sendPc, sendLast, sendData, nonce, prev_hash, prev_height,
                    startInfo, nodeBlock>> /\ Created' = Created
    BY <1>2 DEF storageVars, sendVars, nodeVars, Created
  <2>6. CoreTypeOK'
    BY <1>3, <2>2, <2>5 DEF SoundInv, CoreTypeOK
  <2>7. \A height, hash : Told(height, hash) => Told(height, hash)'
    BY <2>2, <2>3, <2>5, SoundLengths, ToldStays
  <2>8. Stored'
    BY <2>5, <2>7 DEF SoundInv, Stored
  <2>9. ASSUME NEW b \in Header, Due(b) PROVE Due(b)'
    <3>1. CASE b \in blocks /\ b.height = c
      <4>1. b = m.header
        BY <3>1, <2>1 DEF SoundInv, Stored
      <4>2. b.height < Len(blockArray')
        BY <4>1, <2>1, <2>2, <2>3
      <4>3. b = blockArray'[b.height + 1]
        BY <4>1, <2>1, <2>4
      <4> QED
        BY <4>2, <4>3 DEF Due
    <3>2. CASE b.height < c /\ b = blockArray[b.height + 1]
      <4>1. b.height + 1 \in 1..c
        BY <3>2, <2>3, Bounds DEF Header, Uint64
      <4>2. b.height < Len(blockArray')
        <5>1. b.height \in Nat
          BY Bounds DEF Header, Uint64
        <5>2. c + 1 = Len(blockArray')
          BY <2>2
        <5> HIDE DEF c
        <5> QED
          BY <5>1, <5>2, <3>2, <2>3
      <4>3. b = blockArray'[b.height + 1]
        BY <4>1, <3>2, <2>4
      <4> QED
        BY <4>2, <4>3 DEF Due
    <3> QED
      BY <2>9, <3>1, <3>2 DEF Due
  <2>10. OnTheWay'
    <3>1. /\ \A b \in sendData : b \in Header /\ Due(b)
          /\ \A x \in mempool' : x.header \in Header /\ Due(x.header)
      BY <1>1 DEF SoundInv, OnTheWay, CoreTypeOK, SendTypeOK
    <3>2. sendLast # Uint64Max => sendLast < c + 1
      BY <2>3, Bounds DEF SoundInv, OnTheWay, CoreTypeOK, SendTypeOK, Uint64
    <3> QED
      BY <3>1, <3>2, <2>2, <2>5, <2>9 DEF OnTheWay
  <2>11. InContract'
    <3>1. \A i \in 1..(c + 1) : blockArray'[i] \in Created
      <4> SUFFICES ASSUME NEW i \in 1..(c + 1) PROVE blockArray'[i] \in Created
        OBVIOUS
      <4>1. CASE i = c + 1
        BY <4>1, <2>1, <2>4 DEF SoundInv, Stored
      <4>2. CASE i \in 1..c
        BY <4>2, <2>4 DEF SoundInv, InContract
      <4> QED
        BY <4>1, <4>2, <2>3
    <3>2. ASSUME NEW i \in 1..(c + 1), i = c + 1 \/ i > KeptFrom' PROVE blockArray'[i] \in blocks
      <4>1. CASE i = c + 1
        BY <4>1, <2>1, <2>4
      <4>2. CASE i # c + 1
        <5>1. i \in 1..c /\ i > KeptFrom
          BY <4>2, <3>2, <2>2, <2>3, <2>5 DEF KeptFrom
        <5> QED
          BY <5>1, <2>4 DEF SoundInv, InContract
      <4> QED
        BY <4>1, <4>2
    <3> QED
      BY <3>1, <3>2, <2>2, <2>5 DEF InContract
  <2>12. Heard'
    BY <2>5, <2>7 DEF SoundInv, Heard
  <2>13. RollUpNext
    BY <1>5, <2>1 DEF RollUpNext
  <2> QED
    BY <2>6, <2>7, <2>8, <2>10, <2>11, <2>12, <2>13 DEF SoundInv
<1> QED
  BY <1>1, <1>4, <1>5

LEMMA SoundChain ==
    ASSUME SoundInv, Chain
    PROVE  /\ SoundInv' /\ (RollUpNext \/ UNCHANGED contractVars) /\ UNCHANGED nodeVars
           /\ \A height, hash : Told(height, hash) => Told(height, hash)'
<1>1. CASE Mine
  BY <1>1, SoundMine DEF Mine
<1>2. CASE Drop
  <2>1. /\ \A m \in mempool' : m \in mempool
        /\ UNCHANGED <<mined, sendVars, nodeVars, storageVars, contractVars>>
    BY <1>2 DEF Drop
  <2>2. CoreTypeOK'
    BY <2>1 DEF SoundInv, CoreTypeOK, RollUpTypeOK, NodeTypeOK, SendTypeOK,
                contractVars, storageVars, sendVars, nodeVars
  <2>3. /\ Stored' /\ ChainLinked' /\ SizeAgrees' /\ Created' = Created
        /\ \A height, hash : Told(height, hash) => Told(height, hash)'
        /\ \A b : Due(b) => Due(b)'
    BY <2>1, SoundStoredFrame DEF storageVars, contractVars
  <2>4. InContract'
    BY <2>1, <2>3 DEF SoundInv, InContract, KeptFrom, storageVars, sendVars, contractVars
  <2>5. OnTheWay' /\ Heard'
    BY <2>1, <2>3 DEF SoundInv, OnTheWay, Heard, sendVars, contractVars, nodeVars
  <2> QED
    BY <2>1, <2>2, <2>3, <2>4, <2>5 DEF SoundInv
<1> QED
  BY <1>1, <1>2 DEF Chain

-----------------------------------------------------------------------------
(* What follows from it.  The row of the block before the next one is that *)
(* of the contract's last block: no other has its height.                  *)
LEMMA DueIsNext ==
    ASSUME SoundInv, NEW b \in Header, Due(b)
    PROVE  AddAccepted(b) \/ \E j \in 1..Len(blockArray) : blockArray[j] = b
<1> DEFINE c == Len(blockArray)
<1>1. c \in Nat /\ c <= Uint64Max /\ b.height \in Nat
  BY SoundLengths, Bounds DEF Header, Uint64
<1>2. CASE b.height < c /\ b = blockArray[b.height + 1]
  <2>1. b.height + 1 \in 1..c
    BY <1>1, <1>2
  <2> QED
    BY <2>1, <1>2
<1>3. CASE b \in blocks /\ b.height = c
  <2>1. HeightAccepted(c)
    BY <1>1, Bounds DEF SoundInv, InContract, SizeAgrees, HeightAccepted
  <2>2. ASSUME c # 0 PROVE b.prevBlock = blockArray[c].curBlock
    <3>1. PICK row \in blocks : row.height = c - 1 /\ row.curBlock = b.prevBlock
      BY <1>1, <1>3, <2>2 DEF SoundInv, Stored, Told, OnChain
    <3>2. blockArray[c] \in blocks /\ blockArray[c].height = c - 1
      BY <1>1, <2>2 DEF SoundInv, InContract, ChainLinked
    <3>3. row = blockArray[c]
      BY <3>1, <3>2 DEF SoundInv, Stored
    <3> QED
      BY <3>1, <3>3
  <2> QED
    BY <2>1, <2>2, <1>3 DEF AddAccepted, PrevAccepted
<1> QED
  BY <1>2, <1>3 DEF Due

LEMMA SoundSendsNext == SoundInv => SendsNext
  BY DueIsNext DEF SoundInv, OnTheWay, SendsNext, CoreTypeOK, SendTypeOK

-----------------------------------------------------------------------------
(* The nonces.  No two transactions of the chain's pool have the same, and *)
(* every nonce from the chain's count up to the signer's has one, unless   *)
(* the signer has just counted a call that failed.                         *)
Gapless ==
    /\ NoNonceGap
    /\ \A m, x \in mempool : m.nonce = x.nonce => m = x
    /\ sendPc # "resync" => \A n \in nonce : mined..(n - 1) \subseteq Nonces

LEMMA GaplessInit == ASSUME SendInit, ChainInit PROVE Gapless
  BY DEF SendInit, ChainInit, Gapless, NoNonceGap

LEMMA GaplessFrame ==
    ASSUME Gapless, UNCHANGED chainVars, SendRestart \/ UNCHANGED <<sendPc, nonce>>
    PROVE  Gapless'
  BY DEF Gapless, NoNonceGap, Executable, Nonces, SendRestart, chainVars

(* Sending at a nonce that leaves no gap leaves none, and the next one     *)
(* neither.                                                                *)
LEMMA SubmitGapless ==
    ASSUME SendTypeOK, Gapless, NEW n \in Nat, mined..(n - 1) \subseteq Nonces,
           NEW row, Submit(n, row), mined' = mined
    PROVE  /\ NoNonceGap'
           /\ \A m, x \in mempool' : m.nonce = x.nonce => m = x
           /\ \A k \in Counted(n) : mined..(k - 1) \subseteq Nonces'
<1>1. mined \in Nat /\ Executable(n)
  BY DEF SendTypeOK, Submit, Executable
<1>2. mempool' = {m \in mempool : m.nonce # n} \cup {[nonce |-> n, header |-> row]}
  BY <1>1 DEF Submit
<1>3. Nonces' = Nonces \cup {n}
  <2>1. ASSUME NEW k \in Nonces, k # n PROVE k \in Nonces'
    BY <1>2, <2>1 DEF Nonces
  <2>2. n \in Nonces'
    <3> DEFINE sent == [nonce |-> n, header |-> row]
    <3>1. sent \in mempool' /\ sent.nonce = n
      BY <1>2
    <3> QED
      BY <3>1 DEF Nonces
  <2>3. ASSUME NEW k \in Nonces' PROVE k \in Nonces \cup {n}
    BY <1>2 DEF Nonces
  <2> QED
    BY <2>1, <2>2, <2>3
<1>4. \A k \in Counted(n) : mined..(k - 1) \subseteq Nonces'
  <2> SUFFICES ASSUME NEW k \in Counted(n), NEW i \in mined..(k - 1), i # n
               PROVE  i \in Nonces
    BY <1>3
  <2>1. k = n + 1 \/ k = n
    BY DEF Counted
  <2>2. i \in mined..(n - 1)
    BY <1>1, <2>1
  <2> QED
    BY <2>2
<1>5. NoNonceGap'
  BY <1>1, <1>2, <1>3 DEF Gapless, NoNonceGap, Executable
<1>6. \A m, x \in mempool' : m.nonce = x.nonce => m = x
  BY <1>2 DEF Gapless
<1> QED
  BY <1>4, <1>5, <1>6

LEMMA GaplessSend ==
    ASSUME "resync" \notin Faults, SendTypeOK, Gapless, Send
    PROVE  Gapless'
<1>1. mined' = mined /\ mined \in Nat /\ nonce \subseteq Nat /\ PendingCount \subseteq Nat
  BY Bounds DEF SendTypeOK, PendingCount, Send, SendRead, SendNoBlock, SendSelect, SendAdd,
                SendAddFail, SendResync, SendResyncFail, SendPrune, SendPruneFail, chainVars
<1>2. ASSUME NEW n \in NextNonce, sendPc # "resync"
      PROVE  n \in Nat /\ mined..(n - 1) \subseteq Nonces
  BY <1>1, <1>2 DEF NextNonce, PendingCount, Executable, Gapless
<1>3. CASE SendAdd
  <2>1. PICK row \in sendData, n \in NextNonce : Submit(n, row) /\ nonce' = Counted(n)
    BY <1>3 DEF SendAdd
  <2>2. sendPc = "add"
    BY <1>3 DEF SendAdd
  <2> QED
    BY <1>1, <1>2, <2>1, <2>2, SubmitGapless DEF Gapless
<1>4. CASE SendAddFail
  <2>1. PICK row \in sendData, n \in NextNonce : mempool' = mempool \/ Submit(n, row)
    BY <1>4 DEF SendAddFail, Refuse
  <2>2. sendPc = "add" /\ sendPc' = "resync"
    BY <1>4 DEF SendAddFail
  <2>3. CASE mempool' = mempool
    BY <1>1, <2>2, <2>3 DEF Gapless, NoNonceGap, Executable, Nonces
  <2>4. CASE Submit(n, row)
    BY <1>1, <1>2, <2>2, <2>4, SubmitGapless DEF Gapless
  <2> QED
    BY <2>1, <2>3, <2>4
<1>5. CASE SendResync
  <2>1. nonce' = {mined} /\ mempool' = mempool
    BY <1>5 DEF SendResync, chainVars
  <2> QED
    BY <1>1, <2>1 DEF Gapless, NoNonceGap, Executable, Nonces
<1>6. CASE ~SendAdd /\ ~SendAddFail /\ ~SendResync
  <2>1. UNCHANGED <<nonce, mempool>> /\ (sendPc' # "resync" => sendPc # "resync")
    BY <1>6 DEF Send, SendRead, SendNoBlock, SendSelect, SendResyncFail, SendPrune,
                SendPruneFail, Fault, chainVars
  <2> QED
    BY <1>1, <2>1 DEF Gapless, NoNonceGap, Executable, Nonces
<1> QED
  BY <1>3, <1>4, <1>5, <1>6

LEMMA GaplessChain ==
    ASSUME "drop" \notin Faults, SendTypeOK, Gapless, Chain
    PROVE  Gapless'
<1>1. PICK m \in mempool : m.nonce = mined /\ mempool' = mempool \ {m}
  BY DEF Chain, Mine, Drop, Fault
<1>2. mined' = mined + 1 /\ mined \in Nat /\ UNCHANGED <<sendPc, nonce>>
  BY DEF Chain, Mine, Drop, Fault, SendTypeOK, sendVars
<1>3. \A k \in Nonces : k # mined => k \in Nonces'
  BY <1>1 DEF Nonces
<1>4. ASSUME NEW n \in Int, mined..(n - 1) \subseteq Nonces
      PROVE  mined'..(n - 1) \subseteq Nonces'
  BY <1>2, <1>3, <1>4
<1>5. NoNonceGap'
  <2> SUFFICES ASSUME NEW x \in mempool' PROVE Executable(x.nonce)'
    BY DEF NoNonceGap
  <2>1. x \in mempool /\ x.nonce # mined /\ x.nonce \in Nat /\ Executable(x.nonce)
    BY <1>1 DEF Gapless, NoNonceGap, SendTypeOK
  <2> QED
    BY <1>2, <1>4, <2>1 DEF Executable
<1>6. sendPc' # "resync" => \A n \in nonce' : mined'..(n - 1) \subseteq Nonces'
  BY <1>2, <1>4 DEF Gapless, SendTypeOK
<1> QED
  BY <1>1, <1>5, <1>6 DEF Gapless
=============================================================================
