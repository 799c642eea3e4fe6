----------------------- MODULE ServerPipeline_proofs -----------------------
(***************************************************************************)
(* Proofs about the whole server.  What is proved of the HTTP interface by *)
(* itself holds with Node taking transactions from its table, over any     *)
(* number of faults of every kind; for one request at a time the server    *)
(* implements the abstract ledger; and the contract is driven as its own   *)
(* specification allows, for any start.                                    *)
(***************************************************************************)
EXTENDS ServerPipeline, RollupRouter_proofs, SendBlock_proofs, FiniteSetTheorems

(* A row of the ledger has it. *)
Placed(t) == \E i \in 1..Len(ledger) : t \in ledger[i].CID

(* The history of the rows is a sequence. *)
IsLedger == \E S : ledger \in Seq(S)

(* What a work() in progress holds: its transactions have recorded         *)
(* numbers, and what it removes from the pool is in a block.               *)
NodeHolds ==
    /\ nodePc \in {"get", "ipfs"} =>
         nodeTxs \subseteq Tx /\ \A t \in nodeTxs : t.sequence \in Recorded
    /\ nodePc = "ipfs" => \A b \in nodeBlock : b.CID = nodeTxs
    /\ nodePc = "remove" =>
         \A t \in nodeTxs : Placed(t)

ServerInv == RouterInv /\ IsLedger /\ NodeHolds

-----------------------------------------------------------------------------
(* A transaction is taken when the pool or a row of the ledger has it. *)
LEMMA PlacedIsTaken ==
    /\ \A t : t \in Taken <=> t \in txs \/ Placed(t)
    /\ \A t : t \in Taken' <=> t \in txs' \/ Placed(t)'
  BY DEF Taken, Placed

(* A row is added at the end of the ledger. *)
LEMMA LedgerGrows ==
    ASSUME IsLedger, NEW row, ledger' = Append(ledger, row)
    PROVE  /\ IsLedger'
           /\ Len(ledger) \in Nat /\ Len(ledger') = Len(ledger) + 1
           /\ ledger'[Len(ledger) + 1] = row
           /\ \A i \in 1..Len(ledger) : ledger'[i] = ledger[i]
           /\ \A t : Placed(t)' <=> Placed(t) \/ t \in row.CID
  <1>1. PICK S : ledger \in Seq(S)
    BY DEF IsLedger
  <1>2. ledger \in Seq(S \cup {row})
    BY <1>1
  <1>3. ledger' \in Seq(S \cup {row})
    BY <1>2
  <1>4. /\ Len(ledger) \in Nat /\ Len(ledger') = Len(ledger) + 1
        /\ ledger'[Len(ledger) + 1] = row
        /\ \A i \in 1..Len(ledger) : ledger'[i] = ledger[i]
    BY <1>2
  <1>5. \A t : Placed(t)' <=> Placed(t) \/ t \in row.CID
    <2>1. 1..Len(ledger') = 1..Len(ledger) \cup {Len(ledger) + 1}
      BY <1>4
    <2> QED
      BY <1>4, <2>1 DEF Placed
  <1> QED
    BY <1>3, <1>4, <1>5 DEF IsLedger

(* Steps of the other components that leave the tables alone. *)
LEMMA QuietInv ==
    ASSUME ServerInv, UNCHANGED <<routerVars, txs, ledger>>, faults' \in 0..MaxFaults, NodeHolds'
    PROVE  ServerInv' /\ Taken' = Taken
  <1>1. Taken' = Taken /\ Recorded' = Recorded
    BY SameTaken
  <1>2. RouterInv'
    BY <1>1, OthersInv DEF ServerInv, RouterInv, TypeOK
  <1> QED
    BY <1>1, <1>2 DEF ServerInv, IsLedger

-----------------------------------------------------------------------------
(* The start, and the steps of the requests. *)
LEMMA ServerInvInit == ServerInit => ServerInv
  <1> SUFFICES ASSUME ServerInit PROVE ServerInv
    OBVIOUS
  <1>1. RouterInv
    BY RouterInvInit DEF ServerInit
  <1>2. IsLedger /\ NodeHolds
    <2>1. ledger \in Seq({}) /\ nodePc = "idle"
      BY DEF ServerInit, Init, StorageInit, NodeInit
    <2> QED
      BY <2>1 DEF IsLedger, NodeHolds
  <1> QED
    BY <1>1, <1>2 DEF ServerInv

(* A request takes its step as it does in the router by itself. *)
LEMMA RequestSteps ==
    ASSUME Arrive \/ Serve
    PROVE  /\ Next
           /\ UNCHANGED <<pipeVars, stopVars, ledger>>
  <1>1. CASE Arrive
    BY <1>1 DEF Arrive, Next, Post, Continue
  <1>2. CASE Serve
    BY <1>2 DEF Serve, Next, LoadRead, LoadReturn, PoolAdd, SetSequence, Answer, Continue
  <1> QED
    BY <1>1, <1>2

(* Requests only add numbers. *)
LEMMA RequestInv ==
    ASSUME ServerInv, Arrive \/ Serve
    PROVE  ServerInv' /\ Recorded \subseteq Recorded'
  <1>1. RouterInv'
    BY RequestSteps, RouterStep DEF ServerInv
  <1>2. Recorded \subseteq Recorded'
    BY RequestSteps, RequestRecords DEF ServerInv
  <1>3. IsLedger' /\ NodeHolds'
    BY <1>2, RequestSteps DEF ServerInv, IsLedger, NodeHolds, Placed, pipeVars, nodeVars
  <1> QED
    BY <1>1, <1>2, <1>3 DEF ServerInv

-----------------------------------------------------------------------------
(* Node reads the pool: what it takes stays in the table. *)
LEMMA WorkGetInv ==
    ASSUME ServerInv, WorkGet, UNCHANGED routerVars
    PROVE  ServerInv' /\ Taken' = Taken
  <1>1. /\ UNCHANGED <<routerVars, txs, ledger, faults>>
        /\ nodePc' = "get" /\ nodeTxs' \subseteq txs
    BY DEF WorkGet, SelectTxByLength, storageVars
  <1>2. NodeHolds'
    <2>1. \A t \in txs : t \in Tx /\ t.sequence \in Recorded
      BY PlacedIsTaken DEF ServerInv, RouterInv, Recorded
    <2>2. Recorded' = Recorded
      BY <1>1, SameTaken
    <2> QED
      BY <1>1, <2>1, <2>2 DEF NodeHolds
  <1> QED
    BY <1>1, <1>2, QuietInv DEF ServerInv, RouterInv, TypeOK

(* The block is made of the transactions that were read. *)
LEMMA WorkCreateInv ==
    ASSUME ServerInv, WorkCreate, UNCHANGED routerVars
    PROVE  ServerInv' /\ Taken' = Taken
  <1>1. /\ UNCHANGED <<routerVars, txs, ledger, faults, nodeTxs>>
        /\ nodePc = "get" /\ nodePc' = "ipfs" /\ \A b \in nodeBlock' : b.CID = nodeTxs'
    BY DEF WorkCreate, CreateBlock, storageVars
  <1>2. NodeHolds'
    BY <1>1, SameTaken DEF ServerInv, NodeHolds
  <1> QED
    BY <1>1, <1>2, QuietInv DEF ServerInv, RouterInv, TypeOK

(* The row is inserted, and what the block holds is in the ledger. *)
LEMMA WorkInsertInv ==
    ASSUME ServerInv, WorkInsert, UNCHANGED routerVars
    PROVE  /\ ServerInv'
           /\ Taken' = Taken \cup nodeTxs
           /\ \E row : row.CID = nodeTxs /\ ledger' = Append(ledger, row)
  <1>1. PICK row : row.CID = nodeTxs /\ ledger' = Append(ledger, row)
    <2>1. PICK b \in nodeBlock : InsertBlock(b, b.CID)
      BY DEF WorkInsert
    <2>2. b.CID = nodeTxs
      BY <2>1 DEF ServerInv, NodeHolds, WorkInsert
    <2>3. ledger' = Append(ledger, [height |-> b.height, curBlock |-> NextHash,
                                    prevBlock |-> b.prevBlock, CID |-> b.CID])
      BY <2>1 DEF InsertBlock
    <2> QED
      BY <2>2, <2>3
  <1>2. /\ UNCHANGED <<routerVars, txs, faults, nodeTxs>>
        /\ nodePc = "ipfs" /\ nodePc' = "remove"
    BY DEF WorkInsert
  <1>3. IsLedger' /\ \A t : Placed(t)' <=> Placed(t) \/ t \in nodeTxs
    BY <1>1, LedgerGrows DEF ServerInv
  <1>4. Taken' = Taken \cup nodeTxs
    BY <1>2, <1>3, PlacedIsTaken
  <1>5. nodeTxs \subseteq Tx /\ \A t \in nodeTxs : t.sequence \in Recorded
    BY <1>2 DEF ServerInv, NodeHolds
  <1>6. Recorded' = Recorded
    BY <1>4, <1>5 DEF Recorded
  <1>7. RouterInv'
    BY <1>2, <1>4, <1>5, <1>6, OthersInv DEF ServerInv, RouterInv, TypeOK
  <1>8. NodeHolds'
    BY <1>2, <1>3 DEF NodeHolds
  <1> QED
    BY <1>1, <1>3, <1>4, <1>7, <1>8 DEF ServerInv

(* A transaction of the block is deleted from the pool. *)
LEMMA WorkRemoveInv ==
    ASSUME ServerInv, WorkRemove, UNCHANGED routerVars
    PROVE  ServerInv' /\ Taken' = Taken /\ ledger' = ledger
  <1>1. PICK t \in nodeTxs : txs' = txs \ {t} /\ nodeTxs' = nodeTxs \ {t}
    BY DEF WorkRemove, DeleteTxByHash
  <1>2. /\ UNCHANGED <<routerVars, ledger, faults>>
        /\ nodePc = "remove" /\ nodePc' \in {"idle", "remove"}
    BY DEF WorkRemove
  <1>3. \A u : Placed(u)' <=> Placed(u)
    BY <1>2 DEF Placed
  <1>4. Placed(t)
    BY <1>1, <1>2 DEF ServerInv, NodeHolds
  <1>5. Taken' = Taken
    BY <1>1, <1>3, <1>4, PlacedIsTaken
  <1>6. Recorded' = Recorded
    BY <1>5 DEF Recorded
  <1>7. RouterInv'
    BY <1>1, <1>2, <1>5, <1>6, OthersInv DEF ServerInv, RouterInv, TypeOK
  <1>8. NodeHolds'
    BY <1>1, <1>2, <1>3 DEF ServerInv, NodeHolds
  <1> QED
    BY <1>2, <1>5, <1>7, <1>8 DEF ServerInv, IsLedger

(* Node starts, or gives up what it is at. *)
LEMMA NodeQuietInv ==
    ASSUME ServerInv, OnStart \/ WorkCreateThrows \/ WorkFail \/ WorkRemoveFail, UNCHANGED routerVars
    PROVE  ServerInv' /\ Taken' = Taken
  <1>1. /\ UNCHANGED <<routerVars, txs, ledger>>
        /\ faults' \in 0..MaxFaults
        /\ nodePc' = "idle" \/ UNCHANGED <<nodePc, nodeTxs, nodeBlock>>
    BY FaultType DEF OnStart, OnStartStorage, OnStartContract, WorkCreateThrows, WorkFail, WorkRemoveFail, storageVars,
                     ServerInv, RouterInv, TypeOK
  <1>2. NodeHolds'
    BY <1>1, SameTaken DEF ServerInv, NodeHolds, Placed
  <1> QED
    BY <1>1, <1>2, QuietInv

LEMMA NodeStepInv ==
    ASSUME ServerInv, NodeStep
    PROVE  ServerInv' /\ Taken \subseteq Taken'
  <1>1. UNCHANGED routerVars /\ NodeNext
    BY DEF NodeStep
  <1>2. CASE WorkInsert
    BY <1>1, <1>2, WorkInsertInv
  <1> QED
    BY <1>1, <1>2, NodeQuietInv, WorkGetInv, WorkCreateInv, WorkRemoveInv DEF NodeNext, Work

-----------------------------------------------------------------------------
(* The other components do not touch what the requests rely on. *)
LEMMA OtherStepInv ==
    ASSUME ServerInv, SendStep \/ ChainStep \/ Stop \/ StopOnStart \/ StopClose
    PROVE  /\ ServerInv' /\ Taken' = Taken
           /\ UNCHANGED <<routerVars, txs, ledger, nodePc, nodeTxs, nodeBlock, offered, settled>>
  <1>1. faults' \in 0..MaxFaults
    <2>1. faults \in 0..MaxFaults
      BY DEF ServerInv, RouterInv, TypeOK
    <2>2. faults' = faults \/ \E kind \in Faults : Fault(kind)
      <3>1. CASE SendStep
        BY <3>1 DEF SendStep, Send, SendRead, SendNoBlock, SendSelect, SendAdd, SendAddFail, SendResync,
                    SendResyncFail, SendPrune, SendPruneFail, Fault
      <3>2. CASE ChainStep
        BY <3>2 DEF ChainStep, Chain, Mine, Drop, Fault
      <3>3. CASE Stop \/ StopOnStart \/ StopClose
        BY <3>3 DEF Stop, StopOnStart, StopClose, vars, Fault
      <3> QED
        BY <3>1, <3>2, <3>3
    <2> QED
      BY <2>1, <2>2, FaultType DEF ServerInv, RouterInv
  <1>2. UNCHANGED <<routerVars, txs, ledger, nodePc, nodeTxs, nodeBlock, offered, settled>>
    <2>1. CASE SendStep
      BY <2>1 DEF SendStep, Send, SendRead, SendNoBlock, SendSelect, SendAdd, SendAddFail, SendResync,
                  SendResyncFail, SendPrune, SendPruneFail, storageVars, nodeVars
    <2>2. CASE ChainStep
      BY <2>2 DEF ChainStep, Chain, Mine, Drop, storageVars, nodeVars
    <2>3. CASE Stop \/ StopOnStart \/ StopClose
      BY <2>3 DEF Stop, StopOnStart, StopClose, vars, pipeVars, storageVars, nodeVars
    <2> QED
      BY <2>1, <2>2, <2>3
  <1>3. NodeHolds'
    BY <1>2, SameTaken DEF ServerInv, NodeHolds, Placed
  <1> QED
    BY <1>1, <1>2, <1>3, QuietInv

(* A new process has no request in service and no work() in progress. *)
LEMMA NewProcessInv ==
    ASSUME ServerInv, ServerCrash \/ StopOver
    PROVE  /\ ServerInv' /\ Taken' = Taken
           /\ nodePc' = "idle"
           /\ lastReceiveSequence' = -1 /\ request' = [h \in Handlers |-> Idle]
           /\ UNCHANGED <<setting, acked, storageVars, offered, settled>>
  <1>1. NewProcess /\ faults' \in 0..MaxFaults
    BY FaultType DEF ServerCrash, StopOver, ServerInv, RouterInv, TypeOK
  <1>2. /\ nodePc' = "idle"
        /\ lastReceiveSequence' = -1 /\ request' = [h \in Handlers |-> Idle]
        /\ UNCHANGED <<setting, acked, storageVars, offered, settled>>
    BY <1>1 DEF NewProcess, NodeRestart
  <1>3. RouterInv'
    BY <1>1, <1>2, RestartInv DEF ServerInv
  <1>4. NodeHolds'
    BY <1>2 DEF NodeHolds
  <1>5. Taken' = Taken
    BY <1>2, SameTaken DEF storageVars
  <1> QED
    BY <1>2, <1>3, <1>4, <1>5 DEF ServerInv, IsLedger, storageVars

LEMMA ServerInvStep == ServerInv /\ [ServerNext]_serverVars => ServerInv'
  <1> SUFFICES ASSUME ServerInv, [ServerNext]_serverVars PROVE ServerInv'
    OBVIOUS
  <1>1. CASE ServerNext
    BY <1>1, RequestInv, NodeStepInv, OtherStepInv, NewProcessInv DEF ServerNext
  <1>2. CASE UNCHANGED serverVars
    <2>1. UNCHANGED <<routerVars, txs, ledger, faults, nodePc, nodeTxs, nodeBlock>>
      BY <1>2 DEF serverVars, vars, storageVars, pipeVars, nodeVars
    <2>2. NodeHolds'
      BY <2>1, SameTaken DEF ServerInv, NodeHolds, Placed
    <2> QED
      BY <2>1, <2>2, QuietInv DEF ServerInv, RouterInv, TypeOK
  <1> QED
    BY <1>1, <1>2

(* The inductive invariant of the server holds for any number of requests  *)
(* at once, while blocks are made of what they add.                        *)
THEOREM ServerInvariant == ServerSpec => []ServerInv
  BY ServerInvInit, ServerInvStep, PTL DEF ServerSpec

(* NoGap for the whole server: what the blocks and the pool hold together  *)
(* has no gap, whatever requests, blocks, stops and crashes interleave.    *)
THEOREM ServerSkipsNothing == ServerSpec => []NoGap
  <1>1. ServerInv => NoGap
    BY DEF ServerInv, RouterInv
  <1> QED
    BY <1>1, ServerInvariant, PTL

(* NeverAhead likewise. *)
THEOREM ServerNeverAhead == ServerSpec => []NeverAhead
  <1>1. ServerInv => NeverAhead
    BY DEF ServerInv, RouterInv, NeverAhead, Last
  <1> QED
    BY <1>1, ServerInvariant, PTL

-----------------------------------------------------------------------------
(* One request at a time.  What is settled is the history of the row       *)
(* last_receive_sequence, and stays in the pool or in a block.             *)
Settling ==
    /\ offered \subseteq Tx /\ settled \in Seq(Tx)
    /\ setting = Len(settled) - 1
    /\ \A n \in 1..Len(settled) : settled[n].sequence = n - 1 /\ settled[n] \in Taken
    /\ Taken \subseteq offered
    /\ \A t \in offered : t.sequence <= Len(settled)
    /\ \A h \in Handlers : request[h].pc = "assign" =>
         Len(settled) > 0 /\ request[h].tx = settled[Len(settled)]
    /\ IsFiniteSet(txs)

(* All that was settled before a transaction of the list is in it, or in a *)
(* block.                                                                  *)
Preceded(list) ==
    \A t \in list : \A n \in 1..t.sequence :
        n <= Len(settled) /\ (settled[n] \in list \/ Placed(settled[n]))

(* So it is for the blocks, and for the one in the making. *)
Ordering ==
    /\ nodePc \in {"get", "ipfs"} => nodeTxs # {} /\ nodeTxs \subseteq offered /\ Preceded(nodeTxs)
    /\ \A i \in 1..Len(ledger) : \A t \in ledger[i].CID : \A n \in 1..t.sequence :
         n <= Len(settled) /\ \E k \in 1..i : settled[n] \in ledger[k].CID

RefInv == ServerInv /\ Alone /\ Settling /\ Ordering

(* The order is kept when the history only grows. *)
LEMMA OrderingKept ==
    ASSUME Ordering, ledger' = ledger, offered \subseteq offered',
           nodePc' \in {"get", "ipfs"} => nodePc \in {"get", "ipfs"} /\ nodeTxs' = nodeTxs,
           Len(settled) \in Nat, Len(settled') \in Nat, Len(settled) <= Len(settled'),
           \A n \in 1..Len(settled) : settled'[n] = settled[n]
    PROVE  Ordering'
  BY DEF Ordering, Preceded, Placed

(* What is settled stays so when others use the tables. *)
LEMMA SettlingOthers ==
    ASSUME Settling, UNCHANGED <<routerVars, offered, settled>>,
           Taken \subseteq Taken', Taken' \subseteq offered, IsFiniteSet(txs')
    PROVE  Settling'
  BY DEF Settling, routerVars

LEMMA RefInvInit == ServerInit => RefInv
  <1> SUFFICES ASSUME ServerInit PROVE RefInv
    OBVIOUS
  <1>1. /\ offered = {} /\ settled = <<>> /\ txs = {} /\ ledger = <<>> /\ acked = {}
        /\ setting = -1 /\ lastReceiveSequence = -1 /\ nodePc = "idle"
        /\ \A h \in Handlers : request[h].pc = "idle"
    BY DEF ServerInit, Init, StorageInit, NodeInit, Idle
  <1>2. Taken = {}
    BY <1>1 DEF Taken
  <1>3. Alone
    BY <1>1, <1>2 DEF Alone
  <1>4. Settling
    BY <1>1, <1>2, FS_EmptySet DEF Settling
  <1>5. Ordering
    BY <1>1 DEF Ordering
  <1> QED
    BY <1>3, <1>4, <1>5, ServerInvInit DEF RefInv

-----------------------------------------------------------------------------
(* The steps of the one request, and what they are of the abstract ledger. *)

(* The request moves to r, and what it settles keeps its place. *)
LEMMA SettlingKept ==
    ASSUME OneClient, ServerInv, NEW h \in Handlers, NEW r, Continue(h, r),
           offered' \subseteq Tx, settled' \in Seq(Tx), setting' = Len(settled') - 1,
           \A n \in 1..Len(settled') : settled'[n].sequence = n - 1 /\ settled'[n] \in Taken',
           Taken' \subseteq offered', \A t \in offered' : t.sequence <= Len(settled'),
           r.pc = "assign" => Len(settled') > 0 /\ r.tx = settled'[Len(settled')],
           IsFiniteSet(txs')
    PROVE  Settling'
  <1>1. \A g \in Handlers : request'[g] = r
    BY OneMoves, RequestTypes DEF OneClient, ServerInv, RouterInv
  <1> QED
    BY <1>1 DEF Settling

LEMMA StutterRef ==
    ASSUME UNCHANGED <<offered, settled, acked, ledger>>
    PROVE  UNCHANGED Abstract!ledgerVars
  BY DEF Abstract!ledgerVars

(* It comes, is compared, or fails: nothing is offered or settled.         *)
LEMMA QuietRequestRef ==
    ASSUME OneClient, RefInv, NEW h \in Handlers, NEW r, Continue(h, r), r.pc # "assign",
           UNCHANGED <<setting, txs, offered, settled>>
    PROVE  Settling'
  <1>1. Taken' = Taken
    BY SameTaken DEF Continue
  <1> QED
    BY <1>1, SettlingKept DEF RefInv, Settling

LEMMA PoolAddRef ==
    ASSUME OneClient, RefInv, NEW h \in Handlers, PoolAdd(h),
           offered' = offered \cup (txs' \ txs), settled' = settled
    PROVE  /\ Settling' /\ offered \subseteq offered'
           /\ UNCHANGED <<offered, settled, acked, ledger>> \/ Abstract!Offer
  <1> DEFINE t == request[h].tx
             r == Awaits("set", t)
  <1>1. /\ request[h].pc = "add"
        /\ UNCHANGED <<setting, acked, settled, ledger>>
        /\ t \in Tx
        /\ t.sequence = Len(settled)
    BY RequestTypes DEF PoolAdd, Continue, RefInv, ServerInv, RouterInv, Alone, Settling
  <1>2. CASE InsertTx(t) /\ Continue(h, r)
    <2> HIDE DEF t
    <2>1. /\ Taken' \subseteq Tx /\ t \in Taken'
          /\ \A u \in Taken : u.sequence # t.sequence => u \in Taken'
      BY <1>1, <1>2, InsertRecords DEF RefInv, ServerInv, RouterInv, Continue
    <2>2. txs' \subseteq txs \cup {t} /\ t \in txs'
      BY <1>2 DEF InsertTx
    <2>3. txs \subseteq Taken /\ Taken' \subseteq Taken \cup {t}
      <3>1. \A u : Placed(u)' <=> Placed(u)
        BY <1>1 DEF Placed
      <3> QED
        BY <2>2, <3>1, PlacedIsTaken
    <2>4. offered' = offered \cup {t}
      BY <2>2, <2>3 DEF RefInv, Settling
    <2>5. IsFiniteSet(txs')
      <3>1. IsFiniteSet(txs \cup {t})
        BY FS_AddElement DEF RefInv, Settling
      <3> QED
        BY <2>2, <3>1, FS_Subset
    <2>6. \A n \in 1..Len(settled) : settled[n] \in Taken'
      <3>1. \A n \in 1..Len(settled) : settled[n] \in Taken /\ settled[n].sequence = n - 1
        BY DEF RefInv, Settling
      <3>2. Len(settled) \in Nat
        BY DEF RefInv, Settling
      <3> QED
        BY <1>1, <2>1, <3>1, <3>2
    <2>7. r.pc = "set"
      BY DEF Awaits
    <2> HIDE DEF r
    <2>8. \A u \in offered' : u.sequence <= Len(settled)
      BY <1>1, <2>4 DEF RefInv, Settling, Tx
    <2>9. Settling'
      <3>1. Taken' \subseteq offered' /\ offered' \subseteq Tx
        BY <1>1, <2>3, <2>4 DEF RefInv, Settling
      <3> QED
        BY <1>1, <1>2, <2>5, <2>6, <2>7, <2>8, <3>1, SettlingKept DEF RefInv, Settling
    <2>10. Abstract!Offer
      BY <1>1, <2>4 DEF Abstract!Offer, Abstract!Tx, Tx
    <2> QED
      BY <2>4, <2>9, <2>10
  <1>3. CASE txs' = txs /\ Continue(h, Idle)
    <2>1. Idle.pc = "idle" /\ offered' = offered
      BY <1>3 DEF Idle
    <2> QED
      BY <1>1, <1>3, <2>1, QuietRequestRef
  <1> QED
    BY <1>2, <1>3 DEF PoolAdd

LEMMA SetSequenceRef ==
    ASSUME OneClient, RefInv, NEW h \in Handlers, SetSequence(h), offered' = offered,
           setting' = setting => settled' = settled,
           setting' # setting => settled' = Append(settled, request[h].tx)
    PROVE  /\ Settling'
           /\ Len(settled') \in Nat /\ Len(settled) <= Len(settled')
           /\ \A n \in 1..Len(settled) : settled'[n] = settled[n]
           /\ UNCHANGED <<offered, settled, acked, ledger>> \/ Abstract!Settle
  <1> DEFINE t == request[h].tx
             r == Awaits("assign", t)
  <1>1. /\ UNCHANGED <<acked, txs, ledger, offered>>
        /\ t.sequence = Len(settled) /\ t.sequence = setting + 1
        /\ t \in Taken /\ t \in Tx
        /\ settled \in Seq(Tx) /\ Len(settled) \in Nat
        /\ setting = Len(settled) - 1
    BY RequestTypes DEF SetSequence, Continue, RefInv, ServerInv, RouterInv, Alone, Settling
  <1>2. CASE setting' = t.sequence /\ Continue(h, r)
    <2>1. settled' = Append(settled, t)
      <3>1. setting' = setting + 1
        BY <1>1, <1>2
      <3> QED
        BY <3>1
    <2> HIDE DEF t
    <2>2. /\ settled' \in Seq(Tx) /\ Len(settled') = Len(settled) + 1
          /\ settled'[Len(settled')] = t
          /\ \A n \in 1..Len(settled) : settled'[n] = settled[n]
      <3>1. settled \in Seq(Tx) /\ t \in Tx
        BY <1>1
      <3> QED
        BY <2>1, <3>1
    <2>3. r.pc = "assign" /\ r.tx = t
      BY DEF Awaits
    <2> HIDE DEF r
    <2>4. Taken' = Taken
      BY <1>1, SameTaken
    <2>5. \A n \in 1..Len(settled') : settled'[n].sequence = n - 1 /\ settled'[n] \in Taken'
      BY <1>1, <2>2, <2>4 DEF RefInv, Settling
    <2>6. \A u \in offered' : u.sequence <= Len(settled')
      BY <1>1, <2>2 DEF RefInv, Settling, Tx
    <2>7. Settling'
      BY <1>1, <1>2, <2>2, <2>3, <2>4, <2>5, <2>6, SettlingKept DEF RefInv, Settling
    <2>8. Abstract!Settle
      <3>1. t \in offered
        BY <1>1 DEF RefInv, Settling
      <3> QED
        BY <1>1, <2>1, <3>1 DEF Abstract!Settle
    <2> QED
      BY <1>1, <2>2, <2>7, <2>8
  <1>3. CASE setting' = setting /\ Continue(h, Idle)
    <2>1. Idle.pc = "idle" /\ settled' = settled
      BY <1>3 DEF Idle
    <2> QED
      BY <1>1, <1>3, <2>1, QuietRequestRef
  <1> QED
    BY <1>2, <1>3 DEF SetSequence

LEMMA AnswerRef ==
    ASSUME OneClient, RefInv, NEW h \in Handlers, Answer(h), UNCHANGED <<offered, settled>>
    PROVE  Settling' /\ ledger' = ledger /\ Abstract!Acknowledge
  <1>1. /\ request[h].pc = "assign" /\ Continue(h, Idle) /\ Idle.pc = "idle"
        /\ acked' = acked \cup {request[h].tx}
        /\ UNCHANGED <<setting, txs, ledger>>
    BY DEF Answer, Continue, Idle
  <1>2. Len(settled) > 0 /\ request[h].tx = settled[Len(settled)]
    BY <1>1 DEF RefInv, Settling
  <1>3. Settling'
    BY <1>1, QuietRequestRef
  <1>4. Abstract!Acknowledge
    BY <1>1, <1>2 DEF Abstract!Acknowledge
  <1> QED
    BY <1>1, <1>3, <1>4

LEMMA RequestRef ==
    ASSUME OneClient, RefInv, Arrive \/ Serve
    PROVE  RefInv' /\ [Abstract!Next]_(Abstract!ledgerVars)
  <1>1. /\ Next /\ ServerInv' /\ Alone' /\ UNCHANGED <<ledger, nodePc, nodeTxs>>
    <2>1. Next /\ UNCHANGED <<ledger, nodePc, nodeTxs>>
      BY RequestSteps DEF pipeVars, nodeVars
    <2> QED
      BY <2>1, RequestInv, OneClientAtATime, AloneStep DEF RefInv, ServerInv
  <1>2. Len(settled) \in Nat
    BY DEF RefInv, Settling
  <1>3. SUFFICES /\ Settling' /\ offered \subseteq offered'
                 /\ Len(settled') \in Nat /\ Len(settled) <= Len(settled')
                 /\ \A n \in 1..Len(settled) : settled'[n] = settled[n]
                 /\ \/ UNCHANGED <<offered, settled, acked, ledger>>
                    \/ Abstract!Offer \/ Abstract!Settle \/ Abstract!Acknowledge
    <2>1. Ordering'
      BY <1>1, <1>2, <1>3, OrderingKept DEF RefInv
    <2> QED
      BY <1>1, <1>3, <2>1, StutterRef DEF RefInv, Abstract!Next
  <1>4. ASSUME NEW h \in Handlers, NEW r, Continue(h, r), r.pc # "assign",
               UNCHANGED <<setting, txs, acked, offered, settled>>
        PROVE  Settling' /\ UNCHANGED <<offered, settled, acked, ledger>>
    BY <1>4, QuietRequestRef DEF Continue
  <1>5. Idle.pc = "idle" /\ \A call, t : Awaits(call, t).pc = call
    BY DEF Idle, Awaits
  <1>6. CASE Arrive
    <2>1. PICK h \in Handlers, t \in Tx : Post(h, t)
      BY <1>6 DEF Arrive
    <2>2. PICK r : Continue(h, r) /\ r.pc # "assign"
      BY <1>5, <2>1 DEF Post, Checked
    <2>3. UNCHANGED <<setting, txs, acked, offered, settled>>
      BY <1>6, <2>1 DEF Arrive, Post
    <2> QED
      BY <1>2, <1>4, <2>2, <2>3
  <1>7. ASSUME NEW h \in Handlers, LoadRead(h) \/ LoadReturn(h), UNCHANGED <<offered, settled>>
        PROVE  Settling' /\ UNCHANGED <<offered, settled, acked, ledger>>
    <2>1. UNCHANGED <<setting, txs, acked, offered, settled>>
      BY <1>7 DEF LoadRead, LoadReturn
    <2>2. CASE LoadRead(h)
      <3>1. PICK r : Continue(h, r) /\ r.pc # "assign"
        BY <1>5, <2>2 DEF LoadRead
      <3> QED
        BY <1>4, <2>1, <3>1
    <2>3. CASE LoadReturn(h)
      <3>1. PICK r : Continue(h, r) /\ r.pc # "assign"
        BY <1>5, <2>3 DEF LoadReturn, Checked
      <3> QED
        BY <1>4, <2>1, <3>1
    <2> QED
      BY <1>7, <2>2, <2>3
  <1>8. CASE Serve
    <2>1. PICK h \in Handlers :
            \/ (LoadRead(h) \/ LoadReturn(h)) /\ UNCHANGED <<offered, settled>>
            \/ PoolAdd(h) /\ offered' = offered \cup (txs' \ txs) /\ settled' = settled
            \/ /\ SetSequence(h) /\ offered' = offered
               /\ setting' = setting => settled' = settled
               /\ setting' # setting => settled' = Append(settled, request[h].tx)
            \/ Answer(h) /\ UNCHANGED <<offered, settled>>
      BY <1>8 DEF Serve
    <2> QED
      BY <1>2, <1>7, <2>1, PoolAddRef, SetSequenceRef, AnswerRef
  <1> QED
    BY <1>6, <1>8

-----------------------------------------------------------------------------
(* Node makes a block. *)

LEMMA ContentsGrow ==
    ASSUME IsLedger, NEW row, ledger' = Append(ledger, row)
    PROVE  [i \in 1..Len(ledger') |-> ledger'[i].CID]
             = Append([i \in 1..Len(ledger) |-> ledger[i].CID], row.CID)
  <1> DEFINE C == [i \in 1..Len(ledger) |-> ledger[i].CID]
             S == {ledger[i].CID : i \in 1..Len(ledger)} \cup {row.CID}
  <1>1. /\ Len(ledger) \in Nat /\ Len(ledger') = Len(ledger) + 1
        /\ ledger'[Len(ledger) + 1] = row
        /\ \A i \in 1..Len(ledger) : ledger'[i] = ledger[i]
    BY LedgerGrows
  <1>2. C \in Seq(S) /\ Len(C) = Len(ledger)
    BY <1>1
  <1>3. /\ Append(C, row.CID) \in Seq(S) /\ Len(Append(C, row.CID)) = Len(ledger) + 1
        /\ Append(C, row.CID)[Len(ledger) + 1] = row.CID
        /\ \A i \in 1..Len(ledger) : Append(C, row.CID)[i] = C[i]
    BY <1>1, <1>2
  <1> QED
    BY <1>1, <1>2, <1>3

LEMMA NodeChanges ==
    ASSUME NodeStep
    PROVE  UNCHANGED <<routerVars, offered, settled>>
  BY DEF NodeStep

(* It reads what the pool has of the lowest numbers. *)
LEMMA WorkGetRef ==
    ASSUME RefInv, WorkGet, UNCHANGED <<offered, settled>>
    PROVE  Ordering'
  <1>1. /\ nodeTxs' = SelectTxByLength(MaxTxs) /\ nodeTxs' # {} /\ nodeTxs' \subseteq txs
        /\ UNCHANGED <<ledger, offered, settled>>
    BY DEF WorkGet, SelectTxByLength, storageVars
  <1>2. \A t \in txs : t \in Taken /\ t \in offered /\ t \in Tx
    BY PlacedIsTaken DEF RefInv, Settling
  <1>3. ASSUME NEW t \in nodeTxs', NEW n \in 1..t.sequence
        PROVE  n <= Len(settled) /\ (settled[n] \in nodeTxs' \/ Placed(settled[n]))
    <2>1. t \in txs /\ t.sequence \in Nat /\ t.sequence <= Len(settled) /\ Len(settled) \in Nat
      BY <1>1, <1>2 DEF RefInv, Settling, Tx
    <2>2. n \in 1..Len(settled)
      BY <2>1
    <2>3. settled[n] \in Taken /\ settled[n].sequence = n - 1
      BY <2>2 DEF RefInv, Settling
    <2>4. CASE settled[n] \in txs
      <3> DEFINE Before(s) == {u \in txs : u.sequence < s}
      <3>1. Cardinality(Before(t.sequence)) < MaxTxs
        BY <1>1 DEF SelectTxByLength
      <3>2. Before(n - 1) \subseteq Before(t.sequence)
        BY <1>2, <2>1 DEF Tx
      <3>3. IsFiniteSet(Before(t.sequence))
        BY FS_Subset DEF RefInv, Settling
      <3>4. /\ Cardinality(Before(n - 1)) <= Cardinality(Before(t.sequence))
            /\ Cardinality(Before(n - 1)) \in Nat /\ Cardinality(Before(t.sequence)) \in Nat
        <4> HIDE DEF Before
        <4>1. IsFiniteSet(Before(n - 1)) /\ Cardinality(Before(n - 1)) <= Cardinality(Before(t.sequence))
          BY <3>2, <3>3, FS_Subset
        <4> QED
          BY <3>3, <4>1, FS_CardinalityType
      <3>5. Cardinality(Before(settled[n].sequence)) < MaxTxs
        <4>1. Cardinality(Before(n - 1)) < MaxTxs
          <5> HIDE DEF Before
          <5> QED
            BY <3>1, <3>4, NodeAssumption
        <4> QED
          BY <2>3, <4>1
      <3> QED
        BY <1>1, <2>2, <2>4, <3>5 DEF SelectTxByLength
    <2>5. CASE Placed(settled[n])
      BY <2>2, <2>5
    <2> QED
      BY <2>3, <2>4, <2>5, PlacedIsTaken
  <1>4. Preceded(nodeTxs)'
    BY <1>1, <1>3 DEF Preceded, Placed
  <1>5. nodeTxs' \subseteq offered'
    BY <1>1, <1>2
  <1> QED
    BY <1>1, <1>4, <1>5 DEF RefInv, Ordering

(* The row that it inserts is the next block of the abstract ledger. *)
LEMMA WorkInsertRef ==
    ASSUME RefInv, WorkInsert, UNCHANGED <<routerVars, offered, settled>>
    PROVE  Ordering' /\ Abstract!Create
  <1>1. PICK row : row.CID = nodeTxs /\ ledger' = Append(ledger, row)
    BY WorkInsertInv DEF RefInv
  <1>2. /\ UNCHANGED <<offered, settled, acked>>
        /\ nodePc = "ipfs" /\ nodePc' = "remove"
    BY DEF WorkInsert, routerVars
  <1>3. /\ Len(ledger) \in Nat /\ Len(ledger') = Len(ledger) + 1
        /\ ledger'[Len(ledger) + 1] = row
        /\ \A i \in 1..Len(ledger) : ledger'[i] = ledger[i]
    BY <1>1, LedgerGrows DEF RefInv, ServerInv
  <1>4. nodeTxs # {} /\ nodeTxs \subseteq offered /\ Preceded(nodeTxs)
    BY <1>2 DEF RefInv, Ordering
  <1>5. ASSUME NEW i \in 1..Len(ledger'), NEW t \in ledger'[i].CID, NEW n \in 1..t.sequence
        PROVE  n <= Len(settled) /\ \E k \in 1..i : settled[n] \in ledger'[k].CID
    <2>1. CASE i \in 1..Len(ledger)
      <3>1. n <= Len(settled) /\ \E k \in 1..i : settled[n] \in ledger[k].CID
        BY <1>3, <2>1 DEF RefInv, Ordering
      <3> QED
        BY <1>3, <2>1, <3>1
    <2>2. CASE i = Len(ledger) + 1
      <3>1. t \in nodeTxs
        BY <1>1, <1>3, <2>2
      <3>2. n <= Len(settled) /\ (settled[n] \in nodeTxs \/ Placed(settled[n]))
        BY <1>4, <3>1 DEF Preceded
      <3>3. CASE settled[n] \in nodeTxs
        BY <1>1, <1>3, <2>2, <3>2, <3>3
      <3>4. CASE Placed(settled[n])
        BY <1>3, <2>2, <3>2, <3>4 DEF Placed
      <3> QED
        BY <3>2, <3>3, <3>4
    <2> QED
      BY <1>3, <2>1, <2>2
  <1>6. Ordering'
    BY <1>2, <1>5 DEF Ordering
  <1>7. Abstract!Create
    <2> DEFINE C == [i \in 1..Len(ledger) |-> ledger[i].CID]
               D == [i \in 1..Len(ledger') |-> ledger'[i].CID]
    <2>1. D = Append(C, nodeTxs)
      BY <1>1, ContentsGrow DEF RefInv, ServerInv
    <2>2. Len(D) = Len(ledger') /\ \A i \in 1..Len(ledger') : D[i] = ledger'[i].CID
      BY <1>3
    <2>3. Abstract!InOrder(D)
      BY <1>5, <2>2 DEF Abstract!InOrder
    <2>4. nodeTxs \in SUBSET offered
      BY <1>4
    <2> QED
      BY <1>2, <1>4, <2>1, <2>3, <2>4 DEF Abstract!Create, Abstract!InOrder
  <1> QED
    BY <1>6, <1>7

LEMMA NodeRef ==
    ASSUME RefInv, NodeStep
    PROVE  RefInv' /\ [Abstract!Next]_(Abstract!ledgerVars)
  <1>1. UNCHANGED <<routerVars, offered, settled>> /\ NodeNext
    BY DEF NodeStep
  <1>2. ServerInv' /\ Taken \subseteq Taken'
    BY NodeStepInv DEF RefInv
  <1>3. Alone'
    BY <1>1, <1>2, AloneOthers DEF RefInv
  <1>4. ASSUME ledger' = ledger
        PROVE  UNCHANGED Abstract!ledgerVars
    BY <1>1, <1>4, StutterRef DEF routerVars
  <1>5. Len(settled) \in Nat /\ Taken \subseteq offered /\ IsFiniteSet(txs)
    BY DEF RefInv, Settling
  <1>6. ASSUME Taken' \subseteq offered, IsFiniteSet(txs')
        PROVE  Settling'
    BY <1>1, <1>2, <1>6, SettlingOthers DEF RefInv
  <1>7. ASSUME ledger' = ledger,
               nodePc' \in {"get", "ipfs"} => nodePc \in {"get", "ipfs"} /\ nodeTxs' = nodeTxs
        PROVE  Ordering'
    BY <1>1, <1>5, <1>7, OrderingKept DEF RefInv
  <1>8. CASE WorkInsert
    <2>1. Taken' = Taken \cup nodeTxs /\ txs' = txs
      BY <1>1, <1>8, WorkInsertInv DEF RefInv, WorkInsert
    <2>2. nodeTxs \subseteq offered
      BY <1>8 DEF RefInv, Ordering, WorkInsert
    <2> QED
      BY <1>1, <1>2, <1>3, <1>5, <1>6, <1>8, <2>1, <2>2, WorkInsertRef DEF RefInv, Abstract!Next
  <1>9. CASE WorkGet
    <2>1. Taken' = Taken /\ UNCHANGED <<txs, ledger>>
      BY <1>1, <1>9, WorkGetInv DEF RefInv, WorkGet, storageVars
    <2> QED
      BY <1>1, <1>2, <1>3, <1>4, <1>5, <1>6, <1>9, <2>1, WorkGetRef DEF RefInv
  <1>10. CASE WorkRemove
    <2>1. Taken' = Taken /\ ledger' = ledger
      BY <1>1, <1>10, WorkRemoveInv DEF RefInv
    <2>2. IsFiniteSet(txs')
      <3>1. txs' \subseteq txs
        BY <1>10 DEF WorkRemove, DeleteTxByHash
      <3> QED
        BY <1>5, <3>1, FS_Subset
    <2>3. nodePc' \in {"idle", "remove"}
      BY <1>10 DEF WorkRemove
    <2> QED
      BY <1>2, <1>3, <1>4, <1>5, <1>6, <1>7, <2>1, <2>2, <2>3 DEF RefInv
  <1>11. CASE OnStart \/ WorkCreate \/ WorkCreateThrows \/ WorkFail \/ WorkRemoveFail
    <2>1. /\ UNCHANGED <<txs, ledger>>
          /\ nodePc' \in {"get", "ipfs"} => nodePc \in {"get", "ipfs"} /\ nodeTxs' = nodeTxs
      BY <1>11 DEF OnStart, OnStartStorage, OnStartContract, WorkCreate, WorkCreateThrows, WorkFail, WorkRemoveFail, storageVars
    <2>2. Taken' = Taken
      BY <2>1, SameTaken
    <2> QED
      BY <1>2, <1>3, <1>4, <1>5, <1>6, <1>7, <2>1, <2>2 DEF RefInv
  <1> QED
    BY <1>1, <1>8, <1>9, <1>10, <1>11 DEF NodeNext, Work

(* The other components, and a new process, are invisible. *)
LEMMA OthersRef ==
    ASSUME RefInv, \/ SendStep \/ ChainStep \/ Stop \/ StopOnStart \/ StopClose
                   \/ ServerCrash \/ StopOver
    PROVE  RefInv' /\ UNCHANGED Abstract!ledgerVars
  <1>1. Len(settled) \in Nat /\ Taken \subseteq offered /\ IsFiniteSet(txs)
    BY DEF RefInv, Settling
  <1>2. CASE SendStep \/ ChainStep \/ Stop \/ StopOnStart \/ StopClose
    <2>1. /\ ServerInv' /\ Taken' = Taken
          /\ UNCHANGED <<routerVars, txs, ledger, nodePc, nodeTxs, nodeBlock, offered, settled>>
      BY <1>2, OtherStepInv DEF RefInv
    <2>2. Alone'
      BY <2>1, AloneOthers DEF RefInv
    <2>3. Settling'
      BY <1>1, <2>1, SettlingOthers DEF RefInv
    <2>4. Ordering'
      BY <1>1, <2>1, OrderingKept DEF RefInv
    <2> QED
      BY <2>1, <2>2, <2>3, <2>4, StutterRef DEF RefInv, routerVars
  <1>3. CASE ServerCrash \/ StopOver
    <2>1. /\ ServerInv' /\ Taken' = Taken
          /\ nodePc' = "idle"
          /\ lastReceiveSequence' = -1 /\ request' = [h \in Handlers |-> Idle]
          /\ UNCHANGED <<setting, acked, storageVars, offered, settled>>
      BY <1>3, NewProcessInv DEF RefInv
    <2>2. Alone'
      BY <2>1, AloneRestart DEF RefInv
    <2>3. Settling'
      BY <1>1, <2>1 DEF RefInv, Settling, Idle, storageVars
    <2>4. Ordering'
      BY <1>1, <2>1, OrderingKept DEF RefInv, storageVars
    <2> QED
      BY <2>1, <2>2, <2>3, <2>4, StutterRef DEF RefInv, storageVars
  <1> QED
    BY <1>2, <1>3

LEMMA RefStep ==
    ASSUME OneClient, RefInv, [ServerNext]_serverVars
    PROVE  RefInv' /\ [Abstract!Next]_(Abstract!ledgerVars)
  <1>1. CASE ServerNext
    BY <1>1, RequestRef, NodeRef, OthersRef DEF ServerNext
  <1>2. CASE UNCHANGED serverVars
    <2>1. UNCHANGED <<routerVars, txs, ledger, nodePc, nodeTxs, nodeBlock, offered, settled>>
      BY <1>2 DEF serverVars, vars, storageVars, pipeVars, nodeVars
    <2>2. ServerInv' /\ Taken' = Taken
      BY <1>2, <2>1, ServerInvStep, SameTaken DEF RefInv
    <2>3. Alone'
      BY <2>1, <2>2, AloneOthers DEF RefInv
    <2>4. Settling' /\ Ordering'
      <3>1. Len(settled) \in Nat /\ Taken \subseteq offered /\ IsFiniteSet(txs)
        BY DEF RefInv, Settling
      <3> QED
        BY <2>1, <2>2, <3>1, SettlingOthers, OrderingKept DEF RefInv
    <2> QED
      BY <2>1, <2>2, <2>3, <2>4, StutterRef DEF RefInv, routerVars
  <1> QED
    BY <1>1, <1>2

(* The invariant of one request at a time, from which the refinement       *)
(* follows.                                                                *)
THEOREM OneRequestInvariant == ASSUME OneClient PROVE ServerSpec => []RefInv
  BY RefInvInit, RefStep, PTL DEF ServerSpec

(* AckedNotLost for one request at a time: neither a later request nor     *)
(* Node takes away what was answered with 200.                             *)
THEOREM ServerKeepsAcknowledged == ASSUME OneClient PROVE ServerSpec => []AckedNotLost
  <1>1. RefInv => AckedNotLost
    BY DEF RefInv, Alone, AckedNotLost
  <1> QED
    BY <1>1, OneRequestInvariant, PTL

(* FieldAgrees for one request at a time, over crashes and stops. *)
THEOREM ServerExpectsSame == ASSUME OneClient PROVE ServerSpec => []FieldAgrees
  <1>1. RefInv => FieldAgrees
    BY DEF RefInv, Alone, FieldAgrees, Idle
  <1> QED
    BY <1>1, OneRequestInvariant, PTL

(* IncreasesByOne for one request at a time. *)
THEOREM ServerSequenceIncreases == ASSUME OneClient PROVE ServerSpec => IncreasesByOne
  <1>1. RefInv /\ RefInv' /\ [ServerNext]_serverVars => [setting' # setting => setting' = setting + 1]_vars
    <2> SUFFICES ASSUME RefInv, [ServerNext]_serverVars, setting' # setting PROVE setting' = setting + 1
      OBVIOUS
    <2>1. CASE Arrive \/ Serve
      BY <2>1, RequestSteps, OneClientAtATime, AloneStep DEF RefInv, ServerInv
    <2>2. CASE ~(Arrive \/ Serve)
      <3>1. setting' = setting
        BY <2>2, NodeChanges, OtherStepInv, NewProcessInv
        DEF ServerNext, serverVars, vars, routerVars, RefInv
      <3> QED
        BY <3>1
    <2> QED
      BY <2>1, <2>2
  <1> QED
    BY <1>1, OneRequestInvariant, PTL DEF ServerSpec, IncreasesByOne

(* The server implements the abstract ledger for one request at a time:    *)
(* each number is settled once, only what is settled is acknowledged, and  *)
(* the blocks hold every settled number before the later ones, over any    *)
(* number of crashes, stops and failures.                                  *)
THEOREM ServerImplementsLedger == ASSUME OneClient PROVE ServerSpec => ImplementsSequencedLedger
  <1>1. ServerInit => Abstract!Init
    <2> SUFFICES ASSUME ServerInit PROVE Abstract!Init
      OBVIOUS
    <2>1. ledger = <<>> /\ offered = {} /\ settled = <<>> /\ acked = {}
      BY DEF ServerInit, Init, StorageInit
    <2> QED
      BY <2>1 DEF Abstract!Init
  <1> QED
    BY <1>1, OneRequestInvariant, RefStep, PTL DEF ServerSpec, ImplementsSequencedLedger, Abstract!Spec

-----------------------------------------------------------------------------
(* The histories of what was offered and settled. *)
LEMMA HistoryTypes ==
    ASSUME ServerInv, ServerInv', Arrive \/ Serve, offered \subseteq Tx, settled \in Seq(Tx)
    PROVE  offered' \subseteq Tx /\ settled' \in Seq(Tx)
  <1>1. TypeOK /\ txs' \subseteq Tx
    BY DEF ServerInv, RouterInv, TypeOK
  <1>2. offered' \subseteq Tx
    BY <1>1 DEF Arrive, Serve
  <1>3. CASE settled' = settled
    BY <1>2, <1>3
  <1>4. CASE settled' # settled
    <2>1. PICK h \in Handlers : SetSequence(h) /\ settled' = Append(settled, request[h].tx)
      BY <1>4 DEF Arrive, Serve
    <2>2. request[h].tx \in Tx
      BY <1>1, <2>1, RequestTypes DEF SetSequence
    <2> QED
      BY <1>2, <2>1, <2>2
  <1> QED
    BY <1>3, <1>4

-----------------------------------------------------------------------------
(* However the server starts: also when Node ticks before onStart is over, *)
(* or when the database cannot be read, by a start or by a stop.           *)

SoundServer ==
    /\ TypeOK /\ SoundInv
    /\ \A s \in stopInfo :
         Told(s.height, s.hash) /\ s \in [height : Uint64, hash : Hash, type : {"number"}]
    /\ stopPc \in {"none", "storage", "contract", "wait", "close"}
    /\ offered \subseteq Tx
    /\ settled \in Seq(Tx)

LEMMA SoundServerInit == ServerInit => SoundServer
  <1> SUFFICES ASSUME ServerInit PROVE SoundServer
    OBVIOUS
  <1>1. SoundInv
    BY SoundInit DEF ServerInit, Init
  <1>2. TypeOK
    BY ServerInvInit DEF ServerInv, RouterInv
  <1> QED
    BY <1>1, <1>2 DEF ServerInit, SoundServer

(* What a stop has been told stays so while the ledger and the contract    *)
(* grow.                                                                   *)
LEMMA SoundRequest ==
    ASSUME ServerInv, ServerInv', SoundServer, Arrive \/ Serve
    PROVE  SoundServer' /\ UNCHANGED contractVars
  <1>1. UNCHANGED <<pipeVars, stopVars, ledger, blocks>>
    <2>1. blocks' = blocks
      BY DEF Arrive, Post, Serve, LoadRead, LoadReturn, PoolAdd, SetSequence, Answer, Continue
    <2> QED
      BY <2>1, RequestSteps
  <1>2. SoundInv'
    BY <1>1, SoundFrame DEF SoundServer, pipeVars
  <1>3. \A height, hash : Told(height, hash) => Told(height, hash)'
    BY <1>1 DEF Told, OnChain, pipeVars, contractVars
  <1>4. TypeOK' /\ offered' \subseteq Tx /\ settled' \in Seq(Tx)
    BY HistoryTypes DEF ServerInv, RouterInv, SoundServer
  <1> QED
    BY <1>1, <1>2, <1>3, <1>4 DEF SoundServer, stopVars, pipeVars

LEMMA SoundScheduler ==
    ASSUME ServerInv', SoundServer, NodeStep \/ SendStep \/ ChainStep
    PROVE  SoundServer' /\ (RollUpNext \/ UNCHANGED contractVars)
  <1>1. UNCHANGED <<stopVars, offered, settled>> /\ TypeOK'
    BY DEF NodeStep, SendStep, ChainStep, ServerInv, RouterInv
  <1>2. SoundInv /\ txs \subseteq Tx
    BY DEF SoundServer, TypeOK
  <1>3. /\ SoundInv' /\ (RollUpNext \/ UNCHANGED contractVars)
        /\ \A height, hash : Told(height, hash) => Told(height, hash)'
    <2>1. CASE NodeStep
      BY <1>2, <2>1, SoundNode DEF NodeStep
    <2>2. CASE SendStep \/ ChainStep
      BY <1>2, <2>2, SoundSend, SoundChain DEF SendStep, ChainStep
    <2> QED
      BY <2>1, <2>2
  <1> QED
    BY <1>1, <1>3 DEF SoundServer, stopVars

LEMMA SoundStopOnStart ==
    ASSUME ServerInv', SoundServer, StopOnStart
    PROVE  SoundServer' /\ UNCHANGED contractVars
  <1>1. /\ UNCHANGED <<blocks, ledger, contractVars, startVars, nodePc, nodeTxs, nodeBlock,
                       sendVars, chainVars, offered, settled>>
        /\ TypeOK'
    BY DEF StopOnStart, storageVars, ServerInv, RouterInv
  <1>2. SoundInv
    BY DEF SoundServer
  <1>3. \A height, hash : Told(height, hash) => Told(height, hash)'
    BY <1>1 DEF Told, OnChain, contractVars
  <1>4. CASE stopPc = "storage"
    <2>1. /\ stopPc' = "contract" /\ UNCHANGED <<prev_hash, prev_height, heightType>>
          /\ stopInfo' = InfoByStorage \/ stopInfo' = {}
      BY <1>4 DEF StopOnStart
    <2>2. \A s \in stopInfo' : Told(s.height, s.hash)'
                               /\ s \in [height : Uint64, hash : Hash, type : {"number"}]
      BY <1>2, <1>3, <2>1, SoundStorageInfo
    <2>3. SoundInv'
      BY <1>1, <1>2, <2>1, SoundFrame DEF startVars, nodeVars
    <2> QED
      BY <1>1, <2>1, <2>2, <2>3 DEF SoundServer
  <1>5. CASE stopPc = "contract"
    <2>1. /\ stopPc' = "wait" /\ stopInfo' = {}
          /\ SetPrevious(Newest(stopInfo, InfoByContract)) \/ SetPrevious(stopInfo)
      BY <1>5 DEF StopOnStart
    <2>2. PICK info \in {stopInfo, InfoByContract} : SetPrevious(info)
      BY <2>1 DEF Newest
    <2>3. \A s \in info : Told(s.height, s.hash) /\ s.type \in HeightTypes
      BY <1>2, SoundContractInfo DEF SoundServer, HeightTypes
    <2>4. Told(prev_height', prev_hash') /\ heightType' \in HeightTypes
      BY <1>2, <2>2, <2>3, SoundPrevious
    <2>5. NodeTypeOK' /\ Heard'
      BY <1>1, <1>2, <1>3, <2>4, ToldTypes
      DEF SoundInv, Heard, CoreTypeOK, NodeTypeOK, startVars, HeightTypes
    <2>6. SoundInv'
      BY <1>1, <1>2, <2>5, SoundNodeFrame
    <2> QED
      BY <1>1, <2>1, <2>6 DEF SoundServer
  <1> QED
    BY <1>1, <1>4, <1>5 DEF StopOnStart

LEMMA SoundOthers ==
    ASSUME ServerInv', SoundServer,
           Stop \/ StopClose \/ StopOver \/ ServerCrash \/ UNCHANGED serverVars
    PROVE  SoundServer' /\ UNCHANGED contractVars
  <1>1. TypeOK'
    BY DEF ServerInv, RouterInv
  <1>2. CASE Stop \/ StopClose \/ UNCHANGED serverVars
    <2>1. /\ UNCHANGED <<blocks, ledger, contractVars, nodeVars, sendVars, chainVars, stopInfo,
                         offered, settled>>
          /\ stopPc' \in {"none", "storage", "contract", "wait", "close"}
      BY <1>2 DEF Stop, StopClose, storageVars, pipeVars, serverVars, vars, stopVars, SoundServer
    <2>2. SoundInv'
      BY <2>1, SoundFrame DEF SoundServer
    <2>3. \A height, hash : Told(height, hash) => Told(height, hash)'
      BY <2>1 DEF Told, OnChain, contractVars
    <2> QED
      BY <1>1, <2>1, <2>2, <2>3 DEF SoundServer
  <1>3. CASE StopOver \/ ServerCrash
    <2>1. /\ NodeRestart /\ SendRestart /\ stopPc' = "none" /\ stopInfo' = {}
          /\ UNCHANGED <<blocks, ledger, contractVars, chainVars, offered, settled>>
      BY <1>3 DEF ServerCrash, StopOver, NewProcess, storageVars
    <2>2. SoundInv'
      BY <2>1, SoundRestart DEF SoundServer
    <2> QED
      BY <1>1, <2>1, <2>2 DEF SoundServer
  <1> QED
    BY <1>2, <1>3

LEMMA SoundServerStep ==
    ASSUME ServerInv, ServerInv', SoundServer, [ServerNext]_serverVars
    PROVE  SoundServer' /\ [RollUpNext]_contractVars
  BY SoundRequest, SoundScheduler, SoundStopOnStart, SoundOthers DEF ServerNext

(* What the chain is sent is sound in every state of the whole server, for *)
(* any start and any stop.                                                 *)
THEOREM ServerSound == ServerSpec => []SoundServer
  <1>1. ServerInv /\ ServerInv' /\ SoundServer /\ [ServerNext]_serverVars => SoundServer'
    BY SoundServerStep
  <1> QED
    BY <1>1, ServerInvariant, SoundServerInit, PTL DEF ServerSpec

(* The state of the whole server has its types. *)
THEOREM ServerTypeCorrect == ServerSpec => []ServerTypeOK
  <1>1. SoundServer => ServerTypeOK
    BY DEF SoundServer, SoundInv, CoreTypeOK, ServerTypeOK
  <1> QED
    BY <1>1, ServerSound, PTL

(* What is sent is the contract's next block or one that it has, also when *)
(* a block was made after one that is not the last.                        *)
THEOREM ServerSendsNext == ServerSpec => []SendsNext
  <1>1. SoundServer => SendsNext
    BY SoundSendsNext DEF SoundServer
  <1> QED
    BY <1>1, ServerSound, PTL

(* The server drives the contract as the contract's specification allows.  *)
THEOREM ServerDrivesContract == ServerSpec => RollUpSpec
  <1>1. ServerInit => RollUpInit
    BY DEF ServerInit
  <1>2. ServerInv /\ ServerInv' /\ SoundServer /\ [ServerNext]_serverVars
          => [RollUpNext]_contractVars
    BY SoundServerStep
  <1> QED
    BY <1>1, <1>2, ServerInvariant, ServerSound, PTL DEF ServerSpec, RollUpSpec

(* No transaction that was sent waits behind a nonce that none has, if the *)
(* chain forgets none and its count can be read after every failed call.   *)
THEOREM ServerLeavesNoNonceGap ==
    ASSUME "resync" \notin Faults, "drop" \notin Faults
    PROVE  ServerSpec => []NoNonceGap
  <1>1. ServerInit => Gapless
    BY GaplessInit DEF ServerInit
  <1>2. SoundServer /\ Gapless /\ [ServerNext]_serverVars => Gapless'
    <2> SUFFICES ASSUME SoundServer, Gapless, [ServerNext]_serverVars PROVE Gapless'
      OBVIOUS
    <2>1. SendTypeOK
      BY DEF SoundServer, SoundInv, CoreTypeOK
    <2>2. CASE SendStep
      BY <2>1, <2>2, GaplessSend DEF SendStep
    <2>3. CASE ChainStep
      BY <2>1, <2>3, GaplessChain DEF ChainStep
    <2>4. CASE ServerCrash \/ StopOver
      BY <2>4, GaplessFrame DEF ServerCrash, StopOver, NewProcess
    <2>5. CASE Arrive \/ Serve \/ NodeStep \/ Stop \/ StopOnStart \/ StopClose \/ UNCHANGED serverVars
      BY <2>5, GaplessFrame DEF Arrive, Serve, NodeStep, Stop, StopOnStart, StopClose, serverVars,
                                pipeVars, sendVars, chainVars
    <2> QED
      BY <2>2, <2>3, <2>4, <2>5 DEF ServerNext
  <1>3. Gapless => NoNonceGap
    BY DEF Gapless
  <1> QED
    BY <1>1, <1>2, <1>3, ServerSound, PTL DEF ServerSpec

-----------------------------------------------------------------------------
(* The heights and hashes that LastBlockInfo may answer. *)
InfosOf(length, type) == {[height |-> k - 1, hash |-> k, type |-> type] : k \in 1..length}

(* The blocks under requests and stops.  A stop assigns prev_hash and      *)
(* prev_height, and Node needs them right while it makes a block: the one  *)
(* it makes when it is stopped is the last one that it makes.              *)
Stopping ==
    /\ startPc # "done" => stopPc = "none"
    /\ startPc = "done" /\ (stopPc = "none" \/ nodePc \in {"get", "ipfs"}) => Knows
    /\ stopPc = "contract" /\ nodePc \in {"get", "ipfs"} => stopInfo = LastInfo
    /\ stopInfo \subseteq InfosOf(Len(ledger), "number")

ChainInv ==
    /\ TypeOK /\ CoreInv /\ Stopping
    /\ stopPc \in {"none", "storage", "contract", "wait", "close"}
    /\ offered \subseteq Tx
    /\ settled \in Seq(Tx)

(* They are of these, and have their types. *)
LEMMA InfosOfBlocks ==
    ASSUME CoreInv
    PROVE  /\ LastInfo \subseteq InfosOf(Len(ledger), "number")
           /\ InfoByContract \subseteq InfosOf(Len(ledger), "bigint")
           /\ \A k \in 1..Len(ledger) : k - 1 \in -1..(MaxBlocks - 1) /\ k \in Hash /\ k - 1 \in Uint64
  <1>1. \A k \in 1..Len(ledger) : k - 1 \in -1..(MaxBlocks - 1) /\ k \in Hash /\ k - 1 \in Uint64
    BY Lengths, Bounds
  <1>2. Len(ledger) \in Nat /\ Len(blockArray) \in 0..Len(ledger)
    BY Lengths, Bounds
  <1> QED
    BY <1>1, <1>2, ContractInfo DEF LastInfo, InfosOf

(* The requests do not touch the blocks. *)
LEMMA RequestChain ==
    ASSUME ServerInv, ServerInv', ChainInv, Arrive \/ Serve
    PROVE  ChainInv'
  <1>1. UNCHANGED <<pipeVars, stopVars, ledger, blocks>>
    <2>1. blocks' = blocks
      BY DEF Arrive, Post, Serve, LoadRead, LoadReturn, PoolAdd, SetSequence, Answer, Continue
    <2> QED
      BY <2>1, RequestSteps
  <1>2. CoreInv'
    BY <1>1, CoreFrame DEF ChainInv, pipeVars
  <1>3. Stopping'
    BY <1>1 DEF ChainInv, Stopping, Knows, LastInfo, pipeVars, stopVars, nodeVars
  <1>4. TypeOK' /\ offered' \subseteq Tx /\ settled' \in Seq(Tx)
    BY HistoryTypes DEF ServerInv, RouterInv, ChainInv
  <1> QED
    BY <1>1, <1>2, <1>3, <1>4 DEF ChainInv, stopVars

(* Node goes on with what it knows; a stopped one begins nothing. *)
LEMMA NodeChain ==
    ASSUME NormalStart, ServerInv', ChainInv, NodeStep
    PROVE  ChainInv'
  <1>1. /\ NodeNext
        /\ UNCHANGED <<sendVars, chainVars, stopVars, offered, settled>>
        /\ stopPc = "none" \/ nodePc # "idle"
    BY DEF NodeStep
  <1>2. CoreInv /\ txs \subseteq Tx /\ (nodePc = "get" => Knows)
    BY DEF ChainInv, TypeOK, CoreInv, Starting, Stopping
  <1>3. /\ CoreInv'
        /\ Knows' \/ UNCHANGED <<prev_hash, prev_height, ledger>>
        /\ startPc' = "done" => startPc = "done" \/ Knows'
    BY <1>1, <1>2, CoreNode
  <1>4. startPc' # "done" => startPc # "done"
    BY <1>1 DEF NodeNext, OnStart, OnStartStorage, OnStartContract, Work, WorkGet, WorkCreate,
                WorkInsert, WorkCreateThrows, WorkFail, WorkRemove, WorkRemoveFail, startVars
  <1>5. nodePc' \in {"get", "ipfs"} =>
          /\ nodePc \in {"get", "ipfs"} \/ stopPc = "none"
          /\ ledger' = ledger
    BY <1>1 DEF NodeNext, OnStart, OnStartStorage, OnStartContract, Work, WorkGet, WorkCreate,
                WorkInsert, WorkCreateThrows, WorkFail, WorkRemove, WorkRemoveFail, storageVars
  <1>6. Len(ledger) <= Len(ledger') /\ Len(ledger) \in Nat /\ Len(ledger') \in Nat
    <2>1. Len(ledger) \in Nat
      BY <1>2, Lengths, Bounds
    <2>2. CASE WorkInsert
      <3> DEFINE row == [height |-> Len(ledger), curBlock |-> Len(ledger) + 1,
                         prevBlock |-> Len(ledger), CID |-> nodeTxs]
      <3>1. ledger' = Append(ledger, row)
        BY <1>1, <1>2, <2>2, CoreWorkInsert
      <3>2. IsLedger
        BY <1>2, Lengths DEF IsLedger
      <3> HIDE DEF row
      <3> QED
        BY <2>1, <3>1, <3>2, LedgerGrows
    <2>3. CASE ~WorkInsert
      BY <1>1, <2>1, <2>3
      DEF NodeNext, OnStart, OnStartStorage, OnStartContract, Work, WorkGet, WorkCreate,
          WorkCreateThrows, WorkFail, WorkRemove, WorkRemoveFail, storageVars
    <2> QED
      BY <2>2, <2>3
  <1>7. Stopping'
    <2>1. startPc' # "done" => stopPc' = "none"
      BY <1>1, <1>4 DEF ChainInv, Stopping, stopVars
    <2>2. startPc' = "done" /\ (stopPc' = "none" \/ nodePc' \in {"get", "ipfs"}) => Knows'
      BY <1>1, <1>3, <1>5 DEF ChainInv, Stopping, stopVars, Knows
    <2>3. stopPc' = "contract" /\ nodePc' \in {"get", "ipfs"} => stopInfo' = LastInfo'
      BY <1>1, <1>5 DEF ChainInv, Stopping, stopVars, LastInfo
    <2>4. stopInfo' \subseteq InfosOf(Len(ledger'), "number")
      <3>1. InfosOf(Len(ledger), "number") \subseteq InfosOf(Len(ledger'), "number")
        BY <1>6 DEF InfosOf
      <3> QED
        BY <1>1, <3>1 DEF ChainInv, Stopping, stopVars
    <2> QED
      BY <2>1, <2>2, <2>3, <2>4 DEF Stopping
  <1>8. TypeOK'
    BY DEF ServerInv, RouterInv
  <1> QED
    BY <1>1, <1>3, <1>7, <1>8 DEF ChainInv, stopVars

(* SendBlock and the chain. *)
LEMMA SendChain ==
    ASSUME ServerInv', ChainInv, SendStep \/ ChainStep
    PROVE  ChainInv'
  <1>1. (Send \/ Chain) /\ UNCHANGED <<stopVars, offered, settled>>
    BY DEF SendStep, ChainStep
  <1>2. CoreInv' /\ UNCHANGED <<nodeVars, ledger>>
    BY <1>1, CoreSend, CoreChain DEF ChainInv
  <1>3. Stopping'
    BY <1>1, <1>2 DEF ChainInv, Stopping, Knows, LastInfo, stopVars, nodeVars
  <1>4. TypeOK'
    BY DEF ServerInv, RouterInv
  <1> QED
    BY <1>1, <1>2, <1>3, <1>4 DEF ChainInv, stopVars

(* The two reads of a stop.  If a block is in the making when the database *)
(* answers, the answer is the block before it; if it still is when the     *)
(* contract answers, that is still the last block.                         *)
LEMMA StopOnStartChain ==
    ASSUME NormalStart, ServerInv', ChainInv, StopOnStart
    PROVE  ChainInv'
  <1>1. /\ UNCHANGED <<blocks, ledger, contractVars, startVars, nodePc, nodeTxs, nodeBlock,
                       sendVars, chainVars, offered, settled>>
        /\ TypeOK'
    BY DEF StopOnStart, storageVars, ServerInv, RouterInv
  <1>2. startPc = "done" /\ startPc' = "done" /\ CoreInv
    BY <1>1 DEF StopOnStart, ChainInv, Stopping, startVars
  <1>3. SUFFICES NodeTypeOK' /\ Stopping' /\ stopPc' \in {"contract", "wait"}
    <2>1. Starting' /\ Building' /\ Removing'
      BY <1>1, <1>2 DEF CoreInv, Starting, Building, Removing, startVars
    <2>2. CoreInv'
      BY <1>1, <1>2, <1>3, <2>1, NodeFrame
    <2> QED
      BY <1>1, <1>3, <2>2 DEF ChainInv
  <1>4. CASE stopPc = "storage"
    <2>1. /\ stopPc' = "contract" /\ stopInfo' = LastInfo
          /\ UNCHANGED <<prev_hash, prev_height, heightType>>
      BY <1>2, <1>4, StorageInfoIsLast DEF StopOnStart, NormalStart, Fault
    <2>2. NodeTypeOK'
      BY <1>1, <2>1 DEF ChainInv, CoreInv, CoreTypeOK, NodeTypeOK, startVars
    <2>3. Stopping'
      BY <1>1, <1>2, <2>1, InfosOfBlocks DEF ChainInv, Stopping, Knows, LastInfo
    <2> QED
      BY <2>1, <2>2, <2>3
  <1>5. CASE stopPc = "contract"
    <2>1. /\ stopPc' = "wait" /\ stopInfo' = {}
          /\ SetPrevious(Newest(stopInfo, InfoByContract)) \/ SetPrevious(stopInfo)
      BY <1>5 DEF StopOnStart
    <2>2. NodeTypeOK'
      <3>1. PICK info \in {stopInfo, InfoByContract} : SetPrevious(info)
        BY <2>1 DEF Newest
      <3>2. \E type \in HeightTypes : info \subseteq InfosOf(Len(ledger), type)
        BY <1>2, InfosOfBlocks DEF ChainInv, Stopping, HeightTypes
      <3>3. /\ prev_hash' \in Hash /\ prev_height' \in -1..(MaxBlocks - 1)
            /\ heightType' \in HeightTypes
        <4>1. CASE info = {}
          BY <3>1, <4>1 DEF SetPrevious, ChainInv, CoreInv, CoreTypeOK, NodeTypeOK, HeightTypes
        <4>2. CASE info # {}
          <5>1. PICK i \in info : prev_hash' = i.hash /\ prev_height' = i.height /\ heightType' = i.type
            BY <3>1, <4>2 DEF SetPrevious
          <5>2. PICK k \in 1..Len(ledger), type \in HeightTypes :
                   i = [height |-> k - 1, hash |-> k, type |-> type]
            BY <3>2 DEF InfosOf
          <5> QED
            BY <1>2, <5>1, <5>2, InfosOfBlocks
        <4> QED
          BY <4>1, <4>2
      <3> QED
        BY <1>1, <3>3 DEF ChainInv, CoreInv, CoreTypeOK, NodeTypeOK, startVars, HeightTypes
    <2>3. nodePc \in {"get", "ipfs"} => Knows'
      <3> SUFFICES ASSUME nodePc \in {"get", "ipfs"} PROVE Knows'
        OBVIOUS
      <3>1. stopInfo = LastInfo /\ Knows
        BY <1>2, <1>5 DEF ChainInv, Stopping
      <3>2. \E info : IsLast(info) /\ SetPrevious(info)
        BY <1>2, <2>1, <3>1, NewestIsLast
      <3> QED
        BY <1>1, <1>2, <3>1, <3>2, SetPreviousKnows
    <2>4. Stopping'
      BY <1>1, <1>2, <2>1, <2>3 DEF Stopping
    <2> QED
      BY <2>1, <2>2, <2>4
  <1> QED
    BY <1>4, <1>5 DEF StopOnStart

(* The rest of a stop, and a new process. *)
LEMMA StopChain ==
    ASSUME ServerInv', ChainInv, Stop \/ StopClose \/ UNCHANGED serverVars
    PROVE  ChainInv'
  <1>1. /\ UNCHANGED <<blocks, ledger, contractVars, nodeVars, sendVars, chainVars, stopInfo,
                       offered, settled>>
        /\ TypeOK'
    BY DEF Stop, StopClose, storageVars, pipeVars, serverVars, vars, stopVars, ServerInv, RouterInv
  <1>2. CoreInv'
    BY <1>1, CoreFrame DEF ChainInv
  <1>3. /\ stopPc' \in {"none", "storage", "contract", "wait", "close"}
        /\ stopPc' = stopPc \/ (stopPc' \in {"storage", "close"} /\ startPc = "done" /\ stopPc # "contract")
    BY DEF Stop, StopClose, serverVars, stopVars, ChainInv, Stopping
  <1>4. Stopping'
    <2>1. Knows' <=> Knows
      BY <1>1 DEF Knows, nodeVars
    <2> QED
      BY <1>1, <1>3, <2>1 DEF ChainInv, Stopping, LastInfo, nodeVars
  <1> QED
    BY <1>1, <1>2, <1>3, <1>4 DEF ChainInv

LEMMA NewProcessChain ==
    ASSUME ServerInv', ChainInv, ServerCrash \/ StopOver
    PROVE  ChainInv'
  <1>1. /\ NodeRestart /\ SendRestart /\ stopPc' = "none" /\ stopInfo' = {}
        /\ UNCHANGED <<blocks, ledger, contractVars, chainVars, offered, settled>>
        /\ TypeOK'
    BY DEF ServerCrash, StopOver, NewProcess, storageVars, ServerInv, RouterInv
  <1>2. CoreInv'
    BY <1>1, CoreRestart DEF ChainInv
  <1>3. Stopping'
    BY <1>1 DEF Stopping, NodeRestart
  <1> QED
    BY <1>1, <1>2, <1>3 DEF ChainInv

LEMMA ChainInvInit == ServerInit => ChainInv
  <1> SUFFICES ASSUME ServerInit PROVE ChainInv
    OBVIOUS
  <1>1. CoreInv
    BY CoreInit DEF ServerInit, Init
  <1>2. TypeOK
    BY ServerInvInit DEF ServerInv, RouterInv
  <1>3. Stopping
    BY DEF ServerInit, NodeInit, Stopping
  <1> QED
    BY <1>1, <1>2, <1>3 DEF ServerInit, ChainInv

LEMMA ChainInvStep ==
    ASSUME NormalStart, ServerInv, ServerInv', ChainInv, [ServerNext]_serverVars
    PROVE  ChainInv'
  BY RequestChain, NodeChain, SendChain, StopOnStartChain, StopChain, NewProcessChain DEF ServerNext

(* The blocks of the whole server are one chain, with what Node, SendBlock *)
(* and a stop under way rely on, in every state.                           *)
THEOREM ServerChainInvariant == ASSUME NormalStart PROVE ServerSpec => []ChainInv
  BY ServerInvariant, ChainInvInit, ChainInvStep, PTL DEF ServerSpec

(* A block in the making comes after the last, also under stop().          *)
THEOREM ServerBuildsOnLast == ASSUME NormalStart PROVE ServerSpec => []BuildsOnLast
  <1>1. ChainInv => BuildsOnLast
    BY DEF ChainInv, Stopping, Knows, CoreInv, Starting, Building, BuildsOnLast
  <1> QED
    BY <1>1, ServerChainInvariant, PTL

(* The blocks are one chain, of which the contract has a prefix, over any  *)
(* number of requests at once, stops and crashes.                          *)
THEOREM ServerOneChain == ASSUME NormalStart PROVE ServerSpec => []OneChain
  <1>1. ChainInv => OneChain
    <2> SUFFICES ASSUME ChainInv PROVE Pipeline!NoFork /\ Pipeline!ContractIsPrefix
      BY DEF OneChain
    <2>1. CoreInv
      BY DEF ChainInv
    <2>2. Pipeline!NoFork
      BY <2>1, Lengths, Bounds DEF CoreInv, Linear, Pipeline!NoFork, Pipeline!NullHash, NullHash
    <2>3. Pipeline!ContractIsPrefix
      BY <2>1, ArrayIsPrefix DEF Pipeline!ContractIsPrefix
    <2> QED
      BY <2>2, <2>3
  <1> QED
    BY <1>1, ServerChainInvariant, PTL

(* The newest block stays in the database, and what is deleted from it is  *)
(* in the contract, whatever a stop or a request does meanwhile.           *)
THEOREM ServerKeepsRows ==
    ASSUME NormalStart
    PROVE  ServerSpec => [](Pipeline!PrunedIsPublished /\ Pipeline!NewestRowKept)
  <1>1. CoreInv => Pipeline!PrunedIsPublished
    BY CreatedIsHeld DEF Pipeline!PrunedIsPublished
  <1>2. CoreInv => Pipeline!NewestRowKept
    BY Lengths, Bounds DEF CoreInv, Kept, Pipeline!NewestRowKept
  <1>3. ChainInv => CoreInv
    BY DEF ChainInv
  <1> QED
    BY <1>1, <1>2, <1>3, ServerChainInvariant, PTL

(* What was answered with 200 is in the pool, a row or the contract, for   *)
(* one request at a time: no row is deleted before the contract has it.    *)
THEOREM ServerAckedKept == ASSUME NormalStart, OneClient PROVE ServerSpec => []AckedKept
  <1>1. ChainInv /\ AckedNotLost => AckedKept
    <2> SUFFICES ASSUME ChainInv, AckedNotLost, NEW t \in acked, t \notin txs
                 PROVE  \/ \E row \in blocks : t \in row.CID
                        \/ \E j \in 1..Len(blockArray) : t \in blockArray[j].CID
      BY DEF AckedKept
    <2>1. PICK k \in 1..Len(ledger) : t \in ledger[k].CID
      BY PlacedIsTaken DEF AckedNotLost, Placed
    <2> QED
      BY <2>1, CreatedIsHeld DEF ChainInv
  <1> QED
    BY <1>1, ServerChainInvariant, ServerKeepsAcknowledged, PTL

-----------------------------------------------------------------------------
(* How often a number comes into a block, for one request at a time.       *)

(* What Node makes a block of, and what it is taking out of the pool.      *)
Held == IF nodePc \in {"get", "ipfs"} THEN nodeTxs ELSE {}
Leaving == IF nodePc = "remove" THEN nodeTxs ELSE {}

(* The transactions that may still come into a block under the number n,   *)
(* the blocks it is in, and whether another one may be offered under it.   *)
Waiting(n) == {t \in (txs \ Leaving) \cup Held : t.sequence = n}
Places(n) == {j \in 1..Len(ledger) : \E t \in ledger[j].CID : t.sequence = n}
Open(n) ==
    IF setting < n /\ \A h \in Handlers : request[h].pc = "set" => request[h].tx.sequence # n
    THEN 1 ELSE 0

Load(n) == Cardinality(Places(n)) + Cardinality(Waiting(n)) + Open(n)

OneRow == \A t, u \in txs : t.sequence = u.sequence => t = u

(* Only a fault adds to the load of a number: a transaction of a block     *)
(* that waits again, and a number that is offered again.                   *)
Repeating ==
    /\ OneRow
    /\ IsFiniteSet(Held)
    /\ stopPc = "close" => nodePc = "idle"
    /\ \A n \in 0..(MaxTxSeq - 1) : Load(n) <= 1 + 2 * (MaxFaults - faults)

(* The sizes of sets that differ by an element. *)
LEMMA Sizes ==
    ASSUME NEW S, IsFiniteSet(S), NEW T
    PROVE  /\ Cardinality(S) \in Nat
           /\ T \subseteq S => Cardinality(T) \in Nat /\ Cardinality(T) <= Cardinality(S)
           /\ \A x : T \subseteq S \cup {x} =>
                 Cardinality(T) \in Nat /\ Cardinality(T) <= Cardinality(S) + 1
           /\ \A x \in S : T \subseteq S \ {x} =>
                 Cardinality(T) \in Nat /\ Cardinality(T) <= Cardinality(S) - 1
  <1>1. Cardinality(S) \in Nat
    BY FS_CardinalityType
  <1>2. ASSUME T \subseteq S PROVE Cardinality(T) \in Nat /\ Cardinality(T) <= Cardinality(S)
    BY <1>2, FS_Subset, FS_CardinalityType
  <1>3. ASSUME NEW x, T \subseteq S \cup {x}
        PROVE  Cardinality(T) \in Nat /\ Cardinality(T) <= Cardinality(S) + 1
    <2>1. IsFiniteSet(S \cup {x}) /\ Cardinality(S \cup {x}) <= Cardinality(S) + 1
      BY <1>1, FS_AddElement
    <2>2. /\ IsFiniteSet(T) /\ Cardinality(T) <= Cardinality(S \cup {x})
          /\ Cardinality(S \cup {x}) \in Nat
      BY <1>3, <2>1, FS_Subset, FS_CardinalityType
    <2>3. Cardinality(T) \in Nat
      BY <2>2, FS_CardinalityType
    <2> QED
      BY <1>1, <2>1, <2>2, <2>3
  <1>4. ASSUME NEW x \in S, T \subseteq S \ {x}
        PROVE  Cardinality(T) \in Nat /\ Cardinality(T) <= Cardinality(S) - 1
    <2>1. IsFiniteSet(S \ {x}) /\ Cardinality(S \ {x}) = Cardinality(S) - 1
      BY FS_RemoveElement
    <2>2. IsFiniteSet(T) /\ Cardinality(T) <= Cardinality(S \ {x})
      BY <1>4, <2>1, FS_Subset
    <2>3. Cardinality(T) \in Nat
      BY <2>2, FS_CardinalityType
    <2> QED
      BY <1>1, <2>1, <2>2, <2>3
  <1> QED
    BY <1>1, <1>2, <1>3, <1>4

(* The parts of the load are finite, before and after a step. *)
LEMMA LoadTypes ==
    ASSUME RefInv, Repeating, NEW n
    PROVE  /\ IsFiniteSet(Waiting(n)) /\ Cardinality(Waiting(n)) \in Nat
           /\ IsFiniteSet(Places(n)) /\ Cardinality(Places(n)) \in Nat
           /\ Len(ledger) \in Nat
           /\ Open(n) \in {0, 1} /\ Open(n)' \in {0, 1}
  <1>1. Len(ledger) \in Nat
    BY DEF RefInv, ServerInv, IsLedger
  <1>2. IsFiniteSet(1..Len(ledger))
    <2>1. 1 \in Int /\ Len(ledger) \in Int
      BY <1>1
    <2> QED
      BY <2>1, FS_Interval
  <1>3. IsFiniteSet(txs \cup Held)
    BY FS_Union DEF RefInv, Settling, Repeating
  <1>4. Waiting(n) \subseteq txs \cup Held /\ Places(n) \subseteq 1..Len(ledger)
    BY DEF Waiting, Places
  <1>5. IsFiniteSet(Waiting(n)) /\ IsFiniteSet(Places(n))
    BY <1>2, <1>3, <1>4, FS_Subset
  <1>6. Open(n) \in {0, 1} /\ Open(n)' \in {0, 1}
    BY DEF Open
  <1> QED
    BY <1>1, <1>5, <1>6, FS_CardinalityType

(* The load does not grow when nothing else waits and no number opens.     *)
LEMMA LoadKept ==
    ASSUME RefInv, Repeating, NEW n, ledger' = ledger,
           Waiting(n)' \subseteq Waiting(n), Open(n)' <= Open(n)
    PROVE  Load(n)' \in Int /\ Load(n)' <= Load(n)
  <1>1. Places(n)' = Places(n)
    BY DEF Places
  <1>2. Cardinality(Waiting(n)') \in Nat /\ Cardinality(Waiting(n)') <= Cardinality(Waiting(n))
    BY LoadTypes, Sizes
  <1> DEFINE w == Cardinality(Waiting(n)')
             o == Open(n)'
  <1>3. w \in Nat /\ w <= Cardinality(Waiting(n)) /\ o \in {0, 1} /\ o <= Open(n)
    BY <1>2, LoadTypes
  <1>4. Load(n)' = Cardinality(Places(n)) + w + o
    BY <1>1 DEF Load
  <1> HIDE DEF w, o
  <1> QED
    BY <1>3, <1>4, LoadTypes DEF Load

(* One more may wait when its number is closed for it. *)
LEMMA LoadMoves ==
    ASSUME RefInv, Repeating, NEW n, ledger' = ledger,
           NEW t, Waiting(n)' \subseteq Waiting(n) \cup {t}, Open(n) = 1, Open(n)' = 0
    PROVE  Load(n)' \in Int /\ Load(n)' <= Load(n)
  <1>1. Places(n)' = Places(n)
    BY DEF Places
  <1> DEFINE w == Cardinality(Waiting(n)')
  <1>2. w \in Nat /\ w <= Cardinality(Waiting(n)) + 1
    BY LoadTypes, Sizes
  <1>3. Load(n)' = Cardinality(Places(n)) + w + 0
    BY <1>1 DEF Load
  <1> HIDE DEF w
  <1> QED
    BY <1>2, <1>3, LoadTypes DEF Load

(* A fault lets at most one more wait, and opens the number. *)
LEMMA LoadOfFault ==
    ASSUME RefInv, Repeating, NEW n, ledger' = ledger,
           NEW t, Waiting(n)' \subseteq Waiting(n) \cup {t}
    PROVE  Load(n)' \in Int /\ Load(n)' <= Load(n) + 2
  <1>1. Places(n)' = Places(n)
    BY DEF Places
  <1> DEFINE w == Cardinality(Waiting(n)')
             o == Open(n)'
  <1>2. w \in Nat /\ w <= Cardinality(Waiting(n)) + 1 /\ o \in {0, 1}
    BY LoadTypes, Sizes
  <1>3. Load(n)' = Cardinality(Places(n)) + w + o
    BY <1>1 DEF Load
  <1>4. \A i, j, k \in Nat, x, y \in {0, 1} :
           k <= j + 1 => i + k + x \in Int /\ i + k + x <= i + j + y + 2
    OBVIOUS
  <1>5. /\ Cardinality(Places(n)) \in Nat /\ Cardinality(Waiting(n)) \in Nat
        /\ Open(n) \in {0, 1}
    BY LoadTypes
  <1> HIDE DEF w, o
  <1> QED
    BY <1>2, <1>3, <1>4, <1>5, Zenon DEF Load

LEMMA LoadBound ==
    \A a, b, f, g, m \in Int :
        /\ a <= 1 + 2 * (m - f)
        /\ \/ b <= a /\ g <= f
           \/ b <= a + 2 /\ g = f - 1
        => b <= 1 + 2 * (m - g)
  OBVIOUS

LEMMA RepeatingKept ==
    ASSUME RefInv, RefInv', Repeating, OneRow', IsFiniteSet(Held)',
           stopPc' = "close" => nodePc' = "idle",
           \A n \in 0..(MaxTxSeq - 1) :
              /\ Load(n)' \in Int
              /\ \/ Load(n)' <= Load(n) /\ faults' <= faults
                 \/ Load(n)' <= Load(n) + 2 /\ faults' = faults - 1
    PROVE  Repeating'
  <1>1. faults \in Int /\ faults' \in Int /\ MaxFaults \in Int
    BY FaultsAssumption DEF RefInv, ServerInv, RouterInv, TypeOK
  <1>2. ASSUME NEW n \in 0..(MaxTxSeq - 1)
        PROVE  Load(n)' <= 1 + 2 * (MaxFaults - faults')
    <2>1. Load(n) \in Int
      BY LoadTypes DEF Load
    <2>2. Load(n) <= 1 + 2 * (MaxFaults - faults)
      BY DEF Repeating
    <2> DEFINE b == Load(n)'
               a == Load(n)
    <2>3. /\ b \in Int /\ a \in Int /\ a <= 1 + 2 * (MaxFaults - faults)
          /\ \/ b <= a /\ faults' <= faults
             \/ b <= a + 2 /\ faults' = faults - 1
      BY <2>1, <2>2
    <2> HIDE DEF a, b
    <2>4. b <= 1 + 2 * (MaxFaults - faults')
      BY <1>1, <2>3, LoadBound, Zenon
    <2> QED
      BY <2>4 DEF b
  <1> QED
    BY <1>2 DEF Repeating

(* What a fault leaves, also where a read of the start may fail. *)
LEMMA FaultCounts ==
    ASSUME RefInv, NEW kind, Fault(kind)
    PROVE  faults' = faults - 1 /\ faults' <= faults
  BY DEF Fault, RefInv, ServerInv, RouterInv, TypeOK

(* The one request opens and closes numbers. *)
LEMMA OpenOf ==
    ASSUME OneClient, RefInv, NEW h \in Handlers, NEW r, Continue(h, r), NEW n
    PROVE  /\ Open(n) = IF setting < n /\ (request[h].pc = "set" => request[h].tx.sequence # n)
                        THEN 1 ELSE 0
           /\ Open(n)' = IF setting' < n /\ (r.pc = "set" => r.tx.sequence # n)
                         THEN 1 ELSE 0
  <1>1. \A g \in Handlers : g = h /\ request'[g] = r
    BY OneMoves, RequestTypes DEF OneClient, RefInv, ServerInv, RouterInv
  <1> QED
    BY <1>1 DEF Open

(* A request that comes, reads, compares or is answered changes neither    *)
(* what waits nor what is open.                                            *)
LEMMA QuietRequestRepeats ==
    ASSUME OneClient, RefInv, RefInv', Repeating, NEW h \in Handlers, NEW r, Continue(h, r),
           r.pc # "set", request[h].pc # "set", UNCHANGED <<setting, txs, pipeVars, stopVars>>,
           faults' <= faults
    PROVE  Repeating'
  <1>1. Held' = Held /\ Leaving' = Leaving /\ UNCHANGED <<txs, ledger>>
    BY DEF Held, Leaving, pipeVars, nodeVars, Continue
  <1>2. \A n : Waiting(n)' = Waiting(n) /\ Open(n)' = Open(n)
    BY <1>1, OpenOf DEF Waiting
  <1>3. \A n \in 0..(MaxTxSeq - 1) : Open(n)' <= Open(n)
    BY <1>2, LoadTypes
  <1>4. OneRow' /\ (stopPc' = "close" => nodePc' = "idle")
    BY DEF Repeating, OneRow, pipeVars, nodeVars, stopVars
  <1> QED
    BY <1>1, <1>2, <1>3, <1>4, LoadKept, RepeatingKept DEF Repeating

LEMMA PoolAddRepeats ==
    ASSUME OneClient, RefInv, RefInv', Repeating, NEW h \in Handlers, PoolAdd(h),
           UNCHANGED <<pipeVars, stopVars>>
    PROVE  Repeating'
  <1> DEFINE t == request[h].tx
             r == Awaits("set", t)
  <1>1. /\ request[h].pc = "add" /\ t.sequence = setting + 1 /\ setting \in Int
        /\ UNCHANGED <<setting, ledger>>
    BY DEF PoolAdd, Continue, RefInv, Alone, ServerInv, RouterInv, TypeOK
  <1>2. Held' = Held /\ Leaving' = Leaving
    BY DEF Held, Leaving, pipeVars, nodeVars
  <1>3. stopPc' = "close" => nodePc' = "idle"
    BY DEF Repeating, pipeVars, nodeVars, stopVars
  <1>4. CASE InsertTx(t) /\ Continue(h, r) /\ faults' = faults
    <2> HIDE DEF t
    <2>1. r.pc = "set" /\ r.tx = t
      BY DEF Awaits
    <2> HIDE DEF r
    <2>2. txs' = {u \in txs : u.sequence # t.sequence} \cup {t}
      BY <1>4 DEF InsertTx
    <2>3. OneRow'
      BY <2>2 DEF OneRow, Repeating
    <2>4. ASSUME NEW n \in 0..(MaxTxSeq - 1) PROVE Load(n)' \in Int /\ Load(n)' <= Load(n)
      <3>1. CASE n = t.sequence
        <4>1. Waiting(n)' \subseteq Waiting(n) \cup {t}
          BY <1>2, <2>2 DEF Waiting
        <4>2. Open(n) = 1 /\ Open(n)' = 0
          BY <1>1, <1>4, <2>1, <3>1, OpenOf
        <4> QED
          BY <1>1, <4>1, <4>2, LoadMoves
      <3>2. CASE n # t.sequence
        <4>1. Waiting(n)' \subseteq Waiting(n)
          BY <1>2, <2>2, <3>2 DEF Waiting
        <4>2. Open(n)' <= Open(n)
          BY <1>1, <1>4, <2>1, <3>2, OpenOf, LoadTypes
        <4> QED
          BY <1>1, <4>1, <4>2, LoadKept
      <3> QED
        BY <3>1, <3>2
    <2>5. faults' <= faults
      BY <1>4 DEF RefInv, ServerInv, RouterInv, TypeOK
    <2> QED
      BY <1>2, <1>3, <2>3, <2>4, <2>5, RepeatingKept DEF Repeating
  <1>5. CASE txs' = txs /\ Continue(h, Idle) /\ Fault("insertTx")
    BY <1>1, <1>5, FaultCounts, QuietRequestRepeats DEF Idle
  <1> QED
    BY <1>4, <1>5 DEF PoolAdd

LEMMA SetSequenceRepeats ==
    ASSUME OneClient, RefInv, RefInv', Repeating, NEW h \in Handlers, SetSequence(h),
           UNCHANGED <<pipeVars, stopVars>>
    PROVE  Repeating'
  <1> DEFINE t == request[h].tx
             r == Awaits("assign", t)
  <1>1. /\ request[h].pc = "set" /\ t.sequence = setting + 1 /\ setting \in Int
        /\ UNCHANGED <<txs, ledger>>
    BY DEF SetSequence, Continue, RefInv, Alone, ServerInv, RouterInv, TypeOK
  <1>2. Held' = Held /\ Leaving' = Leaving
    BY DEF Held, Leaving, pipeVars, nodeVars
  <1>3. OneRow' /\ (stopPc' = "close" => nodePc' = "idle")
    BY <1>1 DEF Repeating, OneRow, pipeVars, nodeVars, stopVars
  <1>4. \A n : Waiting(n)' = Waiting(n)
    BY <1>1, <1>2 DEF Waiting
  <1>5. CASE setting' = t.sequence /\ Continue(h, r) /\ faults' = faults
    <2>1. r.pc = "assign"
      BY DEF Awaits
    <2> HIDE DEF r
    <2>2. ASSUME NEW n \in 0..(MaxTxSeq - 1) PROVE Load(n)' \in Int /\ Load(n)' <= Load(n)
      <3>1. Open(n)' <= Open(n)
        BY <1>1, <1>5, <2>1, OpenOf
      <3> QED
        BY <1>1, <1>4, <3>1, LoadKept
    <2>3. faults' <= faults
      BY <1>5 DEF RefInv, ServerInv, RouterInv, TypeOK
    <2> QED
      BY <1>2, <1>3, <2>2, <2>3, RepeatingKept DEF Repeating
  <1>6. CASE setting' = setting /\ Continue(h, Idle) /\ Fault("setSetting")
    <2>1. ASSUME NEW n \in 0..(MaxTxSeq - 1) PROVE Load(n)' \in Int /\ Load(n)' <= Load(n) + 2
      BY <1>1, <1>4, LoadOfFault
    <2> QED
      BY <1>2, <1>3, <1>6, <2>1, FaultCounts, RepeatingKept DEF Repeating
  <1> QED
    BY <1>5, <1>6 DEF SetSequence

LEMMA RequestRepeats ==
    ASSUME OneClient, RefInv, RefInv', Repeating, Arrive \/ Serve
    PROVE  Repeating'
  <1>1. UNCHANGED <<pipeVars, stopVars>>
    BY DEF Arrive, Serve
  <1>2. \A f : f \in Int /\ faults' = f => faults' <= f
    OBVIOUS
  <1>3. faults \in Int
    BY DEF RefInv, ServerInv, RouterInv, TypeOK
  <1>4. CASE Arrive
    <2>1. PICK h \in Handlers, t \in Tx : Post(h, t)
      BY <1>4 DEF Arrive
    <2> DEFINE r == IF lastReceiveSequence = -1 THEN Awaits("load", t)
                    ELSE Checked(t, lastReceiveSequence)
    <2>2. r.pc # "set" /\ request[h].pc # "set"
      BY <2>1 DEF Post, Checked, Awaits, Idle
    <2>3. Continue(h, r) /\ UNCHANGED <<setting, txs, faults>>
      BY <2>1 DEF Post
    <2> HIDE DEF r
    <2> QED
      BY <1>1, <1>2, <1>3, <2>2, <2>3, QuietRequestRepeats
  <1>5. ASSUME NEW h \in Handlers, LoadRead(h) PROVE Repeating'
    <2>1. PICK r : Continue(h, r) /\ r.pc # "set"
      BY <1>5 DEF LoadRead, Idle
    <2>2. UNCHANGED <<setting, txs>> /\ request[h].pc # "set" /\ faults' <= faults
      BY <1>2, <1>3, <1>5, FaultCounts DEF LoadRead
    <2> QED
      BY <1>1, <2>1, <2>2, QuietRequestRepeats
  <1>6. ASSUME NEW h \in Handlers, LoadReturn(h) PROVE Repeating'
    <2>1. PICK r : Continue(h, r) /\ r.pc # "set"
      BY <1>6 DEF LoadReturn, Checked, Awaits, Idle
    <2>2. UNCHANGED <<setting, txs, faults>> /\ request[h].pc # "set"
      BY <1>6 DEF LoadReturn
    <2> QED
      BY <1>1, <1>2, <1>3, <2>1, <2>2, QuietRequestRepeats
  <1>7. ASSUME NEW h \in Handlers, Answer(h) PROVE Repeating'
    <2>1. UNCHANGED <<setting, txs, faults>> /\ request[h].pc # "set" /\ Continue(h, Idle)
      BY <1>7 DEF Answer
    <2>2. Idle.pc # "set"
      BY DEF Idle
    <2> QED
      BY <1>1, <1>2, <1>3, <2>1, <2>2, QuietRequestRepeats
  <1> QED
    BY <1>1, <1>4, <1>5, <1>6, <1>7, PoolAddRepeats, SetSequenceRepeats DEF Serve

(* The row that Node inserts has what it held. *)
LEMMA WorkInsertRepeats ==
    ASSUME RefInv, RefInv', Repeating, WorkInsert, UNCHANGED <<routerVars, stopVars>>
    PROVE  Repeating'
  <1>1. /\ UNCHANGED <<txs, faults, nodeTxs, setting, request, stopPc>>
        /\ nodePc = "ipfs" /\ nodePc' = "remove"
    BY DEF WorkInsert, routerVars, stopVars
  <1>2. PICK row : row.CID = nodeTxs /\ ledger' = Append(ledger, row)
    BY WorkInsertInv DEF RefInv
  <1>3. /\ Len(ledger) \in Nat /\ Len(ledger') = Len(ledger) + 1
        /\ ledger'[Len(ledger) + 1].CID = nodeTxs
        /\ \A i \in 1..Len(ledger) : ledger'[i] = ledger[i]
    BY <1>2, LedgerGrows DEF RefInv, ServerInv
  <1>4. ASSUME NEW n \in 0..(MaxTxSeq - 1) PROVE Load(n)' \in Int /\ Load(n)' <= Load(n)
    <2>1. Open(n)' = Open(n)
      BY <1>1 DEF Open
    <2>2. Waiting(n)' = Waiting(n) \ nodeTxs
      BY <1>1 DEF Waiting, Held, Leaving
    <2> DEFINE w == Cardinality(Waiting(n)')
               p == Cardinality(Places(n)')
    <2>3. Load(n)' = p + w + Open(n)
      BY <2>1 DEF Load
    <2>4. CASE \E t \in nodeTxs : t.sequence = n
      <3>1. PICK t \in nodeTxs : t.sequence = n
        BY <2>4
      <3>2. t \in Waiting(n)
        BY <1>1, <3>1 DEF Waiting, Held
      <3>3. w \in Nat /\ w <= Cardinality(Waiting(n)) - 1
        BY <2>2, <3>1, <3>2, LoadTypes, Sizes
      <3>4. Places(n)' \subseteq Places(n) \cup {Len(ledger) + 1}
        BY <1>3 DEF Places
      <3>5. p \in Nat /\ p <= Cardinality(Places(n)) + 1
        BY <3>4, LoadTypes, Sizes
      <3> HIDE DEF w, p
      <3> QED
        BY <2>3, <3>3, <3>5, LoadTypes DEF Load
    <2>5. CASE ~ \E t \in nodeTxs : t.sequence = n
      <3>1. Places(n)' \subseteq Places(n)
        BY <1>3, <2>5 DEF Places
      <3>2. /\ p \in Nat /\ p <= Cardinality(Places(n))
            /\ w \in Nat /\ w <= Cardinality(Waiting(n))
        BY <2>2, <3>1, LoadTypes, Sizes
      <3> HIDE DEF w, p
      <3> QED
        BY <2>3, <3>2, LoadTypes DEF Load
    <2> QED
      BY <2>4, <2>5
  <1>5. OneRow' /\ stopPc' # "close"
    BY <1>1 DEF Repeating, OneRow
  <1>6. IsFiniteSet(Held)'
    BY <1>1, FS_EmptySet DEF Held
  <1>7. faults' <= faults
    BY <1>1 DEF RefInv, ServerInv, RouterInv, TypeOK
  <1> QED
    BY <1>4, <1>5, <1>6, <1>7, RepeatingKept

(* Node's other steps let nothing else wait, unless one fails. *)
LEMMA NodeQuietRepeats ==
    ASSUME RefInv, RefInv', Repeating, ledger' = ledger, UNCHANGED <<routerVars, stopPc>>,
           stopPc = "close" => nodePc' = "idle",
           txs' \subseteq txs, IsFiniteSet(Held)',
           \/ faults' <= faults /\ \A n : Waiting(n)' \subseteq Waiting(n)
           \/ faults' = faults - 1 /\ Held' = {}
    PROVE  Repeating'
  <1>1. OneRow'
    BY DEF OneRow, Repeating
  <1>2. \A n : Open(n)' = Open(n)
    BY DEF Open, routerVars
  <1>3. CASE faults' <= faults /\ \A n : Waiting(n)' \subseteq Waiting(n)
    <2>1. \A n \in 0..(MaxTxSeq - 1) : Open(n)' <= Open(n)
      BY <1>2, LoadTypes
    <2>2. \A n \in 0..(MaxTxSeq - 1) : Load(n)' \in Int /\ Load(n)' <= Load(n)
      BY <1>3, <2>1, LoadKept
    <2> QED
      BY <1>1, <1>3, <2>2, RepeatingKept
  <1>4. CASE faults' = faults - 1 /\ Held' = {}
    <2>1. ASSUME NEW n \in 0..(MaxTxSeq - 1)
          PROVE  \E t : Waiting(n)' \subseteq Waiting(n) \cup {t}
      <3>1. Waiting(n)' \subseteq txs' /\ \A t \in Waiting(n)' : t.sequence = n
        BY <1>4 DEF Waiting
      <3> QED
        BY <1>1, <3>1 DEF OneRow
    <2>2. \A n \in 0..(MaxTxSeq - 1) : Load(n)' \in Int /\ Load(n)' <= Load(n) + 2
      BY <2>1, LoadOfFault
    <2> QED
      BY <1>1, <1>4, <2>2, RepeatingKept
  <1> QED
    BY <1>3, <1>4

LEMMA NodeRepeats ==
    ASSUME RefInv, RefInv', Repeating, NodeStep
    PROVE  Repeating'
  <1>1. /\ UNCHANGED routerVars /\ UNCHANGED stopVars /\ NodeNext
        /\ stopPc = "none" \/ nodePc # "idle"
    BY DEF NodeStep
  <1>2. stopPc # "close" /\ stopPc' = stopPc
    BY <1>1 DEF Repeating, stopVars
  <1>3. faults \in Int
    BY DEF RefInv, ServerInv, RouterInv, TypeOK
  <1>4. \A f : f \in Int /\ faults' = f => faults' <= f
    OBVIOUS
  <1>5. IsFiniteSet(txs) /\ IsFiniteSet(Held) /\ IsFiniteSet({})
    BY FS_EmptySet DEF RefInv, Settling, Repeating
  <1>6. CASE WorkInsert
    BY <1>1, <1>6, WorkInsertRepeats
  <1>7. CASE WorkGet
    <2>1. /\ UNCHANGED <<txs, ledger, faults>> /\ nodePc = "idle" /\ nodePc' = "get"
          /\ nodeTxs' \subseteq txs
      BY <1>7 DEF WorkGet, SelectTxByLength, storageVars
    <2>2. \A n : Waiting(n)' \subseteq Waiting(n)
      BY <2>1 DEF Waiting, Held, Leaving
    <2>3. IsFiniteSet(Held)'
      <3>1. Held' \subseteq txs
        BY <2>1 DEF Held
      <3> QED
        BY <1>5, <3>1, FS_Subset
    <2> QED
      BY <1>1, <1>2, <1>3, <1>4, <2>1, <2>2, <2>3, NodeQuietRepeats
  <1>8. CASE WorkCreate
    <2>1. /\ UNCHANGED <<txs, ledger, faults, nodeTxs>> /\ nodePc = "get" /\ nodePc' = "ipfs"
      BY <1>8 DEF WorkCreate, storageVars
    <2>2. Held' = Held /\ \A n : Waiting(n)' \subseteq Waiting(n)
      BY <2>1 DEF Waiting, Held, Leaving
    <2> QED
      BY <1>1, <1>2, <1>3, <1>4, <1>5, <2>1, <2>2, NodeQuietRepeats
  <1>9. CASE WorkFail
    <2>1. /\ UNCHANGED <<txs, ledger>> /\ nodePc = "ipfs" /\ nodePc' = "idle"
          /\ faults' <= faults
      BY <1>3, <1>4, <1>9, FaultCounts DEF WorkFail, storageVars
    <2>2. Held' = {} /\ \A n : Waiting(n)' \subseteq Waiting(n)
      BY <2>1 DEF Waiting, Held, Leaving
    <2> QED
      BY <1>1, <1>2, <1>5, <2>1, <2>2, NodeQuietRepeats
  <1>10. CASE WorkRemove
    <2>1. PICK t \in nodeTxs :
             /\ txs' = txs \ {t} /\ nodeTxs' = nodeTxs \ {t}
             /\ nodePc' = IF nodeTxs = {t} THEN "idle" ELSE "remove"
      BY <1>10 DEF WorkRemove, DeleteTxByHash
    <2>2. UNCHANGED <<ledger, faults>> /\ nodePc = "remove"
      BY <1>10 DEF WorkRemove
    <2>3. Held' = {} /\ txs' \ Leaving' \subseteq txs \ Leaving
      <3>1. CASE nodeTxs = {t}
        BY <2>1, <2>2, <3>1 DEF Held, Leaving
      <3>2. CASE nodeTxs # {t}
        BY <2>1, <2>2, <3>2 DEF Held, Leaving
      <3> QED
        BY <3>1, <3>2
    <2>4. \A n : Waiting(n)' \subseteq Waiting(n)
      BY <2>3 DEF Waiting
    <2> QED
      BY <1>1, <1>2, <1>3, <1>4, <1>5, <2>1, <2>2, <2>3, <2>4, NodeQuietRepeats
  <1>11. CASE WorkRemoveFail
    <2>1. /\ UNCHANGED <<txs, ledger>> /\ nodePc' = "idle" /\ faults' = faults - 1
      BY <1>11, FaultCounts DEF WorkRemoveFail, storageVars
    <2>2. Held' = {}
      BY <2>1 DEF Held
    <2> QED
      BY <1>1, <1>2, <1>5, <2>1, <2>2, NodeQuietRepeats
  <1>12. CASE OnStart
    <2>1. UNCHANGED <<txs, ledger, nodePc, nodeTxs>> /\ faults' <= faults
      BY <1>3, <1>4, <1>12, FaultCounts
      DEF OnStart, OnStartStorage, OnStartContract, storageVars
    <2>2. Held' = Held /\ \A n : Waiting(n)' \subseteq Waiting(n)
      BY <2>1 DEF Waiting, Held, Leaving
    <2> QED
      BY <1>1, <1>2, <1>5, <2>1, <2>2, NodeQuietRepeats
  <1>13. CASE WorkCreateThrows
    <2>1. /\ UNCHANGED <<txs, ledger, faults>> /\ nodePc = "get" /\ nodePc' = "idle"
      BY <1>13 DEF WorkCreateThrows, storageVars
    <2>2. Held' = {} /\ \A n : Waiting(n)' \subseteq Waiting(n)
      BY <2>1 DEF Waiting, Held, Leaving
    <2> QED
      BY <1>1, <1>2, <1>3, <1>4, <1>5, <2>1, <2>2, NodeQuietRepeats
  <1> QED
    BY <1>1, <1>6, <1>7, <1>8, <1>9, <1>10, <1>11, <1>12, <1>13 DEF NodeNext, Work

(* The other components have no part in it, and a new process takes up     *)
(* again what the old one was removing.                                    *)
LEMMA OthersRepeat ==
    ASSUME RefInv, RefInv', Repeating, SendStep \/ ChainStep \/ Stop \/ StopOnStart \/ StopClose
    PROVE  Repeating'
  <1>1. UNCHANGED <<routerVars, txs, ledger, nodePc, nodeTxs>>
    BY OtherStepInv DEF RefInv
  <1>2. faults \in Int
    BY DEF RefInv, ServerInv, RouterInv, TypeOK
  <1>3. faults' <= faults
    <2>1. faults' = faults \/ \E kind \in Faults : Fault(kind)
      <3>1. CASE SendStep
        BY <3>1 DEF SendStep, Send, SendRead, SendNoBlock, SendSelect, SendAdd, SendAddFail, SendResync,
                    SendResyncFail, SendPrune, SendPruneFail, Fault
      <3>2. CASE ChainStep
        BY <3>2 DEF ChainStep, Chain, Mine, Drop, Fault
      <3>3. CASE Stop \/ StopOnStart \/ StopClose
        BY <3>3 DEF Stop, StopOnStart, StopClose, vars, Fault
      <3> QED
        BY <3>1, <3>2, <3>3
    <2> QED
      BY <1>2, <2>1, FaultCounts
  <1>4. /\ Held' = Held
        /\ \A n : Waiting(n)' \subseteq Waiting(n) /\ Open(n)' = Open(n)
    BY <1>1 DEF Held, Leaving, Waiting, Open, routerVars
  <1>5. \A n \in 0..(MaxTxSeq - 1) : Open(n)' <= Open(n)
    BY <1>4, LoadTypes
  <1>6. \A n \in 0..(MaxTxSeq - 1) : Load(n)' \in Int /\ Load(n)' <= Load(n)
    BY <1>1, <1>4, <1>5, LoadKept
  <1>7. OneRow'
    BY <1>1 DEF OneRow, Repeating
  <1>8. stopPc' = "close" => nodePc' = "idle"
    <2>1. CASE StopClose
      BY <1>1, <2>1 DEF StopClose
    <2>2. CASE SendStep \/ ChainStep \/ Stop \/ StopOnStart
      <3>1. stopPc' = stopPc \/ stopPc' # "close"
        BY <2>2 DEF SendStep, ChainStep, Stop, StopOnStart, stopVars
      <3> QED
        BY <1>1, <3>1 DEF Repeating
    <2> QED
      BY <2>1, <2>2
  <1> QED
    BY <1>3, <1>4, <1>6, <1>7, <1>8, RepeatingKept DEF Repeating

LEMMA NewProcessRepeats ==
    ASSUME RefInv, RefInv', Repeating, ServerCrash \/ StopOver
    PROVE  Repeating'
  <1>1. /\ nodePc' = "idle" /\ request' = [h \in Handlers |-> Idle]
        /\ UNCHANGED <<setting, txs, ledger>>
    BY NewProcessInv DEF RefInv, storageVars
  <1>2. stopPc' # "close"
    BY DEF ServerCrash, StopOver, NewProcess
  <1>3. Held' = {} /\ Leaving' = {} /\ IsFiniteSet(Held')
    BY <1>1, FS_EmptySet DEF Held, Leaving
  <1>4. OneRow'
    BY <1>1 DEF OneRow, Repeating
  <1>5. CASE ServerCrash
    <2>1. faults' = faults - 1
      BY <1>5, FaultCounts DEF ServerCrash
    <2>2. ASSUME NEW n \in 0..(MaxTxSeq - 1)
          PROVE  \E t : Waiting(n)' \subseteq Waiting(n) \cup {t}
      <3>1. Waiting(n)' \subseteq txs' /\ \A t \in Waiting(n)' : t.sequence = n
        BY <1>3 DEF Waiting
      <3> QED
        BY <1>4, <3>1 DEF OneRow
    <2>3. \A n \in 0..(MaxTxSeq - 1) : Load(n)' \in Int /\ Load(n)' <= Load(n) + 2
      BY <1>1, <2>2, LoadOfFault
    <2> QED
      BY <1>2, <1>3, <1>4, <2>1, <2>3, RepeatingKept
  <1>6. CASE StopOver
    <2>1. /\ faults' = faults /\ stopPc = "close" /\ \A h \in Handlers : request[h] = Idle
      BY <1>6 DEF StopOver
    <2>2. nodePc = "idle" /\ faults' <= faults
      BY <2>1 DEF Repeating, RefInv, ServerInv, RouterInv, TypeOK
    <2>3. \A n : Waiting(n)' \subseteq Waiting(n) /\ Open(n)' = Open(n)
      BY <1>1, <1>3, <2>1, <2>2 DEF Waiting, Held, Leaving, Open, Idle
    <2>4. \A n \in 0..(MaxTxSeq - 1) : Open(n)' <= Open(n)
      BY <2>3, LoadTypes
    <2>5. \A n \in 0..(MaxTxSeq - 1) : Load(n)' \in Int /\ Load(n)' <= Load(n)
      BY <1>1, <2>3, <2>4, LoadKept
    <2> QED
      BY <1>2, <1>3, <1>4, <2>2, <2>5, RepeatingKept
  <1> QED
    BY <1>5, <1>6

LEMMA RepeatingInit == ServerInit => Repeating
  <1> SUFFICES ASSUME ServerInit PROVE Repeating
    OBVIOUS
  <1>1. /\ txs = {} /\ ledger = <<>> /\ nodePc = "idle" /\ stopPc = "none"
        /\ faults = MaxFaults /\ MaxFaults \in Nat
    BY FaultsAssumption DEF ServerInit, Init, StorageInit, NodeInit, FaultsInit
  <1>2. Held = {} /\ Leaving = {}
    BY <1>1 DEF Held, Leaving
  <1>3. ASSUME NEW n \in 0..(MaxTxSeq - 1) PROVE Load(n) <= 1 + 2 * (MaxFaults - faults)
    <2>1. Places(n) = {} /\ Waiting(n) = {}
      BY <1>1, <1>2 DEF Places, Waiting
    <2>2. Open(n) \in {0, 1}
      BY DEF Open
    <2> QED
      BY <1>1, <2>1, <2>2, FS_EmptySet DEF Load
  <1> QED
    BY <1>1, <1>2, <1>3, FS_EmptySet DEF Repeating, OneRow

(* RepeatsNeedFaults: a number is in one block, and in up to two more for  *)
(* each fault, for one request at a time and any number of faults.         *)
THEOREM ServerRepeatsNeedFaults == ASSUME OneClient PROVE ServerSpec => []RepeatsNeedFaults
  <1>1. RefInv /\ RefInv' /\ Repeating /\ [ServerNext]_serverVars => Repeating'
    <2>1. ASSUME RefInv, Repeating, UNCHANGED serverVars PROVE Repeating'
      <3>1. UNCHANGED <<txs, ledger, nodePc, nodeTxs, stopPc, setting, request, faults>>
        BY <2>1 DEF serverVars, vars, routerVars, storageVars, pipeVars, nodeVars, stopVars
      <3>2. Held' = Held /\ OneRow' /\ \A n : Load(n)' = Load(n)
        BY <2>1, <3>1 DEF Held, Leaving, OneRow, Load, Places, Waiting, Open, Repeating
      <3> QED
        BY <2>1, <3>1, <3>2 DEF Repeating
    <2> QED
      BY <2>1, RequestRepeats, NodeRepeats, OthersRepeat, NewProcessRepeats DEF ServerNext
  <1>2. RefInv /\ Repeating => RepeatsNeedFaults
    <2> SUFFICES ASSUME RefInv, Repeating, NEW n \in 0..(MaxTxSeq - 1)
                 PROVE  Cardinality(Places(n)) <= 1 + 2 * (MaxFaults - faults)
      BY DEF RepeatsNeedFaults, Places
    <2>1. Load(n) <= 1 + 2 * (MaxFaults - faults)
      BY DEF Repeating
    <2>2. faults \in Int /\ MaxFaults \in Int
      BY FaultsAssumption DEF RefInv, ServerInv, RouterInv, TypeOK
    <2> QED
      BY <2>1, <2>2, LoadTypes DEF Load
  <1> QED
    BY <1>1, <1>2, RepeatingInit, OneRequestInvariant, PTL DEF ServerSpec
=============================================================================
