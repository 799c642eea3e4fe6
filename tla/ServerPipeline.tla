--------------------------- MODULE ServerPipeline ---------------------------
(***************************************************************************)
(* The whole server (service/RollupServer.ts): the HTTP interface and the  *)
(* two schedulers over one database, with the contract.  A request may     *)
(* stand between any two of its steps while Node makes a block of what the *)
(* pool holds, and a SIGINT stops Node while its work() runs.              *)
(***************************************************************************)
EXTENDS RollupRouter, SendBlock

VARIABLES
    stopPc,     \* stop: "none", onStart of Node awaits "storage" or "contract",
                \* "wait" for the work() in progress, "close"
    stopInfo,   \* stop: info_storage
    offered,    \* history: the transactions that ever came into the pool
    settled     \* history: by number, the one whose number was written

stopVars == <<stopPc, stopInfo>>
pipeVars == <<contractVars, nodeVars, sendVars, chainVars>>
serverVars == <<vars, pipeVars, stopVars, offered, settled>>

ServerInit ==
    /\ Init
    /\ RollUpInit
    /\ NodeInit
    /\ SendInit
    /\ ChainInit
    /\ stopPc = "none"
    /\ stopInfo = {}
    /\ offered = {}
    /\ settled = <<>>

-----------------------------------------------------------------------------
(* The web service is opened when the schedulers have started, and stop()  *)
(* closes it last.                                                         *)
Arrive ==
    /\ startPc = "done"
    /\ stopPc # "close"
    /\ \E h \in Handlers, t \in Tx : Post(h, t)
    /\ UNCHANGED <<pipeVars, stopVars, offered, settled>>

(* A request in service goes on. *)
Serve ==
    /\ \E h \in Handlers :
         \/ LoadRead(h) /\ UNCHANGED <<offered, settled>>
         \/ LoadReturn(h) /\ UNCHANGED <<offered, settled>>
         \/ PoolAdd(h) /\ offered' = offered \cup (txs' \ txs) /\ settled' = settled
         \/ /\ SetSequence(h)
            /\ settled' = IF setting' = setting THEN settled ELSE Append(settled, request[h].tx)
            /\ offered' = offered
         \/ Answer(h) /\ UNCHANGED <<offered, settled>>
    /\ UNCHANGED <<pipeVars, stopVars>>

(* Faulty variant: the timer goes on while stop() awaits onStart.          *)
NodeStepAfterStop ==
    /\ stopPc \in {"none", "storage", "contract", "wait"} \/ nodePc # "idle"
    /\ NodeNext
    /\ UNCHANGED <<routerVars, sendVars, chainVars, stopVars, offered, settled>>

(* Node ticks until it is stopped; the work() in progress goes on. *)
NodeStep ==
    /\ stopPc = "none" \/ nodePc # "idle"
    /\ NodeNext
    /\ UNCHANGED <<routerVars, sendVars, chainVars, stopVars, offered, settled>>

(* SendBlock is stopped when Node.stop() has returned. *)
SendStep ==
    /\ stopPc \notin {"wait", "close"} \/ sendPc # "idle"
    /\ Send
    /\ UNCHANGED <<routerVars, stopVars, offered, settled>>

ChainStep == Chain /\ UNCHANGED <<routerVars, stopVars, offered, settled>>

-----------------------------------------------------------------------------
(* SIGINT: stop() of Node calls onStart, of all methods. *)
Stop ==
    /\ startPc = "done"
    /\ stopPc = "none"
    /\ Fault("stop")
    /\ stopPc' = "storage"
    /\ UNCHANGED <<routerVars, storageVars, pipeVars, stopInfo, offered, settled>>

(* Its two reads, and what it assigns, also under a work() in progress. *)
StopOnStart ==
    /\ \/ /\ stopPc = "storage"
          /\ stopPc' = "contract"
          /\ \/ stopInfo' = InfoByStorage /\ faults' = faults
             \/ stopInfo' = {} /\ Fault("dbRead")
          /\ UNCHANGED <<prev_hash, prev_height, heightType>>
       \/ /\ stopPc = "contract"
          /\ stopPc' = "wait"
          /\ stopInfo' = {}
          /\ \/ SetPrevious(Newest(stopInfo, InfoByContract)) /\ faults' = faults
             \/ SetPrevious(stopInfo) /\ Fault("rpcRead")
    /\ UNCHANGED <<routerVars, storageVars, contractVars, startVars, nodePc, nodeTxs, nodeBlock,
                   sendVars, chainVars, offered, settled>>

(* stop() has waited for the work() of both schedulers, and closes the web *)
(* service.                                                                *)
StopClose ==
    /\ stopPc = "wait"
    /\ nodePc = "idle"
    /\ sendPc = "idle"
    /\ stopPc' = "close"
    /\ UNCHANGED <<vars, pipeVars, stopInfo, offered, settled>>

(* A new process after a crash, or after close() has waited for the        *)
(* requests in service.                                                    *)
NewProcess ==
    /\ lastReceiveSequence' = -1
    /\ request' = [h \in Handlers |-> Idle]
    /\ NodeRestart
    /\ SendRestart
    /\ stopPc' = "none"
    /\ stopInfo' = {}
    /\ UNCHANGED <<setting, acked, storageVars, contractVars, chainVars, offered, settled>>

ServerCrash == Fault("crash") /\ NewProcess

StopOver ==
    /\ stopPc = "close"
    /\ \A h \in Handlers : request[h] = Idle
    /\ faults' = faults
    /\ NewProcess

ServerNext ==
    \/ Arrive \/ Serve \/ NodeStep \/ SendStep \/ ChainStep
    \/ Stop \/ StopOnStart \/ StopClose \/ StopOver \/ ServerCrash

ServerSpec == ServerInit /\ [][ServerNext]_serverVars

(* Express serves a request to its end, the schedulers tick, what is       *)
(* awaited returns, the chain mines the next nonce, stop() goes on, and    *)
(* somebody starts the server again.  Nobody has to send a request.        *)
ServerFairSpec ==
    /\ ServerSpec
    /\ WF_serverVars(Serve)
    /\ WF_serverVars(NodeStep)
    /\ WF_serverVars(SendStep)
    /\ WF_serverVars(Mine /\ UNCHANGED <<routerVars, stopVars, offered, settled>>)
    /\ WF_serverVars(StopOnStart)
    /\ WF_serverVars(StopClose)
    /\ WF_serverVars(StopOver)

-----------------------------------------------------------------------------
(* The variables have the types their declarations give them. *)
ServerTypeOK ==
    /\ TypeOK
    /\ RollUpTypeOK
    /\ NodeTypeOK
    /\ SendTypeOK
    /\ stopPc \in {"none", "storage", "contract", "wait", "close"}
    /\ stopInfo \subseteq [height : Uint64, hash : Hash, type : {"number"}]
    /\ offered \subseteq Tx
    /\ settled \in Seq(Tx)

(* A transaction answered with 200 is in the pool, in a row of the table   *)
(* blocks or in the contract: neither a later request under its number nor *)
(* block making or pruning under the requests takes it away                *)
(* (RollupRouter.ts 285-288, Node.ts 207-221, SendBlock.ts 169-171).       *)
AckedKept ==
    \A t \in acked :
        \/ t \in txs
        \/ \E row \in blocks : t \in row.CID
        \/ \E j \in 1..Len(blockArray) : t \in blockArray[j].CID

(* A number comes into the chain once unless something fails.  A crash may *)
(* cost two more blocks: Node puts what it had not removed into a block    *)
(* again, and the client, whose request was not answered, sends the same   *)
(* transaction or another one under the same number after Node has taken   *)
(* the first (RollupRouter.ts 285-286).                                    *)
RepeatsNeedFaults ==
    \A n \in 0..(MaxTxSeq - 1) :
        Cardinality({j \in 1..Len(ledger) : \E t \in ledger[j].CID : t.sequence = n})
            <= 1 + 2 * (MaxFaults - faults)

(* A block in the making is the one after the last, whatever stop() has    *)
(* assigned to prev_hash and prev_height under it (Scheduler.ts 86).       *)
BuildsOnLast ==
    nodePc \in {"get", "ipfs"} =>
        /\ prev_height = Len(ledger) - 1
        /\ prev_hash = Len(ledger)
        /\ \A b \in nodeBlock : b.height = Len(ledger) /\ b.prevBlock = Len(ledger)

(* The blocks over all restarts, crashes and stops are one chain, and the  *)
(* contract holds a prefix of it.                                          *)
Pipeline == INSTANCE BlockPipeline WITH received <- settled

OneChain == Pipeline!NoFork /\ Pipeline!ContractIsPrefix

(* What was settled is published in the end: again and again nothing is    *)
(* outstanding, after whatever crash, stop or error.  The exception is a   *)
(* Node that is left with the number which it took from the database when  *)
(* it started ahead of the contract (LastBlockInfo.ts 39, Node.ts 194).    *)
SettledPublished ==
    \A n \in 1..Len(settled) : \E j \in 1..Len(blockArray) : settled[n] \in blockArray[j].CID

PublishedOrStuck == []<>SettledPublished \/ <>[](heightType = "number")

(* The table blocks is emptied again and again, up to the newest row,      *)
(* also when Node makes no more blocks.                                    *)
EventuallyEmptied == []<>(\A r, s \in blocks : r = s)

(* For one request at a time the server implements the abstract ledger.    *)
Abstract ==
    INSTANCE SequencedLedger WITH contents <- [i \in 1..Len(ledger) |-> ledger[i].CID]

ImplementsSequencedLedger == Abstract!Spec
=============================================================================
