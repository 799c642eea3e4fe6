------------------------------ MODULE SendBlock ------------------------------
(***************************************************************************)
(* The scheduler that sends the blocks of the database to the contract     *)
(* (service/scheduler/SendBlock.ts), with the signer it sends them with    *)
(* (NonceManager of ethers) and the chain that mines what was sent.        *)
(*                                                                         *)
(* The call of add() returns when the chain has taken the transaction, and *)
(* nobody waits for it to be mined: a later tick may find the contract     *)
(* unchanged and send the same block again.                                *)
(***************************************************************************)
EXTENDS Node

CONSTANT MaxPending   \* bound: the transactions that the chain's pool holds

ASSUME SendBlockAssumption == MaxPending \in Nat

VARIABLES
    sendPc,     \* work: "idle", or the step that comes next
    sendLast,   \* work: last_height_org, as the contract answered
    sendData,   \* work: data, {} for null and undefined, or {row}
    nonce,      \* NonceManager: {} before its first use, or {next nonce}
    mempool,    \* the chain: transactions sent and not mined yet
    mined       \* the chain: the transactions mined, the account's nonce

sendVars == <<sendPc, sendLast, sendData, nonce>>
chainVars == <<mempool, mined>>

SendInit ==
    /\ sendPc = "idle"
    /\ sendLast = Uint64Max
    /\ sendData = {}
    /\ nonce = {}

ChainInit ==
    /\ mempool = {}
    /\ mined = 0

(* A process that is started again. *)
SendRestart ==
    /\ sendPc' = "idle"
    /\ sendLast' = Uint64Max
    /\ sendData' = {}
    /\ nonce' = {}

-----------------------------------------------------------------------------
(* work().  RollupServer.start starts this scheduler after the other one   *)
(* has started.                                                            *)

(* A tick in a new period asks the contract for its last height. *)
SendRead ==
    /\ startPc = "done"
    /\ sendPc = "idle"
    /\ sendLast' = lastHeight
    /\ sendPc' = "select"
    /\ UNCHANGED <<sendData, nonce, chainVars, nodeVars, storageVars, contractVars, faults>>

(* No block in the database: work() returns. *)
SendNoBlock ==
    /\ sendPc = "select"
    /\ LastRow = {}
    /\ sendPc' = "idle"
    /\ UNCHANGED <<sendLast, sendData, nonce, chainVars, nodeVars, storageVars, contractVars, faults>>

(* Faulty variant: the newest block, in place of the next one.             *)
NextToSendNewest == {row \in LastRow : sendLast = Uint64Max \/ row.height > sendLast}

(* The block after the contract's last, if the database is ahead of it.    *)
(* The last height and the row come from two reads, between which rows     *)
(* are only added, above the height the second one asks for.               *)
NextToSend ==
    IF sendLast = Uint64Max THEN SelectBlockByHeight(0)
    ELSE {row \in SelectBlockByHeight(sendLast + 1) : \A r \in LastRow : r.height > sendLast}

SendSelect ==
    /\ sendPc = "select"
    /\ LastRow # {}
    /\ sendData' = NextToSend
    /\ sendPc' = IF NextToSend = {} THEN "prune" ELSE "add"
    /\ UNCHANGED <<sendLast, nonce, chainVars, nodeVars, storageVars, contractVars, faults>>

-----------------------------------------------------------------------------
(* The call of add() with the manager's signer. *)

Nonces == {m.nonce : m \in mempool}

(* The transactions that follow the mined ones without a gap can be mined, *)
(* and getTransactionCount("pending") is the nonce after them.             *)
Executable(n) == n >= mined /\ mined..(n - 1) \subseteq Nonces
PendingCount == {n \in mined..(mined + MaxPending) : Executable(n) /\ n \notin Nonces}

(* The nonce of the next transaction; the chain is asked for it once.      *)
NextNonce == IF nonce = {} THEN PendingCount ELSE nonce

(* The signer counts on, before the transaction is sent.  The bound is     *)
(* above every nonce that MaxFaults lost ones and a full pool lead to.     *)
NonceBound == mined + MaxPending + MaxFaults + 1
Counted(n) == IF n < NonceBound THEN {n + 1} ELSE {n}

(* The chain takes the transaction, instead of one with the same nonce.    *)
(* One that leaves a gap is queued, and silently left out when the pool is *)
(* full.                                                                   *)
HasRoom(n) == n \in Nonces \/ Cardinality(mempool) < MaxPending

Submit(n, row) ==
    /\ n >= mined
    /\ AddAccepted(row)   \* it was called before, to estimate its gas
    /\ \/ /\ HasRoom(n)
          /\ mempool' = {m \in mempool : m.nonce # n} \cup {[nonce |-> n, header |-> row]}
       \/ /\ ~HasRoom(n) /\ ~Executable(n)
          /\ mempool' = mempool

(* The chain refuses it: the nonce is used, the pool is full, or the       *)
(* contract does not accept the call, now or after what is executable.     *)
Refuse(n, row) ==
    /\ \/ n < mined \/ n \in Nonces
       \/ Executable(n) /\ ~HasRoom(n)
       \/ ~AddAccepted(row)
       \/ \E m \in mempool : Executable(m.nonce) /\ m.header.height = row.height
    /\ mempool' = mempool

(* The chain has taken it. *)
SendAdd ==
    /\ sendPc = "add"
    /\ \E row \in sendData, n \in NextNonce : Submit(n, row) /\ nonce' = Counted(n)
    /\ sendPc' = "prune"
    /\ UNCHANGED <<sendLast, sendData, mined, nodeVars, storageVars, contractVars, faults>>

(* add() throws: the transaction was refused, or the chain could not be    *)
(* reached any more, before or after it took the transaction.              *)
SendAddFail ==
    /\ sendPc = "add"
    /\ \E row \in sendData, n \in NextNonce :
         /\ nonce' = Counted(n)
         /\ \/ Refuse(n, row) /\ faults' = faults
            \/ Fault("send") /\ (mempool' = mempool \/ Submit(n, row))
    /\ sendPc' = "resync"
    /\ UNCHANGED <<sendLast, sendData, mined, nodeVars, storageVars, contractVars>>

(* Faulty variant: the signer is not set back.                             *)
SendResyncNot ==
    /\ sendPc = "resync"
    /\ nonce' = nonce
    /\ sendPc' = "prune"
    /\ UNCHANGED <<sendLast, sendData, chainVars, nodeVars, storageVars, contractVars, faults>>

(* The catch block: the signer goes on from the number of mined ones. *)
SendResync ==
    /\ sendPc = "resync"
    /\ nonce' = {mined}
    /\ sendPc' = "prune"
    /\ UNCHANGED <<sendLast, sendData, chainVars, nodeVars, storageVars, contractVars, faults>>

(* That read fails as well: the outer catch ends work(), without pruning. *)
SendResyncFail ==
    /\ sendPc = "resync"
    /\ Fault("resync")
    /\ sendPc' = "idle"
    /\ sendData' = {}
    /\ UNCHANGED <<sendLast, nonce, chainVars, nodeVars, storageVars, contractVars>>

(* Faulty variant: the height of an empty contract is not tested.          *)
SendPruneEmpty ==
    /\ sendPc = "prune"
    /\ DeleteBlockByHeight(sendLast)
    /\ sendPc' = "idle"
    /\ sendData' = {}
    /\ UNCHANGED <<sendLast, nonce, chainVars, nodeVars, txs, ledger, contractVars, faults>>

(* Delete the blocks below the height that the contract answered. *)
SendPrune ==
    /\ sendPc = "prune"
    /\ IF sendLast # Uint64Max THEN DeleteBlockByHeight(sendLast) ELSE blocks' = blocks
    /\ sendPc' = "idle"
    /\ sendData' = {}
    /\ UNCHANGED <<sendLast, nonce, chainVars, nodeVars, txs, ledger, contractVars, faults>>

SendPruneFail ==
    /\ sendPc = "prune"
    /\ Fault("prune")
    /\ sendPc' = "idle"
    /\ sendData' = {}
    /\ UNCHANGED <<sendLast, nonce, chainVars, nodeVars, storageVars, contractVars>>

Send ==
    \/ SendRead \/ SendNoBlock \/ SendSelect \/ SendAdd \/ SendAddFail
    \/ SendResync \/ SendResyncFail \/ SendPrune \/ SendPruneFail

-----------------------------------------------------------------------------
(* The chain mines the transaction that has the account's next nonce; a    *)
(* call that the contract rejects is mined too and changes nothing else.   *)
Mine ==
    /\ \E m \in mempool :
         /\ m.nonce = mined
         /\ mempool' = mempool \ {m}
         /\ \/ Add(m.header)
            \/ ~AddAccepted(m.header) /\ UNCHANGED contractVars
    /\ mined' = mined + 1
    /\ UNCHANGED <<sendVars, nodeVars, storageVars, faults>>

(* The chain forgets a transaction that it has not mined. *)
Drop ==
    /\ Fault("drop")
    /\ \E m \in mempool : mempool' = mempool \ {m}
    /\ UNCHANGED <<mined, sendVars, nodeVars, storageVars, contractVars>>

Chain == Mine \/ Drop

-----------------------------------------------------------------------------
SendTypeOK ==
    /\ sendPc \in {"idle", "select", "add", "resync", "prune"}
    /\ sendLast \in Uint64
    /\ sendData \subseteq Header
    /\ nonce \subseteq Nat
    /\ mempool \subseteq [nonce : Nat, header : Header]
    /\ mined \in Nat

(* What is sent, or selected to be sent, is the block that the contract    *)
(* takes next, or one that it has: the height it answered is old when the  *)
(* rows are read and when the transaction is mined (SendBlock.ts 130-157). *)
SendsNext ==
    \A b \in sendData \cup {m.header : m \in mempool} :
        AddAccepted(b) \/ \E j \in 1..Len(blockArray) : blockArray[j] = b

(* No transaction that was sent waits behind a nonce that no transaction   *)
(* has: after each failed call the signer is set back to the chain's count *)
(* (SendBlock.ts 154-163).  It is so as long as that count can be read and *)
(* the chain forgets no transaction.                                       *)
NoNonceGap == \A m \in mempool : Executable(m.nonce)
=============================================================================
