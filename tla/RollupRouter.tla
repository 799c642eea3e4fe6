---------------------------- MODULE RollupRouter ----------------------------
(***************************************************************************)
(* The HTTP interface of the server (service/routers/RollupRouter.ts):     *)
(* POST /tx/record puts a transaction into the pool if its sequence number *)
(* is the one after the last received.  That number is kept in a field and *)
(* in the table setting.                                                   *)
(*                                                                         *)
(* Express runs the handlers of several requests interleaved, at the calls *)
(* they await.  A request with a parameter or a signature that is not      *)
(* valid is answered before anything is read, and is left out.  The pool   *)
(* only grows here: who takes transactions from it is in Node.             *)
(***************************************************************************)
EXTENDS RollupStorage, Faults

CONSTANT Handlers   \* the requests that are served at the same time

VARIABLES
    lastReceiveSequence,   \* this.lastReceiveSequence
    setting,               \* the row last_receive_sequence, -1 without one
    request,               \* by handler: idle, or the call it awaits
    acked                  \* history: the transactions answered with 200

routerVars == <<lastReceiveSequence, setting, request, acked>>
vars == <<routerVars, storageVars, faults>>

Idle == [pc |-> "idle"]
Awaits(call, t) == [pc |-> call, tx |-> t]

Init ==
    /\ lastReceiveSequence = -1
    /\ setting = -1
    /\ request = [h \in Handlers |-> Idle]
    /\ acked = {}
    /\ StorageInit
    /\ FaultsInit

(* The handler h goes on to r; the tables of blocks are not its concern. *)
Continue(h, r) ==
    /\ request' = [request EXCEPT ![h] = r]
    /\ UNCHANGED <<blocks, ledger>>

-----------------------------------------------------------------------------
(* Faulty variant: any later sequence number is taken.                     *)
CheckedLater(t, last) == IF last < t.sequence THEN Awaits("add", t) ELSE Idle

(* The sequence number is compared: the handler adds the transaction, or   *)
(* answers 417.                                                            *)
Checked(t, last) == IF last + 1 = t.sequence THEN Awaits("add", t) ELSE Idle

(* A request comes.  The field is -1 until the first one has loaded it,    *)
(* and as long as nothing was ever received.                               *)
Post(h, t) ==
    /\ request[h] = Idle
    /\ Continue(h, IF lastReceiveSequence = -1 THEN Awaits("load", t)
                   ELSE Checked(t, lastReceiveSequence))
    /\ UNCHANGED <<lastReceiveSequence, setting, acked, txs, faults>>

(* The database reads the row; the handler sees what it read later on. *)
LoadRead(h) ==
    /\ request[h].pc = "load"
    /\ \/ /\ Continue(h, [pc |-> "loaded", tx |-> request[h].tx, last |-> setting])
          /\ faults' = faults
       \/ Continue(h, Idle) /\ Fault("getSetting")   \* 500
    /\ UNCHANGED <<lastReceiveSequence, setting, acked, txs>>

(* The read returns, and the comparison follows at once. *)
LoadReturn(h) ==
    /\ request[h].pc = "loaded"
    /\ lastReceiveSequence' = request[h].last
    /\ Continue(h, Checked(request[h].tx, request[h].last))
    /\ UNCHANGED <<setting, acked, txs, faults>>

(* Faulty variant: the number is stored before the transaction is added.   *)
PoolAddAfterSet(h) ==
    /\ request[h].pc = "add"
    /\ setting' = request[h].tx.sequence
    /\ \/ /\ InsertTx(request[h].tx)
          /\ Continue(h, Awaits("assign", request[h].tx))
          /\ faults' = faults
       \/ txs' = txs /\ Continue(h, Idle) /\ Fault("insertTx")
    /\ UNCHANGED <<lastReceiveSequence, acked>>

(* pool.add *)
PoolAdd(h) ==
    /\ request[h].pc = "add"
    /\ \/ /\ InsertTx(request[h].tx)
          /\ Continue(h, Awaits("set", request[h].tx))
          /\ faults' = faults
       \/ txs' = txs /\ Continue(h, Idle) /\ Fault("insertTx")   \* 500
    /\ UNCHANGED <<lastReceiveSequence, setting, acked>>

(* Faulty variant: nobody asks whether the number was written.             *)
SetSequenceIgnored(h) ==
    /\ request[h].pc = "set"
    /\ \/ setting' = request[h].tx.sequence /\ faults' = faults
       \/ setting' = setting /\ Fault("setSetting")
    /\ Continue(h, Awaits("assign", request[h].tx))
    /\ UNCHANGED <<lastReceiveSequence, acked, txs>>

(* setLastReceiveSequence *)
SetSequence(h) ==
    /\ request[h].pc = "set"
    /\ \/ /\ setting' = request[h].tx.sequence
          /\ Continue(h, Awaits("assign", request[h].tx))
          /\ faults' = faults
       \/ setting' = setting /\ Continue(h, Idle) /\ Fault("setSetting")   \* 500
    /\ UNCHANGED <<lastReceiveSequence, acked, txs>>

(* Faulty variant: the field is not assigned.                              *)
AnswerOnly(h) ==
    /\ request[h].pc = "assign"
    /\ lastReceiveSequence' = lastReceiveSequence
    /\ acked' = acked \cup {request[h].tx}
    /\ Continue(h, Idle)
    /\ UNCHANGED <<setting, txs, faults>>

(* Faulty variant: the field counts on by itself.                          *)
AnswerCounts(h) ==
    /\ request[h].pc = "assign"
    /\ lastReceiveSequence' = request[h].tx.sequence + 1
    /\ acked' = acked \cup {request[h].tx}
    /\ Continue(h, Idle)
    /\ UNCHANGED <<setting, txs, faults>>

(* Faulty variant: the field is counted on, which is the same for requests *)
(* that come one after the other.                                          *)
AnswerIncrements(h) ==
    /\ request[h].pc = "assign"
    /\ lastReceiveSequence' = lastReceiveSequence + 1
    /\ acked' = acked \cup {request[h].tx}
    /\ Continue(h, Idle)
    /\ UNCHANGED <<setting, txs, faults>>

(* The write returns: the field follows, and the answer is 200. *)
Answer(h) ==
    /\ request[h].pc = "assign"
    /\ lastReceiveSequence' = request[h].tx.sequence
    /\ acked' = acked \cup {request[h].tx}
    /\ Continue(h, Idle)
    /\ UNCHANGED <<setting, txs, faults>>

(* The process stops, with the requests it serves, and is started again. *)
Restart ==
    /\ Fault("crash")
    /\ lastReceiveSequence' = -1
    /\ request' = [h \in Handlers |-> Idle]
    /\ UNCHANGED <<setting, acked, storageVars>>

Next ==
    \/ \E h \in Handlers :
         \/ \E t \in Tx : Post(h, t)
         \/ LoadRead(h) \/ LoadReturn(h) \/ PoolAdd(h) \/ SetSequence(h) \/ Answer(h)
    \/ Restart

Spec == Init /\ [][Next]_vars

-----------------------------------------------------------------------------
(* The transactions in the table or in a block, and their numbers. *)
Taken == txs \cup UNION {ledger[i].CID : i \in 1..Len(ledger)}
Recorded == {t.sequence : t \in Taken}

(* The variables have the types their declarations give them. *)
TypeOK ==
    /\ lastReceiveSequence \in -1..(MaxTxSeq - 1)
    /\ setting \in -1..(MaxTxSeq - 1)
    /\ request \in [Handlers ->
         {Idle} \cup [pc : {"load", "add", "set", "assign"}, tx : Tx]
                \cup [pc : {"loaded"}, tx : Tx, last : -1..(MaxTxSeq - 1)]]
    /\ acked \subseteq Tx
    /\ txs \subseteq Tx
    /\ faults \in 0..MaxFaults

(* No sequence number is skipped: when a transaction is in the table or in *)
(* a block, so is one with each lower number (l.274), whatever requests    *)
(* overlap and wherever a crash or an error ends them.                     *)
NoGap == \A s \in Recorded : \A r \in 0..s : r \in Recorded

(* The number that GET /tx/sequence answers, and the one the next request  *)
(* is compared with, are never ahead of the tables (l.285-287): a client   *)
(* that goes on from there leaves nothing out.                             *)
NeverAhead ==
    \A s \in {setting, lastReceiveSequence} : s # -1 => s \in Recorded

(* Between requests the field is unset or is the row: what the server      *)
(* expects does not depend on whether it was restarted (l.270, 286-287).   *)
FieldAgrees ==
    (\A h \in Handlers : request[h] = Idle) => lastReceiveSequence \in {-1, setting}

(* A transaction answered with 200 is recorded, and stays so: no later     *)
(* request replaces it under its sequence number (l.288).                  *)
AckedNotLost == acked \subseteq Taken

(* The sequence of the transactions received increases by one each time. *)
IncreasesByOne == [][setting' # setting => setting' = setting + 1]_vars
=============================================================================
