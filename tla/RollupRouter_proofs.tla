------------------------ MODULE RollupRouter_proofs ------------------------
(***************************************************************************)
(* Proofs about the HTTP interface.  For any number of requests at the     *)
(* same time no sequence number is skipped; for one request at a time what *)
(* was acknowledged stays recorded.                                        *)
(***************************************************************************)
EXTENDS RollupRouter, TLAPS

Sequence == -1..(MaxTxSeq - 1)
AwaitsCall == [pc : {"load", "add", "set", "assign"}, tx : Tx]
AwaitsLoaded == [pc : {"loaded"}, tx : Tx, last : Sequence]

(* A number that a request may go on from: none yet, or a recorded one. *)
Last == {-1} \cup Recorded

(* What a request in service relies on. *)
Going ==
    \A h \in Handlers :
        /\ request[h].pc = "loaded" => request[h].last \in Last
        /\ request[h].pc = "add" => request[h].tx.sequence - 1 \in Last
        /\ request[h].pc \in {"set", "assign"} => request[h].tx.sequence \in Recorded

RouterInv ==
    /\ TypeOK
    /\ Taken \subseteq Tx
    /\ NoGap
    /\ setting \in Last /\ lastReceiveSequence \in Last
    /\ Going

-----------------------------------------------------------------------------
(* What is taken depends on the two tables only. *)
LEMMA SameTaken ==
    ASSUME txs' = txs, ledger' = ledger
    PROVE  Taken' = Taken /\ Recorded' = Recorded /\ Last' = Last
  BY DEF Taken, Recorded, Last

(* Adding a transaction records its number, and takes away at most another *)
(* transaction of that number.                                             *)
LEMMA InsertRecords ==
    ASSUME Taken \subseteq Tx, NEW t \in Tx, InsertTx(t), ledger' = ledger
    PROVE  /\ txs' \subseteq Tx /\ Taken' \subseteq Tx
           /\ Recorded' = Recorded \cup {t.sequence}
           /\ t \in Taken'
           /\ \A u \in Taken : u.sequence # t.sequence => u \in Taken'
  <1> DEFINE InBlocks == UNION {ledger[i].CID : i \in 1..Len(ledger)}
  <1>1. Taken = txs \cup InBlocks /\ Taken' = txs' \cup InBlocks
    BY DEF Taken
  <1> HIDE DEF InBlocks
  <1>2. txs' = {u \in txs : u.sequence # t.sequence} \cup {t}
    BY DEF InsertTx
  <1>3. \A u \in Taken : u.sequence # t.sequence => u \in Taken'
    BY <1>1, <1>2
  <1>4. Taken' \subseteq Taken \cup {t} /\ t \in Taken'
    BY <1>1, <1>2
  <1> QED
    BY <1>1, <1>2, <1>3, <1>4 DEF Recorded

(* The comparison goes on with the next number only. *)
LEMMA CheckedNext ==
    ASSUME NEW t \in Tx, NEW last \in Sequence
    PROVE  \/ Checked(t, last) = Idle
           \/ Checked(t, last) = Awaits("add", t) /\ t.sequence - 1 = last
  BY BlockAssumption DEF Checked, Tx, Sequence

(* One handler moves, the others stay where they are. *)
LEMMA OneMoves ==
    ASSUME NEW h \in Handlers, NEW r, Continue(h, r), request \in [Handlers -> {Idle} \cup AwaitsCall \cup AwaitsLoaded]
    PROVE  \A g \in Handlers : request'[g] = IF g = h THEN r ELSE request[g]
  BY DEF Continue

(* Nothing was received and nothing is in service at the start. *)
LEMMA RouterInvInit == Init => RouterInv
  <1> SUFFICES ASSUME Init PROVE RouterInv
    OBVIOUS
  <1>1. TypeOK
    BY BlockAssumption, FaultsAssumption DEF Init, StorageInit, FaultsInit, TypeOK
  <1>2. Taken = {} /\ Recorded = {}
    BY DEF Init, StorageInit, Taken, Recorded
  <1>3. \A h \in Handlers : request[h].pc = "idle"
    BY DEF Init, Idle
  <1> QED
    BY <1>1, <1>2, <1>3 DEF Init, RouterInv, NoGap, Last, Going

(* The types of a request in service. *)
LEMMA RequestTypes ==
    ASSUME TypeOK, NEW h \in Handlers
    PROVE  /\ request \in [Handlers -> {Idle} \cup AwaitsCall \cup AwaitsLoaded]
           /\ request[h].pc \in {"load", "loaded", "add", "set", "assign"} => request[h].tx \in Tx
           /\ request[h].pc = "loaded" => request[h].last \in Sequence
  BY DEF TypeOK, AwaitsCall, AwaitsLoaded, Sequence, Idle

(* Where one handler moves to a record of the right type, and the fields   *)
(* keep their types, so do all variables.                                  *)
LEMMA TypeKept ==
    ASSUME TypeOK, NEW h \in Handlers, NEW r, Continue(h, r),
           r \in {Idle} \cup AwaitsCall \cup AwaitsLoaded,
           lastReceiveSequence' \in Sequence, setting' \in Sequence,
           acked' \subseteq Tx, txs' \subseteq Tx, faults' \in 0..MaxFaults
    PROVE  TypeOK'
  BY DEF TypeOK, Continue, AwaitsCall, AwaitsLoaded, Sequence

(* What the other requests rely on stays when the recorded numbers grow.   *)
LEMMA GoingKept ==
    ASSUME TypeOK, Going, NEW h \in Handlers, NEW r, Continue(h, r), Recorded \subseteq Recorded',
           r.pc = "loaded" => r.last \in Last',
           r.pc = "add" => r.tx.sequence - 1 \in Last',
           r.pc \in {"set", "assign"} => r.tx.sequence \in Recorded'
    PROVE  Going'
  <1>1. \A g \in Handlers : request'[g] = IF g = h THEN r ELSE request[g]
    BY OneMoves, RequestTypes
  <1>2. Last \subseteq Last'
    BY DEF Last
  <1>3. ASSUME NEW g \in Handlers
        PROVE  /\ request'[g].pc = "loaded" => request'[g].last \in Last'
               /\ request'[g].pc = "add" => request'[g].tx.sequence - 1 \in Last'
               /\ request'[g].pc \in {"set", "assign"} => request'[g].tx.sequence \in Recorded'
    <2>1. CASE g = h
      BY <1>1, <2>1
    <2>2. CASE g # h
      BY <1>1, <1>2, <2>2 DEF Going
    <2> QED
      BY <2>1, <2>2
  <1> QED
    BY <1>3 DEF Going

(* A fault leaves one fewer. *)
LEMMA FaultType ==
    ASSUME TypeOK, NEW kind, Fault(kind)
    PROVE  faults' \in 0..MaxFaults
  BY FaultsAssumption DEF TypeOK, Fault

(* A request comes. *)
LEMMA PostInv ==
    ASSUME RouterInv, NEW h \in Handlers, NEW t \in Tx, Post(h, t)
    PROVE  RouterInv'
  <1> USE DEF RouterInv
  <1> DEFINE r == IF lastReceiveSequence = -1 THEN Awaits("load", t)
                  ELSE Checked(t, lastReceiveSequence)
  <1>1. Continue(h, r) /\ UNCHANGED <<lastReceiveSequence, setting, acked, txs, faults>>
    BY DEF Post
  <1>2. \/ r = Awaits("load", t) \/ r = Idle
        \/ r = Awaits("add", t) /\ t.sequence - 1 = lastReceiveSequence
    BY CheckedNext DEF TypeOK, Sequence
  <1>3. Taken' = Taken /\ Recorded' = Recorded /\ Last' = Last
    BY <1>1, SameTaken DEF Continue
  <1>4. TypeOK'
    <2>1. r \in {Idle} \cup AwaitsCall \cup AwaitsLoaded
      BY <1>2 DEF Awaits, AwaitsCall
    <2> QED
      BY <1>1, <2>1, TypeKept DEF TypeOK, Sequence
  <1>5. Going'
    <2>1. /\ r.pc = "loaded" => r.last \in Last'
          /\ r.pc = "add" => r.tx.sequence - 1 \in Last'
          /\ r.pc \in {"set", "assign"} => r.tx.sequence \in Recorded'
      BY <1>2, <1>3 DEF Awaits, Idle
    <2> QED
      BY <1>1, <1>3, <2>1, GoingKept
  <1> QED
    BY <1>1, <1>3, <1>4, <1>5 DEF NoGap

(* The number is read from the database, or the read fails. *)
LEMMA LoadReadInv ==
    ASSUME RouterInv, NEW h \in Handlers, LoadRead(h)
    PROVE  RouterInv'
  <1> USE DEF RouterInv
  <1> DEFINE r == [pc |-> "loaded", tx |-> request[h].tx, last |-> setting]
  <1>1. /\ UNCHANGED <<lastReceiveSequence, setting, acked, txs>>
        /\ faults' \in 0..MaxFaults
        /\ Continue(h, r) \/ Continue(h, Idle)
    BY FaultType DEF LoadRead, TypeOK
  <1>2. r \in AwaitsLoaded
    BY RequestTypes DEF AwaitsLoaded, Sequence, TypeOK, LoadRead
  <1>3. Taken' = Taken /\ Recorded' = Recorded /\ Last' = Last
    BY <1>1, SameTaken DEF Continue
  <1>4. TypeOK'
    BY <1>1, <1>2, TypeKept DEF TypeOK, Sequence
  <1>5. Going'
    <2>1. CASE Continue(h, r)
      <3>1. /\ r.pc = "loaded"
            /\ r.last \in Last'
        BY <1>3
      <3> HIDE DEF r
      <3>2. r.pc # "add" /\ r.pc \notin {"set", "assign"}
        BY <3>1
      <3> QED
        BY <1>3, <2>1, <3>1, <3>2, GoingKept
    <2>2. CASE Continue(h, Idle)
      <3>1. Idle.pc = "idle"
        BY DEF Idle
      <3> QED
        BY <1>3, <2>2, <3>1, GoingKept
    <2> QED
      BY <1>1, <2>1, <2>2
  <1> QED
    BY <1>1, <1>3, <1>4, <1>5 DEF NoGap

(* The read returns and the number is compared. *)
LEMMA LoadReturnInv ==
    ASSUME RouterInv, NEW h \in Handlers, LoadReturn(h)
    PROVE  RouterInv'
  <1> USE DEF RouterInv
  <1> DEFINE t == request[h].tx
             last == request[h].last
             r == Checked(t, last)
  <1>1. /\ request[h].pc = "loaded"
        /\ lastReceiveSequence' = last
        /\ Continue(h, r)
        /\ UNCHANGED <<setting, acked, txs, faults>>
    BY DEF LoadReturn
  <1>2. t \in Tx /\ last \in Sequence /\ last \in Last
    BY <1>1, RequestTypes DEF Going
  <1> HIDE DEF t, last
  <1>3. r = Idle \/ (r = Awaits("add", t) /\ t.sequence - 1 = last)
    BY <1>2, CheckedNext
  <1>4. Taken' = Taken /\ Recorded' = Recorded /\ Last' = Last
    BY <1>1, SameTaken DEF Continue
  <1>5. TypeOK'
    <2>1. r \in {Idle} \cup AwaitsCall \cup AwaitsLoaded
      BY <1>2, <1>3 DEF Awaits, AwaitsCall
    <2> QED
      BY <1>1, <1>2, <2>1, TypeKept DEF TypeOK, Sequence
  <1>6. Going'
    <2>1. /\ r.pc = "loaded" => r.last \in Last'
          /\ r.pc = "add" => r.tx.sequence - 1 \in Last'
          /\ r.pc \in {"set", "assign"} => r.tx.sequence \in Recorded'
      BY <1>2, <1>3, <1>4 DEF Awaits, Idle
    <2> QED
      BY <1>1, <1>4, <2>1, GoingKept
  <1> QED
    BY <1>1, <1>2, <1>4, <1>5, <1>6 DEF NoGap

(* The transaction is added, or that fails. *)
LEMMA PoolAddInv ==
    ASSUME RouterInv, NEW h \in Handlers, PoolAdd(h)
    PROVE  RouterInv'
  <1> USE DEF RouterInv
  <1> DEFINE t == request[h].tx
             r == Awaits("set", t)
  <1>1. /\ request[h].pc = "add"
        /\ UNCHANGED <<lastReceiveSequence, setting, acked>>
    BY DEF PoolAdd
  <1>2. t \in Tx /\ t.sequence - 1 \in Last
    BY <1>1, RequestTypes DEF Going
  <1>3. CASE InsertTx(t) /\ Continue(h, r) /\ faults' = faults
    <2>1. /\ txs' \subseteq Tx /\ Taken' \subseteq Tx
          /\ Recorded' = Recorded \cup {t.sequence}
      BY <1>2, <1>3, InsertRecords DEF Continue
    <2> HIDE DEF t
    <2>2. TypeOK'
      <3>1. r \in AwaitsCall
        BY <1>2 DEF Awaits, AwaitsCall
      <3> QED
        BY <1>1, <1>3, <2>1, <3>1, TypeKept DEF TypeOK, Sequence
    <2>3. Going'
      <3>1. r.pc = "set" /\ r.tx = t
        BY DEF Awaits
      <3> HIDE DEF r
      <3> QED
        BY <1>3, <2>1, <3>1, GoingKept
    <2>4. NoGap'
      <3>1. t.sequence \in Nat /\ \A s \in Recorded : s \in Nat
        BY <1>2 DEF Tx, Recorded
      <3>2. ASSUME NEW s \in Recorded', NEW q \in 0..s
            PROVE  q \in Recorded'
        <4>1. CASE s \in Recorded
          BY <2>1, <4>1 DEF NoGap
        <4>2. CASE s = t.sequence /\ t.sequence = 0
          BY <2>1, <4>2
        <4>3. CASE s = t.sequence /\ t.sequence # 0
          <5>1. t.sequence - 1 \in Recorded
            BY <1>2, <3>1, <4>3 DEF Last
          <5>2. q = t.sequence \/ q \in 0..(t.sequence - 1)
            BY <3>1, <4>3
          <5> QED
            BY <2>1, <5>1, <5>2 DEF NoGap
        <4> QED
          BY <2>1, <4>1, <4>2, <4>3
      <3> QED
        BY <3>2 DEF NoGap
    <2> QED
      BY <1>1, <2>1, <2>2, <2>3, <2>4 DEF Last
  <1>4. CASE txs' = txs /\ Continue(h, Idle) /\ Fault("insertTx")
    <2>1. Taken' = Taken /\ Recorded' = Recorded /\ Last' = Last
      BY <1>4, SameTaken DEF Continue
    <2>2. TypeOK'
      BY <1>1, <1>4, FaultType, TypeKept DEF TypeOK, Sequence
    <2>3. Going'
      <3>1. Idle.pc = "idle"
        BY DEF Idle
      <3> QED
        BY <1>4, <2>1, <3>1, GoingKept
    <2> QED
      BY <1>1, <2>1, <2>2, <2>3 DEF NoGap
  <1> QED
    BY <1>3, <1>4 DEF PoolAdd

(* The number is written to the database, or that fails. *)
LEMMA SetSequenceInv ==
    ASSUME RouterInv, NEW h \in Handlers, SetSequence(h)
    PROVE  RouterInv'
  <1> USE DEF RouterInv
  <1> DEFINE t == request[h].tx
             r == Awaits("assign", t)
  <1>1. /\ request[h].pc = "set"
        /\ UNCHANGED <<lastReceiveSequence, acked, txs, ledger>>
    BY DEF SetSequence, Continue
  <1>2. t \in Tx /\ t.sequence \in Recorded /\ t.sequence \in Sequence
    <2>1. t \in Tx /\ t.sequence \in Recorded
      BY <1>1, RequestTypes DEF Going
    <2> QED
      BY <2>1, BlockAssumption DEF Tx, Sequence
  <1>3. Taken' = Taken /\ Recorded' = Recorded /\ Last' = Last
    BY <1>1, SameTaken DEF Continue
  <1>4. CASE setting' = t.sequence /\ Continue(h, r) /\ faults' = faults
    <2> HIDE DEF t
    <2>1. r \in AwaitsCall /\ r.pc = "assign" /\ r.tx = t
      BY <1>2 DEF Awaits, AwaitsCall
    <2> HIDE DEF r
    <2>2. TypeOK'
      BY <1>1, <1>2, <1>4, <2>1, TypeKept DEF TypeOK, Sequence
    <2>3. Going'
      BY <1>2, <1>3, <1>4, <2>1, GoingKept
    <2> QED
      BY <1>1, <1>2, <1>3, <1>4, <2>2, <2>3 DEF NoGap, Last
  <1>5. CASE setting' = setting /\ Continue(h, Idle) /\ Fault("setSetting")
    <2>1. TypeOK'
      BY <1>1, <1>5, FaultType, TypeKept DEF TypeOK, Sequence
    <2>2. Going'
      <3>1. Idle.pc = "idle"
        BY DEF Idle
      <3> QED
        BY <1>3, <1>5, <3>1, GoingKept
    <2> QED
      BY <1>1, <1>3, <1>5, <2>1, <2>2 DEF NoGap
  <1> QED
    BY <1>4, <1>5 DEF SetSequence

(* The field follows, and the request is answered. *)
LEMMA AnswerInv ==
    ASSUME RouterInv, NEW h \in Handlers, Answer(h)
    PROVE  RouterInv'
  <1> USE DEF RouterInv
  <1> DEFINE t == request[h].tx
  <1>1. /\ request[h].pc = "assign"
        /\ lastReceiveSequence' = t.sequence
        /\ acked' = acked \cup {t}
        /\ Continue(h, Idle)
        /\ UNCHANGED <<setting, txs, faults>>
    BY DEF Answer
  <1>2. t \in Tx /\ t.sequence \in Recorded /\ t.sequence \in Sequence
    <2>1. t \in Tx /\ t.sequence \in Recorded
      BY <1>1, RequestTypes DEF Going
    <2> QED
      BY <2>1, BlockAssumption DEF Tx, Sequence
  <1> HIDE DEF t
  <1>3. Taken' = Taken /\ Recorded' = Recorded /\ Last' = Last
    BY <1>1, SameTaken DEF Continue
  <1>4. TypeOK'
    BY <1>1, <1>2, TypeKept DEF TypeOK, Sequence
  <1>5. Going'
    <2>1. Idle.pc = "idle"
      BY DEF Idle
    <2> QED
      BY <1>1, <1>3, <2>1, GoingKept
  <1> QED
    BY <1>1, <1>2, <1>3, <1>4, <1>5 DEF NoGap, Last

(* The process stops, in whatever way, and is started again. *)
LEMMA RestartInv ==
    ASSUME RouterInv,
           lastReceiveSequence' = -1, request' = [h \in Handlers |-> Idle],
           UNCHANGED <<setting, acked, storageVars>>, faults' \in 0..MaxFaults
    PROVE  RouterInv'
  <1> USE DEF RouterInv
  <1>1. Taken' = Taken /\ Recorded' = Recorded /\ Last' = Last
    BY SameTaken DEF storageVars
  <1>2. TypeOK'
    BY BlockAssumption DEF TypeOK, storageVars
  <1>3. Going'
    BY DEF Going, Idle
  <1> QED
    BY <1>1, <1>2, <1>3 DEF NoGap, Last

(* Whoever else uses the tables does not disturb a request, as long as the *)
(* same numbers stay recorded.                                             *)
LEMMA OthersInv ==
    ASSUME RouterInv, UNCHANGED routerVars, faults' \in 0..MaxFaults,
           txs' \subseteq Tx, Taken' \subseteq Tx, Recorded' = Recorded
    PROVE  RouterInv'
  <1> USE DEF RouterInv
  <1>1. Last' = Last
    BY DEF Last
  <1>2. TypeOK'
    BY DEF TypeOK, routerVars
  <1>3. Going'
    BY <1>1 DEF Going, routerVars
  <1> QED
    BY <1>1, <1>2, <1>3 DEF NoGap, routerVars

LEMMA RouterStep == ASSUME RouterInv, Next PROVE RouterInv'
  <1>1. ASSUME NEW h \in Handlers, NEW t \in Tx, Post(h, t) PROVE RouterInv'
    BY <1>1, PostInv
  <1>2. ASSUME NEW h \in Handlers, LoadRead(h) PROVE RouterInv'
    BY <1>2, LoadReadInv
  <1>3. ASSUME NEW h \in Handlers, LoadReturn(h) PROVE RouterInv'
    BY <1>3, LoadReturnInv
  <1>4. ASSUME NEW h \in Handlers, PoolAdd(h) PROVE RouterInv'
    BY <1>4, PoolAddInv
  <1>5. ASSUME NEW h \in Handlers, SetSequence(h) PROVE RouterInv'
    BY <1>5, SetSequenceInv
  <1>6. ASSUME NEW h \in Handlers, Answer(h) PROVE RouterInv'
    BY <1>6, AnswerInv
  <1>7. CASE Restart
    <2>1. faults' \in 0..MaxFaults
      BY <1>7, FaultType DEF Restart, RouterInv
    <2> QED
      BY <1>7, <2>1, RestartInv DEF Restart
  <1> QED
    BY <1>1, <1>2, <1>3, <1>4, <1>5, <1>6, <1>7 DEF Next

(* A step of the requests adds at most one number to the recorded ones. *)
LEMMA RequestRecords ==
    ASSUME RouterInv, Next
    PROVE  Recorded \subseteq Recorded'
  <1>1. ASSUME NEW h \in Handlers, PoolAdd(h), txs' # txs PROVE Recorded \subseteq Recorded'
    <2>1. request[h].tx \in Tx
      BY <1>1, RequestTypes DEF PoolAdd, RouterInv
    <2>2. InsertTx(request[h].tx) /\ ledger' = ledger
      BY <1>1 DEF PoolAdd, Continue
    <2> QED
      BY <2>1, <2>2, InsertRecords DEF RouterInv
  <1>2. ledger' = ledger
    BY DEF Next, Post, LoadRead, LoadReturn, PoolAdd, SetSequence, Answer, Restart, Continue, storageVars
  <1>3. txs' # txs => \E h \in Handlers : PoolAdd(h)
    BY DEF Next, Post, LoadRead, LoadReturn, SetSequence, Answer, Restart, storageVars
  <1> QED
    BY <1>1, <1>2, <1>3, SameTaken

(* The inductive invariant holds for any number of requests at once.       *)
THEOREM RouterInvariant == Spec => []RouterInv
  <1>1. RouterInv /\ UNCHANGED vars => RouterInv'
    <2> SUFFICES ASSUME RouterInv, UNCHANGED vars PROVE RouterInv'
      OBVIOUS
    <2>1. Taken' = Taken /\ Recorded' = Recorded
      BY SameTaken DEF vars, storageVars
    <2> QED
      BY <2>1, OthersInv DEF vars, storageVars, RouterInv, TypeOK
  <1>2. RouterInv /\ [Next]_vars => RouterInv'
    BY <1>1, RouterStep
  <1> QED
    BY <1>2, RouterInvInit, PTL DEF Spec

(* NoGap for any number of requests at once: no sequence number is skipped *)
(* by POST /tx/record.                                                     *)
THEOREM NoSequenceSkipped == Spec => []NoGap
  <1>1. RouterInv => NoGap
    BY DEF RouterInv
  <1> QED
    BY <1>1, RouterInvariant, PTL

(* NeverAhead likewise: the number that GET /tx/sequence answers is that   *)
(* of a recorded transaction.                                              *)
THEOREM SequenceIsRecorded == Spec => []NeverAhead
  <1>1. RouterInv => NeverAhead
    BY DEF RouterInv, NeverAhead, Last
  <1> QED
    BY <1>1, RouterInvariant, PTL

-----------------------------------------------------------------------------
(* One request at a time, as from a client that waits for every answer.    *)
OneClient == \A g, h \in Handlers : g = h

(* One request in service at a time, whichever handler it has.             *)
Busy(h) == request[h].pc # "idle"
OneAtATime == \A g, h \in Handlers : Busy(g) /\ Busy(h) => g = h

(* What the request in service relies on then, and the field between two.  *)
Alone ==
    /\ acked \subseteq Taken
    /\ \A t \in acked : t.sequence <= setting
    /\ \A h \in Handlers :
         /\ request[h].pc = "loaded" => request[h].last = setting
         /\ request[h].pc \in {"add", "set"} => request[h].tx.sequence = setting + 1
         /\ request[h].pc \in {"set", "assign"} => request[h].tx \in Taken
         /\ request[h].pc = "assign" => request[h].tx.sequence = setting
    /\ (\A h \in Handlers : request[h].pc # "assign") => lastReceiveSequence \in {-1, setting}

(* One client has one request in service.                                  *)
LEMMA OneClientAtATime == OneClient => OneAtATime /\ OneAtATime'
  BY DEF OneClient, OneAtATime, Busy

(* The one request moves, and with it all that is in service.              *)
LEMMA AloneKept ==
    ASSUME RouterInv, NEW h \in Handlers, NEW r, Continue(h, r),
           \A g \in Handlers : g # h => ~Busy(g),
           acked' \subseteq Taken',
           \A t \in acked' : t.sequence <= setting',
           r.pc = "loaded" => r.last = setting',
           r.pc \in {"add", "set"} => r.tx.sequence = setting' + 1,
           r.pc \in {"set", "assign"} => r.tx \in Taken',
           r.pc = "assign" => r.tx.sequence = setting',
           r.pc # "assign" => lastReceiveSequence' \in {-1, setting'}
    PROVE  Alone'
  <1>1. \A g \in Handlers : request'[g] = IF g = h THEN r ELSE request[g]
    BY OneMoves, RequestTypes DEF RouterInv
  <1>2. \A g \in Handlers : request'[g].pc = "idle" \/ request'[g] = r
    BY <1>1 DEF Busy
  <1>3. (\A g \in Handlers : request'[g].pc # "assign") => r.pc # "assign"
    BY <1>1
  <1> QED
    BY <1>2, <1>3 DEF Alone

(* A new process has no request in service and no field. *)
LEMMA AloneRestart ==
    ASSUME Alone, lastReceiveSequence' = -1, request' = [h \in Handlers |-> Idle],
           UNCHANGED <<setting, acked, storageVars>>
    PROVE  Alone'
  <1>1. Taken' = Taken
    BY SameTaken DEF storageVars
  <1> QED
    BY <1>1 DEF Alone, Idle

(* Whoever else uses the tables does not disturb the one request, as long  *)
(* as what is taken stays so.                                              *)
LEMMA AloneOthers ==
    ASSUME Alone, UNCHANGED routerVars, Taken \subseteq Taken'
    PROVE  Alone'
  BY DEF Alone, routerVars

(* Each action of the one request, and a restart, keep Alone.  The second  *)
(* part says what a step may do to the row setting.                        *)
LEMMA AloneStep ==
    ASSUME OneAtATime, OneAtATime', RouterInv, Alone, Next
    PROVE  Alone' /\ (setting' # setting => setting' = setting + 1)
  <1> USE DEF RouterInv
  <1>0. /\ setting \in Int /\ lastReceiveSequence \in Sequence
        /\ Idle.pc = "idle"
    BY DEF TypeOK, Sequence, Idle
  <1>s. ASSUME NEW h \in Handlers, Busy(h)
        PROVE  /\ \A g \in Handlers : g # h => ~Busy(g)
               /\ request[h].pc # "assign" => lastReceiveSequence \in {-1, setting}
    <2>1. \A g \in Handlers : g # h => ~Busy(g)
      BY <1>s DEF OneAtATime
    <2>2. request[h].pc # "assign" => \A g \in Handlers : request[g].pc # "assign"
      BY <2>1 DEF Busy
    <2> QED
      BY <2>1, <2>2 DEF Alone
  <1>1. ASSUME NEW h \in Handlers, NEW t \in Tx, Post(h, t)
        PROVE  Alone' /\ setting' = setting
    <2> DEFINE r == IF lastReceiveSequence = -1 THEN Awaits("load", t)
                    ELSE Checked(t, lastReceiveSequence)
    <2>1. /\ Continue(h, r)
          /\ UNCHANGED <<lastReceiveSequence, setting, acked, txs>>
          /\ request[h].pc = "idle" /\ request[h] = Idle
          /\ Taken' = Taken
      BY <1>0, <1>1, SameTaken DEF Post, Continue
    <2>o. CASE \E g \in Handlers : g # h /\ Busy(g)
      <3>1. \A g \in Handlers : request'[g] = IF g = h THEN r ELSE request[g]
        BY <2>1, OneMoves, RequestTypes
      <3>2. ~Busy(h)'
        BY <2>o, <3>1 DEF OneAtATime, Busy
      <3>3. r = Idle
        <4>1. r = Idle \/ r.pc \in {"load", "add"}
          BY <1>0, CheckedNext DEF Awaits
        <4> HIDE DEF r
        <4> QED
          BY <3>1, <3>2, <4>1 DEF Busy
      <3>4. request' = request
        <4> HIDE DEF r
        <4> QED
          BY <2>1, <3>3 DEF Continue, TypeOK
      <3> QED
        BY <2>1, <3>4, AloneOthers DEF routerVars
    <2>p. CASE \A g \in Handlers : g # h => ~Busy(g)
      <3>2. lastReceiveSequence \in {-1, setting}
        <4>1. \A g \in Handlers : request[g].pc # "assign"
          BY <2>1, <2>p DEF Busy
        <4> QED
          BY <4>1 DEF Alone
      <3>3. \/ r.pc \in {"load", "idle"}
            \/ (r.pc = "add" /\ r.tx.sequence = setting + 1)
        <4>1. CASE lastReceiveSequence = -1
          BY <4>1 DEF Awaits
        <4>2. CASE lastReceiveSequence # -1 /\ Checked(t, lastReceiveSequence) = Idle
          BY <1>0, <4>2
        <4>3. CASE lastReceiveSequence # -1 /\ Checked(t, lastReceiveSequence) # Idle
          <5>1. r = Awaits("add", t) /\ t.sequence - 1 = setting
            BY <1>0, <3>2, <4>3, CheckedNext
          <5>2. t.sequence \in Int
            BY DEF Tx
          <5> QED
            BY <1>0, <5>1, <5>2 DEF Awaits
        <4> QED
          BY <4>1, <4>2, <4>3
      <3> HIDE DEF r
      <3> QED
        BY <2>1, <2>p, <3>2, <3>3, AloneKept DEF Alone
    <2> QED
      BY <2>o, <2>p
  <1>2. ASSUME NEW h \in Handlers, LoadRead(h)
        PROVE  Alone' /\ setting' = setting
    <2> DEFINE r == [pc |-> "loaded", tx |-> request[h].tx, last |-> setting]
    <2>1. /\ Continue(h, r) \/ Continue(h, Idle)
          /\ UNCHANGED <<lastReceiveSequence, setting, acked, txs>>
          /\ request[h].pc = "load"
          /\ Taken' = Taken
      BY <1>2, SameTaken DEF LoadRead, Continue
    <2>2. lastReceiveSequence \in {-1, setting} /\ \A g \in Handlers : g # h => ~Busy(g)
      BY <1>s, <2>1 DEF Busy
    <2>3. r.pc = "loaded" /\ r.last = setting
      OBVIOUS
    <2> HIDE DEF r
    <2>4. CASE Continue(h, r)
      BY <2>1, <2>2, <2>3, <2>4, AloneKept DEF Alone
    <2>5. CASE Continue(h, Idle)
      BY <1>0, <2>1, <2>2, <2>5, AloneKept DEF Alone
    <2> QED
      BY <2>1, <2>4, <2>5
  <1>3. ASSUME NEW h \in Handlers, LoadReturn(h)
        PROVE  Alone' /\ setting' = setting
    <2> DEFINE t == request[h].tx
               r == Checked(t, setting)
    <2>1. /\ request[h].last = setting
          /\ Continue(h, r)
          /\ lastReceiveSequence' = setting
          /\ UNCHANGED <<setting, acked, txs>>
          /\ Taken' = Taken
      BY <1>3, SameTaken DEF LoadReturn, Alone, Continue
    <2>s. \A g \in Handlers : g # h => ~Busy(g)
      BY <1>3, <1>s DEF LoadReturn, Busy
    <2>2. t \in Tx /\ setting \in Sequence
      BY <1>3, RequestTypes DEF LoadReturn, TypeOK, Sequence
    <2> HIDE DEF t
    <2>3. \/ r.pc = "idle"
          \/ (r.pc = "add" /\ r.tx.sequence = setting + 1)
      <3>1. r = Idle \/ (r = Awaits("add", t) /\ t.sequence - 1 = setting)
        BY <2>2, CheckedNext
      <3>2. t.sequence \in Int
        BY <2>2 DEF Tx
      <3> QED
        BY <1>0, <3>1, <3>2 DEF Awaits
    <2> HIDE DEF r
    <2> QED
      BY <2>1, <2>3, <2>s, AloneKept DEF Alone
  <1>4. ASSUME NEW h \in Handlers, PoolAdd(h)
        PROVE  Alone' /\ setting' = setting
    <2> DEFINE t == request[h].tx
               r == Awaits("set", t)
    <2>1. /\ t.sequence = setting + 1
          /\ UNCHANGED <<lastReceiveSequence, setting, acked>>
          /\ lastReceiveSequence \in {-1, setting}
      BY <1>4, <1>s DEF PoolAdd, Alone, Busy
    <2>s. \A g \in Handlers : g # h => ~Busy(g)
      BY <1>4, <1>s DEF PoolAdd, Busy
    <2>2. t \in Tx
      BY <1>4, RequestTypes DEF PoolAdd
    <2> HIDE DEF t
    <2>3. CASE InsertTx(t) /\ Continue(h, r)
      <3>1. t \in Taken' /\ \A u \in Taken : u.sequence # t.sequence => u \in Taken'
        BY <2>2, <2>3, InsertRecords DEF Continue
      <3>2. \A u \in acked : u \in Taken /\ u.sequence # t.sequence
        <4>1. \A u \in acked : u \in Taken /\ u.sequence <= setting /\ u.sequence \in Int
          BY DEF Alone, TypeOK, Tx
        <4> QED
          BY <1>0, <2>1, <4>1
      <3>3. r.pc = "set" /\ r.tx = t
        BY DEF Awaits
      <3> HIDE DEF r
      <3> QED
        BY <2>1, <2>3, <2>s, <3>1, <3>2, <3>3, AloneKept DEF Alone
    <2>4. CASE txs' = txs /\ Continue(h, Idle)
      <3>1. Taken' = Taken
        BY <2>4, SameTaken DEF Continue
      <3> QED
        BY <1>0, <2>1, <2>4, <2>s, <3>1, AloneKept DEF Alone
    <2> QED
      BY <1>4, <2>1, <2>3, <2>4 DEF PoolAdd, t
  <1>5. ASSUME NEW h \in Handlers, SetSequence(h)
        PROVE  Alone' /\ (setting' # setting => setting' = setting + 1)
    <2> DEFINE t == request[h].tx
               r == Awaits("assign", t)
    <2>1. /\ t.sequence = setting + 1 /\ t \in Taken
          /\ UNCHANGED <<lastReceiveSequence, acked, txs>>
          /\ lastReceiveSequence \in {-1, setting}
          /\ Taken' = Taken
      BY <1>5, <1>s, SameTaken DEF SetSequence, Alone, Busy, Continue
    <2>s. \A g \in Handlers : g # h => ~Busy(g)
      BY <1>5, <1>s DEF SetSequence, Busy
    <2> HIDE DEF t
    <2>2. CASE setting' = t.sequence /\ Continue(h, r)
      <3>1. r.pc = "assign" /\ r.tx = t
        BY DEF Awaits
      <3> HIDE DEF r
      <3>2. \A u \in acked' : u.sequence <= setting'
        <4>1. \A u \in acked : u.sequence <= setting /\ u.sequence \in Int
          BY DEF Alone, Tx
        <4> QED
          BY <1>0, <2>1, <2>2, <4>1
      <3>3. acked' \subseteq Taken'
        BY <2>1 DEF Alone
      <3> QED
        BY <2>1, <2>2, <2>s, <3>1, <3>2, <3>3, AloneKept
    <2>3. CASE setting' = setting /\ Continue(h, Idle)
      BY <1>0, <2>1, <2>3, <2>s, AloneKept DEF Alone
    <2> QED
      BY <1>5, <2>1, <2>2, <2>3 DEF SetSequence, t
  <1>6. ASSUME NEW h \in Handlers, Answer(h)
        PROVE  Alone' /\ setting' = setting
    <2> DEFINE t == request[h].tx
    <2>1. /\ t \in Taken /\ t.sequence = setting
          /\ lastReceiveSequence' = setting
          /\ acked' = acked \cup {t}
          /\ Continue(h, Idle)
          /\ UNCHANGED <<setting, txs>>
          /\ Taken' = Taken
      BY <1>6, SameTaken DEF Answer, Alone, Continue
    <2>s. \A g \in Handlers : g # h => ~Busy(g)
      BY <1>6, <1>s DEF Answer, Busy
    <2> HIDE DEF t
    <2>2. acked' \subseteq Taken' /\ \A u \in acked' : u.sequence <= setting'
      BY <1>0, <2>1 DEF Alone
    <2> QED
      BY <1>0, <2>1, <2>2, <2>s, AloneKept
  <1>7. CASE Restart
    BY <1>7, AloneRestart DEF Restart
  <1> QED
    BY <1>1, <1>2, <1>3, <1>4, <1>5, <1>6, <1>7 DEF Next

(* The invariant of one request at a time. *)
THEOREM OneClientInvariant == ASSUME OneClient PROVE Spec => [](RouterInv /\ Alone)
  <1>1. Init => Alone
    BY DEF Init, Alone, Idle
  <1>2. RouterInv /\ Alone /\ [Next]_vars => Alone'
    <2>1. ASSUME Alone, UNCHANGED vars PROVE Alone'
      BY <2>1, SameTaken, AloneOthers DEF vars, storageVars
    <2> QED
      BY <2>1, OneClientAtATime, AloneStep
  <1> QED
    BY <1>1, <1>2, RouterInvariant, PTL DEF Spec

(* AckedNotLost for one request at a time: what POST /tx/record answered   *)
(* with 200 is not replaced, whatever failed before or after.              *)
THEOREM AcknowledgedStays == ASSUME OneClient PROVE Spec => []AckedNotLost
  <1>1. Alone => AckedNotLost
    BY DEF Alone, AckedNotLost
  <1> QED
    BY <1>1, OneClientInvariant, PTL

(* FieldAgrees for one request at a time: a restart does not change which  *)
(* number the server expects.                                              *)
THEOREM RestartExpectsSame == ASSUME OneClient PROVE Spec => []FieldAgrees
  <1>1. Alone => FieldAgrees
    BY DEF Alone, FieldAgrees, Idle
  <1> QED
    BY <1>1, OneClientInvariant, PTL

(* IncreasesByOne for one request at a time: the row last_receive_sequence *)
(* goes up by one and never back.                                          *)
THEOREM SequenceIncreases == ASSUME OneClient PROVE Spec => IncreasesByOne
  <1>1. RouterInv /\ Alone /\ [Next]_vars => [setting' # setting => setting' = setting + 1]_vars
    <2>1. ASSUME UNCHANGED vars PROVE setting' = setting
      BY <2>1 DEF vars, routerVars
    <2> QED
      BY <2>1, OneClientAtATime, AloneStep
  <1> QED
    BY <1>1, OneClientInvariant, PTL DEF Spec, IncreasesByOne
=============================================================================
