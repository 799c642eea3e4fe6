------------------------ MODULE RollupClient_proofs ------------------------
(***************************************************************************)
(* Proofs about the client and the HTTP interface together, for any number *)
(* of lost answers, broken connections, failing calls and restarts of      *)
(* both, where the server may meet a request in service that its client    *)
(* gave up: the client counts at most one ahead of what is recorded, and   *)
(* not at all when no work() comes before onStart is over.  What needs a   *)
(* client that waits for every answer is proved for one that does.         *)
(***************************************************************************)
EXTENDS RollupClient, RollupRouter_proofs

(* All numbers up to n are recorded. *)
Has(n) == \A r \in 0..n : r \in Recorded

(* So they are after a step. *)
HasNext(n) == \A r \in 0..n : r \in Recorded'

(* How far the client may be ahead: by the transaction in service when     *)
(* onStart assigned a number that has it counted.                          *)
Ahead == IF EarlyTick /\ onStartPc = "done" THEN 1 ELSE 0

(* What the client has counted and is about to count.  The transaction     *)
(* whose answer it awaits has either the number after it, or one that      *)
(* onStart has seen in between.                                            *)
Counting ==
    /\ Has(lastSequence - Ahead)
    /\ clientPc = "ok" => Has(lastSequence + 1 - Ahead)
    /\ \/ \A h \in awaited : request[h].tx.sequence = lastSequence + 1
       \/ Has(lastSequence + 1 - Ahead)

(* The client waits for the answer to one request, while it sends it.      *)
Awaiting ==
    /\ awaited \subseteq Handlers
    /\ awaited # {} => clientPc = "send"
    /\ \A g, h \in awaited : g = h

ClientInv ==
    /\ lastSequence \in Int /\ lastSequence >= -1
    /\ onStartPc \in {"get", "done"}
    /\ clientPc \in {"idle", "send", "ok", "get"}
    /\ ~EarlyTick /\ onStartPc = "get" => clientPc = "idle"
    /\ Awaiting
    /\ Counting

(* The numbers are covered as long as what is recorded stays so, and up to *)
(* each lower one.                                                         *)
LEMMA HasKept ==
    ASSUME Recorded \subseteq Recorded', NEW n \in Int, Has(n)
    PROVE  HasNext(n) /\ \A k \in Int : k <= n => Has(k) /\ HasNext(k)
  BY DEF Has, HasNext

(* A number that a request may go on from is covered. *)
LEMMA LastIsCovered ==
    ASSUME RouterInv, NEW n \in Last
    PROVE  n \in Int /\ Has(n)
  <1>1. Recorded \subseteq Int
    BY DEF RouterInv, Recorded, Tx
  <1> QED
    BY <1>1 DEF RouterInv, Last, Has, NoGap

(* A step of the two is one of the HTTP interface, or leaves it alone; what *)
(* is recorded stays so.                                                   *)
LEMMA ClientRouterStep ==
    ASSUME RouterInv, ClientNext
    PROVE  /\ Next \/ (UNCHANGED routerVars /\ UNCHANGED storageVars)
           /\ RouterInv' /\ Recorded \subseteq Recorded'
  <1>1. CASE Next
    BY <1>1, RouterStep, RequestRecords
  <1>2. CASE UNCHANGED routerVars /\ UNCHANGED storageVars /\ faults' \in 0..MaxFaults
    <2>1. Taken' = Taken /\ Recorded' = Recorded /\ txs' = txs
      BY <1>2, SameTaken DEF storageVars
    <2> QED
      BY <1>2, <2>1, OthersInv DEF RouterInv, TypeOK
  <1>3. faults \in 0..MaxFaults /\ \A kind : Fault(kind) => faults' \in 0..MaxFaults
    BY FaultType DEF RouterInv, TypeOK
  <1>4. CASE OnStart \/ Ask
    BY <1>2, <1>3, <1>4 DEF OnStart, Ask, GetSequence
  <1>5. CASE Receive
    BY <1>2, <1>3, <1>5 DEF Receive
  <1>6. CASE RestartClient \/ BreakConnection
    BY <1>2, <1>3, <1>6 DEF RestartClient, BreakConnection
  <1>7. CASE Send
    BY <1>1, <1>7 DEF Send, NextTransactions, Next
  <1>8. CASE \E h \in Handlers : Serve(h)
    BY <1>1, <1>8 DEF Serve, Next
  <1>9. CASE RestartServer
    BY <1>1, <1>9 DEF RestartServer, Next
  <1> QED
    BY <1>4, <1>5, <1>6, <1>7, <1>8, <1>9 DEF ClientNext

(* What the client assigns is a number of the server, or its own.          *)
LEMMA SequenceAssigned ==
    ASSUME RouterInv, GetSequence
    PROVE  lastSequence' = lastSequence \/ (lastSequence' = setting /\ setting >= -1)
  BY DEF GetSequence, Assign, Answered, RouterInv, TypeOK

(* A step of a request carries the same transaction on, or ends it; the    *)
(* other requests stay where they are.                                     *)
LEMMA RequestKeepsTx ==
    ASSUME RouterInv, NEW h \in Handlers,
           LoadRead(h) \/ LoadReturn(h) \/ PoolAdd(h) \/ SetSequence(h) \/ Answer(h)
    PROVE  /\ request'[h] = Idle \/ request'[h].tx = request[h].tx
           /\ \A g \in Handlers : g # h => request'[g] = request[g]
           /\ Answer(h) => request'[h] = Idle
           /\ Busy(h)
  <1>1. \A r : Continue(h, r) => \A g \in Handlers : request'[g] = IF g = h THEN r ELSE request[g]
    BY OneMoves, RequestTypes DEF RouterInv
  <1>2. CASE LoadRead(h)
    BY <1>1, <1>2 DEF LoadRead, Answer, Busy
  <1>3. CASE LoadReturn(h)
    BY <1>1, <1>3 DEF LoadReturn, Checked, Awaits, Answer, Busy
  <1>4. CASE PoolAdd(h)
    BY <1>1, <1>4 DEF PoolAdd, Awaits, Answer, Busy
  <1>5. CASE SetSequence(h)
    BY <1>1, <1>5 DEF SetSequence, Awaits, Answer, Busy
  <1>6. CASE Answer(h)
    BY <1>1, <1>6 DEF Answer, Awaits, Busy
  <1> QED
    BY <1>2, <1>3, <1>4, <1>5, <1>6

(* The client, the server that serves its requests, and the restarts keep  *)
(* the count.                                                              *)
LEMMA ClientStep ==
    ASSUME RouterInv, ClientInv, ClientNext
    PROVE  ClientInv'
  <1>0. /\ EarlyTick \in BOOLEAN /\ Ahead \in {0, 1}
        /\ Recorded \subseteq Recorded'
        /\ lastSequence \in Int /\ lastSequence >= -1
    BY ClientRouterStep, RollupClientAssumption DEF ClientInv, Ahead
  (* What was covered is, when the number and Ahead stay. *)
  <1>k. ASSUME lastSequence' = lastSequence, onStartPc' = onStartPc
        PROVE  /\ HasNext(lastSequence' - Ahead')
               /\ Has(lastSequence + 1 - Ahead) => HasNext(lastSequence' + 1 - Ahead')
               /\ lastSequence' \in Int /\ lastSequence' >= -1
               /\ onStartPc' \in {"get", "done"}
    <2>1. Ahead' = Ahead
      BY <1>k DEF Ahead
    <2>2. lastSequence - Ahead \in Int /\ lastSequence + 1 - Ahead \in Int
      BY <1>0
    <2> QED
      BY <1>0, <1>k, <2>1, <2>2, HasKept DEF ClientInv, Counting
  (* What the client assigns is covered. *)
  <1>a. ASSUME GetSequence
        PROVE  /\ lastSequence' \in Int /\ lastSequence' >= -1
               /\ lastSequence' = lastSequence \/ HasNext(lastSequence')
               /\ setting' = setting /\ request' = request
    <2>1. /\ lastSequence' = lastSequence \/ (lastSequence' = setting /\ setting >= -1)
          /\ setting' = setting /\ request' = request
      BY <1>a, SequenceAssigned DEF GetSequence, routerVars
    <2>2. setting \in Int /\ Has(setting)
      BY LastIsCovered DEF RouterInv
    <2> QED
      BY <1>0, <2>1, <2>2, HasKept
  <1>1. CASE OnStart
    <2>1. /\ onStartPc = "get" /\ onStartPc' = "done" /\ UNCHANGED <<clientPc, awaited>>
          /\ Ahead = 0 /\ Ahead' = IF EarlyTick THEN 1 ELSE 0
      BY <1>1 DEF OnStart, Ahead
    <2>2. /\ lastSequence' \in Int /\ lastSequence' >= -1 /\ HasNext(lastSequence')
      <3>1. Has(lastSequence)
        <4>1. lastSequence - Ahead = lastSequence
          BY <1>0, <2>1
        <4> QED
          BY <4>1 DEF ClientInv, Counting
      <3> QED
        BY <1>0, <1>1, <1>a, <3>1, HasKept DEF OnStart
    <2>3. HasNext(lastSequence' - Ahead') /\ (EarlyTick => HasNext(lastSequence' + 1 - Ahead'))
      <3>1. CASE EarlyTick
        <4>a. Ahead' = 1
          BY <2>1, <3>1
        <4>1. /\ lastSequence' - Ahead' = lastSequence' - 1
              /\ lastSequence' + 1 - Ahead' = lastSequence'
          <5>1. lastSequence' \in Int
            BY <2>2
          <5>2. \A l \in Int : l + 1 - 1 = l
            OBVIOUS
          <5> QED
            BY <4>a, <5>1, <5>2
        <4>2. HasNext(lastSequence' - 1)
          <5>1. lastSequence' \in Int
            BY <2>2
          <5>2. \A l \in Int : HasNext(l) => HasNext(l - 1)
            BY DEF HasNext
          <5> QED
            BY <2>2, <5>1, <5>2
        <4> QED
          BY <2>2, <4>1, <4>2
      <3>2. CASE ~EarlyTick
        <4>a. Ahead' = 0
          BY <2>1, <3>2
        <4>1. lastSequence' - Ahead' = lastSequence'
          <5>1. lastSequence' \in Int
            BY <2>2
          <5>2. \A l \in Int : l - 0 = l
            OBVIOUS
          <5> QED
            BY <4>a, <5>1, <5>2
        <4> QED
          BY <2>2, <3>2, <4>1
      <3> QED
        BY <3>1, <3>2, <1>0
    <2>4. ~EarlyTick => clientPc' = "idle" /\ awaited' = {}
      BY <2>1 DEF ClientInv, Awaiting
    <2> QED
      BY <1>0, <2>1, <2>2, <2>3, <2>4 DEF ClientInv, Awaiting, Counting, Has, HasNext
  <1>2. CASE Send
    <2>1. PICK h \in Handlers, t \in NextTransactions :
             /\ Post(h, t)
             /\ clientPc' = IF request'[h] = Idle THEN "get" ELSE "send"
             /\ awaited' = IF request'[h] = Idle THEN {} ELSE {h}
      BY <1>2 DEF Send
    <2>2. UNCHANGED <<lastSequence, onStartPc>> /\ (onStartPc = "done" \/ EarlyTick)
      BY <1>2 DEF Send
    <2>3. t \in Tx /\ t.sequence = lastSequence + 1
      BY DEF NextTransactions
    <2>4. request'[h] = Idle \/ request'[h].tx = t
      <3>1. \A r : Continue(h, r) => request'[h] = r
        BY OneMoves, RequestTypes DEF RouterInv
      <3> QED
        BY <2>1, <3>1 DEF Post, Checked, Awaits
    <2>5. \A g \in awaited' : request'[g].tx.sequence = lastSequence' + 1
      BY <2>1, <2>2, <2>3, <2>4
    <2>6. Awaiting'
      BY <2>1 DEF Awaiting
    <2>7. clientPc' \in {"send", "get"}
      BY <2>1
    <2> QED
      BY <1>k, <2>2, <2>5, <2>6, <2>7 DEF ClientInv, Counting, Has, HasNext
  <1>3. ASSUME NEW h \in Handlers, Serve(h) PROVE ClientInv'
    <2>1. LoadRead(h) \/ LoadReturn(h) \/ PoolAdd(h) \/ SetSequence(h) \/ Answer(h)
      BY <1>3 DEF Serve
    <2>2. UNCHANGED <<lastSequence, onStartPc>>
      BY <1>3 DEF Serve, Respond, clientVars
    <2>3. /\ awaited' = awaited \/ awaited' = awaited \ {h}
          /\ h \in awaited' => request'[h] # Idle
      BY <1>3, <2>1, RequestKeepsTx DEF Serve, Respond, clientVars
    <2>4. \A g \in awaited' : g \in awaited /\ request'[g].tx = request[g].tx
      <3>1. \A g \in awaited' : g \in awaited /\ g \in Handlers
        BY <2>3 DEF ClientInv, Awaiting
      <3>2. h \in awaited' => request'[h].tx = request[h].tx
        BY <2>1, <2>3, RequestKeepsTx
      <3>3. \A g \in Handlers : g # h => request'[g] = request[g]
        BY <2>1, RequestKeepsTx
      <3> QED
        BY <3>1, <3>2, <3>3
    <2>5. /\ clientPc' = clientPc \/ (h \in awaited /\ awaited' = awaited \ {h} /\ clientPc' \in {"ok", "get"})
          /\ clientPc' = "ok" => clientPc = "ok" \/ (Answer(h) /\ h \in awaited)
      BY <1>3 DEF Serve, Respond, clientVars
    <2>6. Awaiting'
      BY <2>4, <2>5 DEF ClientInv, Awaiting
    <2>7. clientPc' = "ok" => HasNext(lastSequence' + 1 - Ahead')
      <3>1. ASSUME Answer(h), h \in awaited PROVE Has(lastSequence + 1 - Ahead)
        <4>1. request[h].tx.sequence \in Last
          BY <3>1 DEF Answer, RouterInv, Going, Last
        <4>2. Has(request[h].tx.sequence) /\ request[h].tx.sequence \in Int
          BY <4>1, LastIsCovered
        <4>3. CASE request[h].tx.sequence = lastSequence + 1
          <5>1. lastSequence + 1 - Ahead \in Int /\ lastSequence + 1 - Ahead <= lastSequence + 1
            BY <1>0
          <5> QED
            BY <1>0, <4>2, <4>3, <5>1 DEF Has
        <4> QED
          BY <3>1, <4>3 DEF ClientInv, Counting
      <3> QED
        BY <1>k, <2>2, <2>5, <3>1 DEF ClientInv, Counting
    <2>8. ~EarlyTick /\ onStartPc' = "get" => clientPc' = "idle"
      BY <2>2, <2>5 DEF ClientInv, Awaiting
    <2>9. clientPc' \in {"idle", "send", "ok", "get"}
      BY <2>5 DEF ClientInv
    <2>10. \/ \A g \in awaited' : request'[g].tx.sequence = lastSequence' + 1
           \/ HasNext(lastSequence' + 1 - Ahead')
      BY <1>k, <2>2, <2>4 DEF ClientInv, Counting
    <2> QED
      BY <1>k, <2>2, <2>6, <2>7, <2>8, <2>9, <2>10 DEF ClientInv, Counting, Has, HasNext
  <1>4. CASE Receive
    <2>1. /\ clientPc = "ok" /\ UNCHANGED <<onStartPc, awaited>>
          /\ \/ lastSequence' = lastSequence + 1 /\ clientPc' = "idle"
             \/ lastSequence' = lastSequence /\ clientPc' = "get"
      BY <1>4 DEF Receive
    <2>2. awaited' = {}
      BY <2>1 DEF ClientInv, Awaiting
    <2>3. CASE lastSequence' = lastSequence + 1 /\ clientPc' = "idle"
      <3>1. Ahead' = Ahead
        BY <2>1 DEF Ahead
      <3>2. lastSequence' - Ahead' = lastSequence + 1 - Ahead /\ lastSequence + 1 - Ahead \in Int
        BY <1>0, <2>3, <3>1
      <3>3. HasNext(lastSequence' - Ahead')
        BY <1>0, <2>1, <3>2, HasKept DEF ClientInv, Counting
      <3> QED
        BY <1>0, <2>1, <2>2, <2>3, <3>3 DEF ClientInv, Counting, Awaiting, Has, HasNext
    <2>4. CASE lastSequence' = lastSequence /\ clientPc' = "get"
      BY <1>k, <2>1, <2>2, <2>4 DEF ClientInv, Counting, Awaiting, Has, HasNext
    <2> QED
      BY <2>1, <2>3, <2>4
  <1>5. CASE Ask
    <2>1. clientPc = "get" /\ clientPc' = "idle" /\ UNCHANGED <<onStartPc, awaited>> /\ Ahead' = Ahead
      BY <1>5 DEF Ask, Ahead
    <2>2. awaited' = {}
      BY <2>1 DEF ClientInv, Awaiting
    <2>3. lastSequence' \in Int /\ lastSequence' >= -1 /\ HasNext(lastSequence' - Ahead')
      <3>1. CASE lastSequence' = lastSequence
        BY <1>k, <2>1, <3>1
      <3>2. CASE HasNext(lastSequence') /\ lastSequence' \in Int /\ lastSequence' >= -1
        <4>1. lastSequence' - Ahead' \in Int /\ lastSequence' - Ahead' <= lastSequence'
          <5>1. Ahead' \in {0, 1}
            BY <1>0, <2>1
          <5>2. \A l \in Int : \A a \in {0, 1} : l - a \in Int /\ l - a <= l
            OBVIOUS
          <5> QED
            BY <3>2, <5>1, <5>2
        <4> QED
          BY <3>2, <4>1 DEF HasNext
      <3> QED
        BY <1>5, <1>a, <3>1, <3>2 DEF Ask
    <2> QED
      BY <2>1, <2>2, <2>3 DEF ClientInv, Counting, Awaiting, Has, HasNext
  <1>6. CASE RestartServer \/ BreakConnection
    <2>1. /\ UNCHANGED <<lastSequence, onStartPc>> /\ awaited' = {}
          /\ clientPc' = IF clientPc = "send" THEN "get" ELSE clientPc
      BY <1>6 DEF RestartServer, BreakConnection
    <2> QED
      BY <1>k, <2>1 DEF ClientInv, Counting, Awaiting, Has, HasNext
  <1>7. CASE RestartClient
    <2>1. lastSequence' = -1 /\ onStartPc' = "get" /\ clientPc' = "idle" /\ awaited' = {}
      BY <1>7 DEF RestartClient
    <2>2. Ahead' = 0
      BY <2>1 DEF Ahead
    <2>3. Has(lastSequence - Ahead)'
      BY <2>1, <2>2 DEF Has
    <2> QED
      BY <2>1, <2>3 DEF ClientInv, Counting, Awaiting
  <1> QED
    BY <1>1, <1>2, <1>3, <1>4, <1>5, <1>6, <1>7 DEF ClientNext

(* The invariant of the client and the HTTP interface together. *)
THEOREM ClientInvariant == ClientSpec => [](RouterInv /\ ClientInv)
  <1>1. ClientInit => RouterInv /\ ClientInv
    <2> SUFFICES ASSUME ClientInit PROVE RouterInv /\ ClientInv
      OBVIOUS
    <2>1. RouterInv
      BY RouterInvInit DEF ClientInit
    <2>2. /\ lastSequence = -1 /\ onStartPc = "get" /\ clientPc = "idle" /\ awaited = {}
          /\ Ahead = 0
      BY DEF ClientInit, Ahead
    <2> QED
      BY <2>1, <2>2 DEF ClientInv, Counting, Awaiting, Has
  <1>2. RouterInv /\ ClientInv /\ [ClientNext]_allVars => (RouterInv /\ ClientInv)'
    <2>1. ASSUME RouterInv, ClientInv, UNCHANGED allVars
          PROVE  RouterInv' /\ ClientInv'
      <3>1. UNCHANGED routerVars /\ UNCHANGED storageVars /\ UNCHANGED clientVars /\ faults' = faults
        BY <2>1 DEF allVars, vars
      <3>2. Taken' = Taken /\ Recorded' = Recorded /\ txs' = txs
        BY <3>1, SameTaken DEF storageVars
      <3>3. RouterInv'
        BY <2>1, <3>1, <3>2, OthersInv DEF RouterInv, TypeOK
      <3>4. ClientInv'
        BY <2>1, <3>1, <3>2 DEF ClientInv, Counting, Awaiting, Has, Ahead, routerVars, clientVars
      <3> QED
        BY <3>3, <3>4
    <2> QED
      BY <2>1, ClientRouterStep, ClientStep
  <1> QED
    BY <1>1, <1>2, PTL DEF ClientSpec

(* The variables of the client and of the HTTP interface have their types. *)
THEOREM ClientTypeCorrect == ClientSpec => []ClientTypeOK
  <1>1. RouterInv /\ ClientInv => ClientTypeOK
    <2> SUFFICES ASSUME RouterInv, ClientInv PROVE ClientTypeOK
      OBVIOUS
    <2>1. Recorded \subseteq 0..(MaxTxSeq - 1) /\ Ahead \in {0, 1} /\ MaxTxSeq \in Nat
      BY BlockAssumption DEF RouterInv, Recorded, Tx, Ahead
    <2>2. lastSequence \in Int /\ lastSequence >= -1 /\ Has(lastSequence - Ahead)
      BY DEF ClientInv, Counting
    <2>3. lastSequence - Ahead >= 0 => lastSequence - Ahead \in Recorded
      BY <2>1, <2>2 DEF Has
    <2>4. lastSequence \in -1..MaxTxSeq
      BY <2>1, <2>2, <2>3
    <2> QED
      BY <2>4 DEF ClientTypeOK, RouterInv, ClientInv, Awaiting
  <1> QED
    BY <1>1, ClientInvariant, PTL

(* ClientNotAhead: over lost answers, broken connections, failing calls    *)
(* and restarts the client does not count ahead of what is recorded, so it *)
(* leaves no number out.                                                   *)
THEOREM ClientCountsNotAhead == ClientSpec => []ClientNotAhead
  <1>1. ClientInv => ClientNotAhead
    <2> SUFFICES ASSUME ClientInv PROVE ClientNotAhead
      OBVIOUS
    <2>1. /\ lastSequence \in Int /\ Has(lastSequence - Ahead)
          /\ EarlyTick \in BOOLEAN /\ Ahead \in {0, 1} /\ (Ahead = 1 => EarlyTick)
      BY RollupClientAssumption DEF ClientInv, Counting, Ahead
    <2> QED
      BY <2>1 DEF ClientNotAhead, Has
  <1> QED
    BY <1>1, ClientInvariant, PTL

(* NoGap and NeverAhead with a client that repeats itself, gives requests  *)
(* up and is restarted, also where the server meets the request that was   *)
(* given up and the next one in service at the same time: no number is     *)
(* skipped, and none is answered that was not recorded.                    *)
THEOREM ClientIsServed == ClientSpec => [](NoGap /\ NeverAhead)
  <1>1. RouterInv => NoGap /\ NeverAhead
    BY DEF RouterInv, NeverAhead, Last
  <1> QED
    BY <1>1, ClientInvariant, PTL

-----------------------------------------------------------------------------
(* The client gives no request up: neither it nor a connection breaks,     *)
(* unless the server does.                                                 *)
Patient == Faults \cap {"clientCrash", "brokenConnection"} = {}

(* Then every request in service is the one that the client waits for.     *)
Awaited == \A h \in Handlers : Busy(h) => h \in awaited

(* So there is one at a time. *)
LEMMA AwaitedIsOne == Awaited /\ Awaiting => OneAtATime
  BY DEF Awaited, Awaiting, OneAtATime

LEMMA AwaitedStep ==
    ASSUME Patient, RouterInv, ClientInv, Awaited, ClientNext
    PROVE  Awaited'
  <1>1. ASSUME request' = request, awaited' = awaited PROVE Awaited'
    BY <1>1 DEF Awaited, Busy
  <1>2. CASE OnStart \/ Receive \/ Ask
    BY <1>1, <1>2 DEF OnStart, Receive, Ask, GetSequence, routerVars
  <1>3. CASE Send
    <2>1. PICK h \in Handlers, t \in NextTransactions :
             Post(h, t) /\ awaited' = IF request'[h] = Idle THEN {} ELSE {h}
      BY <1>3 DEF Send
    <2>2. \A g \in Handlers : g # h => request'[g] = request[g]
      BY <2>1, OneMoves, RequestTypes DEF Post, RouterInv
    <2>3. \A g \in Handlers : ~Busy(g)
      BY <1>3 DEF Send, ClientInv, Awaiting, Awaited
    <2> QED
      BY <2>1, <2>2, <2>3 DEF Awaited, Busy, Idle
  <1>4. ASSUME NEW h \in Handlers, Serve(h) PROVE Awaited'
    <2>1. LoadRead(h) \/ LoadReturn(h) \/ PoolAdd(h) \/ SetSequence(h) \/ Answer(h)
      BY <1>4 DEF Serve
    <2>2. /\ \A g \in Handlers : g # h => request'[g] = request[g]
          /\ awaited' = awaited \/ (awaited' = awaited \ {h} /\ request'[h] = Idle)
          /\ Busy(h)
      BY <1>4, <2>1, RequestKeepsTx DEF Serve, Respond, clientVars
    <2> QED
      BY <2>2 DEF Awaited, Busy, Idle
  <1>5. CASE RestartServer
    BY <1>5 DEF RestartServer, Restart, Awaited, Busy, Idle
  <1>6. ~RestartClient /\ ~BreakConnection
    BY DEF Patient, RestartClient, BreakConnection, Fault
  <1> QED
    BY <1>2, <1>3, <1>4, <1>5, <1>6 DEF ClientNext

(* The invariant of one request at a time, with such a client. *)
THEOREM PatientInvariant ==
    ASSUME Patient PROVE ClientSpec => [](RouterInv /\ ClientInv /\ Awaited /\ Alone)
  <1>1. ClientInit => Awaited /\ Alone
    BY DEF ClientInit, Init, Alone, Awaited, Busy, Idle
  <1>2. RouterInv /\ ClientInv /\ Awaited /\ Alone /\ RouterInv' /\ ClientInv' /\ [ClientNext]_allVars
           => Awaited' /\ Alone'
    <2> SUFFICES ASSUME RouterInv, ClientInv, Awaited, Alone, RouterInv', ClientInv',
                        [ClientNext]_allVars
                 PROVE  Awaited' /\ Alone'
      OBVIOUS
    <2>1. Awaited'
      <3>1. CASE UNCHANGED allVars
        BY <3>1 DEF allVars, vars, routerVars, clientVars, Awaited, Busy
      <3> QED
        BY <3>1, AwaitedStep
    <2>2. OneAtATime /\ OneAtATime'
      <3>1. Awaiting /\ Awaiting'
        BY DEF ClientInv
      <3>2. OneAtATime
        BY <3>1, AwaitedIsOne
      <3>3. OneAtATime'
        BY <2>1, <3>1 DEF Awaited, Awaiting, OneAtATime
      <3> QED
        BY <3>2, <3>3
    <2>3. Next \/ (UNCHANGED routerVars /\ UNCHANGED storageVars)
      BY ClientRouterStep DEF allVars, vars
    <2>4. CASE Next
      BY <2>1, <2>2, <2>4, AloneStep
    <2>5. CASE UNCHANGED routerVars /\ UNCHANGED storageVars
      BY <2>1, <2>5, SameTaken, AloneOthers DEF storageVars
    <2> QED
      BY <2>1, <2>3, <2>4, <2>5
  <1> QED
    BY <1>1, <1>2, ClientInvariant, PTL DEF ClientSpec

(* AckedNotLost and FieldAgrees for a client that waits for every answer:  *)
(* however its answers are lost and the server fails and is restarted,     *)
(* what was acknowledged stays recorded, and a restart does not change the *)
(* number that the server expects.                                         *)
THEOREM PatientClientKeeps == ASSUME Patient PROVE ClientSpec => [](AckedNotLost /\ FieldAgrees)
  <1>1. Alone => AckedNotLost /\ FieldAgrees
    BY DEF Alone, AckedNotLost, FieldAgrees, Idle
  <1> QED
    BY <1>1, PatientInvariant, PTL
=============================================================================
