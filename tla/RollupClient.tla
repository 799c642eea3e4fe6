---------------------------- MODULE RollupClient ----------------------------
(***************************************************************************)
(* The client (client/ClientScheduler.ts, client/Client.ts) and the HTTP   *)
(* interface of the server together.  The client sends one transaction     *)
(* after the other, waits for the answer to each, and asks for the last    *)
(* sequence number when it starts and after every answer but 200.          *)
(*                                                                         *)
(* Its scheduler runs one work() at a time; the random times at which it   *)
(* sends are steps that may come at any time.  When the client is          *)
(* restarted, or its connection breaks, the server goes on with the        *)
(* request that it serves, and may meet the next one in service.           *)
(***************************************************************************)
EXTENDS RollupRouter

CONSTANT EarlyTick   \* whether work() may be called before onStart is over

ASSUME RollupClientAssumption == EarlyTick \in BOOLEAN

VARIABLES
    lastSequence,   \* this.lastSequence
    onStartPc,      \* onStart: "get" awaits the sequence number, "done"
    clientPc,       \* work: "idle", "send" awaits an answer that the server
                    \* has yet to give, "ok" one of 200, "get" the number
    awaited         \* the handler that is to give it, {} or {handler}

clientVars == <<lastSequence, onStartPc, clientPc, awaited>>
allVars == <<vars, clientVars>>

ClientInit ==
    /\ Init
    /\ lastSequence = -1
    /\ onStartPc = "get"
    /\ clientPc = "idle"
    /\ awaited = {}

-----------------------------------------------------------------------------
(* Client.getSequence: -2 is a failure.  The value 0 of the response is    *)
(* false for the condition on it.                                          *)
Answered(sequence) == IF sequence = 0 THEN -2 ELSE sequence

(* Faulty variant: a failure is taken for a number.                        *)
AssignAny(sequence) == lastSequence' = sequence

(* What onStart and work do with it. *)
Assign(sequence) == lastSequence' = IF sequence >= -1 THEN sequence ELSE lastSequence

(* GET /tx/sequence: the row is read and told to the client, or 500 is, or *)
(* the answer is lost.                                                     *)
GetSequence ==
    /\ \/ Assign(Answered(setting)) /\ faults' = faults
       \/ Assign(-2) /\ (Fault("getSetting") \/ Fault("lostAnswer"))
    /\ UNCHANGED <<routerVars, storageVars>>

OnStart ==
    /\ onStartPc = "get"
    /\ onStartPc' = "done"
    /\ GetSequence
    /\ UNCHANGED <<clientPc, awaited>>

-----------------------------------------------------------------------------
(* The handler h answers.  The answer is on its way to the client if that  *)
(* is still there and waits for it: with one that is not 200 it asks for   *)
(* the number, whether or not the answer arrives.                          *)
Respond(h, answer) ==
    /\ clientPc' = IF h \in awaited THEN answer ELSE clientPc
    /\ awaited' = awaited \ {h}
    /\ UNCHANGED <<lastSequence, onStartPc>>

(* makeTransactions *)
NextTransactions == {t \in Tx : t.sequence = lastSequence + 1}

(* work() makes the next transaction and sends it. *)
Send ==
    /\ onStartPc = "done" \/ EarlyTick
    /\ clientPc = "idle"
    /\ \E h \in Handlers, t \in NextTransactions :
         /\ Post(h, t)
         /\ clientPc' = IF request'[h] = Idle THEN "get" ELSE "send"
         /\ awaited' = IF request'[h] = Idle THEN {} ELSE {h}
    /\ UNCHANGED <<lastSequence, onStartPc>>

(* The server goes on with a request. *)
Serve(h) ==
    \/ Answer(h) /\ Respond(h, "ok")
    \/ /\ LoadRead(h) \/ LoadReturn(h) \/ PoolAdd(h) \/ SetSequence(h)
       /\ IF request'[h] = Idle THEN Respond(h, "get") ELSE UNCHANGED clientVars

(* The answer 200 arrives, or is lost. *)
Receive ==
    /\ clientPc = "ok"
    /\ \/ lastSequence' = lastSequence + 1 /\ clientPc' = "idle" /\ faults' = faults
       \/ lastSequence' = lastSequence /\ clientPc' = "get" /\ Fault("lostAnswer")
    /\ UNCHANGED <<routerVars, storageVars, onStartPc, awaited>>

(* Faulty variant: the client goes on without asking.                      *)
AskNothing ==
    /\ clientPc = "get"
    /\ clientPc' = "idle"
    /\ UNCHANGED <<vars, lastSequence, onStartPc, awaited>>

(* Faulty variant: the client counts on after every answer.                *)
AskCounts ==
    /\ clientPc = "get"
    /\ clientPc' = "idle"
    /\ lastSequence' = lastSequence + 1
    /\ UNCHANGED <<vars, onStartPc, awaited>>

(* The client asks for the number after a failure, and work() is over. *)
Ask ==
    /\ clientPc = "get"
    /\ clientPc' = "idle"
    /\ GetSequence
    /\ UNCHANGED <<onStartPc, awaited>>

-----------------------------------------------------------------------------
(* The connection breaks while the client waits for the answer: it asks    *)
(* for the number, and the server goes on with the request.                *)
BreakConnection ==
    /\ clientPc = "send"
    /\ Fault("brokenConnection")
    /\ clientPc' = "get"
    /\ awaited' = {}
    /\ UNCHANGED <<routerVars, storageVars, lastSequence, onStartPc>>

(* The server is restarted, and its connections break. *)
RestartServer ==
    /\ Restart
    /\ clientPc' = IF clientPc = "send" THEN "get" ELSE clientPc
    /\ awaited' = {}
    /\ UNCHANGED <<lastSequence, onStartPc>>

(* The client is restarted; the server goes on with what it was sent. *)
RestartClient ==
    /\ Fault("clientCrash")
    /\ lastSequence' = -1
    /\ onStartPc' = "get"
    /\ clientPc' = "idle"
    /\ awaited' = {}
    /\ UNCHANGED <<routerVars, storageVars>>

ClientNext ==
    \/ OnStart \/ Send \/ Receive \/ Ask
    \/ \E h \in Handlers : Serve(h)
    \/ BreakConnection \/ RestartServer \/ RestartClient

ClientSpec == ClientInit /\ [][ClientNext]_allVars

(* The client ticks every second and sends in the end, the server serves   *)
(* every request, and a call that is awaited returns.                      *)
ClientFairSpec ==
    /\ ClientSpec
    /\ WF_allVars(OnStart)
    /\ WF_allVars(Send)
    /\ \A h \in Handlers : WF_allVars(Serve(h))
    /\ WF_allVars(Receive)
    /\ WF_allVars(Ask)

-----------------------------------------------------------------------------
(* The variables have the types their declarations give them. *)
ClientTypeOK ==
    /\ TypeOK
    /\ lastSequence \in -1..MaxTxSeq
    /\ onStartPc \in {"get", "done"}
    /\ clientPc \in {"idle", "send", "ok", "get"}
    /\ awaited \subseteq Handlers

(* The client does not count past a number that the server has not         *)
(* recorded, whatever is lost, overlaps or is restarted, so that it leaves *)
(* no number out (ClientScheduler.ts:86-92).  It may be one ahead when     *)
(* onStart assigned the number of a transaction whose answer it counts     *)
(* after that.                                                             *)
ClientNotAhead ==
    \A n \in 0..(lastSequence - (IF EarlyTick THEN 1 ELSE 0)) : n \in Recorded

(* The client brings the server from each number to the next, in spite of  *)
(* every failure (ClientScheduler.ts:85-92), unless the row says 0 or does *)
(* not agree with the field: a request that was given up and is served     *)
(* late may set either back (RollupRouter.ts:271, 286-287).  With the last *)
(* two numbers the instance ends.                                          *)
Advances ==
    \A n \in -1..(MaxTxSeq - 3) :
        n = -1 \/ n \in Recorded ~> n + 1 \in Recorded \/ setting = 0 \/ ~FieldAgrees

(* From the number 0 as well, which GET /tx/sequence answers.              *)
AdvancesFromZero == setting = 0 ~> setting > 0
=============================================================================
