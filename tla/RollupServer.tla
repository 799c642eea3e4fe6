---------------------------- MODULE RollupServer ----------------------------
(***************************************************************************)
(* The life of the server (service/RollupServer.ts, main.ts): start()      *)
(* starts the schedulers one after the other and then the web service;     *)
(* stop() stops them one after the other, waits for each, and closes the   *)
(* web service.  main.ts calls stop() at each SIGINT, so that calls of it  *)
(* run interleaved, with each other and with start().                      *)
(*                                                                         *)
(* onStart, which both start() and stop() of a scheduler await, never      *)
(* throws (LastBlockInfo.ts:34-45, 51-70).                                 *)
(***************************************************************************)
EXTENDS Scheduler

CONSTANTS
    StopCalls,   \* calls of stop(), one for each SIGINT
    Timeout,     \* the timeout of waitForStop
    WorkTime,    \* bound: the seconds that stop() waits while a work() runs
    EarlyStop,   \* whether a SIGINT may come before start() is over
    MaxStarts    \* bound: the calls of start()

ASSUME RollupServerAssumption ==
    /\ Timeout \in Nat
    /\ WorkTime \in Nat
    /\ EarlyStop \in BOOLEAN
    /\ MaxStarts \in Nat

VARIABLES
    starting,   \* start: the scheduler whose onStart it awaits, N + 1 when over
    stopping,   \* stop, by call: where it is, and at which scheduler
    waited,     \* waitForStop, by call: now - start, in seconds
    server,     \* this.server: "null", "open" or "closed"
    starts      \* the calls of start()

vars == <<schedulerVars, starting, stopping, waited, server, starts>>

NotCalled == [pc |-> "none", at |-> 0]

Init ==
    /\ SchedulerInit
    /\ starting = N + 1
    /\ stopping = [c \in StopCalls |-> NotCalled]
    /\ waited = [c \in StopCalls |-> 0]
    /\ server = "null"
    /\ starts = 0

Started == starts > 0 /\ starting = N + 1

Closed(c) == stopping[c].pc = "closed"

-----------------------------------------------------------------------------
(* start() is called: at the beginning, and again after it was stopped, as *)
(* test/service/Scheduler.test.ts does.                                    *)
Start ==
    /\ starting = N + 1
    /\ starts < MaxStarts
    /\ starts = 0 \/ \E c \in StopCalls : Closed(c)
    /\ \A c \in StopCalls : Closed(c) \/ stopping[c] = NotCalled
    /\ StartScheduler(1)
    /\ starting' = 1
    /\ stopping' = [c \in StopCalls |-> NotCalled]
    /\ starts' = starts + 1
    /\ UNCHANGED <<waited, server>>

(* onStart of a scheduler returns: the next one is started, and after the  *)
(* last the web service.                                                   *)
StartNext ==
    /\ starting \in Schedulers
    /\ starting' = starting + 1
    /\ IF starting < N
       THEN StartScheduler(starting + 1) /\ UNCHANGED server
       ELSE server' = "open" /\ UNCHANGED schedulerVars
    /\ UNCHANGED <<stopping, waited, starts>>

-----------------------------------------------------------------------------
(* SIGINT: stop() is called. *)
Stop(c) ==
    /\ starts > 0
    /\ Started \/ EarlyStop
    /\ stopping[c] = NotCalled
    /\ StopScheduler(1)
    /\ stopping' = [stopping EXCEPT ![c] = [pc |-> "stop", at |-> 1]]
    /\ UNCHANGED <<starting, waited, server, starts>>

(* Faulty variant: the loop goes past the last scheduler.                  *)
StopNextPastEnd(c) ==
    LET i == stopping[c].at IN
    /\ stopping[c].pc = "stop"
    /\ IF i <= N
       THEN /\ StopScheduler(i + 1)
            /\ stopping' = [stopping EXCEPT ![c].at = i + 1]
            /\ UNCHANGED waited
       ELSE /\ stopping' = [stopping EXCEPT ![c] = [pc |-> "wait", at |-> 1]]
            /\ waited' = [waited EXCEPT ![c] = 0]
            /\ UNCHANGED schedulerVars
    /\ UNCHANGED <<starting, server, starts>>

(* The onStart that stop() of a scheduler awaits returns. *)
StopNext(c) ==
    LET i == stopping[c].at IN
    /\ stopping[c].pc = "stop"
    /\ IF i < N
       THEN /\ StopScheduler(i + 1)
            /\ stopping' = [stopping EXCEPT ![c].at = i + 1]
            /\ UNCHANGED waited
       ELSE /\ stopping' = [stopping EXCEPT ![c] = [pc |-> "wait", at |-> 1]]
            /\ waited' = [waited EXCEPT ![c] = 0]
            /\ UNCHANGED schedulerVars
    /\ UNCHANGED <<starting, server, starts>>

(* waitForStop resolves, when the scheduler is stopped or time is up: its  *)
(* task is stopped, and the next one is waited for.                        *)
WaitReturns(c) ==
    LET i == stopping[c].at IN
    /\ stopping[c].pc = "wait"
    /\ state[i] = "STOPPED" \/ waited[c] >= Timeout
    /\ StopTask(i)
    /\ stopping' = [stopping EXCEPT ![c] =
                      IF i < N THEN [pc |-> "wait", at |-> i + 1]
                      ELSE [pc |-> "close", at |-> 0]]
    /\ waited' = [waited EXCEPT ![c] = 0]
    /\ UNCHANGED <<starting, server, starts>>

(* A second passes for waitForStop. *)
WaitOn(c) ==
    LET i == stopping[c].at IN
    /\ stopping[c].pc = "wait"
    /\ state[i] # "STOPPED"
    /\ waited[c] < Timeout
    /\ works[i] = 0 \/ waited[c] < WorkTime
    /\ waited' = [waited EXCEPT ![c] = waited[c] + 1]
    /\ UNCHANGED <<schedulerVars, starting, stopping, server, starts>>

(* Faulty variant: after an error of close() the promise is not settled.   *)
CloseOnce(c) ==
    /\ stopping[c].pc = "close"
    /\ server # "closed"
    /\ stopping' = [stopping EXCEPT ![c] = [pc |-> "closed", at |-> 0]]
    /\ server' = IF server = "null" THEN "null" ELSE "closed"
    /\ UNCHANGED <<schedulerVars, starting, waited, starts>>

(* The web service is closed, if there is one.  A second call of close()   *)
(* is an error, and the promise is rejected; stop() is over all the same.  *)
Close(c) ==
    /\ stopping[c].pc = "close"
    /\ stopping' = [stopping EXCEPT ![c] = [pc |-> "closed", at |-> 0]]
    /\ server' = IF server = "null" THEN "null" ELSE "closed"
    /\ UNCHANGED <<schedulerVars, starting, waited, starts>>

-----------------------------------------------------------------------------
Rest == UNCHANGED <<starting, stopping, waited, server, starts>>

Cron == \E i \in Schedulers : Tick(i) /\ Rest

Progress ==
    \/ StartNext
    \/ \E i \in Schedulers : WorkReturns(i) /\ Rest

StopStep(c) == StopNext(c) \/ WaitReturns(c) \/ WaitOn(c) \/ Close(c)

Next ==
    \/ Start \/ Cron \/ Progress
    \/ \E c \in StopCalls : Stop(c) \/ StopStep(c)

Spec == Init /\ [][Next]_vars

-----------------------------------------------------------------------------
(* The variables have the types their declarations give them. *)
TypeOK ==
    /\ SchedulerTypeOK
    /\ starting \in 1..(N + 1)
    /\ stopping \in [StopCalls ->
         [pc : {"none", "close", "closed"}, at : {0}] \cup [pc : {"stop", "wait"}, at : Schedulers]]
    /\ waited \in [StopCalls -> 0..Timeout]
    /\ server \in {"null", "open", "closed"}
    /\ starts \in 0..MaxStarts

(* Each scheduler runs one work() at a time (Scheduler.ts:152), over all   *)
(* stops and starts: Node and SendBlock keep state between their awaits    *)
(* that a second work() would spoil.                                       *)
SingleWork == \A i \in Schedulers : works[i] <= 1

(* When stop() is over, which is when the process exits (main.ts:99-100),  *)
(* no work() is cut short, nothing can start another one                   *)
(* (RollupServer.ts:88-89), and no request comes any more (l.90-94).       *)
CleanStop ==
    (\E c \in StopCalls : Closed(c)) =>
        /\ \A i \in Schedulers : works[i] = 0 /\ ~task[i]
        /\ server = "closed"

(* waitForStop waits no longer than the time it is given, "Timeout milli   *)
(* seconds" (Scheduler.ts:102), whatever stop() finds running.  The        *)
(* difference of two times rounded down may be a second more than what has *)
(* passed.                                                                 *)
TimeoutKept == \A c \in StopCalls : (waited[c] - 1) * 1000 <= Timeout
=============================================================================
