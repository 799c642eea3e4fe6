------------------------ MODULE RollupServer_proofs ------------------------
(***************************************************************************)
(* That stop() leaves nothing behind, for every number of schedulers and   *)
(* of calls of stop(); and what holds also when a SIGINT comes too early   *)
(* or a work() outlasts the wait.                                          *)
(***************************************************************************)
EXTENDS RollupServer, TLAPS

(* A server that is stopped once it has started, and whose work() ends     *)
(* within the time that stop() waits for it.                               *)
Orderly == EarlyStop = FALSE /\ WorkTime < Timeout

-----------------------------------------------------------------------------
(* is_working says whether a work() runs. *)
Counted == \A i \in Schedulers : works[i] = IF is_working[i] THEN 1 ELSE 0

(* A scheduler is stopping as long as its work() runs, and no longer. *)
Ended == \A i \in Schedulers :
    /\ state[i] = "STOPPED" => ~is_working[i]
    /\ state[i] = "STOPPING" => is_working[i]

(* A scheduler that is not started yet does nothing. *)
Calm == \A i \in Schedulers :
    starts = 0 \/ (starting <= N /\ starting < i) => ~is_working[i] /\ ~task[i]

(* stop() comes after start(). *)
InOrder ==
    /\ starting <= N => starts > 0
    /\ \A c \in StopCalls : stopping[c].pc # "none" => Started
    /\ Started => server # "null"

(* What a call of stop() has asked the schedulers for, and has got. *)
Asked(c, i) ==
    \/ stopping[c].pc = "stop" /\ i <= stopping[c].at
    \/ stopping[c].pc \in {"wait", "close", "closed"}

Got(c, i) ==
    \/ stopping[c].pc = "wait" /\ i < stopping[c].at
    \/ stopping[c].pc \in {"close", "closed"}

Obeyed == \A c \in StopCalls, i \in Schedulers :
    /\ Asked(c, i) => state[i] \in {"STOPPING", "STOPPED"}
    /\ Got(c, i) => state[i] = "STOPPED" /\ ~task[i]

InTime == \A c \in StopCalls : waited[c] <= WorkTime

Shut == \A c \in StopCalls : Closed(c) => server = "closed"

IInv ==
    /\ TypeOK
    /\ Counted /\ Ended /\ Calm /\ InOrder /\ Obeyed /\ InTime /\ Shut

(* The types of stop(): where a call is says which scheduler it is at. *)
Place == [pc : {"none", "close", "closed"}, at : {0}] \cup [pc : {"stop", "wait"}, at : Schedulers]

LEMMA PlaceAt ==
    ASSUME TypeOK, NEW c \in StopCalls
    PROVE  /\ stopping[c] \in Place
           /\ stopping[c].pc \in {"none", "close", "closed", "stop", "wait"}
           /\ stopping[c].pc \in {"stop", "wait"} => stopping[c].at \in Schedulers
           /\ stopping[c].pc = "none" => stopping[c] = NotCalled
  <1>1. stopping[c] \in Place
    BY DEF TypeOK, Place
  <1>2. CASE stopping[c] \in [pc : {"none", "close", "closed"}, at : {0}]
    BY <1>1, <1>2 DEF NotCalled
  <1>3. CASE stopping[c] \in [pc : {"stop", "wait"}, at : Schedulers]
    BY <1>1, <1>3 DEF NotCalled
  <1> QED BY <1>1, <1>2, <1>3 DEF Place

(* The types do not depend on who stops the server when.                   *)
LEMMA TypeInit == Init => TypeOK
  BY SchedulerAssumption, RollupServerAssumption
  DEF Init, SchedulerInit, NotCalled, TypeOK, SchedulerTypeOK, Schedulers

(* What becomes of a call of stop() has its type. *)
LEMMA TypeStop ==
    ASSUME TypeOK, NEW c \in StopCalls, Stop(c) \/ StopStep(c)
    PROVE  stopping' \in [StopCalls -> Place] /\ waited' \in [StopCalls -> 0..Timeout]
  <1>0. N \in Nat /\ 1 \in Schedulers /\ Timeout \in Nat
    BY SchedulerAssumption, RollupServerAssumption DEF Schedulers
  <1>1. stopping \in [StopCalls -> Place] /\ waited \in [StopCalls -> 0..Timeout]
    BY DEF TypeOK, Place
  <1>2. CASE Stop(c)
    BY <1>0, <1>1, <1>2 DEF Stop, Place
  <1>3. CASE StopNext(c)
    <2>1. stopping[c].at \in Schedulers /\ stopping[c] = [pc |-> "stop", at |-> stopping[c].at]
      BY <1>3, PlaceAt DEF StopNext, Place
    <2>2. CASE stopping[c].at < N
      <3>1. [stopping[c] EXCEPT !.at = stopping[c].at + 1] \in Place
        BY <1>0, <2>1, <2>2 DEF Place, Schedulers
      <3> QED BY <1>1, <1>3, <2>2, <3>1 DEF StopNext
    <2>3. CASE ~(stopping[c].at < N)
      BY <1>0, <1>1, <1>3, <2>3 DEF StopNext, Place
    <2> QED BY <2>2, <2>3
  <1>4. CASE WaitReturns(c)
    <2>1. stopping[c].at \in Schedulers
      BY <1>4, PlaceAt DEF WaitReturns
    <2>2. (IF stopping[c].at < N THEN [pc |-> "wait", at |-> stopping[c].at + 1]
           ELSE [pc |-> "close", at |-> 0]) \in Place
      BY <1>0, <2>1 DEF Place, Schedulers
    <2> QED BY <1>0, <1>1, <1>4, <2>2 DEF WaitReturns
  <1>5. CASE WaitOn(c)
    BY <1>0, <1>1, <1>5 DEF WaitOn
  <1>6. CASE Close(c)
    BY <1>1, <1>6 DEF Close, Place
  <1> QED BY <1>2, <1>3, <1>4, <1>5, <1>6 DEF StopStep

LEMMA TypeStep == TypeOK /\ [Next]_vars => TypeOK'
  <1> SUFFICES ASSUME TypeOK, [Next]_vars PROVE TypeOK'
    OBVIOUS
  <1>0. N \in Nat /\ 1 \in Schedulers /\ MaxStarts \in Nat
    BY SchedulerAssumption, RollupServerAssumption DEF Schedulers
  <1>1. CASE Start
    BY <1>0, <1>1 DEF Start, StartScheduler, TypeOK, SchedulerTypeOK, NotCalled
  <1>2. CASE StartNext
    <2>1. starting \in 1..N /\ starting' = starting + 1
      BY <1>2 DEF StartNext, Schedulers
    <2>2. SchedulerTypeOK'
      BY <1>0, <1>2, <2>1 DEF StartNext, StartScheduler, TypeOK, SchedulerTypeOK, Schedulers, schedulerVars
    <2> QED BY <1>0, <1>2, <2>1, <2>2 DEF StartNext, TypeOK
  <1>3. ASSUME NEW i \in Schedulers, Tick(i) \/ WorkReturns(i), Rest PROVE TypeOK'
    <2>1. CASE Tick(i)
      BY <1>3, <2>1 DEF Tick, Rest, TypeOK, SchedulerTypeOK
    <2>2. CASE WorkReturns(i)
      <3>1. works[i] \in Nat /\ works[i] > 0 /\ works[i] - 1 \in Nat
        BY <2>2 DEF WorkReturns, TypeOK, SchedulerTypeOK
      <3> QED BY <1>3, <2>2, <3>1 DEF WorkReturns, Rest, TypeOK, SchedulerTypeOK
    <2> QED BY <1>3, <2>1, <2>2
  <1>4. ASSUME NEW c \in StopCalls, Stop(c) \/ StopStep(c) PROVE TypeOK'
    <2>1. SchedulerTypeOK'
      BY <1>4 DEF Stop, StopStep, StopNext, WaitReturns, WaitOn, Close, StopScheduler, StopTask,
                  TypeOK, SchedulerTypeOK, schedulerVars
    <2>2. UNCHANGED <<starting, starts>> /\ server' \in {"null", "open", "closed"}
      BY <1>4 DEF Stop, StopStep, StopNext, WaitReturns, WaitOn, Close, TypeOK
    <2> QED BY <1>4, <2>1, <2>2, TypeStop DEF TypeOK, Place
  <1>5. CASE UNCHANGED vars
    BY <1>5 DEF vars, schedulerVars, TypeOK, SchedulerTypeOK
  <1> QED BY <1>1, <1>2, <1>3, <1>4, <1>5 DEF Next, Cron, Progress

(* The variables have their types, also when a SIGINT comes during the     *)
(* start and when a work() outlasts the timeout.                           *)
THEOREM LifecycleTypeCorrect == Spec => []TypeOK
  BY TypeInit, TypeStep, PTL DEF Spec

(* Nothing is started, and nobody has called stop(). *)
LEMMA InitHolds == Init => IInv
  <1> SUFFICES ASSUME Init PROVE IInv
    OBVIOUS
  <1> USE DEF Init, SchedulerInit, NotCalled
  <1>1. TypeOK
    BY SchedulerAssumption, RollupServerAssumption DEF TypeOK, SchedulerTypeOK, Schedulers
  <1>2. Counted /\ Ended /\ Calm /\ Shut
    BY DEF Counted, Ended, Calm, Shut, Closed
  <1>3. InOrder /\ Obeyed /\ InTime
    BY SchedulerAssumption, RollupServerAssumption DEF InOrder, Obeyed, InTime, Asked, Got, Started
  <1> QED BY <1>1, <1>2, <1>3 DEF IInv

(* A scheduler that does not work may be started. *)
LEMMA StartSchedulerHolds ==
    ASSUME IInv, NEW j \in Schedulers, StartScheduler(j), ~is_working[j]
    PROVE  /\ SchedulerTypeOK' /\ Counted' /\ Ended'
           /\ \A i \in Schedulers : is_working'[i] = is_working[i] /\ (i # j => task'[i] = task[i])
  BY DEF IInv, TypeOK, SchedulerTypeOK, Counted, Ended, StartScheduler

(* start() finds the schedulers as new, or as stop() left them. *)
LEMMA StartHolds == IInv /\ Start => IInv'
  <1> SUFFICES ASSUME IInv, Start PROVE IInv'
    OBVIOUS
  <1> USE DEF Start, StartScheduler
  <1>0. 1 \in Schedulers /\ N \in Nat
    BY SchedulerAssumption DEF Schedulers
  <1>1. \A i \in Schedulers : ~is_working[i] /\ ~task[i]
    <2>1. CASE starts = 0
      BY <2>1 DEF IInv, Calm
    <2>2. CASE \E c \in StopCalls : Closed(c)
      BY <2>2 DEF IInv, Obeyed, Got, Closed, Ended
    <2> QED BY <2>1, <2>2
  <1>2. TypeOK'
    BY <1>0, RollupServerAssumption DEF IInv, TypeOK, SchedulerTypeOK, NotCalled
  <1>3. \A i \in Schedulers : ~is_working'[i] /\ (i # 1 => state'[i] = state[i] /\ ~task'[i])
    BY <1>0, <1>1 DEF IInv, TypeOK, SchedulerTypeOK
  <1>4. Counted' /\ Ended'
    BY <1>0, <1>1, <1>3 DEF IInv, TypeOK, SchedulerTypeOK, Counted, Ended
  <1>5. Calm'
    BY <1>0, <1>1, <1>3 DEF IInv, TypeOK, Calm, Schedulers
  <1>6. InOrder'
    BY <1>0, SchedulerAssumption DEF InOrder, Started, NotCalled, IInv, TypeOK
  <1>7. Obeyed' /\ InTime' /\ Shut'
    BY DEF IInv, Obeyed, InTime, Shut, Asked, Got, Closed, NotCalled
  <1> QED BY <1>2, <1>4, <1>5, <1>6, <1>7 DEF IInv

(* The next scheduler to be started is calm, and nobody calls stop() yet. *)
LEMMA StartNextHolds == IInv /\ StartNext => IInv'
  <1> SUFFICES ASSUME IInv, StartNext PROVE IInv'
    OBVIOUS
  <1> USE DEF StartNext
  <1>0. N \in Nat /\ starting \in 1..N /\ starting' = starting + 1
    BY SchedulerAssumption DEF Schedulers
  <1>1. \A c \in StopCalls : stopping[c].pc = "none" /\ stopping'[c] = stopping[c]
    BY <1>0 DEF IInv, InOrder, Started
  <1>2. Obeyed' /\ InTime' /\ Shut'
    BY <1>1 DEF IInv, Obeyed, InTime, Shut, Asked, Got, Closed
  <1>3. CASE starting < N
    <2>1. StartScheduler(starting + 1) /\ UNCHANGED server
      BY <1>3
    <2>2. starting + 1 \in Schedulers /\ ~is_working[starting + 1]
      BY <1>0, <1>3 DEF IInv, Calm, Schedulers
    <2>3. SchedulerTypeOK' /\ Counted' /\ Ended'
      BY <2>1, <2>2, StartSchedulerHolds
    <2>4. TypeOK'
      BY <1>0, <1>3, <2>1, <2>3 DEF IInv, TypeOK
    <2>5. Calm'
      BY <1>0, <2>1, <2>2, StartSchedulerHolds DEF IInv, TypeOK, Calm, InOrder, Schedulers
    <2>6. InOrder'
      BY <1>0, <1>1, <1>3, <2>1 DEF IInv, InOrder, Started
    <2> QED BY <1>2, <2>3, <2>4, <2>5, <2>6 DEF IInv
  <1>4. CASE starting = N
    <2>1. server' = "open" /\ UNCHANGED schedulerVars
      BY <1>0, <1>4
    <2>2. TypeOK'
      BY <1>0, <2>1 DEF IInv, TypeOK, SchedulerTypeOK, schedulerVars
    <2>3. Counted' /\ Ended'
      BY <2>1 DEF IInv, Counted, Ended, schedulerVars
    <2>4. Calm'
      BY <1>0, <1>4, <2>1 DEF IInv, Calm, schedulerVars
    <2>5. InOrder'
      BY <1>0, <1>1, <2>1 DEF IInv, InOrder
    <2> QED BY <1>2, <2>2, <2>3, <2>4, <2>5 DEF IInv
  <1> QED BY <1>0, <1>3, <1>4

(* What a call of stop() does to a scheduler is what any other call has    *)
(* asked for.                                                              *)
LEMMA StopSchedulerHolds ==
    ASSUME IInv, NEW j \in Schedulers, StopScheduler(j)
    PROVE  /\ SchedulerTypeOK' /\ Counted' /\ Ended'
           /\ state'[j] \in {"STOPPING", "STOPPED"}
           /\ \A i \in Schedulers :
                /\ state[i] \in {"STOPPING", "STOPPED"} => state'[i] \in {"STOPPING", "STOPPED"}
                /\ state[i] = "STOPPED" => state'[i] = "STOPPED"
           /\ UNCHANGED <<task, is_working, works>>
  BY DEF IInv, TypeOK, SchedulerTypeOK, Counted, Ended, StopScheduler

LEMMA StopHolds == ASSUME IInv, Orderly, NEW c \in StopCalls, Stop(c) PROVE IInv'
  <1> USE DEF Stop
  <1>0. 1 \in Schedulers /\ Started
    BY SchedulerAssumption DEF Schedulers, Orderly
  <1>1. StopScheduler(1) /\ UNCHANGED <<starting, waited, server, starts>>
    OBVIOUS
  <1>2. \A d \in StopCalls : stopping'[d] = IF d = c THEN [pc |-> "stop", at |-> 1] ELSE stopping[d]
    BY DEF IInv, TypeOK
  <1>3. TypeOK'
    BY <1>0, <1>1, StopSchedulerHolds DEF IInv, TypeOK
  <1>4. Calm' /\ InOrder' /\ InTime' /\ Shut'
    BY <1>0, <1>1, <1>2, StopSchedulerHolds DEF IInv, Calm, InOrder, InTime, Shut, Closed, Started
  <1>5. Obeyed'
    <2> SUFFICES ASSUME NEW d \in StopCalls, NEW i \in Schedulers
                 PROVE  /\ Asked(d, i)' => state'[i] \in {"STOPPING", "STOPPED"}
                        /\ Got(d, i)' => state'[i] = "STOPPED" /\ ~task'[i]
      BY DEF Obeyed
    <2>1. CASE d = c
      BY <1>0, <1>1, <1>2, <2>1, StopSchedulerHolds DEF Asked, Got, Schedulers
    <2>2. CASE d # c
      BY <1>0, <1>1, <1>2, <2>2, StopSchedulerHolds DEF IInv, Obeyed, Asked, Got
    <2> QED BY <2>1, <2>2
  <1> QED BY <1>0, <1>1, <1>3, <1>4, <1>5, StopSchedulerHolds DEF IInv

LEMMA StopNextHolds == ASSUME IInv, Orderly, NEW c \in StopCalls, StopNext(c) PROVE IInv'
  <1> DEFINE j == stopping[c].at
  <1>0. /\ N \in Nat /\ j \in Schedulers /\ stopping[c].pc = "stop" /\ Started
        /\ UNCHANGED <<starting, server, starts>>
    BY SchedulerAssumption, PlaceAt DEF StopNext, IInv, InOrder
  <1>1. CASE j < N
    <2>1. StopScheduler(j + 1) /\ UNCHANGED waited /\ j + 1 \in Schedulers
          /\ stopping' = [stopping EXCEPT ![c].at = j + 1]
      BY <1>0, <1>1 DEF StopNext, Schedulers
    <2>2. stopping'[c] = [pc |-> "stop", at |-> j + 1]
          /\ \A d \in StopCalls : d # c => stopping'[d] = stopping[d]
      <3>1. stopping[c] = [pc |-> "stop", at |-> j]
        BY <1>0, PlaceAt DEF IInv, Place
      <3> QED BY <2>1, <3>1 DEF IInv, TypeOK
    <2>3. stopping' \in [StopCalls -> Place]
      BY <2>1, <2>2 DEF IInv, TypeOK, Place
    <2>4. TypeOK'
      BY <1>0, <2>1, <2>3, StopSchedulerHolds DEF IInv, TypeOK, Place
    <2>5. Calm' /\ InOrder' /\ InTime' /\ Shut'
      BY <1>0, <2>1, <2>2, StopSchedulerHolds DEF IInv, Calm, InOrder, InTime, Shut, Closed, Started
    <2>6. Obeyed'
      <3> SUFFICES ASSUME NEW d \in StopCalls, NEW i \in Schedulers
                   PROVE  /\ Asked(d, i)' => state'[i] \in {"STOPPING", "STOPPED"}
                          /\ Got(d, i)' => state'[i] = "STOPPED" /\ ~task'[i]
        BY DEF Obeyed
      <3>1. CASE d = c
        <4>1. i = j + 1 \/ i <= j \/ i > j + 1
          BY <1>0 DEF Schedulers
        <4>2. ~Got(d, i)' /\ (Asked(d, i)' => i <= j + 1)
          BY <2>2, <3>1 DEF Got, Asked
        <4>3. i <= j => state[i] \in {"STOPPING", "STOPPED"}
          BY <1>0 DEF IInv, Obeyed, Asked
        <4> QED BY <1>0, <2>1, <4>1, <4>2, <4>3, StopSchedulerHolds DEF Schedulers
      <3>2. CASE d # c
        BY <2>1, <2>2, <3>2, StopSchedulerHolds DEF IInv, Obeyed, Asked, Got
      <3> QED BY <3>1, <3>2
    <2> QED BY <2>1, <2>4, <2>5, <2>6, StopSchedulerHolds DEF IInv
  <1>2. CASE j = N
    <2>1. /\ stopping' = [stopping EXCEPT ![c] = [pc |-> "wait", at |-> 1]]
          /\ waited' = [waited EXCEPT ![c] = 0]
          /\ UNCHANGED schedulerVars
      BY <1>0, <1>2 DEF StopNext
    <2>2. \A d \in StopCalls : stopping'[d] = IF d = c THEN [pc |-> "wait", at |-> 1] ELSE stopping[d]
      BY <2>1 DEF IInv, TypeOK
    <2>3. TypeOK'
      BY <1>0, <2>1, RollupServerAssumption DEF IInv, TypeOK, SchedulerTypeOK, schedulerVars, Schedulers
    <2>4. Counted' /\ Ended' /\ Calm' /\ InOrder' /\ Shut'
      BY <1>0, <2>1, <2>2 DEF IInv, Counted, Ended, Calm, InOrder, Shut, Closed, Started, schedulerVars
    <2>5. InTime'
      BY <2>1, RollupServerAssumption DEF IInv, TypeOK, InTime
    <2>6. Obeyed'
      BY <1>0, <1>2, <2>1, <2>2 DEF IInv, Obeyed, Asked, Got, Schedulers, schedulerVars
    <2> QED BY <2>3, <2>4, <2>5, <2>6 DEF IInv
  <1> QED BY <1>0, <1>1, <1>2 DEF Schedulers

(* Nobody waits as long as the timeout, so that a scheduler waited for is  *)
(* stopped.                                                                *)
LEMMA WaitReturnsHolds == ASSUME IInv, Orderly, NEW c \in StopCalls, WaitReturns(c) PROVE IInv'
  <1> DEFINE j == stopping[c].at
             next == IF j < N THEN [pc |-> "wait", at |-> j + 1] ELSE [pc |-> "close", at |-> 0]
  <1>0. /\ N \in Nat /\ j \in Schedulers /\ stopping[c].pc = "wait" /\ Started
        /\ UNCHANGED <<starting, server, starts>>
    BY SchedulerAssumption, PlaceAt DEF WaitReturns, IInv, InOrder
  <1>1. state[j] = "STOPPED"
    BY RollupServerAssumption DEF WaitReturns, IInv, InTime, TypeOK, Orderly
  <1>2. /\ StopTask(j) /\ waited' = [waited EXCEPT ![c] = 0]
        /\ stopping' = [stopping EXCEPT ![c] = next]
    BY DEF WaitReturns
  <1>3. \A d \in StopCalls : stopping'[d] = IF d = c THEN next ELSE stopping[d]
    BY <1>2 DEF IInv, TypeOK
  <1>4. next \in Place
    BY <1>0 DEF Place, Schedulers
  <1>5. TypeOK'
    <2>1. SchedulerTypeOK'
      BY <1>2 DEF IInv, TypeOK, SchedulerTypeOK, StopTask
    <2>2. stopping' \in [StopCalls -> Place]
      BY <1>2, <1>4 DEF IInv, TypeOK, Place
    <2> QED BY <1>0, <1>2, <2>1, <2>2, RollupServerAssumption DEF IInv, TypeOK, Place
  <1>6. Counted' /\ Ended'
    BY <1>2 DEF IInv, Counted, Ended, StopTask
  <1>7. \A i \in Schedulers : task'[i] = (task[i] /\ i # j)
    BY <1>2 DEF IInv, TypeOK, SchedulerTypeOK, StopTask
  <1>8. Calm'
    BY <1>0, <1>2, <1>7 DEF IInv, Calm, StopTask
  <1>9. InOrder' /\ InTime' /\ Shut'
    BY <1>0, <1>2, <1>3, RollupServerAssumption DEF IInv, TypeOK, InOrder, InTime, Shut, Closed, Started
  <1>10. Obeyed'
    <2> SUFFICES ASSUME NEW d \in StopCalls, NEW i \in Schedulers
                 PROVE  /\ Asked(d, i)' => state'[i] \in {"STOPPING", "STOPPED"}
                        /\ Got(d, i)' => state'[i] = "STOPPED" /\ ~task'[i]
      BY DEF Obeyed
    <2>1. state'[i] = state[i]
      BY <1>2 DEF StopTask
    <2>2. CASE d = c
      <3>1. state[i] \in {"STOPPING", "STOPPED"}
        BY <1>0 DEF IInv, Obeyed, Asked
      <3>2. Got(d, i)' => i <= j
        BY <1>0, <1>3, <2>2 DEF Got, Schedulers
      <3>3. i < j => state[i] = "STOPPED" /\ ~task[i]
        BY <1>0 DEF IInv, Obeyed, Got
      <3>4. i <= j => i < j \/ i = j
        BY <1>0 DEF Schedulers
      <3> QED BY <1>1, <1>7, <2>1, <3>1, <3>2, <3>3, <3>4
    <2>3. CASE d # c
      BY <1>3, <1>7, <2>1, <2>3 DEF IInv, Obeyed, Asked, Got
    <2> QED BY <2>2, <2>3
  <1> QED BY <1>5, <1>6, <1>8, <1>9, <1>10 DEF IInv

(* A scheduler that is waited for and not stopped works, so that the wait  *)
(* is within WorkTime.                                                     *)
LEMMA WaitOnHolds == ASSUME IInv, Orderly, NEW c \in StopCalls, WaitOn(c) PROVE IInv'
  <1> DEFINE j == stopping[c].at
  <1>0. j \in Schedulers /\ stopping[c].pc = "wait"
    BY PlaceAt DEF WaitOn, IInv
  <1>1. state[j] = "STOPPING"
    BY <1>0 DEF WaitOn, IInv, Obeyed, Asked
  <1>2. works[j] = 1
    BY <1>0, <1>1 DEF IInv, Counted, Ended
  <1>3. waited[c] < WorkTime /\ waited[c] < Timeout /\ waited' = [waited EXCEPT ![c] = waited[c] + 1]
    BY <1>2 DEF WaitOn
  <1>4. UNCHANGED <<schedulerVars, starting, stopping, server, starts>>
    BY DEF WaitOn
  <1>5. TypeOK'
    BY <1>3, <1>4, RollupServerAssumption DEF IInv, TypeOK, SchedulerTypeOK, schedulerVars
  <1>6. InTime'
    BY <1>3, RollupServerAssumption DEF IInv, TypeOK, InTime
  <1> QED BY <1>4, <1>5, <1>6
        DEF IInv, Counted, Ended, Calm, InOrder, Obeyed, Shut, Started, Asked, Got, Closed, schedulerVars

LEMMA CloseHolds == ASSUME IInv, NEW c \in StopCalls, Close(c) PROVE IInv'
  <1>0. /\ stopping[c].pc = "close" /\ server # "null" /\ server' = "closed"
        /\ UNCHANGED <<schedulerVars, starting, waited, starts>>
    BY DEF Close, IInv, InOrder
  <1>1. stopping' = [stopping EXCEPT ![c] = [pc |-> "closed", at |-> 0]]
    BY DEF Close
  <1>2. \A d \in StopCalls : stopping'[d] = IF d = c THEN [pc |-> "closed", at |-> 0] ELSE stopping[d]
    BY <1>1 DEF IInv, TypeOK
  <1>3. TypeOK'
    BY <1>0, <1>1 DEF IInv, TypeOK, SchedulerTypeOK, schedulerVars
  <1>4. Counted' /\ Ended' /\ Calm' /\ InOrder' /\ InTime' /\ Shut'
    BY <1>0, <1>2 DEF IInv, Counted, Ended, Calm, InOrder, InTime, Shut, Closed, Started, schedulerVars
  <1>5. Obeyed'
    BY <1>0, <1>2 DEF IInv, Obeyed, Asked, Got, schedulerVars
  <1> QED BY <1>3, <1>4, <1>5 DEF IInv

(* cron reaches no scheduler that a call of stop() has seen stopped. *)
LEMMA TickHolds == ASSUME IInv, NEW j \in Schedulers, Tick(j), Rest PROVE IInv'
  <1> USE DEF Tick, Rest
  <1>1. TypeOK'
    BY DEF IInv, TypeOK, SchedulerTypeOK
  <1>2. /\ is_working'[j] = TRUE /\ works'[j] = works[j] + 1 /\ works[j] = 0
        /\ \A i \in Schedulers : i # j => is_working'[i] = is_working[i] /\ works'[i] = works[i]
    BY DEF IInv, TypeOK, SchedulerTypeOK, Counted
  <1>3. Counted' /\ Ended'
    BY <1>2 DEF IInv, Counted, Ended
  <1>4. Calm'
    BY <1>2 DEF IInv, Calm
  <1>5. InOrder' /\ Obeyed' /\ InTime' /\ Shut'
    BY DEF IInv, InOrder, Obeyed, InTime, Shut, Started, Asked, Got, Closed
  <1> QED BY <1>1, <1>3, <1>4, <1>5 DEF IInv

LEMMA WorkReturnsHolds == ASSUME IInv, NEW j \in Schedulers, WorkReturns(j), Rest PROVE IInv'
  <1> USE DEF WorkReturns, Rest
  <1>1. TypeOK'
    BY DEF IInv, TypeOK, SchedulerTypeOK
  <1>2. works[j] = 1 /\ works'[j] = 0 /\ ~is_working'[j]
    <2>1. works[j] = 1
      BY DEF IInv, Counted
    <2> QED BY <2>1 DEF IInv, TypeOK, SchedulerTypeOK
  <1>3. \A i \in Schedulers :
          /\ i # j => is_working'[i] = is_working[i] /\ works'[i] = works[i]
          /\ state'[i] = IF i = j /\ state[i] = "STOPPING" THEN "STOPPED" ELSE state[i]
    BY DEF IInv, TypeOK, SchedulerTypeOK
  <1>4. Counted'
    BY <1>2, <1>3 DEF IInv, Counted
  <1>5. Ended'
    <2> SUFFICES ASSUME NEW i \in Schedulers
                 PROVE  /\ state'[i] = "STOPPED" => ~is_working'[i]
                        /\ state'[i] = "STOPPING" => is_working'[i]
      BY DEF Ended
    <2>1. CASE i = j
      <3>1. state'[j] # "STOPPING"
        BY DEF IInv, TypeOK, SchedulerTypeOK
      <3> QED BY <1>2, <2>1, <3>1
    <2>2. CASE i # j
      BY <1>3, <2>2 DEF IInv, Ended
    <2> QED BY <2>1, <2>2
  <1>6. Calm'
    BY <1>2, <1>3 DEF IInv, Calm
  <1>7. Obeyed'
    BY <1>3 DEF IInv, Obeyed, Asked, Got
  <1>8. InOrder' /\ InTime' /\ Shut'
    BY DEF IInv, InOrder, InTime, Shut, Started, Closed
  <1> QED BY <1>1, <1>4, <1>5, <1>6, <1>7, <1>8 DEF IInv

LEMMA NextHolds == IInv /\ Orderly /\ [Next]_vars => IInv'
  <1> SUFFICES ASSUME IInv, Orderly, [Next]_vars PROVE IInv'
    OBVIOUS
  <1>1. CASE Start
    BY <1>1, StartHolds
  <1>2. CASE Cron
    BY <1>2, TickHolds DEF Cron
  <1>3. CASE Progress
    BY <1>3, StartNextHolds, WorkReturnsHolds DEF Progress
  <1>4. CASE \E c \in StopCalls : Stop(c) \/ StopStep(c)
    BY <1>4, StopHolds, StopNextHolds, WaitReturnsHolds, WaitOnHolds, CloseHolds DEF StopStep
  <1>5. CASE UNCHANGED vars
    BY <1>5 DEF vars, schedulerVars, IInv, TypeOK, SchedulerTypeOK, Counted, Ended, Calm, InOrder,
                Obeyed, InTime, Shut, Started, Asked, Got, Closed
  <1> QED BY <1>1, <1>2, <1>3, <1>4, <1>5 DEF Next

-----------------------------------------------------------------------------
(* The inductive invariant of start(), stop() and the schedulers. *)
THEOREM LifecycleInvariant == Orderly /\ Spec => []IInv
  <1>1. Init => IInv
    BY InitHolds
  <1>2. IInv /\ Orderly /\ [Next]_vars => IInv'
    BY NextHolds
  <1>3. Orderly => []Orderly
    <2>1. Orderly => Orderly'
      BY DEF Orderly
    <2> QED BY <2>1, PTL
  <1> QED BY <1>1, <1>2, <1>3, PTL DEF Spec

(* A scheduler never runs two work() at a time, also when it is started    *)
(* again after a stop (Scheduler.ts:64, 152).                              *)
THEOREM OneWorkAtATime == Orderly /\ Spec => []SingleWork
  <1>1. IInv => SingleWork
    BY DEF IInv, Counted, SingleWork
  <1> QED BY <1>1, LifecycleInvariant, PTL

(* When stop() is over, no work() is cut short, nothing starts another     *)
(* one, and the web service is closed (RollupServer.ts:86-97).             *)
THEOREM StopIsClean == Orderly /\ Spec => []CleanStop
  <1>1. IInv => CleanStop
    BY DEF IInv, Counted, Ended, Obeyed, Got, Shut, Closed, CleanStop
  <1> QED BY <1>1, LifecycleInvariant, PTL

-----------------------------------------------------------------------------
(* A process that starts the server once, as main.ts does, needs no order: *)
(* also with a SIGINT during the start, and with a work() that outlasts    *)
(* the timeout, no scheduler runs two work() at a time.  A second start()  *)
(* would reset is_working under a work() that stop() did not wait for.     *)
OnceStarted == TypeOK /\ Counted /\ Calm /\ (starting <= N => starts > 0)

LEMMA OnceStartedInit == Init => OnceStarted
  BY TypeInit, SchedulerAssumption DEF Init, SchedulerInit, OnceStarted, Counted, Calm

LEMMA OnceStartedStep ==
    ASSUME OnceStarted, [Next]_vars, starts' <= 1
    PROVE  OnceStarted'
  <1>t. TypeOK'
    BY TypeStep DEF OnceStarted
  <1>0. /\ N \in Nat \ {0} /\ 1 \in Schedulers /\ Schedulers = 1..N
        /\ TypeOK' /\ starting \in 1..(N + 1) /\ starts \in Nat
        /\ is_working \in [Schedulers -> BOOLEAN] /\ task \in [Schedulers -> BOOLEAN]
        /\ works \in [Schedulers -> Nat]
    BY <1>t, SchedulerAssumption, RollupServerAssumption
    DEF OnceStarted, TypeOK, SchedulerTypeOK, Schedulers
  <1>1. CASE Start
    <2>1. starts = 0 /\ starts' = 1 /\ starting' = 1 /\ StartScheduler(1)
      BY <1>0, <1>1 DEF Start
    <2>2. \A i \in Schedulers : works[i] = 0 /\ ~is_working[i] /\ ~task[i]
      BY <2>1 DEF OnceStarted, Counted, Calm
    <2>3. \A i \in Schedulers : works'[i] = 0 /\ ~is_working'[i] /\ (i # 1 => ~task'[i])
      BY <1>0, <2>1, <2>2 DEF StartScheduler
    <2>4. Counted'
      BY <2>3 DEF Counted
    <2>5. Calm'
      BY <1>0, <2>1, <2>3 DEF Calm
    <2> QED
      BY <1>0, <2>1, <2>4, <2>5 DEF OnceStarted
  <1>2. CASE StartNext /\ starting < N
    <2> DEFINE k == starting + 1
    <2>1. k \in Schedulers /\ starting' = k /\ starts' = starts /\ StartScheduler(k)
      BY <1>0, <1>2 DEF StartNext
    <2>2. ~is_working[k] /\ works[k] = 0
      BY <1>0, <1>2, <2>1 DEF OnceStarted, Counted, Calm
    <2>3. /\ is_working' = is_working /\ works' = works
          /\ \A i \in Schedulers : i # k => task'[i] = task[i]
      BY <1>0, <2>1, <2>2 DEF StartScheduler
    <2>4. Counted'
      BY <2>3 DEF OnceStarted, Counted
    <2>5. starts' > 0
      BY <1>0, <1>2, <2>1 DEF OnceStarted
    <2>6. Calm'
      BY <1>0, <1>2, <2>1, <2>3, <2>5 DEF OnceStarted, Calm
    <2> QED
      BY <1>0, <2>4, <2>5, <2>6 DEF OnceStarted
  <1>3. CASE StartNext /\ ~(starting < N)
    <2>1. starting' = N + 1 /\ UNCHANGED <<is_working, task, works, starts>>
      BY <1>0, <1>3 DEF StartNext, schedulerVars
    <2> QED
      BY <1>0, <2>1 DEF OnceStarted, Counted, Calm
  <1>4. CASE Cron
    <2>1. PICK i \in Schedulers : Tick(i) /\ Rest
      BY <1>4 DEF Cron
    <2>2. /\ task[i] /\ ~is_working[i] /\ UNCHANGED <<task, starting, starts>>
          /\ is_working' = [is_working EXCEPT ![i] = TRUE]
          /\ works' = [works EXCEPT ![i] = works[i] + 1]
      BY <2>1 DEF Tick, Rest
    <2>3. works[i] = 0
      BY <2>2 DEF OnceStarted, Counted
    <2>4. Counted'
      BY <1>0, <2>2, <2>3 DEF OnceStarted, Counted
    <2>5. Calm'
      BY <1>0, <2>2 DEF OnceStarted, Calm
    <2> QED
      BY <1>0, <2>2, <2>4, <2>5 DEF OnceStarted
  <1>5. CASE \E i \in Schedulers : WorkReturns(i) /\ Rest
    <2>1. PICK i \in Schedulers : WorkReturns(i) /\ Rest
      BY <1>5
    <2>2. /\ works[i] > 0 /\ UNCHANGED <<task, starting, starts>>
          /\ is_working' = [is_working EXCEPT ![i] = FALSE]
          /\ works' = [works EXCEPT ![i] = works[i] - 1]
      BY <2>1 DEF WorkReturns, Rest
    <2>3. works[i] = 1
      BY <2>2 DEF OnceStarted, Counted
    <2>4. Counted'
      BY <1>0, <2>2, <2>3 DEF OnceStarted, Counted
    <2>5. Calm'
      BY <1>0, <2>2 DEF OnceStarted, Calm
    <2> QED
      BY <1>0, <2>2, <2>4, <2>5 DEF OnceStarted
  <1>6. CASE (\E c \in StopCalls : Stop(c) \/ StopStep(c)) \/ UNCHANGED vars
    <2>1. /\ UNCHANGED <<is_working, works, starting, starts>>
          /\ \A i \in Schedulers : task'[i] => task[i]
      BY <1>0, <1>6 DEF Stop, StopStep, StopNext, WaitReturns, WaitOn, Close, StopScheduler,
                        StopTask, vars, schedulerVars
    <2> QED
      BY <1>0, <2>1 DEF OnceStarted, Counted, Calm
  <1> QED
    BY <1>1, <1>2, <1>3, <1>4, <1>5, <1>6 DEF Next, Progress

(* One work() at a time under one start(), whenever SIGINT comes and       *)
(* however long a work() runs on.                                          *)
THEOREM OneStartOneWork == ASSUME MaxStarts = 1 PROVE Spec => []SingleWork
  <1>1. Init => OnceStarted
    BY OnceStartedInit
  <1>2. OnceStarted /\ [Next]_vars => OnceStarted'
    BY OnceStartedStep, TypeStep, RollupServerAssumption DEF OnceStarted, TypeOK
  <1>3. OnceStarted => SingleWork
    BY DEF OnceStarted, Counted, SingleWork
  <1> QED BY <1>1, <1>2, <1>3, PTL DEF Spec
=============================================================================
