------------------------------ MODULE Scheduler ------------------------------
(***************************************************************************)
(* The base class of everything the server does periodically               *)
(* (modules/scheduler/Scheduler.ts), for the N schedulers of a process:    *)
(* what start(), stop(), waitForStop() and a tick of cron do to the state  *)
(* of scheduler i, up to the first call they await.  Who calls them, and   *)
(* in which order, is in the module RollupServer.                          *)
(***************************************************************************)
EXTENDS Integers

CONSTANT N   \* the number of schedulers

ASSUME SchedulerAssumption == N \in Nat \ {0}

Schedulers == 1..N

VARIABLES
    state,        \* this.state
    task,         \* this.task # null: cron ticks
    is_working,   \* this.is_working
    works         \* calls of work() that have not returned

schedulerVars == <<state, task, is_working, works>>

(* The constructor. *)
SchedulerInit ==
    /\ state = [i \in Schedulers |-> "NONE"]
    /\ task = [i \in Schedulers |-> FALSE]
    /\ is_working = [i \in Schedulers |-> FALSE]
    /\ works = [i \in Schedulers |-> 0]

(* start(), up to the call of onStart. *)
StartScheduler(i) ==
    /\ state' = [state EXCEPT ![i] = "RUNNING"]
    /\ is_working' = [is_working EXCEPT ![i] = FALSE]
    /\ task' = [task EXCEPT ![i] = TRUE]
    /\ UNCHANGED works

(* Faulty variant: the work in progress is not considered.                 *)
StopSchedulerAtOnce(i) ==
    /\ state' = [state EXCEPT ![i] = "STOPPED"]
    /\ UNCHANGED <<task, is_working, works>>

(* stop(), up to the call of onStart: a scheduler that works is stopped    *)
(* when the work is over.                                                  *)
StopScheduler(i) ==
    /\ state' = [state EXCEPT ![i] = IF is_working[i] THEN "STOPPING" ELSE "STOPPED"]
    /\ UNCHANGED <<task, is_working, works>>

(* stopTask() *)
StopTask(i) ==
    /\ task' = [task EXCEPT ![i] = FALSE]
    /\ UNCHANGED <<state, is_working, works>>

(* Faulty variant: work() is called whether or not another one is running. *)
TickAnyway(i) ==
    /\ task[i]
    /\ state[i] # "STOPPED"
    /\ is_working' = [is_working EXCEPT ![i] = TRUE]
    /\ works' = [works EXCEPT ![i] = works[i] + 1]
    /\ UNCHANGED <<state, task>>

(* cron calls workTask(), which calls work(). *)
Tick(i) ==
    /\ task[i]
    /\ state[i] # "STOPPED"
    /\ ~is_working[i]
    /\ is_working' = [is_working EXCEPT ![i] = TRUE]
    /\ works' = [works EXCEPT ![i] = works[i] + 1]
    /\ UNCHANGED <<state, task>>

(* work() returns or throws, and workTask() completes a stop that waits.   *)
WorkReturns(i) ==
    /\ works[i] > 0
    /\ works' = [works EXCEPT ![i] = works[i] - 1]
    /\ is_working' = [is_working EXCEPT ![i] = FALSE]
    /\ state' = [state EXCEPT ![i] = IF state[i] = "STOPPING" THEN "STOPPED" ELSE state[i]]
    /\ UNCHANGED task

SchedulerTypeOK ==
    /\ state \in [Schedulers -> {"NONE", "RUNNING", "STOPPING", "STOPPED"}]
    /\ task \in [Schedulers -> BOOLEAN]
    /\ is_working \in [Schedulers -> BOOLEAN]
    /\ works \in [Schedulers -> Nat]
=============================================================================
