-------------------------------- MODULE Main --------------------------------
(***************************************************************************)
(* The process of the server from its start to its exit (main.ts, with     *)
(* Storage.ts, utils/index.ts and WebService.ts): it reads its             *)
(* configuration, opens the database, outside production deploys a new     *)
(* contract, constructs the server with the schedulers that the            *)
(* configuration enables, starts it, and exits after an error or a SIGINT. *)
(*                                                                         *)
(* The tests use the server without main.ts: they construct it and start   *)
(* and stop it again, and no SIGINT ends them.                             *)
(***************************************************************************)
EXTENDS RollupServer, Config

CONSTANT Files   \* what the file of the configuration may say

(* The section scheduler is missing, or has the fields of ISchedulerConfig *)
(* and its items those of ISchedulerItemConfig.                            *)
SchedulerSection ==
    [enable : BOOLEAN \cup {Undefined},
     items  : {Undefined} \cup Seq([name : STRING, enable : BOOLEAN])]

ASSUME MainAssumption ==
    \A f \in Files : f["scheduler"] \in {Undefined, Null} \/ f["scheduler"] \in SchedulerSection

VARIABLES
    program,      \* who uses the server: "main" or "test"
    production,   \* NODE_ENV = "production"
    phase,        \* main: what it awaits, "config", "open", "tables",
                  \* "deploy", or "server" once the server is constructed
    file,         \* the file that was read, {} before
    config,       \* the configuration
    schedules,    \* the names of the schedulers, this.schedules
    portFree,     \* whether the port can be listened on
    exit          \* "none", or the exit code of the process

mainVars == <<program, production, phase, file, config, schedules, portFree, exit>>
allVars == <<vars, mainVars>>

MainInit ==
    /\ Init
    /\ program \in {"main", "test"}
    /\ production \in BOOLEAN
    /\ phase = "config"
    /\ file = {}
    /\ config = NewConfig
    /\ schedules = <<>>
    /\ portFree \in BOOLEAN
    /\ exit = "none"

Running == exit = "none"

(* process.exit(code) *)
Exit(code) ==
    /\ exit' = code
    /\ UNCHANGED <<vars, program, production, phase, file, config, schedules, portFree>>

(* main goes on to the next call it awaits. *)
GoOn(next) ==
    /\ phase' = next
    /\ UNCHANGED <<vars, program, production, file, portFree, exit>>

-----------------------------------------------------------------------------
(* new Node() and new SendBlock(), as far as they are enabled. *)
Enabled(cfg, name) ==
    cfg.scheduler.enable /\ \E item \in GetScheduler(cfg.scheduler, name) : item.enable

(* Faulty variant: whether the schedulers are used at all is not asked.    *)
SchedulesOfItems(cfg) ==
    LET Listed(name) == \E item \in GetScheduler(cfg.scheduler, name) : item.enable
    IN  (IF Listed("node") THEN <<"node">> ELSE <<>>)
        \o (IF Listed("send_block") THEN <<"send_block">> ELSE <<>>)

SchedulesOf(cfg) ==
    (IF Enabled(cfg, "node") THEN <<"node">> ELSE <<>>)
    \o (IF Enabled(cfg, "send_block") THEN <<"send_block">> ELSE <<>>)

(* Config.createWithArgument, and the list of schedulers.  An instance     *)
(* follows the files that enable N of them.                                *)
ReadConfig ==
    /\ Running
    /\ phase = "config"
    /\ \E f \in Files :
         /\ Readable(f)
         /\ Len(SchedulesOf(ReadFromFile(config, f))) = N
         /\ file' = {f}
         /\ config' = ReadFromFile(config, f)
         /\ schedules' = SchedulesOf(config')
    /\ phase' = "open"
    /\ UNCHANGED <<vars, program, production, portFree, exit>>

(* There is no file, or it cannot be used. *)
ReadConfigFails ==
    /\ Running
    /\ phase = "config"
    /\ Exit("1")

(* The database is opened, and its tables are created.  When it cannot be  *)
(* opened, the error is the answer, whatever comes of the tables.          *)
Opened ==
    /\ Running
    /\ phase = "open"
    /\ GoOn("tables")
    /\ UNCHANGED <<config, schedules>>

(* Faulty variant: the contract is deployed without an await.              *)
CreatedNoAwait ==
    /\ Running
    /\ phase = "tables"
    /\ GoOn("server")
    /\ UNCHANGED <<config, schedules>>

Created ==
    /\ Running
    /\ phase = "tables"
    /\ GoOn(IF production THEN "server" ELSE "deploy")
    /\ UNCHANGED <<config, schedules>>

(* HardhatUtils.deployRollupContract, which puts the address of the new    *)
(* contract into the configuration.                                        *)
Deployed ==
    /\ Running
    /\ phase = "deploy"
    /\ config' = [config EXCEPT !.contracts.rollup_address = "deployed"]
    /\ GoOn("server")
    /\ UNCHANGED schedules

(* Any of them fails. *)
SetupFails ==
    /\ Running
    /\ phase \in {"open", "tables", "deploy"}
    /\ Exit("1")

-----------------------------------------------------------------------------
(* A step of the server.  main.ts starts it once, and it does not open its *)
(* port unless that is free.                                               *)
Server(step) ==
    /\ Running
    /\ phase = "server"
    /\ step
    /\ program = "main" => starts' = 1 /\ ~\E c \in StopCalls : Closed(c)
    /\ server' = "open" /\ server # "open" => portFree
    /\ UNCHANGED mainVars

ServerStep == Server(Next)

(* Faulty variant: nobody listens to the error.                            *)
ListenFailsUnheard == FALSE /\ Exit("1")

(* The port cannot be listened on: start() fails with the schedulers       *)
(* running, and whatever they are at is cut short.                         *)
ListenFails ==
    /\ Running
    /\ phase = "server"
    /\ starting = N
    /\ ~portFree
    /\ Exit("1")

(* SIGINT before the server is constructed: the handler throws. *)
SigintTooEarly ==
    /\ Running
    /\ phase \in {"open", "tables", "deploy"}
    /\ program = "main"
    /\ Exit("1")

(* stop() is over. *)
Stopped ==
    /\ Running
    /\ program = "main"
    /\ \E c \in StopCalls : Closed(c)
    /\ Exit("0")

Setup == ReadConfig \/ ReadConfigFails \/ Opened \/ Created \/ Deployed \/ SetupFails

MainNext == Setup \/ ServerStep \/ ListenFails \/ SigintTooEarly \/ Stopped

MainSpec == MainInit /\ [][MainNext]_allVars

(* What main awaits returns or fails, it starts the server, an awaited     *)
(* onStart, work() or stop() goes on, and time passes.  cron need not      *)
(* tick, and there need not be a SIGINT.                                   *)
MainFairSpec ==
    /\ MainSpec
    /\ WF_allVars(Setup)
    /\ WF_allVars(Server(Start))
    /\ WF_allVars(Server(StartNext) \/ ListenFails)
    /\ \A i \in Schedulers : WF_allVars(Server(WorkReturns(i) /\ Rest))
    /\ \A c \in StopCalls : WF_allVars(Server(StopStep(c)))
    /\ WF_allVars(Stopped)

-----------------------------------------------------------------------------
(* The variables have the types their declarations give them. *)
MainTypeOK ==
    /\ TypeOK
    /\ program \in {"main", "test"}
    /\ production \in BOOLEAN /\ portFree \in BOOLEAN
    /\ phase \in {"config", "open", "tables", "deploy", "server"}
    /\ file \subseteq Files
    /\ DOMAIN config = Sections \cup {"scheduler"}
    /\ schedules \in Seq({"node", "send_block"})
    /\ exit \in {"none", "0", "1"}

(* No scheduler ticks, and no request is served, before the contract that  *)
(* the configuration then names is deployed (main.ts 66-70): the first     *)
(* onStart looks for the last block there.                                 *)
DeployedFirst ==
    (server = "open" \/ \E i \in Schedulers : task[i]) =>
        production \/ config.contracts.rollup_address = "deployed"

(* A scheduler ticks only if the file itself enables it, and enables       *)
(* schedulers at all: the default of neither does (main.ts 51-62).         *)
EnabledBy(f, name) ==
    /\ f["scheduler"].enable = TRUE
    /\ \E j \in 1..Len(f["scheduler"].items) :
         f["scheduler"].items[j] = [name |-> name, enable |-> TRUE]

OnlyEnabledTick ==
    \A f \in file, i \in Schedulers : task[i] => EnabledBy(f, schedules[i])

(* The process that main.ts starts serves requests in the end, or exits:   *)
(* no failure of the start leaves it running with its schedulers.          *)
StartDecides == (program = "main") ~> (server = "open" \/ exit # "none")

(* Each call of stop() comes to its end (RollupServer.ts 86-97), also when *)
(* a SIGINT comes again while it waits or closes, or the process exits     *)
(* because another call did.                                               *)
StopEnds == \A c \in StopCalls : stopping[c].pc = "stop" ~> (Closed(c) \/ exit # "none")
=============================================================================
