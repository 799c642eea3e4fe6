---------------------------- MODULE Main_proofs ----------------------------
(***************************************************************************)
(* The process of main.ts uses the server as the module RollupServer says, *)
(* so that what is proved of it there holds for the process; nothing runs  *)
(* before the contract is deployed, and only what the file enables.        *)
(***************************************************************************)
EXTENDS Main, RollupServer_proofs

(* A step of the process is one of the server, or leaves it alone. *)
LEMMA MainSteps == [MainNext]_allVars => [Next]_vars
  <1> SUFFICES ASSUME MainNext PROVE [Next]_vars
    BY DEF allVars
  <1>1. ASSUME Setup PROVE UNCHANGED vars
    BY <1>1 DEF Setup, ReadConfig, ReadConfigFails, Opened, Created, Deployed, SetupFails, Exit, GoOn
  <1>2. ASSUME ServerStep PROVE Next
    BY <1>2 DEF ServerStep, Server
  <1>3. ASSUME ListenFails \/ SigintTooEarly \/ Stopped PROVE UNCHANGED vars
    BY <1>3 DEF ListenFails, SigintTooEarly, Stopped, Exit
  <1> QED BY <1>1, <1>2, <1>3 DEF MainNext

(* The process implements the life of the server: what main.ts does        *)
(* between the steps of start() and stop() does not touch it.              *)
THEOREM MainImplementsServer == MainSpec => Spec
  <1>1. MainInit => Init
    BY DEF MainInit
  <1> QED BY <1>1, MainSteps, PTL DEF MainSpec, Spec

(* SingleWork for the process. *)
THEOREM ProcessOneWork == Orderly /\ MainSpec => []SingleWork
  BY MainImplementsServer, OneWorkAtATime, PTL

(* CleanStop for the process: it exits with 0 with nothing left running.   *)
THEOREM ProcessStopIsClean == Orderly /\ MainSpec => []CleanStop
  BY MainImplementsServer, StopIsClean, PTL

(* SingleWork for main.ts whenever SIGINT comes, and however long a work() *)
(* runs on: it starts the server once.                                     *)
THEOREM MainOneWork == MainSpec => [](program = "main" => SingleWork)
  <1> DEFINE Once == program = "main" => OnceStarted /\ starts <= 1
  <1>1. MainInit => Once
    BY OnceStartedInit DEF MainInit, Init
  <1>2. Once /\ [MainNext]_allVars => Once'
    <2> SUFFICES ASSUME Once, [MainNext]_allVars, program' = "main"
                 PROVE  OnceStarted' /\ starts' <= 1
      OBVIOUS
    <2>1. program = "main"
      BY DEF MainNext, Setup, ReadConfig, ReadConfigFails, Opened, Created, Deployed, SetupFails,
             ServerStep, Server, ListenFails, SigintTooEarly, Stopped, Exit, GoOn, allVars, mainVars
    <2>2. [Next]_vars
      BY MainSteps
    <2>3. starts' <= 1
      <3>1. starts' = 1 \/ UNCHANGED vars
        BY <2>1 DEF MainNext, Setup, ReadConfig, ReadConfigFails, Opened, Created, Deployed,
                    SetupFails, ServerStep, Server, ListenFails, SigintTooEarly, Stopped, Exit,
                    GoOn, allVars
      <3> QED BY <2>1, <3>1 DEF vars
    <2> QED BY <2>1, <2>2, <2>3, OnceStartedStep
  <1>3. Once => (program = "main" => SingleWork)
    BY DEF OnceStarted, Counted, SingleWork
  <1> QED BY <1>1, <1>2, <1>3, PTL DEF MainSpec

-----------------------------------------------------------------------------
(* The configuration has the section that the deployment writes to. *)
HasAddress ==
    /\ "contracts" \in DOMAIN config
    /\ "rollup_address" \in DOMAIN config["contracts"]

(* Nothing runs before the server is constructed, and then the contract is *)
(* there.                                                                  *)
SetupInv ==
    /\ HasAddress
    /\ phase # "server" => server = "null" /\ \A i \in Schedulers : ~task[i]
    /\ phase = "server" => production \/ config["contracts"]["rollup_address"] = "deployed"

LEMMA SetupInvInit == MainInit => SetupInv
  <1> SUFFICES ASSUME MainInit PROVE SetupInv
    OBVIOUS
  <1>1. HasAddress
    <2>1. "contracts" \in Sections /\ "rollup_address" \in Fields["contracts"]
      BY DEF Sections, Fields
    <2>2. config["contracts"] = [f \in Fields["contracts"] |-> Default] /\ "contracts" \in DOMAIN config
      BY <2>1 DEF MainInit, NewConfig
    <2> QED BY <2>1, <2>2 DEF HasAddress
  <1> QED BY <1>1 DEF MainInit, Init, SchedulerInit, SetupInv

(* Reading a file keeps the fields of the sections. *)
LEMMA ReadKeepsAddress ==
    ASSUME NEW f, HasAddress
    PROVE  /\ "contracts" \in DOMAIN ReadFromFile(config, f)
           /\ "rollup_address" \in DOMAIN ReadFromFile(config, f)["contracts"]
  <1>1. ReadFromFile(config, f)["contracts"] = Overlay(config["contracts"], f["contracts"])
    BY DEF ReadFromFile, HasAddress
  <1> QED BY <1>1 DEF ReadFromFile, Overlay, HasAddress

LEMMA SetupInvStep == SetupInv /\ [MainNext]_allVars => SetupInv'
  <1> SUFFICES ASSUME SetupInv, [MainNext]_allVars PROVE SetupInv'
    OBVIOUS
  <1> USE DEF SetupInv
  <1>1. CASE ReadConfig
    <2>1. HasAddress'
      BY <1>1, ReadKeepsAddress DEF ReadConfig, HasAddress
    <2> QED BY <1>1, <2>1 DEF ReadConfig, vars, schedulerVars
  <1>2. CASE Opened
    BY <1>2 DEF Opened, GoOn, HasAddress, vars, schedulerVars
  <1>3. CASE Created
    BY <1>3 DEF Created, GoOn, HasAddress, vars, schedulerVars
  <1>4. CASE Deployed
    <2>1. config' = [config EXCEPT !["contracts"]["rollup_address"] = "deployed"]
      BY <1>4 DEF Deployed
    <2>2. HasAddress' /\ config'["contracts"]["rollup_address"] = "deployed"
      BY <2>1 DEF HasAddress
    <2> QED BY <1>4, <2>2 DEF Deployed, GoOn
  <1>5. CASE ServerStep
    BY <1>5 DEF ServerStep, Server, mainVars, HasAddress
  <1>6. CASE ReadConfigFails \/ SetupFails \/ ListenFails \/ SigintTooEarly \/ Stopped
    BY <1>6 DEF ReadConfigFails, SetupFails, ListenFails, SigintTooEarly, Stopped, Exit, HasAddress,
                vars, schedulerVars
  <1>7. CASE UNCHANGED allVars
    BY <1>7 DEF allVars, mainVars, HasAddress, vars, schedulerVars
  <1> QED BY <1>1, <1>2, <1>3, <1>4, <1>5, <1>6, <1>7 DEF MainNext, Setup

(* DeployedFirst: nothing ticks and nothing is served before the contract  *)
(* of the configuration is deployed, for any file and any failure.         *)
THEOREM ContractDeployedFirst == MainSpec => []DeployedFirst
  <1>1. SetupInv => DeployedFirst
    BY DEF SetupInv, DeployedFirst
  <1> QED BY <1>1, SetupInvInit, SetupInvStep, PTL DEF MainSpec

-----------------------------------------------------------------------------
(* The schedulers that are constructed are enabled, in the order of        *)
(* main.ts.                                                                *)
LEMMA SchedulesAreEnabled ==
    ASSUME NEW cfg
    PROVE  /\ SchedulesOf(cfg) \in Seq({"node", "send_block"})
           /\ \A i \in 1..Len(SchedulesOf(cfg)) : Enabled(cfg, SchedulesOf(cfg)[i])
  <1> DEFINE a == IF Enabled(cfg, "node") THEN <<"node">> ELSE <<>>
             b == IF Enabled(cfg, "send_block") THEN <<"send_block">> ELSE <<>>
  <1>1. /\ a \in Seq({"node", "send_block"}) /\ Len(a) \in 0..1
        /\ \A i \in 1..Len(a) : Enabled(cfg, a[i])
    <2>1. CASE Enabled(cfg, "node")
      BY <2>1
    <2>2. CASE ~Enabled(cfg, "node")
      BY <2>2
    <2> QED BY <2>1, <2>2
  <1>2. /\ b \in Seq({"node", "send_block"}) /\ Len(b) \in 0..1
        /\ \A i \in 1..Len(b) : Enabled(cfg, b[i])
    <2>1. CASE Enabled(cfg, "send_block")
      BY <2>1
    <2>2. CASE ~Enabled(cfg, "send_block")
      BY <2>2
    <2> QED BY <2>1, <2>2
  <1>3. SchedulesOf(cfg) = a \o b
    BY DEF SchedulesOf
  <1> HIDE DEF a, b
  <1>4. /\ a \o b \in Seq({"node", "send_block"}) /\ Len(a \o b) = Len(a) + Len(b)
        /\ \A i \in 1..Len(a) : (a \o b)[i] = a[i]
        /\ \A i \in (Len(a) + 1)..(Len(a) + Len(b)) : (a \o b)[i] = b[i - Len(a)]
    BY <1>1, <1>2
  <1>5. ASSUME NEW i \in 1..(Len(a) + Len(b)) PROVE Enabled(cfg, (a \o b)[i])
    <2>1. CASE i \in 1..Len(a)
      BY <2>1, <1>1, <1>4
    <2>2. CASE i \in (Len(a) + 1)..(Len(a) + Len(b))
      <3>1. i - Len(a) \in 1..Len(b)
        BY <2>2, <1>1, <1>2
      <3> QED BY <2>2, <3>1, <1>2, <1>4
    <2> QED BY <2>1, <2>2, <1>1, <1>2
  <1> QED BY <1>3, <1>4, <1>5

(* What an enabled scheduler says of the file.                             *)
LEMMA EnabledByFile ==
    ASSUME NEW f \in Files, f["scheduler"] # Null, NEW name,
           config["scheduler"] = OverlayScheduler(f["scheduler"]), Enabled(config, name)
    PROVE  EnabledBy(f, name)
  <1> DEFINE given == f["scheduler"]
             s == config["scheduler"]
  <1>1. s.enable /\ \E item \in GetScheduler(s, name) : item.enable
    BY DEF Enabled
  <1>2. given # Undefined
    BY <1>1 DEF OverlayScheduler
  <1>3. given \in SchedulerSection
    BY <1>2, MainAssumption
  <1>4. given.enable = TRUE
    BY <1>1, <1>2, <1>3 DEF OverlayScheduler, SchedulerSection
  <1>5. PICK j \in 1..Len(s.items) : s.items[j].name = name /\ s.items[j].enable
    BY <1>1 DEF GetScheduler
  <1>6. s.items = IF given.items = Undefined THEN <<>> ELSE given.items
    BY <1>2 DEF OverlayScheduler
  <1>7. s.items = given.items /\ given.items \in Seq([name : STRING, enable : BOOLEAN])
    BY <1>3, <1>5, <1>6 DEF SchedulerSection
  <1>8. given.items[j] \in [name : STRING, enable : BOOLEAN]
    <2> DEFINE items == given.items
               Item == [name : STRING, enable : BOOLEAN]
    <2>1. items \in Seq(Item) /\ j \in 1..Len(items)
      BY <1>5, <1>7
    <2> HIDE DEF items, Item
    <2>2. items[j] \in Item
      BY <2>1
    <2> QED BY <2>2 DEF items, Item
  <1>9. given.items[j] = [name |-> name, enable |-> TRUE]
    BY <1>5, <1>7, <1>8
  <1> QED BY <1>4, <1>5, <1>7, <1>9 DEF EnabledBy

(* The sections of the configuration are all there; the schedulers are     *)
(* those of the file that was read, and nobody else enables one.           *)
ScheduleInv ==
    /\ DOMAIN config = Sections \cup {"scheduler"}
    /\ file \subseteq Files
    /\ phase = "config" => file = {}
    /\ \A f \in file : /\ f["scheduler"] # Null
                       /\ config["scheduler"] = OverlayScheduler(f["scheduler"])
                       /\ Len(schedules) = N
    /\ schedules \in Seq({"node", "send_block"})
    /\ \A i \in 1..Len(schedules) : Enabled(config, schedules[i])

LEMMA ScheduleInvInit == MainInit => ScheduleInv
  BY DEF MainInit, NewConfig, ScheduleInv

LEMMA ScheduleInvStep == ScheduleInv /\ [MainNext]_allVars => ScheduleInv'
  <1> SUFFICES ASSUME ScheduleInv, [MainNext]_allVars PROVE ScheduleInv'
    OBVIOUS
  <1>1. CASE ReadConfig
    <2>1. PICK f \in Files :
            /\ Readable(f)
            /\ Len(SchedulesOf(ReadFromFile(config, f))) = N
            /\ file' = {f} /\ config' = ReadFromFile(config, f)
            /\ schedules' = SchedulesOf(config')
      BY <1>1 DEF ReadConfig
    <2>2. /\ DOMAIN config' = DOMAIN config
          /\ config'["scheduler"] = OverlayScheduler(f["scheduler"])
      BY <2>1 DEF ScheduleInv, ReadFromFile
    <2>3. f["scheduler"] # Null
      BY <2>1 DEF Readable
    <2> QED BY <1>1, <2>1, <2>2, <2>3, SchedulesAreEnabled DEF ReadConfig, ScheduleInv
  <1>2. ASSUME phase' = phase \/ phase' # "config", UNCHANGED <<file, schedules>>,
               config'["scheduler"] = config["scheduler"], DOMAIN config' = DOMAIN config
        PROVE  ScheduleInv'
    BY <1>2 DEF ScheduleInv, Enabled
  <1>3. CASE Deployed
    <2>1. config' = [config EXCEPT !["contracts"]["rollup_address"] = "deployed"]
      BY <1>3 DEF Deployed
    <2>2. config'["scheduler"] = config["scheduler"] /\ DOMAIN config' = DOMAIN config
      BY <2>1 DEF ScheduleInv
    <2> QED BY <1>2, <1>3, <2>2 DEF Deployed, GoOn
  <1>4. CASE Opened \/ Created
    BY <1>2, <1>4 DEF Opened, Created, GoOn
  <1>5. CASE ServerStep
    BY <1>2, <1>5 DEF ServerStep, Server, mainVars
  <1>6. CASE ReadConfigFails \/ SetupFails \/ ListenFails \/ SigintTooEarly \/ Stopped
    BY <1>2, <1>6 DEF ReadConfigFails, SetupFails, ListenFails, SigintTooEarly, Stopped, Exit
  <1>7. CASE UNCHANGED allVars
    BY <1>2, <1>7 DEF allVars, mainVars
  <1> QED BY <1>1, <1>3, <1>4, <1>5, <1>6, <1>7 DEF MainNext, Setup

(* OnlyEnabledTick: whichever files there are and however often a name is  *)
(* listed in one, a scheduler that ticks is one that its file enables.     *)
THEOREM OnlyEnabledSchedulersTick == MainSpec => []OnlyEnabledTick
  <1>1. ScheduleInv => OnlyEnabledTick
    <2> SUFFICES ASSUME ScheduleInv, NEW f \in file, NEW i \in Schedulers
                 PROVE  EnabledBy(f, schedules[i])
      BY DEF OnlyEnabledTick
    <2>1. f \in Files /\ i \in 1..Len(schedules)
      BY DEF ScheduleInv, Schedulers
    <2>2. /\ f["scheduler"] # Null /\ config["scheduler"] = OverlayScheduler(f["scheduler"])
          /\ Enabled(config, schedules[i])
      BY <2>1 DEF ScheduleInv
    <2> QED BY <2>1, <2>2, EnabledByFile
  <1> QED BY <1>1, ScheduleInvInit, ScheduleInvStep, PTL DEF MainSpec

(* The process and its configuration have their types. *)
THEOREM ProcessTypeCorrect == MainSpec => []MainTypeOK
  <1> DEFINE Plainly ==
        /\ program \in {"main", "test"}
        /\ production \in BOOLEAN /\ portFree \in BOOLEAN
        /\ phase \in {"config", "open", "tables", "deploy", "server"}
        /\ exit \in {"none", "0", "1"}
  <1>1. MainInit => Plainly
    BY DEF MainInit
  <1>2. Plainly /\ [MainNext]_allVars => Plainly'
    BY DEF MainNext, Setup, ReadConfig, ReadConfigFails, Opened, Created, Deployed, SetupFails,
           ServerStep, Server, ListenFails, SigintTooEarly, Stopped, Exit, GoOn, allVars, mainVars
  <1>3. TypeOK /\ ScheduleInv /\ Plainly => MainTypeOK
    BY DEF ScheduleInv, MainTypeOK
  <1> QED BY <1>1, <1>2, <1>3, ScheduleInvInit, ScheduleInvStep,
             MainImplementsServer, LifecycleTypeCorrect, PTL DEF MainSpec
=============================================================================
