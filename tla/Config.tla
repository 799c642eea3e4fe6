------------------------------- MODULE Config -------------------------------
(***************************************************************************)
(* The configuration of a process (service/common/Config.ts): what a file  *)
(* that may leave out fields or sections makes of the defaults.            *)
(*                                                                         *)
(* A field of a section is Undefined, or has a value, of which is told     *)
(* whether it is falsy (0, false, "", null), and of the address whether it *)
(* is an IP address.  The section scheduler has values of its own.         *)
(***************************************************************************)
EXTENDS Naturals, Sequences

CONSTANTS
    Undefined,   \* a field or a section that the file does not have
    Null         \* a section of the file without fields

Default == "default"
Falsy == "falsy"
Given == "given"
NoAddress == "no address"  \* not an IP address

Fields == [
    server        |-> {"address", "port"},
    logging       |-> {"folder", "level", "console"},
    node          |-> {"interval", "max_txs", "send_interval",
                       "ipfs_api_url", "ipfs_gateway_url", "ipfs_test"},
    database      |-> {"path"},
    contracts     |-> {"rollup_manager_key", "rollup_address"},
    authorization |-> {"api_access_token"}]

Sections == DOMAIN Fields

(* The constructors.  SchedulerConfig lists the scheduler node, disabled.  *)
NewScheduler == [enable |-> FALSE, items |-> <<[name |-> "node", enable |-> FALSE]>>]

NewConfig ==
    [s \in Sections \cup {"scheduler"} |->
        IF s = "scheduler" THEN NewScheduler ELSE [f \in Fields[s] |-> Default]]

-----------------------------------------------------------------------------
(* readFromObject, by section. *)

(* if (config.field !== undefined) this.field = config.field               *)
Overlay(section, given) ==
    [f \in DOMAIN section |-> IF given[f] = Undefined THEN section[f] ELSE given[f]]

(* LoggingConfig tests the folder and the level for truth. *)
OverlayLogging(section, given) ==
    [f \in DOMAIN section |->
        IF given[f] = Undefined \/ (f # "console" /\ given[f] = Falsy)
        THEN section[f] ELSE given[f]]

(* ServerConfig starts from its defaults; a section that is missing or     *)
(* null extends them by nothing.                                           *)
OverlayServer(given) ==
    IF given \in {Undefined, Null} THEN NewConfig.server ELSE Overlay(NewConfig.server, given)

(* SchedulerConfig starts from nothing. *)
OverlayScheduler(given) ==
    IF given = Undefined THEN [enable |-> FALSE, items |-> <<>>]
    ELSE [enable |-> IF given.enable = Undefined THEN FALSE ELSE given.enable,
          items |-> IF given.items = Undefined THEN <<>> ELSE given.items]

(* readFromFile throws at a section whose fields cannot be read, and exits *)
(* at an address that is none.                                             *)
Readable(file) ==
    /\ \A s \in Sections \ {"server"} : file[s] \notin {Undefined, Null}
    /\ file["scheduler"] # Null
    /\ OverlayServer(file["server"]).address \in {Default, Given}

ReadFromFile(config, file) ==
    [s \in DOMAIN config |->
        CASE s = "server"    -> OverlayServer(file[s])
          [] s = "scheduler" -> OverlayScheduler(file[s])
          [] s = "logging"   -> OverlayLogging(config[s], file[s])
          [] OTHER           -> Overlay(config[s], file[s])]

(* getScheduler: the first item of that name, {} for undefined.            *)
GetScheduler(scheduler, name) ==
    LET Named == {i \in 1..Len(scheduler.items) : scheduler.items[i].name = name}
    IN  {scheduler.items[i] : i \in {j \in Named : \A k \in Named : j <= k}}
=============================================================================
