------------------------------- MODULE Faults -------------------------------
(***************************************************************************)
(* The faults that an instance admits.  A fault is an outcome that the     *)
(* environment may choose for a call: the set Faults says which kinds an   *)
(* instance allows, MaxFaults how many of them a behaviour contains.       *)
(*                                                                         *)
(*   "crash"        the server process stops and is started again          *)
(*   "stop"         a SIGINT stops the server, which is started again      *)
(*   "clientCrash"  the client stops and is started again                  *)
(*   "lostAnswer"   an answer of the server does not reach the client      *)
(*   "brokenConnection"  the client gives up a request that is served      *)
(*   "ipfs"         IPFS does not store the block                          *)
(*   "insertBlock"  the row of a block cannot be written                   *)
(*   "insertTx"     the row of a transaction cannot be written             *)
(*   "setSetting"   the row of a setting cannot be written                 *)
(*   "getSetting"   the row of a setting cannot be read                    *)
(*   "deleteTx"     the row of a transaction cannot be deleted             *)
(*   "prune"        the rows of old blocks cannot be deleted               *)
(*   "dbRead"       the database cannot be read at the start               *)
(*   "rpcRead"      the contract cannot be read at the start               *)
(*   "send"         the chain cannot be reached any more, before or after  *)
(*                  it took a transaction                                  *)
(*   "resync"       the chain cannot be asked for the account's nonce      *)
(*   "drop"         the chain forgets a transaction that is not mined      *)
(***************************************************************************)
EXTENDS Naturals

CONSTANTS Faults, MaxFaults

ASSUME FaultsAssumption == MaxFaults \in Nat

VARIABLE faults   \* how many faults may still happen

FaultsInit == faults = MaxFaults

Fault(kind) ==
    /\ kind \in Faults
    /\ faults > 0
    /\ faults' = faults - 1
=============================================================================
