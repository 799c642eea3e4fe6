-------------------------------- MODULE Block --------------------------------
(***************************************************************************)
(* The data that the parts of the rollup server exchange: transactions,    *)
(* block headers and their hashes.  The classes come from the library      *)
(* rollup-pm-common, which src/service uses and does not contain.          *)
(*                                                                         *)
(* A transaction is its sequence number and a body; two transactions are   *)
(* equal exactly when their hashes are.  The CID of a header stands for    *)
(* the content that IPFS stores under it, which is the set of              *)
(* transactions of the block (its merkle root and its timestamp are fixed  *)
(* by the content and are left out).                                       *)
(***************************************************************************)
EXTENDS Integers, Sequences, FiniteSets

CONSTANTS
    Uint64Max,   \* type(uint64).max, the value that means "no block yet"
    MaxBlocks,   \* bound: the number of blocks ever created
    MaxTxSeq,    \* bound: sequence numbers are below it
    Body,        \* what a transaction carries besides its sequence number
    Hash         \* block hashes

ASSUME BlockAssumption ==
    /\ Uint64Max \in Nat
    /\ MaxBlocks \in Nat
    /\ MaxTxSeq \in Nat
    /\ MaxBlocks <= Uint64Max
    /\ 0..MaxBlocks \subseteq Hash

Tx == [sequence : 0..(MaxTxSeq - 1), body : Body]
CID == SUBSET Tx

NullHash == 0

Uint64 == 0..Uint64Max

(* RollUp.BlockHeader, and the rows of the table "blocks", whose columns   *)
(* cur_block and prev_block are named as in the contract here.             *)
Header == [height : Uint64, curBlock : Hash, prevBlock : Hash, CID : CID]

(* Block.createBlock(prev_hash, prev_height, txs): the header without its  *)
(* own hash, which is computed where the block is stored.                  *)
CreateBlock(prevHash, prevHeight, txList) ==
    [height |-> prevHeight + 1, prevBlock |-> prevHash, CID |-> txList]
=============================================================================
