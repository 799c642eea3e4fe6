----------------------------- MODULE BlockLedger -----------------------------
(***************************************************************************)
(* What the rollup server promises, without schedulers, tables, nonces,    *)
(* pending transactions or crashes: transactions are received, a block of  *)
(* received transactions is put at the end of one chain of blocks, and     *)
(* the chain is published block by block.                                  *)
(***************************************************************************)
EXTENDS Block

VARIABLES
    received,   \* the transactions received
    ledger,     \* the blocks created
    chain       \* the blocks published

ledgerVars == <<received, ledger, chain>>

Init ==
    /\ received = <<>>
    /\ ledger = <<>>
    /\ chain = <<>>

(* The next transaction in the order of the sequence numbers. *)
Receive ==
    \E t \in Tx :
        /\ t.sequence = Len(received)
        /\ received' = Append(received, t)
        /\ UNCHANGED <<ledger, chain>>

(* The block after the last one; its transactions have all been received.  *)
(* The hash of a block is its place in the ledger.                         *)
Create ==
    \E list \in CID :
        /\ list # {}
        /\ \A t \in list : \E i \in 1..Len(received) : received[i] = t
        /\ ledger' = Append(ledger, [height |-> Len(ledger), curBlock |-> Len(ledger) + 1,
                                     prevBlock |-> Len(ledger), CID |-> list])
        /\ UNCHANGED <<received, chain>>

(* The first block that is not published yet. *)
Publish ==
    /\ Len(chain) < Len(ledger)
    /\ chain' = Append(chain, ledger[Len(chain) + 1])
    /\ UNCHANGED <<received, ledger>>

Next == Receive \/ Create \/ Publish

Spec == Init /\ [][Next]_ledgerVars
=============================================================================
