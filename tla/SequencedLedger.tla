-------------------------- MODULE SequencedLedger --------------------------
(***************************************************************************)
(* What the server promises to a client that sends one request at a time,  *)
(* without handlers, tables, settings, schedulers or restarts: each number *)
(* is settled once, only what is settled is acknowledged, and the blocks   *)
(* hold what was offered, every settled number before the later ones.      *)
(*                                                                         *)
(* A transaction that was offered and whose number was not settled, as the *)
(* request failed or the server stopped, may still come into a block, next *)
(* to the one that the client then sends under the same number.            *)
(***************************************************************************)
EXTENDS Block

VARIABLES
    offered,    \* the transactions that came into the pool
    settled,    \* by number, the transaction that it stands for
    acked,      \* the transactions acknowledged
    contents    \* the contents of the blocks, in their order

ledgerVars == <<offered, settled, acked, contents>>

Init ==
    /\ offered = {}
    /\ settled = <<>>
    /\ acked = {}
    /\ contents = <<>>

(* Offers and settlements go by the next number. *)
Offer ==
    \E t \in Tx :
        /\ t.sequence = Len(settled)
        /\ offered' = offered \cup {t}
        /\ UNCHANGED <<settled, acked, contents>>

Settle ==
    \E t \in offered :
        /\ t.sequence = Len(settled)
        /\ settled' = Append(settled, t)
        /\ UNCHANGED <<offered, acked, contents>>

(* The last one settled is acknowledged, or it never is. *)
Acknowledge ==
    /\ Len(settled) > 0
    /\ acked' = acked \cup {settled[Len(settled)]}
    /\ UNCHANGED <<offered, settled, contents>>

(* A block takes a transaction with or after all those settled before it.  *)
InOrder(blocks) ==
    \A i \in 1..Len(blocks) : \A t \in blocks[i] : \A n \in 1..t.sequence :
        /\ n <= Len(settled)
        /\ \E k \in 1..i : settled[n] \in blocks[k]

Create ==
    \E list \in SUBSET offered :
        /\ list # {}
        /\ contents' = Append(contents, list)
        /\ InOrder(contents')
        /\ UNCHANGED <<offered, settled, acked>>

Next == Offer \/ Settle \/ Acknowledge \/ Create

Spec == Init /\ [][Next]_ledgerVars
=============================================================================
