--------------------------- MODULE RollupStorage ---------------------------
(***************************************************************************)
(* The SQLite database of the rollup server, tables tx and blocks          *)
(* (service/storage/RollupStorage.ts and schema/RollupSchema.ts).  Every   *)
(* statement is atomic, and what it wrote survives a crash.                *)
(***************************************************************************)
EXTENDS Block

VARIABLES
    txs,      \* table tx: the transactions received and not yet in a block
    blocks,   \* table blocks
    ledger    \* history: every row ever inserted into blocks, in that order

storageVars == <<txs, blocks, ledger>>

StorageInit ==
    /\ txs = {}
    /\ blocks = {}
    /\ ledger = <<>>

-----------------------------------------------------------------------------
(* Faulty variant: the insert is ignored when the sequence exists.         *)
InsertTxIgnored(t) ==
    txs' = IF \E u \in txs : u.sequence = t.sequence THEN txs ELSE txs \cup {t}

(* insertTx: INSERT OR REPLACE, and the primary key of tx is sequence.     *)
InsertTx(t) == txs' = {u \in txs : u.sequence # t.sequence} \cup {t}

(* Faulty variant: ORDER BY sequence DESC.                                 *)
SelectTxByLengthDesc(length) ==
    {t \in txs : Cardinality({u \in txs : u.sequence > t.sequence}) < length}

(* selectTxByLength: ORDER BY sequence ASC LIMIT length.  The rows are     *)
(* processed in that order, so a set of them says which they are.          *)
SelectTxByLength(length) ==
    {t \in txs : Cardinality({u \in txs : u.sequence < t.sequence}) < length}

(* Faulty variant: the hash matches no row.                                *)
DeleteTxByHashNone(t) == txs' = txs

(* deleteTxByHash *)
DeleteTxByHash(t) == txs' = txs \ {t}

-----------------------------------------------------------------------------
(* insertBlock: a plain INSERT, and the primary key of blocks is height.   *)
(* cur_block is the hash of the header, which no other block has.          *)
HeightIsFree(height) == \A row \in blocks : row.height # height

NextHash == Len(ledger) + 1

InsertBlock(b, cid) ==
    LET row == [height |-> b.height, curBlock |-> NextHash,
                prevBlock |-> b.prevBlock, CID |-> cid]
    IN  /\ HeightIsFree(b.height)
        /\ blocks' = blocks \cup {row}
        /\ ledger' = Append(ledger, row)

(* selectLastHeight and selectBlockByHeight answer with a row or with null *)
(* or undefined: a set of at most one row.                                 *)
LastRow == {row \in blocks : \A other \in blocks : other.height <= row.height}

SelectBlockByHeight(height) == {row \in blocks : row.height = height}

(* Faulty variant: DELETE FROM blocks WHERE height <= ?                    *)
DeleteBlockByHeightToo(height) == blocks' = {row \in blocks : row.height > height}

(* Faulty variant: the block before the contract's last is kept too.       *)
DeleteBlockByHeightLess(height) == blocks' = {row \in blocks : row.height >= height - 1}

(* deleteBlockByHeight: DELETE FROM blocks WHERE height < ? *)
DeleteBlockByHeight(height) == blocks' = {row \in blocks : row.height >= height}
=============================================================================
