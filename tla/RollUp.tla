------------------------------- MODULE RollUp -------------------------------
(***************************************************************************)
(* The contract that records the headers of the blocks on the chain        *)
(* (contracts/RollUp.sol).  A call that a require or a revert rejects      *)
(* changes nothing and is an action that is not enabled.  The callers of   *)
(* add are the owner (onlyOwner).                                          *)
(***************************************************************************)
EXTENDS Block

CONSTANT MaxPage   \* the largest _size of getByFromHeight, 32 in the code

ASSUME RollUpAssumption == MaxPage \in Nat

VARIABLES
    lastHeight,    \* the most recent block height, Uint64Max when empty
    blockArray,    \* the headers; height h is at index h + 1
    blockMap       \* by block hash: the height, and whether the hash exists

contractVars == <<lastHeight, blockArray, blockMap>>

(* Faulty variant: the constructor does not set lastHeight.                *)
RollUpInitZero ==
    /\ lastHeight = 0
    /\ blockArray = <<>>
    /\ blockMap = [x \in Hash |-> [height |-> 0, exists |-> FALSE]]

RollUpInit ==
    /\ lastHeight = Uint64Max
    /\ blockArray = <<>>
    /\ blockMap = [x \in Hash |-> [height |-> 0, exists |-> FALSE]]

(* Faulty variant: the first block is accepted again at any time.          *)
HeightAcceptedAgain(height) ==
    \/ height = 0
    \/ lastHeight # Uint64Max /\ lastHeight + 1 = height

(* require E001.  The addition is checked: past the sentinel it reverts.   *)
HeightAccepted(height) ==
    \/ lastHeight = Uint64Max /\ height = 0
    \/ lastHeight # Uint64Max /\ lastHeight + 1 = height

(* Faulty variant: the comparison starts one height too late.              *)
PrevAcceptedLate(height, prevBlock) ==
    height > 1 => prevBlock = blockArray[height].curBlock

(* revert E002 *)
PrevAccepted(height, prevBlock) ==
    height # 0 => prevBlock = blockArray[height].curBlock

AddAccepted(b) == HeightAccepted(b.height) /\ PrevAccepted(b.height, b.prevBlock)

(* Faulty variant: a hash that exists keeps its first height.              *)
AddKeepsFirst(b) ==
    /\ AddAccepted(b)
    /\ blockArray' = Append(blockArray, b)
    /\ blockMap' = IF blockMap[b.curBlock].exists THEN blockMap
                   ELSE [blockMap EXCEPT ![b.curBlock] = [height |-> b.height, exists |-> TRUE]]
    /\ lastHeight' = b.height

Add(b) ==
    /\ AddAccepted(b)
    /\ blockArray' = Append(blockArray, b)
    /\ blockMap' = [blockMap EXCEPT ![b.curBlock] = [height |-> b.height, exists |-> TRUE]]
    /\ lastHeight' = b.height

-----------------------------------------------------------------------------
(* The view functions: when a call is answered, and with what.             *)

(* Faulty variant: the sentinel is not tested.                             *)
GetByHeightAcceptedEmpty(height) == height <= lastHeight

GetByHeightAccepted(height) == height <= lastHeight /\ lastHeight # Uint64Max
GetByHeight(height) == blockArray[height + 1]

GetByHashAccepted(hash) == blockMap[hash].exists
GetByHash(hash) == blockArray[blockMap[hash].height + 1]

GetByFromHeightAccepted(height, size) ==
    /\ size > 0 /\ size <= MaxPage
    /\ height + (size - 1) <= lastHeight
    /\ lastHeight # Uint64Max
GetByFromHeight(height, size) == [j \in 1..size |-> blockArray[height + j]]

-----------------------------------------------------------------------------
(* The contract on its own, called with any header.  MaxBlocks keeps the   *)
(* height below the sentinel, as 2^64 blocks would take longer than time.  *)
RollUpNext == Len(blockArray) < MaxBlocks /\ \E b \in Header : Add(b)

RollUpSpec == RollUpInit /\ [][RollUpNext]_contractVars

(* The state of the contract has the types its declarations give it.       *)
RollUpTypeOK ==
    /\ lastHeight \in Uint64
    /\ blockArray \in Seq(Header)
    /\ blockMap \in [Hash -> [height : Uint64, exists : BOOLEAN]]

(* Block headers are stored sequentially (l.8): the header at index i has  *)
(* height i - 1 and names the hash of the header before it.                *)
ChainLinked ==
    \A i \in 1..Len(blockArray) :
        /\ blockArray[i].height = i - 1
        /\ i > 1 => blockArray[i].prevBlock = blockArray[i - 1].curBlock

(* lastHeight and the array never disagree: the sentinel means an empty    *)
(* array, and otherwise the array ends at lastHeight.                      *)
SizeAgrees ==
    lastHeight = IF Len(blockArray) = 0 THEN Uint64Max ELSE Len(blockArray) - 1

(* A read by height or of a page is answered exactly when every header it  *)
(* asks for exists: the sentinel, which compares as the largest height,    *)
(* lets none through, and the last page is neither cut nor refused.        *)
ReadsExact ==
    \A h \in Uint64 :
        /\ GetByHeightAccepted(h) <=> h < Len(blockArray)
        /\ \A n \in 0..(MaxPage + 1) :
              GetByFromHeightAccepted(h, n) <=> n \in 1..MaxPage /\ h + n <= Len(blockArray)

(* getByHash finds a header exactly for the hashes that were added, with   *)
(* that hash, and the newest such header when a hash was added twice.      *)
HashLookup ==
    \A x \in Hash :
        LET at == {i \in 1..Len(blockArray) : blockArray[i].curBlock = x}
        IN  /\ GetByHashAccepted(x) <=> at # {}
            /\ at # {} => /\ GetByHash(x).curBlock = x
                          /\ \A i \in at : i <= blockMap[x].height + 1
=============================================================================
