---------------------------- MODULE RollUp_proofs ----------------------------
(***************************************************************************)
(* Proofs about the contract, for every number of blocks, every set of     *)
(* hashes and every page size.                                             *)
(***************************************************************************)
EXTENDS RollUp, TLAPS

(* The contract is called by add alone, which keeps the array, its last    *)
(* height and the links between headers in step.                           *)
RollUpInv == RollUpTypeOK /\ SizeAgrees /\ ChainLinked /\ Len(blockArray) <= MaxBlocks

(* What an accepted call of add does to the array: the new header is at    *)
(* the end, has the height of its place and the hash of the one before.    *)
LEMMA AddExtends ==
    ASSUME RollUpTypeOK, SizeAgrees, ChainLinked, Len(blockArray) < Uint64Max,
           NEW b \in Header, Add(b)
    PROVE  /\ b.height = Len(blockArray)
           /\ Len(blockArray') = Len(blockArray) + 1
           /\ RollUpTypeOK' /\ SizeAgrees' /\ ChainLinked'
<1> DEFINE n == Len(blockArray)
<1>1. blockArray \in Seq(Header) /\ n \in Nat
  BY DEF RollUpTypeOK
<1>2. Uint64Max \in Nat
  BY BlockAssumption
<1>3. b.height = n
  BY <1>1, <1>2 DEF Add, AddAccepted, HeightAccepted, SizeAgrees, Header, Uint64
<1>4. blockArray' = Append(blockArray, b) /\ lastHeight' = b.height
  BY DEF Add
<1>5. /\ blockArray' \in Seq(Header)
      /\ Len(blockArray') = n + 1
      /\ blockArray'[n + 1] = b
      /\ \A i \in 1..n : blockArray'[i] = blockArray[i]
  BY <1>1, <1>4
<1>6. RollUpTypeOK'
  <2>1. lastHeight' \in Uint64
    BY <1>4 DEF Header
  <2>2. blockMap' \in [Hash -> [height : Uint64, exists : BOOLEAN]]
    BY DEF Add, RollUpTypeOK, Header
  <2> QED
    BY <2>1, <2>2, <1>5 DEF RollUpTypeOK
<1>7. SizeAgrees'
  BY <1>1, <1>3, <1>4, <1>5 DEF SizeAgrees
<1>8. ChainLinked'
  <2> SUFFICES ASSUME NEW i \in 1..(n + 1)
               PROVE  /\ blockArray'[i].height = i - 1
                      /\ i > 1 => blockArray'[i].prevBlock = blockArray'[i - 1].curBlock
    BY <1>5 DEF ChainLinked
  <2>1. CASE i \in 1..n
    BY <2>1, <1>1, <1>5 DEF ChainLinked
  <2>2. CASE i = n + 1
    <3>1. blockArray'[i].height = i - 1
      BY <2>2, <1>1, <1>3, <1>5
    <3>2. ASSUME i > 1 PROVE blockArray'[i].prevBlock = blockArray'[i - 1].curBlock
      <4>1. b.height # 0 /\ b.height = n
        BY <3>2, <2>2, <1>1, <1>3
      <4>2. b.prevBlock = blockArray[n].curBlock
        BY <4>1 DEF Add, AddAccepted, PrevAccepted
      <4>3. i - 1 = n /\ n \in 1..n
        BY <3>2, <2>2, <1>1
      <4> QED
        BY <4>2, <4>3, <2>2, <1>5
    <3> QED
      BY <3>1, <3>2
  <2> QED
    BY <2>1, <2>2, <1>1
<1> QED
  BY <1>3, <1>5, <1>6, <1>7, <1>8

(* RollUpInv is an invariant. *)
THEOREM RollUpInvariant == RollUpSpec => []RollUpInv
<1>1. RollUpInit => RollUpInv
  BY BlockAssumption
  DEF RollUpInit, RollUpInv, RollUpTypeOK, SizeAgrees, ChainLinked, Uint64
<1>2. RollUpInv /\ [RollUpNext]_contractVars => RollUpInv'
  <2> SUFFICES ASSUME RollUpInv, [RollUpNext]_contractVars PROVE RollUpInv'
    OBVIOUS
  <2>1. ASSUME NEW b \in Header, Len(blockArray) < MaxBlocks, Add(b) PROVE RollUpInv'
    <3>1. Len(blockArray) \in Nat /\ Len(blockArray) < Uint64Max
      BY <2>1, BlockAssumption DEF RollUpInv, RollUpTypeOK
    <3>2. /\ Len(blockArray') = Len(blockArray) + 1
          /\ RollUpTypeOK' /\ SizeAgrees' /\ ChainLinked'
      BY <3>1, <2>1, AddExtends DEF RollUpInv
    <3> QED
      BY <3>1, <3>2, <2>1, BlockAssumption DEF RollUpInv
  <2>2. CASE UNCHANGED contractVars
    BY <2>2 DEF contractVars, RollUpInv, RollUpTypeOK, SizeAgrees, ChainLinked
  <2> QED
    BY <2>1, <2>2 DEF RollUpNext
<1> QED
  BY <1>1, <1>2, PTL DEF RollUpSpec

(* Block headers are stored sequentially: the theorem of the contract.     *)
THEOREM ContractChainLinked == RollUpSpec => []ChainLinked
  BY RollUpInvariant, PTL DEF RollUpInv

(* The state has its types. *)
THEOREM ContractTypeCorrect == RollUpSpec => []RollUpTypeOK
  BY RollUpInvariant, PTL DEF RollUpInv

(* Reads by height and by page are answered exactly within the array.      *)
THEOREM ContractReadsExact == RollUpSpec => []ReadsExact
<1>1. RollUpInv => ReadsExact
  <2> SUFFICES ASSUME RollUpInv, NEW h \in Uint64
               PROVE  /\ GetByHeightAccepted(h) <=> h < Len(blockArray)
                      /\ \A n \in 0..(MaxPage + 1) :
                            GetByFromHeightAccepted(h, n)
                               <=> n \in 1..MaxPage /\ h + n <= Len(blockArray)
    BY DEF ReadsExact
  <2>1. Len(blockArray) \in Nat /\ h \in 0..Uint64Max /\ Uint64Max \in Nat
    BY BlockAssumption DEF RollUpInv, RollUpTypeOK, Uint64
  <2>2. /\ Len(blockArray) = 0 => lastHeight = Uint64Max
        /\ Len(blockArray) # 0 => /\ lastHeight = Len(blockArray) - 1
                                  /\ lastHeight # Uint64Max
    BY <2>1, BlockAssumption DEF RollUpInv, SizeAgrees
  <2>3. GetByHeightAccepted(h) <=> h < Len(blockArray)
    BY <2>1, <2>2 DEF GetByHeightAccepted
  <2>4. ASSUME NEW n \in 0..(MaxPage + 1)
        PROVE  GetByFromHeightAccepted(h, n)
                  <=> n \in 1..MaxPage /\ h + n <= Len(blockArray)
    BY <2>1, <2>2, RollUpAssumption DEF GetByFromHeightAccepted
  <2> QED
    BY <2>3, <2>4
<1> QED
  BY <1>1, RollUpInvariant, PTL

(* The last height and the array never disagree. *)
THEOREM ContractSizeAgrees == RollUpSpec => []SizeAgrees
  BY RollUpInvariant, PTL DEF RollUpInv

(* What the map holds of each hash: whether it exists, and the height of   *)
(* the newest header with it.                                              *)
MapNewest ==
    \A x \in Hash :
        /\ blockMap[x].exists =>
              /\ blockMap[x].height + 1 \in 1..Len(blockArray)
              /\ blockArray[blockMap[x].height + 1].curBlock = x
        /\ \A i \in 1..Len(blockArray) :
              blockArray[i].curBlock = x => blockMap[x].exists /\ i <= blockMap[x].height + 1

(* A header that is accepted becomes the newest one of its hash, and stays *)
(* behind those of the other hashes.                                       *)
LEMMA AddKeepsMap ==
    ASSUME RollUpInv, MapNewest, Len(blockArray) < Uint64Max, NEW b \in Header, Add(b)
    PROVE  MapNewest'
<1> DEFINE n == Len(blockArray)
<1>1. /\ blockArray \in Seq(Header) /\ n \in Nat
      /\ b.height = n
      /\ blockMap \in [Hash -> [height : Uint64, exists : BOOLEAN]]
  BY AddExtends DEF RollUpInv, RollUpTypeOK
<1>2. blockArray' = Append(blockArray, b)
  BY DEF Add
<1>3. /\ Len(blockArray') = n + 1
      /\ blockArray'[n + 1] = b
      /\ \A i \in 1..n : blockArray'[i] = blockArray[i]
  BY <1>1, <1>2
<1>4. b.curBlock \in Hash
  BY DEF Header
<1>5. /\ blockMap'[b.curBlock].exists /\ blockMap'[b.curBlock].height = n
      /\ \A x \in Hash : x # b.curBlock => blockMap'[x] = blockMap[x]
  BY <1>1, <1>4 DEF Add
<1> SUFFICES ASSUME NEW x \in Hash
             PROVE  /\ blockMap'[x].exists =>
                          /\ blockMap'[x].height + 1 \in 1..(n + 1)
                          /\ blockArray'[blockMap'[x].height + 1].curBlock = x
                    /\ \A i \in 1..(n + 1) :
                          blockArray'[i].curBlock = x
                             => blockMap'[x].exists /\ i <= blockMap'[x].height + 1
  BY <1>3 DEF MapNewest
<1>6. CASE x = b.curBlock
  BY <1>1, <1>3, <1>5, <1>6
<1>7. CASE x # b.curBlock
  <2>1. blockMap'[x] = blockMap[x]
    BY <1>5, <1>7
  <2>2. ASSUME blockMap[x].exists
        PROVE  /\ blockMap[x].height + 1 \in 1..(n + 1)
               /\ blockArray'[blockMap[x].height + 1].curBlock = x
    BY <2>2, <1>1, <1>3 DEF MapNewest
  <2>3. ASSUME NEW i \in 1..(n + 1), blockArray'[i].curBlock = x
        PROVE  blockMap[x].exists /\ i <= blockMap[x].height + 1
    <3>1. i \in 1..n
      BY <2>3, <1>1, <1>3, <1>7
    <3> QED
      BY <3>1, <2>3, <1>3 DEF MapNewest
  <2> QED
    BY <2>1, <2>2, <2>3
<1> QED
  BY <1>6, <1>7

(* getByHash answers for the hashes that were added, with the newest       *)
(* header of the hash.                                                     *)
THEOREM ContractHashLookup == RollUpSpec => []HashLookup
<1>1. RollUpInit => MapNewest
  <2> SUFFICES ASSUME RollUpInit, NEW x \in Hash PROVE ~ blockMap[x].exists
    BY DEF RollUpInit, MapNewest
  <2> QED
    BY DEF RollUpInit
<1>2. RollUpInv /\ MapNewest /\ [RollUpNext]_contractVars => MapNewest'
  <2> SUFFICES ASSUME RollUpInv, MapNewest, [RollUpNext]_contractVars PROVE MapNewest'
    OBVIOUS
  <2>1. ASSUME NEW b \in Header, Len(blockArray) < MaxBlocks, Add(b) PROVE MapNewest'
    <3>1. Len(blockArray) < Uint64Max
      BY <2>1, BlockAssumption DEF RollUpInv, RollUpTypeOK
    <3> QED
      BY <3>1, <2>1, AddKeepsMap
  <2>2. CASE UNCHANGED contractVars
    BY <2>2 DEF contractVars, MapNewest
  <2> QED
    BY <2>1, <2>2 DEF RollUpNext
<1>3. RollUpInv /\ MapNewest => HashLookup
  <2> SUFFICES ASSUME RollUpInv, MapNewest, NEW x \in Hash
               PROVE  LET at == {i \in 1..Len(blockArray) : blockArray[i].curBlock = x}
                      IN  /\ blockMap[x].exists <=> at # {}
                          /\ at # {} => /\ blockArray[blockMap[x].height + 1].curBlock = x
                                        /\ \A i \in at : i <= blockMap[x].height + 1
    BY DEF HashLookup, GetByHashAccepted, GetByHash
  <2>1. blockMap[x].exists \in BOOLEAN
    BY DEF RollUpInv, RollUpTypeOK
  <2> QED
    BY <2>1 DEF MapNewest
<1> QED
  BY <1>1, <1>2, <1>3, RollUpInvariant, PTL DEF RollUpSpec
=============================================================================
