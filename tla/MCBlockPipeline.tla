--------------------------- MODULE MCBlockPipeline ---------------------------
(* Small instances of the pipeline: few transactions, and hashes that are  *)
(* the place of a block in the order of creation.                          *)
EXTENDS BlockPipeline

MCHash == 0..MaxBlocks
=============================================================================
