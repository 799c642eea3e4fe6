--------------------------- MODULE MCServerPipeline ---------------------------
(* Small instances of the whole server: two bodies, so that a number can be *)
(* offered with two transactions.                                           *)
EXTENDS ServerPipeline, TLC

MCHash == 0..MaxBlocks
MCSymmetry == Permutations(Body)
=============================================================================
