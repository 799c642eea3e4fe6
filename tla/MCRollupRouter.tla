--------------------------- MODULE MCRollupRouter ---------------------------
(* A small instance of the router alone, for requests that overlap: a       *)
(* client that waits for each answer is one handler, and one that gives up  *)
(* and asks again makes two.                                                *)
EXTENDS RollupRouter

MCHash == 0..MaxBlocks
=============================================================================
