--------------------------- MODULE MCRollupClient ---------------------------
(* Small instances of one client and the server, which serves its requests,*)
(* also one that the client has given up next to the one it waits for.    *)
EXTENDS RollupClient

MCHash == 0..MaxBlocks
=============================================================================
