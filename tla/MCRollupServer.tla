--------------------------- MODULE MCRollupServer ---------------------------
(* A small instance of the life of the server, for a SIGINT that comes      *)
(* while it is being started.                                               *)
EXTENDS RollupServer
=============================================================================
