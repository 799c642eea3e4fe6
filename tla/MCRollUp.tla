------------------------------ MODULE MCRollUp ------------------------------
(* A small instance of the contract: three hashes, so that a hash can be   *)
(* added twice, and the sentinel one above the last height reached.        *)
EXTENDS RollUp

MCHash == 0..3
=============================================================================
