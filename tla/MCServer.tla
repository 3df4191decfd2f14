------------------------------ MODULE MCServer ------------------------------
(* A server, and a reset of the password beside it.                       *)
EXTENDS Server
=============================================================================
