----------------------------- MODULE MCAuthority ------------------------------
(* Two processes on one directory, and three authorities that they may make.   *)
EXTENDS Authority
=============================================================================
