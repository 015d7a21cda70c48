------------------------------ MODULE MCSession ------------------------------
(* A session with two relatives of the child and two exchanges.            *)
EXTENDS Session
=============================================================================
