------------------------------ MODULE MCExchange ------------------------------
(* One connection, in the clear or through a tunnel, with bodies of up to two  *)
(* pieces, one that is there and one that may be missing, and tunnels of the   *)
(* same length in each direction.                                              *)
EXTENDS Connection
=============================================================================
