------------------------------ MODULE MCH2Stream ------------------------------
(* Bodies of up to three pieces.                                               *)
EXTENDS H2Stream
=============================================================================
