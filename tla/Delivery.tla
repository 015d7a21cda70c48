------------------------------- MODULE Delivery -------------------------------
(***************************************************************************)
(* What the relay of a message body promises to the side that receives it, *)
(* without buffers, early bytes or captures: the bytes of the sender arrive *)
(* in order, none twice and none left out, never more of them than the     *)
(* announced length, and a delivery that counts as complete is complete.   *)
(* Bytes are named by their positions in the body.                         *)
(***************************************************************************)
EXTENDS Naturals, Sequences

CONSTANT Close   \* the length of a body that ends when its sender closes

VARIABLES
  length,   \* the announced length, or Close
  sent,     \* how many bytes the sender has sent
  closed,   \* the sender has closed its side
  sink,     \* what the receiver got
  verdict   \* "open", "complete" or "failed"

deliveryVars == <<length, sent, closed, sink, verdict>>

\* The first n bytes of the body.
Bytes(n) == [i \in 1 .. n |-> i]

DeliveryInit == sink = <<>> /\ verdict = "open"

\* The sender goes on, whatever the relay does.
SenderMoves ==
  /\ ~closed
  /\ sent' \in Nat /\ sent' >= sent /\ closed' \in BOOLEAN
  /\ UNCHANGED <<length, sink, verdict>>

\* Some more bytes arrive, the first ones or the next ones.
Deliver ==
  /\ verdict = "open"
  /\ \E n \in Len(sink) .. sent :
       /\ length = Close \/ n <= length
       /\ sink' = Bytes(n)
  /\ verdict' \in {"open", "failed"}
  /\ UNCHANGED <<length, sent, closed>>

Complete ==
  /\ verdict = "open"
  /\ IF length = Close THEN closed /\ Len(sink) = sent ELSE Len(sink) = length
  /\ verdict' = "complete"
  /\ UNCHANGED <<length, sent, closed, sink>>

DeliveryNext == SenderMoves \/ Deliver \/ Complete

DeliverySpec == DeliveryInit /\ [][DeliveryNext]_deliveryVars
=============================================================================
