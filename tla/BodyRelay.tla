------------------------------ MODULE BodyRelay ------------------------------
(***************************************************************************)
(* forward_known_body and forward_response_body of src/proxy/http.rs: the  *)
(* body of a message is copied from one peer to the other while its first  *)
(* max_body_size bytes are kept for the user (CapturedBody::push_capture of *)
(* src/capture/model.rs).  Some bytes of the body were read together with  *)
(* the message's header; the rest comes through a buffer of bounded size.  *)
(* A byte is named by its position in what the sender sends.               *)
(***************************************************************************)
EXTENDS Naturals, Sequences

CONSTANTS
  Close,    \* content_length is None: the body ends when its sender closes
  Lengths,  \* the values of Content-Length
  Maxima,   \* the values of max_body_size
  Buffer,   \* the size of the buffer, 16 KiB in the code
  MaxSent   \* bound: the sender sends no more than this

ASSUME RelayAssumption ==
  /\ Lengths \subseteq Nat /\ Close \notin Nat
  /\ Maxima \subseteq Nat
  /\ Buffer \in Nat \ {0} /\ MaxSent \in Nat

VARIABLES
  length,     \* content_length
  max,        \* max_body_size
  sent,       \* how many bytes the sender has sent
  closed,     \* the sender has closed its side
  initial,    \* how many bytes came with the header
  taken,      \* how many bytes have been read
  sink,       \* what was written to the receiver
  body,       \* the CapturedBody
  remaining,  \* as in the code; 0 when content_length is None
  pc

relayVars == <<length, max, sent, closed, initial, taken, sink, body, remaining, pc>>

Least(a, b) == IF a < b THEN a ELSE b

\* n bytes of the body, from the one after the byte `from'.
Chunk(from, n) == [i \in 1 .. n |-> from + i]

Running == {"start", "loop"}

RelayTypeOK ==
  /\ length \in Lengths \cup {Close} /\ max \in Maxima
  /\ sent \in 0 .. MaxSent /\ closed \in BOOLEAN
  /\ initial \in 0 .. sent /\ taken \in initial .. sent
  /\ sink \in Seq(Nat)
  /\ body \in [bytes : Seq(Nat), original_size : Nat, truncated : BOOLEAN]
  /\ remaining \in Nat
  /\ pc \in Running \cup {"done", "failed"}

RelayInit ==
  /\ length \in Lengths \cup {Close} /\ max \in Maxima
  /\ sent \in 0 .. MaxSent /\ closed = FALSE
  /\ initial \in 0 .. sent /\ taken = initial
  /\ sink = <<>> /\ remaining = 0
  /\ body = [bytes |-> <<>>, original_size |-> 0, truncated |-> FALSE]
  /\ pc = "start"

-----------------------------------------------------------------------------
\* The sender's side of the connection.
SenderSends ==
  /\ ~closed /\ sent < MaxSent
  /\ sent' = sent + 1
  /\ UNCHANGED <<length, max, closed, initial, taken, sink, body, remaining, pc>>

SenderCloses ==
  /\ ~closed /\ closed' = TRUE
  /\ UNCHANGED <<length, max, sent, initial, taken, sink, body, remaining, pc>>

\* Mutant: truncated is only set once the capture is full.
PushCaptureForgetsPart(chunk) ==
  LET room == IF max > Len(body.bytes) THEN max - Len(body.bytes) ELSE 0
      keep == Least(room, Len(chunk))
  IN  body' = [bytes |-> body.bytes \o SubSeq(chunk, 1, keep),
               original_size |-> body.original_size + Len(chunk),
               truncated |-> body.truncated \/ (room = 0 /\ chunk # <<>>)]

push_capture(chunk) ==
  LET room == IF max > Len(body.bytes) THEN max - Len(body.bytes) ELSE 0
      keep == Least(room, Len(chunk))
  IN  body' = [bytes |-> body.bytes \o SubSeq(chunk, 1, keep),
               original_size |-> body.original_size + Len(chunk),
               truncated |-> body.truncated \/ keep < Len(chunk)]

\* write_all, then push_capture, and what remains of a known length; or write_all
\* fails with a part of the chunk written and `?' ends the relay.
Forward(chunk, left) ==
  \/ /\ sink' = sink \o chunk
     /\ push_capture(chunk)
     /\ remaining' = left
     /\ pc' = "loop"
  \/ /\ chunk # <<>>
     /\ \E n \in 0 .. Len(chunk) - 1 : sink' = sink \o SubSeq(chunk, 1, n)
     /\ pc' = "failed"
     /\ UNCHANGED <<body, remaining>>

\* The bytes that came with the header, no more of them than the body has.
ForwardInitial ==
  /\ pc = "start"
  /\ IF length = Close
     THEN Forward(Chunk(0, initial), 0)
     ELSE LET first == Least(initial, length)
          IN  Forward(Chunk(0, first), length - first)
  /\ UNCHANGED <<length, max, sent, closed, initial, taken>>

\* Mutant: read() may take more than what remains of the body.
ForwardReadPastLength ==
  /\ pc = "loop" /\ (length = Close \/ remaining > 0)
  /\ \E n \in 1 .. Least(Buffer, sent - taken) :
       /\ Forward(Chunk(taken, n), IF n < remaining THEN remaining - n ELSE 0)
       /\ taken' = taken + n
  /\ UNCHANGED <<length, max, sent, closed, initial>>

\* read() yields some of the bytes that have arrived.
ForwardRead ==
  /\ pc = "loop" /\ (length = Close \/ remaining > 0)
  /\ LET want == IF length = Close THEN Buffer ELSE Least(Buffer, remaining)
     IN  \E n \in 1 .. Least(want, sent - taken) :
           /\ Forward(Chunk(taken, n), IF length = Close THEN 0 ELSE remaining - n)
           /\ taken' = taken + n
  /\ UNCHANGED <<length, max, sent, closed, initial>>

\* Mutant: only a body without a length notices the end of the stream.
ReadEndsWithoutLength ==
  /\ pc = "loop" /\ length = Close
  /\ closed /\ taken = sent
  /\ pc' = "done"
  /\ UNCHANGED <<length, max, sent, closed, initial, taken, sink, body, remaining>>

\* read() yields 0: the end of the body, or an error when more was announced.
ReadEnds ==
  /\ pc = "loop" /\ (length = Close \/ remaining > 0)
  /\ closed /\ taken = sent
  /\ pc' = IF length = Close THEN "done" ELSE "failed"
  /\ UNCHANGED <<length, max, sent, closed, initial, taken, sink, body, remaining>>

\* read() fails: the connection was reset.
ReadFails ==
  /\ pc = "loop" /\ (length = Close \/ remaining > 0)
  /\ pc' = "failed"
  /\ UNCHANGED <<length, max, sent, closed, initial, taken, sink, body, remaining>>

\* Nothing remains of a known length: Ok((captured, written)).
AllForwarded ==
  /\ pc = "loop" /\ length # Close /\ remaining = 0
  /\ pc' = "done"
  /\ UNCHANGED <<length, max, sent, closed, initial, taken, sink, body, remaining>>

-----------------------------------------------------------------------------
RelayStep == ForwardInitial \/ ForwardRead \/ ReadEnds \/ ReadFails \/ AllForwarded

RelayNext == SenderSends \/ SenderCloses \/ RelayStep

\* The task is polled while it can move; no failure of the connection is counted
\* upon.  There is no timeout: unless the sender closes in the end, it waits.
RelayFairness ==
  /\ WF_relayVars(ForwardInitial \/ ForwardRead \/ ReadEnds \/ AllForwarded)
  /\ WF_relayVars(SenderCloses)

RelaySpec == RelayInit /\ [][RelayNext]_relayVars /\ RelayFairness

-----------------------------------------------------------------------------
(* Properties.                                                             *)

\* What is kept for the user is the beginning of what was forwarded, as much of
\* it as max_body_size allows, with its true size, and is marked as truncated
\* exactly when something is missing; a failed write is not counted.
CaptureIsPrefix ==
  /\ body.bytes = Chunk(0, Least(max, body.original_size))
  /\ body.truncated <=> body.original_size > max
  /\ IF pc = "failed" THEN body.original_size <= Len(sink)
     ELSE body.original_size = Len(sink)

\* The relay delivers the body and nothing else (module Delivery), whatever came
\* with the header and however the stream was cut into reads.
Verdict ==
  IF pc \in Running THEN "open" ELSE IF pc = "done" THEN "complete" ELSE "failed"

Out == INSTANCE Delivery WITH verdict <- Verdict

Delivers == Out!DeliverySpec

\* A relay whose sender closes in the end is not left waiting.
RelayEnds == <>(pc \in {"done", "failed"})
=============================================================================
