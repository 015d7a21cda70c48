--------------------------- MODULE BodyRelay_proofs ---------------------------
(***************************************************************************)
(* Proofs about BodyRelay: what is forwarded is always a prefix of the body *)
(* that respects the announced length, the capture is the beginning of it, *)
(* and the relay implements Delivery, for every length, every max_body_size *)
(* and every buffer. And about Preview: the decoder, on whatever beginning  *)
(* of whatever message, shows the payload and says what it lacks. That its  *)
(* recursive functions exist, and what holds of them at every place, is     *)
(* shown with the least number for which it would not.                      *)
(***************************************************************************)
EXTENDS Preview, SequenceTheorems, WellFoundedInduction, TLAPS

\* A chunk has the length it was asked to have.
LEMMA ChunkType ==
  ASSUME NEW m \in Nat, NEW n \in Nat
  PROVE  Chunk(m, n) \in Seq(Nat) /\ Len(Chunk(m, n)) = n
  BY DEF Chunk

\* Consecutive chunks make one chunk.
LEMMA ChunkConcat ==
  ASSUME NEW m \in Nat, NEW k \in Nat
  PROVE  Chunk(0, m) \o Chunk(m, k) = Chunk(0, m + k)
  BY DEF Chunk

\* The beginning of a chunk is a chunk.
LEMMA ChunkBegin ==
  ASSUME NEW m \in Nat, NEW n \in Nat, NEW k \in 0 .. n
  PROVE  SubSeq(Chunk(m, n), 1, k) = Chunk(m, k)
  BY DEF Chunk

-----------------------------------------------------------------------------
size == body.original_size

\* What is kept of a body of which `size' bytes have been forwarded.
CaptureIs(b, n) ==
  /\ b \in [bytes : Seq(Nat), original_size : Nat, truncated : BOOLEAN]
  /\ b.original_size = n
  /\ b.bytes = Chunk(0, Least(max, n))
  /\ b.truncated <=> n > max

\* What was written is the beginning of the body, within its length.
SinkIsPrefix ==
  /\ sink = Chunk(0, Len(sink)) /\ Len(sink) \in size .. sent
  /\ length # Close => Len(sink) <= length
  /\ pc # "failed" => Len(sink) = size

\* How far the relay is: the bytes read are those forwarded as long as there
\* are bytes to read.
Progress ==
  /\ pc = "start" => size = 0 /\ taken = initial
  /\ pc = "loop" /\ length # Close => remaining = length - size
  /\ pc = "loop" /\ (length = Close \/ remaining > 0) => taken = size
  /\ pc = "done" => IF length = Close THEN closed /\ size = sent ELSE size = length

RelayInv == RelayTypeOK /\ CaptureIs(body, size) /\ SinkIsPrefix /\ Progress

\* push_capture extends the capture of a body by the next chunk of it.
LEMMA PushCapture ==
  ASSUME max \in Nat, CaptureIs(body, size), NEW n \in Nat,
         push_capture(Chunk(size, n))
  PROVE  CaptureIs(body', size + n)
<1> DEFINE chunk == Chunk(size, n)
           room == IF max > Len(body.bytes) THEN max - Len(body.bytes) ELSE 0
           keep == Least(room, Len(chunk))
<1>0. size \in Nat /\ Least(max, size) \in Nat
  BY DEF CaptureIs, Least, size
<1>1. Len(chunk) = n
  BY <1>0, ChunkType
<1>2. Len(body.bytes) = Least(max, size)
  BY <1>0, ChunkType DEF CaptureIs
<1>3. /\ keep \in 0 .. n /\ (keep # 0 => size < max)
      /\ Least(max, size) + keep = Least(max, size + n)
      /\ (size > max \/ keep < n) <=> size + n > max
  <2>1. CASE size < max
    <3>1. Least(max, size) = size /\ keep = Least(max - size, n)
      BY <2>1, <1>0, <1>1, <1>2 DEF Least
    <3> HIDE DEF keep
    <3> QED BY <2>1, <3>1, <1>0 DEF Least
  <2>2. CASE size >= max
    <3>1. Least(max, size) = max /\ keep = 0
      BY <2>2, <1>0, <1>1, <1>2 DEF Least
    <3> HIDE DEF keep
    <3> QED BY <2>2, <3>1, <1>0 DEF Least
  <2> QED BY <1>0, <2>1, <2>2
<1>4. body' = [bytes |-> body.bytes \o SubSeq(chunk, 1, keep),
              original_size |-> size + n,
              truncated |-> body.truncated \/ keep < n]
  BY <1>1 DEF push_capture, size
<1>5. SubSeq(chunk, 1, keep) = Chunk(size, keep)
  BY <1>0, <1>3, ChunkBegin
<1> HIDE DEF keep, chunk, room
<1>6. body.bytes \o SubSeq(chunk, 1, keep) = Chunk(0, Least(max, size + n))
  <2>0. keep \in Nat /\ body.bytes = Chunk(0, Least(max, size)) /\ body.bytes \in Seq(Nat)
    BY <1>3 DEF CaptureIs
  <2>1. CASE keep = 0
    <3>1. SubSeq(chunk, 1, keep) = <<>>
      BY <2>1, <1>5 DEF Chunk
    <3>2. body.bytes \o <<>> = body.bytes
      BY <2>0, ConcatEmptySeq
    <3>3. Least(max, size) = Least(max, size + n)
      BY <2>1, <1>3, <1>0
    <3> QED BY <2>0, <3>1, <3>2, <3>3
  <2>2. CASE keep # 0
    <3>1. Least(max, size) = size /\ Least(max, size + n) = size + keep
      BY <2>2, <1>0, <1>3, <2>0 DEF Least
    <3>3. Chunk(0, size) \o Chunk(size, keep) = Chunk(0, size + keep)
      BY <1>0, <2>0, ChunkConcat
    <3> QED BY <2>0, <3>1, <3>3, <1>5
  <2> QED BY <2>1, <2>2
<1>7. (body.truncated \/ keep < n) <=> size + n > max
  <2>1. body.truncated <=> size > max
    BY DEF CaptureIs
  <2> QED BY <2>1, <1>3
<1>8. Chunk(0, Least(max, size + n)) \in Seq(Nat)
  BY <1>0, ChunkType, SMTT(30) DEF Least
<1> DEFINE t == body.truncated \/ keep < n
           kept == body.bytes \o SubSeq(chunk, 1, keep)
<1>9. t \in BOOLEAN
  OBVIOUS
<1>10. body' = [bytes |-> kept, original_size |-> size + n, truncated |-> t]
  BY <1>4
<1>11. kept = Chunk(0, Least(max, size + n)) /\ kept \in Seq(Nat)
  BY <1>6, <1>8
<1>12. t <=> size + n > max
  BY <1>7
<1> HIDE DEF keep, chunk, room, t, kept
<1>13. /\ body' \in [bytes : Seq(Nat), original_size : Nat, truncated : BOOLEAN]
       /\ body'.bytes = kept /\ body'.original_size = size + n
  BY <1>0, <1>9, <1>10, <1>11
<1>14. body'.truncated = t
  BY <1>10
<1> QED BY <1>11, <1>12, <1>13, <1>14 DEF CaptureIs

\* Writing the next chunk either extends the sink and the capture by the whole
\* of it or fails with the sink extended by a part of it.
LEMMA ForwardLemma ==
  ASSUME max \in Nat, CaptureIs(body, size), sink = Chunk(0, size),
         NEW n \in Nat, NEW left, Forward(Chunk(size, n), left)
  PROVE  \/ /\ pc' = "loop" /\ remaining' = left
            /\ sink' = Chunk(0, size + n) /\ CaptureIs(body', size + n)
         \/ /\ pc' = "failed" /\ body' = body /\ remaining' = remaining
            /\ \E k \in 0 .. n - 1 : sink' = Chunk(0, size + k)
<1>0. size \in Nat
  BY DEF CaptureIs, size
<1>1. CASE /\ sink' = sink \o Chunk(size, n) /\ push_capture(Chunk(size, n))
           /\ remaining' = left /\ pc' = "loop"
  <2>1. sink' = Chunk(0, size + n)
    BY <1>0, <1>1, ChunkConcat
  <2> QED BY <1>1, <2>1, PushCapture
<1>2. CASE /\ \E k \in 0 .. Len(Chunk(size, n)) - 1 :
                sink' = sink \o SubSeq(Chunk(size, n), 1, k)
           /\ pc' = "failed" /\ UNCHANGED <<body, remaining>>
  <2>1. PICK k \in 0 .. n - 1 : sink' = sink \o SubSeq(Chunk(size, n), 1, k)
    BY <1>0, <1>2, ChunkType
  <2>2. k \in Nat /\ k \in 0 .. n
    OBVIOUS
  <2>3. SubSeq(Chunk(size, n), 1, k) = Chunk(size, k)
    BY <1>0, <2>2, ChunkBegin
  <2>4. Chunk(0, size) \o Chunk(size, k) = Chunk(0, size + k)
    BY <1>0, <2>2, ChunkConcat
  <2>5. sink' = Chunk(0, size + k)
    BY <2>1, <2>3, <2>4
  <2> QED BY <1>2, <2>5
<1> QED BY <1>1, <1>2 DEF Forward

LEMMA RelayInvInit == RelayInit => RelayInv
<1> SUFFICES ASSUME RelayInit PROVE RelayInv
  OBVIOUS
<1>1. max \in Nat /\ sent \in Nat /\ Chunk(0, 0) = <<>> /\ Least(max, 0) = 0
  BY RelayAssumption DEF RelayInit, Chunk, Least
<1>2. body.truncated <=> 0 > max
  BY <1>1 DEF RelayInit
<1>3. CaptureIs(body, size) /\ size = 0
  BY <1>1, <1>2 DEF RelayInit, CaptureIs, size
<1>4. RelayTypeOK
  <2>1. sink \in Seq(Nat)
    BY EmptySeq DEF RelayInit
  <2>2. body \in [bytes : Seq(Nat), original_size : Nat, truncated : BOOLEAN]
    BY <1>3 DEF CaptureIs
  <2>3. closed \in BOOLEAN
    BY DEF RelayInit
  <2>4. taken \in initial .. sent /\ initial \in 0 .. sent /\ sent \in 0 .. MaxSent
    BY <1>1 DEF RelayInit
  <2>5. /\ length \in Lengths \cup {Close} /\ max \in Maxima /\ remaining \in Nat
        /\ pc \in Running \cup {"done", "failed"}
    BY DEF RelayInit, Running
  <2> QED BY <2>1, <2>2, <2>3, <2>4, <2>5 DEF RelayTypeOK
<1>5. SinkIsPrefix /\ Progress
  BY <1>1, <1>3, RelayAssumption DEF RelayInit, SinkIsPrefix, Progress
<1> QED BY <1>3, <1>4, <1>5 DEF RelayInv

LEMMA RelayInvStep == RelayInv /\ [RelayNext]_relayVars => RelayInv'
<1> SUFFICES ASSUME RelayInv, [RelayNext]_relayVars PROVE RelayInv'
  OBVIOUS
<1> USE RelayAssumption
<1>0. /\ size \in Nat /\ max \in Nat /\ sent \in Nat /\ taken \in Nat /\ initial \in Nat
      /\ length \in Nat \cup {Close} /\ CaptureIs(body, size)
  BY DEF RelayInv, RelayTypeOK, CaptureIs
\* What the first write and every later one have in common.
<1>1. ASSUME NEW n \in Nat, NEW left \in Nat, pc \in Running,
             Forward(Chunk(size, n), left), size + n <= sent,
             length # Close => left = length - size - n,
             taken' \in taken .. sent,
             length = Close \/ left > 0 => taken' = size + n,
             UNCHANGED <<length, max, sent, closed, initial>>
      PROVE  RelayInv'
  <2>0. sink = Chunk(0, size) /\ Len(sink) = size
    BY <1>1 DEF RelayInv, SinkIsPrefix, Running
  <2>1. CASE /\ pc' = "loop" /\ remaining' = left
             /\ sink' = Chunk(0, size + n) /\ CaptureIs(body', size + n)
    <3>1. size' = size + n /\ CaptureIs(body, size)' /\ size + n \in Nat
      BY <1>0, <1>1, <2>1 DEF CaptureIs, size
    <3>2. Len(sink') = size + n /\ sink' \in Seq(Nat)
      BY <3>1, <2>1, ChunkType
    <3>3. RelayTypeOK'
      BY <1>1, <2>1, <3>1, <3>2 DEF RelayInv, RelayTypeOK, CaptureIs, Running
    <3>4. SinkIsPrefix'
      BY <1>0, <1>1, <2>1, <3>1, <3>2 DEF SinkIsPrefix
    <3>5. Progress'
      BY <1>0, <1>1, <2>1, <3>1 DEF Progress
    <3> QED BY <3>1, <3>3, <3>4, <3>5 DEF RelayInv
  <2>2. CASE /\ pc' = "failed" /\ body' = body /\ remaining' = remaining
             /\ \E k \in 0 .. n - 1 : sink' = Chunk(0, size + k)
    <3>0. PICK k \in 0 .. n - 1 : sink' = Chunk(0, size + k)
      BY <2>2
    <3>1. size' = size /\ CaptureIs(body, size)' /\ k \in Nat /\ size + k \in Nat
      BY <1>0, <1>1, <2>2 DEF CaptureIs, size
    <3>2. Len(sink') = size + k /\ sink' \in Seq(Nat)
      BY <3>0, <3>1, ChunkType
    <3>3. RelayTypeOK'
      BY <1>1, <2>2, <3>1, <3>2 DEF RelayInv, RelayTypeOK, CaptureIs, Running
    <3>4. SinkIsPrefix'
      BY <1>0, <1>1, <2>2, <3>0, <3>1, <3>2 DEF SinkIsPrefix
    <3>5. Progress'
      BY <1>0, <1>1, <2>2, <3>1 DEF Progress
    <3> QED BY <3>1, <3>3, <3>4, <3>5 DEF RelayInv
  <2> QED BY <1>0, <1>1, <2>0, <2>1, <2>2, ForwardLemma
<1>2. CASE SenderSends
  BY <1>2, <1>0 DEF SenderSends, RelayInv, RelayTypeOK, CaptureIs, SinkIsPrefix, Progress, size
<1>3. CASE SenderCloses
  BY <1>3, <1>0 DEF SenderCloses, RelayInv, RelayTypeOK, CaptureIs, SinkIsPrefix, Progress, size
<1>4. CASE ForwardInitial
  <2>1. pc \in Running /\ size = 0 /\ taken = initial /\ initial <= sent
    BY <1>4, <1>0 DEF ForwardInitial, Running, RelayInv, RelayTypeOK, Progress
  <2>2. CASE length = Close
    BY <1>0, <1>1, <1>4, <2>1, <2>2 DEF ForwardInitial
  <2>3. CASE length # Close
    <3> DEFINE first == Least(initial, length)
    <3>1. /\ first \in Nat /\ length - first \in Nat /\ first <= initial
          /\ length - first > 0 => first = initial
      BY <1>0, <2>3 DEF Least
    <3>2. Forward(Chunk(0, first), length - first)
      BY <1>4, <2>3 DEF ForwardInitial
    <3> HIDE DEF first
    <3> QED BY <1>0, <1>1, <1>4, <2>1, <2>3, <3>1, <3>2 DEF ForwardInitial
  <2> QED BY <2>2, <2>3
<1>5. CASE ForwardRead
  <2> DEFINE want == IF length = Close THEN Buffer ELSE Least(Buffer, remaining)
  <2>1. pc \in Running /\ taken = size /\ (length # Close => remaining = length - size)
    BY <1>5 DEF ForwardRead, Running, RelayInv, Progress
  <2>2. PICK n \in 1 .. Least(want, sent - taken) :
          /\ Forward(Chunk(taken, n), IF length = Close THEN 0 ELSE remaining - n)
          /\ taken' = taken + n
    BY <1>5 DEF ForwardRead
  <2>3. remaining \in Nat
    BY DEF RelayInv, RelayTypeOK
  <2>4. n \in Nat /\ taken + n <= sent /\ (length # Close => n <= remaining)
    BY <1>0, <2>3 DEF Least
  <2> DEFINE left == IF length = Close THEN 0 ELSE remaining - n
  <2>5. left \in Nat /\ (length # Close => left = length - size - n)
    BY <1>0, <2>1, <2>3, <2>4
  <2>6. Forward(Chunk(size, n), left) /\ UNCHANGED <<length, max, sent, closed, initial>>
    BY <1>5, <2>1, <2>2 DEF ForwardRead
  <2> HIDE DEF want, left
  <2> QED BY <1>0, <1>1, <2>1, <2>2, <2>4, <2>5, <2>6
<1>6. CASE ReadEnds
  BY <1>6, <1>0 DEF ReadEnds, RelayInv, RelayTypeOK, CaptureIs, SinkIsPrefix, Progress, size
<1>7. CASE ReadFails
  BY <1>7, <1>0 DEF ReadFails, RelayInv, RelayTypeOK, CaptureIs, SinkIsPrefix, Progress, size
<1>8. CASE AllForwarded
  BY <1>8, <1>0 DEF AllForwarded, RelayInv, RelayTypeOK, CaptureIs, SinkIsPrefix, Progress, size
<1>9. CASE UNCHANGED relayVars
  BY <1>9, <1>0 DEF relayVars, RelayInv, RelayTypeOK, CaptureIs, SinkIsPrefix, Progress, size
<1> QED BY <1>2, <1>3, <1>4, <1>5, <1>6, <1>7, <1>8, <1>9 DEF RelayNext, RelayStep

\* The relay's invariant, for every length, max_body_size and buffer.
THEOREM RelayInvariant == RelaySpec => []RelayInv
  BY RelayInvInit, RelayInvStep, PTL DEF RelaySpec

\* The variables of the relay keep their types.
THEOREM RelayTypeCorrect == RelaySpec => []RelayTypeOK
<1>1. RelayInv => RelayTypeOK
  BY DEF RelayInv
<1> QED BY <1>1, RelayInvariant, PTL

\* What push_capture keeps is the beginning of what was forwarded, as much as
\* max_body_size allows, and `truncated' says exactly whether that is all.
THEOREM RelayCapture == RelaySpec => []CaptureIsPrefix
<1>1. RelayInv => CaptureIsPrefix
  <2> SUFFICES ASSUME RelayInv PROVE CaptureIsPrefix
    OBVIOUS
  <2>1. size \in Nat /\ Len(sink) \in size .. sent
    BY DEF RelayInv, CaptureIs, SinkIsPrefix, size
  <2> QED BY <2>1 DEF RelayInv, CaptureIs, SinkIsPrefix, CaptureIsPrefix, size
<1> QED BY <1>1, RelayInvariant, PTL

\* The initial states of the relay are initial states of the delivery.
LEMMA RelayRefinesInit == RelayInit => Out!DeliveryInit
  BY DEF RelayInit, Out!DeliveryInit, Running, Verdict

\* Every step of the relay is a step of the delivery or changes nothing of it.
LEMMA RelayRefinesStep ==
  RelayInv /\ RelayInv' /\ [RelayNext]_relayVars
    => [Out!DeliveryNext]_(Out!deliveryVars)
<1> SUFFICES ASSUME RelayInv, RelayInv', [RelayNext]_relayVars
             PROVE  [Out!DeliveryNext]_(Out!deliveryVars)
  OBVIOUS
<1> USE RelayAssumption
<1>0. /\ size \in Nat /\ sent \in Nat /\ Len(sink) \in size .. sent
      /\ length \in Nat \cup {Close}
  BY DEF RelayInv, RelayTypeOK, CaptureIs, SinkIsPrefix, size
<1>1. ASSUME NEW n \in Nat, NEW left \in Nat, Forward(Chunk(size, n), left),
             pc \in Running, UNCHANGED <<length, sent, closed>>
      PROVE  Out!Deliver
  <2>1. sink = Chunk(0, size) /\ Len(sink) = size /\ max \in Nat /\ CaptureIs(body, size)
    BY <1>1 DEF RelayInv, SinkIsPrefix, Running, RelayTypeOK
  <2>2. /\ sink' = Chunk(0, Len(sink'))
        /\ Len(sink') \in 0 .. sent /\ (length = Close \/ Len(sink') <= length)
    BY <1>1, <1>0 DEF RelayInv, SinkIsPrefix, RelayTypeOK, size, CaptureIs
  <2>3. Len(sink') >= Len(sink) /\ pc' \in {"loop", "failed"}
    <3>1. CASE sink' = Chunk(0, size + n) /\ pc' = "loop"
      <4>1. size + n \in Nat /\ size + n >= size
        BY <1>0, <1>1
      <4> QED BY <3>1, <4>1, <2>1, ChunkType
    <3>2. CASE /\ pc' = "failed" /\ \E k \in 0 .. n - 1 : sink' = Chunk(0, size + k)
      <4>1. PICK k \in 0 .. n - 1 : sink' = Chunk(0, size + k)
        BY <3>2
      <4>2. size + k \in Nat /\ size + k >= size
        BY <1>0, <1>1
      <4> QED BY <3>2, <4>1, <4>2, <2>1, ChunkType
    <3> QED BY <1>1, <2>1, <3>1, <3>2, ForwardLemma
  <2>4. sink' = Out!Bytes(Len(sink'))
    BY <1>0, <2>2 DEF Chunk, Out!Bytes
  <2>5. Verdict = "open" /\ Verdict' \in {"open", "failed"}
    BY <1>1, <2>3 DEF Verdict, Running
  <2>6. Len(sink') \in Len(sink) .. sent
    BY <1>0, <2>2, <2>3
  <2> QED BY <1>1, <2>2, <2>4, <2>5, <2>6 DEF Out!Deliver
<1>2. CASE SenderSends \/ SenderCloses
  BY <1>0, <1>2 DEF SenderSends, SenderCloses, Out!DeliveryNext, Out!SenderMoves, Verdict,
                   RelayInv, RelayTypeOK
<1>3. CASE ForwardInitial
  <2>1. pc \in Running /\ size = 0 /\ UNCHANGED <<length, sent, closed>>
    BY <1>3 DEF ForwardInitial, Running, RelayInv, Progress
  <2>2. initial \in Nat
    BY DEF RelayInv, RelayTypeOK
  <2>3. CASE length = Close
    BY <1>1, <1>3, <2>1, <2>2, <2>3 DEF ForwardInitial, Out!DeliveryNext
  <2>4. CASE length # Close
    <3>1. Least(initial, length) \in Nat /\ length - Least(initial, length) \in Nat
      BY <1>0, <2>2, <2>4 DEF Least
    <3> QED BY <1>1, <1>3, <2>1, <2>4, <3>1 DEF ForwardInitial, Out!DeliveryNext
  <2> QED BY <2>3, <2>4
<1>4. CASE ForwardRead
  <2> DEFINE want == IF length = Close THEN Buffer ELSE Least(Buffer, remaining)
  <2>1. /\ pc \in Running /\ taken = size /\ UNCHANGED <<length, sent, closed>>
        /\ remaining \in Nat
    BY <1>4 DEF ForwardRead, Running, RelayInv, RelayTypeOK, Progress
  <2>2. PICK n \in 1 .. Least(want, sent - taken) :
          Forward(Chunk(taken, n), IF length = Close THEN 0 ELSE remaining - n)
    BY <1>4 DEF ForwardRead
  <2>3. n \in Nat /\ (length # Close => remaining - n \in Nat)
    BY <1>0, <2>1 DEF Least
  <2> HIDE DEF want
  <2> QED BY <1>1, <2>1, <2>2, <2>3 DEF Out!DeliveryNext
<1>5. CASE ReadEnds \/ AllForwarded \/ ReadFails
  <2>1. /\ pc = "loop" /\ pc' \in {"done", "failed"} /\ Len(sink) = size
        /\ UNCHANGED <<length, sent, closed, sink, body>>
    BY <1>5 DEF ReadEnds, AllForwarded, ReadFails, RelayInv, SinkIsPrefix
  <2>2. CASE pc' = "done"
    <3>1. IF length = Close THEN closed /\ size = sent ELSE size = length
      BY <1>0, <2>1, <2>2 DEF RelayInv, Progress, size
    <3> QED BY <2>1, <2>2, <3>1 DEF Out!DeliveryNext, Out!Complete, Verdict, Running
  <2>3. CASE pc' = "failed"
    <3>1. sink' = Out!Bytes(Len(sink)) /\ (length = Close \/ Len(sink) <= length)
      BY <1>0, <2>1 DEF RelayInv, SinkIsPrefix, Out!Bytes, Chunk
    <3>2. Len(sink) \in Len(sink) .. sent
      BY <1>0
    <3> QED BY <2>1, <2>3, <3>1, <3>2 DEF Out!DeliveryNext, Out!Deliver, Verdict, Running
  <2> QED BY <2>1, <2>2, <2>3
<1>6. CASE UNCHANGED relayVars
  BY <1>6 DEF relayVars, Out!deliveryVars, Verdict
<1> QED BY <1>2, <1>3, <1>4, <1>5, <1>6 DEF RelayNext, RelayStep

\* The relay implements Delivery: bytes in order, none lost or repeated, none
\* beyond the announced length, and Ok is returned for complete bodies only.
THEOREM RelayDelivers == RelaySpec => Delivers
<1>1. RelaySpec => RelayInit /\ [][RelayNext]_relayVars
  BY DEF RelaySpec
<1> QED BY <1>1, RelayInvariant, RelayRefinesInit, RelayRefinesStep, PTL
        DEF Delivers, Out!DeliverySpec

-----------------------------------------------------------------------------
(* Recursion on the natural numbers.                                       *)

\* A set of natural numbers that is not empty has a least element.
LEMMA LeastNatural ==
  ASSUME NEW S \in SUBSET Nat, NEW n \in S
  PROVE  \E m \in S : \A k \in S : m <= k
<1>1. PICK m \in S : \A k \in S : <<k, m>> \notin OpToRel(<, Nat)
  BY NatLessThanWellFounded, WFMin
<1>2. ASSUME NEW k \in S PROVE m <= k
  <2>1. k \in Nat /\ m \in Nat OBVIOUS
  <2>2. ~(k < m) BY <1>1, <2>1 DEF OpToRel
  <2> QED BY <2>1, <2>2
<1> QED BY <1>2

\* What holds at the beginning and is passed on holds up to the end.
LEMMA UpTo ==
  ASSUME NEW n \in Nat, NEW S, 0 \in S, \A k \in 0 .. n - 1 : k \in S => k + 1 \in S
  PROVE  \A k \in 0 .. n : k \in S
<1> DEFINE Bad == {k \in 0 .. n : k \notin S}
<1> SUFFICES ASSUME NEW k \in Bad PROVE FALSE OBVIOUS
<1>1. PICK m \in Bad : \A j \in Bad : m <= j
  <2> Bad \in SUBSET Nat OBVIOUS
  <2> HIDE DEF Bad
  <2> QED BY LeastNatural
<1>2. m \in 0 .. n /\ m \notin S /\ m # 0 OBVIOUS
<1>3. m - 1 \in 0 .. n - 1 /\ (m - 1) + 1 = m BY <1>2
<1>4. m - 1 \notin Bad
  <2> HIDE DEF Bad
  <2> QED BY <1>1, <1>2
<1>5. m - 1 \in S BY <1>3, <1>4
<1> QED BY <1>2, <1>3, <1>5

\* f begins with a and takes the steps up to n.
Follows(f, V, a, step, n) ==
  f \in [0 .. n -> V] /\ f[0] = a /\ \A i \in 1 .. n : f[i] = step[i][f[i - 1]]

\* A function can be defined up to any number by its first value and its steps.
LEMMA StepsDefine ==
  ASSUME NEW V, NEW a \in V, NEW step \in [Nat -> [V -> V]], NEW n \in Nat
  PROVE  \E f : Follows(f, V, a, step, n)
<1> USE DEF Follows
<1> DEFINE Defines(f, m) == f[0] = a /\ \A i \in 1 .. m : f[i] = step[i][f[i - 1]]
           Bad == {m \in Nat : ~ \E f \in [0 .. m -> V] : Defines(f, m)}
<1>1. SUFFICES ASSUME n \in Bad PROVE FALSE OBVIOUS
<1>2. PICK m \in Bad : \A k \in Bad : m <= k
  <2> Bad \subseteq Nat OBVIOUS
  <2> HIDE DEF Bad
  <2> QED BY <1>1, LeastNatural
<1>3. m \in Nat /\ ~ \E f \in [0 .. m -> V] : Defines(f, m) OBVIOUS
<1>4. CASE m = 0
  <2> DEFINE f == [i \in 0 .. 0 |-> a]
  <2>1. f \in [0 .. 0 -> V] /\ f[0] = a OBVIOUS
  <2>2. Defines(f, 0) BY <2>1
  <2> HIDE DEF f, Defines
  <2> QED BY <1>3, <1>4, <2>1, <2>2
<1>5. CASE m # 0
  <2>1. m - 1 \in Nat BY <1>3, <1>5
  <2>2. m - 1 \notin Bad
    <3> HIDE DEF Bad
    <3> QED BY <1>2, <1>3, <2>1
  <2>3. PICK f \in [0 .. m - 1 -> V] : Defines(f, m - 1) BY <2>1, <2>2
  <2> HIDE DEF Bad
  <2> DEFINE last == step[m][f[m - 1]]
             g == [i \in 0 .. m |-> IF i = m THEN last ELSE f[i]]
  <2>4. f[m - 1] \in V BY <2>1, <2>3
  <2>5. last \in V BY <1>3, <2>4
  <2>6. \A i \in 0 .. m - 1 : i \in 0 .. m /\ i # m BY <1>3
  <2> HIDE DEF last
  <2>7. g \in [0 .. m -> V]
    <3>1. \A i \in 0 .. m : i # m => i \in 0 .. m - 1 BY <1>3
    <3> QED BY <2>5, <3>1
  <2>8. \A i \in 0 .. m - 1 : g[i] = f[i] BY <2>6
  <2>9. g[m] = last BY <1>3
  <2> HIDE DEF g
  <2>10. ASSUME NEW i \in 1 .. m PROVE g[i] = step[i][g[i - 1]]
    <3>1. i - 1 \in 0 .. m - 1 BY <1>3
    <3>2. CASE i = m BY <2>8, <2>9, <3>1, <3>2 DEF last
    <3>3. CASE i # m
      <4>1. i \in 1 .. m - 1 /\ i \in 0 .. m - 1 BY <1>3, <3>3
      <4> QED BY <2>3, <2>8, <3>1, <4>1
    <3> QED BY <3>2, <3>3
  <2>11. g[0] = a
    <3>1. 0 \in 0 .. m - 1 BY <2>1
    <3> QED BY <2>3, <2>8, <3>1
  <2> QED BY <1>3, <2>7, <2>10, <2>11
<1> QED BY <1>4, <1>5

-----------------------------------------------------------------------------
(* What parts make together.                                               *)

\* What two sequences make together.
LEMMA TwoParts ==
  ASSUME NEW V, NEW s \in Seq(V), NEW t \in Seq(V)
  PROVE  /\ s \o t \in Seq(V) /\ Len(s \o t) = Len(s) + Len(t)
         /\ Len(s) \in Nat /\ Len(t) \in Nat
         /\ \A i \in 1 .. Len(s) : (s \o t)[i] = s[i]
         /\ \A i \in 1 .. Len(t) : (s \o t)[Len(s) + i] = t[i]
OBVIOUS

\* The joins are what their recursive definition says.
LEMMA JoinsSteps ==
  ASSUME NEW V, NEW parts \in Seq(Seq(V))
  PROVE  /\ Joins(parts) \in [0 .. Len(parts) -> Seq(V)] /\ Joins(parts)[0] = <<>>
         /\ \A n \in 1 .. Len(parts) : Joins(parts)[n] = Joins(parts)[n - 1] \o parts[n]
<1> DEFINE part(i) == IF i \in 1 .. Len(parts) THEN parts[i] ELSE <<>>
           step == [i \in Nat |-> [x \in Seq(V) |-> x \o part(i)]]
           joins == [n \in 0 .. Len(parts) |->
                       IF n = 0 THEN <<>> ELSE Joins(parts)[n - 1] \o parts[n]]
<1>1. <<>> \in Seq(V) /\ Len(parts) \in Nat OBVIOUS
<1>2. \A i \in Nat : part(i) \in Seq(V)
  <2>1. \A i \in 1 .. Len(parts) : parts[i] \in Seq(V) OBVIOUS
  <2> QED BY <1>1, <2>1
<1>3. \A i \in 1 .. Len(parts) : part(i) = parts[i] OBVIOUS
<1> HIDE DEF part
<1>4. step \in [Nat -> [Seq(V) -> Seq(V)]] BY <1>2
<1>5. \A i \in 1 .. Len(parts), x \in Seq(V) : step[i][x] = x \o parts[i]
  <2>1. \A i \in Nat, x \in Seq(V) : step[i][x] = x \o part(i) OBVIOUS
  <2> HIDE DEF step
  <2>2. \A i \in 1 .. Len(parts) : i \in Nat OBVIOUS
  <2> QED BY <1>3, <2>1, <2>2
<1> HIDE DEF step
<1>6. PICK f \in [0 .. Len(parts) -> Seq(V)] :
        f[0] = <<>> /\ \A i \in 1 .. Len(parts) : f[i] = step[i][f[i - 1]]
  <2>1. \E f : Follows(f, Seq(V), <<>>, step, Len(parts)) BY <1>1, <1>4, StepsDefine
  <2> QED BY <2>1 DEF Follows
<1>7. ASSUME NEW i \in 1 .. Len(parts) PROVE f[i] = f[i - 1] \o parts[i]
  <2>1. i - 1 \in 0 .. Len(parts) OBVIOUS
  <2>2. f[i - 1] \in Seq(V) BY <1>6, <2>1
  <2> QED BY <1>5, <1>6, <2>2
<1>8. f = [n \in 0 .. Len(parts) |-> IF n = 0 THEN <<>> ELSE f[n - 1] \o parts[n]]
  <2>1. ASSUME NEW n \in 0 .. Len(parts)
        PROVE  f[n] = IF n = 0 THEN <<>> ELSE f[n - 1] \o parts[n]
    <3>1. n = 0 \/ n \in 1 .. Len(parts) OBVIOUS
    <3> QED BY <1>6, <1>7, <3>1
  <2> QED BY <2>1
<1>9. Joins(parts) = joins BY <1>8 DEF Joins
<1>10. ASSUME NEW n \in 0 .. Len(parts)
       PROVE  Joins(parts)[n] = IF n = 0 THEN <<>> ELSE Joins(parts)[n - 1] \o parts[n]
  <2>1. joins[n] = IF n = 0 THEN <<>> ELSE Joins(parts)[n - 1] \o parts[n] OBVIOUS
  <2> HIDE DEF joins
  <2> QED BY <1>9, <2>1
<1>11. Joins(parts)[0] = <<>> BY <1>1, <1>10
<1>12. ASSUME NEW n \in 1 .. Len(parts)
       PROVE  Joins(parts)[n] = Joins(parts)[n - 1] \o parts[n]
  <2>1. n \in 0 .. Len(parts) /\ n # 0 OBVIOUS
  <2> QED BY <1>10, <2>1
<1>13. Joins(parts) = [n \in 0 .. Len(parts) |-> Joins(parts)[n]]
  <2> HIDE DEF joins
  <2>1. joins = [n \in 0 .. Len(parts) |-> joins[n]] BY DEF joins
  <2> QED BY <1>9, <2>1
<1> DEFINE S == {n \in 0 .. Len(parts) : Joins(parts)[n] \in Seq(V)}
<1>14. 0 \in S
  <2>1. 0 \in 0 .. Len(parts) BY <1>1
  <2> HIDE DEF joins
  <2> QED BY <1>1, <1>11, <2>1
<1>15. ASSUME NEW k \in 0 .. Len(parts) - 1, k \in S PROVE k + 1 \in S
  <2>1. k + 1 \in 1 .. Len(parts) /\ (k + 1) - 1 = k /\ k + 1 \in 0 .. Len(parts) OBVIOUS
  <2>2. Joins(parts)[k + 1] = Joins(parts)[k] \o parts[k + 1] BY <1>12, <2>1
  <2>3. Joins(parts)[k] \in Seq(V) /\ parts[k + 1] \in Seq(V) BY <1>15, <2>1
  <2>4. Joins(parts)[k + 1] \in Seq(V) BY <2>2, <2>3
  <2> QED BY <2>1, <2>4
<1>16. \A k \in 0 .. Len(parts) : k \in S
  <2> HIDE DEF S
  <2> QED BY <1>1, <1>14, <1>15, UpTo
<1>17. \A k \in 0 .. Len(parts) : Joins(parts)[k] \in Seq(V) BY <1>16
<1> HIDE DEF joins, S
<1> QED BY <1>11, <1>12, <1>13, <1>17

\* What a piece of a sequence holds.
LEMMA Piece ==
  ASSUME NEW V, NEW s \in Seq(V), NEW a \in 0 .. Len(s), NEW b \in a .. Len(s)
  PROVE  /\ SubSeq(s, a + 1, b) \in Seq(V) /\ Len(SubSeq(s, a + 1, b)) = b - a
         /\ \A k \in 1 .. b - a : SubSeq(s, a + 1, b)[k] = s[a + k]
OBVIOUS

\* The one sequence begins the other.
Begins(s, t) == Len(s) <= Len(t) /\ \A i \in 1 .. Len(s) : t[i] = s[i]

\* What begins a sequence begins every longer one.
LEMMA BeginsMore ==
  ASSUME NEW V, NEW s \in Seq(V), NEW t \in Seq(V), NEW u \in Seq(V), Begins(s, t)
  PROVE  Begins(s, t \o u)
<1>1. /\ Len(t \o u) = Len(t) + Len(u) /\ Len(t) \in Nat /\ Len(u) \in Nat /\ Len(s) \in Nat
      /\ \A i \in 1 .. Len(t) : (t \o u)[i] = t[i]
  BY TwoParts
<1>2. Len(s) <= Len(t) /\ \A i \in 1 .. Len(s) : t[i] = s[i] BY DEF Begins
<1> DEFINE w == t \o u
<1> HIDE DEF w
<1>3. ASSUME NEW i \in 1 .. Len(s) PROVE w[i] = s[i]
  <2>1. i \in 1 .. Len(t) BY <1>1, <1>2
  <2> QED BY <1>1, <1>2, <2>1 DEF w
<1>4. Len(s) <= Len(w) BY <1>1, <1>2 DEF w
<1> QED BY <1>3, <1>4 DEF w, Begins

\* What the first parts make is the beginning of what all of them make.
LEMMA JoinsBegin ==
  ASSUME NEW V, NEW parts \in Seq(Seq(V)), NEW n \in 0 .. Len(parts)
  PROVE  /\ Joins(parts)[n] \in Seq(V) /\ Joined(parts) \in Seq(V)
         /\ Len(Joins(parts)[n]) <= Len(Joined(parts))
         /\ \A i \in 1 .. Len(Joins(parts)[n]) : Joined(parts)[i] = Joins(parts)[n][i]
<1> DEFINE J == Joins(parts)
           left == Len(parts) - n
           S == {d \in 0 .. left : Begins(J[n], J[n + d])}
<1>1. /\ \A k \in 0 .. Len(parts) : J[k] \in Seq(V)
      /\ \A k \in 1 .. Len(parts) : J[k] = J[k - 1] \o parts[k]
  BY JoinsSteps
<1>2. n \in Nat /\ Len(parts) \in Nat /\ left \in Nat /\ n + left = Len(parts) /\ n + 0 = n
  OBVIOUS
<1> HIDE DEF J
<1>3. 0 \in S
  <2>1. J[n] \in Seq(V) BY <1>1
  <2>2. Begins(J[n], J[n]) BY <2>1 DEF Begins
  <2> HIDE DEF left
  <2> QED BY <1>2, <2>2
<1>4. ASSUME NEW d \in 0 .. left - 1, d \in S PROVE d + 1 \in S
  <2> DEFINE p == n + d
             q == n + (d + 1)
  <2>1. p \in 0 .. Len(parts) /\ q \in 1 .. Len(parts) /\ q - 1 = p /\ q \in 0 .. Len(parts)
        /\ d + 1 \in 0 .. left
    BY <1>2
  <2>2. Begins(J[n], J[p]) BY <1>4
  <2> HIDE DEF left
  <2>3. J[q] = J[p] \o parts[q] BY <1>1, <2>1
  <2> HIDE DEF p
  <2> SUFFICES Begins(J[n], J[q]) BY <2>1
  <2> HIDE DEF q
  <2>4. J[n] \in Seq(V) /\ J[p] \in Seq(V) /\ parts[q] \in Seq(V) BY <1>1, <2>1
  <2>5. Begins(J[n], J[p] \o parts[q]) BY <2>2, <2>4, BeginsMore
  <2> QED BY <2>3, <2>5
<1>5. left \in S
  <2> HIDE DEF S, left
  <2>1. \A k \in 0 .. left : k \in S BY <1>2, <1>3, <1>4, UpTo
  <2> QED BY <1>2, <2>1
<1>6. Begins(J[n], J[Len(parts)])
  <2>1. Begins(J[n], J[n + left]) BY <1>5
  <2> HIDE DEF left
  <2> QED BY <1>2, <2>1
<1>7. J[n] \in Seq(V) /\ J[Len(parts)] \in Seq(V) BY <1>1, <1>2
<1> QED BY <1>6, <1>7 DEF J, Joined, Begins

\* A part stands where the parts before it end.
LEMMA JoinsHold ==
  ASSUME NEW V, NEW parts \in Seq(Seq(V)), NEW n \in 1 .. Len(parts)
  PROVE  /\ Len(Joins(parts)[n - 1]) \in Nat
         /\ Len(Joins(parts)[n]) = Len(Joins(parts)[n - 1]) + Len(parts[n])
         /\ \A i \in 1 .. Len(parts[n]) :
              Joined(parts)[Len(Joins(parts)[n - 1]) + i] = parts[n][i]
<1> DEFINE J == Joins(parts)
<1>1. n \in 0 .. Len(parts) /\ n - 1 \in 0 .. Len(parts) OBVIOUS
<1>2. J[n - 1] \in Seq(V) /\ J[n] \in Seq(V) BY <1>1, JoinsBegin
<1>3. J[n] = J[n - 1] \o parts[n] /\ parts[n] \in Seq(V)
  <2>1. \A k \in 1 .. Len(parts) : J[k] = J[k - 1] \o parts[k] BY JoinsSteps
  <2>2. parts[n] \in Seq(V) OBVIOUS
  <2> HIDE DEF J
  <2>3. J[n] = J[n - 1] \o parts[n] BY <2>1, Zenon
  <2> QED BY <2>2, <2>3
<1>4. \A i \in 1 .. Len(J[n]) : Joined(parts)[i] = J[n][i] BY <1>1, JoinsBegin
<1> HIDE DEF J
<1>5. /\ Len(J[n - 1]) \in Nat /\ Len(J[n]) = Len(J[n - 1]) + Len(parts[n])
      /\ Len(parts[n]) \in Nat
      /\ \A i \in 1 .. Len(parts[n]) : J[n][Len(J[n - 1]) + i] = parts[n][i]
  <2> DEFINE a == J[n - 1]
             b == parts[n]
  <2>1. a \in Seq(V) /\ b \in Seq(V) /\ J[n] = a \o b BY <1>2, <1>3
  <2> HIDE DEF a, b
  <2>2. /\ Len(a \o b) = Len(a) + Len(b) /\ Len(a) \in Nat /\ Len(b) \in Nat
        /\ \A i \in 1 .. Len(b) : (a \o b)[Len(a) + i] = b[i]
    BY <2>1, TwoParts
  <2>3. /\ Len(J[n]) = Len(a) + Len(b) /\ Len(a) \in Nat /\ Len(b) \in Nat
        /\ \A i \in 1 .. Len(b) : J[n][Len(a) + i] = b[i]
    BY <2>1, <2>2
  <2> QED BY <2>3 DEF a, b
<1>6. ASSUME NEW i \in 1 .. Len(parts[n])
      PROVE  Joined(parts)[Len(J[n - 1]) + i] = parts[n][i]
  <2> DEFINE j == Len(J[n - 1]) + i
  <2>1. j \in 1 .. Len(J[n])
    <3> DEFINE a == Len(J[n - 1])
               b == Len(parts[n])
    <3>1. a \in Nat /\ b \in Nat /\ Len(J[n]) = a + b /\ i \in 1 .. b /\ j = a + i BY <1>5
    <3> HIDE DEF a, b, j
    <3> QED BY <3>1
  <2>2. J[n][j] = parts[n][i] BY <1>5
  <2> HIDE DEF j
  <2>3. Joined(parts)[j] = parts[n][i] BY <1>4, <2>1, <2>2
  <2> QED BY <2>3 DEF j
<1> QED BY <1>5, <1>6 DEF J

-----------------------------------------------------------------------------
(* One turn of the decoder.                                                *)

\* The first of the positions, when it is known which that is.
LEMMA FirstIs ==
  ASSUME NEW S \in SUBSET Int, NEW x \in S, \A y \in S : x <= y
  PROVE  First(S) = x
<1>1. First(S) \in S /\ \A y \in S : First(S) <= y BY DEF First
<1>2. First(S) <= x /\ x <= First(S) /\ First(S) \in Int /\ x \in Int BY <1>1
<1> QED BY <1>2

\* A line of a message with the size n: a digit, and an extension or nothing before
\* the end of the line.
IsLine(line, n) ==
  /\ line \in Seq(Nat) /\ Len(line) \in Nat \ {0, 1}
  /\ line[1] = Digit(n) /\ line[Len(line)] = LF
  /\ \A i \in 1 .. Len(line) - 1 : line[i] # LF
  /\ line[2] = Semicolon \/ Len(line) = 2 \/ (Len(line) = 3 /\ line[2] = CR)

\* What is in the input behind the position is the line, as far as there is input.
StandsAt(input, pos, part) ==
  \A i \in 1 .. Len(part) : pos + i <= Len(input) => input[pos + i] = part[i]

\* Where the line that stands in the input ends.
LEMMA LineEnds ==
  ASSUME NEW input \in Seq(Nat), NEW pos \in 0 .. Len(input),
         NEW n \in 0 .. 9, NEW line, IsLine(line, n), StandsAt(input, pos, line)
  PROVE  IF pos + Len(line) <= Len(input)
         THEN At(input, LF, pos) # {} /\ First(At(input, LF, pos)) = pos + Len(line)
         ELSE At(input, LF, pos) = {}
<1> DEFINE k == Len(line)
           size_in == Len(input)
<1>1. k \in Nat \ {0, 1} /\ size_in \in Nat /\ pos \in Nat /\ pos <= size_in BY DEF IsLine
<1>2. line[k] = LF /\ \A i \in 1 .. k - 1 : line[i] # LF BY DEF IsLine
<1>3. \A i \in 1 .. k : pos + i <= size_in => input[pos + i] = line[i] BY DEF StandsAt
<1>4. At(input, LF, pos) = {i \in pos + 1 .. size_in : input[i] = LF} BY DEF At
<1> HIDE DEF k, size_in
<1>5. ASSUME NEW i \in pos + 1 .. size_in, i < pos + k PROVE input[i] # LF
  <2> DEFINE j == i - pos
  <2>1. j \in 1 .. k - 1 /\ j \in 1 .. k /\ pos + j = i /\ i <= size_in BY <1>1, <1>5
  <2> HIDE DEF j
  <2> QED BY <1>2, <1>3, <2>1
<1>6. CASE pos + k <= size_in
  <2> DEFINE e == pos + k
             S == {i \in pos + 1 .. size_in : input[i] = LF}
  <2>1. k \in 1 .. k /\ e \in pos + 1 .. size_in BY <1>1, <1>6
  <2>2. input[e] = LF BY <1>2, <1>3, <1>6, <2>1
  <2> HIDE DEF e
  <2>3. e \in S BY <2>1, <2>2
  <2>4. \A y \in S : e <= y BY <1>1, <1>5 DEF e
  <2>5. S \in SUBSET Int BY <1>1
  <2> HIDE DEF S
  <2>6. First(S) = e BY <2>3, <2>4, <2>5, FirstIs
  <2> QED BY <1>4, <1>6, <2>3, <2>6 DEF S, e, k, size_in
<1>7. CASE ~(pos + k <= size_in)
  <2>1. \A i \in pos + 1 .. size_in : input[i] # LF BY <1>1, <1>5, <1>7
  <2> QED BY <1>4, <1>7, <2>1 DEF k, size_in
<1> QED BY <1>6, <1>7 DEF k, size_in

\* The text of the size is the digit.
LEMMA SizeTextIs ==
  ASSUME NEW n \in 0 .. 9, NEW line, IsLine(line, n),
         NEW b \in Seq(Nat), Len(b) = Len(line) - 1,
         \A i \in 1 .. Len(b) : b[i] = line[i]
  PROVE  SizeText(b) = <<Digit(n)>>
<1> DEFINE stops == At(b, Semicolon, 0)
           text == IF stops = {} THEN b ELSE SubSeq(b, 1, First(stops) - 1)
           k == Len(b)
<1>1. k \in Nat \ {0} /\ Len(line) = k + 1 /\ Len(b) = k /\ \A i \in 1 .. k : b[i] = line[i]
  BY DEF IsLine
<1>2. line[1] = Digit(n) /\ Digit(n) \in 48 .. 57 /\ Digit(n) \in Nat BY DEF IsLine, Digit
<1>3. line[2] = Semicolon \/ k = 1 \/ (k = 2 /\ line[2] = CR) BY <1>1 DEF IsLine
<1>4. SizeText(b) = IF Len(text) \in At(text, CR, 0) THEN SubSeq(text, 1, Len(text) - 1) ELSE text
  BY DEF SizeText
<1>5. stops = {i \in 1 .. k : b[i] = Semicolon} BY DEF At
<1> HIDE DEF k
<1>6. b[1] = Digit(n) BY <1>1, <1>2
<1>7. SubSeq(b, 1, 1) = <<Digit(n)>>
  <2>1. 0 \in 0 .. Len(b) /\ 1 \in 0 .. Len(b) /\ 1 - 0 = 1 /\ 0 + 1 = 1 BY <1>1
  <2> DEFINE t == SubSeq(b, 0 + 1, 1)
  <2>2. t \in Seq(Nat) /\ Len(t) = 1 /\ \A i \in 1 .. 1 : t[i] = b[0 + i] BY <2>1, Piece
  <2> HIDE DEF t
  <2>3. t[1] = Digit(n) BY <1>6, <2>2
  <2>4. t = <<Digit(n)>> BY <2>2, <2>3
  <2> QED BY <2>1, <2>4 DEF t
<1>8. Len(<<Digit(n)>>) \notin At(<<Digit(n)>>, CR, 0) BY <1>2, SMTT(30) DEF At, CR
<1>9. CASE k = 1
  <2>1. b = <<Digit(n)>> BY <1>1, <1>6, <1>9
  <2>2. stops = {} BY <1>2, <1>5, <1>6, <1>9 DEF Semicolon
  <2>3. text = <<Digit(n)>> BY <2>1, <2>2
  <2> HIDE DEF text
  <2> QED BY <1>4, <1>8, <2>3
<1>10. CASE k # 1 /\ line[2] = Semicolon
  <2>1. 2 \in 1 .. k BY <1>1, <1>10
  <2>2. b[2] = Semicolon BY <1>1, <1>10, <2>1
  <2>3. 2 \in stops /\ stops \in SUBSET Int BY <1>1, <1>5, <2>1, <2>2
  <2>4. ASSUME NEW y \in stops PROVE 2 <= y
    <3>1. y \in 1 .. k /\ b[y] = Semicolon BY <1>5
    <3>2. y # 1 BY <1>2, <1>6, <3>1 DEF Semicolon
    <3> QED BY <1>1, <3>1, <3>2
  <2> HIDE DEF stops
  <2>5. First(stops) = 2 BY <2>3, <2>4, FirstIs
  <2>6. stops # {} /\ First(stops) - 1 = 1 BY <2>3, <2>5
  <2>7. text = <<Digit(n)>> BY <1>7, <2>6
  <2> HIDE DEF text
  <2> QED BY <1>4, <1>8, <2>7
<1>11. CASE k = 2 /\ line[2] = CR
  <2>1. b[2] = CR
    <3>1. 2 \in 1 .. k BY <1>11
    <3> QED BY <1>1, <1>11, <3>1
  <2>2. stops = {}
    <3>1. ASSUME NEW i \in 1 .. k PROVE i = 1 \/ i = 2 BY <1>11
    <3> QED BY <1>2, <1>5, <1>6, <2>1, <3>1, SMTT(30) DEF CR, Semicolon
  <2>3. text = b BY <2>2
  <2>4. Len(b) = 2 BY <1>1, <1>11
  <2>5. Len(b) \in At(b, CR, 0)
    <3>1. At(b, CR, 0) = {i \in 1 .. Len(b) : b[i] = CR} BY DEF At
    <3>2. 2 \in 1 .. 2 OBVIOUS
    <3> QED BY <2>1, <2>4, <3>1, <3>2
  <2> HIDE DEF text, stops
  <2>6. 2 - 1 = 1 OBVIOUS
  <2>7. SubSeq(b, 1, Len(b) - 1) = <<Digit(n)>> BY <1>7, <2>4, <2>6, Zenon
  <2> QED BY <1>4, <2>3, <2>5, <2>7
<1> QED BY <1>3, <1>9, <1>10, <1>11

\* A digit is worth what it says.
LEMMA ValueOfDigit ==
  ASSUME NEW n \in 0 .. 9
  PROVE  Value(<<Digit(n)>>) = n
<1> DEFINE s == <<Digit(n)>>
           f == [i \in 0 .. 1 |-> IF i = 0 THEN 0 ELSE n]
<1>1. Len(s) = 1 /\ s[1] - Digit(0) = n BY DEF Digit
<1> HIDE DEF s
<1>2. f = [i \in 0 .. Len(s) |-> IF i = 0 THEN 0 ELSE 16 * f[i - 1] + (s[i] - Digit(0))]
  BY <1>1
<1> DEFINE Solves(g) ==
      g = [i \in 0 .. Len(s) |-> IF i = 0 THEN 0 ELSE 16 * g[i - 1] + (s[i] - Digit(0))]
           v == CHOOSE g : Solves(g)
<1>3. Solves(v)
  <2>1. Solves(f) BY <1>2
  <2> HIDE DEF Solves
  <2> QED BY <2>1
<1>4. Value(s) = v[1] BY <1>1 DEF Value
<1> HIDE DEF v
<1>5. v[0] = 0 BY <1>1, <1>3
<1>6. v[1] = 16 * v[0] + (s[1] - Digit(0)) BY <1>1, <1>3
<1> QED BY <1>1, <1>4, <1>5, <1>6 DEF s

\* The decoder between two turns.
Decoders == [status : {"loop", "failed", "decoded"}, pos : Nat, out : Seq(Nat),
             truncated : BOOLEAN]

\* The line that stands in the input, without its line feed.
LEMMA LineInInput ==
  ASSUME NEW input \in Seq(Nat), NEW pos \in 0 .. Len(input),
         NEW n \in 0 .. 9, NEW line, IsLine(line, n), StandsAt(input, pos, line),
         pos + Len(line) <= Len(input)
  PROVE  LET b == SubSeq(input, pos + 1, pos + Len(line) - 1)
         IN  b \in Seq(Nat) /\ Len(b) = Len(line) - 1 /\ \A i \in 1 .. Len(b) : b[i] = line[i]
<1> DEFINE k == Len(line) - 1
           e == pos + Len(line) - 1
           b == SubSeq(input, pos + 1, e)
<1>1. /\ Len(line) \in Nat /\ k \in Nat /\ e \in pos .. Len(input) /\ e - pos = k
      /\ pos \in Nat /\ Len(input) \in Nat
  BY SMTT(30) DEF IsLine
<1>2. b \in Seq(Nat) /\ Len(b) = e - pos /\ \A i \in 1 .. e - pos : b[i] = input[pos + i]
  <2> HIDE DEF e
  <2> QED BY <1>1, Piece
<1>3. ASSUME NEW i \in 1 .. k PROVE b[i] = line[i]
  <2>1. i \in 1 .. Len(line) /\ pos + i <= Len(input) BY <1>1
  <2>2. input[pos + i] = line[i] BY <2>1 DEF StandsAt
  <2> HIDE DEF b, e, k
  <2> QED BY <1>1, <1>2, <2>2
<1> HIDE DEF b
<1>4. Len(b) = Len(line) - 1 /\ \A i \in 1 .. Len(b) : b[i] = line[i] BY <1>1, <1>2, <1>3
<1> QED BY <1>2, <1>4 DEF b

\* The text of the size of the line that stands in the input.
LEMMA TextInInput ==
  ASSUME NEW input \in Seq(Nat), NEW pos \in 0 .. Len(input),
         NEW n \in 0 .. 9, NEW line, IsLine(line, n), StandsAt(input, pos, line),
         pos + Len(line) <= Len(input)
  PROVE  SizeText(SubSeq(input, pos + 1, pos + Len(line) - 1)) = <<Digit(n)>>
<1> DEFINE b == SubSeq(input, pos + 1, pos + Len(line) - 1)
<1>1. b \in Seq(Nat) /\ Len(b) = Len(line) - 1 /\ \A i \in 1 .. Len(b) : b[i] = line[i]
  BY LineInInput
<1> HIDE DEF b
<1>2. SizeText(b) = <<Digit(n)>> BY <1>1, SizeTextIs
<1> QED BY <1>2 DEF b

\* Where the data of a chunk ends when the line ending stands behind it.
LEMMA DataEndIs ==
  ASSUME NEW input \in Seq(Nat), NEW p \in Nat, NEW eol \in {<<LF>>, <<CR, LF>>},
         StandsAt(input, p, eol)
  PROVE  IF p + Len(eol) <= Len(input)
         THEN DataEnd(input, p) = p + Len(eol) /\ DataEnd(input, p) \in At(input, LF, p)
         ELSE DataEnd(input, p) \notin At(input, LF, p)
<1> DEFINE m == Len(input)
<1>1. m \in Nat /\ LF # CR BY DEF LF, CR
<1>2. \A byte : At(input, byte, p) = {i \in p + 1 .. m : input[i] = byte} BY DEF At
<1>3. \A i \in 1 .. Len(eol) : p + i <= m => input[p + i] = eol[i] BY DEF StandsAt
<1> HIDE DEF m
<1>4. CASE eol = <<LF>>
  <2>1. Len(eol) = 1 /\ (p + 1 <= m => input[p + 1] = LF)
    <3>1. Len(eol) = 1 /\ eol[1] = LF /\ 1 \in 1 .. 1 BY <1>4
    <3> QED BY <1>3, <3>1
  <2>2. p + 1 \notin At(input, CR, p) BY <1>1, <1>2, <2>1
  <2>3. DataEnd(input, p) = p + 1 BY <2>2 DEF DataEnd
  <2>4. p + 1 <= m => p + 1 \in At(input, LF, p) BY <1>1, <1>2, <2>1
  <2>5. ~(p + 1 <= m) => p + 1 \notin At(input, LF, p) BY <1>1, <1>2
  <2> QED BY <2>1, <2>3, <2>4, <2>5 DEF m
<1>5. CASE eol = <<CR, LF>>
  <2>1. Len(eol) = 2 /\ (p + 1 <= m => input[p + 1] = CR) /\ (p + 2 <= m => input[p + 2] = LF)
    <3>1. Len(eol) = 2 /\ eol[1] = CR /\ eol[2] = LF /\ 1 \in 1 .. 2 /\ 2 \in 1 .. 2 BY <1>5
    <3> QED BY <1>3, <3>1
  <2>2. CASE p + 1 <= m
    <3>1. p + 1 \in At(input, CR, p) BY <1>1, <1>2, <2>1, <2>2
    <3>2. DataEnd(input, p) = p + 2 BY <3>1 DEF DataEnd
    <3>3. p + 2 <= m => p + 2 \in At(input, LF, p) BY <1>1, <1>2, <2>1
    <3>4. ~(p + 2 <= m) => p + 2 \notin At(input, LF, p) BY <1>1, <1>2
    <3> QED BY <2>1, <3>2, <3>3, <3>4 DEF m
  <2>3. CASE ~(p + 1 <= m)
    <3>1. p + 1 \notin At(input, CR, p) BY <1>1, <1>2, <2>3
    <3>2. DataEnd(input, p) = p + 1 BY <3>1 DEF DataEnd
    <3>3. p + 1 \notin At(input, LF, p) /\ ~(p + 2 <= m) BY <1>1, <1>2, <2>3
    <3> QED BY <2>1, <3>2, <3>3 DEF m
  <2> QED BY <2>2, <2>3
<1> QED BY <1>4, <1>5

\* A turn where the line is cut: the decoder fails.
LEMMA TurnOnCutLine ==
  ASSUME NEW input \in Seq(Nat), NEW limit \in Nat, NEW d \in Decoders, d.pos <= Len(input),
         NEW n \in 0 .. 9, NEW line, IsLine(line, n), StandsAt(input, d.pos, line),
         d.pos + Len(line) > Len(input)
  PROVE  Turn(input, limit, d) = Fails(d)
<1>1. d.pos \in 0 .. Len(input) /\ Len(line) \in Nat BY DEF Decoders, IsLine
<1>2. ~(d.pos + Len(line) <= Len(input)) BY <1>1
<1>3. At(input, LF, d.pos) = {} BY <1>1, <1>2, LineEnds
<1> QED BY <1>3 DEF Turn, WithoutLine

\* The line that a turn reads, by where its line feed is.
LEMMA LineRead ==
  ASSUME NEW input, NEW pos \in Int, NEW k \in Int, NEW start, start = pos + k
  PROVE  SubSeq(input, pos + 1, start - 1) = SubSeq(input, pos + 1, pos + k - 1)
<1>1. start - 1 = pos + k - 1 OBVIOUS
<1> QED BY <1>1, Zenon

\* A turn on a line that is not text: the decoder fails.
LEMMA TurnOnBadLine ==
  ASSUME NEW input \in Seq(Nat), NEW limit \in Nat, NEW d \in Decoders, d.pos <= Len(input),
         NEW n \in 0 .. 9, NEW line, IsLine(line, n), StandsAt(input, d.pos, line),
         d.pos + Len(line) <= Len(input),
         ~Utf8(SubSeq(input, d.pos + 1, d.pos + Len(line) - 1))
  PROVE  Turn(input, limit, d) = Fails(d)
<1> DEFINE ends == At(input, LF, d.pos)
           start == First(ends)
           read == SubSeq(input, d.pos + 1, start - 1)
<1>1. d.pos \in 0 .. Len(input) BY DEF Decoders
<1>2. ends # {} /\ start = d.pos + Len(line) BY <1>1, LineEnds
<1> HIDE DEF start
<1>3. ~Utf8(read)
  <2>1. d.pos \in Int /\ Len(line) \in Int BY <1>1 DEF IsLine
  <2> DEFINE k == Len(line)
             p == d.pos
  <2>2. p \in Int /\ k \in Int /\ start = p + k BY <1>2, <2>1
  <2> HIDE DEF k, p
  <2>3. SubSeq(input, p + 1, start - 1) = SubSeq(input, p + 1, p + k - 1) BY <2>2, LineRead
  <2>4. read = SubSeq(input, d.pos + 1, d.pos + Len(line) - 1) BY <2>3 DEF p, k
  <2> HIDE DEF read
  <2> QED BY <2>4, Zenon
<1> HIDE DEF read, ends
<1>4. Turn(input, limit, d) =
        IF ends = {} THEN WithoutLine(d)
        ELSE IF ~Utf8(read) THEN Fails(d) ELSE Turn(input, limit, d)
  BY DEF Turn, read, start, ends
<1> QED BY <1>2, <1>3, <1>4, Zenon

\* A turn on the line with the size zero: the decoder has everything.
LEMMA TurnOnLast ==
  ASSUME NEW input \in Seq(Nat), NEW limit \in Nat, NEW d \in Decoders, d.pos <= Len(input),
         NEW line, IsLine(line, 0), StandsAt(input, d.pos, line),
         d.pos + Len(line) <= Len(input),
         Utf8(SubSeq(input, d.pos + 1, d.pos + Len(line) - 1))
  PROVE  Turn(input, limit, d) = Ends(d)
<1> DEFINE ends == At(input, LF, d.pos)
           start == First(ends)
           read == SubSeq(input, d.pos + 1, start - 1)
           text == SizeText(read)
           size0 == Value(text)
<1>1. d.pos \in 0 .. Len(input) /\ 0 \in 0 .. 9 BY DEF Decoders
<1>2. ends # {} /\ start = d.pos + Len(line) BY <1>1, LineEnds
<1> HIDE DEF start
<1>3. text = <<Digit(0)>> BY <1>1, <1>2, TextInInput
<1>7. Utf8(read)
  <2>1. d.pos \in Int /\ Len(line) \in Int BY <1>1 DEF IsLine
  <2> DEFINE k == Len(line)
             p == d.pos
  <2>2. p \in Int /\ k \in Int /\ start = p + k BY <1>2, <2>1
  <2> HIDE DEF k, p, text, size0
  <2>3. SubSeq(input, p + 1, start - 1) = SubSeq(input, p + 1, p + k - 1) BY <2>2, LineRead
  <2>4. read = SubSeq(input, d.pos + 1, d.pos + Len(line) - 1) BY <2>3 DEF p, k
  <2> HIDE DEF read
  <2> QED BY <2>4, Zenon
<1> HIDE DEF text, read
<1>4. size0 = 0 BY <1>1, <1>3, ValueOfDigit
<1>5. text # <<>> /\ \A i \in DOMAIN text : text[i] \in Digit(0) .. Digit(9)
  BY <1>3 DEF Digit
<1> HIDE DEF size0, ends
<1>6. Turn(input, limit, d) =
        IF ends = {} THEN WithoutLine(d)
        ELSE IF ~Utf8(read) THEN Fails(d)
        ELSE IF text = <<>> \/ ~(\A i \in DOMAIN text : text[i] \in Digit(0) .. Digit(9))
        THEN Fails(d)
        ELSE IF size0 = 0 THEN Ends(d) ELSE Turn(input, limit, d)
  BY DEF Turn, size0, text, read, start, ends
<1> QED BY <1>2, <1>4, <1>5, <1>6, <1>7, Zenon

\* The decoder that has taken n bytes behind start, as many as the limit allows.
WithChunk(input, limit, d, start, n, end) ==
  LET keep == Least(limit - Len(d.out), n)
  IN  [d EXCEPT !.pos = end, !.out = @ \o SubSeq(input, start + 1, start + keep),
                !.truncated = @ \/ keep < n]

\* A turn on a chunk: it is taken when it is whole with the end of its line.
LEMMA TurnOnChunk ==
  ASSUME NEW input \in Seq(Nat), NEW limit \in Nat, NEW d \in Decoders, d.pos <= Len(input),
         NEW n \in 1 .. 9, NEW line, IsLine(line, n), StandsAt(input, d.pos, line),
         NEW eol \in {<<LF>>, <<CR, LF>>}, StandsAt(input, d.pos + Len(line) + n, eol),
         d.pos + Len(line) <= Len(input),
         Utf8(SubSeq(input, d.pos + 1, d.pos + Len(line) - 1))
  PROVE  LET start == d.pos + Len(line)
             end == start + n + Len(eol)
         IN  Turn(input, limit, d) =
               IF end <= Len(input) THEN WithChunk(input, limit, d, start, n, end) ELSE Fails(d)
<1> DEFINE ends == At(input, LF, d.pos)
           begin == First(ends)
           read == SubSeq(input, d.pos + 1, begin - 1)
           text == SizeText(read)
           size0 == Value(text)
           behind == DataEnd(input, begin + size0)
<1> HIDE DEF ends, begin, read, text, size0, behind
<1>1. d.pos \in 0 .. Len(input) /\ n \in 0 .. 9 /\ n # 0 /\ Len(line) \in Nat
  <2>1. d.pos \in Nat BY DEF Decoders
  <2>2. line \in Seq(Nat) BY DEF IsLine
  <2>3. Len(line) \in Nat BY <2>2
  <2>4. Len(input) \in Nat OBVIOUS
  <2>5. d.pos \in 0 .. Len(input) BY <2>1, <2>4
  <2>6. n \in 0 .. 9 /\ n # 0 OBVIOUS
  <2> QED BY <2>3, <2>5, <2>6
<1> USE DEF ends, begin, read, text, size0, behind
<1>2. ends # {} /\ begin = d.pos + Len(line) BY <1>1, LineEnds
<1> HIDE DEF begin
<1>3. read = SubSeq(input, d.pos + 1, d.pos + Len(line) - 1)
  <2>0. d.pos \in Int /\ Len(line) \in Int BY <1>1
  <2>3. begin - 1 = d.pos + Len(line) - 1
    <3> HIDE DEF text, read, size0, behind, ends
    <3> DEFINE x == d.pos
               y == Len(line)
    <3>1. x \in Int /\ y \in Int /\ begin = x + y BY <1>2, <2>0
    <3> HIDE DEF x, y
    <3>2. begin - 1 = x + y - 1 BY <3>1
    <3> QED BY <3>2 DEF x, y
  <2>4. read = SubSeq(input, d.pos + 1, begin - 1) OBVIOUS
  <2> HIDE DEF read
  <2> QED BY <2>3, <2>4, Zenon
<1> HIDE DEF read
<1>12. Utf8(read) BY <1>3
<1>13. text = <<Digit(n)>>
  <2>1. SizeText(SubSeq(input, d.pos + 1, d.pos + Len(line) - 1)) = <<Digit(n)>>
    <3> HIDE DEF text, ends
    <3> QED BY <1>1, TextInInput
  <2>2. text = SizeText(read) OBVIOUS
  <2> HIDE DEF text
  <2> QED BY <1>3, <2>1, <2>2, Zenon
<1> HIDE DEF text
<1>4. size0 = n BY <1>1, <1>13, ValueOfDigit
<1>5. text # <<>> /\ \A i \in DOMAIN text : text[i] \in Digit(0) .. Digit(9)
  BY <1>1, <1>13 DEF Digit
<1> HIDE DEF size0, ends, behind
<1>6. Turn(input, limit, d) =
        IF ends = {} THEN WithoutLine(d)
        ELSE IF ~Utf8(read) THEN Fails(d)
        ELSE IF text = <<>> \/ ~(\A i \in DOMAIN text : text[i] \in Digit(0) .. Digit(9))
        THEN Fails(d)
        ELSE IF size0 = 0 THEN Ends(d)
        ELSE IF behind \notin At(input, LF, begin + size0) THEN Fails(d)
        ELSE WithChunk(input, limit, d, begin, size0, behind)
  BY DEF Turn, WithChunk, size0, text, read, begin, ends, behind
<1>7. Turn(input, limit, d) =
        IF behind \notin At(input, LF, begin + n) THEN Fails(d)
        ELSE WithChunk(input, limit, d, begin, n, behind)
  BY <1>1, <1>2, <1>4, <1>5, <1>6, <1>12, Zenon
<1> DEFINE p == begin + n
<1>8. p \in Nat /\ p = d.pos + Len(line) + n BY <1>1, <1>2, SMTT(30)
<1>9. behind = DataEnd(input, p) BY <1>4 DEF behind
<1> HIDE DEF p
<1>10. IF p + Len(eol) <= Len(input)
       THEN DataEnd(input, p) = p + Len(eol) /\ DataEnd(input, p) \in At(input, LF, p)
       ELSE DataEnd(input, p) \notin At(input, LF, p)
  BY <1>8, DataEndIs
<1>11. Turn(input, limit, d) =
         IF p + Len(eol) <= Len(input)
         THEN WithChunk(input, limit, d, begin, n, p + Len(eol)) ELSE Fails(d)
  BY <1>7, <1>9, <1>10 DEF p
<1> QED BY <1>2, <1>11 DEF p

-----------------------------------------------------------------------------
(* The message on the wire.                                                *)

\* The lines of a message are lines.
LEMMA LinesAreLines ==
  ASSUME message \in Messages, NEW n \in 0 .. 9
  PROVE  IsLine(Line(n), n)
<1> DEFINE ext == message.extension
           eol == message.eol
           digit == <<Digit(n)>>
           first == digit \o ext
           line == first \o eol
<1>1. /\ eol \in {<<LF>>, <<CR, LF>>} /\ ext \in Seq(Nat)
      /\ \A i \in DOMAIN ext : ext[i] # LF
      /\ ext = <<>> \/ ext[1] = Semicolon
  BY PreviewAssumption
<1>2. /\ eol \in Seq(Nat) /\ Len(eol) \in {1, 2} /\ eol[Len(eol)] = LF
      /\ Len(eol) = 2 => eol[1] = CR
  <2>1. CASE eol = <<LF>>
    <3>1. eol \in Seq(Nat) /\ Len(eol) = 1 /\ eol[1] = LF BY <2>1 DEF LF
    <3> HIDE DEF eol
    <3> QED BY <3>1
  <2>2. CASE eol = <<CR, LF>>
    <3>1. eol \in Seq(Nat) /\ Len(eol) = 2 /\ eol[1] = CR /\ eol[2] = LF BY <2>2 DEF LF, CR
    <3> HIDE DEF eol
    <3> QED BY <3>1
  <2> HIDE DEF eol
  <2> QED BY <1>1, <2>1, <2>2
<1>3. digit \in Seq(Nat) /\ Len(digit) = 1 /\ digit[1] = Digit(n) /\ Digit(n) # LF
  BY DEF Digit, LF
<1>4. ext = <<>> \/ (Len(ext) \in Nat \ {0} /\ ext[1] = Semicolon) BY <1>1
<1>5. \A i \in 1 .. Len(ext) : ext[i] # LF BY <1>1
<1>6. Line(n) = line BY DEF Line
<1> HIDE DEF ext, eol, digit
<1>7. /\ first \in Seq(Nat) /\ Len(first) = 1 + Len(ext) /\ Len(ext) \in Nat
      /\ first[1] = Digit(n) /\ \A i \in 1 .. Len(ext) : first[1 + i] = ext[i]
  <2>1. /\ first \in Seq(Nat) /\ Len(first) = Len(digit) + Len(ext) /\ Len(ext) \in Nat
        /\ \A i \in 1 .. Len(digit) : first[i] = digit[i]
        /\ \A i \in 1 .. Len(ext) : first[Len(digit) + i] = ext[i]
    <3>1. digit \in Seq(Nat) /\ ext \in Seq(Nat) BY <1>1, <1>3
    <3> QED BY <3>1, TwoParts
  <2> HIDE DEF first
  <2>2. 1 \in 1 .. Len(digit) BY <1>3
  <2> QED BY <1>3, <2>1, <2>2
<1> HIDE DEF first
<1>8. /\ line \in Seq(Nat) /\ Len(line) = Len(first) + Len(eol)
      /\ \A i \in 1 .. Len(first) : line[i] = first[i]
      /\ \A i \in 1 .. Len(eol) : line[Len(first) + i] = eol[i]
  BY <1>2, <1>7, TwoParts, SMTT(30)
<1> HIDE DEF line
<1>9. Len(line) \in Nat \ {0, 1} BY <1>2, <1>7, <1>8
<1>10. line[1] = Digit(n)
  <2>1. 1 \in 1 .. Len(first) BY <1>7
  <2> QED BY <1>7, <1>8, <2>1
<1>11. line[Len(line)] = LF
  <2>1. Len(eol) \in 1 .. Len(eol) BY <1>2
  <2>2. line[Len(first) + Len(eol)] = eol[Len(eol)] BY <1>8, <2>1
  <2> QED BY <1>2, <1>8, <2>2
<1>12. ASSUME NEW i \in 1 .. Len(line) - 1 PROVE line[i] # LF
  <2>1. CASE i = 1 BY <1>3, <1>10, <2>1
  <2>2. CASE i # 1 /\ i <= Len(first)
    <3> DEFINE j == i - 1
    <3>1. j \in 1 .. Len(ext) /\ i \in 1 .. Len(first) /\ i = 1 + j BY <1>7, <2>2
    <3> HIDE DEF j
    <3> QED BY <1>5, <1>7, <1>8, <3>1
  <2>3. CASE i > Len(first)
    <3> DEFINE a == Len(first)
               b == Len(eol)
    <3>3. /\ a \in Nat /\ b \in {1, 2} /\ i \in Nat /\ i <= (a + b) - 1 /\ i > a
      <4>1. a \in Nat /\ b \in {1, 2} /\ Len(line) = a + b BY <1>2, <1>7, <1>8
      <4>2. i \in 1 .. Len(line) - 1 /\ i > a BY <2>3
      <4> HIDE DEF a, b
      <4> QED BY <4>1, <4>2
    <3> HIDE DEF a, b
    <3>4. i = a + 1 /\ b = 2 /\ 1 \in 1 .. b BY <3>3
    <3>1. i = Len(first) + 1 /\ Len(eol) = 2 /\ 1 \in 1 .. Len(eol) BY <3>4 DEF a, b
    <3>2. line[i] = CR BY <1>2, <1>8, <3>1
    <3> QED BY <3>2 DEF LF, CR
  <2> QED BY <1>7, <2>1, <2>2, <2>3
<1>13. line[2] = Semicolon \/ Len(line) = 2 \/ (Len(line) = 3 /\ line[2] = CR)
  <2>1. CASE ext = <<>>
    <3>1. Len(ext) = 0 BY <2>1
    <3>2. Len(first) = 1 BY <1>7, <3>1
    <3>5. 1 \in 1 .. Len(eol) BY <1>2
    <3>3. line[1 + 1] = eol[1] BY <1>8, <3>2, <3>5
    <3>4. Len(line) = 1 + Len(eol) /\ line[2] = eol[1] BY <1>8, <3>2, <3>3
    <3> QED BY <1>2, <3>4
  <2>2. CASE Len(ext) \in Nat \ {0} /\ ext[1] = Semicolon
    <3>1. 1 \in 1 .. Len(ext) /\ 2 \in 1 .. Len(first) BY <1>7, <2>2
    <3>2. first[1 + 1] = ext[1] BY <1>7, <3>1
    <3> QED BY <1>8, <2>2, <3>1, <3>2
  <2> QED BY <1>4, <2>1, <2>2
<1> QED BY <1>6, <1>8, <1>9, <1>10, <1>11, <1>12, <1>13 DEF IsLine

\* What three sequences make together.
LEMMA ThreeParts ==
  ASSUME NEW V, NEW s \in Seq(V), NEW t \in Seq(V), NEW u \in Seq(V)
  PROVE  /\ s \o t \o u \in Seq(V) /\ Len(s \o t \o u) = Len(s) + Len(t) + Len(u)
         /\ \A i \in 1 .. Len(s) : (s \o t \o u)[i] = s[i]
         /\ \A i \in 1 .. Len(t) : (s \o t \o u)[Len(s) + i] = t[i]
         /\ \A i \in 1 .. Len(u) : (s \o t \o u)[Len(s) + Len(t) + i] = u[i]
<1> DEFINE w == s \o t
           all == w \o u
<1>1. /\ w \in Seq(V) /\ Len(w) = Len(s) + Len(t) /\ Len(s) \in Nat /\ Len(t) \in Nat
      /\ \A i \in 1 .. Len(s) : w[i] = s[i]
      /\ \A i \in 1 .. Len(t) : w[Len(s) + i] = t[i]
  BY TwoParts
<1> HIDE DEF w
<1>2. /\ all \in Seq(V) /\ Len(all) = Len(w) + Len(u) /\ Len(u) \in Nat
      /\ \A i \in 1 .. Len(w) : all[i] = w[i]
      /\ \A i \in 1 .. Len(u) : all[Len(w) + i] = u[i]
  <2>1. w \in Seq(V) BY <1>1
  <2> QED BY <2>1, TwoParts
<1> HIDE DEF all
<1>3. ASSUME NEW i \in 1 .. Len(s) PROVE all[i] = s[i]
  <2>1. i \in 1 .. Len(w) BY <1>1
  <2> QED BY <1>1, <1>2, <2>1
<1>4. ASSUME NEW i \in 1 .. Len(t) PROVE all[Len(s) + i] = t[i]
  <2> DEFINE j == Len(s) + i
  <2>1. j \in 1 .. Len(w) /\ w[j] = t[i] BY <1>1
  <2> HIDE DEF j
  <2>2. all[j] = t[i] BY <1>2, <2>1
  <2> QED BY <2>2 DEF j
<1> QED BY <1>1, <1>2, <1>3, <1>4 DEF all, w

\* A line whose extension is text is text, without its line feed.
LEMMA LineIsText ==
  ASSUME message \in Messages, NEW n \in 0 .. 9, Utf8(message.extension),
         NEW b \in Seq(Nat), Len(b) = Len(Line(n)) - 1,
         \A i \in 1 .. Len(b) : b[i] = Line(n)[i]
  PROVE  Utf8(b)
<1> DEFINE ext == message.extension
           eol == message.eol
           digit == <<Digit(n)>>
           line == digit \o ext \o eol
           m == Len(ext)
           u == Len(eol)
<1>1. ext \in Seq(Nat) /\ eol \in {<<LF>>, <<CR, LF>>} BY PreviewAssumption
<1>2. eol \in Seq(Nat) /\ u \in {1, 2} /\ (u = 2 => eol[1] = CR)
  <2>1. CASE eol = <<LF>>
    <3>1. eol \in Seq(Nat) /\ Len(eol) = 1 BY <2>1 DEF LF
    <3> HIDE DEF eol
    <3> QED BY <3>1
  <2>2. CASE eol = <<CR, LF>>
    <3>1. eol \in Seq(Nat) /\ Len(eol) = 2 /\ eol[1] = CR BY <2>2 DEF LF, CR
    <3> HIDE DEF eol
    <3> QED BY <3>1
  <2> HIDE DEF eol
  <2> QED BY <1>1, <2>1, <2>2
<1>3. digit \in Seq(Nat) /\ Len(digit) = 1 /\ digit[1] < 128 BY DEF Digit
<1>4. Line(n) = line BY DEF Line
<1>5. m \in Nat /\ DOMAIN ext = 1 .. m BY <1>1
<1>14. Utf8(ext) OBVIOUS
<1> HIDE DEF ext, eol, digit
<1>6. /\ Len(line) = Len(digit) + m + u
      /\ \A i \in 1 .. Len(digit) : line[i] = digit[i]
      /\ \A i \in 1 .. m : line[Len(digit) + i] = ext[i]
      /\ \A i \in 1 .. u : line[Len(digit) + m + i] = eol[i]
  <2>1. digit \in Seq(Nat) /\ ext \in Seq(Nat) /\ eol \in Seq(Nat) BY <1>1, <1>2, <1>3
  <2> QED BY <2>1, ThreeParts, SMTT(30)
<1> HIDE DEF line, m, u
<1>7. /\ Len(b) = m + u /\ DOMAIN b = 1 .. m + u /\ \A i \in 1 .. m + u : b[i] = line[i]
      /\ \A i \in DOMAIN b : b[i] \in Nat
  <2>1. Len(line) = 1 + m + u /\ Len(b) = Len(line) - 1 BY <1>3, <1>4, <1>6
  <2>2. Len(b) = m + u BY <1>2, <1>5, <2>1
  <2> QED BY <1>4, <2>2
<1>8. b[1] < 128
  <2>1. 1 \in 1 .. m + u /\ 1 \in 1 .. Len(digit) BY <1>2, <1>3, <1>5
  <2> QED BY <1>3, <1>6, <1>7, <2>1
<1>9. ASSUME NEW j \in 1 .. m PROVE b[1 + j] = ext[j] /\ 1 + j \in DOMAIN b
  <2>1. 1 + j \in 1 .. m + u BY <1>2, <1>5
  <2> QED BY <1>3, <1>6, <1>7, <2>1
<1>10. ASSUME NEW i \in DOMAIN b, i > 1 + m PROVE b[i] < 128
  <2>1. u = 2 /\ i = 1 + m + 1 /\ 1 \in 1 .. u BY <1>2, <1>5, <1>7, <1>10
  <2>2. line[1 + m + 1] = eol[1] BY <1>3, <1>6, <2>1
  <2>3. b[i] = CR BY <1>2, <1>7, <2>1, <2>2
  <2> QED BY <2>3 DEF CR
<1>11. ASSUME NEW i \in Int, NEW c \in 1 .. 3, Character(ext, i, c) PROVE Character(b, 1 + i, c)
  <2>1. /\ i \in 1 .. m /\ i + c \in 1 .. m
        /\ ext[i] \in Heads(c) /\ \A k \in 1 .. c : ext[i + k] \in 128 .. 191
        /\ ext[i] = 224 => ext[i + 1] >= 160
        /\ ext[i] = 237 => ext[i + 1] <= 159
        /\ ext[i] = 240 => ext[i + 1] >= 144
        /\ ext[i] = 244 => ext[i + 1] <= 143
    BY <1>5, <1>11 DEF Character
  <2>2. \A k \in 0 .. c : i + k \in 1 .. m BY <1>5, <2>1
  <2>3. ASSUME NEW k \in 0 .. c PROVE b[1 + i + k] = ext[i + k] /\ 1 + i + k \in DOMAIN b
    <3> DEFINE j == i + k
    <3>1. j \in 1 .. m BY <2>2
    <3> HIDE DEF j
    <3>2. b[1 + j] = ext[j] /\ 1 + j \in DOMAIN b BY <1>9, <3>1
    <3>3. 1 + j = 1 + i + k BY DEF j
    <3> QED BY <3>2, <3>3 DEF j
  <2>4. 0 \in 0 .. c /\ 1 \in 0 .. c /\ c \in 0 .. c /\ i + 0 = i /\ 1 + i + 0 = 1 + i OBVIOUS
  <2>5. b[1 + i] = ext[i] /\ 1 + i \in DOMAIN b BY <2>3, <2>4
  <2>6. b[1 + i + 1] = ext[i + 1] /\ 1 + i + c \in DOMAIN b BY <2>3, <2>4
  <2>7. \A k \in 1 .. c : b[1 + i + k] \in 128 .. 191
    <3> TAKE k \in 1 .. c
    <3>1. k \in 0 .. c OBVIOUS
    <3> QED BY <2>1, <2>3, <3>1
  <2>8. /\ b[1 + i] \in Heads(c)
        /\ b[1 + i] = 224 => b[1 + i + 1] >= 160
        /\ b[1 + i] = 237 => b[1 + i + 1] <= 159
        /\ b[1 + i] = 240 => b[1 + i + 1] >= 144
        /\ b[1 + i] = 244 => b[1 + i + 1] <= 143
    <3> DEFINE v == b[1 + i]
               w == b[1 + i + 1]
    <3>1. v = ext[i] /\ w = ext[i + 1] BY <2>5, <2>6
    <3> HIDE DEF v, w
    <3>2. v \in Heads(c) BY <2>1, <3>1
    <3>3. v = 224 => w >= 160 BY <2>1, <3>1
    <3>4. v = 237 => w <= 159 BY <2>1, <3>1
    <3>5. v = 240 => w >= 144 BY <2>1, <3>1
    <3>6. v = 244 => w <= 143 BY <2>1, <3>1
    <3> QED BY <3>2, <3>3, <3>4, <3>5, <3>6 DEF v, w
  <2> DEFINE q == 1 + i
  <2>9. /\ q \in DOMAIN b /\ q + c \in DOMAIN b /\ b[q] \in Heads(c)
        /\ \A k \in 1 .. c : b[q + k] \in 128 .. 191
        /\ b[q] = 224 => b[q + 1] >= 160
        /\ b[q] = 237 => b[q + 1] <= 159
        /\ b[q] = 240 => b[q + 1] >= 144
        /\ b[q] = 244 => b[q + 1] <= 143
    BY <2>5, <2>6, <2>7, <2>8, Zenon
  <2> QED BY <2>9 DEF Character
<1>12. ASSUME NEW i \in DOMAIN b
       PROVE  b[i] < 128 \/ \E c \in 1 .. 3 : \E k \in 0 .. c : Character(b, i - k, c)
  <2>1. CASE i = 1 BY <1>8, <2>1
  <2>2. CASE i > 1 + m BY <1>10, <2>2
  <2>3. CASE i # 1 /\ i <= 1 + m
    <3> DEFINE j == i - 1
    <3>1. j \in 1 .. m /\ i = 1 + j BY <1>5, <1>7, <2>3
    <3> HIDE DEF j
    <3>2. ext[j] < 128 \/ \E c \in 1 .. 3 : \E k \in 0 .. c : Character(ext, j - k, c)
      BY <1>5, <1>14, <3>1 DEF Utf8
    <3>3. CASE ext[j] < 128 BY <1>9, <3>1, <3>3
    <3>4. CASE \E c \in 1 .. 3 : \E k \in 0 .. c : Character(ext, j - k, c)
      <4>0. PICK c \in 1 .. 3 : \E k \in 0 .. c : Character(ext, j - k, c) BY <3>4
      <4>1. PICK k \in 0 .. c : Character(ext, j - k, c) BY <4>0
      <4>2. j - k \in Int /\ 1 + (j - k) = i - k BY <3>1
      <4>3. Character(b, 1 + (j - k), c) BY <1>11, <4>1, <4>2
      <4> QED BY <4>2, <4>3
    <3> QED BY <3>2, <3>3, <3>4
  <2> QED BY <1>5, <1>7, <2>1, <2>2, <2>3
<1> QED BY <1>12 DEF Utf8

\* Where the first k chunks end on the wire, and in the payload.
WireEnd(k) == Len(Joins(Parts)[k])
PayloadEnd(k) == Len(Joins(message.chunks)[k])

\* What a message is made of.
LEMMA MessageIs ==
  ASSUME message \in Messages
  PROVE  /\ message.chunks \in Seq(Seq(Nat)) /\ message.eol \in {<<LF>>, <<CR, LF>>}
         /\ message.eol \in Seq(Nat) /\ Len(message.eol) \in {1, 2}
         /\ Len(Parts) = Len(message.chunks) /\ Parts \in Seq(Seq(Nat))
         /\ \A k \in 1 .. Len(message.chunks) :
              /\ message.chunks[k] \in Seq(Nat) /\ Len(message.chunks[k]) \in 1 .. 9
              /\ Parts[k] = Part(message.chunks[k])
<1> DEFINE c == message.chunks
           eol == message.eol
<1>1. /\ c \in Seq(Seq(Nat)) /\ \A k \in DOMAIN c : Len(c[k]) \in 1 .. 9
      /\ eol \in {<<LF>>, <<CR, LF>>}
  BY PreviewAssumption
<1>2. eol \in Seq(Nat) /\ Len(eol) \in {1, 2}
  <2>1. CASE eol = <<LF>>
    <3>1. eol \in Seq(Nat) /\ Len(eol) = 1 BY <2>1 DEF LF
    <3> HIDE DEF eol
    <3> QED BY <3>1
  <2>2. CASE eol = <<CR, LF>>
    <3>1. eol \in Seq(Nat) /\ Len(eol) = 2 BY <2>2 DEF LF, CR
    <3> HIDE DEF eol
    <3> QED BY <3>1
  <2> HIDE DEF eol
  <2> QED BY <1>1, <2>1, <2>2
<1>3. DOMAIN c = 1 .. Len(c) /\ Len(c) \in Nat BY <1>1
<1>4. Parts = [k \in 1 .. Len(c) |-> Part(c[k])] BY <1>3 DEF Parts
<1> HIDE DEF c
<1>5. ASSUME NEW k \in 1 .. Len(c) PROVE Part(c[k]) \in Seq(Nat) /\ c[k] \in Seq(Nat)
  <2>0. k \in DOMAIN c BY <1>3
  <2>5. Len(c[k]) \in 1 .. 9 BY <1>1, <2>0
  <2>6. c[k] \in Seq(Nat) BY <1>1
  <2>1. c[k] \in Seq(Nat) /\ Len(c[k]) \in 0 .. 9 BY <2>5, <2>6
  <2>2. Line(Len(c[k])) \in Seq(Nat) BY <2>1, LinesAreLines DEF IsLine
  <2> DEFINE s == Line(Len(c[k]))
             t == c[k]
  <2>3. s \in Seq(Nat) /\ t \in Seq(Nat) BY <2>1, <2>2
  <2> HIDE DEF s, t, eol
  <2>4. s \o t \o eol \in Seq(Nat) BY <1>2, <2>3, ThreeParts
  <2> QED BY <2>1, <2>4 DEF s, t, eol, Part
<1>6. Parts \in Seq(Seq(Nat)) /\ Len(Parts) = Len(c) BY <1>3, <1>4, <1>5
<1>7. \A k \in 1 .. Len(c) : Parts[k] = Part(c[k]) BY <1>4
<1> QED BY <1>1, <1>2, <1>3, <1>5, <1>6, <1>7 DEF c

\* A chunk stands on the wire between its line and the end of it.
LEMMA WireHolds ==
  ASSUME message \in Messages, NEW k \in 1 .. Len(message.chunks)
  PROVE  LET chunk == message.chunks[k]
             line == Line(Len(chunk))
             data == WireEnd(k - 1) + Len(line)
         IN  /\ WireEnd(k - 1) \in Nat /\ WireEnd(k) <= Len(Wire)
             /\ WireEnd(k) = data + Len(chunk) + Len(message.eol)
             /\ \A i \in 1 .. Len(line) : Wire[WireEnd(k - 1) + i] = line[i]
             /\ \A i \in 1 .. Len(chunk) : Wire[data + i] = chunk[i]
             /\ \A i \in 1 .. Len(message.eol) :
                  Wire[data + Len(chunk) + i] = message.eol[i]
<1> DEFINE t == message.chunks[k]
           s == Line(Len(t))
           u == message.eol
           last == Line(0) \o u
           all == Joined(Parts)
           at == WireEnd(k - 1)
           end == WireEnd(k)
           p == Parts[k]
<1>1. /\ t \in Seq(Nat) /\ u \in Seq(Nat) /\ Len(t) \in 0 .. 9
      /\ Parts \in Seq(Seq(Nat)) /\ k \in 1 .. Len(Parts) /\ k \in 0 .. Len(Parts)
      /\ p = s \o t \o u
  <2>1. /\ Parts \in Seq(Seq(Nat)) /\ Len(Parts) = Len(message.chunks) /\ u \in Seq(Nat)
        /\ Len(message.chunks) \in Nat
    BY MessageIs
  <2>2. t \in Seq(Nat) /\ Len(t) \in 1 .. 9 /\ p = Part(t) BY MessageIs
  <2>3. k \in 1 .. Len(Parts) /\ k \in 0 .. Len(Parts) BY <2>1
  <2>4. Len(t) \in 0 .. 9 BY <2>2
  <2>5. p = s \o t \o u BY <2>2 DEF Part
  <2> HIDE DEF p, s, t, u
  <2> QED BY <2>1, <2>2, <2>3, <2>4, <2>5
<1>2. s \in Seq(Nat)
  <2>1. IsLine(s, Len(t)) BY <1>1, LinesAreLines
  <2> QED BY <2>1 DEF IsLine
<1>3. last \in Seq(Nat)
  <2> DEFINE zero == Line(0)
  <2>1. 0 \in 0 .. 9 OBVIOUS
  <2>2. zero \in Seq(Nat) BY <2>1, LinesAreLines DEF IsLine
  <2> HIDE DEF zero, u
  <2>3. zero \o u \in Seq(Nat) BY <1>1, <2>2, TwoParts
  <2> QED BY <2>3 DEF zero
<1>4. /\ at \in Nat /\ end = at + Len(p)
      /\ \A i \in 1 .. Len(p) : all[at + i] = p[i]
  BY <1>1, JoinsHold DEF WireEnd
<1>5. all \in Seq(Nat) /\ end <= Len(all)
  BY <1>1, JoinsBegin DEF WireEnd
<1>6. Wire = all \o last BY DEF Wire
<1> HIDE DEF all, last, at, end, p, t, u, s
<1>7. /\ Len(Wire) = Len(all) + Len(last) /\ Len(all) \in Nat /\ Len(last) \in Nat
      /\ \A i \in 1 .. Len(all) : Wire[i] = all[i]
  <2>1. /\ Len(all \o last) = Len(all) + Len(last) /\ Len(all) \in Nat /\ Len(last) \in Nat
        /\ \A i \in 1 .. Len(all) : (all \o last)[i] = all[i]
    BY <1>3, <1>5, TwoParts
  <2> QED BY <1>6, <2>1
<1>8. /\ Len(p) = Len(s) + Len(t) + Len(u)
      /\ \A i \in 1 .. Len(s) : p[i] = s[i]
      /\ \A i \in 1 .. Len(t) : p[Len(s) + i] = t[i]
      /\ \A i \in 1 .. Len(u) : p[Len(s) + Len(t) + i] = u[i]
  <2> DEFINE w == s \o t \o u
  <2>1. /\ Len(w) = Len(s) + Len(t) + Len(u)
        /\ \A i \in 1 .. Len(s) : w[i] = s[i]
        /\ \A i \in 1 .. Len(t) : w[Len(s) + i] = t[i]
        /\ \A i \in 1 .. Len(u) : w[Len(s) + Len(t) + i] = u[i]
    <3>1. s \in Seq(Nat) /\ t \in Seq(Nat) /\ u \in Seq(Nat) BY <1>1, <1>2
    <3> QED BY <3>1, ThreeParts
  <2>2. p = w BY <1>1
  <2> HIDE DEF w
  <2> QED BY <2>1, <2>2
<1>9. Len(s) \in Nat /\ Len(t) \in Nat /\ Len(u) \in Nat BY <1>1, <1>2
<1>10. ASSUME NEW i \in 1 .. Len(p) PROVE Wire[at + i] = p[i]
  <2> DEFINE j == at + i
  <2>1. j \in 1 .. Len(all) /\ all[j] = p[i] BY <1>4, <1>5, <1>7, <1>8, <1>9
  <2> HIDE DEF j
  <2>2. Wire[j] = p[i] BY <1>7, <2>1
  <2> QED BY <2>2 DEF j
<1>11. ASSUME NEW i \in 1 .. Len(s) PROVE Wire[at + i] = s[i]
  <2>1. i \in 1 .. Len(p) BY <1>8, <1>9
  <2> QED BY <1>8, <1>10, <2>1
<1>12. ASSUME NEW i \in 1 .. Len(t) PROVE Wire[at + Len(s) + i] = t[i]
  <2> DEFINE j == Len(s) + i
  <2>1. j \in 1 .. Len(p) /\ p[j] = t[i] BY <1>8, <1>9
  <2> HIDE DEF j
  <2>2. Wire[at + j] = t[i] BY <1>10, <2>1
  <2>3. at + Len(s) + i = at + j BY <1>4, <1>9 DEF j
  <2> QED BY <2>2, <2>3
<1>13. ASSUME NEW i \in 1 .. Len(u) PROVE Wire[at + Len(s) + Len(t) + i] = u[i]
  <2> DEFINE j == Len(s) + Len(t) + i
  <2>1. j \in 1 .. Len(p) /\ p[j] = u[i] BY <1>8, <1>9
  <2> HIDE DEF j
  <2>2. Wire[at + j] = u[i] BY <1>10, <2>1
  <2>3. at + Len(s) + Len(t) + i = at + j BY <1>4, <1>9 DEF j
  <2> QED BY <2>2, <2>3
<1>14. end <= Len(Wire) /\ end = at + Len(s) + Len(t) + Len(u)
  BY <1>4, <1>5, <1>7, <1>8, <1>9
<1> QED BY <1>4, <1>11, <1>12, <1>13, <1>14 DEF at, end, s, t, u

\* Behind the last chunk stands the line with the size zero.
LEMMA WireEnds ==
  ASSUME message \in Messages
  PROVE  LET line == Line(0)
             at == WireEnd(Len(message.chunks))
         IN  /\ at \in Nat /\ Len(Wire) = at + Len(line) + Len(message.eol)
             /\ \A i \in 1 .. Len(line) : Wire[at + i] = line[i]
<1> DEFINE s == Line(0)
           u == message.eol
           last == s \o u
           all == Joined(Parts)
<1>1. u \in Seq(Nat) /\ Parts \in Seq(Seq(Nat)) /\ Len(Parts) = Len(message.chunks)
      /\ Len(Parts) \in 0 .. Len(Parts)
  BY MessageIs
<1>2. s \in Seq(Nat)
  <2>1. 0 \in 0 .. 9 OBVIOUS
  <2> QED BY <2>1, LinesAreLines DEF IsLine
<1>3. all \in Seq(Nat) /\ WireEnd(Len(message.chunks)) = Len(all)
  BY <1>1, JoinsBegin DEF WireEnd, Joined
<1>4. Wire = all \o last BY DEF Wire
<1> HIDE DEF all, s, u
<1>5. /\ last \in Seq(Nat) /\ Len(last) = Len(s) + Len(u) /\ Len(s) \in Nat /\ Len(u) \in Nat
      /\ \A i \in 1 .. Len(s) : last[i] = s[i]
  BY <1>1, <1>2, TwoParts
<1> HIDE DEF last
<1>6. /\ Len(Wire) = Len(all) + Len(last) /\ Len(all) \in Nat
      /\ \A i \in 1 .. Len(last) : Wire[Len(all) + i] = last[i]
  <2>1. /\ Len(all \o last) = Len(all) + Len(last) /\ Len(all) \in Nat
        /\ \A i \in 1 .. Len(last) : (all \o last)[Len(all) + i] = last[i]
    <3>1. all \in Seq(Nat) /\ last \in Seq(Nat) BY <1>3, <1>5
    <3> QED BY <3>1, TwoParts
  <2> QED BY <1>4, <2>1
<1>7. ASSUME NEW i \in 1 .. Len(s) PROVE Wire[Len(all) + i] = s[i]
  <2>1. i \in 1 .. Len(last) BY <1>5
  <2> QED BY <1>5, <1>6, <2>1
<1>8. Len(Wire) = Len(all) + Len(s) + Len(u) BY <1>5, <1>6
<1> QED BY <1>3, <1>6, <1>7, <1>8 DEF s, u

-----------------------------------------------------------------------------
(* The turns of the decoder on a message that may be cut.                  *)

\* The input is the beginning of the message on the wire.
IsCut(input) ==
  /\ input \in Seq(Nat) /\ Len(input) <= Len(Wire)
  /\ \A i \in 1 .. Len(input) : input[i] = Wire[i]

\* The decoder has the first k chunks, as much of them as the limit allows.
HasDecoded(input, limit, d, k) ==
  /\ k \in 0 .. Len(message.chunks)
  /\ d.pos = WireEnd(k) /\ d.pos <= Len(input)
  /\ Len(d.out) = Least(limit, PayloadEnd(k))
  /\ \A i \in 1 .. Len(d.out) : d.out[i] = Payload[i]
  /\ d.truncated <=> limit < PayloadEnd(k)

\* After n turns the decoder has n chunks, or has all and has ended, or has failed
\* because the message is cut or its lines are not text.
DecodeInv(input, limit, d, n) ==
  /\ d \in Decoders
  /\ \/ d.status = "loop" /\ HasDecoded(input, limit, d, n)
     \/ d.status = "decoded" /\ HasDecoded(input, limit, d, Len(message.chunks))
     \/ d.status = "failed" /\ (Len(input) < Len(Wire) \/ ~Utf8(message.extension))

\* What stands on the wire stands in the input, as far as it goes.
LEMMA StandsInCut ==
  ASSUME NEW input, IsCut(input), NEW pos \in Nat, NEW part \in Seq(Nat),
         \A i \in 1 .. Len(part) : Wire[pos + i] = part[i]
  PROVE  StandsAt(input, pos, part)
<1> SUFFICES ASSUME NEW i \in 1 .. Len(part), pos + i <= Len(input)
             PROVE  input[pos + i] = part[i]
  BY DEF StandsAt
<1> DEFINE j == pos + i
<1>1. Len(input) \in Nat BY DEF IsCut
<1>2. j \in 1 .. Len(input) BY <1>1
<1>3. Wire[j] = part[i] OBVIOUS
<1> HIDE DEF j
<1>4. input[j] = Wire[j] BY <1>2 DEF IsCut
<1> QED BY <1>3, <1>4 DEF j

\* What is kept of n bytes when p of them are behind.
LEMMA ShareOfLimit ==
  ASSUME NEW limit \in Nat, NEW p \in Nat, NEW n \in Nat
  PROVE  LET keep == Least(limit - Least(limit, p), n)
         IN  /\ keep \in 0 .. n /\ (keep # 0 => Least(limit, p) = p)
             /\ Least(limit, p) + keep = Least(limit, p + n)
             /\ (limit < p \/ keep < n) <=> limit < p + n
<1>1. CASE limit < p
  <2>1. Least(limit, p) = limit /\ Least(limit - limit, n) = 0 BY <1>1 DEF Least
  <2> QED BY <1>1, <2>1 DEF Least
<1>2. CASE ~(limit < p)
  <2>1. Least(limit, p) = p BY <1>2 DEF Least
  <2>2. CASE limit - p < n
    <3>1. Least(limit - p, n) = limit - p BY <2>2 DEF Least
    <3>2. limit - p \in 0 .. n /\ p + (limit - p) = limit BY <1>2, <2>2
    <3>3. Least(limit, p + n) = limit /\ limit < p + n BY <2>2 DEF Least
    <3> QED BY <2>1, <2>2, <3>1, <3>2, <3>3
  <2>3. CASE ~(limit - p < n)
    <3>1. Least(limit - p, n) = n BY <2>3 DEF Least
    <3>2. Least(limit, p + n) = p + n /\ ~(limit < p + n) BY <2>3 DEF Least
    <3> QED BY <1>2, <2>1, <3>1, <3>2
  <2> QED BY <2>2, <2>3
<1> QED BY <1>1, <1>2

\* A chunk stands in the payload behind the chunks before it.
LEMMA PayloadHolds ==
  ASSUME message \in Messages, NEW k \in 1 .. Len(message.chunks)
  PROVE  /\ PayloadEnd(k - 1) \in Nat
         /\ PayloadEnd(k) = PayloadEnd(k - 1) + Len(message.chunks[k])
         /\ \A i \in 1 .. Len(message.chunks[k]) :
              Payload[PayloadEnd(k - 1) + i] = message.chunks[k][i]
<1> DEFINE c == message.chunks
<1>1. c \in Seq(Seq(Nat)) /\ k \in 1 .. Len(c) BY MessageIs
<1> HIDE DEF c
<1>2. /\ Len(Joins(c)[k - 1]) \in Nat
      /\ Len(Joins(c)[k]) = Len(Joins(c)[k - 1]) + Len(c[k])
      /\ \A i \in 1 .. Len(c[k]) : Joined(c)[Len(Joins(c)[k - 1]) + i] = c[k][i]
  BY <1>1, JoinsHold
<1> QED BY <1>2 DEF c, PayloadEnd, Payload

\* A chunk that is kept, or as much of it as the limit allows.
LEMMA OutGrows ==
  ASSUME message \in Messages, NEW input, IsCut(input), NEW limit \in Nat,
         NEW k \in 0 .. Len(message.chunks) - 1, NEW out \in Seq(Nat),
         Len(out) = Least(limit, PayloadEnd(k)),
         \A i \in 1 .. Len(out) : out[i] = Payload[i],
         NEW start \in Nat, start + Len(message.chunks[k + 1]) <= Len(input),
         \A i \in 1 .. Len(message.chunks[k + 1]) : Wire[start + i] = message.chunks[k + 1][i]
  PROVE  LET n == Len(message.chunks[k + 1])
             keep == Least(limit - Len(out), n)
             more == out \o SubSeq(input, start + 1, start + keep)
         IN  /\ more \in Seq(Nat) /\ Len(more) = Least(limit, PayloadEnd(k + 1))
             /\ \A i \in 1 .. Len(more) : more[i] = Payload[i]
             /\ (limit < PayloadEnd(k) \/ keep < n) <=> limit < PayloadEnd(k + 1)
<1> DEFINE c == message.chunks
           q == k + 1
           n == Len(c[q])
           keep == Least(limit - Len(out), n)
           p == PayloadEnd(k)
           pq == PayloadEnd(q)
           piece == SubSeq(input, start + 1, start + keep)
           more == out \o piece
<1>1. c \in Seq(Seq(Nat)) /\ q \in 1 .. Len(c) /\ q - 1 = k /\ n \in 1 .. 9
  <2>1. c \in Seq(Seq(Nat)) /\ \A j \in 1 .. Len(c) : Len(c[j]) \in 1 .. 9 BY MessageIs
  <2>2. q \in 1 .. Len(c) /\ q - 1 = k BY <2>1
  <2> HIDE DEF q, c
  <2> QED BY <2>1, <2>2
<1> HIDE DEF q
<1>2. p \in Nat /\ pq = p + n /\ \A i \in 1 .. n : Payload[p + i] = c[q][i]
  <2>1. /\ PayloadEnd(q - 1) \in Nat /\ PayloadEnd(q) = PayloadEnd(q - 1) + Len(c[q])
        /\ \A i \in 1 .. Len(c[q]) : Payload[PayloadEnd(q - 1) + i] = c[q][i]
    BY <1>1, PayloadHolds
  <2> QED BY <1>1, <2>1
<1>3. /\ Len(out) = Least(limit, p) /\ start + n <= Len(input)
      /\ \A i \in 1 .. n : Wire[start + i] = c[q][i]
  BY DEF q
<1>4. n \in Nat BY <1>1
<1> HIDE DEF n, p, pq, c
<1>5. /\ keep \in 0 .. n /\ (keep # 0 => Len(out) = p)
      /\ Len(out) + keep = Least(limit, pq)
      /\ (limit < p \/ keep < n) <=> limit < pq
  <2> DEFINE share == Least(limit - Least(limit, p), n)
  <2>1. keep = share BY <1>3
  <2>2. p \in Nat /\ n \in Nat BY <1>2, <1>4
  <2>3. /\ share \in 0 .. n /\ (share # 0 => Least(limit, p) = p)
        /\ Least(limit, p) + share = Least(limit, p + n)
        /\ (limit < p \/ share < n) <=> limit < p + n
    BY <2>2, ShareOfLimit
  <2> HIDE DEF share, keep
  <2>4. pq = p + n /\ Len(out) = Least(limit, p) BY <1>2, <1>3
  <2> QED BY <2>1, <2>3, <2>4
<1> HIDE DEF keep
<1>6. input \in Seq(Nat) /\ Len(input) \in Nat /\ \A i \in 1 .. Len(input) : input[i] = Wire[i]
  BY DEF IsCut
<1>7. piece \in Seq(Nat) /\ Len(piece) = keep /\ \A i \in 1 .. keep : piece[i] = input[start + i]
  <2> DEFINE e == start + keep
  <2>1. start \in 0 .. Len(input) /\ e \in start .. Len(input) /\ e - start = keep
    BY <1>3, <1>4, <1>5, <1>6
  <2> HIDE DEF e
  <2>2. /\ SubSeq(input, start + 1, e) \in Seq(Nat)
        /\ Len(SubSeq(input, start + 1, e)) = e - start
        /\ \A i \in 1 .. e - start : SubSeq(input, start + 1, e)[i] = input[start + i]
    BY <1>6, <2>1, Piece, SMTT(30)
  <2> QED BY <2>1, <2>2 DEF e
<1> HIDE DEF piece
<1>8. /\ more \in Seq(Nat) /\ Len(more) = Len(out) + Len(piece) /\ Len(out) \in Nat
      /\ \A i \in 1 .. Len(out) : more[i] = out[i]
      /\ \A i \in 1 .. Len(piece) : more[Len(out) + i] = piece[i]
  <2>1. piece \in Seq(Nat) /\ out \in Seq(Nat) BY <1>7
  <2>2. out \o piece \in Seq(Nat) BY <2>1, TwoParts
  <2>3. Len(out \o piece) = Len(out) + Len(piece) BY <2>1, TwoParts
  <2>4. Len(out) \in Nat BY <2>1, TwoParts
  <2>5. \A i \in 1 .. Len(out) : (out \o piece)[i] = out[i] BY <2>1, TwoParts
  <2>6. \A i \in 1 .. Len(piece) : (out \o piece)[Len(out) + i] = piece[i] BY <2>1, TwoParts, SMTT(30)
  <2> QED BY <2>2, <2>3, <2>4, <2>5, <2>6
<1> HIDE DEF more
<1>9. ASSUME NEW i \in 1 .. keep PROVE piece[i] = Payload[Len(out) + i]
  <2> DEFINE j == start + i
  <2>1. i \in 1 .. n /\ j \in 1 .. Len(input) /\ keep # 0 BY <1>3, <1>4, <1>5, <1>6, SMTT(30)
  <2>2. piece[i] = input[j] /\ Wire[j] = c[q][i] BY <1>3, <1>7, <2>1
  <2> HIDE DEF j
  <2>3. input[j] = Wire[j] BY <1>6, <2>1
  <2>4. Payload[p + i] = c[q][i] /\ Len(out) = p BY <1>2, <1>5, <2>1
  <2> QED BY <2>2, <2>3, <2>4
<1>10. ASSUME NEW i \in 1 .. Len(more) PROVE more[i] = Payload[i]
  <2>1. CASE i <= Len(out)
    <3>1. i \in 1 .. Len(out) BY <1>8, <2>1
    <3> QED BY <1>8, <3>1
  <2>2. CASE i > Len(out)
    <3> DEFINE j == i - Len(out)
    <3>4. /\ Len(out) \in Nat /\ keep \in Nat /\ Len(more) = Len(out) + keep
          /\ i \in 1 .. Len(more) /\ i > Len(out)
      BY <1>4, <1>5, <1>7, <1>8, <2>2
    <3>1. j \in 1 .. keep /\ Len(out) + j = i
      <4> DEFINE a == Len(out)
                 b == Len(more)
      <4>1. a \in Nat /\ keep \in Nat /\ b = a + keep /\ i \in 1 .. b /\ i > a BY <3>4
      <4> HIDE DEF a, b
      <4>2. i - a \in 1 .. keep /\ a + (i - a) = i BY <4>1
      <4> QED BY <4>2 DEF a
    <3> HIDE DEF j
    <3>2. more[Len(out) + j] = piece[j] BY <1>7, <1>8, <3>1
    <3>3. piece[j] = Payload[Len(out) + j] BY <1>9, <3>1
    <3> QED BY <3>1, <3>2, <3>3
  <2> QED BY <1>4, <1>5, <1>7, <1>8, <2>1, <2>2
<1>11. Len(more) = Least(limit, pq) BY <1>5, <1>7, <1>8
<1> QED BY <1>5, <1>8, <1>10, <1>11 DEF more, piece, keep, n, p, pq, q, c

\* A turn with a chunk ahead of it takes the chunk, or fails because it is cut or its
\* line is not text.
LEMMA TurnTakesChunk ==
  ASSUME message \in Messages, NEW input, IsCut(input), NEW limit \in Nat,
         NEW k \in 0 .. Len(message.chunks) - 1,
         NEW d \in Decoders, d.status = "loop", HasDecoded(input, limit, d, k)
  PROVE  DecodeInv(input, limit, Turn(input, limit, d), k + 1)
<1> DEFINE q == k + 1
           chunk == message.chunks[q]
           n == Len(chunk)
           line == Line(n)
           eol == message.eol
           at == WireEnd(k)
           begin == at + Len(line)
           behind == begin + n + Len(eol)
           share == Least(limit - Len(d.out), n)
           more == d.out \o SubSeq(input, begin + 1, begin + share)
<1>1. Len(message.chunks) \in Nat /\ q \in 1 .. Len(message.chunks) /\ q - 1 = k
      /\ q \in 0 .. Len(message.chunks)
  <2>1. Len(message.chunks) \in Nat BY MessageIs
  <2> QED BY <2>1
<1>2. k \in Nat /\ d.pos = at /\ d.pos <= Len(input) BY DEF HasDecoded
<1> HIDE DEF q
<1>3. chunk \in Seq(Nat) /\ n \in 1 .. 9 /\ eol \in {<<LF>>, <<CR, LF>>}
      /\ Len(eol) \in {1, 2} /\ eol \in Seq(Nat)
  BY <1>1, MessageIs
<1>4. IsLine(line, n) /\ line \in Seq(Nat) /\ Len(line) \in Nat
  <2>1. n \in 0 .. 9 BY <1>3
  <2> HIDE DEF n
  <2>2. IsLine(line, n) BY <2>1, LinesAreLines
  <2> HIDE DEF line
  <2> QED BY <2>2 DEF IsLine
<1>5. /\ at \in Nat /\ WireEnd(q) <= Len(Wire) /\ WireEnd(q) = behind
      /\ \A i \in 1 .. Len(line) : Wire[at + i] = line[i]
      /\ \A i \in 1 .. n : Wire[begin + i] = chunk[i]
      /\ \A i \in 1 .. Len(eol) : Wire[begin + n + i] = eol[i]
  <2>1. /\ WireEnd(q - 1) \in Nat /\ WireEnd(q) <= Len(Wire)
        /\ WireEnd(q) = WireEnd(q - 1) + Len(line) + n + Len(eol)
        /\ \A i \in 1 .. Len(line) : Wire[WireEnd(q - 1) + i] = line[i]
        /\ \A i \in 1 .. n : Wire[WireEnd(q - 1) + Len(line) + i] = chunk[i]
        /\ \A i \in 1 .. Len(eol) : Wire[WireEnd(q - 1) + Len(line) + n + i] = eol[i]
    BY <1>1, WireHolds
  <2>2. WireEnd(q - 1) = at BY <1>1
  <2> HIDE DEF at, line, n, chunk, eol
  <2> QED BY <2>1, <2>2
<1> HIDE DEF at
<1>6. input \in Seq(Nat) /\ Len(input) \in Nat /\ Len(input) <= Len(Wire) /\ Len(Wire) \in Nat
  <2>1. Len(Wire) \in Nat
    <3>1. Len(Wire) = WireEnd(Len(message.chunks)) + Len(Line(0)) + Len(eol)
          /\ WireEnd(Len(message.chunks)) \in Nat
      BY WireEnds
    <3>2. 0 \in 0 .. 9 OBVIOUS
    <3>3. Len(Line(0)) \in Nat BY <3>2, LinesAreLines DEF IsLine
    <3> HIDE DEF eol
    <3> QED BY <1>3, <3>1, <3>3
  <2> QED BY <2>1 DEF IsCut
<1> HIDE DEF line, n, eol, chunk
<1>7. StandsAt(input, d.pos, line)
  <2>1. StandsAt(input, at, line) BY <1>4, <1>5, StandsInCut
  <2> QED BY <1>2, <2>1
<1>8. begin \in Nat /\ begin + n \in Nat /\ behind \in Nat /\ begin <= behind /\ behind <= Len(Wire)
      /\ n \in Nat
  BY <1>3, <1>4, <1>5
<1>9. StandsAt(input, begin + n, eol)
  <2> HIDE DEF begin
  <2> QED BY <1>3, <1>5, <1>8, StandsInCut
<1>10. CASE begin > Len(input)
  <2>1. Turn(input, limit, d) = Fails(d)
    <3>1. d.pos + Len(line) > Len(input) /\ n \in 0 .. 9 BY <1>2, <1>3, <1>10
    <3> HIDE DEF begin
    <3> QED BY <1>2, <1>4, <1>6, <1>7, <3>1, TurnOnCutLine
  <2>2. Len(input) < Len(Wire) BY <1>6, <1>8, <1>10
  <2>3. Fails(d) \in Decoders /\ Fails(d).status = "failed" BY DEF Fails, Decoders
  <2> QED BY <2>1, <2>2, <2>3 DEF DecodeInv
<1> DEFINE read == SubSeq(input, d.pos + 1, d.pos + Len(line) - 1)
<1>12. CASE begin <= Len(input) /\ ~Utf8(read)
  <2>1. d.pos + Len(line) <= Len(input) /\ n \in 0 .. 9 BY <1>2, <1>3, <1>12
  <2>2. d.pos \in 0 .. Len(input) BY <1>2, <1>5, <1>6
  <2>3. Turn(input, limit, d) = Fails(d)
    <3> HIDE DEF begin
    <3> QED BY <1>2, <1>4, <1>6, <1>7, <1>12, <2>1, TurnOnBadLine
  <2>4. read \in Seq(Nat) /\ Len(read) = Len(line) - 1 /\ \A i \in 1 .. Len(read) : read[i] = line[i]
    BY <1>4, <1>6, <1>7, <2>1, <2>2, LineInInput
  <2> HIDE DEF read
  <2>5. ~Utf8(message.extension)
    <3>1. line = Line(n) BY DEF line
    <3>2. /\ read \in Seq(Nat) /\ Len(read) = Len(Line(n)) - 1
          /\ \A i \in 1 .. Len(read) : read[i] = Line(n)[i]
      BY <2>4, <3>1, Zenon
    <3> QED BY <1>12, <2>1, <3>2, LineIsText
  <2>6. Fails(d) \in Decoders /\ Fails(d).status = "failed" BY DEF Fails, Decoders
  <2> QED BY <2>3, <2>5, <2>6 DEF DecodeInv
<1>11. CASE begin <= Len(input) /\ Utf8(read)
  <2> DEFINE next == [d EXCEPT !.pos = behind, !.out = more,
                               !.truncated = d.truncated \/ share < n]
  <2>1. Turn(input, limit, d) = IF behind <= Len(input) THEN next ELSE Fails(d)
    <3>1. d.pos + Len(line) = begin BY <1>2
    <3>2. StandsAt(input, d.pos + Len(line) + n, eol) /\ d.pos + Len(line) <= Len(input)
      BY <1>9, <1>11, <3>1
    <3>3. Turn(input, limit, d) =
            IF d.pos + Len(line) + n + Len(eol) <= Len(input)
            THEN WithChunk(input, limit, d, d.pos + Len(line), n,
                           d.pos + Len(line) + n + Len(eol))
            ELSE Fails(d)
      <4> HIDE DEF begin, behind, share, more, next
      <4>1. /\ input \in Seq(Nat) /\ d.pos <= Len(input) /\ n \in 1 .. 9 /\ IsLine(line, n)
            /\ StandsAt(input, d.pos, line) /\ eol \in {<<LF>>, <<CR, LF>>}
            /\ StandsAt(input, d.pos + Len(line) + n, eol) /\ d.pos + Len(line) <= Len(input)
            /\ Utf8(SubSeq(input, d.pos + 1, d.pos + Len(line) - 1))
        BY <1>2, <1>3, <1>4, <1>6, <1>7, <1>11, <3>2
      <4> QED BY <4>1, TurnOnChunk, ZenonT(60)
    <3>4. WithChunk(input, limit, d, begin, n, behind) = next BY DEF WithChunk
    <3> QED BY <3>1, <3>3, <3>4, Zenon
  <2>2. CASE behind > Len(input)
    <3>1. Turn(input, limit, d) = Fails(d) BY <1>6, <1>8, <2>1, <2>2
    <3>2. Len(input) < Len(Wire) BY <1>6, <1>8, <2>2
    <3>3. Fails(d) \in Decoders /\ Fails(d).status = "failed" BY DEF Fails, Decoders
    <3> QED BY <3>1, <3>2, <3>3 DEF DecodeInv
  <2>3. CASE behind <= Len(input)
    <3>1. /\ d.out \in Seq(Nat) /\ Len(d.out) = Least(limit, PayloadEnd(k))
          /\ \A i \in 1 .. Len(d.out) : d.out[i] = Payload[i]
          /\ d.truncated <=> limit < PayloadEnd(k)
      BY DEF Decoders, HasDecoded
    <3>2. begin + n <= Len(input)
      <4>1. begin + n <= behind BY <1>3, <1>8
      <4> HIDE DEF begin, behind
      <4> QED BY <1>6, <1>8, <2>3, <4>1
    <3>3. /\ more \in Seq(Nat) /\ Len(more) = Least(limit, PayloadEnd(q))
          /\ \A i \in 1 .. Len(more) : more[i] = Payload[i]
          /\ (limit < PayloadEnd(k) \/ share < n) <=> limit < PayloadEnd(q)
      <4> HIDE DEF begin
      <4>1. /\ begin + Len(message.chunks[k + 1]) <= Len(input)
            /\ \A i \in 1 .. Len(message.chunks[k + 1]) :
                 Wire[begin + i] = message.chunks[k + 1][i]
        BY <1>5, <3>2 DEF n, chunk, q
      <4> QED BY <1>8, <3>1, <4>1, OutGrows DEF n, chunk, q
    <3> HIDE DEF more, behind, share
    <3> DEFINE t == d.truncated \/ share < n
    <3>4. t \in BOOLEAN /\ (t <=> limit < PayloadEnd(q)) BY <3>1, <3>3, Zenon
    <3> HIDE DEF t
    <3>5. next = [d EXCEPT !.pos = behind, !.out = more, !.truncated = t] BY DEF t
    <3> HIDE DEF next
    <3>6. next \in Decoders BY <1>8, <3>3, <3>4, <3>5 DEF Decoders
    <3>7. next.status = "loop" /\ next.pos = behind /\ next.out = more
      BY <3>5 DEF Decoders
    <3>8. next.truncated = t BY <3>5 DEF Decoders
    <3>9. HasDecoded(input, limit, next, q)
      BY <1>1, <1>5, <2>3, <3>3, <3>4, <3>7, <3>8 DEF HasDecoded
    <3> QED BY <2>1, <2>3, <3>6, <3>7, <3>9 DEF DecodeInv, q
  <2> QED BY <1>6, <1>8, <2>2, <2>3
<1> HIDE DEF begin, read
<1> QED BY <1>6, <1>8, <1>10, <1>11, <1>12

\* A turn behind the last chunk ends the loop, or fails because the message is cut or
\* its line is not text.
LEMMA TurnTakesLast ==
  ASSUME message \in Messages, NEW input, IsCut(input), NEW limit \in Nat, NEW n,
         NEW d \in Decoders, d.status = "loop",
         HasDecoded(input, limit, d, Len(message.chunks))
  PROVE  DecodeInv(input, limit, Turn(input, limit, d), n)
<1> DEFINE line == Line(0)
           at == WireEnd(Len(message.chunks))
<1>1. d.pos = at /\ d.pos <= Len(input) /\ input \in Seq(Nat) /\ Len(input) \in Nat
  BY DEF HasDecoded, IsCut
<1>2. IsLine(line, 0) /\ line \in Seq(Nat) /\ Len(line) \in Nat
  <2>1. 0 \in 0 .. 9 OBVIOUS
  <2> QED BY <2>1, LinesAreLines DEF IsLine
<1>3. /\ at \in Nat /\ Len(Wire) = at + Len(line) + Len(message.eol)
      /\ \A i \in 1 .. Len(line) : Wire[at + i] = line[i]
  BY WireEnds
<1>4. Len(message.eol) \in Nat \ {0}
  <2>1. Len(message.eol) \in {1, 2} BY MessageIs
  <2>2. \A x \in {1, 2} : x \in Nat \ {0} OBVIOUS
  <2> QED BY <2>1, <2>2, Zenon
<1> HIDE DEF line, at
<1>5. StandsAt(input, d.pos, line)
  <2>1. StandsAt(input, at, line) BY <1>2, <1>3, StandsInCut
  <2> QED BY <1>1, <2>1
<1>6. CASE d.pos + Len(line) > Len(input)
  <2>1. Turn(input, limit, d) = Fails(d)
    <3>1. 0 \in 0 .. 9 OBVIOUS
    <3> QED BY <1>1, <1>2, <1>5, <1>6, <3>1, TurnOnCutLine
  <2>2. Len(input) < Len(Wire)
    <3> DEFINE a == Len(line)
               b == Len(message.eol)
               c == Len(input)
    <3>1. /\ a \in Nat /\ b \in Nat \ {0} /\ c \in Nat /\ at \in Nat
          /\ Len(Wire) = at + a + b /\ d.pos = at
      BY <1>1, <1>2, <1>3, <1>4
    <3>2. at + a > c BY <1>1, <1>6
    <3> HIDE DEF a, b, c
    <3>3. c < at + a + b BY <3>1, <3>2
    <3> QED BY <3>1, <3>3 DEF c
  <2>3. Fails(d) \in Decoders /\ Fails(d).status = "failed" BY DEF Fails, Decoders
  <2> QED BY <2>1, <2>2, <2>3 DEF DecodeInv
<1> DEFINE read == SubSeq(input, d.pos + 1, d.pos + Len(line) - 1)
<1>8. CASE d.pos + Len(line) <= Len(input) /\ ~Utf8(read)
  <2>1. 0 \in 0 .. 9 /\ d.pos \in 0 .. Len(input) BY <1>1, <1>3
  <2>2. Turn(input, limit, d) = Fails(d)
    BY <1>1, <1>2, <1>5, <1>8, <2>1, TurnOnBadLine
  <2>3. read \in Seq(Nat) /\ Len(read) = Len(line) - 1 /\ \A i \in 1 .. Len(read) : read[i] = line[i]
    BY <1>1, <1>2, <1>5, <1>8, <2>1, LineInInput
  <2> HIDE DEF read
  <2>4. ~Utf8(message.extension) BY <1>8, <2>1, <2>3, LineIsText DEF line
  <2>5. Fails(d) \in Decoders /\ Fails(d).status = "failed" BY DEF Fails, Decoders
  <2> QED BY <2>2, <2>4, <2>5 DEF DecodeInv
<1>7. CASE d.pos + Len(line) <= Len(input) /\ Utf8(read)
  <2>1. Turn(input, limit, d) = Ends(d) BY <1>1, <1>2, <1>5, <1>7, TurnOnLast
  <2>2. /\ Ends(d) \in Decoders /\ Ends(d).status = "decoded"
        /\ Ends(d).pos = d.pos /\ Ends(d).out = d.out
    BY DEF Ends, Decoders
  <2>3. Ends(d).truncated = d.truncated BY DEF Ends, Decoders
  <2>4. HasDecoded(input, limit, Ends(d), Len(message.chunks))
    BY <2>2, <2>3 DEF HasDecoded
  <2> QED BY <2>1, <2>2, <2>4 DEF DecodeInv
<1> HIDE DEF read
<1> QED BY <1>1, <1>2, <1>3, <1>6, <1>7, <1>8

\* Every turn keeps what is known of the decoder.
LEMMA TurnKeeps ==
  ASSUME message \in Messages, NEW input, IsCut(input), NEW limit \in Nat,
         NEW n \in Nat, NEW d, DecodeInv(input, limit, d, n)
  PROVE  DecodeInv(input, limit, TurnUnlessEnded(input, limit, d), n + 1)
<1>1. d \in Decoders BY DEF DecodeInv
<1>2. CASE d.status # "loop"
  <2>1. TurnUnlessEnded(input, limit, d) = d BY <1>2 DEF TurnUnlessEnded
  <2> QED BY <1>2, <2>1 DEF DecodeInv
<1>3. CASE d.status = "loop"
  <2>1. TurnUnlessEnded(input, limit, d) = Turn(input, limit, d) BY <1>3 DEF TurnUnlessEnded
  <2>2. HasDecoded(input, limit, d, n) BY <1>3 DEF DecodeInv
  <2>3. Len(message.chunks) \in Nat BY MessageIs
  <2>4. CASE n = Len(message.chunks)
    <3>1. HasDecoded(input, limit, d, Len(message.chunks)) BY <2>2, <2>4
    <3> QED BY <1>1, <1>3, <2>1, <3>1, TurnTakesLast
  <2>5. CASE n # Len(message.chunks)
    <3>1. n \in 0 .. Len(message.chunks) - 1 BY <2>2, <2>3, <2>5 DEF HasDecoded
    <3> QED BY <1>1, <1>3, <2>1, <2>2, <3>1, TurnTakesChunk
  <2> QED BY <2>4, <2>5
<1> QED BY <1>2, <1>3

\* The decoder begins with no chunk.
LEMMA DecodeBegins ==
  ASSUME message \in Messages, NEW input, IsCut(input), NEW limit \in Nat
  PROVE  DecodeInv(input, limit, Begun, 0)
<1>1. Begun \in Decoders
  <2>1. <<>> \in Seq(Nat) OBVIOUS
  <2> QED BY <2>1 DEF Begun, Decoders
<1>2. Begun.status = "loop" /\ Begun.pos = 0 /\ Begun.out = <<>> BY DEF Begun
<1>3. Begun.truncated = FALSE BY DEF Begun
<1>4. WireEnd(0) = 0 /\ PayloadEnd(0) = 0 /\ 0 \in 0 .. Len(message.chunks)
  <2>1. /\ message.chunks \in Seq(Seq(Nat)) /\ Parts \in Seq(Seq(Nat))
        /\ Len(message.chunks) \in Nat
    BY MessageIs
  <2>2. Joins(Parts)[0] = <<>> /\ Joins(message.chunks)[0] = <<>> BY <2>1, JoinsSteps
  <2> QED BY <2>1, <2>2 DEF WireEnd, PayloadEnd
<1>5. Len(input) \in Nat BY DEF IsCut
<1>6. Least(limit, 0) = 0 /\ ~(limit < 0) BY DEF Least
<1>7. Len(Begun.out) = 0 BY <1>2
<1>8. HasDecoded(input, limit, Begun, 0)
  BY <1>2, <1>3, <1>4, <1>5, <1>6, <1>7 DEF HasDecoded
<1> QED BY <1>1, <1>2, <1>8 DEF DecodeInv

\* The turns are what their recursive definition says, when they stay in a set.
LEMMA TurnsSteps ==
  ASSUME NEW input \in Seq(Nat), NEW limit \in Nat, NEW V, Begun \in V,
         \A d \in V : TurnUnlessEnded(input, limit, d) \in V
  PROVE  /\ Turns(input, limit)[0] = Begun
         /\ \A n \in 1 .. Len(input) + 1 :
              Turns(input, limit)[n] = TurnUnlessEnded(input, limit, Turns(input, limit)[n - 1])
<1> DEFINE last == Len(input) + 1
           step == [i \in Nat |-> [d \in V |-> TurnUnlessEnded(input, limit, d)]]
<1>1. last \in Nat OBVIOUS
<1>2. step \in [Nat -> [V -> V]] OBVIOUS
<1>3. \A i \in Nat, d \in V : step[i][d] = TurnUnlessEnded(input, limit, d) OBVIOUS
<1> HIDE DEF step, last
<1>4. PICK f \in [0 .. last -> V] :
        f[0] = Begun /\ \A i \in 1 .. last : f[i] = step[i][f[i - 1]]
  <2>1. \E f : Follows(f, V, Begun, step, last) BY <1>1, <1>2, StepsDefine
  <2> QED BY <2>1 DEF Follows
<1>5. ASSUME NEW i \in 1 .. last PROVE f[i] = TurnUnlessEnded(input, limit, f[i - 1])
  <2>1. i - 1 \in 0 .. last /\ i \in Nat BY <1>1
  <2>2. f[i - 1] \in V BY <1>4, <2>1
  <2> QED BY <1>3, <1>4, <2>1, <2>2
<1>6. f = [n \in 0 .. last |->
             IF n = 0 THEN Begun ELSE TurnUnlessEnded(input, limit, f[n - 1])]
  <2>1. ASSUME NEW n \in 0 .. last
        PROVE  f[n] = IF n = 0 THEN Begun ELSE TurnUnlessEnded(input, limit, f[n - 1])
    <3>1. n = 0 \/ n \in 1 .. last BY <1>1
    <3> QED BY <1>4, <1>5, <3>1
  <2> QED BY <2>1
<1>7. Turns(input, limit) =
        [n \in 0 .. last |->
           IF n = 0 THEN Begun ELSE TurnUnlessEnded(input, limit, Turns(input, limit)[n - 1])]
  BY <1>6 DEF Turns, last
<1>8. ASSUME NEW n \in 0 .. last
      PROVE  Turns(input, limit)[n] =
               IF n = 0 THEN Begun ELSE TurnUnlessEnded(input, limit, Turns(input, limit)[n - 1])
  <2> DEFINE t == Turns(input, limit)
             u == [m \in 0 .. last |->
                     IF m = 0 THEN Begun ELSE TurnUnlessEnded(input, limit, t[m - 1])]
  <2>1. t = u BY <1>7
  <2>2. u[n] = IF n = 0 THEN Begun ELSE TurnUnlessEnded(input, limit, t[n - 1])
    <3> HIDE DEF t
    <3> QED OBVIOUS
  <2> HIDE DEF t, u
  <2>3. t[n] = IF n = 0 THEN Begun ELSE TurnUnlessEnded(input, limit, t[n - 1]) BY <2>1, <2>2
  <2> QED BY <2>3 DEF t
<1>9. 0 \in 0 .. last BY <1>1
<1>10. \A n \in 1 .. last : n \in 0 .. last /\ n # 0 BY <1>1
<1> QED BY <1>8, <1>9, <1>10 DEF last

\* Every chunk takes room on the wire.
LEMMA WireGrows ==
  ASSUME message \in Messages, NEW k \in 0 .. Len(message.chunks)
  PROVE  WireEnd(k) \in Nat /\ k <= WireEnd(k)
<1> DEFINE last == Len(message.chunks)
           S == {m \in 0 .. last : WireEnd(m) \in Nat /\ m <= WireEnd(m)}
<1>1. last \in Nat BY MessageIs
<1>2. 0 \in S
  <2>1. Parts \in Seq(Seq(Nat)) BY MessageIs
  <2>2. Joins(Parts)[0] = <<>> BY <2>1, JoinsSteps
  <2>3. WireEnd(0) = 0 BY <2>2 DEF WireEnd
  <2> QED BY <1>1, <2>3
<1>3. ASSUME NEW m \in 0 .. last - 1, m \in S PROVE m + 1 \in S
  <2> DEFINE q == m + 1
             n == Len(message.chunks[q])
             a == Len(Line(n))
             b == Len(message.eol)
  <2>1. q \in 1 .. last /\ q - 1 = m /\ q \in 0 .. last BY <1>1
  <2> HIDE DEF q
  <2>2. WireEnd(m) \in Nat /\ m <= WireEnd(m) BY <1>3
  <2>3. n \in 1 .. 9 /\ b \in {1, 2} BY <2>1, MessageIs
  <2>4. WireEnd(q) = WireEnd(q - 1) + a + n + b BY <2>1, WireHolds
  <2>5. a \in Nat
    <3>1. n \in 0 .. 9 BY <2>3
    <3> HIDE DEF n
    <3> QED BY <3>1, LinesAreLines DEF IsLine
  <2>6. WireEnd(q) = WireEnd(m) + a + n + b BY <2>1, <2>4
  <2> HIDE DEF n, a, b, last
  <2>7. n \in Nat \ {0} /\ b \in Nat /\ m \in Nat BY <2>3
  <2>8. q = m + 1 BY DEF q
  <2>9. WireEnd(q) \in Nat /\ q <= WireEnd(q) BY <2>2, <2>5, <2>6, <2>7, <2>8
  <2> SUFFICES q \in S BY <2>8
  <2> QED BY <2>1, <2>9
<1>4. \A m \in 0 .. last : m \in S
  <2> HIDE DEF S, last
  <2> QED BY <1>1, <1>2, <1>3, UpTo
<1> QED BY <1>4

\* What the decoder makes of a message that may be cut: all chunks, as much of them
\* as the limit allows, or an error because it is cut or its lines are not text.
LEMMA DecodeIs ==
  ASSUME message \in Messages, NEW input, IsCut(input), NEW limit \in Nat
  PROVE  LET d == decode_chunked(input, limit)
         IN  \/ /\ d \in Decoders /\ d.status = "decoded"
                /\ HasDecoded(input, limit, d, Len(message.chunks))
             \/ /\ d \in Decoders /\ d.status = "failed"
                /\ Len(input) < Len(Wire) \/ ~Utf8(message.extension)
<1> DEFINE last == Len(input) + 1
           t == Turns(input, limit)
           V == {d \in Decoders : \E n \in Nat : DecodeInv(input, limit, d, n)}
           S == {n \in 0 .. last : DecodeInv(input, limit, t[n], n)}
<1>1. input \in Seq(Nat) /\ Len(input) \in Nat /\ last \in Nat BY DEF IsCut
<1>2. Begun \in V
  <2>1. DecodeInv(input, limit, Begun, 0) BY DecodeBegins
  <2> QED BY <2>1 DEF DecodeInv
<1>3. ASSUME NEW d \in V PROVE TurnUnlessEnded(input, limit, d) \in V
  <2>1. PICK n \in Nat : DecodeInv(input, limit, d, n) OBVIOUS
  <2>2. DecodeInv(input, limit, TurnUnlessEnded(input, limit, d), n + 1) BY <2>1, TurnKeeps
  <2>3. TurnUnlessEnded(input, limit, d) \in Decoders BY <2>2 DEF DecodeInv
  <2>4. n + 1 \in Nat BY <2>1
  <2> QED BY <2>2, <2>3, <2>4
<1> HIDE DEF V
<1>4. /\ t[0] = Begun
      /\ \A n \in 1 .. last : t[n] = TurnUnlessEnded(input, limit, t[n - 1])
  BY <1>1, <1>2, <1>3, TurnsSteps
<1> HIDE DEF t, last
<1>5. 0 \in S
  <2>1. DecodeInv(input, limit, t[0], 0) BY <1>4, DecodeBegins
  <2> QED BY <1>1, <2>1
<1>6. ASSUME NEW n \in 0 .. last - 1, n \in S PROVE n + 1 \in S
  <2> DEFINE q == n + 1
  <2>1. q \in 1 .. last /\ q - 1 = n /\ n \in Nat /\ q \in 0 .. last /\ q = n + 1 BY <1>1
  <2>2. DecodeInv(input, limit, t[n], n) BY <1>6
  <2>3. DecodeInv(input, limit, TurnUnlessEnded(input, limit, t[n]), n + 1)
    BY <2>1, <2>2, TurnKeeps
  <2> HIDE DEF q
  <2>4. t[q] = TurnUnlessEnded(input, limit, t[n]) BY <1>4, <2>1
  <2>5. DecodeInv(input, limit, t[q], q) BY <2>1, <2>3, <2>4
  <2>6. q \in S BY <2>1, <2>5
  <2> QED BY <2>1, <2>6
<1>7. DecodeInv(input, limit, t[last], last)
  <2>1. last \in S
    <3>1. last \in 0 .. last BY <1>1
    <3> HIDE DEF S
    <3> QED BY <1>1, <1>5, <1>6, <3>1, UpTo
  <2> QED BY <2>1
<1>8. t[last].status # "loop"
  <2> SUFFICES ASSUME HasDecoded(input, limit, t[last], last) PROVE FALSE
    BY <1>7 DEF DecodeInv
  <2>1. last \in 0 .. Len(message.chunks) /\ WireEnd(last) <= Len(input) BY DEF HasDecoded
  <2>2. WireEnd(last) \in Nat /\ last <= WireEnd(last) BY <2>1, WireGrows
  <2>3. last = Len(input) + 1 BY DEF last
  <2> QED BY <1>1, <2>1, <2>2, <2>3
<1>9. decode_chunked(input, limit) = t[last] BY DEF decode_chunked, t, last
<1>10. \/ t[last] \in Decoders /\ t[last].status = "decoded"
          /\ HasDecoded(input, limit, t[last], Len(message.chunks))
       \/ /\ t[last] \in Decoders /\ t[last].status = "failed"
          /\ Len(input) < Len(Wire) \/ ~Utf8(message.extension)
  BY <1>7, <1>8 DEF DecodeInv
<1> QED BY <1>9, <1>10

-----------------------------------------------------------------------------
(* The preview.                                                            *)

\* A message on the wire is a sequence of bytes.
LEMMA WireType == message \in Messages => Wire \in Seq(Nat) /\ Payload \in Seq(Nat)
                                          /\ PayloadEnd(Len(message.chunks)) = Len(Payload)
<1> SUFFICES ASSUME message \in Messages
             PROVE  Wire \in Seq(Nat) /\ Payload \in Seq(Nat)
                    /\ PayloadEnd(Len(message.chunks)) = Len(Payload)
  OBVIOUS
<1> DEFINE s == Line(0)
           u == message.eol
           last == s \o u
           all == Joined(Parts)
           c == message.chunks
<1>1. u \in Seq(Nat) /\ Parts \in Seq(Seq(Nat)) /\ c \in Seq(Seq(Nat)) BY MessageIs
<1>2. s \in Seq(Nat)
  <2>1. 0 \in 0 .. 9 OBVIOUS
  <2> QED BY <2>1, LinesAreLines DEF IsLine
<1>3. Len(Parts) \in 0 .. Len(Parts) /\ Len(c) \in 0 .. Len(c)
  <2>1. Len(Parts) \in Nat /\ Len(c) \in Nat BY <1>1
  <2> HIDE DEF c
  <2> QED BY <2>1
<1>4. all \in Seq(Nat) BY <1>1, <1>3, JoinsBegin
<1>5. Payload \in Seq(Nat) BY <1>1, <1>3, JoinsBegin DEF Payload
<1>6. PayloadEnd(Len(c)) = Len(Payload) BY DEF PayloadEnd, Payload, Joined
<1>7. Wire = all \o last BY DEF Wire
<1> HIDE DEF all, s, u
<1>8. last \in Seq(Nat) BY <1>1, <1>2, TwoParts
<1> HIDE DEF last
<1>9. all \o last \in Seq(Nat) BY <1>4, <1>8, TwoParts
<1> QED BY <1>5, <1>6, <1>7, <1>9

\* What is captured is never more than was sent of the message.
PreviewInv == RelayInv /\ message \in Messages /\ sent <= Len(Wire)

\* What is captured is the beginning of the message on the wire.
LEMMA CapturedIsCut == PreviewInv => IsCut(Captured)
<1> SUFFICES ASSUME PreviewInv PROVE IsCut(Captured) OBVIOUS
<1> DEFINE m == Least(max, size)
<1>1. /\ body.bytes = Chunk(0, m) /\ size \in Nat /\ max \in Nat /\ sent \in Nat
      /\ Len(sink) \in size .. sent
  BY RelayAssumption
  DEF PreviewInv, RelayInv, RelayTypeOK, CaptureIs, SinkIsPrefix, size
<1>2. Wire \in Seq(Nat) /\ sent <= Len(Wire) /\ Len(Wire) \in Nat
  <2>1. Wire \in Seq(Nat) BY WireType DEF PreviewInv
  <2> HIDE DEF m
  <2> QED BY <2>1 DEF PreviewInv
<1>3. m \in Nat /\ m <= Len(Wire) BY <1>1, <1>2 DEF Least
<1> HIDE DEF m
<1>4. DOMAIN body.bytes = 1 .. m /\ \A i \in 1 .. m : body.bytes[i] = i
  <2>1. body.bytes = [i \in 1 .. m |-> 0 + i] BY <1>1 DEF Chunk
  <2> QED BY <1>3, <2>1
<1>5. Captured = [i \in 1 .. m |-> Wire[i]]
  <2>1. \A i \in 1 .. m : Wire[body.bytes[i]] = Wire[i] BY <1>4
  <2> QED BY <1>4, <2>1 DEF Captured
<1>6. \A i \in 1 .. m : Wire[i] \in Nat
  <2>1. \A i \in 1 .. m : i \in 1 .. Len(Wire) BY <1>2, <1>3
  <2> QED BY <1>2, <2>1
<1> DEFINE w == Wire
           cut == Captured
<1>7. cut = [i \in 1 .. m |-> w[i]] /\ \A i \in 1 .. m : w[i] \in Nat BY <1>5, <1>6
<1> HIDE DEF cut, w
<1>8. cut \in Seq(Nat) /\ Len(cut) = m /\ \A i \in 1 .. m : cut[i] = w[i] BY <1>3, <1>7
<1>9. Len(cut) <= Len(Wire) /\ \A i \in 1 .. Len(cut) : cut[i] = w[i] BY <1>3, <1>8
<1> QED BY <1>8, <1>9 DEF IsCut, w, cut

\* Before the relay starts, what is sent is of the message.
LEMMA PreviewInvInit == PreviewInit => PreviewInv
BY RelayInvInit DEF PreviewInit, PreviewInv

\* No step of the relay changes the message, or sends more than it.
LEMMA PreviewInvStep == PreviewInv /\ [PreviewNext]_previewVars => PreviewInv'
<1> SUFFICES ASSUME PreviewInv, [PreviewNext]_previewVars PROVE PreviewInv' OBVIOUS
<1>1. [RelayNext]_relayVars /\ message' = message BY DEF PreviewNext, previewVars
<1>2. RelayInv' BY <1>1, RelayInvStep DEF PreviewInv
<1>3. Wire' = Wire BY <1>1 DEF Wire, Parts, Part, Line
<1>4. sent' <= Len(Wire)
  <2>1. CASE PreviewNext BY <2>1, <1>3 DEF PreviewNext
  <2>2. CASE UNCHANGED previewVars BY <2>2 DEF previewVars, relayVars, PreviewInv
  <2> QED BY <2>1, <2>2
<1> QED BY <1>1, <1>2, <1>3, <1>4 DEF PreviewInv

\* What is decoded is shown honestly wherever the relay stands.
LEMMA PreviewOfCut ==
  ASSUME PreviewInv, NEW limit \in 0 .. Len(Payload)
  PROVE  LET shown == decode_body_for_preview_with_limit(limit)
         IN /\ shown.warnings = {} => shown.bytes = Payload
            /\ shown.warnings = {"truncated"} =>
                 limit < Len(Payload) /\ shown.bytes = SubSeq(Payload, 1, limit)
            /\ Len(Captured) = Len(Wire) /\ Utf8(message.extension) => shown.transfer_decoded
            /\ "N/A" \notin shown.warnings
<1> DEFINE shown == decode_body_for_preview_with_limit(limit)
           d == decode_chunked(Captured, limit)
           all == Payload
<1>1. message \in Messages /\ IsCut(Captured) BY CapturedIsCut DEF PreviewInv
<1>2. /\ all \in Seq(Nat) /\ PayloadEnd(Len(message.chunks)) = Len(all)
      /\ Len(all) \in Nat /\ limit \in Nat /\ limit <= Len(all)
  <2>1. all \in Seq(Nat) /\ PayloadEnd(Len(message.chunks)) = Len(all) BY <1>1, WireType
  <2>2. limit \in 0 .. Len(all) OBVIOUS
  <2> HIDE DEF all
  <2> QED BY <2>1, <2>2
<1>3. \/ d \in Decoders /\ d.status = "decoded"
         /\ HasDecoded(Captured, limit, d, Len(message.chunks))
      \/ /\ d \in Decoders /\ d.status = "failed"
         /\ Len(Captured) < Len(Wire) \/ ~Utf8(message.extension)
  BY <1>1, <1>2, DecodeIs
<1>4. shown = IF d.status = "decoded"
              THEN [bytes |-> d.out, transfer_decoded |-> TRUE,
                    warnings |-> IF d.truncated THEN {"truncated"} ELSE {}]
              ELSE [bytes |-> Captured, transfer_decoded |-> FALSE, warnings |-> {"invalid"}]
  BY DEF decode_body_for_preview_with_limit
<1> HIDE DEF shown, d, all
<1>5. CASE d.status = "decoded"
  <2>1. /\ d.out \in Seq(Nat) /\ Len(d.out) = Least(limit, Len(all))
        /\ \A i \in 1 .. Len(d.out) : d.out[i] = all[i]
        /\ d.truncated <=> limit < Len(all)
    BY <1>2, <1>3, <1>5 DEF HasDecoded, Decoders, all
  <2>2. Len(d.out) = limit BY <1>2, <2>1 DEF Least
  <2> DEFINE out == d.out
  <2>3. out \in Seq(Nat) /\ Len(out) = limit /\ \A i \in 1 .. limit : out[i] = all[i]
    BY <2>1, <2>2
  <2> HIDE DEF out
  <2>4. out = SubSeq(all, 1, limit)
    <3>1. 0 \in 0 .. Len(all) /\ limit \in 0 .. Len(all) /\ limit - 0 = limit /\ 0 + 1 = 1
      BY <1>2
    <3>2. /\ SubSeq(all, 0 + 1, limit) \in Seq(Nat)
          /\ Len(SubSeq(all, 0 + 1, limit)) = limit - 0
          /\ \A k \in 1 .. limit - 0 : SubSeq(all, 0 + 1, limit)[k] = all[0 + k]
      BY <1>2, <3>1, Piece
    <3> DEFINE t == SubSeq(all, 1, limit)
    <3>3. t \in Seq(Nat) /\ Len(t) = limit /\ \A k \in 1 .. limit : t[k] = all[k]
      BY <3>1, <3>2
    <3> HIDE DEF t
    <3>4. out = t BY <2>3, <3>3
    <3> QED BY <3>4 DEF t
  <2>5. limit = Len(all) => out = all BY <1>2, <2>3, SMTT(30)
  <2>6. shown.bytes = out /\ shown.transfer_decoded = TRUE
        /\ shown.warnings = IF d.truncated THEN {"truncated"} ELSE {}
    BY <1>4, <1>5 DEF out
  <2>7. CASE d.truncated
    <3>1. shown.warnings = {"truncated"} /\ limit < Len(all) BY <2>1, <2>6, <2>7
    <3> QED BY <2>4, <2>6, <3>1 DEF shown, all
  <2>8. CASE ~d.truncated
    <3>1. shown.warnings = {} /\ limit = Len(all) BY <1>2, <2>1, <2>6, <2>8
    <3> QED BY <2>5, <2>6, <3>1 DEF shown, all
  <2> QED BY <2>7, <2>8
<1>6. CASE d.status # "decoded"
  <2>1. shown.warnings = {"invalid"} BY <1>4, <1>6
  <2>2. ~(Len(Captured) = Len(Wire) /\ Utf8(message.extension))
    <3>1. Len(Captured) \in Nat BY <1>1 DEF IsCut
    <3>2. Len(Wire) \in Nat
      <4>1. Wire \in Seq(Nat) BY <1>1, WireType
      <4> QED BY <4>1
    <3>3. Len(Captured) < Len(Wire) \/ ~Utf8(message.extension) BY <1>3, <1>6
    <3>4. Len(Captured) < Len(Wire) => Len(Captured) # Len(Wire) BY <3>1, <3>2
    <3> QED BY <3>3, <3>4
  <2>3. "invalid" # "truncated" /\ "invalid" # "N/A" OBVIOUS
  <2> QED BY <2>1, <2>2, <2>3 DEF shown
<1> QED BY <1>5, <1>6

\* Nothing is captured of a body of which nothing was forwarded, and nothing is not a
\* message.
LEMMA NothingIsNoMessage ==
  ASSUME PreviewInv, size = 0
  PROVE  Len(Captured) # Len(Wire)
<1>1. message \in Messages BY DEF PreviewInv
<1>2. Len(Captured) = 0
  <2>1. max \in Nat /\ body.bytes = Chunk(0, Least(max, 0))
    BY RelayAssumption DEF PreviewInv, RelayInv, RelayTypeOK, CaptureIs
  <2>2. Least(max, 0) = 0 BY <2>1 DEF Least
  <2>3. DOMAIN body.bytes = 1 .. 0 BY <2>1, <2>2 DEF Chunk
  <2>4. Captured = [i \in 1 .. 0 |-> Wire[body.bytes[i]]] BY <2>3 DEF Captured
  <2> DEFINE c == Captured
  <2>5. c \in Seq(Nat) BY <1>1, CapturedIsCut DEF IsCut
  <2>6. DOMAIN c = {} BY <2>4
  <2> HIDE DEF c
  <2>7. Len(c) = 0 BY <2>5, <2>6
  <2> QED BY <2>7 DEF c
<1>3. Len(Wire) # 0
  <2> DEFINE a == WireEnd(Len(message.chunks))
             b == Len(Line(0))
             c == Len(message.eol)
  <2>1. a \in Nat /\ Len(Wire) = a + b + c BY <1>1, WireEnds
  <2>2. b \in Nat \ {0, 1}
    <3>1. 0 \in 0 .. 9 OBVIOUS
    <3> QED BY <1>1, <3>1, LinesAreLines DEF IsLine
  <2>3. c \in {1, 2} BY <1>1, MessageIs
  <2> HIDE DEF a, b, c
  <2> QED BY <2>1, <2>2, <2>3
<1> QED BY <1>2, <1>3

\* The preview never claims more than it shows: "N/A" means that nothing was forwarded,
\* without a warning it is the whole payload, one that is cut is its beginning and says
\* so, and decoding fails only when the message is not whole or its size lines are not
\* text, for every list of chunks, extension, limit and max_body_size
\* (details.rs 127-166, decode.rs 19-68 and 119-120, http.rs 247-272).
THEOREM PreviewHonest == PreviewSpec => []PreviewIsHonest
<1>1. PreviewInv => PreviewIsHonest
  <2> SUFFICES ASSUME PreviewInv, pc = "done", NEW limit \in 0 .. Len(Payload)
               PROVE  LET shown == body_preview(limit)
                      IN /\ shown = NotAvailable <=> sink = <<>>
                         /\ shown.warnings = {} => shown.bytes = Payload
                         /\ shown.warnings = {"truncated"} =>
                              limit < Len(Payload) /\ shown.bytes = SubSeq(Payload, 1, limit)
                         /\ Len(Captured) = Len(Wire) /\ Utf8(message.extension) =>
                              shown.transfer_decoded
    BY DEF PreviewIsHonest
  <2>1. size = 0 <=> sink = <<>>
    <3>1. sink \in Seq(Nat) /\ Len(sink) = size
      BY DEF PreviewInv, RelayInv, RelayTypeOK, SinkIsPrefix
    <3> HIDE DEF size
    <3> QED BY <3>1
  <2>2. CASE size = 0
    <3>1. body_preview(limit) = NotAvailable BY <2>2 DEF body_preview, size
    <3>2. NotAvailable.warnings = {"N/A"} /\ "N/A" # "truncated" BY DEF NotAvailable
    <3>3. Len(Captured) # Len(Wire) BY <2>2, NothingIsNoMessage
    <3> QED BY <2>1, <2>2, <3>1, <3>2, <3>3
  <2>3. CASE size # 0
    <3> DEFINE shown == decode_body_for_preview_with_limit(limit)
    <3>1. body_preview(limit) = shown BY <2>3 DEF body_preview, size
    <3>2. /\ shown.warnings = {} => shown.bytes = Payload
          /\ shown.warnings = {"truncated"} =>
               limit < Len(Payload) /\ shown.bytes = SubSeq(Payload, 1, limit)
          /\ Len(Captured) = Len(Wire) /\ Utf8(message.extension) => shown.transfer_decoded
          /\ "N/A" \notin shown.warnings
      BY PreviewOfCut
    <3>3. NotAvailable.warnings = {"N/A"} BY DEF NotAvailable
    <3> HIDE DEF shown
    <3>4. shown # NotAvailable BY <3>2, <3>3
    <3> QED BY <2>1, <2>3, <3>1, <3>2, <3>4
  <2> QED BY <2>2, <2>3
<1> QED BY <1>1, PreviewInvInit, PreviewInvStep, PTL DEF PreviewSpec

\* A relay whose message is shown is a relay: what is proved of RelaySpec holds of it.
THEOREM PreviewRelays == PreviewSpec => RelaySpec
<1>1. PreviewInit => RelayInit BY DEF PreviewInit
<1>2. [PreviewNext]_previewVars => [RelayNext]_relayVars BY DEF PreviewNext, previewVars
<1> QED BY <1>1, <1>2, PTL DEF PreviewSpec, RelaySpec
=============================================================================
