---------------------------- MODULE H2Stream_proofs ----------------------------
(* The safety properties of H2Stream, for bodies of any number of pieces.      *)
EXTENDS H2Stream, TLAPS

\* What each step of try_h2_stream can rely on: what has been passed, and that
\* the client's half is open as long as the task goes on.
Progress ==
  /\ pc = "connect" => passed = Idle
  /\ pc \in {"connect", "request", "await"} => head = None /\ given = Idle
  /\ pc \in {"await", "response"} => passed.ended
  /\ pc = "response" => head = "upstream" /\ ~given.ended
  /\ pc # "ended" => entry = None

H2Inv == H2TypeOK /\ CutIsNotTheEnd /\ H2EntryTellsWire /\ Progress

-----------------------------------------------------------------------------
\* One more piece, and the end, of a half of a stream.
LEMMA HalfSteps ==
  ASSUME NEW half \in Halves
  PROVE  /\ half.sent < MaxPieces => More(half) \in Halves
         /\ More(half).sent = half.sent + 1 /\ More(half).ended = half.ended
         /\ Ended(half) \in Halves
         /\ Ended(half).sent = half.sent /\ Ended(half).ended
<1>1. half.sent \in 0 .. MaxPieces /\ half.ended \in BOOLEAN
      /\ DOMAIN half = {"sent", "ended"}
  BY DEF Halves
<1>2. More(half) = [sent |-> half.sent + 1, ended |-> half.ended]
  BY <1>1 DEF More, Halves
<1>3. Ended(half) \in Halves /\ Ended(half).ended
  BY DEF Ended, Halves
<1>4. half.sent < MaxPieces => half.sent + 1 \in 0 .. MaxPieces
  BY <1>1, H2Assumption
<1>5. half.sent < MaxPieces => More(half) \in Halves
  BY <1>1, <1>2, <1>4 DEF Halves
<1>6. Ended(half).sent = half.sent
  BY <1>1 DEF Ended
<1>7. More(half).sent = half.sent + 1 /\ More(half).ended = half.ended
  BY <1>2
<1> QED BY <1>3, <1>5, <1>6, <1>7

LEMMA IdleHalf == Idle \in Halves /\ Idle.sent = 0 /\ ~Idle.ended
BY H2Assumption DEF Halves, Idle

\* Nothing is passed, sent or recorded when a stream begins (h2.rs 43-53).
LEMMA InitInv == H2Init => H2Inv
BY IdleHalf, H2Assumption
DEF H2Init, H2Inv, H2TypeOK, CutIsNotTheEnd, H2EntryTellsWire, Progress

-----------------------------------------------------------------------------
\* What a peer does leaves the proxy's state alone, and a half that has ended
\* does not change any more.
LEMMA PeersInv == H2Inv /\ Peers => H2Inv'
<1> SUFFICES ASSUME H2Inv, Peers PROVE H2Inv'
  OBVIOUS
<1> USE DEF H2Inv, H2TypeOK, CutIsNotTheEnd, H2EntryTellsWire, Progress
<1>1. CASE ClientSends
  <2>1. PICK half \in {More(asked), Ended(asked)} :
          asked' = half /\ half \in Halves
    BY <1>1, HalfSteps DEF ClientSends
  <2> QED BY <1>1, <2>1 DEF ClientSends, proxyVars
<1>2. CASE ClientResets
  BY <1>2 DEF ClientResets, proxyVars
<1>3. CASE UpstreamAnswers
  BY <1>3 DEF UpstreamAnswers, proxyVars
<1>4. CASE UpstreamSends
  <2>1. PICK half \in {More(answer), Ended(answer)} :
          answer' = half /\ half \in Halves
    BY <1>4, HalfSteps DEF UpstreamSends
  <2> QED BY <1>4, <2>1 DEF UpstreamSends, proxyVars
<1>5. CASE UpstreamResets
  BY <1>5 DEF UpstreamResets, proxyVars
<1> QED BY <1>1, <1>2, <1>3, <1>4, <1>5 DEF Peers

\* A failure before the header is told by the proxy's own response; after it the
\* client's half stays open, and is reset with the stream.
LEMMA FailInv == H2Inv /\ pc # "ended" /\ Fail => H2Inv'
<1> SUFFICES ASSUME H2Inv, pc # "ended", Fail PROVE H2Inv'
  OBVIOUS
<1> USE DEF H2Inv, H2TypeOK, CutIsNotTheEnd, H2EntryTellsWire, Progress
<1>1. /\ entry' \in Entries /\ entry'.error /\ entry' # None
  <2>1. entry' = [status |-> "502", error |-> TRUE, request |-> 0, response |-> 0]
    BY DEF Fail
  <2>2. entry' \in Entries
    BY <2>1, H2Assumption DEF Entries
  <2>3. entry'.error
    BY <2>1
  <2> QED BY <2>2, <2>3, H2Assumption
<1>2. given' \in Halves
  BY HalfSteps DEF Fail
<1>3. head' \in {None, "502"} \/ (head' = "upstream" /\ given' = given /\ ~given.ended)
  BY DEF Fail
<1> QED BY <1>1, <1>2, <1>3, H2Assumption DEF Fail, peerVars

\* The task's steps that are neither a failure nor the end of the stream.
LEMMA PassInv ==
  H2Inv /\ (Connect \/ PassRequest \/ FinishRequest \/ PassResponse) => H2Inv'
<1> SUFFICES ASSUME H2Inv,
                    Connect \/ PassRequest \/ FinishRequest \/ PassResponse
             PROVE  H2Inv'
  OBVIOUS
<1> USE DEF H2Inv, H2TypeOK, CutIsNotTheEnd, H2EntryTellsWire, Progress
<1>1. CASE Connect
  BY <1>1, HalfSteps, IdleHalf DEF Connect, peerVars
<1>2. CASE PassRequest
  BY <1>2, HalfSteps, H2Assumption DEF PassRequest, peerVars, Halves
<1>3. CASE FinishRequest
  BY <1>3, HalfSteps DEF FinishRequest, peerVars
<1>4. CASE PassResponse
  BY <1>4, HalfSteps, H2Assumption DEF PassResponse, peerVars, Halves
<1> QED BY <1>1, <1>2, <1>3, <1>4

\* A stream that ends well ends with both bodies passed on whole.
LEMMA EndInv == H2Inv /\ (ForwardHead \/ FinishResponse) => H2Inv'
<1> SUFFICES ASSUME H2Inv, ForwardHead \/ FinishResponse PROVE H2Inv'
  OBVIOUS
<1> USE DEF H2Inv, H2TypeOK, CutIsNotTheEnd, H2EntryTellsWire, Progress
<1>1. ASSUME Succeed, given' \in Halves
      PROVE  /\ entry' \in Entries /\ entry' # None /\ ~entry'.error
             /\ entry'.request = passed.sent /\ entry'.response = given'.sent
  <2>1. passed.sent \in 0 .. MaxPieces /\ given'.sent \in 0 .. MaxPieces
    BY <1>1 DEF Halves
  <2>2. entry' = [status |-> "upstream", error |-> FALSE,
                  request |-> passed.sent, response |-> given'.sent]
    BY <1>1 DEF Succeed
  <2>3. entry' \in Entries
    BY <2>1, <2>2 DEF Entries
  <2>4. ~entry'.error
    BY <2>2
  <2>5. entry'.request = passed.sent /\ entry'.response = given'.sent
    BY <2>2
  <2> QED BY <2>3, <2>4, <2>5, H2Assumption
<1>2. CASE ForwardHead
  <2>1. CASE answer = Ended(Idle) /\ ~upstreamGone
    <3>1. given' = Ended(given) /\ given' = answer /\ given' \in Halves
      BY <1>2, <2>1 DEF ForwardHead
    <3> QED BY <1>1, <1>2, <2>1, <3>1, HalfSteps, IdleHalf
            DEF ForwardHead, Succeed, peerVars
  <2>2. CASE ~(answer = Ended(Idle) /\ ~upstreamGone)
    BY <1>2, <2>2, IdleHalf DEF ForwardHead, peerVars
  <2> QED BY <2>1, <2>2
<1>3. CASE FinishResponse
  <2>1. /\ given' \in Halves /\ given'.sent = given.sent /\ given'.ended
        /\ Succeed
    BY <1>3, HalfSteps DEF FinishResponse
  <2> QED BY <1>1, <1>3, <2>1 DEF FinishResponse, Succeed, peerVars
<1> QED BY <1>2, <1>3

-----------------------------------------------------------------------------
\* Every step of the stream and its peers keeps the invariant.
LEMMA StepInv == H2Inv /\ [H2Next]_h2Vars => H2Inv'
<1> SUFFICES ASSUME H2Inv, [H2Next]_h2Vars PROVE H2Inv'
  OBVIOUS
<1>1. CASE Peers
  BY <1>1, PeersInv
<1>2. CASE ConnectFails \/ RequestFails \/ AwaitFails \/ ResponseFails
  BY <1>2, FailInv DEF ConnectFails, RequestFails, AwaitFails, ResponseFails
<1>3. CASE Connect \/ PassRequest \/ FinishRequest \/ PassResponse
  BY <1>3, PassInv
<1>4. CASE ForwardHead \/ FinishResponse
  BY <1>4, EndInv
<1>5. CASE UNCHANGED h2Vars
  BY <1>5 DEF h2Vars, peerVars, proxyVars, H2Inv, H2TypeOK, CutIsNotTheEnd,
              H2EntryTellsWire, Progress
<1> QED BY <1>1, <1>2, <1>3, <1>4, <1>5 DEF H2Next, Task

LEMMA H2Invariance == H2Spec => []H2Inv
BY InitInv, StepInv, PTL DEF H2Spec

\* A peer never takes a body that was cut for a whole one (h2.rs 105-137,
\* 143-175), however long the bodies and whenever either peer resets.
THEOREM H2CutIsNotTheEnd == H2Spec => []CutIsNotTheEnd
<1>1. H2Inv => CutIsNotTheEnd
  BY DEF H2Inv
<1> QED BY <1>1, H2Invariance, PTL

\* The recorded entry says what went over the wire: an error unless both bodies
\* were passed on whole (h2.rs 55-72, 178-200).
THEOREM H2EntryIsTrue == H2Spec => []H2EntryTellsWire
<1>1. H2Inv => H2EntryTellsWire
  BY DEF H2Inv
<1> QED BY <1>1, H2Invariance, PTL
=============================================================================
