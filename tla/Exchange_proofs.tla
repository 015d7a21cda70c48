---------------------------- MODULE Exchange_proofs ----------------------------
(***************************************************************************)
(* Proofs about a connection, for bodies and tunnels of any length. The     *)
(* invariants of Exchange hold of Connection because each of its steps is   *)
(* a step of Exchange or leaves the variables of Exchange alone; those of   *)
(* the tunnel are carried beside them.                                     *)
(***************************************************************************)
EXTENDS Connection, TLAPS

-----------------------------------------------------------------------------
(* Types.                                                                  *)

LEMMA TypeInit == ExchangeInit => ExchangeTypeOK
<1> SUFFICES ASSUME ExchangeInit PROVE ExchangeTypeOK
  OBVIOUS
<1>1. ControlTypeOK
  BY DEF ExchangeInit, ControlTypeOK, Statuses
<1>2. CountTypeOK
  BY ExchangeAssumption DEF ExchangeInit, CountTypeOK
<1> QED BY <1>1, <1>2 DEF ExchangeTypeOK

LEMMA ControlStep == ControlTypeOK /\ [ExchangeNext]_exchangeVars => ControlTypeOK'
<1> SUFFICES ASSUME ControlTypeOK, [ExchangeNext]_exchangeVars PROVE ControlTypeOK'
  OBVIOUS
<1>0. \A m \in {"CONNECT", "http"}, s \in Statuses, e \in BOOLEAN : Entry(m, s, e) \in Entries
  BY DEF Entry, Entries
<1>1. \A a \in Answers : a.kind \in {"full", "bodiless", "switch", "garbage"}
  BY DEF Answers
<1>2. {"200 CONNECT", "501", "502", "none", "full", "bodiless", "switch"} = Statuses
  BY DEF Statuses
<1>8. CASE UNCHANGED exchangeVars
  <2>1. UNCHANGED <<inspect, clientClosed, established, connected, asked, upClosed>>
    BY <1>8 DEF exchangeVars, clientVars, upVars, requestWire, responseWire
  <2>2. UNCHANGED <<pc, request, answer, head, own, entry>>
    BY <1>8 DEF exchangeVars, clientVars, upVars, requestWire, responseWire
  <2> QED BY <2>1, <2>2 DEF ControlTypeOK
<1>9. CASE ClientCloses
  <2> USE DEF upVars, requestWire, responseWire
  <2>1. clientClosed' \in BOOLEAN /\ UNCHANGED <<inspect, established, connected, asked, upClosed>>
    BY <1>9 DEF ClientCloses
  <2>2. UNCHANGED <<pc, request, answer, head, own, entry>>
    BY <1>9 DEF ClientCloses
  <2> QED BY <2>1, <2>2 DEF ControlTypeOK
<1> USE <1>0, <1>1, <1>2 DEF ControlTypeOK, clientVars, upVars, requestWire, responseWire,
        Goes, End, Respond, ClientLost
<1>3. CASE World
  <2>1. CASE ClientSends
    BY <2>1, ZenonT(60) DEF ClientSends
  <2>2. CASE ClientCloses
    BY <2>2, <1>9
  <2>3. CASE UpstreamAnswers
    BY <2>3, ZenonT(60) DEF UpstreamAnswers
  <2>4. CASE UpstreamSends
    BY <2>4, ZenonT(60) DEF UpstreamSends
  <2>5. CASE UpstreamCloses
    BY <2>5, ZenonT(60) DEF UpstreamCloses
  <2> QED BY <1>3, <2>1, <2>2, <2>3, <2>4, <2>5 DEF World
<1>4. CASE Read
  <2>1. CASE NoHeader
    BY <2>1 DEF NoHeader
  <2>2. CASE BadHeader
    BY <2>2 DEF BadHeader
  <2>3. CASE ReadRequest
    BY <2>3 DEF ReadRequest
  <2>4. CASE ReadConnect
    BY <2>4, ZenonT(60) DEF ReadConnect
  <2>5. CASE AcceptTls
    BY <2>5, ZenonT(60) DEF AcceptTls
  <2>6. CASE NoInnerHeader
    BY <2>6, ZenonT(60) DEF NoInnerHeader
  <2> QED BY <1>4, <2>1, <2>2, <2>3, <2>4, <2>5, <2>6 DEF Read
<1>5. CASE Connect
  <2>1. CASE TunnelRefused
    BY <2>1 DEF TunnelRefused
  <2>2. CASE TunnelOpens
    BY <2>2 DEF TunnelOpens
  <2>3. CASE LeafFails
    BY <2>3 DEF LeafFails
  <2>4. CASE Acknowledge
    BY <2>4 DEF Acknowledge
  <2> QED BY <1>5, <2>1, <2>2, <2>3, <2>4 DEF Connect
<1>6. CASE HandleRequest
  <2>1. CASE RefuseChunked
    BY <2>1 DEF RefuseChunked
  <2>2. CASE ConnectUpstream
    BY <2>2, ZenonT(60) DEF ConnectUpstream
  <2>3. CASE SendHeader
    BY <2>3 DEF SendHeader
  <2>4. CASE ForwardRequestBody
    BY <2>4, ZenonT(60) DEF ForwardRequestBody
  <2>5. CASE RequestBodyCut
    BY <2>5 DEF RequestBodyCut
  <2>6. CASE RequestBodyDone
    BY <2>6, ZenonT(60) DEF RequestBodyDone
  <2> QED BY <1>6, <2>1, <2>2, <2>3, <2>4, <2>5, <2>6 DEF HandleRequest
<1>7. CASE HandleResponse
  <2>1. CASE ForwardAnswer
    BY <2>1, ZenonT(60) DEF ForwardAnswer
  <2>2. CASE UpstreamSilent
    BY <2>2 DEF UpstreamSilent
  <2>3. CASE ForwardResponseBody
    BY <2>3, ZenonT(60) DEF ForwardResponseBody
  <2>4. CASE ResponseBodyCut
    BY <2>4 DEF ResponseBodyCut
  <2>5. CASE ResponseBodyDone
    BY <2>5, ZenonT(60) DEF ResponseBodyDone
  <2>6. CASE TunnelEnds
    BY <2>6 DEF TunnelEnds
  <2>7. CASE Fail
    BY <2>7 DEF Fail
  <2> QED BY <1>7, <2>1, <2>2, <2>3, <2>4, <2>5, <2>6, <2>7 DEF HandleResponse
<1> QED BY <1>3, <1>4, <1>5, <1>6, <1>7, <1>8 DEF ExchangeNext

LEMMA CountStep ==
  ControlTypeOK /\ CountTypeOK /\ [ExchangeNext]_exchangeVars => CountTypeOK'
<1> SUFFICES ASSUME ControlTypeOK, CountTypeOK, [ExchangeNext]_exchangeVars
             PROVE  CountTypeOK'
  OBVIOUS
<1>0. \A r \in Requests : r.length \in 0 .. MaxBody
  BY DEF Requests
<1> USE ExchangeAssumption DEF CountTypeOK
<1>1. CASE /\ UNCHANGED <<clientSent, passed, upSent, given>>
           /\ pc' \in {"header", "connect", "tls", "inner", "exchange", "ask"}
                => pc \in {"header", "connect", "tls", "inner", "exchange", "ask"}
  BY <1>1
<1>2. CASE ClientSends
  <2>1. request \in Requests
    BY <1>2 DEF ControlTypeOK, ClientSends
  <2> QED BY <1>0, <1>2, <2>1 DEF ClientSends, upVars, requestWire, responseWire
<1>3. CASE UpstreamSends
  BY <1>3 DEF UpstreamSends, clientVars, requestWire, responseWire
<1>4. CASE ReadRequest
  <2>1. request' \in Requests /\ passed = 0
    BY <1>4 DEF ReadRequest
  <2>2. clientSent' \in 0 .. MaxBody
    BY <1>0, <1>4, <2>1 DEF ReadRequest
  <2> QED BY <1>4, <2>1, <2>2 DEF ReadRequest, upVars, requestWire, responseWire
<1>5. CASE ForwardRequestBody
  BY <1>5 DEF ForwardRequestBody, clientVars, upVars, responseWire, Goes
<1>6. CASE ForwardResponseBody
  BY <1>6 DEF ForwardResponseBody, clientVars, upVars, requestWire, responseWire, Goes, ClientLost
<1>7. ExchangeNext =>
        \/ ClientSends \/ UpstreamSends \/ ReadRequest
        \/ ForwardRequestBody \/ ForwardResponseBody
        \/ /\ UNCHANGED <<clientSent, passed, upSent, given>>
           /\ pc' \in {"header", "connect", "tls", "inner", "exchange", "ask"}
                => pc \in {"header", "connect", "tls", "inner", "exchange", "ask"}
  <2> USE DEF clientVars, upVars, requestWire, responseWire, Goes, End, Respond, ClientLost
  <2>1. CASE World
    BY <2>1 DEF World, ClientCloses, UpstreamAnswers, UpstreamCloses
  <2>2. CASE Read
    BY <2>2 DEF Read, NoHeader, BadHeader, ReadConnect, AcceptTls, NoInnerHeader
  <2>3. CASE Connect
    BY <2>3 DEF Connect, TunnelRefused, TunnelOpens, LeafFails, Acknowledge
  <2>4. CASE HandleRequest
    BY <2>4 DEF HandleRequest, RefuseChunked, ConnectUpstream, SendHeader,
              RequestBodyCut, RequestBodyDone
  <2>5. CASE HandleResponse
    BY <2>5 DEF HandleResponse, ForwardAnswer, UpstreamSilent, ResponseBodyCut,
              ResponseBodyDone, TunnelEnds, Fail
  <2> QED BY <2>1, <2>2, <2>3, <2>4, <2>5 DEF ExchangeNext
<1>8. CASE UNCHANGED exchangeVars
  BY <1>1, <1>8 DEF exchangeVars, clientVars, upVars, requestWire, responseWire
<1> QED BY <1>1, <1>2, <1>3, <1>4, <1>5, <1>6, <1>7, <1>8

LEMMA TypeStep == ExchangeTypeOK /\ [ExchangeNext]_exchangeVars => ExchangeTypeOK'
  BY ControlStep, CountStep DEF ExchangeTypeOK

-----------------------------------------------------------------------------
(* Where the task stands and what it has done so far.                      *)

\* Nothing has happened before a request is in hand.
BeforeRequest ==
  pc \in {"header", "connect", "tls", "inner"} =>
    /\ request = None /\ ~connected /\ entry = None
    /\ head = "none" /\ own = "none"

\* A request in hand is settled by one entry, at the end.
InHand ==
  pc \in {"exchange", "ask", "body", "await", "relay", "fail"} =>
    request # None /\ entry = None /\ own = "none"

\* What the task has done of the exchange, step by step.
Steps ==
  /\ pc = "exchange" => ~connected
  /\ pc \in {"exchange", "ask", "body", "await"} => head = "none"
  /\ pc \in {"await", "relay"} => passed = request.length
  /\ pc = "relay" => answer # None /\ head = answer.kind /\ head \in {"full", "bodiless"}

\* A tunnel was acknowledged, or is an upgraded exchange.
Tunnel ==
  pc = "tunnel" =>
    /\ entry = None /\ own = "none"
    /\ \/ request = None /\ established /\ connected /\ head = "none"
       \/ request # None /\ head = "switch" /\ passed = request.length

ExchangeInv ==
  /\ BeforeRequest /\ InHand /\ Steps /\ Tunnel
  /\ answer # None => answer.kind \in {"full", "bodiless", "switch", "garbage"}
  /\ head # "none" => answer # None
  /\ EntryTellsWire /\ NothingPassesUnseen

LEMMA ExchangeInvInit == ExchangeInit => ExchangeInv
  BY DEF ExchangeInit, ExchangeInv, BeforeRequest, InHand, Steps, Tunnel, EntryTellsWire,
         NothingPassesUnseen

LEMMA ExchangeInvStep == ExchangeInv /\ [ExchangeNext]_exchangeVars => ExchangeInv'
<1> SUFFICES ASSUME ExchangeInv, [ExchangeNext]_exchangeVars PROVE ExchangeInv'
  OBVIOUS
<1>0. /\ \A r \in Requests : r # None
      /\ \A a \in Answers : a # None /\ a.kind \in {"full", "bodiless", "switch", "garbage"}
  BY ExchangeAssumption DEF Answers
<1>1. \A m \in {"CONNECT", "http"}, s \in Statuses, e \in BOOLEAN : Entry(m, s, e) # None
  BY ExchangeAssumption DEF Entry, Entries
<1>11. \A m, s : Entry(m, s, TRUE).error /\ ~Entry(m, s, FALSE).error
  BY DEF Entry
<1>12. \A m, s, e : Entry(m, s, e).method = m /\ Entry(m, s, e).status = s
  BY DEF Entry
<1>13. {"200 CONNECT", "501", "502", "none", "full", "bodiless", "switch"} \subseteq Statuses
  BY DEF Statuses
<1> USE <1>0, <1>1, <1>11, <1>12, <1>13 DEF ExchangeInv, BeforeRequest, InHand, Steps, Tunnel, EntryTellsWire,
        NothingPassesUnseen, clientVars, upVars, requestWire,
        responseWire, Goes, End, Respond, ClientLost
<1>2. CASE World
  <2>1. CASE ClientSends
    BY <2>1 DEF ClientSends
  <2>2. CASE ClientCloses
    BY <2>2 DEF ClientCloses
  <2>3. CASE UpstreamAnswers
    BY <2>3 DEF UpstreamAnswers
  <2>4. CASE UpstreamSends
    BY <2>4 DEF UpstreamSends
  <2>5. CASE UpstreamCloses
    BY <2>5 DEF UpstreamCloses
  <2> QED BY <1>2, <2>1, <2>2, <2>3, <2>4, <2>5 DEF World
<1>3. CASE Read
  <2>1. CASE NoHeader
    BY <2>1 DEF NoHeader
  <2>2. CASE BadHeader
    BY <2>2 DEF BadHeader
  <2>3. CASE ReadRequest
    BY <2>3 DEF ReadRequest
  <2>4. CASE ReadConnect
    BY <2>4 DEF ReadConnect
  <2>5. CASE AcceptTls
    BY <2>5 DEF AcceptTls
  <2>6. CASE NoInnerHeader
    BY <2>6 DEF NoInnerHeader
  <2> QED BY <1>3, <2>1, <2>2, <2>3, <2>4, <2>5, <2>6 DEF Read
<1>4. CASE Connect
  <2>1. CASE TunnelRefused
    BY <2>1 DEF TunnelRefused
  <2>2. CASE TunnelOpens
    <3>1. BeforeRequest' /\ InHand'
      BY <2>2 DEF TunnelOpens
    <3>2. Steps' /\ Tunnel'
      BY <2>2 DEF TunnelOpens
    <3>3. EntryTellsWire'
      BY <2>2 DEF TunnelOpens
    <3>4. NothingPassesUnseen'
      BY <2>2 DEF TunnelOpens
    <3>5. (answer # None => answer.kind \in {"full", "bodiless", "switch", "garbage"})'
          /\ (head # "none" => answer # None)'
      BY <2>2 DEF TunnelOpens
    <3> QED BY <3>1, <3>2, <3>3, <3>4, <3>5
  <2>3. CASE LeafFails
    BY <2>3 DEF LeafFails
  <2>4. CASE Acknowledge
    BY <2>4 DEF Acknowledge
  <2> QED BY <1>4, <2>1, <2>2, <2>3, <2>4 DEF Connect
<1>5. CASE HandleRequest
  <2>1. CASE RefuseChunked
    BY <2>1 DEF RefuseChunked
  <2>2. CASE ConnectUpstream
    <3>1. BeforeRequest' /\ InHand'
      BY <2>2 DEF ConnectUpstream
    <3>2. Steps' /\ Tunnel'
      BY <2>2 DEF ConnectUpstream
    <3>3. EntryTellsWire'
      BY <2>2 DEF ConnectUpstream
    <3>4. NothingPassesUnseen'
      <4>1. pc' # "ended" /\ UNCHANGED <<request, established>>
        BY <2>2 DEF ConnectUpstream
      <4>2. CASE UNCHANGED connected
        BY <4>1, <4>2
      <4>3. CASE request.kind # "chunked" /\ (request.kind # "https" \/ established)
        BY <4>1, <4>3
      <4> QED BY <2>2, <4>2, <4>3 DEF ConnectUpstream
    <3>5. (answer # None => answer.kind \in {"full", "bodiless", "switch", "garbage"})'
          /\ (head # "none" => answer # None)'
      BY <2>2 DEF ConnectUpstream
    <3> QED BY <3>1, <3>2, <3>3, <3>4, <3>5
  <2>3. CASE SendHeader
    BY <2>3 DEF SendHeader
  <2>4. CASE ForwardRequestBody
    BY <2>4 DEF ForwardRequestBody
  <2>5. CASE RequestBodyCut
    BY <2>5 DEF RequestBodyCut
  <2>6. CASE RequestBodyDone
    BY <2>6 DEF RequestBodyDone
  <2> QED BY <1>5, <2>1, <2>2, <2>3, <2>4, <2>5, <2>6 DEF HandleRequest
<1>6. CASE HandleResponse
  <2>1. CASE ForwardAnswer
    <3>1. BeforeRequest' /\ InHand'
      BY <2>1 DEF ForwardAnswer
    <3>2. Steps' /\ Tunnel'
      <4>0. UNCHANGED <<request, answer, connected, asked, passed, entry>>
        BY <2>1 DEF ForwardAnswer
      <4>1. CASE pc' = "fail"
        BY <4>1
      <4>2. CASE pc' = "tunnel" /\ head' = answer.kind /\ answer.kind = "switch" /\ UNCHANGED own
        BY <2>1, <4>0, <4>2 DEF ForwardAnswer
      <4>3. CASE pc' = "relay" /\ head' = answer.kind /\ answer.kind \in {"full", "bodiless"}
        BY <2>1, <4>0, <4>3 DEF ForwardAnswer
      <4> QED BY <2>1, <4>1, <4>2, <4>3 DEF ForwardAnswer
    <3>3. EntryTellsWire'
      BY <2>1 DEF ForwardAnswer
    <3>4. NothingPassesUnseen'
      <4>1. pc' # "ended"
        BY <2>1 DEF ForwardAnswer
      <4>2. UNCHANGED <<request, established, connected>>
        BY <2>1 DEF ForwardAnswer
      <4> QED BY <4>1, <4>2 DEF NothingPassesUnseen
    <3>5. (answer # None => answer.kind \in {"full", "bodiless", "switch", "garbage"})'
          /\ (head # "none" => answer # None)'
      BY <2>1 DEF ForwardAnswer
    <3> QED BY <3>1, <3>2, <3>3, <3>4, <3>5
  <2>2. CASE UpstreamSilent
    BY <2>2 DEF UpstreamSilent
  <2>3. CASE ForwardResponseBody
    <3>1. BeforeRequest' /\ InHand'
      BY <2>3 DEF ForwardResponseBody
    <3>2. Steps' /\ Tunnel'
      BY <2>3 DEF ForwardResponseBody
    <3>3. EntryTellsWire'
      BY <2>3 DEF ForwardResponseBody
    <3>4. NothingPassesUnseen'
      <4>1. pc' # "ended"
        BY <2>3 DEF ForwardResponseBody
      <4>2. UNCHANGED <<request, established, connected>>
        BY <2>3 DEF ForwardResponseBody
      <4> QED BY <4>1, <4>2 DEF NothingPassesUnseen
    <3>5. (answer # None => answer.kind \in {"full", "bodiless", "switch", "garbage"})'
          /\ (head # "none" => answer # None)'
      BY <2>3 DEF ForwardResponseBody
    <3> QED BY <3>1, <3>2, <3>3, <3>4, <3>5
  <2>4. CASE ResponseBodyCut
    BY <2>4 DEF ResponseBodyCut
  <2>5. CASE ResponseBodyDone
    <3>1. BeforeRequest' /\ InHand'
      BY <2>5 DEF ResponseBodyDone
    <3>2. Steps' /\ Tunnel'
      BY <2>5 DEF ResponseBodyDone
    <3>3. EntryTellsWire'
      <4>1. CASE entry' = Entry("http", head, FALSE)
        <5>1. entry'.method = "http" /\ entry'.status = head
          BY <4>1 DEF Entry
        <5>2. own = "none" /\ head # "none" /\ passed = request.length
          BY <2>5 DEF ResponseBodyDone
        <5>3. UNCHANGED <<request, passed, head, own, answer, given, upSent, upClosed>>
          BY <2>5 DEF ResponseBodyDone
        <5>4. IF answer.length = Close THEN upClosed /\ given = upSent ELSE given = answer.length
          BY <2>5 DEF ResponseBodyDone
        <5>5. (IF answer.length = Close THEN upClosed /\ given = upSent ELSE given = answer.length)'
          BY <5>3, <5>4
        <5> QED BY <5>1, <5>2, <5>3, <5>5 DEF EntryTellsWire
      <4>2. CASE entry' = entry
        BY <2>5, <4>2 DEF ResponseBodyDone
      <4> QED BY <2>5, <4>1, <4>2 DEF ResponseBodyDone
    <3>4. NothingPassesUnseen'
      BY <2>5 DEF ResponseBodyDone
    <3>5. (answer # None => answer.kind \in {"full", "bodiless", "switch", "garbage"})'
          /\ (head # "none" => answer # None)'
      BY <2>5 DEF ResponseBodyDone
    <3> QED BY <3>1, <3>2, <3>3, <3>4, <3>5
  <2>6. CASE TunnelEnds
    <3>1. BeforeRequest' /\ InHand'
      BY <2>6 DEF TunnelEnds
    <3>2. Steps' /\ Tunnel'
      BY <2>6 DEF TunnelEnds
    <3>3. EntryTellsWire'
      <4>0. UNCHANGED <<request, passed, head, own, established, connected>>
        BY <2>6 DEF TunnelEnds
      <4>1. CASE head = "switch"
        <5>1. PICK error \in BOOLEAN : entry' = Entry("http", head, error)
          BY <2>6, <4>1 DEF TunnelEnds
        <5>2. entry'.method = "http" /\ entry'.status = head
          BY <5>1 DEF Entry
        <5>3. own = "none" /\ passed = request.length
          BY <2>6, <4>1 DEF TunnelEnds
        <5> QED BY <4>0, <4>1, <5>2, <5>3 DEF EntryTellsWire
      <4>2. CASE head # "switch"
        <5>1. PICK error \in BOOLEAN : entry' = Entry("CONNECT", "200 CONNECT", error)
          BY <2>6, <4>2 DEF TunnelEnds
        <5>2. entry'.method = "CONNECT"
          BY <5>1 DEF Entry
        <5>3. established /\ connected /\ request = None
          BY <2>6, <4>2 DEF TunnelEnds
        <5> QED BY <4>0, <5>2, <5>3 DEF EntryTellsWire
      <4> QED BY <4>1, <4>2
    <3>4. NothingPassesUnseen'
      BY <2>6 DEF TunnelEnds
    <3>5. (answer # None => answer.kind \in {"full", "bodiless", "switch", "garbage"})'
          /\ (head # "none" => answer # None)'
      BY <2>6 DEF TunnelEnds
    <3> QED BY <3>1, <3>2, <3>3, <3>4, <3>5
  <2>7. CASE Fail
    BY <2>7 DEF Fail
  <2> QED BY <1>6, <2>1, <2>2, <2>3, <2>4, <2>5, <2>6, <2>7 DEF HandleResponse
<1>7. CASE UNCHANGED exchangeVars
  BY <1>7 DEF exchangeVars
<1> QED BY <1>2, <1>3, <1>4, <1>5, <1>6, <1>7 DEF ExchangeNext

-----------------------------------------------------------------------------
(* How a failure is told.                                                  *)

\* A header that was followed by a failure was followed by less than it announced,
\* unless the client had gone; and a body is only passed on behind a header.
FailInv ==
  /\ FailureIsTold
  /\ pc = "fail" /\ head # "none" => WantsMore \/ clientClosed
  /\ head = "none" => given = 0

LEMMA FailStep == ExchangeInv /\ FailInv /\ [ExchangeNext]_exchangeVars => FailInv'
<1> SUFFICES ASSUME ExchangeInv, FailInv, [ExchangeNext]_exchangeVars PROVE FailInv'
  OBVIOUS
<1>0. /\ \A m, s : Entry(m, s, TRUE).error /\ ~Entry(m, s, FALSE).error
      /\ \A m \in {"CONNECT", "http"}, s \in Statuses, e \in BOOLEAN : Entry(m, s, e) # None
      /\ {"200 CONNECT", "501", "502", "none", "full", "bodiless", "switch"} \subseteq Statuses
  <2>1. \A m, s : Entry(m, s, TRUE).error /\ ~Entry(m, s, FALSE).error
    BY DEF Entry
  <2>2. \A m \in {"CONNECT", "http"}, s \in Statuses, e \in BOOLEAN : Entry(m, s, e) \in Entries
    BY DEF Entry, Entries
  <2>3. \A m \in {"CONNECT", "http"}, s \in Statuses, e \in BOOLEAN : Entry(m, s, e) # None
    BY <2>2, ExchangeAssumption
  <2>4. {"200 CONNECT", "501", "502", "none", "full", "bodiless", "switch"} \subseteq Statuses
    BY DEF Statuses
  <2> QED BY <2>1, <2>3, <2>4
<1> USE <1>0 DEF ExchangeInv, FailInv, FailureIsTold, BeforeRequest, InHand, Steps, Tunnel,
        WantsMore, Announced, clientVars, upVars, requestWire, responseWire, Goes, End,
        Respond, ClientLost
<1>1. CASE World
  BY <1>1 DEF World, ClientSends, ClientCloses, UpstreamAnswers, UpstreamSends, UpstreamCloses
<1>2. CASE Read
  BY <1>2 DEF Read, NoHeader, BadHeader, ReadRequest, ReadConnect, AcceptTls, NoInnerHeader
<1>3. CASE Connect
  BY <1>3 DEF Connect, TunnelRefused, TunnelOpens, LeafFails, Acknowledge
<1>4. CASE HandleRequest
  BY <1>4 DEF HandleRequest, RefuseChunked, ConnectUpstream, SendHeader, ForwardRequestBody,
              RequestBodyCut, RequestBodyDone
<1>5. CASE HandleResponse
  <2>1. CASE ForwardAnswer
    BY <2>1 DEF ForwardAnswer
  <2>2. CASE UpstreamSilent \/ ResponseBodyCut
    BY <2>2 DEF UpstreamSilent, ResponseBodyCut
  <2>3. CASE ForwardResponseBody
    BY <2>3 DEF ForwardResponseBody
  <2>4. CASE ResponseBodyDone
    BY <2>4 DEF ResponseBodyDone
  <2>5. CASE TunnelEnds
    BY <2>5 DEF TunnelEnds
  <2>6. CASE Fail
    BY <2>6 DEF Fail
  <2> QED BY <1>5, <2>1, <2>2, <2>3, <2>4, <2>5, <2>6 DEF HandleResponse
<1>6. CASE UNCHANGED exchangeVars
  BY <1>6 DEF exchangeVars
<1> QED BY <1>1, <1>2, <1>3, <1>4, <1>5, <1>6 DEF ExchangeNext

\* The order of what the client gets, as a step that the invariant allows.
OrderStep ==
  /\ head' # head => passed = request.length /\ own = "none"
  /\ given' # given => own = "none"
  /\ own' # own /\ head # "none" => WantsMore \/ clientClosed

LEMMA OrderStepHolds == ExchangeInv /\ FailInv /\ [ExchangeNext]_exchangeVars => OrderStep
<1> SUFFICES ASSUME ExchangeInv, FailInv, [ExchangeNext]_exchangeVars PROVE OrderStep
  OBVIOUS
<1> USE DEF OrderStep, ExchangeInv, FailInv, BeforeRequest, InHand, Steps, clientVars, upVars,
        requestWire, responseWire, Goes, End, Respond, ClientLost
<1>1. CASE World
  BY <1>1 DEF World, ClientSends, ClientCloses, UpstreamAnswers, UpstreamSends, UpstreamCloses
<1>2. CASE Read
  BY <1>2 DEF Read, NoHeader, BadHeader, ReadRequest, ReadConnect, AcceptTls, NoInnerHeader
<1>3. CASE Connect
  BY <1>3 DEF Connect, TunnelRefused, TunnelOpens, LeafFails, Acknowledge
<1>4. CASE HandleRequest
  BY <1>4 DEF HandleRequest, RefuseChunked, ConnectUpstream, SendHeader, ForwardRequestBody,
              RequestBodyCut, RequestBodyDone
<1>5. CASE HandleResponse
  BY <1>5 DEF HandleResponse, ForwardAnswer, UpstreamSilent, ForwardResponseBody,
              ResponseBodyCut, ResponseBodyDone, TunnelEnds, Fail
<1>6. CASE UNCHANGED exchangeVars
  BY <1>6 DEF exchangeVars
<1> QED BY <1>1, <1>2, <1>3, <1>4, <1>5, <1>6 DEF ExchangeNext

-----------------------------------------------------------------------------
(* The theorems of Exchange, for a connection.                             *)

\* Every step of a connection is one of Exchange or leaves its variables alone.
LEMMA ConnectionSteps == [ConnectionNext]_connectionVars => [ExchangeNext]_exchangeVars
  BY DEF ConnectionNext, connectionVars, Sides, ClientTalks, UpstreamTalks, Headers,
         ConnectDropsEarly, InspectTls, ReadEarly, Handle, Relay, PassEarly, ForwardSwitch,
         Copy, CopyUp, CopyDown, CopyReturns, CopyFails, ExchangeNext, Read, HandleRequest,
         HandleResponse

\* The variables of an exchange keep their types, and a piece is only forwarded
\* after it was sent, for every MaxBody.
THEOREM ExchangeTypeCorrect == ConnectionSpec => []ExchangeTypeOK
  BY TypeInit, TypeStep, ConnectionSteps, PTL DEF ConnectionSpec, ConnectionInit

\* Between its steps an exchange is where its program counter says: this is the
\* inductive invariant behind the theorems that follow.
THEOREM ExchangeInvariant == ConnectionSpec => [](ExchangeInv /\ FailInv)
<1>1. ExchangeInit => FailInv
  BY DEF ExchangeInit, FailInv, FailureIsTold
<1> QED BY <1>1, ExchangeInvInit, ExchangeInvStep, FailStep, ConnectionSteps, PTL
        DEF ConnectionSpec, ConnectionInit

\* An entry without an error tells what was on the wire, for bodies of any length.
THEOREM ExchangeEntryTellsWire == ConnectionSpec => []EntryTellsWire
<1>1. ExchangeInv => EntryTellsWire
  BY DEF ExchangeInv
<1> QED BY <1>1, ExchangeInvariant, PTL

\* A task that reached an upstream server for its client leaves an entry.
THEOREM ExchangeNothingUnseen == ConnectionSpec => []NothingPassesUnseen
<1>1. ExchangeInv => NothingPassesUnseen
  BY DEF ExchangeInv
<1> QED BY <1>1, ExchangeInvariant, PTL

\* A client that is there at the end was answered, and told of a failure.
THEOREM ExchangeFailureIsTold == ConnectionSpec => []FailureIsTold
<1>1. FailInv => FailureIsTold
  BY DEF FailInv
<1> QED BY <1>1, ExchangeInvariant, PTL

\* The order of the header, the body and the proxy's own response.
THEOREM ExchangeResponseOrder == ConnectionSpec => ResponseOrder
<1>1. ExchangeInv /\ FailInv /\ [ExchangeNext]_exchangeVars
        => [/\ head' # head => passed = request.length /\ own = "none"
            /\ given' # given => own = "none"
            /\ own' # own /\ head # "none" => WantsMore \/ clientClosed]_exchangeVars
  BY OrderStepHolds DEF OrderStep
<1> QED BY <1>1, ExchangeInvariant, ConnectionSteps, PTL DEF ConnectionSpec, ResponseOrder

-----------------------------------------------------------------------------
(* What goes through a tunnel.                                             *)

\* What was dropped and what was passed, or will be with a header, was sent.
LinkOK(link) ==
  /\ link \in Links
  /\ link.lost + link.passed <= link.sent /\ link.lost + link.first <= link.sent

LEMMA LinkGrows ==
  ASSUME NEW link, LinkOK(link), link.sent < MaxTunnel
  PROVE  LET more == [link EXCEPT !.sent = @ + 1]
         IN  LinkOK(more) /\ more.done = link.done /\ more.lost = link.lost
  BY ConnectionAssumption DEF LinkOK, Links

LEMMA LinkCopies ==
  ASSUME NEW link, LinkOK(link), Waiting(link)
  PROVE  LET more == [link EXCEPT !.passed = @ + 1]
         IN  LinkOK(more) /\ more.done = link.done /\ more.lost = link.lost
  BY ConnectionAssumption DEF LinkOK, Links, Waiting

LEMMA LinkEnds ==
  ASSUME NEW link, LinkOK(link), ~Waiting(link)
  PROVE  LET over == [link EXCEPT !.done = TRUE]
         IN  LinkOK(over) /\ ~Waiting(over) /\ over.lost = link.lost
  BY DEF LinkOK, Links, Waiting

LEMMA LinkFields ==
  ASSUME NEW sent \in 0 .. MaxTunnel, NEW lost \in 0 .. MaxTunnel,
         NEW first \in 0 .. MaxTunnel, NEW written \in 0 .. MaxTunnel,
         lost + written <= sent, lost + first <= sent
  PROVE  LinkOK(Link(sent, lost, first, written))
  BY DEF LinkOK, Link, Links

LEMMA LinkStarts ==
  LinkOK(Link(0, 0, 0, 0))
    /\ \A n \in 0 .. MaxTunnel : LinkOK(Link(n, 0, n, 0)) /\ LinkOK(Link(n, n, 0, 0))
<1>1. 0 \in 0 .. MaxTunnel
  BY ConnectionAssumption
<1>2. ASSUME NEW n \in 0 .. MaxTunnel PROVE LinkOK(Link(n, 0, n, 0)) /\ LinkOK(Link(n, n, 0, 0))
  <2>1. n + 0 <= n /\ 0 + n <= n /\ 0 + 0 <= n
    OBVIOUS
  <2>2. LinkOK(Link(n, 0, n, 0))
    BY <1>1, <2>1, LinkFields
  <2>3. LinkOK(Link(n, n, 0, 0))
    BY <1>1, <2>1, LinkFields
  <2> QED BY <2>2, <2>3
<1>3. LinkOK(Link(0, 0, 0, 0))
  BY <1>1, <1>2
<1> QED BY <1>2, <1>3

LEMMA LinkPasses ==
  ASSUME NEW link, LinkOK(link)
  PROVE  /\ LinkOK(Passed(link, link.first))
         /\ link.lost = 0 => \A n \in 0 .. link.sent : LinkOK(Passed(link, n))
<1>0. link.sent \in 0 .. MaxTunnel /\ link.lost \in 0 .. MaxTunnel
  BY DEF LinkOK, Links
<1>1. ASSUME NEW n \in 0 .. MaxTunnel, link.lost + n <= link.sent PROVE LinkOK(Passed(link, n))
  BY <1>0, <1>1, LinkFields DEF Passed
<1>2. link.first \in 0 .. MaxTunnel /\ link.lost + link.first <= link.sent
  BY DEF LinkOK, Links
<1>3. ASSUME link.lost = 0, NEW n \in 0 .. link.sent
      PROVE  n \in 0 .. MaxTunnel /\ link.lost + n <= link.sent
  BY <1>3, ConnectionAssumption DEF LinkOK, Links
<1> QED BY <1>1, <1>2, <1>3

\* A direction is over when its sender has ended and all was passed on, and the
\* entry of a tunnel without an error counts two directions that are over.
LinksOK == LinkOK(uplink) /\ LinkOK(downlink) /\ downlink.lost = 0
Over ==
  /\ uplink.done => clientClosed /\ ~Waiting(uplink) /\ pc \in {"tunnel", "ended"}
  /\ downlink.done => upClosed /\ ~Waiting(downlink) /\ pc \in {"tunnel", "ended"}
Kept == Upgrading /\ request.length = 0 => uplink.lost = 0
Counted ==
  sizes # None =>
    /\ pc = "ended"
    /\ entry.error \/ (/\ uplink.done /\ downlink.done
                       /\ sizes = <<uplink.passed, downlink.passed>>)
TunnelInv == LinksOK /\ Over /\ Kept /\ Counted

LEMMA TunnelInvInit == ConnectionInit => TunnelInv
<1> SUFFICES ASSUME ConnectionInit PROVE TunnelInv
  OBVIOUS
<1>1. LinksOK
  BY LinkStarts DEF ConnectionInit, LinksOK, Link
<1>2. Over /\ Counted
  BY DEF ConnectionInit, Over, Link, Counted
<1>3. Kept
  BY DEF ConnectionInit, ExchangeInit, Kept, Upgrading
<1> QED BY <1>1, <1>2, <1>3 DEF TunnelInv

-----------------------------------------------------------------------------
\* A task ends once, with one entry, and a tunnel ends and nothing else.
LEMMA StaysEnded ==
  [ExchangeNext]_exchangeVars =>
    /\ pc = "tunnel" => pc' \in {"tunnel", "ended"}
    /\ pc = "ended" => pc' = "ended" /\ entry' = entry
<1> SUFFICES ASSUME [ExchangeNext]_exchangeVars
             PROVE  /\ pc = "tunnel" => pc' \in {"tunnel", "ended"}
                    /\ pc = "ended" => pc' = "ended" /\ entry' = entry
  OBVIOUS
<1> USE DEF clientVars, upVars, requestWire, responseWire, Goes, End, Respond
<1>1. CASE World
  BY <1>1 DEF World, ClientSends, ClientCloses, UpstreamAnswers, UpstreamSends, UpstreamCloses
<1>2. CASE Read
  BY <1>2 DEF Read, NoHeader, BadHeader, ReadRequest, ReadConnect, AcceptTls, NoInnerHeader
<1>3. CASE Connect
  BY <1>3 DEF Connect, TunnelRefused, TunnelOpens, LeafFails, Acknowledge
<1>4. CASE HandleRequest
  BY <1>4 DEF HandleRequest, RefuseChunked, ConnectUpstream, SendHeader, ForwardRequestBody,
              RequestBodyCut, RequestBodyDone
<1>5. CASE HandleResponse
  BY <1>5 DEF HandleResponse, ForwardAnswer, UpstreamSilent, ForwardResponseBody,
              ResponseBodyCut, ResponseBodyDone, TunnelEnds, Fail
<1>6. CASE UNCHANGED exchangeVars
  BY <1>6 DEF exchangeVars
<1> QED BY <1>1, <1>2, <1>3, <1>4, <1>5, <1>6 DEF ExchangeNext

\* What is closed stays closed.
LEMMA StaysClosed ==
  [ExchangeNext]_exchangeVars =>
    /\ clientClosed' = TRUE \/ UNCHANGED clientClosed
    /\ upClosed' = TRUE \/ UNCHANGED upClosed
<1> SUFFICES ASSUME [ExchangeNext]_exchangeVars
             PROVE  /\ clientClosed' = TRUE \/ UNCHANGED clientClosed
                    /\ upClosed' = TRUE \/ UNCHANGED upClosed
  OBVIOUS
<1> USE DEF clientVars, upVars, requestWire, responseWire
<1>1. CASE World
  BY <1>1 DEF World, ClientSends, ClientCloses, UpstreamAnswers, UpstreamSends, UpstreamCloses
<1>2. CASE Read
  BY <1>2 DEF Read, NoHeader, BadHeader, ReadRequest, ReadConnect, AcceptTls, NoInnerHeader
<1>3. CASE Connect
  BY <1>3 DEF Connect, TunnelRefused, TunnelOpens, LeafFails, Acknowledge
<1>4. CASE HandleRequest
  BY <1>4 DEF HandleRequest, RefuseChunked, ConnectUpstream, SendHeader, ForwardRequestBody,
              RequestBodyCut, RequestBodyDone
<1>5. CASE HandleResponse
  BY <1>5 DEF HandleResponse, ForwardAnswer, UpstreamSilent, ForwardResponseBody,
              ResponseBodyCut, ResponseBodyDone, TunnelEnds, Fail
<1>6. CASE UNCHANGED exchangeVars
  BY <1>6 DEF exchangeVars
<1> QED BY <1>1, <1>2, <1>3, <1>4, <1>5, <1>6 DEF ExchangeNext

\* A task takes one request.
LEMMA RequestStays ==
  BeforeRequest /\ [ExchangeNext]_exchangeVars => (request # None => request' = request)
<1> SUFFICES ASSUME BeforeRequest, [ExchangeNext]_exchangeVars
             PROVE  request # None => request' = request
  OBVIOUS
<1> USE DEF BeforeRequest, clientVars, upVars, requestWire, responseWire
<1>1. CASE World
  BY <1>1 DEF World, ClientSends, ClientCloses, UpstreamAnswers, UpstreamSends, UpstreamCloses
<1>2. CASE Read
  BY <1>2 DEF Read, NoHeader, BadHeader, ReadRequest, ReadConnect, AcceptTls, NoInnerHeader
<1>3. CASE Connect
  BY <1>3 DEF Connect, TunnelRefused, TunnelOpens, LeafFails, Acknowledge
<1>4. CASE HandleRequest
  BY <1>4 DEF HandleRequest, RefuseChunked, ConnectUpstream, SendHeader, ForwardRequestBody,
              RequestBodyCut, RequestBodyDone
<1>5. CASE HandleResponse
  BY <1>5 DEF HandleResponse, ForwardAnswer, UpstreamSilent, ForwardResponseBody,
              ResponseBodyCut, ResponseBodyDone, TunnelEnds, Fail
<1>6. CASE UNCHANGED exchangeVars
  BY <1>6 DEF exchangeVars
<1> QED BY <1>1, <1>2, <1>3, <1>4, <1>5, <1>6 DEF ExchangeNext

\* The steps of a connection, by what they do to the two directions.
Elsewhere == UNCHANGED <<tunnelVars, request>>

LEMMA ByLinks ==
  [ConnectionNext]_connectionVars =>
    \/ Elsewhere \/ ClientTalks \/ UpstreamTalks \/ ConnectDropsEarly \/ ReadEarly
    \/ PassEarly \/ ForwardSwitch \/ CopyUp \/ CopyDown \/ CopyReturns \/ CopyFails
<1> SUFFICES ASSUME [ConnectionNext]_connectionVars
             PROVE  \/ Elsewhere \/ ClientTalks \/ UpstreamTalks \/ ConnectDropsEarly
                    \/ ReadEarly \/ PassEarly \/ ForwardSwitch \/ CopyUp \/ CopyDown
                    \/ CopyReturns \/ CopyFails
  OBVIOUS
<1>1. CASE Sides \/ Copy \/ CopyFails
  BY <1>1 DEF Sides, Copy
<1>2. CASE Headers
  <2>1. InspectTls => Elsewhere
    BY DEF InspectTls, AcceptTls, Elsewhere
  <2> QED BY <1>2, <2>1 DEF Headers
<1>3. CASE Handle
  <2>1. Relay => UNCHANGED request
    BY DEF Relay, RefuseChunked, ConnectUpstream, SendHeader, ForwardRequestBody,
           RequestBodyCut, UpstreamSilent, ForwardResponseBody, ResponseBodyCut,
           ResponseBodyDone, Fail
  <2> QED BY <1>3, <2>1 DEF Handle, Elsewhere
<1>4. CASE (World \/ NoHeader \/ BadHeader \/ NoInnerHeader \/ Connect) /\ UNCHANGED tunnelVars
  <2>1. World => UNCHANGED request
    BY DEF World, ClientSends, ClientCloses, UpstreamAnswers, UpstreamSends, UpstreamCloses
  <2>2. NoHeader \/ BadHeader \/ NoInnerHeader => UNCHANGED request
    BY DEF NoHeader, BadHeader, NoInnerHeader
  <2>3. Connect => UNCHANGED request
    BY DEF Connect, TunnelRefused, TunnelOpens, LeafFails, Acknowledge
  <2> QED BY <1>4, <2>1, <2>2, <2>3 DEF Elsewhere
<1>5. CASE UNCHANGED connectionVars
  BY <1>5 DEF connectionVars, exchangeVars, Elsewhere
<1> QED BY <1>1, <1>2, <1>3, <1>4, <1>5 DEF ConnectionNext

LEMMA LinksStep == TunnelInv /\ [ConnectionNext]_connectionVars => LinksOK'
<1> SUFFICES ASSUME LinksOK, [ConnectionNext]_connectionVars PROVE LinksOK'
  BY DEF TunnelInv
<1> USE DEF LinksOK
<1>1. CASE Elsewhere
  BY <1>1 DEF Elsewhere, tunnelVars
<1>2. CASE ClientTalks
  BY <1>2, LinkGrows DEF ClientTalks
<1>3. CASE UpstreamTalks
  BY <1>3, LinkGrows DEF UpstreamTalks
<1>4. CASE ConnectDropsEarly
  BY <1>4, LinkStarts DEF ConnectDropsEarly
<1>5. CASE ReadEarly
  BY <1>5, LinkStarts DEF ReadEarly
<1>6. CASE PassEarly
  BY <1>6, LinkPasses DEF PassEarly
<1>7. CASE ForwardSwitch
  <2>1. ASSUME NEW n \in 0 .. downlink.sent, downlink' = Passed(downlink, n)
        PROVE  LinkOK(downlink') /\ downlink'.lost = 0
    BY <2>1, LinkPasses DEF Passed, Link
  <2> QED BY <1>7, <2>1 DEF ForwardSwitch
<1>8. CASE CopyUp
  BY <1>8, LinkCopies, LinkEnds DEF CopyUp
<1>9. CASE CopyDown
  BY <1>9, LinkCopies, LinkEnds DEF CopyDown
<1>10. CASE CopyReturns \/ CopyFails
  BY <1>10 DEF CopyReturns, CopyFails
<1> QED BY <1>1, <1>2, <1>3, <1>4, <1>5, <1>6, <1>7, <1>8, <1>9, <1>10, ByLinks

LEMMA OverStep ==
  ExchangeInv /\ TunnelInv /\ [ConnectionNext]_connectionVars => Over'
<1> SUFFICES ASSUME ExchangeInv, LinksOK, Over, [ConnectionNext]_connectionVars PROVE Over'
  BY DEF TunnelInv
<1>0. /\ pc \in {"tunnel", "ended"} => pc' \in {"tunnel", "ended"}
      /\ (clientClosed => clientClosed') /\ (upClosed => upClosed')
  <2>1. [ExchangeNext]_exchangeVars
    BY ConnectionSteps
  <2>2. pc \in {"tunnel", "ended"} => pc' \in {"tunnel", "ended"}
    BY <2>1, StaysEnded
  <2>3. /\ clientClosed' = TRUE \/ UNCHANGED clientClosed
        /\ upClosed' = TRUE \/ UNCHANGED upClosed
    BY <2>1, StaysClosed
  <2>4. (clientClosed => clientClosed') /\ (upClosed => upClosed')
    <3>1. CASE clientClosed' = clientClosed /\ upClosed' = upClosed
      BY <3>1
    <3>2. CASE clientClosed' = TRUE /\ upClosed' = upClosed
      BY <3>2
    <3>3. CASE clientClosed' = clientClosed /\ upClosed' = TRUE
      BY <3>3
    <3>4. CASE clientClosed' = TRUE /\ upClosed' = TRUE
      BY <3>4
    <3> QED BY <2>3, <3>1, <3>2, <3>3, <3>4
  <2> QED BY <2>2, <2>4
<1> USE <1>0 DEF Over, LinksOK
<1>1. CASE Elsewhere
  BY <1>1 DEF Elsewhere, tunnelVars, Waiting
<1>2. CASE ClientTalks
  BY <1>2, LinkGrows DEF ClientTalks, Waiting
<1>3. CASE UpstreamTalks
  BY <1>3, LinkGrows DEF UpstreamTalks, Waiting
<1>4. CASE ConnectDropsEarly
  BY <1>4 DEF ConnectDropsEarly, ReadConnect, Link
<1>5. CASE ReadEarly
  BY <1>5 DEF ReadEarly, ReadRequest, Link
<1>6. CASE PassEarly
  BY <1>6 DEF PassEarly, RequestBodyDone, Passed, Link
<1>7. CASE ForwardSwitch
  BY <1>7 DEF ForwardSwitch, ForwardAnswer, Passed, Link
<1>8. CASE CopyUp
  BY <1>8, LinkCopies, LinkEnds DEF CopyUp, Waiting
<1>9. CASE CopyDown
  BY <1>9, LinkCopies, LinkEnds DEF CopyDown, Waiting
<1>10. CASE CopyReturns \/ CopyFails
  BY <1>10 DEF CopyReturns, CopyFails, Waiting
<1> QED BY <1>1, <1>2, <1>3, <1>4, <1>5, <1>6, <1>7, <1>8, <1>9, <1>10, ByLinks

LEMMA KeptStep ==
  ExchangeInv /\ TunnelInv /\ [ConnectionNext]_connectionVars => Kept'
<1> SUFFICES ASSUME ExchangeInv, LinksOK, Kept, [ConnectionNext]_connectionVars PROVE Kept'
  BY DEF TunnelInv
<1> USE DEF Kept, Upgrading, LinksOK, exchangeVars
<1>1. CASE Elsewhere
  BY <1>1 DEF Elsewhere, tunnelVars
<1>2. CASE ClientTalks
  BY <1>2, LinkGrows DEF ClientTalks
<1>3. CASE UpstreamTalks
  BY <1>3 DEF UpstreamTalks
<1>4. CASE ConnectDropsEarly
  BY <1>4 DEF ConnectDropsEarly, ReadConnect, ExchangeInv, BeforeRequest
<1>5. CASE ReadEarly
  <2>1. request'.kind = "upgrade" /\ request'.length = 0 => clientSent' = request'.length
    BY <1>5 DEF ReadEarly, ReadRequest
  <2> QED BY <1>5, <2>1 DEF ReadEarly, Link
<1>6. CASE PassEarly
  BY <1>6 DEF PassEarly, RequestBodyDone, Passed, Link
<1>7. CASE ForwardSwitch
  BY <1>7 DEF ForwardSwitch, ForwardAnswer
<1>8. CASE CopyUp
  BY <1>8, LinkCopies, LinkEnds DEF CopyUp
<1>9. CASE CopyDown
  BY <1>9 DEF CopyDown
<1>10. CASE CopyReturns \/ CopyFails
  BY <1>10 DEF CopyReturns, CopyFails, TunnelEnds
<1> QED BY <1>1, <1>2, <1>3, <1>4, <1>5, <1>6, <1>7, <1>8, <1>9, <1>10, ByLinks

LEMMA CountedStep == TunnelInv /\ [ConnectionNext]_connectionVars => Counted'
<1> SUFFICES ASSUME Counted, [ConnectionNext]_connectionVars PROVE Counted'
  BY DEF TunnelInv
<1>1. CASE CopyReturns
  BY <1>1 DEF CopyReturns, TunnelEnds, End, Counted
<1>2. CASE CopyFails
  BY <1>2 DEF CopyFails, TunnelEnds, End, Counted
<1>3. CASE ~CopyReturns /\ ~CopyFails
  <2>1. UNCHANGED sizes
    BY <1>3, ByLinks DEF Elsewhere, tunnelVars, ClientTalks, UpstreamTalks,
       ConnectDropsEarly, ReadEarly, PassEarly, ForwardSwitch, CopyUp, CopyDown
  <2>2. CASE pc = "ended"
    <3>1. UNCHANGED <<uplink, downlink>>
      BY <1>3, <2>2, ByLinks DEF Elsewhere, tunnelVars, ClientTalks, UpstreamTalks,
         ConnectDropsEarly, ReadConnect, ReadEarly, ReadRequest, PassEarly, RequestBodyDone,
         ForwardSwitch, ForwardAnswer, CopyUp, CopyDown
    <3>2. pc' = "ended" /\ entry' = entry
      BY <2>2, ConnectionSteps, StaysEnded
    <3> QED BY <2>1, <3>1, <3>2 DEF Counted
  <2>3. CASE pc # "ended"
    BY <2>1, <2>3 DEF Counted
  <2> QED BY <2>2, <2>3
<1> QED BY <1>1, <1>2, <1>3

\* The inductive invariant of a tunnel.
THEOREM ConnectionTunnel == ConnectionSpec => []TunnelInv
<1>1. ExchangeInv /\ TunnelInv /\ [ConnectionNext]_connectionVars => TunnelInv'
  BY LinksStep, OverStep, KeptStep, CountedStep DEF TunnelInv
<1> QED BY <1>1, TunnelInvInit, ExchangeInvariant, PTL DEF ConnectionSpec

\* The counts of both directions stay within their bounds.
THEOREM ConnectionTypeCorrect == ConnectionSpec => []ConnectionTypeOK
<1>1. TunnelInv => ConnectionTypeOK
  BY DEF TunnelInv, LinksOK, LinkOK, ConnectionTypeOK
<1> QED BY <1>1, ConnectionTunnel, PTL

\* A tunnel without an error was whole, however many pieces went through it.
THEOREM ConnectionTunnelIsWhole == ConnectionSpec => []TunnelIsWhole
<1>1. TunnelInv => TunnelIsWhole
  <2> SUFFICES ASSUME TunnelInv, entry # None, ~entry.error, sizes # None
               PROVE  /\ clientClosed /\ upClosed
                      /\ ~Waiting(uplink) /\ ~Waiting(downlink)
                      /\ sizes = <<uplink.sent - uplink.lost, downlink.sent>>
                      /\ Upgrading /\ request.length = 0 => uplink.lost = 0
    BY DEF TunnelIsWhole
  <2>1. uplink.done /\ downlink.done /\ sizes = <<uplink.passed, downlink.passed>>
    BY DEF TunnelInv, Counted
  <2>2. clientClosed /\ upClosed /\ ~Waiting(uplink) /\ ~Waiting(downlink)
    BY <2>1 DEF TunnelInv, Over
  <2>3. uplink.passed = uplink.sent - uplink.lost
    BY <2>2 DEF TunnelInv, LinksOK, LinkOK, Links, Waiting
  <2>4. downlink.passed = downlink.sent
    BY <2>2 DEF TunnelInv, LinksOK, LinkOK, Links, Waiting
  <2>5. Upgrading /\ request.length = 0 => uplink.lost = 0
    BY DEF TunnelInv, Kept
  <2> QED BY <2>1, <2>2, <2>3, <2>4, <2>5
<1> QED BY <1>1, ConnectionTunnel, PTL

=============================================================================
