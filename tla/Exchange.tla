------------------------------- MODULE Exchange -------------------------------
(***************************************************************************)
(* One client connection of the proxy: handle_client, handle_connect,      *)
(* tunnel_connect and try_http_exchange of src/proxy/server.rs between a    *)
(* client and an upstream server that send, stall and close when they like. *)
(* A body is a number of pieces (how a piece is copied and captured is the  *)
(* subject of BodyRelay); writing to a peer that has closed may fail.       *)
(* Connection adds what goes through a tunnel, and the fairness.            *)
(***************************************************************************)
EXTENDS Naturals

CONSTANTS
  MaxBody,  \* bound on the pieces of a body
  None,     \* Option::None
  Close     \* the length of a response without Content-Length

\* What parse_request leaves to tell requests apart: "https" stands for a target
\* that connect_upstream refuses unless it comes through an inspected tunnel;
\* `waits' for a client that sends its body after an answer (Expect).
Requests ==
  [kind : {"plain", "chunked", "upgrade", "https"}, length : 0 .. MaxBody,
   waits : BOOLEAN]

\* A "bodiless" answer announces a length and has no body (to HEAD, or 304).
Answers ==
  [kind : {"full"}, length : 0 .. MaxBody \cup {Close}]
    \cup [kind : {"bodiless"}, length : 1 .. MaxBody]
    \cup [kind : {"switch"}, length : {Close}]
    \cup [kind : {"garbage"}, length : {0}]

Statuses == {"none", "200 CONNECT", "501", "502", "full", "bodiless", "switch"}

Entries == [method : {"CONNECT", "http"}, status : Statuses, error : BOOLEAN]

ASSUME ExchangeAssumption ==
  /\ MaxBody \in Nat /\ Close \notin Nat
  /\ None \notin Requests \cup Answers \cup Entries

VARIABLES
  inspect,       \* tls_decryption, hence an authority (prepare_authority)
  pc,            \* where handle_client and what it calls stand
  request,       \* the request in hand, in the clear or inside the tunnel
  clientSent,    \* pieces of its body that the client has sent
  clientClosed,
  established,   \* "200 Connection Established" went to the client
  connected,     \* there is a connection to the upstream server
  asked,         \* the request's header was written to it
  passed,        \* and this much of the body
  answer,        \* the upstream server's response
  upSent,        \* pieces of its body that were sent
  upClosed,
  head,          \* the kind of the upstream header written to the client
  given,         \* pieces of the response written to the client
  own,           \* the proxy's own response, written after all that
  entry          \* what record_entry was given

clientVars == <<clientSent, clientClosed>>
upVars == <<answer, upSent, upClosed>>
requestWire == <<connected, asked, passed>>
responseWire == <<established, head, given, own>>
exchangeVars == <<inspect, pc, request, clientVars, upVars, requestWire,
                  responseWire, entry>>

Entry(method, status, error) == [method |-> method, status |-> status, error |-> error]

ControlTypeOK ==
  /\ inspect \in BOOLEAN
  /\ pc \in {"header", "connect", "tls", "inner", "exchange", "ask", "body",
             "await", "relay", "tunnel", "fail", "ended"}
  /\ request \in Requests \cup {None}
  /\ clientClosed \in BOOLEAN
  /\ established \in BOOLEAN /\ connected \in BOOLEAN /\ asked \in BOOLEAN
  /\ answer \in Answers \cup {None} /\ upClosed \in BOOLEAN
  /\ head \in Statuses
  /\ own \in {"none", "400", "501", "502"}
  /\ entry \in Entries \cup {None}

\* A piece is forwarded after it was sent, and after the header.
CountTypeOK ==
  /\ clientSent \in 0 .. MaxBody /\ passed \in 0 .. clientSent
  /\ pc \in {"header", "connect", "tls", "inner", "exchange", "ask"} => passed = 0
  /\ upSent \in 0 .. MaxBody /\ given \in 0 .. upSent

ExchangeTypeOK == ControlTypeOK /\ CountTypeOK

ExchangeInit ==
  /\ inspect \in BOOLEAN
  /\ pc = "header" /\ request = None
  /\ clientSent = 0 /\ clientClosed = FALSE
  /\ established = FALSE /\ connected = FALSE /\ asked = FALSE /\ passed = 0
  /\ answer = None /\ upSent = 0 /\ upClosed = FALSE
  /\ head = "none" /\ given = 0 /\ own = "none" /\ entry = None

-----------------------------------------------------------------------------
(* The client and the upstream server.                                     *)

\* The response's header announces more than n pieces, or does not say.
Announced(n) == IF answer.length = Close THEN TRUE ELSE n < answer.length

\* A client that waits for an answer sends its body once it has one.
ClientSends ==
  /\ request # None /\ ~clientClosed /\ clientSent < request.length
  /\ request.waits => head # "none" \/ own # "none"
  /\ clientSent' = clientSent + 1
  /\ UNCHANGED <<inspect, pc, request, clientClosed, upVars, requestWire,
                 responseWire, entry>>

ClientCloses ==
  /\ ~clientClosed /\ clientClosed' = TRUE
  /\ UNCHANGED <<inspect, pc, request, clientSent, upVars, requestWire,
                 responseWire, entry>>

\* It may answer before it has the whole request.
UpstreamAnswers ==
  /\ asked /\ ~upClosed /\ answer = None
  /\ answer' \in Answers
  /\ answer'.kind = "switch" => request.kind = "upgrade"
  /\ UNCHANGED <<inspect, pc, request, clientVars, upSent, upClosed,
                 requestWire, responseWire, entry>>

UpstreamSends ==
  /\ answer # None /\ ~upClosed /\ upSent < MaxBody
  /\ answer.kind = "full" /\ Announced(upSent)
  /\ upSent' = upSent + 1
  /\ UNCHANGED <<inspect, pc, request, clientVars, answer, upClosed,
                 requestWire, responseWire, entry>>

UpstreamCloses ==
  /\ connected /\ ~upClosed /\ upClosed' = TRUE
  /\ UNCHANGED <<inspect, pc, request, clientVars, answer, upSent,
                 requestWire, responseWire, entry>>

World == ClientSends \/ ClientCloses \/ UpstreamAnswers \/ UpstreamSends \/ UpstreamCloses

-----------------------------------------------------------------------------
(* Reading a request.                                                      *)

\* The task is over, with the entry e for record_entry or with None.
End(e) == pc' = "ended" /\ entry' = e

\* write_simple_response.
Respond(status) == own' = status /\ UNCHANGED <<established, head, given>>

\* The response cannot be written: the client has gone.
ClientLost == clientClosed /\ UNCHANGED responseWire

\* The stream ends or fails before a header, or the header is too large.
NoHeader ==
  /\ pc = "header" /\ End(None)
  /\ UNCHANGED <<inspect, request, clientVars, upVars, requestWire, responseWire>>

\* A header that parse_request, or ConnectTarget::parse, rejects.
BadHeader ==
  /\ pc \in {"header", "inner"} /\ End(None)
  /\ Respond("400") \/ ClientLost
  /\ UNCHANGED <<inspect, request, clientVars, upVars, requestWire>>

\* The first pieces of the body may come with the header.
ReadRequest ==
  /\ pc \in {"header", "inner"}
  /\ request' \in Requests
  /\ clientSent' \in 0 .. (IF request'.waits THEN 0 ELSE request'.length)
  /\ pc' = "exchange"
  /\ UNCHANGED <<inspect, clientClosed, upVars, requestWire, responseWire, entry>>

ReadConnect ==
  /\ pc = "header"
  /\ pc' = "connect"
  /\ UNCHANGED <<inspect, request, clientVars, upVars, requestWire,
                 responseWire, entry>>

-----------------------------------------------------------------------------
(* handle_connect and tunnel_connect.                                      *)

\* Without inspection: the upstream server cannot be reached.
TunnelRefused ==
  /\ pc = "connect" /\ ~inspect
  /\ Respond("502") \/ ClientLost
  /\ End(Entry("CONNECT", "502", TRUE))
  /\ UNCHANGED <<inspect, request, clientVars, upVars, requestWire>>

TunnelOpens ==
  /\ pc = "connect" /\ ~inspect
  /\ connected' = TRUE
  /\ \/ established' = TRUE /\ pc' = "tunnel" /\ UNCHANGED <<head, given, own, entry>>
     \/ ClientLost /\ End(Entry("CONNECT", "502", TRUE))
  /\ UNCHANGED <<inspect, request, clientVars, upVars, asked, passed>>

\* With inspection: leaf_for_host fails; a lost response leaves no entry.
LeafFails ==
  /\ pc = "connect" /\ inspect
  /\ \/ Respond("502") /\ End(Entry("CONNECT", "502", TRUE))
     \/ ClientLost /\ End(None)
  /\ UNCHANGED <<inspect, request, clientVars, upVars, requestWire>>

Acknowledge ==
  /\ pc = "connect" /\ inspect
  /\ \/ established' = TRUE /\ pc' = "tls" /\ UNCHANGED <<head, given, own, entry>>
     \/ ClientLost /\ End(None)
  /\ UNCHANGED <<inspect, request, clientVars, upVars, requestWire>>

\* accept_client_tls: refused by the client, HTTP/1.1, or HTTP/2, whose streams
\* are other tasks with entries of their own.
AcceptTls ==
  /\ pc = "tls"
  /\ \/ End(Entry("CONNECT", "502", TRUE))
     \/ pc' = "inner" /\ UNCHANGED entry
     \/ End(None)
  /\ UNCHANGED <<inspect, request, clientVars, upVars, requestWire, responseWire>>

\* The stream ends or is reset, or fails in another way, which leaves no entry.
NoInnerHeader ==
  /\ pc = "inner"
  /\ (clientClosed /\ End(Entry("CONNECT", "200 CONNECT", TRUE))) \/ End(None)
  /\ UNCHANGED <<inspect, request, clientVars, upVars, requestWire, responseWire>>

-----------------------------------------------------------------------------
(* try_http_exchange.                                                      *)

Goes(to) == pc' = to /\ UNCHANGED entry

RefuseChunked ==
  /\ pc = "exchange" /\ request.kind = "chunked"
  /\ \/ Respond("501") /\ End(Entry("http", "501", TRUE))
     \/ ClientLost /\ Goes("fail")
  /\ UNCHANGED <<inspect, request, clientVars, upVars, requestWire>>

\* connect_upstream: the target, the connection or its TLS may be refused.
ConnectUpstream ==
  /\ pc = "exchange" /\ request.kind # "chunked"
  /\ \/ /\ request.kind # "https" \/ established
        /\ connected' = TRUE /\ Goes("ask")
     \/ Goes("fail") /\ UNCHANGED connected
  /\ UNCHANGED <<inspect, request, clientVars, upVars, asked, passed, responseWire>>

SendHeader ==
  /\ pc = "ask"
  /\ \/ asked' = TRUE /\ Goes("body")
     \/ upClosed /\ Goes("fail") /\ UNCHANGED asked
  /\ UNCHANGED <<inspect, request, clientVars, upVars, connected, passed, responseWire>>

\* forward_known_body; the upstream server's answer is not read meanwhile.
ForwardRequestBody ==
  /\ pc = "body" /\ passed < request.length /\ passed < clientSent
  /\ \/ passed' = passed + 1 /\ UNCHANGED <<pc, entry>>
     \/ upClosed /\ Goes("fail") /\ UNCHANGED passed
  /\ UNCHANGED <<inspect, request, clientVars, upVars, connected, asked, responseWire>>

\* Mutant: a body that the client cuts short is taken for a whole one.
RequestBodyCutQuietly ==
  /\ pc = "body" /\ passed < request.length /\ clientClosed
  /\ Goes("await")
  /\ UNCHANGED <<inspect, request, clientVars, upVars, requestWire, responseWire>>

\* read() yields 0, or fails: a reset connection may lose what was sent.
RequestBodyCut ==
  /\ pc = "body" /\ passed < request.length /\ clientClosed
  /\ Goes("fail")
  /\ UNCHANGED <<inspect, request, clientVars, upVars, requestWire, responseWire>>

\* Mutant: the answer is read as soon as there is one.
RequestBodyDoneEarly ==
  /\ pc = "body" /\ (passed = request.length \/ answer # None)
  /\ Goes("await")
  /\ UNCHANGED <<inspect, request, clientVars, upVars, requestWire, responseWire>>

RequestBodyDone ==
  /\ pc = "body" /\ passed = request.length
  /\ Goes("await") \/ (upClosed /\ Goes("fail"))
  /\ UNCHANGED <<inspect, request, clientVars, upVars, requestWire, responseWire>>

\* read_header_block and parse_response, then the header goes to the client; what
\* is written behind the header of a switch, or the flush, may fail.
ForwardAnswer ==
  /\ pc = "await" /\ answer # None
  /\ \/ /\ answer.kind # "garbage"
        /\ head' = answer.kind /\ UNCHANGED <<established, given, own>>
        /\ IF answer.kind = "switch" THEN Goes("tunnel") \/ (clientClosed /\ Goes("fail"))
           ELSE Goes("relay")
     \/ answer.kind = "garbage" /\ Goes("fail") /\ UNCHANGED responseWire
     \/ ClientLost /\ Goes("fail")
  /\ UNCHANGED <<inspect, request, clientVars, upVars, requestWire>>

\* Mutant: an upstream server that closes without an answer goes unnoticed as
\* long as the client is there.
UpstreamSilentUnnoticed ==
  /\ pc = "await" /\ upClosed /\ clientClosed
  /\ Goes("fail")
  /\ UNCHANGED <<inspect, request, clientVars, upVars, requestWire, responseWire>>

\* Mutant: an upstream server that closes without an answer ends the task at once,
\* with an entry and without a word to the client.
UpstreamSilentUntold ==
  /\ pc = "await" /\ upClosed
  /\ End(Entry("http", "none", TRUE))
  /\ UNCHANGED <<inspect, request, clientVars, upVars, requestWire, responseWire>>

\* Closed without a response, or reset before it was read.
UpstreamSilent ==
  /\ pc = "await" /\ upClosed
  /\ Goes("fail")
  /\ UNCHANGED <<inspect, request, clientVars, upVars, requestWire, responseWire>>

\* forward_response_body wants what the header announced.
WantsMore == Announced(given)

ForwardResponseBody ==
  /\ pc = "relay" /\ WantsMore /\ given < upSent
  /\ \/ given' = given + 1 /\ UNCHANGED <<established, head, own, pc, entry>>
     \/ ClientLost /\ Goes("fail")
  /\ UNCHANGED <<inspect, request, clientVars, upVars, requestWire>>

\* Closed before all that was announced, or reset.
ResponseBodyCut ==
  /\ pc = "relay" /\ WantsMore /\ upClosed
  /\ Goes("fail")
  /\ UNCHANGED <<inspect, request, clientVars, upVars, requestWire, responseWire>>

\* The whole response was written; flush may still fail.
ResponseBodyDone ==
  /\ pc = "relay"
  /\ IF answer.length = Close THEN upClosed /\ given = upSent ELSE given = answer.length
  /\ End(Entry("http", head, FALSE)) \/ (clientClosed /\ Goes("fail"))
  /\ UNCHANGED <<inspect, request, clientVars, upVars, requestWire, responseWire>>

\* copy_bidirectional: both sides closed in good order, or one of them failed.
TunnelEnds ==
  /\ pc = "tunnel" /\ (clientClosed \/ upClosed)
  /\ \E error \in BOOLEAN :
       /\ ~error => clientClosed /\ upClosed
       /\ End(IF head = "switch" THEN Entry("http", head, error)
              ELSE Entry("CONNECT", "200 CONNECT", error))
  /\ UNCHANGED <<inspect, request, clientVars, upVars, requestWire, responseWire>>

\* Mutant: a failed exchange is only logged.
FailUnrecorded ==
  /\ pc = "fail"
  /\ Respond("502") /\ End(None)
  /\ UNCHANGED <<inspect, request, clientVars, upVars, requestWire>>

\* handle_http_exchange's Err branch: a response of the proxy's own, whatever
\* was written before, and an entry without a status.
Fail ==
  /\ pc = "fail"
  /\ Respond("502") \/ ClientLost
  /\ End(Entry("http", "none", TRUE))
  /\ UNCHANGED <<inspect, request, clientVars, upVars, requestWire>>

-----------------------------------------------------------------------------
Read == NoHeader \/ BadHeader \/ ReadRequest \/ ReadConnect \/ AcceptTls \/ NoInnerHeader
Connect == TunnelRefused \/ TunnelOpens \/ LeafFails \/ Acknowledge
HandleRequest ==
  \/ RefuseChunked \/ ConnectUpstream \/ SendHeader
  \/ ForwardRequestBody \/ RequestBodyCut \/ RequestBodyDone
HandleResponse ==
  \/ ForwardAnswer \/ UpstreamSilent
  \/ ForwardResponseBody \/ ResponseBodyCut \/ ResponseBodyDone
  \/ TunnelEnds \/ Fail

ExchangeNext == World \/ Read \/ Connect \/ HandleRequest \/ HandleResponse

-----------------------------------------------------------------------------
(* Properties.                                                             *)

\* An entry without an error shows what was on the wire: the whole request went
\* to the upstream server, its whole response to the client, nothing else did,
\* and the recorded status is that of the header the client saw.
EntryTellsWire ==
  entry # None /\ ~entry.error =>
    IF entry.method = "CONNECT" THEN established /\ connected /\ request = None
    ELSE /\ own = "none" /\ entry.status = head /\ head # "none"
         /\ passed = request.length
         /\ head \in {"full", "bodiless"} =>
              IF answer.length = Close THEN upClosed /\ given = upSent
              ELSE given = answer.length

\* No traffic passes unseen: a task that has reached an upstream server for its
\* client leaves an entry, however the exchange ends.
NothingPassesUnseen == pc = "ended" /\ connected => entry # None

\* A failure that can still be told is told. A client that is there when its task
\* ends and never saw the upstream server's header has the proxy's own error, alone on
\* the wire, so that it reads it as the response; and an exchange that was not whole
\* is an error to the user, also where the proxy's words came inside a response that
\* had begun: those tell the client nothing, it may read them as more of the body
\* (server.rs 401-427, 438-447).
FailureIsTold ==
  pc = "ended" /\ request # None /\ ~clientClosed =>
    /\ head = "none" => own \in {"501", "502"} /\ given = 0
    /\ entry # None
    /\ head = "none" \/ own # "none" => entry.error

\* The order on the client's side: the upstream header follows the whole request,
\* nothing of the upstream server follows the proxy's own response, and that one
\* follows a forwarded header only when the response was not complete or the
\* client had gone.
ResponseOrder ==
  [][/\ head' # head => passed = request.length /\ own = "none"
     /\ given' # given => own = "none"
     /\ own' # own /\ head # "none" => WantsMore \/ clientClosed]_exchangeVars

\* A request that does not wait for an interim answer is settled although the
\* client never closes; tunnels last as long as their ends.
ExchangeEnds ==
  (request # None /\ ~request.waits /\ request.kind # "upgrade") ~> (pc = "ended")

\* "capture the traffic that process sends through the proxy, and show requests,
\* responses" (user guide): a response without a body, forwarded as it was sent,
\* is shown with its status.
CompleteResponseIsShown ==
  pc = "ended" /\ head = "bodiless" /\ ~clientClosed => entry.status = head
=============================================================================
