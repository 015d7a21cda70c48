------------------------------- MODULE H2Stream -------------------------------
(***************************************************************************)
(* One HTTP/2 stream of the proxy: handle_h2_stream and try_h2_stream of    *)
(* src/proxy/h2.rs between a client and an upstream server that send, stall *)
(* and reset when they like. A body is a number of pieces, one for each     *)
(* chunk that data() returns (how a chunk is captured is the subject of     *)
(* BodyRelay); trailers end a body and are dropped.                         *)
(*                                                                         *)
(* Of the h2 library the model takes this: data() first returns what has    *)
(* arrived, then fails if the stream was reset, then is over if it has      *)
(* ended, and is_end_stream() is false of a stream that was reset; sending  *)
(* to a peer that has reset the stream fails from some time on, and what is *)
(* sent before is lost; a stream that is dropped before its end is reset.   *)
(***************************************************************************)
EXTENDS Naturals

CONSTANTS
  MaxPieces,  \* bound on the pieces of a body
  None        \* no entry yet, no header yet

\* What record_entry is given: the outcome and the pieces captured both ways.
Entries == [status : {"upstream", "502"}, error : BOOLEAN,
            request : 0 .. MaxPieces, response : 0 .. MaxPieces]

ASSUME H2Assumption ==
  MaxPieces \in Nat /\ None \notin {"upstream", "502"} /\ None \notin Entries

VARIABLES
  pc,            \* "connect", "request", "await", "response", "ended"
  asked,         \* the request as the client sends it: [sent, ended]
  passed,        \* and as it is passed to the upstream server
  answered,      \* the upstream server's response has begun
  answer,        \* and this is sent of it
  head,          \* the status of the header that went to the client
  given,         \* and the body after it
  clientGone,    \* the client has reset the stream
  upstreamGone,  \* the upstream server has
  entry          \* what record_entry is given

peerVars == <<asked, answered, answer, clientGone, upstreamGone>>
proxyVars == <<pc, passed, head, given, entry>>
h2Vars == <<peerVars, proxyVars>>

Halves == [sent : 0 .. MaxPieces, ended : BOOLEAN]
Idle == [sent |-> 0, ended |-> FALSE]
More(half) == [half EXCEPT !.sent = @ + 1]
Ended(half) == [half EXCEPT !.ended = TRUE]

H2Init ==
  /\ pc = "connect"
  /\ asked = Idle /\ passed = Idle /\ answer = Idle /\ given = Idle
  /\ answered = FALSE /\ head = None /\ entry = None
  /\ clientGone = FALSE /\ upstreamGone = FALSE

-----------------------------------------------------------------------------
(* The two peers. A stream that is over on both sides is not reset any more. *)

ClientSends ==
  /\ ~clientGone /\ ~asked.ended
  /\ \/ asked.sent < MaxPieces /\ asked' = More(asked)
     \/ asked' = Ended(asked)
  /\ UNCHANGED <<answered, answer, clientGone, upstreamGone, proxyVars>>

ClientResets ==
  /\ ~clientGone /\ ~(asked.ended /\ given.ended)
  /\ clientGone' = TRUE
  /\ UNCHANGED <<asked, answered, answer, upstreamGone, proxyVars>>

\* The server may answer as soon as it has the header of the request.
UpstreamAnswers ==
  /\ pc # "connect" /\ ~upstreamGone /\ ~answered
  /\ answered' = TRUE
  /\ UNCHANGED <<asked, answer, clientGone, upstreamGone, proxyVars>>

UpstreamSends ==
  /\ answered /\ ~upstreamGone /\ ~answer.ended
  /\ \/ answer.sent < MaxPieces /\ answer' = More(answer)
     \/ answer' = Ended(answer)
  /\ UNCHANGED <<asked, answered, clientGone, upstreamGone, proxyVars>>

UpstreamResets ==
  /\ pc # "connect" /\ ~upstreamGone /\ ~(answer.ended /\ passed.ended)
  /\ upstreamGone' = TRUE
  /\ UNCHANGED <<asked, answered, answer, clientGone, proxyVars>>

-----------------------------------------------------------------------------
(* The proxy's task.                                                         *)

\* The error path: the proxy's own response, unless one has begun; the stream is
\* dropped, and so is the one to the server.
Fail ==
  /\ pc' = "ended"
  /\ entry' = [status |-> "502", error |-> TRUE, request |-> 0, response |-> 0]
  /\ \/ /\ head = None
        /\ head' = "502" /\ given' = Ended(given)
     \/ /\ head # None \/ clientGone
        /\ UNCHANGED <<head, given>>
  /\ UNCHANGED <<peerVars, passed>>

Succeed ==
  /\ pc' = "ended"
  /\ entry' = [status |-> "upstream", error |-> FALSE,
               request |-> passed.sent, response |-> given'.sent]

\* TCP, TLS and HTTP/2 to the server, and the header of the request; the request
\* ends with it if nothing comes after it.
Connect ==
  /\ pc = "connect"
  /\ IF asked = Ended(Idle) /\ ~clientGone
       THEN pc' = "await" /\ passed' = Ended(passed)
       ELSE pc' = "request" /\ UNCHANGED passed
  /\ UNCHANGED <<peerVars, head, given, entry>>

ConnectFails == pc = "connect" /\ Fail

PassRequest ==
  /\ pc = "request" /\ passed.sent < asked.sent
  /\ passed' = More(passed)
  /\ UNCHANGED <<peerVars, pc, head, given, entry>>

\* A request that was reset is taken for one that has ended.
FinishRequestMutantReset ==
  /\ pc = "request" /\ passed.sent = asked.sent
  /\ asked.ended \/ clientGone
  /\ passed' = Ended(passed) /\ pc' = "await"
  /\ UNCHANGED <<peerVars, head, given, entry>>

FinishRequest ==
  /\ pc = "request" /\ passed.sent = asked.sent
  /\ asked.ended /\ ~clientGone
  /\ passed' = Ended(passed) /\ pc' = "await"
  /\ UNCHANGED <<peerVars, head, given, entry>>

\* An error of data() is passed over.
RequestFailsMutantWaits ==
  /\ pc = "request"
  /\ upstreamGone /\ (passed.sent < asked.sent \/ asked.ended)
  /\ Fail

\* The client's reset is met when its half is read to its end, the server's when
\* something is sent to it.
RequestFails ==
  /\ pc = "request"
  /\ \/ clientGone /\ passed.sent = asked.sent
     \/ upstreamGone /\ (passed.sent < asked.sent \/ asked.ended)
  /\ Fail

\* The response's header; the response ends with it if nothing comes after it.
ForwardHead ==
  /\ pc = "await" /\ answered
  /\ head' = "upstream"
  /\ IF answer = Ended(Idle) /\ ~upstreamGone
       THEN given' = Ended(given) /\ Succeed
       ELSE pc' = "response" /\ UNCHANGED <<given, entry>>
  /\ UNCHANGED <<peerVars, passed>>

AwaitFails ==
  /\ pc = "await"
  /\ \/ upstreamGone /\ ~answered
     \/ clientGone /\ answered
  /\ Fail

PassResponse ==
  /\ pc = "response" /\ given.sent < answer.sent
  /\ given' = More(given)
  /\ UNCHANGED <<peerVars, pc, passed, head, entry>>

FinishResponse ==
  /\ pc = "response" /\ given.sent = answer.sent
  /\ answer.ended /\ ~upstreamGone
  /\ given' = Ended(given) /\ Succeed
  /\ UNCHANGED <<peerVars, passed, head>>

\* The client's stream is ended, as after a whole response.
ResponseFailsMutantEnds ==
  /\ pc = "response"
  /\ \/ upstreamGone /\ given.sent = answer.sent
     \/ clientGone /\ (given.sent < answer.sent \/ answer.ended)
  /\ pc' = "ended"
  /\ entry' = [status |-> "502", error |-> TRUE, request |-> 0, response |-> 0]
  /\ given' = Ended(given)
  /\ UNCHANGED <<peerVars, passed, head>>

ResponseFails ==
  /\ pc = "response"
  /\ \/ upstreamGone /\ given.sent = answer.sent
     \/ clientGone /\ (given.sent < answer.sent \/ answer.ended)
  /\ Fail

-----------------------------------------------------------------------------
Peers == ClientSends \/ ClientResets \/ UpstreamAnswers \/ UpstreamSends \/ UpstreamResets

Task ==
  \/ Connect \/ ConnectFails
  \/ PassRequest \/ FinishRequest \/ RequestFails
  \/ ForwardHead \/ AwaitFails
  \/ PassResponse \/ FinishResponse \/ ResponseFails

H2Next == Peers \/ Task

\* tokio polls what is ready; nothing is assumed of the peers.
H2Spec == H2Init /\ [][H2Next]_h2Vars /\ WF_h2Vars(Task)

-----------------------------------------------------------------------------
H2TypeOK ==
  /\ pc \in {"connect", "request", "await", "response", "ended"}
  /\ {asked, passed, answer, given} \subseteq Halves
  /\ {answered, clientGone, upstreamGone} \subseteq BOOLEAN
  /\ head \in {None, "upstream", "502"}
  /\ entry \in Entries \cup {None}

\* Neither peer takes a body that was cut for a whole one: a half is ended only
\* when its sender ended it and all of it was passed on (h2.rs 105-137, 143-175).
CutIsNotTheEnd ==
  /\ passed.ended => asked.ended /\ passed.sent = asked.sent
  /\ head = "upstream" /\ given.ended => answer.ended /\ given.sent = answer.sent

\* The entry and the wire agree: without an error everything was passed on, both
\* ways; with one, the client did not get a whole response (h2.rs 55-72, 178-200).
H2EntryTellsWire ==
  entry # None =>
    /\ ~entry.error =>
         /\ passed.ended /\ entry.request = asked.sent
         /\ head = "upstream" /\ given.ended /\ entry.response = answer.sent
    /\ entry.error => ~(head = "upstream" /\ given.ended)

\* Once each peer has ended or reset its half, the stream is recorded: no failure
\* leaves the task behind without an entry.
H2Settles ==
  (asked.ended \/ clientGone) /\ (answer.ended \/ upstreamGone) ~> entry # None
=============================================================================
