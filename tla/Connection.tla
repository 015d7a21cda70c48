----------------------------- MODULE Connection ------------------------------
(***************************************************************************)
(* A connection with what Exchange leaves out: the bytes that go through a  *)
(* tunnel, after CONNECT without inspection or after an accepted upgrade.   *)
(* copy_bidirectional belongs to tokio: each direction reads until the end  *)
(* and then shuts the other side's writing half down, and both go on until  *)
(* both are done or one fails. The pieces that a side sends are numbered,   *)
(* and each direction drops some of the first and passes the rest in order. *)
(***************************************************************************)
EXTENDS Exchange

CONSTANT MaxTunnel   \* bound on the pieces that a side sends through a tunnel

ASSUME ConnectionAssumption == MaxTunnel \in Nat

VARIABLES
  uplink,    \* the direction from the client to the upstream server
  downlink,  \* and back
  sizes      \* what the entry says has come from the client and from upstream

tunnelVars == <<uplink, downlink, sizes>>
connectionVars == <<exchangeVars, tunnelVars>>

\* What the sender sent, what was read with a header and dropped, what was read with
\* a header and written on, what was written on in all, and whether it is over.
Links == [sent : 0 .. MaxTunnel, lost : 0 .. MaxTunnel, first : 0 .. MaxTunnel,
          passed : 0 .. MaxTunnel, done : BOOLEAN]
Link(sent, lost, first, forwarded) ==
  [sent |-> sent, lost |-> lost, first |-> first, passed |-> forwarded, done |-> FALSE]

ConnectionInit ==
  /\ ExchangeInit
  /\ uplink = Link(0, 0, 0, 0) /\ downlink = Link(0, 0, 0, 0) /\ sizes = None

Waiting(link) == link.lost + link.passed < link.sent
Passed(link, n) == Link(link.sent, link.lost, n, n)

-----------------------------------------------------------------------------
(* The two sides.                                                          *)

Upgrading == request # None /\ request.kind = "upgrade"
Tunnelled == Upgrading \/ (~inspect /\ pc \in {"connect", "tunnel"})

\* The client may talk before it has the answer to CONNECT or to its upgrade.
ClientTalks ==
  /\ Tunnelled /\ pc # "ended" /\ ~clientClosed
  /\ Upgrading => clientSent = request.length
  /\ uplink.sent < MaxTunnel
  /\ uplink' = [uplink EXCEPT !.sent = @ + 1]
  /\ UNCHANGED <<exchangeVars, downlink, sizes>>

UpstreamTalks ==
  /\ connected /\ pc # "ended" /\ ~upClosed
  /\ request # None => answer # None /\ answer.kind = "switch"
  /\ downlink.sent < MaxTunnel
  /\ downlink' = [downlink EXCEPT !.sent = @ + 1]
  /\ UNCHANGED <<exchangeVars, uplink, sizes>>

-----------------------------------------------------------------------------
(* Around the header.                                                      *)

\* handle_connect is not given what was read behind the header of CONNECT.
ConnectDropsEarly ==
  /\ ReadConnect
  /\ \E n \in 0 .. MaxTunnel : uplink' = Link(n, n, 0, 0)
  /\ UNCHANGED <<downlink, sizes>>

\* The first message of a TLS handshake is not complete without its beginning.
InspectTls ==
  /\ AcceptTls
  /\ uplink.lost > 0 => entry' # None
  /\ UNCHANGED tunnelVars

\* Behind the header of an upgrade: forward_known_body takes no more than the body.
ReadEarly ==
  /\ ReadRequest
  /\ IF request'.kind = "upgrade" /\ clientSent' = request'.length
     THEN \E n \in 0 .. MaxTunnel :
            uplink' = IF request'.length = 0 THEN Link(n, 0, n, 0) ELSE Link(n, n, 0, 0)
     ELSE uplink' = Link(0, 0, 0, 0)
  /\ UNCHANGED <<downlink, sizes>>

\* The early pieces go in the place of a body.
PassEarly ==
  /\ RequestBodyDone
  /\ \/ uplink' = Passed(uplink, uplink.first)
     \/ pc' = "fail" /\ UNCHANGED uplink
  /\ UNCHANGED <<downlink, sizes>>

\* What was read behind the header of the answer is a part of what was sent.
ForwardSwitch ==
  /\ ForwardAnswer
  /\ IF pc' = "tunnel" THEN \E n \in 0 .. downlink.sent : downlink' = Passed(downlink, n)
     ELSE UNCHANGED downlink
  /\ UNCHANGED <<uplink, sizes>>

-----------------------------------------------------------------------------
(* copy_bidirectional.                                                     *)

CopyUp ==
  /\ pc = "tunnel" /\ ~uplink.done
  /\ \/ /\ Waiting(uplink)
        /\ uplink' = [uplink EXCEPT !.passed = @ + 1]
     \/ /\ ~Waiting(uplink) /\ clientClosed
        /\ uplink' = [uplink EXCEPT !.done = TRUE]
  /\ UNCHANGED <<exchangeVars, downlink, sizes>>

\* Mutant: the end of the upstream server is passed on after that of the client.
CopyDownInTurn ==
  /\ pc = "tunnel" /\ ~downlink.done
  /\ \/ /\ Waiting(downlink)
        /\ downlink' = [downlink EXCEPT !.passed = @ + 1]
     \/ /\ ~Waiting(downlink) /\ upClosed /\ uplink.done
        /\ downlink' = [downlink EXCEPT !.done = TRUE]
  /\ UNCHANGED <<exchangeVars, uplink, sizes>>

CopyDown ==
  /\ pc = "tunnel" /\ ~downlink.done
  /\ \/ /\ Waiting(downlink)
        /\ downlink' = [downlink EXCEPT !.passed = @ + 1]
     \/ /\ ~Waiting(downlink) /\ upClosed
        /\ downlink' = [downlink EXCEPT !.done = TRUE]
  /\ UNCHANGED <<exchangeVars, uplink, sizes>>

\* Mutant: the tunnel ends with the direction that ends first.
CopyReturnsMutantEither ==
  /\ TunnelEnds
  /\ uplink.done \/ downlink.done
  /\ ~entry'.error
  /\ sizes' = <<uplink.passed, downlink.passed>>
  /\ UNCHANGED <<uplink, downlink>>

\* Both directions are done.
CopyReturns ==
  /\ TunnelEnds
  /\ uplink.done /\ downlink.done /\ ~entry'.error
  /\ sizes' = <<uplink.passed, downlink.passed>>
  /\ UNCHANGED <<uplink, downlink>>

\* A side has reset the connection: what was copied is not counted, what came with
\* the headers is.
CopyFails ==
  /\ TunnelEnds
  /\ ~(uplink.done /\ downlink.done) /\ entry'.error
  /\ sizes' = <<uplink.first, downlink.first>>
  /\ UNCHANGED <<uplink, downlink>>

-----------------------------------------------------------------------------
Sides == ClientTalks \/ UpstreamTalks

Headers == ConnectDropsEarly \/ InspectTls \/ ReadEarly

\* The steps of try_http_exchange that are not about a tunnel.
Relay ==
  \/ RefuseChunked \/ ConnectUpstream \/ SendHeader
  \/ ForwardRequestBody \/ RequestBodyCut
  \/ UpstreamSilent \/ ForwardResponseBody \/ ResponseBodyCut \/ ResponseBodyDone
  \/ Fail

Handle == (Relay /\ UNCHANGED tunnelVars) \/ PassEarly \/ ForwardSwitch
Copy == CopyUp \/ CopyDown \/ CopyReturns

ConnectionNext ==
  \/ Sides \/ Headers \/ Handle \/ Copy \/ CopyFails
  \/ (World \/ NoHeader \/ BadHeader \/ NoInnerHeader \/ Connect) /\ UNCHANGED tunnelVars

\* A task that can move is run; a client sends the request that it has begun, and
\* a server closes a connection that it was asked to close (build_upstream_header
\* always sends Connection: close), but a side of a tunnel when it likes. Neither
\* has to answer in time: the code has no timeout.
ConnectionFairness ==
  /\ WF_connectionVars(Handle)
  /\ WF_connectionVars(CopyUp) /\ WF_connectionVars(CopyDown)
  /\ WF_connectionVars(CopyReturns)
  /\ WF_connectionVars(ClientSends /\ UNCHANGED tunnelVars)
  /\ WF_connectionVars(~Tunnelled /\ UpstreamCloses /\ UNCHANGED tunnelVars)

ConnectionSpec == ConnectionInit /\ [][ConnectionNext]_connectionVars /\ ConnectionFairness

-----------------------------------------------------------------------------
ConnectionTypeOK == uplink \in Links /\ downlink \in Links

\* A tunnel without an error was whole: both sides have ended, each got everything
\* that the other sent, and the entry counts it. Only what came along with the
\* header of CONNECT, or behind the body of an upgrade, is missing (server.rs
\* 148-149, 318-380, 474-499, 512-560).
TunnelIsWhole ==
  entry # None /\ ~entry.error /\ sizes # None =>
    /\ clientClosed /\ upClosed
    /\ ~Waiting(uplink) /\ ~Waiting(downlink)
    /\ sizes = <<uplink.sent - uplink.lost, downlink.sent>>
    /\ Upgrading /\ request.length = 0 => uplink.lost = 0

\* The end of one side of a tunnel reaches the other, which may go on sending for
\* as long as it likes, and with both ends the tunnel is recorded (the two calls
\* of copy_bidirectional in server.rs).
EndsArePassedOn ==
  /\ (pc = "tunnel" /\ clientClosed) ~> (uplink.done \/ pc = "ended")
  /\ (pc = "tunnel" /\ upClosed) ~> (downlink.done \/ pc = "ended")
  /\ (pc = "tunnel" /\ clientClosed /\ upClosed) ~> (pc = "ended")
=============================================================================
