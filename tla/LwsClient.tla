----------------------------- MODULE LwsClient -----------------------------
(***************************************************************************)
(* One client connection of libwebsockets 1.23 (lib/client.c,               *)
(* client-handshake.c, libwebsockets.c) and the TCP connection and server   *)
(* behind it: what the library does to the connection between two returns  *)
(* to its caller.  The run loop that calls it is WsThread.tla.              *)
(*                                                                         *)
(* The context listens on no port, so that its poll table holds this one    *)
(* connection or nothing.  SSL is not compiled in, no proxy is set and no   *)
(* extension is negotiated (callback_func refuses each of them).            *)
(***************************************************************************)
EXTENDS Integers, Sequences

CONSTANTS MaxTurns,  \* bound: ProcessTurn messages the server sends
          MaxNoise   \* bound: other frames it sends

ASSUME BoundsAssumption == MaxTurns \in Nat /\ MaxNoise \in Nat

VARIABLES wsi,         \* wsi->mode, or "none" before and "freed" after its life
          fds,         \* the connection has an entry in context->fds
          pollout,     \* POLLOUT is set in that entry's events
          timer,       \* pending_timeout: "off", "armed", or "expired"
          was_closed,  \* WsThread::was_closed, set by the callbacks
          tcp,         \* state of the TCP connection
          inbound,     \* what the kernel has received and nobody has read
          server,      \* how far the server is in the protocol
          turns, noise \* messages the server has sent

lwsVars == <<wsi, fds, pollout, timer, was_closed>>
netVars == <<tcp, inbound, server, turns, noise>>

WAITING_CONNECT      == "WAITING_CONNECT"
WAITING_SERVER_REPLY == "WAITING_SERVER_REPLY"
ESTABLISHED          == "ESTABLISHED"

Live == {WAITING_CONNECT, WAITING_SERVER_REPLY, ESTABLISHED}

\* The server's answer to the handshake, whole or in two packets, and its frames.
Handshakes == {"HS_OK", "HS_BAD", "HS_HEAD", "HS_TAIL"}
Frames     == {"TURN", "OTHER", "PING", "CLOSE"}

LwsTypeOK ==
  /\ wsi \in Live \cup {"none", "freed"}
  /\ fds \in BOOLEAN /\ pollout \in BOOLEAN
  /\ timer \in {"off", "armed", "expired"}
  /\ was_closed \in BOOLEAN
  /\ tcp \in {"idle", "connecting", "refused", "up", "fin", "rst", "closed"}
  /\ inbound \in Seq(Handshakes \cup Frames)
  /\ server \in {"silent", "partial", "open", "done"}
  /\ turns \in 0 .. MaxTurns /\ noise \in 0 .. MaxNoise

LwsInit ==
  /\ wsi = "none" /\ fds = FALSE /\ pollout = FALSE /\ timer = "off"
  /\ was_closed = FALSE
  /\ tcp = "idle" /\ inbound = <<>> /\ server = "silent" /\ turns = 0 /\ noise = 0

---------------------------------------------------------------------------
(* Closing *)

\* The user hears of the end of a connection as CLIENT_CONNECTION_ERROR while it
\* is connecting and as CLOSED once it is established, not in between; either
\* callback sets was_closed.
Reported(mode) == mode \in {WAITING_CONNECT, ESTABLISHED}

\* The entry of the poll table stays.
close_and_free_session_StaleEntry(mode) ==
  /\ wsi' = "freed" /\ timer' = "off"
  /\ was_closed' = (was_closed \/ Reported(mode))
  /\ tcp' = "closed" /\ inbound' = <<>>
  /\ UNCHANGED <<fds, pollout, server, turns, noise>>

\* libwebsocket_close_and_free_session with LWS_CLOSE_STATUS_NOSTATUS.
close_and_free_session(mode) ==
  /\ wsi' = "freed" /\ fds' = FALSE /\ pollout' = FALSE /\ timer' = "off"
  /\ was_closed' = (was_closed \/ Reported(mode))
  /\ tcp' = "closed" /\ inbound' = <<>>
  /\ UNCHANGED <<server, turns, noise>>

---------------------------------------------------------------------------
(* Connecting *)

\* ISSUE_HANDSHAKE: the request is sent and the server's answer awaited ...
HandshakeSent ==
  /\ wsi' = WAITING_SERVER_REPLY /\ timer' = "armed"
  /\ UNCHANGED was_closed

\* ... or send() fails, which ends the connection; connect_2 then returns the
\* freed wsi as if it had succeeded.
HandshakeFailed == close_and_free_session(WAITING_CONNECT)

\* Without libwebsocket_set_timeout.
ConnectInProgress_NoTimeout ==
  /\ wsi' = WAITING_CONNECT /\ fds' = TRUE /\ pollout' = TRUE
  /\ tcp' = "connecting"
  /\ UNCHANGED <<timer, was_closed, inbound, server, turns, noise>>

\* libwebsocket_client_connect, as far as connect_2 gets in the first pass.
\* In progress: POLLOUT is armed and stays armed until the connection is
\* established and writeable.
ConnectInProgress ==
  /\ wsi' = WAITING_CONNECT /\ fds' = TRUE /\ pollout' = TRUE /\ timer' = "armed"
  /\ tcp' = "connecting"
  /\ UNCHANGED <<was_closed, inbound, server, turns, noise>>

ConnectAtOnce ==
  \/ /\ HandshakeSent
     /\ fds' = TRUE /\ tcp' = "up"
     /\ UNCHANGED <<pollout, inbound, server, turns, noise>>
  \/ HandshakeFailed

\* connect() fails at once, after the wsi went into the poll table ...
ConnectFailed == close_and_free_session(WAITING_CONNECT)

\* ... or the name is unknown, before it did: oom4.
ResolveFailed ==
  /\ wsi' = "freed"
  /\ UNCHANGED <<fds, pollout, timer, was_closed>> /\ UNCHANGED netVars

\* The second pass, when poll() reports the end of the connection attempt.
ConnectPass2Up ==
  /\ tcp \in {"up", "fin", "rst"}
  /\ \/ /\ tcp # "rst"
        /\ HandshakeSent
        /\ UNCHANGED <<fds, pollout>> /\ UNCHANGED netVars
     \/ HandshakeFailed

ConnectPass2Refused ==
  /\ tcp = "refused"
  /\ close_and_free_session(WAITING_CONNECT)

\* The name is resolved again, and may not be found now.  oom4 frees the wsi and
\* leaves its entry in fds.
ConnectPass2Unresolved == ResolveFailed

---------------------------------------------------------------------------
(* The server's answer *)

Established ==
  /\ wsi' = ESTABLISHED /\ timer' = "off"
  /\ UNCHANGED <<fds, pollout, was_closed, tcp, server, turns, noise>>

\* lws_client_interpret_server_handshake on a complete answer, in one packet or
\* two.
HandshakeGood ==
  \/ /\ inbound # <<>> /\ Head(inbound) = "HS_OK"
     /\ Established /\ inbound' = Tail(inbound)
  \/ /\ Len(inbound) > 1 /\ inbound[1] = "HS_HEAD" /\ inbound[2] = "HS_TAIL"
     /\ Established /\ inbound' = Tail(Tail(inbound))

\* bail2: CLIENT_CONNECTION_ERROR, then the close.
HandshakeBad ==
  /\ inbound # <<>> /\ Head(inbound) = "HS_BAD"
  /\ close_and_free_session(WAITING_CONNECT)

\* The answer is read bytewise to its end; what is there is not all of it.
HandshakeCut == inbound \in {<<>>, <<"HS_HEAD">>}

\* recv() fails, with EAGAIN when the rest has not arrived yet: bail3.
HandshakeAbandoned ==
  /\ HandshakeCut
  /\ close_and_free_session(WAITING_SERVER_REPLY)

\* The server has shut down: recv() returns 0 and libwebsocket_parse() is handed
\* an uninitialised or stale character, which it may take without complaint.
HandshakeStalled ==
  /\ HandshakeCut /\ tcp = "fin"
  /\ inbound' = <<>>
  /\ UNCHANGED lwsVars /\ UNCHANGED <<tcp, server, turns, noise>>

---------------------------------------------------------------------------
(* poll() *)

Readable == inbound # <<>> \/ tcp \in {"fin", "rst"}
Hangup   == tcp \in {"refused", "rst"}
Writable == pollout /\ tcp \in {"up", "fin", "rst", "refused"}

Revents == [in |-> fds /\ Readable, out |-> fds /\ Writable, err |-> fds /\ Hangup]

NoEvents == [in |-> FALSE, out |-> FALSE, err |-> FALSE]

---------------------------------------------------------------------------
(* The network, the server and the clock: external *)

TcpUp ==
  /\ tcp = "connecting" /\ tcp' \in {"up", "refused"}
  /\ UNCHANGED lwsVars /\ UNCHANGED <<inbound, server, turns, noise>>

\* What the server may send next, and where that leaves it.
ServerStep(item) ==
  CASE item = "HS_OK"   -> server = "silent"  /\ server' = "open"
    [] item = "HS_BAD"  -> server = "silent"  /\ server' = "done"
    [] item = "HS_HEAD" -> server = "silent"  /\ server' = "partial"
    [] item = "HS_TAIL" -> server = "partial" /\ server' = "open"
    [] OTHER            -> server = "open"    /\ server' = "open"

\* The server answers the request and then sends frames as it likes, turns ahead
\* of the replies and even behind a close frame.
ServerSend(item) ==
  /\ tcp = "up" /\ wsi \in {WAITING_SERVER_REPLY, ESTABLISHED}
  /\ ServerStep(item)
  /\ turns' = turns + (IF item = "TURN" THEN 1 ELSE 0) /\ turns' <= MaxTurns
  /\ noise' = noise + (IF item \in Frames \ {"TURN"} THEN 1 ELSE 0) /\ noise' <= MaxNoise
  /\ inbound' = Append(inbound, item)
  /\ UNCHANGED lwsVars /\ UNCHANGED tcp

ServerFin ==
  /\ tcp = "up" /\ tcp' = "fin"
  /\ UNCHANGED lwsVars /\ UNCHANGED <<inbound, server, turns, noise>>

\* A reset may or may not leave what was received readable.
ConnectionReset ==
  /\ tcp \in {"up", "fin"} /\ tcp' = "rst"
  /\ inbound' \in {inbound, <<>>}
  /\ UNCHANGED lwsVars /\ UNCHANGED <<server, turns, noise>>

Expire ==
  /\ timer = "armed" /\ timer' = "expired"
  /\ UNCHANGED <<wsi, fds, pollout, was_closed>> /\ UNCHANGED netVars

Network ==
  \/ TcpUp
  \/ \E item \in Handshakes \cup Frames : ServerSend(item)
  \/ ServerFin
  \/ ConnectionReset
  \/ Expire

=============================================================================
