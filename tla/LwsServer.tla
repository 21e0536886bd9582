------------------------------ MODULE LwsServer ------------------------------
(***************************************************************************)
(* The server side of libwebsockets 1.23: the table of polled sockets that  *)
(* is shared by the listener and every connection (libwebsockets.c), the    *)
(* service loop over it, requests (server.c, handshake.c,                   *)
(* server-handshake.c) and the file that answers a GET (output.c).          *)
(*                                                                         *)
(* A packet stands for the bytes one recv() returns:                        *)
(*   PART   what completes nothing: a part of the headers, and for an        *)
(*          established connection a frame or a part of one                  *)
(*   GET    what completes a request for a file                             *)
(*   WS     what completes a handshake, SHORT one without Host or key       *)
(*   BAD    what makes the headers fail: an unknown method, a protocol, or  *)
(*          revision that is not served, a refusal by the user's callback   *)
(* The file is the sequence 1, 2, ..., FileLen; HDR, before them, is the    *)
(* header of the answer and DONE, after them, the end of the connection.    *)
(***************************************************************************)
EXTENDS Integers, Sequences, FiniteSets

CONSTANTS Socks,      \* sockets accept() returns
          Listener,   \* the listening socket
          FileLen,    \* size of the file
          Chunk,      \* sizeof(context->service_buffer)
          Room,       \* what a socket takes before it is choked
          UIntMod,    \* unsigned int counts modulo this
          MaxPackets, \* bound: packets sent
          MaxConns    \* bound: connections accepted

ASSUME ServerAssumption ==
  /\ Listener \notin Socks
  /\ {FileLen, MaxPackets, MaxConns} \subseteq Nat
  /\ {Chunk, Room} \subseteq Nat \ {0}
  /\ UIntMod \in Nat /\ UIntMod > 2 * FileLen + Chunk

VARIABLES fds,        \* context->fds[0 .. fds_count - 1]
          lws_lookup, \* the sockets whose entry of lws_lookup is not NULL
          position,   \* position_in_fds_table, counted from 1; 0 is -1
          wsi,        \* per socket: the connection
          pc, slot,   \* where libwebsocket_service is
          inbound, tcp, unread, \* the peer: packets on their way, its end, what it has to read
          wire,       \* per socket: all that was sent
          sent,       \* per socket: the packets of its peer so far
          accepted, packets, crashed

tableVars == <<fds, lws_lookup, position>>
peerVars == <<inbound, tcp, sent, packets>>
vars == <<fds, lws_lookup, position, wsi, pc, slot, inbound, tcp, unread, wire, sent,
          accepted, packets, crashed>>

HDR == 0
DONE == FileLen + 1

Packets == {"PART", "GET", "WS", "SHORT", "BAD"}

\* No connection, and libwebsocket_create_new_server_wsi(). ah: the header table.
Free == [state |-> "FREE", mode |-> "NONE", ah |-> "none", filepos |-> 0, truncated |-> 0]
NewWsi == [Free EXCEPT !.state = "HTTP", !.mode = "HTTP_SERVING", !.ah = "held"]

Entry(s) == [fd |-> s, out |-> FALSE, revents |-> {}]

---------------------------------------------------------------------------
(* The table *)

\* handled: the events of the slot are forgotten, whoever has it by now.
Handled(table) == IF slot \in DOMAIN table THEN [table EXCEPT ![slot].revents = {}] ELSE table

\* The table has max_fds = getdtablesize() slots, one for every descriptor the process
\* may open: accept() fails before the table is full, and "Too many fds" is not met.
insert_wsi_socket_into_fds(s) ==
  /\ fds' = Handled(Append(fds, Entry(s)))
  /\ lws_lookup' = lws_lookup \cup {s}
  /\ position' = [position EXCEPT ![s] = Len(fds) + 1]

remove_wsi_socket_from_fds_Stale(s) ==
  LET m    == position[s]
      last == fds[Len(fds)]
  IN /\ fds' = Handled(SubSeq([fds EXCEPT ![m] = last], 1, Len(fds) - 1))
     /\ position' = [position EXCEPT ![s] = 0]
     /\ lws_lookup' = lws_lookup \ {s}

\* The last entry takes the vacant slot; the listener is always in the table.
remove_wsi_socket_from_fds(s) ==
  LET m    == position[s]
      last == fds[Len(fds)]
  IN /\ fds' = Handled(SubSeq([fds EXCEPT ![m] = last], 1, Len(fds) - 1))
     /\ position' = [position EXCEPT ![last.fd] = m, ![s] = 0]
     /\ lws_lookup' = lws_lookup \ {s}

\* The peer of a socket that is closed loses what it has sent and not read.
close_and_free_session(s) ==
  /\ remove_wsi_socket_from_fds(s)
  /\ wsi' = [wsi EXCEPT ![s] = Free]
  /\ inbound' = [inbound EXCEPT ![s] = <<>>]
  /\ unread' = [unread EXCEPT ![s] = 0]
  /\ tcp' = [tcp EXCEPT ![s] = "down"]
  /\ sent' = [sent EXCEPT ![s] = <<>>] /\ UNCHANGED packets

NextSlot == pc' = "slots" /\ slot' = slot + 1

ServiceDone == NextSlot /\ UNCHANGED <<accepted, crashed>>

CloseAndHandled(s) == close_and_free_session(s) /\ ServiceDone /\ UNCHANGED wire

---------------------------------------------------------------------------
(* libwebsocket_service() *)

Readable(s) == IF s = Listener THEN TRUE ELSE inbound[s] # <<>> \/ tcp[s] \in {"fin", "rst"}
Writable(s) == s # Listener /\ (unread[s] < Room \/ tcp[s] = "rst")

Ready(e) == (IF Readable(e.fd) THEN {"IN"} ELSE {})
            \cup (IF e.out /\ Writable(e.fd) THEN {"OUT"} ELSE {})

\* A connection may be waiting at the listener at any time.
Poll ==
  /\ pc = "poll" /\ ~crashed
  /\ \E waiting \in BOOLEAN :
       fds' = [i \in DOMAIN fds |->
                [fds[i] EXCEPT !.revents = IF fds[i].fd = Listener /\ ~waiting THEN {}
                                           ELSE Ready(fds[i])]]
  /\ \E i \in DOMAIN fds : fds'[i].revents # {}
  /\ pc' = "slots" /\ slot' = 1
  /\ UNCHANGED <<lws_lookup, position, wsi, unread, wire, accepted, crashed>>
  /\ UNCHANGED peerVars

Serving == pc = "slots" /\ slot \in DOMAIN fds /\ ~crashed

SkipSlot ==
  /\ Serving /\ fds[slot].revents = {}
  /\ NextSlot
  /\ UNCHANGED <<fds, lws_lookup, position, wsi, unread, wire, accepted, crashed>>
  /\ UNCHANGED peerVars

LoopEnds ==
  /\ pc = "slots" /\ slot > Len(fds) /\ ~crashed
  /\ pc' = "poll" /\ slot' = 0
  /\ UNCHANGED <<fds, lws_lookup, position, wsi, unread, wire, accepted, crashed>>
  /\ UNCHANGED peerVars

---------------------------------------------------------------------------
(* LWS_CONNMODE_SERVER_LISTENER *)

\* FILTER_NETWORK_CONNECTION refuses, or accept() fails.
AcceptNothing ==
  /\ Serving /\ fds[slot].fd = Listener /\ fds[slot].revents # {}
  /\ fds' = Handled(fds)
  /\ ServiceDone
  /\ UNCHANGED <<lws_lookup, position, wsi, unread, wire>>
  /\ UNCHANGED peerVars

Accept(s) ==
  /\ Serving /\ fds[slot].fd = Listener /\ fds[slot].revents # {}
  /\ wsi[s].state = "FREE" /\ accepted < MaxConns
  /\ insert_wsi_socket_into_fds(s)
  /\ wsi' = [wsi EXCEPT ![s] = NewWsi]
  /\ tcp' = [tcp EXCEPT ![s] = "up"]
  /\ wire' = [wire EXCEPT ![s] = <<>>]
  /\ accepted' = accepted + 1
  /\ NextSlot
  /\ UNCHANGED <<inbound, sent, packets, unread, crashed>>

---------------------------------------------------------------------------
(* LWS_CONNMODE_HTTP_SERVING and _ACCEPTED *)

Http(s) == Serving /\ fds[slot].fd = s /\ wsi[s].mode \in {"HTTP_SERVING", "ACCEPTED"}

\* recv() returns 0 or an error.
HttpGone(s) ==
  /\ Http(s) /\ "IN" \in fds[slot].revents /\ inbound[s] = <<>>
  /\ CloseAndHandled(s)

\* The parser runs on u.hdr.ah, which the union has not held since a request was answered.
NoTable(s) == wsi[s].ah # "held"

Crash ==
  /\ crashed' = TRUE
  /\ UNCHANGED <<wsi, pc, slot, unread, wire, accepted>>
  /\ UNCHANGED tableVars

Took(s, packet) ==
  /\ Http(s) /\ "IN" \in fds[slot].revents
  /\ inbound[s] # <<>> /\ Head(inbound[s]) = packet
  /\ inbound' = [inbound EXCEPT ![s] = Tail(@)]
  /\ UNCHANGED <<tcp, sent, packets>>

ReadWithoutTable(s) ==
  /\ NoTable(s) /\ \E p \in Packets : Took(s, p)
  /\ Crash

AfterPart_TableDropped(s) == [wsi[s] EXCEPT !.state = "HTTP_HEADERS", !.ah = "none"]

AfterPart(s) == [wsi[s] EXCEPT !.state = "HTTP_HEADERS"]

ReadPart(s) ==
  /\ ~NoTable(s) /\ Took(s, "PART")
  /\ wsi' = [wsi EXCEPT ![s] = AfterPart(s)]
  /\ fds' = Handled(fds) /\ NextSlot
  /\ UNCHANGED <<lws_lookup, position, unread, wire, accepted, crashed>>

\* bail_nuke_ah
ReadBad(s) ==
  /\ ~NoTable(s) /\ Http(s) /\ "IN" \in fds[slot].revents
  /\ inbound[s] # <<>> /\ Head(inbound[s]) = "BAD"
  /\ CloseAndHandled(s)

\* handshake_0405 frees the table and so does libwebsocket_read: what free() does then is
\* undefined.
ReadShort(s) ==
  /\ ~NoTable(s) /\ Http(s) /\ "IN" \in fds[slot].revents
  /\ inbound[s] # <<>> /\ Head(inbound[s]) = "SHORT"
  /\ \/ CloseAndHandled(s)
     \/ Crash /\ UNCHANGED peerVars

ReadWs(s) ==
  /\ ~NoTable(s) /\ Took(s, "WS")
  /\ wsi' = [wsi EXCEPT ![s].state = "ESTABLISHED", ![s].mode = "WS_SERVING", ![s].ah = "none"]
  /\ wire' = [wire EXCEPT ![s] = <<HDR>>] /\ unread' = [unread EXCEPT ![s] = 1]
  /\ fds' = Handled(fds) /\ NextSlot
  /\ UNCHANGED <<lws_lookup, position, accepted, crashed>>

\* LWS_CALLBACK_HTTP: libwebsockets_serve_http_file
AfterGet(s) == [wsi[s] EXCEPT !.state = "ISSUING_FILE", !.mode = "ACCEPTED", !.ah = "none"]

ReadGet(s) ==
  /\ ~NoTable(s) /\ Took(s, "GET")
  /\ wsi' = [wsi EXCEPT ![s] = AfterGet(s)]
  /\ wire' = [wire EXCEPT ![s] = <<HDR>>] /\ unread' = [unread EXCEPT ![s] = 1]
  /\ pc' = "fragment"
  /\ UNCHANGED <<fds, lws_lookup, position, slot, accepted, crashed>>

\* The file cannot be opened: 400, and the socket is closed.
ReadGetFails(s) ==
  /\ ~NoTable(s) /\ Http(s) /\ "IN" \in fds[slot].revents
  /\ inbound[s] # <<>> /\ Head(inbound[s]) = "GET"
  /\ CloseAndHandled(s)

\* No packet, but POLLOUT, one shot: only a file that is being sent has asked for it.
HttpOut(s) ==
  /\ Http(s) /\ fds[slot].revents = {"OUT"}
  /\ fds' = [fds EXCEPT ![slot].out = FALSE]
  /\ pc' = "fragment" /\ UNCHANGED slot
  /\ UNCHANGED <<lws_lookup, position, wsi, unread, wire, accepted, crashed>>
  /\ UNCHANGED peerVars

---------------------------------------------------------------------------
(* libwebsockets_serve_http_file_fragment() and lws_issue_raw() *)

InFragment(s) == pc = "fragment" /\ fds[slot].fd = s /\ ~crashed

callback_on_writable_Never(s) == Handled(fds)

callback_on_writable(s) == Handled([fds EXCEPT ![position[s]].out = TRUE])

\* lws_send_pipe_choked: come back when the socket is writable.
FragmentChoked(s) ==
  /\ InFragment(s) /\ unread[s] = Room /\ tcp[s] # "rst"
  /\ fds' = callback_on_writable(s)
  /\ NextSlot
  /\ UNCHANGED <<lws_lookup, position, wsi, unread, wire, accepted, crashed>>
  /\ UNCHANGED peerVars

FragmentFails(s) ==
  /\ InFragment(s) /\ tcp[s] = "rst"
  /\ CloseAndHandled(s)

AtMost(m, n) == IF m < n THEN m ELSE n

\* What is read, and how much of it the socket takes.
ReadLen(s) == AtMost(Chunk, FileLen - wsi[s].filepos)
Taken(s)   == AtMost(ReadLen(s), Room - unread[s])

\* truncated_send_len, which a send that is not its rest counts down as well.
TruncatedAfter(s) ==
  IF wsi[s].truncated # 0 THEN (wsi[s].truncated - Taken(s)) % UIntMod
  ELSE ReadLen(s) - Taken(s)

\* A send cut short for the first time is reported as whole; filepos and the file's own
\* position advance by what is reported.
Issued_Rewinds(s) == Taken(s) - 1

Issued(s) == IF wsi[s].truncated # 0 THEN Taken(s) ELSE ReadLen(s)

Sent(s) ==
  /\ wire' = [wire EXCEPT ![s] = @ \o [i \in 1 .. Taken(s) |-> wsi[s].filepos + i]]
  /\ unread' = [unread EXCEPT ![s] = @ + Taken(s)]

FragmentSends(s) ==
  /\ InFragment(s) /\ unread[s] < Room /\ tcp[s] # "rst"
  /\ wsi[s].filepos + Issued(s) < FileLen
  /\ Sent(s)
  /\ wsi' = [wsi EXCEPT ![s].filepos = @ + Issued(s), ![s].truncated = TruncatedAfter(s)]
  /\ fds' = [fds EXCEPT ![slot].out = @ \/ TruncatedAfter(s) # 0]
  /\ UNCHANGED <<lws_lookup, position, pc, slot, accepted, crashed>>
  /\ UNCHANGED peerVars

\* filepos == filelen: the file is complete, and its socket closed.
FragmentCompletes(s) ==
  /\ InFragment(s) /\ unread[s] < Room /\ tcp[s] # "rst"
  /\ wsi[s].filepos + Issued(s) = FileLen
  /\ wire' = [wire EXCEPT ![s] = (@ \o [i \in 1 .. Taken(s) |-> wsi[s].filepos + i]) \o <<DONE>>]
  /\ close_and_free_session(s) /\ ServiceDone

---------------------------------------------------------------------------
(* LWS_CONNMODE_WS_SERVING *)

WsFrame(s) ==
  /\ Serving /\ fds[slot].fd = s /\ wsi[s].mode = "WS_SERVING" /\ inbound[s] # <<>>
  /\ "IN" \in fds[slot].revents
  /\ Head(inbound[s]) = "PART"
  /\ inbound' = [inbound EXCEPT ![s] = Tail(@)]
  /\ fds' = Handled(fds) /\ ServiceDone
  /\ UNCHANGED <<lws_lookup, position, wsi, unread, wire, tcp, sent, packets>>

\* The end of the connection, or what is no frame.
WsEnds(s) ==
  /\ Serving /\ fds[slot].fd = s /\ wsi[s].mode = "WS_SERVING"
  /\ "IN" \in fds[slot].revents
  /\ ~(inbound[s] # <<>> /\ Head(inbound[s]) = "PART")
  /\ CloseAndHandled(s)

---------------------------------------------------------------------------
(* The peers. What one does while the loop is in the table is not seen before its slot, *)
(* and there like what it had done before the poll; so it acts before a poll, or while a *)
(* file is sent.                                                                         *)

PeersTurn == pc \in {"poll", "fragment"} /\ ~crashed

PeerSends(s, packet) ==
  /\ PeersTurn
  /\ tcp[s] = "up" /\ packets < MaxPackets
  /\ packets' = packets + 1
  /\ inbound' = [inbound EXCEPT ![s] = Append(@, packet)]
  /\ sent' = [sent EXCEPT ![s] = Append(@, packet)]
  /\ UNCHANGED <<fds, lws_lookup, position, wsi, pc, slot, tcp, unread, wire, accepted, crashed>>

PeerReads(s) ==
  /\ unread[s] > 0 /\ ~crashed
  /\ unread' = [unread EXCEPT ![s] = @ - 1]
  /\ UNCHANGED <<fds, lws_lookup, position, wsi, pc, slot, wire, accepted, crashed>>
  /\ UNCHANGED peerVars

\* The peer closes its end, or resets the connection and what was on its way is lost.
PeerEnds(s) ==
  /\ PeersTurn
  /\ tcp[s] = "up"
  /\ \/ tcp' = [tcp EXCEPT ![s] = "fin"] /\ UNCHANGED inbound
     \/ tcp' = [tcp EXCEPT ![s] = "rst"] /\ inbound' = [inbound EXCEPT ![s] = <<>>]
  /\ UNCHANGED <<fds, lws_lookup, position, wsi, pc, slot, sent, packets, unread, wire, accepted, crashed>>

---------------------------------------------------------------------------

\* libwebsocket_create_context with a port: the listener is the first entry.
Init ==
  /\ fds = <<Entry(Listener)>> /\ lws_lookup = {Listener}
  /\ position = [s \in Socks \cup {Listener} |-> IF s = Listener THEN 1 ELSE 0]
  /\ wsi = [s \in Socks |-> Free]
  /\ pc = "poll" /\ slot = 0
  /\ inbound = [s \in Socks |-> <<>>] /\ tcp = [s \in Socks |-> "down"]
  /\ unread = [s \in Socks |-> 0] /\ wire = [s \in Socks |-> <<>>]
  /\ sent = [s \in Socks |-> <<>>]
  /\ accepted = 0 /\ packets = 0 /\ crashed = FALSE

Server ==
  \/ Poll \/ SkipSlot \/ LoopEnds \/ AcceptNothing
  \/ \E s \in Socks :
       \/ Accept(s) \/ HttpGone(s) \/ ReadWithoutTable(s) \/ ReadPart(s) \/ ReadBad(s)
       \/ ReadShort(s) \/ ReadWs(s) \/ ReadGet(s) \/ ReadGetFails(s) \/ HttpOut(s)
       \/ FragmentChoked(s) \/ FragmentFails(s) \/ FragmentSends(s) \/ FragmentCompletes(s)
       \/ WsFrame(s) \/ WsEnds(s)

Next ==
  \/ Server
  \/ \E s \in Socks : PeerReads(s) \/ PeerEnds(s) \/ \E p \in Packets : PeerSends(s, p)

\* The service loop runs on, and a peer goes on reading.
Fairness == WF_vars(Server) /\ \A s \in Socks : WF_vars(PeerReads(s))

Spec == Init /\ [][Next]_vars /\ Fairness

---------------------------------------------------------------------------
(* Properties *)

TypeOK ==
  /\ fds \in Seq([fd : Socks \cup {Listener}, out : BOOLEAN, revents : SUBSET {"IN", "OUT"}])
  /\ lws_lookup \subseteq Socks \cup {Listener}
  /\ position \in [Socks \cup {Listener} -> Nat]
  /\ wsi \in [Socks -> [state : {"FREE", "HTTP", "HTTP_HEADERS", "ISSUING_FILE", "ESTABLISHED"},
                       mode : {"NONE", "HTTP_SERVING", "ACCEPTED", "WS_SERVING"},
                       ah : {"none", "held"}, filepos : 0 .. FileLen, truncated : 0 .. UIntMod - 1]]
  /\ pc \in {"poll", "slots", "fragment"} /\ slot \in Nat
  /\ tcp \in [Socks -> {"up", "fin", "rst", "down"}] /\ unread \in [Socks -> 0 .. Room]
  /\ inbound \in [Socks -> Seq(Packets)] /\ sent \in [Socks -> Seq(Packets)]

\* However connections come and go while the loop is in the middle of the table: every
\* live connection has one slot, the one its position names, and lws_lookup finds it.
TableConsistent ==
  /\ lws_lookup = {fds[i].fd : i \in DOMAIN fds}
  /\ \A i \in DOMAIN fds : position[fds[i].fd] = i
  /\ \A s \in Socks : s \in lws_lookup <=> wsi[s].state # "FREE"

\* The bytes of the file leave in order and none leaves twice, whatever the socket takes
\* of each write.
FileInOrder ==
  \A s \in Socks : \A i, j \in DOMAIN wire[s] :
    i < j => wire[s][i] < wire[s][j]

\* A peer that sends one request, all of it, and frames after an upgrade only.
WellBehaved(p) ==
  /\ \A i \in DOMAIN p : p[i] # "SHORT"
  /\ \A i, j \in DOMAIN p : i < j => p[i] = "PART" \/ (p[i] = "WS" /\ p[j] = "PART")

\* The header table is used after it is gone, or freed a second time, only for a peer that
\* sends a second request on its connection or a handshake without Host or key.
WellBehavedIsSafe == (\A s \in Socks : WellBehaved(sent[s])) => ~crashed

\* A file that is begun is brought to an end, its socket closed, however often the socket
\* is choked (the server has no timeout for it) provided that the peer reads.
FileServed ==
  \A s \in Socks : wsi[s].state = "ISSUING_FILE" ~> (wsi[s].state # "ISSUING_FILE" \/ crashed)

\* The completion of a file means that all of it was sent.
FileSentWhole ==
  \A s \in Socks : wire[s] # <<>> /\ wire[s][Len(wire[s])] = DONE =>
    wire[s] = <<HDR>> \o [i \in 1 .. FileLen |-> i] \o <<DONE>>

=============================================================================
