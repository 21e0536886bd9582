------------------------------- MODULE Mirror -------------------------------
(***************************************************************************)
(* The lws-mirror protocol of libwebsockets' test server                    *)
(* (test-server/test-server.c) on the library's receive flow control        *)
(* (lib/libwebsockets.c, lib/parsers.c): what one client sends is written   *)
(* to all of them, through one ring of messages with a tail for each        *)
(* client; a client whose tail lags is not read until it has caught up.     *)
(*                                                                         *)
(* The server is one thread.  It services the connections poll() names one  *)
(* after the other; a connection's part is its writeable callback, if it    *)
(* asked for one, and then its input.  A message is one frame that fits the *)
(* protocol's buffer.                                                       *)
(***************************************************************************)
EXTENDS Integers, Sequences, FiniteSetsExt

CONSTANTS Conns,             \* the clients
          Partial,           \* those whose socket may take a part of a frame only
          MAX_MESSAGE_QUEUE, \* slots of the ring, 32
          Slack,             \* 15: the clients are read again at MAX_MESSAGE_QUEUE - Slack
          MaxMessages        \* bound: messages the clients send together

NoOne == "none"

ASSUME MirrorAssumption ==
  /\ MAX_MESSAGE_QUEUE \in Nat /\ Slack \in Nat
  /\ Slack > 2 /\ Slack < MAX_MESSAGE_QUEUE
  /\ MaxMessages \in Nat
  /\ Partial \subseteq Conns
  /\ NoOne \notin Conns

VARIABLES conn,             \* per client: "new", "up" or "closed"
          ringbuffer, ringbuffer_head, ringbuffer_tail,
          rxflow_change_to, \* per client: the flags PENDING_CHANGE and ALLOW
          rxflow_buffer,    \* per client: input kept back, or NULL
          pollin, pollout,  \* per client: events asked of poll()
          socket,           \* per client: messages it has sent that are not yet read
          cur, stage, revin, \* connection being serviced, how far, and whether it reported input
          input, draining,  \* what is left of the packet in work, and whether it was kept back
          \* what has happened
          sentBy,           \* per client: messages it has sent
          log,              \* messages entered into the ring, in order
          since,            \* per client: length of the log when it was established
          mirrored,         \* per client: messages given to libwebsocket_write for it
          cut,              \* per client that is up: a message to it was sent in part only
          dropped,          \* per client: some message of its was dropped
          lapped            \* per client: another client's message overtook its tail

vars == <<conn, ringbuffer, ringbuffer_head, ringbuffer_tail, rxflow_change_to, rxflow_buffer,
          pollin, pollout, socket, cur, stage, revin, input, draining,
          sentBy, log, since, mirrored, cut, dropped, lapped>>
ringVars == <<ringbuffer, ringbuffer_head, log, dropped, lapped>>

NULL == [on |-> FALSE, rest |-> <<>>]

Up == {c \in Conns : conn[c] = "up"}

\* Slots from a client's tail to the head: the masked difference of the two.
Distance(c) == (ringbuffer_head - ringbuffer_tail[c]) % MAX_MESSAGE_QUEUE

After(slot) == (slot + 1) % MAX_MESSAGE_QUEUE

---------------------------------------------------------------------------
(* Receive flow control *)

Allowed(c) == rxflow_change_to[c].allow

\* libwebsocket_rx_flow_control: the change is noted, nothing is done yet.
Changed(flags, enable) == IF flags.allow = enable THEN flags ELSE [pending |-> TRUE, allow |-> enable]

ApplyFlow_AtOnce(c, flags, buffer, asked) ==
  /\ rxflow_change_to' = [flags EXCEPT ![c].pending = FALSE]
  /\ pollin' = [pollin EXCEPT ![c] = flags[c].allow]
  /\ pollout' = [asked EXCEPT ![c] = buffer.on \/ @]

\* _libwebsocket_rx_flow_control(c), after every callback of c, on the given flags and
\* buffer: while input is kept back the change stays pending and the connection asks
\* to be called again.
ApplyFlow(c, flags, buffer, asked) ==
  IF ~flags[c].pending
  THEN rxflow_change_to' = flags /\ pollout' = asked /\ UNCHANGED pollin
  ELSE IF buffer.on
  THEN rxflow_change_to' = flags /\ pollout' = [asked EXCEPT ![c] = TRUE] /\ UNCHANGED pollin
  ELSE /\ rxflow_change_to' = [flags EXCEPT ![c].pending = FALSE]
       /\ pollin' = [pollin EXCEPT ![c] = flags[c].allow]
       /\ pollout' = asked

---------------------------------------------------------------------------
(* libwebsocket_service_fd() *)

\* poll() reports a connection; one that is choked is not writeable.
Poll(c, out) ==
  /\ cur = NoOne /\ conn[c] = "up"
  /\ out => pollout[c]
  /\ out \/ (pollin[c] /\ socket[c] # <<>>)
  /\ cur' = c /\ stage' = (IF out THEN "write" ELSE "in") /\ revin' = (pollin[c] /\ socket[c] # <<>>)
  /\ pollout' = IF out THEN [pollout EXCEPT ![c] = FALSE] ELSE pollout
  /\ UNCHANGED <<conn, ringbuffer_tail, rxflow_change_to, rxflow_buffer, pollin, socket,
                 input, draining, sentBy, since, mirrored, cut>>
  /\ UNCHANGED ringVars

Low_WhenFull(distance) == distance = MAX_MESSAGE_QUEUE - 1

\* Everybody is read again when the backlog of the client being written to passes this.
Low(distance) == distance = MAX_MESSAGE_QUEUE - Slack

\* LWS_CALLBACK_SERVER_WRITEABLE: one turn of the loop.  choked is what
\* lws_send_pipe_choked says after the write.  When the socket takes a part of the
\* frame only, lws_issue_raw leaves the rest to the user and lws_issue_raw_ext_access
\* reports the frame as written: the rest is lost, and with it the stream of frames.
WriteOne(choked, part) ==
  LET c == cur
      tail == After(ringbuffer_tail[c])
      low == Low((ringbuffer_head - tail) % MAX_MESSAGE_QUEUE)
      flags == IF low THEN [d \in Conns |-> IF d \in Up THEN Changed(rxflow_change_to[d], TRUE)
                                                        ELSE rxflow_change_to[d]]
               ELSE rxflow_change_to
  IN
  /\ stage = "write" /\ ringbuffer_tail[c] # ringbuffer_head
  /\ part => c \in Partial
  /\ mirrored' = [mirrored EXCEPT ![c] = Append(@, ringbuffer[ringbuffer_tail[c]])]
  /\ cut' = [cut EXCEPT ![c] = @ \/ part]
  /\ ringbuffer_tail' = [ringbuffer_tail EXCEPT ![c] = tail]
  /\ IF choked
     THEN /\ ApplyFlow(c, flags, rxflow_buffer[c], [pollout EXCEPT ![c] = TRUE])
          /\ stage' = "in"
     ELSE /\ rxflow_change_to' = flags
          /\ UNCHANGED <<pollin, pollout, stage>>
  /\ UNCHANGED <<revin, conn, rxflow_buffer, socket, cur, input, draining, sentBy, since>>
  /\ UNCHANGED ringVars

WriteEnd ==
  /\ stage = "write" /\ ringbuffer_tail[cur] = ringbuffer_head
  /\ ApplyFlow(cur, rxflow_change_to, rxflow_buffer[cur], pollout)
  /\ stage' = "in"
  /\ UNCHANGED <<revin, conn, ringbuffer_tail, rxflow_buffer, socket, cur, input, draining,
                 sentBy, since, mirrored, cut>>
  /\ UNCHANGED ringVars

\* Input that was kept back comes first.
StartDrain ==
  /\ stage = "in" /\ rxflow_buffer[cur].on /\ Allowed(cur)
  /\ input' = rxflow_buffer[cur].rest /\ draining' = TRUE /\ stage' = "rx"
  /\ UNCHANGED <<revin, conn, ringbuffer_tail, rxflow_change_to, rxflow_buffer, pollin, pollout, socket,
                 cur, sentBy, since, mirrored, cut>>
  /\ UNCHANGED ringVars

\* recv() returns some of the messages that have arrived.
Recv ==
  /\ stage = "in" /\ ~(rxflow_buffer[cur].on /\ Allowed(cur))
  /\ revin
  /\ \E k \in 1 .. Len(socket[cur]) :
       /\ input' = SubSeq(socket[cur], 1, k)
       /\ socket' = [socket EXCEPT ![cur] = SubSeq(@, k + 1, Len(@))]
  /\ draining' = FALSE /\ stage' = "rx"
  /\ UNCHANGED <<revin, conn, ringbuffer_tail, rxflow_change_to, rxflow_buffer, pollin, pollout,
                 cur, sentBy, since, mirrored, cut>>
  /\ UNCHANGED ringVars

\* No input was reported.
RecvNothing ==
  /\ stage = "in" /\ ~(rxflow_buffer[cur].on /\ Allowed(cur)) /\ ~revin
  /\ cur' = NoOne /\ stage' = "poll" /\ revin' = FALSE
  /\ UNCHANGED <<conn, ringbuffer_tail, rxflow_change_to, rxflow_buffer, pollin, pollout, socket,
                 input, draining, sentBy, since, mirrored, cut>>
  /\ UNCHANGED ringVars

---------------------------------------------------------------------------
(* libwebsocket_interpret_incoming_packet() *)

\* rxflow_pos moves on with every byte taken from input that was kept back.
Taken == IF rxflow_buffer[cur].on THEN [rxflow_buffer EXCEPT ![cur].rest = Tail(@)] ELSE rxflow_buffer

\* After the choke or without it: a writeable callback for everybody, and the flow
\* control of this connection.
RxReturns(flags) ==
  /\ rxflow_buffer' = Taken /\ input' = Tail(input)
  /\ ApplyFlow(cur, flags, Taken[cur], [d \in Conns |-> pollout[d] \/ d \in Up])

Room_Always(c) == TRUE

\* One slot stays free, or a full ring would look empty.
Room(c) == Distance(c) # MAX_MESSAGE_QUEUE - 1

\* A client this far ahead of its own tail is not read any further.
Throttle(distance) == distance = MAX_MESSAGE_QUEUE - 2

\* LWS_CALLBACK_RECEIVE.
RxStored ==
  LET c == cur
      head == After(ringbuffer_head)
      full == Throttle((head - ringbuffer_tail[c]) % MAX_MESSAGE_QUEUE)
  IN
  /\ stage = "rx" /\ input # <<>> /\ Allowed(c)
  /\ Room(c)
  /\ ringbuffer' = [ringbuffer EXCEPT ![ringbuffer_head] = Head(input)]
  /\ ringbuffer_head' = head
  /\ log' = Append(log, Head(input))
  /\ lapped' = [d \in Conns |-> lapped[d] \/ (d # c /\ d \in Up /\ head = ringbuffer_tail[d])]
  /\ RxReturns(IF full THEN [rxflow_change_to EXCEPT ![c] = Changed(@, FALSE)] ELSE rxflow_change_to)
  /\ UNCHANGED <<revin, conn, ringbuffer_tail, socket, cur, stage, draining, sentBy, since, mirrored, cut, dropped>>

\* "dropping!"
RxDropped ==
  /\ stage = "rx" /\ input # <<>> /\ Allowed(cur)
  /\ ~Room(cur)
  /\ dropped' = [dropped EXCEPT ![cur] = TRUE]
  /\ RxReturns([rxflow_change_to EXCEPT ![cur] = Changed(@, FALSE)])
  /\ UNCHANGED <<revin, conn, ringbuffer, ringbuffer_head, ringbuffer_tail, socket, cur, stage, draining,
                 sentBy, log, since, mirrored, cut, lapped>>

RxKept_Lost == UNCHANGED rxflow_buffer

\* The rest of the packet is kept, unless something is kept already.
RxKept ==
  rxflow_buffer' = IF rxflow_buffer[cur].on THEN rxflow_buffer
                   ELSE [rxflow_buffer EXCEPT ![cur] = [on |-> TRUE, rest |-> input]]

\* The connection has been throttled with input left.
RxStopped ==
  /\ stage = "rx" /\ input # <<>> /\ ~Allowed(cur)
  /\ RxKept
  /\ cur' = NoOne /\ stage' = "poll" /\ revin' = FALSE /\ input' = <<>> /\ draining' = FALSE
  /\ UNCHANGED <<conn, ringbuffer_tail, rxflow_change_to, pollin, pollout, socket,
                 sentBy, since, mirrored, cut>>
  /\ UNCHANGED ringVars

\* The packet is done; what was kept back is freed, and a pending change made now.
RxEnd ==
  /\ stage = "rx" /\ input = <<>>
  /\ IF draining
     THEN /\ rxflow_buffer' = [rxflow_buffer EXCEPT ![cur] = NULL]
          /\ ApplyFlow(cur, rxflow_change_to, NULL, pollout)
     ELSE UNCHANGED <<rxflow_buffer, rxflow_change_to, pollin, pollout>>
  /\ cur' = NoOne /\ stage' = "poll" /\ revin' = FALSE /\ draining' = FALSE
  /\ UNCHANGED <<conn, ringbuffer_tail, socket, input, sentBy, since, mirrored, cut>>
  /\ UNCHANGED ringVars

---------------------------------------------------------------------------
(* Connections and clients *)

\* LWS_CALLBACK_ESTABLISHED
Establish(c) ==
  /\ cur = NoOne /\ conn[c] = "new"
  /\ conn' = [conn EXCEPT ![c] = "up"]
  /\ ringbuffer_tail' = [ringbuffer_tail EXCEPT ![c] = ringbuffer_head]
  /\ since' = [since EXCEPT ![c] = Len(log)]
  /\ pollin' = [pollin EXCEPT ![c] = TRUE]
  /\ UNCHANGED <<revin, rxflow_change_to, rxflow_buffer, pollout, socket, cur, stage, input, draining,
                 sentBy, mirrored, cut>>
  /\ UNCHANGED ringVars

\* The connection is closed: between two services, or since a write to it failed.
Close(c) ==
  /\ conn[c] = "up"
  /\ cur = NoOne \/ (cur = c /\ stage = "write")
  /\ conn' = [conn EXCEPT ![c] = "closed"]
  /\ pollin' = [pollin EXCEPT ![c] = FALSE] /\ pollout' = [pollout EXCEPT ![c] = FALSE]
  /\ rxflow_buffer' = [rxflow_buffer EXCEPT ![c] = NULL]
  /\ socket' = [socket EXCEPT ![c] = <<>>]
  /\ cur' = NoOne /\ stage' = "poll" /\ revin' = FALSE
  /\ cut' = [cut EXCEPT ![c] = FALSE]
  /\ UNCHANGED <<ringbuffer_tail, rxflow_change_to, input, draining, sentBy, since, mirrored>>
  /\ UNCHANGED ringVars

ClientSends(c) ==
  /\ conn[c] = "up" /\ MapThenSumSet(LAMBDA d : sentBy[d], Conns) < MaxMessages
  /\ sentBy' = [sentBy EXCEPT ![c] = @ + 1]
  /\ socket' = [socket EXCEPT ![c] = Append(@, <<c, sentBy[c] + 1>>)]
  /\ UNCHANGED <<revin, conn, ringbuffer_tail, rxflow_change_to, rxflow_buffer, pollin, pollout,
                 cur, stage, input, draining, since, mirrored, cut>>
  /\ UNCHANGED ringVars

Init ==
  /\ conn = [c \in Conns |-> "new"]
  /\ ringbuffer = [i \in 0 .. MAX_MESSAGE_QUEUE - 1 |-> <<>>]
  /\ ringbuffer_head = 0 /\ ringbuffer_tail = [c \in Conns |-> 0]
  /\ rxflow_change_to = [c \in Conns |-> [pending |-> FALSE, allow |-> TRUE]]
  /\ rxflow_buffer = [c \in Conns |-> NULL]
  /\ pollin = [c \in Conns |-> FALSE] /\ pollout = [c \in Conns |-> FALSE]
  /\ socket = [c \in Conns |-> <<>>]
  /\ cur = NoOne /\ stage = "poll" /\ revin = FALSE /\ input = <<>> /\ draining = FALSE
  /\ sentBy = [c \in Conns |-> 0] /\ log = <<>> /\ since = [c \in Conns |-> 0]
  /\ mirrored = [c \in Conns |-> <<>>] /\ cut = [c \in Conns |-> FALSE]
  /\ dropped = [c \in Conns |-> FALSE] /\ lapped = [c \in Conns |-> FALSE]

Writing == (\E choked, part \in BOOLEAN : WriteOne(choked, part)) \/ WriteEnd
Reading == StartDrain \/ Recv \/ RecvNothing \/ RxStored \/ RxDropped \/ RxStopped \/ RxEnd

Next ==
  \/ \E c \in Conns : \E out \in BOOLEAN : Poll(c, out)
  \/ Writing
  \/ Reading
  \/ \E c \in Conns : Establish(c) \/ Close(c) \/ ClientSends(c)

\* The thread goes on, and a connection that wants to write becomes writeable: its
\* client reads.
Fairness ==
  /\ WF_vars(Writing) /\ WF_vars(Reading)
  /\ \A c \in Conns : SF_vars(Poll(c, TRUE))

Spec == Init /\ [][Next]_vars /\ Fairness

---------------------------------------------------------------------------
(* Properties *)

TypeOK ==
  /\ conn \in [Conns -> {"new", "up", "closed"}]
  /\ ringbuffer_head \in 0 .. MAX_MESSAGE_QUEUE - 1
  /\ ringbuffer_tail \in [Conns -> 0 .. MAX_MESSAGE_QUEUE - 1]
  /\ rxflow_change_to \in [Conns -> [pending : BOOLEAN, allow : BOOLEAN]]
  /\ \A c \in Conns : rxflow_buffer[c].on \in BOOLEAN
  /\ pollin \in [Conns -> BOOLEAN] /\ pollout \in [Conns -> BOOLEAN]
  /\ cur \in Conns \cup {NoOne} /\ stage \in {"poll", "write", "in", "rx"}
  /\ cur = NoOne <=> stage = "poll"

\* While input is kept back nothing else is read from the connection, or it would
\* overtake what is kept and be dropped by interpret_incoming_packet.
KeptThenDeaf ==
  \A c \in Conns : rxflow_buffer[c].on => ~pollin[c] /\ ~(cur = c /\ stage = "in" /\ revin)

\* What is still to be written to c, from its tail on.
Backlog(c) ==
  [k \in 1 .. Distance(c) |-> ringbuffer[(ringbuffer_tail[c] + k - 1) % MAX_MESSAGE_QUEUE]]

\* As long as its socket takes whole frames, a client is sent every message that entered
\* the ring since it was established, in order: its own messages never overtake its
\* tail, only another client's do.
MirroredInOrder ==
  \A c \in Up : ~lapped[c] /\ ~cut[c] =>
    mirrored[c] \o Backlog(c) = SubSeq(log, since[c] + 1, Len(log))

\* The input of c on its way: kept back, in work, or in the socket.
Pending(c) ==
  LET kept == rxflow_buffer[c].rest
      work == IF cur = c /\ ~draining THEN input ELSE <<>>
  IN kept \o work \o socket[c]

\* How many of the first i messages of the log are of client c.
Entered(c, i) == Cardinality({j \in 1 .. i : log[j][1] = c})

\* However often a client is throttled, its messages enter the ring in the order it sent
\* them and none is lost or doubled, but for the one case in which the server says it is
\* "dropping!", and that takes the messages of another client.
NothingLost ==
  \A c \in Up :
    LET taken == Entered(c, Len(log))
    IN IF dropped[c] THEN \E i \in DOMAIN log : log[i][1] # c
       ELSE /\ \A i \in DOMAIN log : log[i][1] = c => log[i] = <<c, Entered(c, i)>>
            /\ Pending(c) = [k \in 1 .. sentBy[c] - taken |-> <<c, taken + k>>]

\* A client that is throttled is read again, once its backlog is written.
ReadAgain ==
  \A c \in Conns : ~Allowed(c) ~> (pollin[c] \/ conn[c] = "closed" \/ lapped[c])

=============================================================================
