------------------------------ MODULE WsThread ------------------------------
(***************************************************************************)
(* The client's only thread (jni/neof5/WsThread.cpp): the run loop, the     *)
(* library's service call below it and the callbacks that come out of it,   *)
(* down to the handler's reply to a turn (Neof5Protocol.cpp).               *)
(*                                                                         *)
(* The thread is sequential; what it races with is the network, the clock   *)
(* and SIGINT, which may move between any two of its system calls.  A step *)
(* of it reaches from one system call to the next.                          *)
(***************************************************************************)
EXTENDS LwsClient

CONSTANT MaxTweets   \* bound: tweets a player sends in one turn

ASSUME TweetsAssumption == MaxTweets \in Nat

VARIABLES pc,          \* where the thread is
          revents,     \* what poll() reported of the connection
          rxbuf,       \* frames read and not yet parsed
          mSocket,     \* TRUE when mSocket is not NULL
          force_exit,  \* set by the signal handler
          ret,         \* return value of run()
          sendQueue,   \* messages waiting for the socket to become writeable
          wire,        \* messages handed to send(), in order
          cut,         \* some message was sent only in part
          handled      \* ProcessTurn messages handled

wsVars == <<pc, revents, rxbuf, mSocket, force_exit, ret, sendQueue, wire, cut, handled>>
vars == <<wsi, fds, pollout, timer, was_closed, tcp, inbound, server, turns, noise,
          pc, revents, rxbuf, mSocket, force_exit, ret, sendQueue, wire, cut, handled>>

\* run() has returned.
Ended == {"exited", "destroyed", "crashed"}

\* An answer of the client: the tweets of a turn and its Put.
Messages == [kind : {"Tweet", "Put"}, turn : Nat]

TypeOK ==
  /\ LwsTypeOK
  /\ pc \in {"loop", "poll", "event", "drain", "recv", "rx", "connect",
             "exited", "destroyed", "crashed"}
  /\ revents \in [in : BOOLEAN, out : BOOLEAN, err : BOOLEAN]
  /\ rxbuf \in Seq(Frames)
  /\ mSocket \in BOOLEAN /\ force_exit \in BOOLEAN
  /\ ret \in {0, -1}
  /\ sendQueue \in Seq(Messages) /\ wire \in Seq(Messages)
  /\ cut \in BOOLEAN
  /\ handled \in Nat

Init ==
  /\ LwsInit
  /\ pc = "loop" /\ revents = NoEvents /\ rxbuf = <<>>
  /\ mSocket = FALSE /\ force_exit = FALSE /\ ret = 0
  /\ sendQueue = <<>> /\ wire = <<>> /\ cut = FALSE /\ handled = 0

---------------------------------------------------------------------------
(* run() and libwebsocket_service() *)

Goto(label) ==
  /\ pc' = label
  /\ UNCHANGED <<revents, rxbuf, mSocket, force_exit, ret, sendQueue, wire, cut, handled>>

\* service_fd is done with the connection and libwebsocket_service returns.
BackToLoop ==
  /\ pc' = "loop" /\ revents' = NoEvents
  /\ UNCHANGED <<rxbuf, mSocket, force_exit, ret, sendQueue, wire, cut, handled>>

\* libwebsocket_service returns -1, which ends the loop with ret = 0.
ServiceFails ==
  /\ pc' = "exited" /\ revents' = NoEvents
  /\ UNCHANGED <<rxbuf, mSocket, force_exit, ret, sendQueue, wire, cut, handled>>

LoopTest_NoSignal ==
  /\ pc = "loop"
  /\ Goto(IF was_closed THEN "exited" ELSE "poll")
  /\ UNCHANGED lwsVars /\ UNCHANGED netVars

\* while (n >= 0 && !was_closed && !force_exit)
LoopTest ==
  /\ pc = "loop"
  /\ Goto(IF was_closed \/ force_exit THEN "exited" ELSE "poll")
  /\ UNCHANGED lwsVars /\ UNCHANGED netVars

\* poll() reports events of the connection.
PollEvents ==
  /\ pc = "poll" /\ Revents # NoEvents
  /\ pc' = "event" /\ revents' = Revents
  /\ UNCHANGED <<rxbuf, mSocket, force_exit, ret, sendQueue, wire, cut, handled>>
  /\ UNCHANGED lwsVars /\ UNCHANGED netVars

\* libwebsocket_service_timeout_check, on every way into service_fd.
TimedOut == fds /\ timer = "expired" /\ close_and_free_session(wsi)

\* poll() returns 0 after WS_SERVICE_TIMEOUT: the timeout check only, and then the
\* connection attempt if there has been none.
PollTimeout ==
  /\ pc = "poll" /\ Revents = NoEvents
  /\ Goto(IF mSocket THEN "loop" ELSE "connect")
  /\ \/ TimedOut
     \/ ~(fds /\ timer = "expired") /\ UNCHANGED lwsVars /\ UNCHANGED netVars

\* poll() returns -1 with EINTR.
PollInterrupted ==
  /\ pc = "poll" /\ force_exit
  /\ ServiceFails
  /\ UNCHANGED lwsVars /\ UNCHANGED netVars

\* The signal handler.
Signal ==
  /\ ~force_exit /\ pc \notin Ended
  /\ force_exit' = TRUE
  /\ UNCHANGED <<pc, revents, rxbuf, mSocket, ret, sendQueue, wire, cut, handled>>
  /\ UNCHANGED lwsVars /\ UNCHANGED netVars

\* mSocket = libwebsocket_client_connect(...), with a result that is not NULL.
Connect ==
  /\ pc = "connect"
  /\ ConnectInProgress \/ ConnectAtOnce
  /\ pc' = "loop" /\ mSocket' = TRUE
  /\ UNCHANGED <<revents, rxbuf, force_exit, ret, sendQueue, wire, cut, handled>>

\* NULL: "Connect failed".
ConnectNull ==
  /\ pc = "connect"
  /\ ConnectFailed \/ ResolveFailed
  /\ pc' = "exited" /\ ret' = -1
  /\ UNCHANGED <<revents, rxbuf, mSocket, force_exit, sendQueue, wire, cut, handled>>

---------------------------------------------------------------------------
(* libwebsocket_service_fd() *)

\* The connection to be serviced has timed out.
EventTimedOut ==
  /\ pc = "event"
  /\ TimedOut
  /\ BackToLoop

Serviced(mode) == pc = "event" /\ timer # "expired" /\ wsi = mode

\* WAITING_CONNECT: libwebsocket_client_connect_2 again.
ServiceConnect ==
  /\ Serviced(WAITING_CONNECT)
  /\ \/ ConnectPass2Up /\ BackToLoop
     \/ (ConnectPass2Refused \/ ConnectPass2Unresolved) /\ ServiceFails

\* WAITING_SERVER_REPLY
ServiceReply ==
  /\ Serviced(WAITING_SERVER_REPLY)
  /\ \/ /\ revents.err
        /\ close_and_free_session(WAITING_SERVER_REPLY)
        /\ ServiceFails
     \/ /\ ~revents.err /\ ~revents.in
        /\ UNCHANGED lwsVars /\ UNCHANGED netVars
        /\ BackToLoop
     \/ /\ ~revents.err /\ revents.in
        /\ \/ (HandshakeGood \/ HandshakeBad \/ HandshakeStalled) /\ BackToLoop
           \/ HandshakeAbandoned /\ ServiceFails

\* ESTABLISHED with POLLOUT: one shot, then LWS_CALLBACK_CLIENT_WRITEABLE.
ServiceWriteable ==
  /\ Serviced(ESTABLISHED) /\ revents.out
  /\ pollout' = FALSE
  /\ UNCHANGED <<wsi, fds, timer, was_closed>> /\ UNCHANGED netVars
  /\ Goto("drain")

\* Without POLLOUT, straight to the incoming data.
ServiceReadable ==
  /\ Serviced(ESTABLISHED) /\ ~revents.out
  /\ UNCHANGED lwsVars /\ UNCHANGED netVars
  /\ Goto("recv")

---------------------------------------------------------------------------
(* LWS_CALLBACK_CLIENT_WRITEABLE *)

\* The front message is popped before it is written.
Pop ==
  /\ pc = "drain" /\ sendQueue # <<>>
  /\ sendQueue' = Tail(sendQueue)

\* send() took the message, or a part of it: with clean_buffer set the library
\* reports the whole length either way.
Write ==
  /\ Pop /\ tcp # "rst"
  /\ wire' = Append(wire, Head(sendQueue))
  /\ cut' \in {cut, TRUE}
  /\ UNCHANGED <<pc, revents, rxbuf, mSocket, force_exit, ret, handled>>
  /\ UNCHANGED lwsVars /\ UNCHANGED netVars

\* send() failed, on a full socket buffer too: -1, and the session is closed.
WriteFails ==
  /\ Pop
  /\ close_and_free_session(ESTABLISHED)
  /\ pc' = "loop" /\ revents' = NoEvents
  /\ UNCHANGED <<rxbuf, mSocket, force_exit, ret, wire, cut, handled>>

\* while (!sendQueue.empty()) ends.
WriteDone ==
  /\ pc = "drain" /\ sendQueue = <<>>
  /\ UNCHANGED lwsVars /\ UNCHANGED netVars
  /\ Goto("recv")

---------------------------------------------------------------------------
(* Incoming data *)

\* recv() returns some of what has arrived.
Recv ==
  /\ pc = "recv" /\ revents.in /\ inbound # <<>>
  /\ \E k \in 1 .. Len(inbound) :
       /\ rxbuf' = SubSeq(inbound, 1, k)
       /\ inbound' = SubSeq(inbound, k + 1, Len(inbound))
  /\ pc' = "rx"
  /\ UNCHANGED <<revents, mSocket, force_exit, ret, sendQueue, wire, cut, handled>>
  /\ UNCHANGED lwsVars /\ UNCHANGED <<tcp, server, turns, noise>>

RecvNothing ==
  /\ pc = "recv" /\ ~revents.in
  /\ UNCHANGED lwsVars /\ UNCHANGED netVars
  /\ BackToLoop

\* recv() returns 0 or fails.
RecvEnd ==
  /\ pc = "recv" /\ revents.in /\ inbound = <<>>
  /\ close_and_free_session(ESTABLISHED)
  /\ BackToLoop

RxDone ==
  /\ pc = "rx" /\ rxbuf = <<>>
  /\ UNCHANGED lwsVars /\ UNCHANGED netVars
  /\ BackToLoop

RxFrame(frame) ==
  /\ pc = "rx" /\ rxbuf # <<>> /\ Head(rxbuf) = frame
  /\ rxbuf' = Tail(rxbuf)

callback_on_writable_Never == UNCHANGED pollout

\* libwebsocket_callback_on_writable(mContext, mSocket)
callback_on_writable == pollout' = TRUE

\* Messages other than ProcessTurn are ignored; a ping is answered at once, and
\* whether the pong could be written is not looked at.
RxOther ==
  /\ RxFrame("OTHER") \/ RxFrame("PING")
  /\ UNCHANGED <<pc, revents, mSocket, force_exit, ret, sendQueue, wire, cut, handled>>
  /\ UNCHANGED lwsVars /\ UNCHANGED netVars

Tweets(turn, n) == [k \in 1 .. n |-> [kind |-> "Tweet", turn |-> turn]]
Put(turn) == [kind |-> "Put", turn |-> turn]

Reply_PutFirst(turn, n) == <<Put(turn)>> \o Tweets(turn, n)

\* What think() and putCard() hand to sendText(): tweets unflushed, then the Put.
Reply(turn, n) == Append(Tweets(turn, n), Put(turn))

\* onMessage() on a ProcessTurn; n is the number of tweets of the player.
RxTurn(n) ==
  /\ RxFrame("TURN")
  /\ handled' = handled + 1
  /\ sendQueue' = sendQueue \o Reply(handled + 1, n)
  /\ callback_on_writable
  /\ UNCHANGED <<wsi, fds, timer, was_closed>> /\ UNCHANGED netVars
  /\ UNCHANGED <<pc, revents, mSocket, force_exit, ret, wire, cut>>

\* The rest of the data is parsed all the same.
RxClose_KeepsReading ==
  /\ RxFrame("CLOSE")
  /\ close_and_free_session(ESTABLISHED)
  /\ UNCHANGED <<pc, revents, mSocket, force_exit, ret, sendQueue, wire, cut, handled>>

\* A close frame is returned, the connection closed, the rest of the data dropped.
RxClose ==
  /\ pc = "rx" /\ rxbuf # <<>> /\ Head(rxbuf) = "CLOSE"
  /\ close_and_free_session(ESTABLISHED)
  /\ pc' = "loop" /\ revents' = NoEvents /\ rxbuf' = <<>>
  /\ UNCHANGED <<mSocket, force_exit, ret, sendQueue, wire, cut, handled>>

---------------------------------------------------------------------------
(* ~WsThread(): libwebsocket_context_destroy closes what is in fds *)

Destroy ==
  /\ pc = "exited"
  /\ Goto("destroyed")
  /\ \/ fds /\ wsi \in Live /\ close_and_free_session(wsi)
     \/ ~fds /\ UNCHANGED lwsVars /\ UNCHANGED netVars

\* The entry of a wsi that oom4 has freed: whatever the freed memory holds is
\* called back, freed again or makes the process abort.
DestroyFreed ==
  /\ pc = "exited" /\ fds /\ wsi = "freed"
  /\ Goto("destroyed") \/ Goto("crashed")
  /\ fds' = FALSE /\ pollout' = FALSE /\ timer' = "off"
  /\ was_closed' \in {was_closed, TRUE}
  /\ UNCHANGED wsi /\ UNCHANGED netVars

Client ==
  \/ LoopTest \/ PollEvents \/ PollTimeout \/ PollInterrupted
  \/ Connect \/ ConnectNull
  \/ EventTimedOut \/ ServiceConnect \/ ServiceReply
  \/ ServiceWriteable \/ ServiceReadable
  \/ Write \/ WriteFails \/ WriteDone
  \/ Recv \/ RecvNothing \/ RecvEnd
  \/ RxOther \/ (\E n \in 0 .. MaxTweets : RxTurn(n)) \/ RxClose \/ RxDone
  \/ Destroy \/ DestroyFreed

Next ==
  \/ Client
  \/ Signal
  \/ Network /\ UNCHANGED wsVars

\* The thread is scheduled and the clock runs; nothing is asked of the network.
Fairness == WF_vars(Client) /\ WF_vars(Expire /\ UNCHANGED wsVars)

Spec == Init /\ [][Next]_vars /\ Fairness

---------------------------------------------------------------------------
(* Safety *)

\* Until run() returns, the poll table holds the connection exactly while it lives,
\* so that poll() never hands service_fd a freed wsi; mSocket, which sendText()
\* uses, is set for every live connection, and a reported end leaves no entry.
SocketTable ==
  /\ pc \notin Ended => (fds <=> wsi \in Live)
  /\ wsi \in Live /\ pc # "connect" => mSocket
  /\ was_closed => ~fds

\* A message in the queue of an established connection always has a writeable
\* callback coming: nobody else would ever send it.
QueueScheduled ==
  wsi = ESTABLISHED /\ sendQueue # <<>> => pollout \/ pc = "drain"

\* After the callback that reported the end, no turn is handled and no message is
\* written, however much the server had sent.
QuietAfterClose == [][was_closed => UNCHANGED <<handled, sendQueue, wire>>]_vars

---------------------------------------------------------------------------
(* Liveness *)

\* A connection attempt comes to an end even if the network stays silent.
ConnectEnds == wsi = WAITING_CONNECT ~> wsi # WAITING_CONNECT

\* SIGINT, and the loss of an established connection, end the client.
ClientEnds ==
  force_exit \/ (wsi = ESTABLISHED /\ tcp \in {"fin", "rst"}) ~> pc \in {"destroyed", "crashed"}

---------------------------------------------------------------------------
(* The session the client promises *)

\* The session is over when its end was reported, when the connection is gone and
\* when run() has returned.
Phase ==
  CASE was_closed \/ pc \in Ended \/ wsi = "freed" -> "over"
    [] ~was_closed /\ pc \notin Ended /\ wsi = ESTABLISHED -> "open"
    [] OTHER -> "new"

S == INSTANCE Session WITH phase <- Phase, queue <- sendQueue

\* What run(), the callbacks and the library do is a session: turns are answered on an
\* open connection only, all in order and once, and what is queued is sent unless the
\* session ends (WsThread.cpp:44-68, 95-150).
ImplementsSession == S!Spec

---------------------------------------------------------------------------
(* What the library's documentation and comments say, and it does not do *)

\* A connection that does not come up within the timeout is reported.
TimeoutReported ==
  wsi = WAITING_SERVER_REPLY /\ timer = "expired" ~> was_closed \/ pc \in {"destroyed", "crashed"}

\* While the rest of the handshake is on its way, the client waits for it.
SplitHandshakeWaits ==
  [][wsi = WAITING_SERVER_REPLY /\ inbound = <<"HS_HEAD">>
       /\ tcp = "up" /\ timer = "armed" /\ pc # "exited"
     => wsi' # "freed"]_vars

\* What was handed to send() was sent whole or kept.
SentWhole == ~cut

\* An entry of the poll table refers to a connection that exists.
TableEntriesLive == fds => wsi # "freed"

=============================================================================
