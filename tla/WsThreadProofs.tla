--------------------------- MODULE WsThreadProofs ---------------------------
(***************************************************************************)
(* The run loop for every number of turns, tweets and other frames: types,  *)
(* the poll table, the schedule of the send queue, and silence after the    *)
(* end was reported.                                                       *)
(***************************************************************************)
EXTENDS WsThread, TLAPS

---------------------------------------------------------------------------
(* The inductive invariant *)

(* What is in the socket: the answer to the handshake comes first, and only   *)
(* frames are left once it has been read.                                  *)
FramesFollow ==
  /\ server = "silent"  => inbound = <<>> /\ wsi # ESTABLISHED
  /\ server = "partial" => inbound \in {<<>>, <<"HS_HEAD">>} /\ wsi # ESTABLISHED
  /\ wsi = ESTABLISHED  => inbound \in Seq(Frames)
  /\ inbound # <<>> /\ Head(inbound) = "HS_OK" => Tail(inbound) \in Seq(Frames)
  /\ Len(inbound) > 1 /\ inbound[1] = "HS_HEAD" /\ inbound[2] = "HS_TAIL" =>
       Tail(Tail(inbound)) \in Seq(Frames)

LwsInv == LwsTypeOK /\ FramesFollow

(* The thread's own variables. *)
WsTypeOK ==
  /\ pc \in {"loop", "poll", "event", "drain", "recv", "rx", "connect",
             "exited", "destroyed", "crashed"}
  /\ revents \in [in : BOOLEAN, out : BOOLEAN, err : BOOLEAN]
  /\ rxbuf \in Seq(Frames)
  /\ mSocket \in BOOLEAN /\ force_exit \in BOOLEAN
  /\ ret \in {0, -1}
  /\ sendQueue \in Seq(Messages) /\ wire \in Seq(Messages)
  /\ cut \in BOOLEAN
  /\ handled \in Nat

(* Messages are exchanged on an established connection only, and the first   *)
(* connection is the only one.                                             *)
Phases ==
  /\ pc \in {"drain", "recv", "rx"} => wsi = ESTABLISHED
  /\ wsi \notin {ESTABLISHED, "freed"} => sendQueue = <<>>
  /\ pc = "connect" => wsi = "none"
  /\ ~mSocket /\ pc \notin Ended => wsi = "none"
  /\ wsi = "none" => ~was_closed

WsInv == LwsInv /\ WsTypeOK /\ Phases /\ SocketTable /\ QueueScheduled

LEMMA TypeParts == TypeOK <=> LwsTypeOK /\ WsTypeOK
BY DEF TypeOK, WsTypeOK

LEMMA WsInit == Init => WsInv
<1> SUFFICES ASSUME Init PROVE WsInv
  OBVIOUS
<1> USE DEF Init, LwsInit, Live, WAITING_CONNECT, WAITING_SERVER_REPLY, ESTABLISHED
<1>1. LwsTypeOK
  <2>1. turns \in 0 .. MaxTurns /\ noise \in 0 .. MaxNoise
    BY BoundsAssumption
  <2>2. inbound \in Seq(Handshakes \cup Frames)
    OBVIOUS
  <2>3. fds \in BOOLEAN /\ pollout \in BOOLEAN /\ was_closed \in BOOLEAN
    OBVIOUS
  <2> QED BY <2>1, <2>2, <2>3 DEF LwsTypeOK
<1>2. FramesFollow
  BY DEF FramesFollow
<1>3. WsTypeOK
  <2>1. revents \in [in : BOOLEAN, out : BOOLEAN, err : BOOLEAN]
    BY DEF NoEvents
  <2>2. rxbuf \in Seq(Frames) /\ sendQueue \in Seq(Messages) /\ wire \in Seq(Messages)
    OBVIOUS
  <2>3. mSocket \in BOOLEAN /\ force_exit \in BOOLEAN /\ cut \in BOOLEAN
    OBVIOUS
  <2> QED BY <2>1, <2>2, <2>3 DEF WsTypeOK
<1> QED BY <1>1, <1>2, <1>3 DEF WsInv, LwsInv, Phases, SocketTable, QueueScheduled, Ended

---------------------------------------------------------------------------
(* What the library's steps do to the connection *)

LEMMA LwsSame ==
  ASSUME LwsInv, UNCHANGED lwsVars, UNCHANGED netVars
  PROVE  LwsInv'
BY DEF LwsInv, LwsTypeOK, FramesFollow, lwsVars, netVars

LEMMA CloseLws ==
  ASSUME LwsInv, NEW mode, close_and_free_session(mode)
  PROVE  LwsInv' /\ wsi' = "freed" /\ fds' = FALSE
<1> USE DEF close_and_free_session
<1>1. was_closed' \in BOOLEAN
  BY DEF LwsInv, LwsTypeOK
<1>2. LwsTypeOK'
  <2>1. fds' \in BOOLEAN /\ pollout' \in BOOLEAN
    OBVIOUS
  <2>2. inbound' \in Seq(Handshakes \cup Frames)
    OBVIOUS
  <2> QED BY <1>1, <2>1, <2>2 DEF LwsInv, LwsTypeOK
<1>3. FramesFollow'
  BY DEF LwsInv, FramesFollow, ESTABLISHED
<1> QED BY <1>2, <1>3 DEF LwsInv

LEMMA ConnectLws ==
  ASSUME LwsInv, wsi = "none", ConnectInProgress \/ ConnectAtOnce
  PROVE  LwsInv' /\ (fds' <=> wsi' \in Live) /\ wsi' \notin {"none", ESTABLISHED}
         /\ (was_closed' => was_closed \/ ~fds')
<1> USE DEF Live, WAITING_CONNECT, WAITING_SERVER_REPLY, ESTABLISHED
<1>1. CASE ConnectInProgress
  BY <1>1 DEF ConnectInProgress, LwsInv, LwsTypeOK, FramesFollow
<1>2. CASE ConnectAtOnce
  <2>1. CASE HandshakeFailed
    BY <2>1, CloseLws DEF HandshakeFailed
  <2>2. CASE /\ HandshakeSent
             /\ fds' = TRUE /\ tcp' = "up"
             /\ UNCHANGED <<pollout, inbound, server, turns, noise>>
    BY <2>2 DEF HandshakeSent, LwsInv, LwsTypeOK, FramesFollow
  <2> QED BY <1>2, <2>1, <2>2 DEF ConnectAtOnce
<1> QED BY <1>1, <1>2

LEMMA UnresolvedLws ==
  ASSUME LwsInv, ResolveFailed
  PROVE  LwsInv' /\ wsi' = "freed" /\ UNCHANGED <<fds, was_closed>>
BY DEF ResolveFailed, LwsInv, LwsTypeOK, FramesFollow, netVars, ESTABLISHED

LEMMA Pass2Lws ==
  ASSUME LwsInv, wsi = WAITING_CONNECT, ConnectPass2Up
  PROVE  /\ LwsInv'
         /\ \/ wsi' = WAITING_SERVER_REPLY /\ UNCHANGED <<fds, was_closed>>
            \/ wsi' = "freed" /\ fds' = FALSE
<1> USE DEF Live, WAITING_CONNECT, WAITING_SERVER_REPLY, ESTABLISHED
<1>1. CASE HandshakeFailed
  BY <1>1, CloseLws DEF HandshakeFailed
<1>2. CASE HandshakeSent /\ UNCHANGED <<fds, pollout>> /\ UNCHANGED netVars
  BY <1>2 DEF HandshakeSent, LwsInv, LwsTypeOK, FramesFollow, netVars
<1> QED BY <1>1, <1>2 DEF ConnectPass2Up

(* Nothing but frames is left behind a complete answer. *)
LEMMA HandshakeLws ==
  ASSUME LwsInv, HandshakeGood
  PROVE  LwsInv' /\ wsi' = ESTABLISHED /\ UNCHANGED <<fds, was_closed>>
<1> USE DEF LwsInv
<1>1. inbound' \in Seq(Frames) /\ server \notin {"silent", "partial"}
  <2>1. CASE inbound # <<>> /\ Head(inbound) = "HS_OK" /\ inbound' = Tail(inbound)
    BY <2>1 DEF FramesFollow
  <2>2. CASE Len(inbound) > 1 /\ inbound[1] = "HS_HEAD" /\ inbound[2] = "HS_TAIL"
             /\ inbound' = Tail(Tail(inbound))
    BY <2>2 DEF FramesFollow
  <2> QED BY <2>1, <2>2 DEF HandshakeGood
<1>2. /\ wsi' = ESTABLISHED /\ timer' = "off"
      /\ UNCHANGED <<fds, pollout, was_closed, tcp, server, turns, noise>>
  BY DEF HandshakeGood, Established
<1>3. inbound' \in Seq(Handshakes \cup Frames)
  BY <1>1
<1>4. LwsTypeOK'
  BY <1>2, <1>3 DEF LwsTypeOK, Live
<1>5. FramesFollow'
  <2>1. inbound' # <<>> => Head(inbound') \in Frames
    BY <1>1
  <2>2. Len(inbound') > 1 => inbound'[1] \in Frames
    BY <1>1
  <2> QED BY <1>1, <1>2, <2>1, <2>2 DEF FramesFollow, Frames
<1> QED BY <1>2, <1>4, <1>5

LEMMA StalledLws ==
  ASSUME LwsInv, wsi = WAITING_SERVER_REPLY, HandshakeStalled
  PROVE  LwsInv' /\ UNCHANGED lwsVars
BY DEF HandshakeStalled, LwsInv, LwsTypeOK, FramesFollow, lwsVars, ESTABLISHED,
       WAITING_SERVER_REPLY

LEMMA TailSeq ==
  ASSUME NEW E, NEW s \in Seq(E), s # <<>>
  PROVE  Tail(s) \in Seq(E)
OBVIOUS

LEMMA TailAppend ==
  ASSUME NEW E, NEW s \in Seq(E), s # <<>>, NEW x \in E
  PROVE  /\ Head(Append(s, x)) = Head(s)
         /\ Tail(Append(s, x)) = Append(Tail(s), x)
         /\ Tail(s) \in Seq(E) /\ Len(Tail(s)) = Len(s) - 1
OBVIOUS

LEMMA AppendFrame ==
  ASSUME NEW s \in Seq(Frames), NEW x \in Frames
  PROVE  Append(s, x) \in Seq(Frames)
OBVIOUS

(* The network delivers; it does not touch the library's variables. *)
LEMMA ServerSendLws ==
  ASSUME LwsInv, NEW item \in Handshakes \cup Frames, ServerSend(item)
  PROVE  LwsInv'
<1> USE DEF LwsInv
<1>1. /\ inbound' = Append(inbound, item)
      /\ inbound \in Seq(Handshakes \cup Frames)
      /\ UNCHANGED lwsVars /\ UNCHANGED tcp
      /\ wsi \in {WAITING_SERVER_REPLY, ESTABLISHED}
      /\ turns' \in 0 .. MaxTurns /\ noise' \in 0 .. MaxNoise
  BY BoundsAssumption DEF ServerSend, LwsTypeOK
<1>2. ServerStep(item)
  BY DEF ServerSend
<1>3. CASE item \in {"HS_OK", "HS_BAD", "HS_HEAD"}
  <2>1. server = "silent" /\ server' \in {"open", "done", "partial"}
        /\ (server' = "partial" => item = "HS_HEAD")
    BY <1>2, <1>3 DEF ServerStep
  <2>2. inbound' = <<item>> /\ wsi' = wsi /\ wsi # ESTABLISHED
    BY <1>1, <2>1 DEF FramesFollow, lwsVars
  <2>3. Tail(inbound') = <<>> /\ Len(inbound') = 1
    BY <2>2
  <2>4. LwsTypeOK'
    BY <1>1, <2>1 DEF LwsTypeOK, lwsVars
  <2>5. FramesFollow'
    BY <2>1, <2>2, <2>3 DEF FramesFollow
  <2> QED BY <2>4, <2>5
<1>4. CASE item = "HS_TAIL"
  <2>1. server = "partial" /\ server' = "open"
    BY <1>2, <1>4 DEF ServerStep
  <2>2. inbound \in {<<>>, <<"HS_HEAD">>} /\ wsi' = wsi /\ wsi # ESTABLISHED
    BY <1>1, <2>1 DEF FramesFollow, lwsVars
  <2>3. LwsTypeOK'
    BY <1>1, <2>1 DEF LwsTypeOK, lwsVars
  <2>4. CASE inbound = <<>>
    <3>1. Head(inbound') = "HS_TAIL" /\ Len(inbound') = 1
      BY <2>4, <1>1, <1>4
    <3> QED BY <2>1, <2>2, <2>3, <3>1 DEF FramesFollow
  <2>5. CASE inbound = <<"HS_HEAD">>
    <3>1. inbound # <<>> /\ Tail(inbound) = <<>> /\ Head(inbound) = "HS_HEAD"
      BY <2>5
    <3>2. Head(inbound') = "HS_HEAD" /\ Tail(inbound') = Append(<<>>, item)
      BY <3>1, <1>1, TailAppend, ZenonT(60)
    <3>3. Tail(Tail(inbound')) = <<>>
      BY <3>2
    <3>4. Tail(Tail(inbound')) \in Seq(Frames)
      <4>1. <<>> \in Seq(Frames)
        OBVIOUS
      <4> QED BY <3>3, <4>1, Zenon
    <3> QED BY <2>1, <2>2, <2>3, <3>2, <3>4 DEF FramesFollow
  <2> QED BY <2>2, <2>4, <2>5
<1>5. CASE item \in Frames
  <2>1. server = "open" /\ server' = "open"
    BY <1>2, <1>5 DEF ServerStep, Frames
  <2>2. LwsTypeOK'
    BY <1>1, <2>1 DEF LwsTypeOK, lwsVars
  <2>3. wsi' = wsi /\ (wsi = ESTABLISHED => inbound' \in Seq(Frames))
    BY <1>1, <1>5 DEF FramesFollow, lwsVars
  <2>4. inbound' # <<>> /\ Head(inbound') = "HS_OK" => Tail(inbound') \in Seq(Frames)
    <3>1. CASE inbound = <<>>
      BY <3>1, <1>1, <1>5 DEF Frames
    <3>2. CASE inbound # <<>>
      <4>1. Head(inbound') = Head(inbound) /\ Tail(inbound') = Append(Tail(inbound), item)
        BY <3>2, <1>1, TailAppend
      <4>2. Head(inbound) = "HS_OK" => Tail(inbound) \in Seq(Frames)
        BY <3>2 DEF FramesFollow
      <4>3. Head(inbound) = "HS_OK" => Append(Tail(inbound), item) \in Seq(Frames)
        BY <4>2, <1>5, AppendFrame
      <4> QED BY <4>1, <4>3
    <3> QED BY <3>1, <3>2
  <2>5. Len(inbound') > 1 /\ inbound'[1] = "HS_HEAD" /\ inbound'[2] = "HS_TAIL" =>
          Tail(Tail(inbound')) \in Seq(Frames)
    <3>1. CASE Len(inbound) < 2
      BY <3>1, <1>1, <1>5 DEF Frames
    <3>2. CASE Len(inbound) >= 2
      <4>1. inbound'[1] = inbound[1] /\ inbound'[2] = inbound[2]
        BY <3>2, <1>1
      <4>2. inbound # <<>> /\ Tail(inbound') = Append(Tail(inbound), item)
            /\ Tail(inbound) \in Seq(Handshakes \cup Frames) /\ Tail(inbound) # <<>>
        BY <3>2, <1>1, TailAppend, SMTT(60)
      <4>3. Tail(Tail(inbound')) = Append(Tail(Tail(inbound)), item)
        BY <4>2, TailAppend, ZenonT(60)
      <4>4. inbound[1] = "HS_HEAD" /\ inbound[2] = "HS_TAIL" =>
              Tail(Tail(inbound)) \in Seq(Frames)
        BY <3>2, <1>1 DEF FramesFollow
      <4>5. inbound[1] = "HS_HEAD" /\ inbound[2] = "HS_TAIL" =>
              Append(Tail(Tail(inbound)), item) \in Seq(Frames)
        BY <4>4, <1>5, AppendFrame
      <4> QED BY <4>1, <4>3, <4>5
    <3> QED BY <3>1, <3>2, <1>1
  <2> QED BY <2>1, <2>2, <2>3, <2>4, <2>5 DEF FramesFollow
<1> QED BY <1>3, <1>4, <1>5 DEF Handshakes

LEMMA NetworkLws ==
  ASSUME LwsInv, Network
  PROVE  LwsInv' /\ UNCHANGED <<wsi, fds, pollout, was_closed>>
<1>1. CASE \E item \in Handshakes \cup Frames : ServerSend(item)
  BY <1>1, ServerSendLws DEF ServerSend, lwsVars
<1>2. CASE ConnectionReset
  <2>1. UNCHANGED lwsVars /\ UNCHANGED <<server, turns, noise>> /\ tcp' = "rst"
    BY <1>2 DEF ConnectionReset
  <2>2. CASE inbound' = inbound
    BY <2>1, <2>2 DEF LwsInv, LwsTypeOK, FramesFollow, lwsVars
  <2>3. CASE inbound' = <<>>
    BY <2>1, <2>3 DEF LwsInv, LwsTypeOK, FramesFollow, lwsVars
  <2> QED BY <1>2, <2>2, <2>3 DEF ConnectionReset
<1>3. CASE TcpUp
  BY <1>3 DEF TcpUp, LwsInv, LwsTypeOK, FramesFollow, lwsVars
<1>4. CASE ServerFin
  BY <1>4 DEF ServerFin, LwsInv, LwsTypeOK, FramesFollow, lwsVars
<1>5. CASE Expire
  BY <1>5 DEF Expire, LwsInv, LwsTypeOK, FramesFollow, netVars
<1> QED BY <1>1, <1>2, <1>3, <1>4, <1>5 DEF Network

---------------------------------------------------------------------------
(* The steps of the thread *)

ThreadInv == Phases /\ SocketTable /\ QueueScheduled

(* poll(), the loop and the ways out of it. *)
LEMMA LoopSteps ==
  ASSUME WsInv, LoopTest \/ PollEvents \/ PollInterrupted \/ Signal
  PROVE  WsInv'
<1>1. LwsInv' /\ UNCHANGED <<wsi, fds, pollout, was_closed>>
  BY LwsSame DEF WsInv, LoopTest, PollEvents, PollInterrupted, Signal, lwsVars
<1>2. Revents \in [in : BOOLEAN, out : BOOLEAN, err : BOOLEAN]
  BY DEF Revents
<1>3. NoEvents \in [in : BOOLEAN, out : BOOLEAN, err : BOOLEAN]
  BY DEF NoEvents
<1>4. WsTypeOK'
  BY <1>2, <1>3 DEF WsInv, WsTypeOK, LoopTest, PollEvents, PollInterrupted, Signal,
       Goto, ServiceFails
<1>5. ThreadInv'
  BY <1>1 DEF WsInv, ThreadInv, Phases, SocketTable, QueueScheduled, Ended,
       LoopTest, PollEvents, PollInterrupted, Signal, Goto, ServiceFails
<1> QED BY <1>1, <1>4, <1>5 DEF WsInv, ThreadInv

LEMMA PollTimeoutStep ==
  ASSUME WsInv, PollTimeout
  PROVE  WsInv'
<1>1. WsTypeOK'
  BY DEF WsInv, WsTypeOK, PollTimeout, Goto
<1>2. CASE TimedOut
  <2>1. LwsInv' /\ wsi' = "freed" /\ fds' = FALSE /\ wsi \in Live
    BY <1>2, CloseLws DEF TimedOut, WsInv, SocketTable, PollTimeout, Ended
  <2>2. ThreadInv'
    BY <2>1 DEF WsInv, ThreadInv, Phases, SocketTable, QueueScheduled, Ended,
         PollTimeout, Goto, Live, WAITING_CONNECT, WAITING_SERVER_REPLY, ESTABLISHED
  <2> QED BY <1>1, <2>1, <2>2 DEF WsInv, ThreadInv
<1>3. CASE UNCHANGED lwsVars /\ UNCHANGED netVars
  <2>1. LwsInv' /\ UNCHANGED <<wsi, fds, pollout, was_closed>>
    BY <1>3, LwsSame DEF WsInv, lwsVars
  <2>2. ThreadInv'
    BY <2>1 DEF WsInv, ThreadInv, Phases, SocketTable, QueueScheduled, Ended,
         PollTimeout, Goto
  <2> QED BY <1>1, <2>1, <2>2 DEF WsInv, ThreadInv
<1> QED BY <1>2, <1>3 DEF PollTimeout

LEMMA ConnectSteps ==
  ASSUME WsInv, Connect \/ ConnectNull
  PROVE  WsInv'
<1>1. wsi = "none" /\ sendQueue = <<>> /\ LwsInv /\ pc = "connect" /\ fds = FALSE
  BY DEF WsInv, Phases, Connect, ConnectNull, ESTABLISHED, SocketTable, Live, Ended,
         WAITING_CONNECT, WAITING_SERVER_REPLY, LwsInv, LwsTypeOK
<1>2. WsTypeOK'
  BY DEF WsInv, WsTypeOK, Connect, ConnectNull
<1>3. CASE Connect
  <2>1. LwsInv' /\ (fds' <=> wsi' \in Live) /\ wsi' \notin {"none", ESTABLISHED}
        /\ (was_closed' => was_closed \/ ~fds')
    BY <1>1, <1>3, ConnectLws DEF Connect
  <2>2. Phases' /\ QueueScheduled'
    BY <1>1, <1>3, <2>1 DEF Connect, WsInv, Phases, QueueScheduled, Ended
  <2>3. ~was_closed /\ mSocket'
    BY <1>1, <1>3 DEF Connect, WsInv, Phases
  <2>4. SocketTable'
    BY <2>1, <2>3 DEF SocketTable
  <2> QED BY <1>2, <2>1, <2>2, <2>4 DEF WsInv
<1>4. CASE ConnectNull
  <2>1. LwsInv' /\ wsi' = "freed" /\ fds' = FALSE
    BY <1>1, <1>4, CloseLws, UnresolvedLws DEF ConnectNull, ConnectFailed
  <2>2. ThreadInv'
    BY <1>1, <1>4, <2>1
       DEF ConnectNull, WsInv, ThreadInv, Phases, SocketTable, QueueScheduled, Ended, Live,
           WAITING_CONNECT, WAITING_SERVER_REPLY, ESTABLISHED
  <2> QED BY <1>2, <2>1, <2>2 DEF WsInv, ThreadInv
<1> QED BY <1>3, <1>4

(* Every step that ends the connection: the entry goes, and so does the       *)
(* obligation to schedule the queue.                                       *)
LEMMA ClosingThread ==
  ASSUME WsInv, wsi' = "freed", fds' = FALSE,
         pc' \in {"loop", "exited", "destroyed"}, UNCHANGED mSocket,
         wsi # "none", mSocket \/ pc' \in Ended
  PROVE  ThreadInv'
BY DEF WsInv, ThreadInv, Phases, SocketTable, QueueScheduled, Ended, Live,
       WAITING_CONNECT, WAITING_SERVER_REPLY, ESTABLISHED

LEMMA EventIsLive ==
  ASSUME WsInv, pc \in {"event", "drain", "recv", "rx"}, fds \/ wsi \in Live
  PROVE  wsi \in Live /\ fds /\ mSocket
BY DEF WsInv, SocketTable, Ended

LEMMA EventTimedOutStep ==
  ASSUME WsInv, EventTimedOut
  PROVE  WsInv'
<1>1. LwsInv' /\ wsi' = "freed" /\ fds' = FALSE
  BY CloseLws DEF EventTimedOut, TimedOut, WsInv
<1>2. wsi # "none" /\ mSocket
  BY EventIsLive DEF EventTimedOut, TimedOut, Live, WAITING_CONNECT,
       WAITING_SERVER_REPLY, ESTABLISHED
<1>3. NoEvents \in [in : BOOLEAN, out : BOOLEAN, err : BOOLEAN]
  BY DEF NoEvents
<1>4. WsTypeOK'
  BY <1>3 DEF WsInv, WsTypeOK, EventTimedOut, BackToLoop
<1>5. ThreadInv'
  BY <1>1, <1>2, ClosingThread DEF EventTimedOut, BackToLoop
<1> QED BY <1>1, <1>4, <1>5 DEF WsInv, ThreadInv

LEMMA ServiceConnectStep ==
  ASSUME WsInv, ServiceConnect
  PROVE  WsInv'
<1>1. wsi = WAITING_CONNECT /\ fds /\ mSocket /\ pc = "event" /\ sendQueue = <<>>
  BY EventIsLive DEF ServiceConnect, Serviced, WsInv, Phases, Live, WAITING_CONNECT,
       ESTABLISHED
<1>2. NoEvents \in [in : BOOLEAN, out : BOOLEAN, err : BOOLEAN]
  BY DEF NoEvents
<1>3. WsTypeOK'
  BY <1>2 DEF WsInv, WsTypeOK, ServiceConnect, BackToLoop, ServiceFails
<1>4. CASE ConnectPass2Up /\ BackToLoop
  <2>1. /\ LwsInv'
        /\ \/ wsi' = WAITING_SERVER_REPLY /\ UNCHANGED <<fds, was_closed>>
           \/ wsi' = "freed" /\ fds' = FALSE
    BY <1>1, <1>4, Pass2Lws DEF WsInv
  <2>2. CASE wsi' = "freed" /\ fds' = FALSE
    <3>1. ThreadInv'
      BY <1>1, <1>4, <2>2, ClosingThread DEF BackToLoop, WAITING_CONNECT
    <3> QED BY <1>3, <2>1, <3>1 DEF WsInv, ThreadInv
  <2>3. CASE wsi' = WAITING_SERVER_REPLY /\ UNCHANGED <<fds, was_closed>>
    <3>1. ThreadInv'
      BY <1>1, <1>4, <2>3 DEF BackToLoop, WsInv, ThreadInv, Phases, SocketTable,
         QueueScheduled, Ended, Live, WAITING_CONNECT, WAITING_SERVER_REPLY, ESTABLISHED
    <3> QED BY <1>3, <2>1, <3>1 DEF WsInv, ThreadInv
  <2> QED BY <2>1, <2>2, <2>3
<1>5. CASE ConnectPass2Refused /\ ServiceFails
  <2>1. LwsInv' /\ wsi' = "freed" /\ fds' = FALSE
    BY <1>5, CloseLws DEF ConnectPass2Refused, WsInv
  <2>2. ThreadInv'
    BY <1>1, <1>5, <2>1, ClosingThread DEF ServiceFails, WAITING_CONNECT
  <2> QED BY <1>3, <2>1, <2>2 DEF WsInv, ThreadInv
<1>6. CASE ConnectPass2Unresolved /\ ServiceFails
  <2>1. LwsInv' /\ wsi' = "freed" /\ UNCHANGED <<fds, was_closed>>
    BY <1>6, UnresolvedLws DEF ConnectPass2Unresolved, WsInv
  <2>2. ThreadInv'
    BY <1>1, <1>6, <2>1 DEF ServiceFails, WsInv, ThreadInv, Phases, SocketTable,
       QueueScheduled, Ended, Live, WAITING_CONNECT, WAITING_SERVER_REPLY, ESTABLISHED
  <2> QED BY <1>3, <2>1, <2>2 DEF WsInv, ThreadInv
<1> QED BY <1>4, <1>5, <1>6 DEF ServiceConnect

LEMMA ServiceReplyStep ==
  ASSUME WsInv, ServiceReply
  PROVE  WsInv'
<1>1. wsi = WAITING_SERVER_REPLY /\ fds /\ mSocket /\ pc = "event" /\ sendQueue = <<>>
  BY EventIsLive DEF ServiceReply, Serviced, WsInv, Phases, Live, WAITING_SERVER_REPLY,
       ESTABLISHED
<1>2. NoEvents \in [in : BOOLEAN, out : BOOLEAN, err : BOOLEAN]
  BY DEF NoEvents
<1>3. WsTypeOK'
  BY <1>2 DEF WsInv, WsTypeOK, ServiceReply, BackToLoop, ServiceFails
<1>4. /\ pc' \in {"loop", "exited"}
      /\ UNCHANGED <<mSocket, sendQueue>>
  BY DEF ServiceReply, BackToLoop, ServiceFails
<1>5. CASE \E mode : close_and_free_session(mode)
  <2>1. LwsInv' /\ wsi' = "freed" /\ fds' = FALSE
    BY <1>5, CloseLws DEF WsInv
  <2>2. ThreadInv'
    BY <1>1, <1>4, <2>1, ClosingThread DEF WAITING_SERVER_REPLY
  <2> QED BY <1>3, <2>1, <2>2 DEF WsInv, ThreadInv
<1>6. CASE BackToLoop /\ LwsInv' /\ wsi' \in {wsi, ESTABLISHED} /\ UNCHANGED <<fds, was_closed>>
  <2>1. ThreadInv'
    BY <1>1, <1>6 DEF BackToLoop, WsInv, ThreadInv, Phases, SocketTable,
       QueueScheduled, Ended, Live, WAITING_CONNECT, WAITING_SERVER_REPLY, ESTABLISHED
  <2> QED BY <1>3, <1>6, <2>1 DEF WsInv, ThreadInv
<1>7. CASE BackToLoop /\ UNCHANGED lwsVars /\ UNCHANGED netVars
  BY <1>6, <1>7, LwsSame DEF WsInv, lwsVars
<1>8. CASE BackToLoop /\ HandshakeGood
  BY <1>6, <1>8, HandshakeLws DEF WsInv
<1>9. CASE BackToLoop /\ HandshakeStalled
  BY <1>1, <1>6, <1>9, StalledLws DEF WsInv, lwsVars
<1> QED BY <1>5, <1>7, <1>8, <1>9 DEF ServiceReply, HandshakeBad, HandshakeAbandoned

(* Established: writing, reading and handling what was read. *)
LEMMA EstablishedThread ==
  ASSUME WsInv, wsi = ESTABLISHED, UNCHANGED <<wsi, fds, was_closed, mSocket>>,
         pc \notin Ended, pc' \in {"loop", "drain", "recv", "rx"},
         sendQueue' # <<>> => pollout' \/ pc' = "drain"
  PROVE  ThreadInv'
BY DEF WsInv, ThreadInv, Phases, SocketTable, QueueScheduled, Ended, Live,
       WAITING_CONNECT, WAITING_SERVER_REPLY, ESTABLISHED

LEMMA ServiceEstablishedSteps ==
  ASSUME WsInv, ServiceWriteable \/ ServiceReadable
  PROVE  WsInv'
<1>1. wsi = ESTABLISHED /\ pc = "event" /\ LwsInv /\ pollout' \in BOOLEAN
  BY DEF ServiceWriteable, ServiceReadable, Serviced, WsInv, LwsInv, LwsTypeOK, lwsVars
<1>2. LwsInv' /\ UNCHANGED <<wsi, fds, was_closed>>
  BY <1>1 DEF ServiceWriteable, ServiceReadable, LwsInv, LwsTypeOK, FramesFollow,
       lwsVars, netVars
<1>3. WsTypeOK'
  BY DEF WsInv, WsTypeOK, ServiceWriteable, ServiceReadable, Goto
<1>4. sendQueue' # <<>> => pollout' \/ pc' = "drain"
  BY <1>1 DEF ServiceWriteable, ServiceReadable, Goto, WsInv, QueueScheduled, lwsVars
<1>5. ThreadInv'
  BY <1>1, <1>2, <1>4, EstablishedThread DEF ServiceWriteable, ServiceReadable, Goto, Ended
<1> QED BY <1>2, <1>3, <1>5 DEF WsInv, ThreadInv

LEMMA WriteSteps ==
  ASSUME WsInv, Write \/ WriteDone
  PROVE  WsInv'
<1>1. wsi = ESTABLISHED /\ pc = "drain"
  BY DEF Write, WriteDone, Pop, WsInv, Phases
<1>2. LwsInv' /\ UNCHANGED <<wsi, fds, was_closed, mSocket>>
  BY LwsSame DEF Write, WriteDone, Goto, WsInv, lwsVars
<1>3. CASE Write
  <2>1. sendQueue' \in Seq(Messages) /\ wire' \in Seq(Messages)
    BY <1>3 DEF Write, Pop, WsInv, WsTypeOK
  <2>2. cut' \in BOOLEAN
    BY <1>3 DEF Write, WsInv, WsTypeOK
  <2>3. WsTypeOK'
    BY <1>3, <2>1, <2>2 DEF Write, WsInv, WsTypeOK
  <2>4. ThreadInv'
    BY <1>1, <1>2, <1>3, EstablishedThread DEF Write, Ended
  <2> QED BY <1>2, <2>3, <2>4 DEF WsInv, ThreadInv
<1>4. CASE WriteDone
  <2>1. WsTypeOK'
    BY <1>4 DEF WriteDone, Goto, WsInv, WsTypeOK
  <2>2. ThreadInv'
    BY <1>1, <1>2, <1>4, EstablishedThread DEF WriteDone, Goto, Ended
  <2> QED BY <1>2, <2>1, <2>2 DEF WsInv, ThreadInv
<1> QED BY <1>3, <1>4

(* The established connection ends while it is written to or read from. *)
LEMMA EstablishedEnds ==
  ASSUME WsInv, WriteFails \/ RecvEnd \/ RxClose
  PROVE  WsInv'
<1>1. wsi = ESTABLISHED /\ pc \in {"drain", "recv", "rx"}
  BY DEF WriteFails, Pop, RecvEnd, RxClose, WsInv, Phases
<1>2. mSocket /\ wsi # "none"
  BY <1>1, EventIsLive DEF Live, ESTABLISHED
<1>3. LwsInv' /\ wsi' = "freed" /\ fds' = FALSE
  BY CloseLws DEF WriteFails, RecvEnd, RxClose, WsInv
<1>4. NoEvents \in [in : BOOLEAN, out : BOOLEAN, err : BOOLEAN]
  BY DEF NoEvents
<1>5. sendQueue' \in Seq(Messages)
  BY TailSeq, ZenonT(60) DEF WriteFails, Pop, RecvEnd, RxClose, BackToLoop, WsInv, WsTypeOK
<1>6. rxbuf' \in Seq(Frames)
  <2>1. rxbuf' \in {rxbuf, <<>>}
    BY DEF WriteFails, RecvEnd, RxClose, BackToLoop
  <2>2. <<>> \in Seq(Frames)
    OBVIOUS
  <2> QED BY <2>1, <2>2, Zenon DEF WsInv, WsTypeOK
<1>7. WsTypeOK'
  BY <1>4, <1>5, <1>6 DEF WriteFails, RecvEnd, RxClose, BackToLoop, WsInv, WsTypeOK
<1>8. ThreadInv'
  BY <1>2, <1>3, ClosingThread DEF WriteFails, RecvEnd, RxClose, BackToLoop
<1> QED BY <1>3, <1>7, <1>8 DEF WsInv, ThreadInv

LEMMA SubSeqFrames ==
  ASSUME NEW s \in Seq(Frames), NEW k \in 1 .. Len(s)
  PROVE  /\ SubSeq(s, 1, k) \in Seq(Frames)
         /\ SubSeq(s, k + 1, Len(s)) \in Seq(Frames)
OBVIOUS

LEMMA RecvStep ==
  ASSUME WsInv, Recv
  PROVE  WsInv'
<1>1. wsi = ESTABLISHED /\ pc = "recv" /\ inbound \in Seq(Frames)
  BY DEF Recv, WsInv, Phases, LwsInv, FramesFollow
<1>2. PICK k \in 1 .. Len(inbound) :
        /\ rxbuf' = SubSeq(inbound, 1, k)
        /\ inbound' = SubSeq(inbound, k + 1, Len(inbound))
  BY DEF Recv
<1>3. rxbuf' \in Seq(Frames) /\ inbound' \in Seq(Frames)
  BY <1>1, <1>2, SubSeqFrames
<1>4. UNCHANGED lwsVars /\ UNCHANGED <<tcp, server, turns, noise>>
  BY DEF Recv
<1>5. inbound' \in Seq(Handshakes \cup Frames)
  BY <1>3
<1>6. LwsTypeOK'
  BY <1>4, <1>5 DEF WsInv, LwsInv, LwsTypeOK, lwsVars
<1>7. FramesFollow'
  <2>1. inbound' # <<>> => Head(inbound') \in Frames
    BY <1>3
  <2>2. Len(inbound') > 1 => inbound'[1] \in Frames
    BY <1>3
  <2> QED BY <1>1, <1>3, <1>4, <2>1, <2>2 DEF WsInv, LwsInv, FramesFollow, Frames, lwsVars
<1>8. WsTypeOK'
  BY <1>3 DEF Recv, WsInv, WsTypeOK
<1>9. sendQueue' # <<>> => pollout'
  BY <1>1 DEF Recv, WsInv, QueueScheduled, lwsVars
<1>10. ThreadInv'
  BY <1>1, <1>4, <1>9, EstablishedThread DEF Recv, Ended, lwsVars
<1> QED BY <1>6, <1>7, <1>8, <1>10 DEF WsInv, LwsInv, ThreadInv

(* Frames that bring nothing to answer, and the end of what was read. *)
LEMMA QuietRxSteps ==
  ASSUME WsInv, RecvNothing \/ RxOther \/ RxDone
  PROVE  WsInv'
<1>1. wsi = ESTABLISHED /\ pc \in {"recv", "rx"}
  BY DEF RecvNothing, RxOther, RxFrame, RxDone, WsInv, Phases
<1>2. LwsInv' /\ UNCHANGED <<wsi, fds, was_closed, pollout>>
  BY LwsSame DEF RecvNothing, RxOther, RxDone, WsInv, lwsVars
<1>3. NoEvents \in [in : BOOLEAN, out : BOOLEAN, err : BOOLEAN]
  BY DEF NoEvents
<1>4. rxbuf' \in Seq(Frames)
  BY TailSeq, ZenonT(60) DEF RecvNothing, RxOther, RxFrame, RxDone, BackToLoop, WsInv, WsTypeOK
<1>5. WsTypeOK'
  BY <1>3, <1>4 DEF RecvNothing, RxOther, RxDone, BackToLoop, WsInv, WsTypeOK
<1>6. sendQueue' # <<>> => pollout'
  BY <1>1, <1>2 DEF RecvNothing, RxOther, RxDone, BackToLoop, WsInv, QueueScheduled
<1>7. ThreadInv'
  BY <1>1, <1>2, <1>6, EstablishedThread DEF RecvNothing, RxOther, RxDone, BackToLoop, Ended
<1> QED BY <1>2, <1>5, <1>7 DEF WsInv, ThreadInv

LEMMA ReplyType ==
  ASSUME NEW turn \in Nat, NEW n \in Nat
  PROVE  Reply(turn, n) \in Seq(Messages)
<1>1. Tweets(turn, n) \in Seq(Messages)
  BY DEF Tweets, Messages
<1>2. Put(turn) \in Messages
  BY DEF Put, Messages
<1> QED BY <1>1, <1>2 DEF Reply

LEMMA RxTurnStep ==
  ASSUME WsInv, NEW n \in 0 .. MaxTweets, RxTurn(n)
  PROVE  WsInv'
<1>1. wsi = ESTABLISHED /\ pc = "rx" /\ pollout' = TRUE
  BY DEF RxTurn, RxFrame, WsInv, Phases, callback_on_writable
<1>2. LwsInv'
  BY <1>1 DEF RxTurn, WsInv, LwsInv, LwsTypeOK, FramesFollow, netVars
<1>3. handled' \in Nat
  BY DEF RxTurn, WsInv, WsTypeOK
<1>4. sendQueue' \in Seq(Messages)
  <2>1. Reply(handled + 1, n) \in Seq(Messages)
    BY ReplyType, TweetsAssumption DEF WsInv, WsTypeOK
  <2> QED BY <2>1 DEF RxTurn, WsInv, WsTypeOK
<1>5. rxbuf' \in Seq(Frames)
  BY TailSeq DEF RxTurn, RxFrame, WsInv, WsTypeOK
<1>6. WsTypeOK'
  BY <1>3, <1>4, <1>5 DEF RxTurn, WsInv, WsTypeOK
<1>7. ThreadInv'
  BY <1>1, EstablishedThread DEF RxTurn, Ended
<1> QED BY <1>2, <1>6, <1>7 DEF WsInv, ThreadInv

LEMMA DestroySteps ==
  ASSUME WsInv, Destroy \/ DestroyFreed
  PROVE  WsInv'
<1>1. WsTypeOK' /\ pc' \in {"destroyed", "crashed"}
  BY DEF Destroy, DestroyFreed, Goto, WsInv, WsTypeOK
<1>2. LwsInv'
  <2>1. CASE fds /\ close_and_free_session(wsi)
    BY <2>1, CloseLws DEF WsInv
  <2>2. CASE UNCHANGED lwsVars /\ UNCHANGED netVars
    BY <2>2, LwsSame DEF WsInv
  <2>3. CASE DestroyFreed
    <3>1. fds' \in BOOLEAN /\ pollout' \in BOOLEAN /\ was_closed' \in BOOLEAN
      BY <2>3 DEF DestroyFreed, WsInv, LwsInv, LwsTypeOK
    <3> QED BY <2>3, <3>1
         DEF DestroyFreed, WsInv, LwsInv, LwsTypeOK, FramesFollow, netVars
  <2> QED BY <2>1, <2>2, <2>3 DEF Destroy
<1>3. fds' = FALSE /\ UNCHANGED <<mSocket, sendQueue>>
  BY DEF Destroy, DestroyFreed, Goto, WsInv, LwsInv, LwsTypeOK, lwsVars,
         close_and_free_session
<1>4. wsi' = "freed" \/ (UNCHANGED <<wsi, was_closed, pollout>> /\ pc = "exited")
  BY DEF Destroy, DestroyFreed, lwsVars, close_and_free_session
<1>5. ThreadInv'
  BY <1>1, <1>3, <1>4 DEF WsInv, ThreadInv, Phases, SocketTable, QueueScheduled, Ended,
     Live, WAITING_CONNECT, WAITING_SERVER_REPLY, ESTABLISHED
<1> QED BY <1>1, <1>2, <1>5 DEF WsInv, ThreadInv

LEMMA NetworkStep ==
  ASSUME WsInv, Network, UNCHANGED wsVars
  PROVE  WsInv'
<1>1. LwsInv' /\ UNCHANGED <<wsi, fds, pollout, was_closed>>
  BY NetworkLws DEF WsInv
<1>2. WsTypeOK'
  BY DEF WsInv, WsTypeOK, wsVars
<1>3. ThreadInv'
  BY <1>1 DEF WsInv, ThreadInv, Phases, SocketTable, QueueScheduled, Ended, wsVars
<1> QED BY <1>1, <1>2, <1>3 DEF WsInv, ThreadInv

LEMMA WsStep == WsInv /\ [Next]_vars => WsInv'
<1> SUFFICES ASSUME WsInv, [Next]_vars PROVE WsInv'
  OBVIOUS
<1>1. CASE Client
  BY <1>1, LoopSteps, PollTimeoutStep, ConnectSteps, EventTimedOutStep,
     ServiceConnectStep, ServiceReplyStep, ServiceEstablishedSteps, WriteSteps,
     EstablishedEnds, RecvStep, QuietRxSteps, RxTurnStep, DestroySteps DEF Client
<1>2. CASE Signal
  BY <1>2, LoopSteps
<1>3. CASE Network /\ UNCHANGED wsVars
  BY <1>3, NetworkStep
<1>4. CASE UNCHANGED vars
  <2>1. UNCHANGED lwsVars /\ UNCHANGED netVars /\ UNCHANGED wsVars
    BY <1>4 DEF vars, lwsVars, netVars, wsVars
  <2>2. LwsInv' /\ UNCHANGED <<wsi, fds, pollout, was_closed>>
    BY <2>1, LwsSame DEF WsInv, lwsVars
  <2>3. WsTypeOK'
    BY <2>1 DEF WsInv, WsTypeOK, wsVars
  <2>4. ThreadInv'
    BY <2>1, <2>2 DEF WsInv, ThreadInv, Phases, SocketTable, QueueScheduled, Ended, wsVars
  <2> QED BY <2>2, <2>3, <2>4 DEF WsInv, ThreadInv
<1> QED BY <1>1, <1>2, <1>3, <1>4 DEF Next

LEMMA WsInvariant == Spec => []WsInv
BY WsInit, WsStep, PTL DEF Spec

---------------------------------------------------------------------------
(* The theorems *)

(* Every variable of the thread, the connection and the network keeps its type, *)
(* however many turns, tweets and other frames there are.                      *)
THEOREM WsTypes == Spec => []TypeOK
<1>1. WsInv => TypeOK
  BY TypeParts DEF WsInv, LwsInv
<1> QED BY <1>1, WsInvariant, PTL

(* While run() runs, context->fds and the connection agree: poll() never reports *)
(* a freed wsi to libwebsocket_service_fd, mSocket is set for sendText(), and a    *)
(* connection whose end was reported is no longer polled.                          *)
THEOREM SocketTableAgrees == Spec => []SocketTable
<1>1. WsInv => SocketTable
  BY DEF WsInv
<1> QED BY <1>1, WsInvariant, PTL

(* sendText() and the LWS_CALLBACK_CLIENT_WRITEABLE handler never leave a message *)
(* in the queue of an established connection with no callback coming.              *)
THEOREM NoMessageStranded == Spec => []QueueScheduled
<1>1. WsInv => QueueScheduled
  BY DEF WsInv
<1> QED BY <1>1, WsInvariant, PTL

(* The steps that handle a turn or write take place on an established connection, *)
(* which is in fds; and a reported end leaves nothing in fds.                      *)
LEMMA QuietStep == WsInv /\ [Next]_vars => [was_closed => UNCHANGED <<handled, sendQueue, wire>>]_vars
<1> SUFFICES ASSUME WsInv, [Next]_vars, was_closed
             PROVE  UNCHANGED <<handled, sendQueue, wire>>
  OBVIOUS
<1>1. wsi # ESTABLISHED \/ pc \in Ended
  BY DEF WsInv, SocketTable, Live
<1>2. pc \notin {"drain", "recv", "rx"}
  BY <1>1 DEF WsInv, Phases, Ended
<1>3. CASE Client
  BY <1>2, <1>3
     DEF Client, LoopTest, PollEvents, PollTimeout, PollInterrupted, Connect, ConnectNull,
         EventTimedOut, ServiceConnect, ServiceReply, ServiceWriteable, ServiceReadable,
         Write, WriteFails, WriteDone, Pop, Recv, RecvNothing, RecvEnd, RxOther, RxTurn,
         RxFrame, RxClose, RxDone, Destroy, DestroyFreed, Goto, BackToLoop, ServiceFails
<1>4. CASE Signal
  BY <1>4 DEF Signal
<1>5. CASE (Network /\ UNCHANGED wsVars) \/ UNCHANGED vars
  BY <1>5 DEF wsVars, vars
<1> QED BY <1>3, <1>4, <1>5 DEF Next

(* No turn is handled and nothing is queued or written once CLOSED or            *)
(* CLIENT_CONNECTION_ERROR has reached callback_func.                              *)
THEOREM SilentAfterClose == Spec => QuietAfterClose
BY WsInvariant, QuietStep, PTL DEF Spec, QuietAfterClose

---------------------------------------------------------------------------
(* The session that the thread implements: its answers stay in order, for every *)
(* number of turns and tweets.                                                 *)

(* No message is of a turn that has not been handled. *)
PastTurns == \A i \in DOMAIN S!Out : S!Out[i].turn <= handled

(* Every turn has its Put. *)
Answered == \A turn \in 1 .. handled : \E i \in DOMAIN S!Out : S!Out[i] = S!Put(turn)

SessionInv == S!TypeOK /\ S!Ordered(S!Out) /\ PastTurns /\ (Phase # "over" => Answered)

LEMMA OutType ==
  ASSUME S!TypeOK
  PROVE  S!Out \in Seq(S!Messages)
BY DEF S!TypeOK, S!Out

LEMMA SessionInit == S!Init => SessionInv
<1> SUFFICES ASSUME S!Init PROVE SessionInv
  OBVIOUS
<1>1. S!TypeOK
  <2>1. sendQueue \in Seq(S!Messages) /\ wire \in Seq(S!Messages)
    BY DEF S!Init
  <2> QED BY <2>1 DEF S!Init, S!TypeOK
<1>2. S!Out = <<>>
  BY DEF S!Init, S!Out
<1> QED BY <1>1, <1>2 DEF SessionInv, S!Ordered, PastTurns, Answered, S!Init

(* The tweets of a turn. *)
LEMMA TweetParts ==
  ASSUME NEW turn \in Nat, NEW n \in Nat
  PROVE  /\ S!Tweets(turn, n) \in Seq(S!Messages) /\ Len(S!Tweets(turn, n)) = n
         /\ \A k \in 1 .. n : S!Tweets(turn, n)[k] = [kind |-> "Tweet", turn |-> turn]
BY DEF S!Tweets, S!Messages

(* Concatenation by places. *)
LEMMA ConcatPlaces ==
  ASSUME NEW M, NEW s \in Seq(M), NEW t \in Seq(M)
  PROVE  /\ s \o t \in Seq(M) /\ Len(s \o t) = Len(s) + Len(t)
         /\ \A k \in 1 .. Len(s) : (s \o t)[k] = s[k]
         /\ \A k \in (Len(s) + 1) .. (Len(s) + Len(t)) : (s \o t)[k] = t[k - Len(s)]
OBVIOUS

LEMMA ConcatGroups ==
  ASSUME NEW M, NEW s \in Seq(M), NEW t \in Seq(M), NEW u \in Seq(M)
  PROVE  (s \o t) \o u = s \o (t \o u)
OBVIOUS

LEMMA AnswerStep ==
  ASSUME SessionInv, NEW n \in 0 .. MaxTweets, S!Answer(n)
  PROVE  SessionInv'
<1>0. PICK r : r = Append(S!Tweets(handled + 1, n), S!Put(handled + 1))
  OBVIOUS
<1>1. n \in Nat /\ handled \in Nat /\ handled' = handled + 1
  BY DEF SessionInv, S!TypeOK, S!Answer
<1>2. /\ r \in Seq(S!Messages) /\ Len(r) = n + 1 /\ r[n + 1] = S!Put(handled + 1)
      /\ \A k \in 1 .. n : r[k] = [kind |-> "Tweet", turn |-> handled + 1]
  <2>1. PICK turn \in Nat : turn = handled + 1
    BY <1>1
  <2>2. r = Append(S!Tweets(turn, n), S!Put(turn))
    BY <1>0, <2>1
  <2>3. /\ r \in Seq(S!Messages) /\ Len(r) = n + 1 /\ r[n + 1] = S!Put(turn)
        /\ \A k \in 1 .. n : r[k] = [kind |-> "Tweet", turn |-> turn]
    <3>1. /\ S!Tweets(turn, n) \in Seq(S!Messages) /\ Len(S!Tweets(turn, n)) = n
          /\ \A k \in 1 .. n : S!Tweets(turn, n)[k] = [kind |-> "Tweet", turn |-> turn]
      BY <1>1, TweetParts
    <3>2. S!Put(turn) \in S!Messages
      BY DEF S!Put, S!Messages
    <3> QED BY <1>1, <2>2, <3>1, <3>2
  <2> QED BY <2>1, <2>3
<1>3. S!Out \in Seq(S!Messages)
  BY OutType DEF SessionInv
<1>4. S!Out' = S!Out \o r
  <2>1. sendQueue' = sendQueue \o r /\ wire' = wire /\ sendQueue \in Seq(S!Messages) /\ wire \in Seq(S!Messages)
    BY <1>0 DEF S!Answer, SessionInv, S!TypeOK
  <2>2. sendQueue \in Seq(S!Messages) /\ wire \in Seq(S!Messages) /\ r \in Seq(S!Messages)
    BY <1>2, <2>1
  <2>3. (wire \o sendQueue) \o r = wire \o (sendQueue \o r)
    BY <2>2, ConcatGroups, SMTT(60)
  <2> QED BY <2>1, <2>3 DEF S!Out
<1>5. S!TypeOK'
  <2>1. sendQueue' \in Seq(S!Messages)
    BY <1>0, <1>2 DEF S!Answer, SessionInv, S!TypeOK
  <2> QED BY <1>1, <2>1 DEF S!Answer, SessionInv, S!TypeOK
<1>6. /\ S!Out' \in Seq(S!Messages) /\ Len(S!Out') = Len(S!Out) + n + 1
      /\ \A k \in 1 .. Len(S!Out) : S!Out'[k] = S!Out[k]
      /\ \A k \in (Len(S!Out) + 1) .. (Len(S!Out) + n + 1) : S!Out'[k] = r[k - Len(S!Out)]
  <2>1. /\ S!Out' \in Seq(S!Messages) /\ Len(S!Out') = Len(S!Out) + Len(r)
        /\ \A k \in 1 .. Len(S!Out) : S!Out'[k] = S!Out[k]
        /\ \A k \in (Len(S!Out) + 1) .. (Len(S!Out) + Len(r)) : S!Out'[k] = r[k - Len(S!Out)]
    BY <1>2, <1>3, <1>4, ConcatPlaces, ZenonT(60)
  <2>2. Len(S!Out) \in Nat /\ Len(S!Out) + Len(r) = Len(S!Out) + n + 1
    BY <1>1, <1>2, <1>3
  <2> QED BY <2>1, <2>2
<1>7. \A k \in DOMAIN S!Out' : k > Len(S!Out) =>
        S!Out'[k].turn = handled + 1 /\ (k < Len(S!Out') => S!Out'[k].kind = "Tweet")
  <2> SUFFICES ASSUME NEW k \in DOMAIN S!Out', k > Len(S!Out)
               PROVE  S!Out'[k].turn = handled + 1 /\ (k < Len(S!Out') => S!Out'[k].kind = "Tweet")
    OBVIOUS
  <2>1. Len(S!Out) \in Nat /\ k \in (Len(S!Out) + 1) .. (Len(S!Out) + n + 1) /\ S!Out'[k] = r[k - Len(S!Out)]
    BY <1>1, <1>3, <1>6, SMTT(60)
  <2>2. CASE k - Len(S!Out) \in 1 .. n
    BY <1>2, <2>1, <2>2
  <2>3. CASE k - Len(S!Out) = n + 1
    BY <1>2, <1>6, <2>1, <2>3 DEF S!Put
  <2> QED BY <1>1, <2>1, <2>2, <2>3
<1>8. \A k \in 1 .. Len(S!Out) : k \in DOMAIN S!Out /\ S!Out'[k] = S!Out[k] /\ S!Out[k].turn <= handled /\ S!Out[k].turn \in Nat
  <2> SUFFICES ASSUME NEW k \in 1 .. Len(S!Out)
               PROVE  k \in DOMAIN S!Out /\ S!Out'[k] = S!Out[k] /\ S!Out[k].turn <= handled /\ S!Out[k].turn \in Nat
    OBVIOUS
  <2>1. k \in DOMAIN S!Out /\ S!Out[k] \in S!Messages
    BY <1>3
  <2> QED BY <1>6, <2>1 DEF SessionInv, PastTurns, S!Messages
<1>9. S!Ordered(S!Out')
  <2> SUFFICES ASSUME NEW i \in DOMAIN S!Out', NEW j \in DOMAIN S!Out', i < j
               PROVE  \/ S!Out'[i].turn < S!Out'[j].turn
                      \/ S!Out'[i].turn = S!Out'[j].turn /\ S!Out'[i].kind = "Tweet"
    BY DEF S!Ordered
  <2>1. i \in 1 .. Len(S!Out') /\ j \in 1 .. Len(S!Out') /\ Len(S!Out') \in Nat /\ Len(S!Out) \in Nat
    BY <1>3, <1>6
  <2>2. CASE j <= Len(S!Out)
    BY <1>8, <2>1, <2>2 DEF SessionInv, S!Ordered
  <2>3. CASE j > Len(S!Out) /\ i <= Len(S!Out)
    BY <1>1, <1>7, <1>8, <2>1, <2>3
  <2>4. CASE j > Len(S!Out) /\ i > Len(S!Out)
    BY <1>7, <2>1, <2>4
  <2> QED BY <2>1, <2>2, <2>3, <2>4
<1>10. PastTurns'
  <2> SUFFICES ASSUME NEW k \in DOMAIN S!Out' PROVE S!Out'[k].turn <= handled'
    BY DEF PastTurns
  <2>1. k \in 1 .. Len(S!Out') /\ Len(S!Out) \in Nat
    BY <1>3, <1>6
  <2> QED BY <1>1, <1>7, <1>8, <2>1
<1>11. Answered'
  <2> SUFFICES ASSUME NEW turn \in 1 .. handled' PROVE \E i \in DOMAIN S!Out' : S!Out'[i] = S!Put(turn)
    BY DEF Answered
  <2>0. Len(S!Out) \in Nat /\ DOMAIN S!Out = 1 .. Len(S!Out) /\ DOMAIN S!Out' = 1 .. Len(S!Out')
    BY <1>3, <1>6
  <2>1. CASE turn \in 1 .. handled
    <3>1. PICK i \in DOMAIN S!Out : S!Out[i] = S!Put(turn)
      BY <2>1 DEF SessionInv, Answered, S!Answer
    <3> QED BY <1>1, <1>6, <2>0, <3>1
  <2>2. CASE turn = handled + 1
    <3>1. Len(S!Out) + n + 1 \in DOMAIN S!Out' /\ S!Out'[Len(S!Out) + n + 1] = S!Put(handled + 1)
      BY <1>1, <1>2, <1>6, <2>0, SMTT(60)
    <3> QED BY <2>2, <3>1
  <2> QED BY <1>1, <2>1, <2>2
<1> QED BY <1>5, <1>9, <1>10, <1>11 DEF SessionInv

LEMMA SendStep ==
  ASSUME SessionInv, S!Send
  PROVE  SessionInv'
<1>1. sendQueue \in Seq(S!Messages) /\ wire \in Seq(S!Messages) /\ sendQueue # <<>>
  BY DEF SessionInv, S!TypeOK, S!Send
<1>2. S!Out' = S!Out
  BY <1>1 DEF S!Out, S!Send
<1>3. S!TypeOK'
  <2>1. sendQueue' \in Seq(S!Messages) /\ wire' \in Seq(S!Messages)
    BY <1>1 DEF S!Send
  <2> QED BY <2>1 DEF S!Send, SessionInv, S!TypeOK
<1> QED BY <1>2, <1>3 DEF SessionInv, PastTurns, Answered, S!Send

(* The end: what is left of the messages is in the order it was. *)
LEMMA EndStep ==
  ASSUME SessionInv, S!End
  PROVE  SessionInv'
<1>1. sendQueue \in Seq(S!Messages) /\ wire \in Seq(S!Messages) /\ S!Out \in Seq(S!Messages)
  BY OutType DEF SessionInv, S!TypeOK
<1>2. CASE sendQueue' = sendQueue
  BY <1>2, SMTT(60) DEF S!End, SessionInv, S!TypeOK, S!Ordered, PastTurns, S!Out
<1>3. CASE sendQueue # <<>> /\ sendQueue' = Tail(sendQueue)
  <2>1. S!TypeOK'
    <3>1. sendQueue' \in Seq(S!Messages)
      BY <1>1, <1>3
    <3> QED BY <3>1 DEF S!End, SessionInv, S!TypeOK
  <2>2. S!Out' = wire \o Tail(sendQueue) /\ S!Out = wire \o sendQueue
    BY <1>3 DEF S!End, S!Out
  <2>3. \A k \in DOMAIN S!Out' :
          /\ k \in Nat
          /\ k <= Len(wire) => k \in DOMAIN S!Out /\ S!Out'[k] = S!Out[k]
          /\ k > Len(wire) => k + 1 \in DOMAIN S!Out /\ S!Out'[k] = S!Out[k + 1]
    BY <1>1, <1>3, <2>2, SMTT(60)
  <2>4. S!Ordered(S!Out')
    <3> SUFFICES ASSUME NEW i \in DOMAIN S!Out', NEW j \in DOMAIN S!Out', i < j
                 PROVE  \/ S!Out'[i].turn < S!Out'[j].turn
                        \/ S!Out'[i].turn = S!Out'[j].turn /\ S!Out'[i].kind = "Tweet"
      BY DEF S!Ordered
    <3>1. PICK p \in DOMAIN S!Out : S!Out'[i] = S!Out[p] /\ (p = i \/ (p = i + 1 /\ i > Len(wire)))
      BY <1>1, <2>3, SMTT(60)
    <3>2. PICK q \in DOMAIN S!Out : S!Out'[j] = S!Out[q] /\ ((q = j /\ j <= Len(wire)) \/ q = j + 1)
      BY <1>1, <2>3
    <3>3. p < q
      BY <1>1, <2>3, <3>1, <3>2
    <3> QED BY <3>1, <3>2, <3>3 DEF SessionInv, S!Ordered
  <2>5. PastTurns'
    BY <1>1, <2>3 DEF SessionInv, PastTurns, S!End
  <2> QED BY <2>1, <2>4, <2>5 DEF SessionInv, S!End
<1> QED BY <1>2, <1>3 DEF S!End

LEMMA SessionStep == SessionInv /\ [S!Next]_(S!vars) => SessionInv'
<1> SUFFICES ASSUME SessionInv, [S!Next]_(S!vars) PROVE SessionInv'
  OBVIOUS
<1>1. CASE S!Open
  <2>1. S!Out' = S!Out /\ handled' = handled /\ Phase = "new" /\ Phase' = "open"
    BY <1>1 DEF S!Open, S!Out
  <2>2. S!TypeOK'
    BY <1>1 DEF S!Open, SessionInv, S!TypeOK
  <2> QED BY <2>1, <2>2 DEF SessionInv, PastTurns, Answered
<1>2. CASE UNCHANGED S!vars
  <2>1. S!Out' = S!Out /\ handled' = handled /\ Phase' = Phase
    BY <1>2 DEF S!vars, S!Out
  <2>2. S!TypeOK'
    BY <1>2 DEF S!vars, SessionInv, S!TypeOK
  <2> QED BY <2>1, <2>2 DEF SessionInv, PastTurns, Answered
<1> QED BY <1>1, <1>2, AnswerStep, SendStep, EndStep DEF S!Next

(* A session answers every turn, in order and once, until it is over. *)
THEOREM SessionAnswers == S!Safe => []S!AnswersInOrder
<1>1. SessionInv => S!AnswersInOrder
  BY DEF SessionInv, S!AnswersInOrder, Answered
<1> QED BY <1>1, SessionInit, SessionStep, PTL DEF S!Safe

---------------------------------------------------------------------------
(* The refinement: every step of the thread is a step of Session or leaves it *)
(* where it is.                                                               *)

(* Closing frees the connection and forgets no report. *)
LEMMA Closed ==
  ASSUME NEW mode, close_and_free_session(mode)
  PROVE  wsi' = "freed" /\ (was_closed => was_closed')
BY Zenon DEF close_and_free_session

(* What is over stays over, and an open session never becomes new. *)
LEMMA Onward ==
  ASSUME WsInv, [Next]_vars
  PROVE  /\ was_closed => was_closed'
         /\ pc \in Ended => pc' \in Ended
         /\ wsi = "freed" => wsi' = "freed"
         /\ wsi = ESTABLISHED => wsi' \in {ESTABLISHED, "freed"}
<1> USE DEF Ended, WAITING_CONNECT, WAITING_SERVER_REPLY, ESTABLISHED, lwsVars
<1>1. CASE Connect \/ ConnectNull
  <2>1. wsi = "none" /\ pc = "connect"
    BY <1>1 DEF Connect, ConnectNull, WsInv, Phases
  <2> QED BY <1>1, <2>1, Closed DEF Connect, ConnectNull, ConnectInProgress, ConnectAtOnce, HandshakeSent,
            HandshakeFailed, ConnectFailed, ResolveFailed, WsInv, Phases
<1>2. CASE ServiceConnect
  BY <1>2, Closed DEF ServiceConnect, Serviced, ConnectPass2Up, HandshakeSent, HandshakeFailed, BackToLoop,
              ConnectPass2Refused, ConnectPass2Unresolved, ResolveFailed, ServiceFails
<1>3. CASE ServiceReply
  BY <1>3, Closed DEF ServiceReply, Serviced, HandshakeGood, Established, HandshakeBad,
              HandshakeStalled, HandshakeAbandoned, ServiceFails, BackToLoop
<1>4. CASE LoopTest \/ PollEvents \/ PollTimeout \/ PollInterrupted \/ Signal
  BY <1>4, Closed DEF LoopTest, PollEvents, PollTimeout, PollInterrupted, Signal, TimedOut, Goto, ServiceFails
<1>5. CASE EventTimedOut \/ ServiceWriteable \/ ServiceReadable
  BY <1>5, Closed DEF EventTimedOut, ServiceWriteable, ServiceReadable, Serviced, TimedOut, Goto, BackToLoop
<1>6. CASE Write \/ WriteFails \/ WriteDone
  <2>1. CASE WriteFails
    BY <2>1, Closed DEF WriteFails, Pop
  <2>2. CASE Write
    <3>1. UNCHANGED <<wsi, was_closed, pc>>
      BY <2>2 DEF Write
    <3> QED BY <3>1
  <2>3. CASE WriteDone
    BY <2>3 DEF WriteDone, Goto
  <2> QED BY <1>6, <2>1, <2>2, <2>3
<1>7. CASE Recv \/ RecvNothing \/ RecvEnd \/ RxOther \/ (\E n \in 0 .. MaxTweets : RxTurn(n)) \/ RxClose \/ RxDone
  BY <1>7, Closed DEF Recv, RecvNothing, RecvEnd, RxOther, RxTurn, RxFrame, RxClose, RxDone, BackToLoop
<1>8. CASE Destroy \/ DestroyFreed
  <2>1. CASE Destroy
    BY <2>1, Closed DEF Destroy, Goto
  <2>2. CASE DestroyFreed
    <3>1. was_closed => was_closed'
      BY <2>2, Zenon DEF DestroyFreed
    <3> QED BY <2>2, <3>1 DEF DestroyFreed, Goto
  <2> QED BY <1>8, <2>1, <2>2
<1>9. CASE (Network /\ UNCHANGED wsVars) \/ UNCHANGED vars
  <2>1. UNCHANGED <<wsi, was_closed, pc>>
    BY <1>9, NetworkLws DEF WsInv, wsVars, vars
  <2> QED BY <2>1
<1> QED BY <1>1, <1>2, <1>3, <1>4, <1>5, <1>6, <1>7, <1>8, <1>9 DEF Next, Client

(* A step that leaves the messages alone. *)
LEMMA SilentRefines ==
  ASSUME WsInv, [Next]_vars, UNCHANGED <<handled, sendQueue, wire>>
  PROVE  [S!Next]_(S!vars)
<1>1. /\ Phase = "over" => Phase' = "over"
      /\ Phase = "open" => Phase' \in {"open", "over"}
      /\ Phase \in {"new", "open", "over"} /\ Phase' \in {"new", "open", "over"}
  BY Onward DEF Phase, Ended, ESTABLISHED
<1>2. CASE Phase' = Phase
  BY <1>2 DEF S!vars
<1>3. CASE Phase = "new" /\ Phase' = "open"
  BY <1>3 DEF S!Next, S!Open
<1>4. CASE Phase # "over" /\ Phase' = "over"
  BY <1>4 DEF S!Next, S!End
<1> QED BY <1>1, <1>2, <1>3, <1>4

(* On an established connection in service the session is open. *)
LEMMA InService ==
  ASSUME WsInv, pc \in {"drain", "recv", "rx"}
  PROVE  Phase = "open" /\ ~was_closed /\ wsi = ESTABLISHED
<1>1. wsi = ESTABLISHED /\ pc \notin Ended
  BY DEF WsInv, Phases, Ended
<1>2. fds /\ ~was_closed
  BY <1>1 DEF WsInv, SocketTable, Live, LwsInv, LwsTypeOK
<1> QED BY <1>1, <1>2 DEF Phase, ESTABLISHED

LEMMA RefineStep == WsInv /\ [Next]_vars => [S!Next]_(S!vars)
<1> SUFFICES ASSUME WsInv, [Next]_vars PROVE [S!Next]_(S!vars)
  OBVIOUS
<1>1. CASE \E n \in 0 .. MaxTweets : RxTurn(n)
  <2>1. PICK n \in 0 .. MaxTweets : RxTurn(n)
    BY <1>1
  <2>2. Phase = "open" /\ pc = "rx" /\ ~was_closed /\ wsi = ESTABLISHED
    BY <2>1, InService DEF RxTurn, RxFrame
  <2>3. Phase' = "open"
    BY <2>1, <2>2 DEF RxTurn, Phase, Ended, ESTABLISHED
  <2>4. S!Answer(n)
    BY <2>1, <2>2, <2>3 DEF RxTurn, Reply, Tweets, Put, S!Answer, S!Tweets, S!Put
  <2> QED BY <2>1, <2>4 DEF S!Next
<1>2. CASE Write
  <2>1. Phase = "open" /\ pc = "drain" /\ ~was_closed /\ wsi = ESTABLISHED
    BY <1>2, InService DEF Write, Pop
  <2>2. Phase' = "open"
    BY <1>2, <2>1 DEF Write, Phase, Ended, ESTABLISHED, lwsVars
  <2>3. S!Send
    BY <1>2, <2>1, <2>2 DEF Write, Pop, S!Send
  <2> QED BY <2>3 DEF S!Next
<1>3. CASE WriteFails
  <2>1. Phase = "open"
    BY <1>3, InService DEF WriteFails, Pop
  <2>2. Phase' = "over"
    <3>1. wsi' = "freed"
      BY <1>3, Closed DEF WriteFails
    <3> QED BY <3>1 DEF Phase, ESTABLISHED
  <2>3. S!End
    BY <1>3, <2>1, <2>2 DEF WriteFails, Pop, S!End
  <2> QED BY <2>3 DEF S!Next
<1>4. CASE LoopTest \/ PollEvents \/ PollTimeout \/ PollInterrupted \/ Connect \/ ConnectNull
        \/ EventTimedOut \/ ServiceConnect \/ ServiceReply \/ ServiceWriteable \/ ServiceReadable
        \/ WriteDone \/ Recv \/ RecvNothing \/ RecvEnd \/ RxOther \/ RxClose \/ RxDone
        \/ Destroy \/ DestroyFreed \/ Signal
  <2>1. UNCHANGED <<handled, sendQueue, wire>>
    BY <1>4 DEF LoopTest, PollEvents, PollTimeout, PollInterrupted, Connect, ConnectNull,
         EventTimedOut, ServiceConnect, ServiceReply, ServiceWriteable, ServiceReadable,
         WriteDone, Recv, RecvNothing, RecvEnd, RxOther, RxClose, RxDone, Destroy, DestroyFreed,
         Signal, Goto, BackToLoop, ServiceFails
  <2> QED BY <2>1, SilentRefines
<1>5. CASE (Network /\ UNCHANGED wsVars) \/ UNCHANGED vars
  <2>1. UNCHANGED <<handled, sendQueue, wire>>
    BY <1>5 DEF wsVars, vars
  <2> QED BY <2>1, SilentRefines
<1> QED BY <1>1, <1>2, <1>3, <1>4, <1>5 DEF Next, Client

LEMMA RefineInit == Init => S!Init
BY DEF Init, LwsInit, S!Init, Phase, Ended, ESTABLISHED

(* The thread, with the library, the network, the clock and SIGINT around it, does   *)
(* what Session promises, for every number of turns, tweets and other frames.          *)
THEOREM ThreadIsSession == Spec => S!Safe
BY WsInvariant, RefineInit, RefineStep, PTL DEF Spec, S!Safe

(* So every turn is answered, in order and once, as long as the session is not over. *)
THEOREM TurnsAnswered == Spec => []S!AnswersInOrder
BY ThreadIsSession, SessionAnswers, PTL

=============================================================================
