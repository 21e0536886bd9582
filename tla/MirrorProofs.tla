---------------------------- MODULE MirrorProofs ----------------------------
(***************************************************************************)
(* The mirror server, for every set of clients, every size of the ring and  *)
(* every number of messages: input that is kept back is never overtaken,    *)
(* a client that is not lapped is written the messages of the ring in       *)
(* order, and a client loses a message only next to another client's.       *)
(***************************************************************************)
EXTENDS Mirror, FiniteSetTheorems, TLAPS

---------------------------------------------------------------------------
(* Positions modulo the size of the ring *)

LEMMA DivMod ==
  ASSUME NEW x \in Int, NEW Q \in Nat, Q > 0
  PROVE  /\ x % Q \in 0 .. Q - 1
         /\ x \div Q \in Int
         /\ x = Q * (x \div Q) + (x % Q)
OBVIOUS

LEMMA ModUnique ==
  ASSUME NEW x \in Int, NEW Q \in Nat, Q > 0, NEW q \in Int, NEW r \in 0 .. Q - 1, x = Q * q + r
  PROVE  x % Q = r
<1> DEFINE p == x \div Q
           s == x % Q
<1>1. s \in 0 .. Q - 1 /\ p \in Int /\ x = Q * p + s
  BY DivMod
<1> HIDE DEF p, s
<1>2. Q * (p - q) = r - s
  BY <1>1
<1>3. CASE p = q
  BY <1>1, <1>3 DEF s
<1>4. CASE p - q >= 1
  <2>1. Q * (p - q) >= Q
    BY <1>1, <1>4
  <2> QED BY <1>1, <1>2, <2>1
<1>5. CASE q - p >= 1
  <2>1. Q * (q - p) >= Q
    BY <1>1, <1>5
  <2> QED BY <1>1, <1>2, <2>1
<1> QED BY <1>1, <1>3, <1>4, <1>5

LEMMA ModAdd ==
  ASSUME NEW x \in Int, NEW k \in Int, NEW Q \in Nat, Q > 0
  PROVE  ((x % Q) + k) % Q = (x + k) % Q
<1> DEFINE q == x \div Q
           r == x % Q
           y == x + k
           u == y \div Q
           w == y % Q
<1>1. q \in Int /\ r \in Int /\ x = Q * q + r
  BY DivMod
<1>2. y \in Int /\ u \in Int /\ w \in 0 .. Q - 1 /\ y = Q * u + w
  BY DivMod
<1> HIDE DEF q, r, u, w
<1> DEFINE z == r + k
           e == u - q
<1>3. z \in Int /\ z = Q * e + w /\ e \in Int
  BY <1>1, <1>2
<1> HIDE DEF z, e
<1>4. z % Q = w
  BY <1>2, <1>3, ModUnique
<1> QED BY <1>4 DEF r, w, z

LEMMA ModEqual ==
  ASSUME NEW x \in Int, NEW y \in Int, NEW Q \in Nat, Q > 0, x <= y, y - x < Q
  PROVE  /\ ((y % Q) - (x % Q)) % Q = y - x
         /\ x % Q = y % Q => x = y
<1> DEFINE q == x \div Q
           r == x % Q
           u == y \div Q
           w == y % Q
           d == y - x
<1>1. q \in Int /\ r \in 0 .. Q - 1 /\ x = Q * q + r
  BY DivMod
<1>2. u \in Int /\ w \in 0 .. Q - 1 /\ y = Q * u + w
  BY DivMod
<1>d. d \in 0 .. Q - 1
  OBVIOUS
<1> HIDE DEF q, r, u, w
<1>3. w - r = Q * (q - u) + d /\ q - u \in Int /\ w - r \in Int
  BY <1>1, <1>2
<1> HIDE DEF d
<1>4. (w - r) % Q = d
  BY <1>d, <1>3, ModUnique
<1>5. ASSUME w = r PROVE d = 0
  <2>1. w - r = Q * 0 + 0 /\ 0 \in 0 .. Q - 1
    BY <1>1, <1>2, <1>5
  <2>2. (w - r) % Q = 0
    BY <2>1, <1>3, ModUnique
  <2> QED BY <2>2, <1>4
<1> QED BY <1>4, <1>5 DEF r, w, d

LEMMA ModDiffer ==
  ASSUME NEW x \in Int, NEW y \in Int, NEW Q \in Nat, Q > 0, x < y, y - x < Q
  PROVE  x % Q # y % Q
<1>1. x <= y /\ x # y
  OBVIOUS
<1>2. x % Q = y % Q => x = y
  BY <1>1, ModEqual, Zenon
<1> QED BY <1>1, <1>2, Zenon

---------------------------------------------------------------------------
(* The inductive invariant *)

Messages == Conns \X Nat

(* A message tells its sender. *)
From(c) == {c} \X Nat

(* The types of all variables: what a client has in its socket, kept back or in work is its own. *)
FlowTypes ==
  /\ TypeOK
  /\ revin \in BOOLEAN /\ draining \in BOOLEAN
InputTypes ==
  /\ DOMAIN rxflow_buffer = Conns
  /\ \A c \in Conns : /\ rxflow_buffer[c] \in [on : BOOLEAN, rest : Seq(From(c))]
                      /\ cur = c => input \in Seq(From(c))
  /\ DOMAIN socket = Conns /\ \A c \in Conns : socket[c] \in Seq(From(c))
  /\ sentBy \in [Conns -> Nat]
LogTypes ==
  /\ log \in Seq(Messages)
  /\ since \in [Conns -> Nat]
  /\ DOMAIN mirrored = Conns /\ \A c \in Conns : mirrored[c] \in Seq(Messages \cup {<<>>})
  /\ ringbuffer \in [0 .. MAX_MESSAGE_QUEUE - 1 -> Messages \cup {<<>>}]
  /\ dropped \in [Conns -> BOOLEAN] /\ lapped \in [Conns -> BOOLEAN]

(* The connection in service is up, and one that is not established yet is as it was made. *)
ServesUp ==
  \A c \in Conns :
    /\ cur = c => conn[c] = "up"
    /\ conn[c] = "new" => Allowed(c) /\ ~rxflow_buffer[c].on
FreshOK ==
  \A c \in Conns : conn[c] = "new" =>
    /\ socket[c] = <<>> /\ sentBy[c] = 0 /\ mirrored[c] = <<>> /\ ~dropped[c] /\ ~lapped[c]
    /\ \A k \in DOMAIN log : log[k][1] # c

(* poll() is asked for input only while the connection is allowed, and from the first step *)
(* of a service to the last not while something is kept back.                              *)
DeafOK ==
  \A c \in Conns :
    /\ pollin[c] => Allowed(c)
    /\ rxflow_buffer[c].on => ~pollin[c] /\ ~(cur = c /\ stage \in {"write", "in"} /\ revin)

(* What is in work is all of what was kept back, or nothing is kept back. *)
WorkOK ==
  /\ stage # "rx" => input = <<>> /\ ~draining
  /\ stage = "rx" => /\ draining <=> rxflow_buffer[cur].on
                     /\ draining => input = rxflow_buffer[cur].rest
  /\ \A c \in Conns : ~rxflow_buffer[c].on => rxflow_buffer[c].rest = <<>>

(* The client's tail as a position in the log. *)
Position(c) == since[c] + Len(mirrored[c])

(* The ring holds the end of the log, and a tail that was not lapped is a position there. *)
RingOK ==
  /\ ringbuffer_head = Len(log) % MAX_MESSAGE_QUEUE
  /\ \A j \in 1 .. Len(log) :
       Len(log) - j < MAX_MESSAGE_QUEUE => ringbuffer[(j - 1) % MAX_MESSAGE_QUEUE] = log[j]
  /\ \A c \in Up : ~lapped[c] =>
       /\ Position(c) <= Len(log) /\ Len(log) - Position(c) < MAX_MESSAGE_QUEUE
       /\ ringbuffer_tail[c] = Position(c) % MAX_MESSAGE_QUEUE
       /\ \A k \in 1 .. Len(mirrored[c]) : mirrored[c][k] = log[since[c] + k]

Alone(c) == \A k \in DOMAIN log : log[k][1] = c

(* The client is not lapped and loses no message, and when the ring's head is two slots from its own *)
(* tail it is not read before something was written to it.                                           *)
Throttled(c) ==
  /\ ~lapped[c] /\ ~dropped[c]
  /\ Len(log) - Position(c) <= MAX_MESSAGE_QUEUE - 2
  /\ Len(log) - Position(c) = MAX_MESSAGE_QUEUE - 2 =>
       /\ ~pollin[c]
       /\ cur = c => /\ stage \in {"in", "rx"} => ~Allowed(c)
                     /\ ~revin \/ stage = "rx"

(* As long as the ring has the messages of one client only, flow control holds that client back in time. *)
AloneOK == \A c \in Up : Alone(c) => Throttled(c)

FlowInv == FlowTypes /\ InputTypes /\ ServesUp /\ DeafOK /\ WorkOK

---------------------------------------------------------------------------
(* Flow control *)

Flags == [pending : BOOLEAN, allow : BOOLEAN]

LEMMA ChangedIs ==
  ASSUME NEW f \in Flags, NEW e \in BOOLEAN
  PROVE  /\ Changed(f, e) \in Flags
         /\ Changed(f, e).allow = e
         /\ f.allow # e => Changed(f, e).pending = TRUE
<1>1. CASE f.allow = e
  BY <1>1 DEF Changed, Flags
<1>2. CASE f.allow # e
  <2>1. Changed(f, e) = [pending |-> TRUE, allow |-> e]
    BY <1>2 DEF Changed
  <2> QED BY <2>1 DEF Flags
<1> QED BY <1>1, <1>2

(* _libwebsocket_rx_flow_control(c) changes poll() for c only, and not while input is kept back. *)
LEMMA FlowApplied ==
  ASSUME NEW c \in Conns, NEW flags \in [Conns -> Flags], NEW buffer, buffer.on \in BOOLEAN,
         NEW asked \in [Conns -> BOOLEAN], pollin \in [Conns -> BOOLEAN],
         ApplyFlow(c, flags, buffer, asked)
  PROVE  /\ rxflow_change_to' \in [Conns -> Flags]
         /\ \A d \in Conns : rxflow_change_to'[d].allow = flags[d].allow
         /\ pollin' \in [Conns -> BOOLEAN] /\ pollout' \in [Conns -> BOOLEAN]
         /\ \A d \in Conns : d # c => pollin'[d] = pollin[d]
         /\ IF flags[c].pending /\ ~buffer.on THEN pollin'[c] = flags[c].allow
                                             ELSE pollin'[c] = pollin[c]
<1>1. flags[c].pending \in BOOLEAN /\ flags[c].allow \in BOOLEAN
  BY DEF Flags
<1>2. CASE ~flags[c].pending
  BY <1>2 DEF ApplyFlow
<1>3. CASE flags[c].pending /\ buffer.on
  BY <1>3 DEF ApplyFlow
<1>4. CASE flags[c].pending /\ ~buffer.on
  <2>1. /\ rxflow_change_to' = [flags EXCEPT ![c].pending = FALSE]
        /\ pollin' = [pollin EXCEPT ![c] = flags[c].allow]
        /\ pollout' = asked
    BY <1>4 DEF ApplyFlow
  <2>2. /\ rxflow_change_to' \in [Conns -> Flags]
        /\ \A d \in Conns : rxflow_change_to'[d].allow = flags[d].allow
    BY <2>1 DEF Flags
  <2> QED BY <1>1, <1>4, <2>1, <2>2
<1> QED BY <1>1, <1>2, <1>3, <1>4

LEMMA AfterIs ==
  ASSUME NEW slot \in 0 .. MAX_MESSAGE_QUEUE - 1
  PROVE  After(slot) \in 0 .. MAX_MESSAGE_QUEUE - 1
<1> DEFINE x == slot + 1
<1>1. x \in Int /\ MAX_MESSAGE_QUEUE \in Nat /\ MAX_MESSAGE_QUEUE > 0
  BY MirrorAssumption
<1> HIDE DEF x
<1>2. x % MAX_MESSAGE_QUEUE \in 0 .. MAX_MESSAGE_QUEUE - 1
  BY <1>1, DivMod
<1> QED BY <1>2 DEF After, x

LEMMA FlowInit == Init => FlowInv
<1> SUFFICES ASSUME Init PROVE FlowInv
  OBVIOUS
<1> USE DEF Init
<1>1. FlowTypes
  <2>1. rxflow_change_to \in [Conns -> [pending : BOOLEAN, allow : BOOLEAN]]
    OBVIOUS
  <2>2. \A c \in Conns : rxflow_buffer[c].on \in BOOLEAN
    BY DEF NULL
  <2>3. pollin \in [Conns -> BOOLEAN] /\ pollout \in [Conns -> BOOLEAN]
    OBVIOUS
  <2>4. 0 \in 0 .. MAX_MESSAGE_QUEUE - 1
    BY MirrorAssumption
  <2>5. conn \in [Conns -> {"new", "up", "closed"}]
    OBVIOUS
  <2> QED BY <2>1, <2>2, <2>3, <2>4, <2>5 DEF FlowTypes, TypeOK
<1>2. NULL.on = FALSE /\ NULL.rest = <<>>
  BY DEF NULL
<1>3. ASSUME NEW c \in Conns PROVE NULL \in [on : BOOLEAN, rest : Seq(From(c))]
  <2>1. <<>> \in Seq(From(c))
    OBVIOUS
  <2> QED BY <2>1 DEF NULL
<1>4. InputTypes
  BY <1>3, MirrorAssumption DEF InputTypes
<1>5. ServesUp /\ DeafOK
  BY <1>2, MirrorAssumption DEF ServesUp, DeafOK, Allowed
<1>6. WorkOK
  BY <1>2 DEF WorkOK
<1> QED BY <1>1, <1>4, <1>5, <1>6 DEF FlowInv

(* Sequences of a client's messages. *)
LEMMA OwnSequences ==
  ASSUME NEW T, NEW u \in Seq(T)
  PROVE  /\ u # <<>> => Head(u) \in T /\ Tail(u) \in Seq(T)
         /\ \A k \in 1 .. Len(u) : SubSeq(u, 1, k) \in Seq(T) /\ SubSeq(u, k + 1, Len(u)) \in Seq(T)
OBVIOUS

LEMMA FlowStep == FlowInv /\ [Next]_vars => FlowInv'
<1> SUFFICES ASSUME FlowInv, [Next]_vars PROVE FlowInv'
  OBVIOUS
<1>0. /\ FlowTypes /\ InputTypes /\ ServesUp /\ DeafOK /\ WorkOK /\ TypeOK
      /\ NoOne \notin Conns
      /\ stage # "poll" => cur \in Conns
  BY MirrorAssumption DEF FlowInv, FlowTypes, TypeOK
<1>1. ASSUME NEW c \in Conns, NEW out \in BOOLEAN, Poll(c, out) PROVE FlowInv'
  <2>1. /\ cur = NoOne /\ conn[c] = "up"
        /\ cur' = c /\ stage' = (IF out THEN "write" ELSE "in") /\ revin' = (pollin[c] /\ socket[c] # <<>>)
        /\ pollout' = IF out THEN [pollout EXCEPT ![c] = FALSE] ELSE pollout
        /\ UNCHANGED <<conn, ringbuffer_head, ringbuffer_tail, rxflow_change_to, rxflow_buffer, pollin,
                       socket, input, draining, sentBy>>
    BY <1>1 DEF Poll, ringVars
  <2>2. stage = "poll" /\ input = <<>> /\ ~draining
    BY <2>1, <1>0 DEF TypeOK, WorkOK
  <2>3. FlowTypes'
    <3>1. pollout' \in [Conns -> BOOLEAN]
      BY <2>1, <1>0 DEF TypeOK
    <3>2. revin' \in BOOLEAN
      BY <2>1, <1>0 DEF TypeOK
    <3> QED BY <2>1, <3>1, <3>2, <1>0 DEF FlowTypes, TypeOK
  <2>4. InputTypes'
    BY <2>1, <2>2, <1>0 DEF InputTypes
  <2>5. ServesUp' /\ DeafOK'
    BY <2>1, <1>0 DEF ServesUp, DeafOK, Allowed
  <2>6. WorkOK'
    BY <2>1, <2>2, <1>0 DEF WorkOK
  <2> QED BY <2>3, <2>4, <2>5, <2>6 DEF FlowInv
<1>2. ASSUME NEW choked \in BOOLEAN, NEW part \in BOOLEAN, WriteOne(choked, part) PROVE FlowInv'
  <2> DEFINE tail == After(ringbuffer_tail[cur])
             low == Low((ringbuffer_head - tail) % MAX_MESSAGE_QUEUE)
             flags == IF low THEN [d \in Conns |-> IF d \in Up THEN Changed(rxflow_change_to[d], TRUE)
                                                               ELSE rxflow_change_to[d]]
                      ELSE rxflow_change_to
  <2>1. /\ stage = "write" /\ cur \in Conns
        /\ ringbuffer_tail' = [ringbuffer_tail EXCEPT ![cur] = tail]
        /\ IF choked THEN /\ ApplyFlow(cur, flags, rxflow_buffer[cur], [pollout EXCEPT ![cur] = TRUE])
                          /\ stage' = "in"
           ELSE rxflow_change_to' = flags /\ UNCHANGED <<pollin, pollout, stage>>
        /\ UNCHANGED <<revin, conn, ringbuffer_head, rxflow_buffer, socket, cur, input, draining, sentBy>>
    BY <1>2, <1>0 DEF WriteOne, ringVars
  <2>2. tail \in 0 .. MAX_MESSAGE_QUEUE - 1
    BY <2>1, <1>0, AfterIs DEF TypeOK
  <2>3. rxflow_change_to \in [Conns -> Flags]
    BY <1>0 DEF TypeOK, Flags
  <2>4. /\ flags \in [Conns -> Flags]
        /\ \A d \in Conns : /\ d \notin Up => flags[d].allow = rxflow_change_to[d].allow
                            /\ Allowed(d) => flags[d].allow
    <3>1. ASSUME NEW d \in Conns
          PROVE  /\ Changed(rxflow_change_to[d], TRUE) \in Flags
                 /\ Changed(rxflow_change_to[d], TRUE).allow = TRUE
      BY <2>3, ChangedIs
    <3>2. CASE low
      BY <3>1, <3>2, <2>3 DEF Allowed
    <3>3. CASE ~low
      BY <3>3, <2>3 DEF Allowed
    <3> QED BY <3>2, <3>3
  <2> HIDE DEF flags, tail
  <2>5. /\ rxflow_change_to' \in [Conns -> Flags]
        /\ \A d \in Conns : rxflow_change_to'[d].allow = flags[d].allow
        /\ pollin' \in [Conns -> BOOLEAN] /\ pollout' \in [Conns -> BOOLEAN]
        /\ \A d \in Conns : pollin'[d] => pollin[d] \/ (d = cur /\ flags[d].allow /\ ~rxflow_buffer[d].on)
        /\ stage' \in {"write", "in"}
    <3>1. CASE choked
      <4> DEFINE asked == [pollout EXCEPT ![cur] = TRUE]
      <4>1. asked \in [Conns -> BOOLEAN] /\ pollin \in [Conns -> BOOLEAN]
            /\ rxflow_buffer[cur].on \in BOOLEAN
        BY <2>1, <1>0 DEF TypeOK
      <4>2. ApplyFlow(cur, flags, rxflow_buffer[cur], asked) /\ stage' = "in"
        BY <2>1, <3>1
      <4> HIDE DEF asked
      <4>3. /\ rxflow_change_to' \in [Conns -> Flags]
            /\ \A d \in Conns : rxflow_change_to'[d].allow = flags[d].allow
            /\ pollin' \in [Conns -> BOOLEAN] /\ pollout' \in [Conns -> BOOLEAN]
            /\ \A d \in Conns : d # cur => pollin'[d] = pollin[d]
            /\ IF flags[cur].pending /\ ~rxflow_buffer[cur].on
               THEN pollin'[cur] = flags[cur].allow ELSE pollin'[cur] = pollin[cur]
        BY <2>1, <2>4, <4>1, <4>2, FlowApplied
      <4> QED BY <4>2, <4>3
    <3>2. CASE ~choked
      BY <2>1, <2>4, <3>2, <1>0 DEF TypeOK
    <3> QED BY <3>1, <3>2
  <2>6. FlowTypes'
    <3>1. ringbuffer_tail' \in [Conns -> 0 .. MAX_MESSAGE_QUEUE - 1]
      BY <2>1, <2>2, <1>0 DEF TypeOK
    <3> QED BY <2>1, <2>5, <3>1, <1>0 DEF FlowTypes, TypeOK, Flags
  <2>7. InputTypes'
    BY <2>1, <1>0 DEF InputTypes
  <2>8. ServesUp'
    BY <2>1, <2>4, <2>5, <1>0 DEF ServesUp, Allowed, Up
  <2>9. DeafOK'
    BY <2>1, <2>4, <2>5, <1>0 DEF DeafOK, Allowed
  <2>10. WorkOK'
    BY <2>1, <2>5, <1>0 DEF WorkOK
  <2> QED BY <2>6, <2>7, <2>8, <2>9, <2>10 DEF FlowInv
<1>3. ASSUME WriteEnd PROVE FlowInv'
  <2>1. /\ stage = "write" /\ cur \in Conns
        /\ ApplyFlow(cur, rxflow_change_to, rxflow_buffer[cur], pollout)
        /\ stage' = "in"
        /\ UNCHANGED <<revin, conn, ringbuffer_head, ringbuffer_tail, rxflow_buffer, socket, cur,
                       input, draining, sentBy>>
    BY <1>3, <1>0 DEF WriteEnd, ringVars
  <2>2. /\ rxflow_change_to \in [Conns -> Flags] /\ pollin \in [Conns -> BOOLEAN]
        /\ pollout \in [Conns -> BOOLEAN] /\ rxflow_buffer[cur].on \in BOOLEAN
    BY <2>1, <1>0 DEF TypeOK, Flags
  <2>3. /\ rxflow_change_to' \in [Conns -> Flags]
        /\ \A d \in Conns : rxflow_change_to'[d].allow = rxflow_change_to[d].allow
        /\ pollin' \in [Conns -> BOOLEAN] /\ pollout' \in [Conns -> BOOLEAN]
        /\ \A d \in Conns : d # cur => pollin'[d] = pollin[d]
        /\ IF rxflow_change_to[cur].pending /\ ~rxflow_buffer[cur].on
           THEN pollin'[cur] = rxflow_change_to[cur].allow ELSE pollin'[cur] = pollin[cur]
    BY <2>1, <2>2, FlowApplied
  <2>4. \A d \in Conns : pollin'[d] => pollin[d] \/ (d = cur /\ Allowed(d) /\ ~rxflow_buffer[d].on)
    BY <2>3 DEF Allowed
  <2>5. FlowTypes'
    BY <2>1, <2>3, <1>0 DEF FlowTypes, TypeOK, Flags
  <2>6. InputTypes'
    BY <2>1, <1>0 DEF InputTypes
  <2>7. ServesUp'
    BY <2>1, <2>3, <1>0 DEF ServesUp, Allowed
  <2>8. DeafOK'
    BY <2>1, <2>3, <2>4, <1>0 DEF DeafOK, Allowed
  <2>9. WorkOK'
    BY <2>1, <1>0 DEF WorkOK
  <2> QED BY <2>5, <2>6, <2>7, <2>8, <2>9 DEF FlowInv
<1>4. ASSUME StartDrain PROVE FlowInv'
  <2>1. /\ stage = "in" /\ cur \in Conns /\ rxflow_buffer[cur].on
        /\ input' = rxflow_buffer[cur].rest /\ draining' = TRUE /\ stage' = "rx"
        /\ UNCHANGED <<conn, ringbuffer_head, ringbuffer_tail, rxflow_change_to, rxflow_buffer, pollin,
                       pollout, socket, sentBy, cur, revin>>
    BY <1>4, <1>0 DEF StartDrain, ringVars
  <2>2. FlowTypes'
    BY <2>1, <1>0 DEF FlowTypes, TypeOK
  <2>3. InputTypes'
    BY <2>1, <1>0 DEF InputTypes
  <2>4. ServesUp' /\ DeafOK'
    BY <2>1, <1>0 DEF ServesUp, DeafOK, Allowed
  <2>5. WorkOK'
    BY <2>1, <1>0 DEF WorkOK
  <2> QED BY <2>2, <2>3, <2>4, <2>5 DEF FlowInv
<1>5. ASSUME Recv PROVE FlowInv'
  <2>1. /\ stage = "in" /\ cur \in Conns /\ revin
        /\ draining' = FALSE /\ stage' = "rx"
        /\ UNCHANGED <<conn, ringbuffer_head, ringbuffer_tail, rxflow_change_to, rxflow_buffer, pollin,
                       pollout, sentBy, cur, revin>>
    BY <1>5, <1>0 DEF Recv, ringVars
  <2>2. PICK k \in 1 .. Len(socket[cur]) :
          /\ input' = SubSeq(socket[cur], 1, k)
          /\ socket' = [socket EXCEPT ![cur] = SubSeq(@, k + 1, Len(@))]
    BY <1>5 DEF Recv
  <2>3. FlowTypes'
    BY <2>1, <1>0 DEF FlowTypes, TypeOK
  <2>4. InputTypes'
    <3>1. socket[cur] \in Seq(From(cur))
      BY <2>1, <1>0 DEF InputTypes
    <3>2. input' \in Seq(From(cur)) /\ SubSeq(socket[cur], k + 1, Len(socket[cur])) \in Seq(From(cur))
      BY <2>2, <3>1, OwnSequences
    <3>3. DOMAIN socket' = Conns /\ \A c \in Conns : socket'[c] \in Seq(From(c))
      BY <2>1, <2>2, <3>2, <1>0 DEF InputTypes
    <3> QED BY <2>1, <3>2, <3>3, <1>0 DEF InputTypes
  <2>5. ServesUp' /\ DeafOK'
    BY <2>1, <1>0 DEF ServesUp, DeafOK, Allowed
  <2>6. WorkOK'
    BY <2>1, <1>0 DEF WorkOK, DeafOK
  <2> QED BY <2>3, <2>4, <2>5, <2>6 DEF FlowInv
<1>6. ASSUME RecvNothing PROVE FlowInv'
  <2>1. /\ stage = "in"
        /\ cur' = NoOne /\ stage' = "poll" /\ revin' = FALSE
        /\ UNCHANGED <<conn, ringbuffer_head, ringbuffer_tail, rxflow_change_to, rxflow_buffer, pollin,
                       pollout, socket, input, draining, sentBy>>
    BY <1>6 DEF RecvNothing, ringVars
  <2>2. FlowTypes'
    BY <2>1, <1>0 DEF FlowTypes, TypeOK
  <2>3. InputTypes'
    BY <2>1, <1>0 DEF InputTypes
  <2>4. ServesUp' /\ DeafOK'
    BY <2>1, <1>0 DEF ServesUp, DeafOK, Allowed
  <2>5. WorkOK'
    BY <2>1, <1>0 DEF WorkOK
  <2> QED BY <2>2, <2>3, <2>4, <2>5 DEF FlowInv
<1>7. ASSUME RxStored \/ RxDropped PROVE FlowInv'
  <2>1. /\ stage = "rx" /\ cur \in Conns /\ input # <<>> /\ Allowed(cur)
        /\ UNCHANGED <<revin, conn, ringbuffer_tail, socket, cur, stage, draining, sentBy>>
    BY <1>7, <1>0 DEF RxStored, RxDropped
  <2>2. ringbuffer_head' \in 0 .. MAX_MESSAGE_QUEUE - 1
    BY <1>7, <1>0, AfterIs DEF RxStored, RxDropped, TypeOK
  <2>3. rxflow_change_to \in [Conns -> Flags] /\ rxflow_change_to[cur].allow = TRUE
    BY <2>1, <1>0 DEF TypeOK, Flags, Allowed
  <2> DEFINE Fewer == [rxflow_change_to EXCEPT ![cur] = Changed(@, FALSE)]
  <2>4. /\ Fewer \in [Conns -> Flags]
        /\ \A d \in Conns : d # cur => Fewer[d] = rxflow_change_to[d]
        /\ Fewer[cur].allow = FALSE /\ Fewer[cur].pending = TRUE
    <3>1. rxflow_change_to[cur] \in Flags
      BY <2>1, <2>3
    <3>2. /\ Changed(rxflow_change_to[cur], FALSE) \in Flags
          /\ Changed(rxflow_change_to[cur], FALSE).allow = FALSE
          /\ Changed(rxflow_change_to[cur], FALSE).pending = TRUE
      BY <2>3, <3>1, ChangedIs
    <3> QED BY <2>1, <2>3, <3>2
  <2>5. \E flags \in {rxflow_change_to, Fewer} : RxReturns(flags)
    BY <1>7 DEF RxStored, RxDropped
  <2> HIDE DEF Fewer
  <2>6. PICK flags \in {rxflow_change_to, Fewer} : RxReturns(flags)
    BY <2>5
  <2>7. /\ flags \in [Conns -> Flags]
        /\ \A d \in Conns : d # cur => flags[d] = rxflow_change_to[d]
        /\ flags[cur].allow \/ flags[cur].pending
    BY <2>3, <2>4
  <2>8. /\ DOMAIN Taken = Conns
        /\ \A d \in Conns : /\ Taken[d].on = rxflow_buffer[d].on
                            /\ Taken[d] \in [on : BOOLEAN, rest : Seq(From(d))]
        /\ rxflow_buffer[cur].on => Taken[cur].rest = Tail(rxflow_buffer[cur].rest)
        /\ \A d \in Conns : ~rxflow_buffer[d].on => Taken[d] = rxflow_buffer[d]
    <3>1. rxflow_buffer[cur] \in [on : BOOLEAN, rest : Seq(From(cur))]
      BY <2>1, <1>0 DEF InputTypes
    <3>2. CASE rxflow_buffer[cur].on
      <4>1. rxflow_buffer[cur].rest # <<>>
        BY <2>1, <3>2, <1>0 DEF WorkOK
      <4>2. Tail(rxflow_buffer[cur].rest) \in Seq(From(cur))
        BY <3>1, <4>1, OwnSequences
      <4>3. Taken = [rxflow_buffer EXCEPT ![cur].rest = Tail(@)]
        BY <3>2 DEF Taken
      <4>4. DOMAIN Taken = Conns /\ \A d \in Conns : d # cur => Taken[d] = rxflow_buffer[d]
        BY <4>3, <1>0 DEF InputTypes
      <4>5. Taken[cur] = [rxflow_buffer[cur] EXCEPT !.rest = Tail(@)]
        BY <2>1, <4>3, <1>0 DEF InputTypes
      <4>6. /\ Taken[cur].on = rxflow_buffer[cur].on
            /\ Taken[cur].rest = Tail(rxflow_buffer[cur].rest)
            /\ Taken[cur] \in [on : BOOLEAN, rest : Seq(From(cur))]
        BY <3>1, <4>2, <4>5
      <4> QED BY <3>2, <4>4, <4>6, <1>0 DEF InputTypes
    <3>3. CASE ~rxflow_buffer[cur].on
      BY <3>3, <1>0 DEF Taken, InputTypes
    <3> QED BY <3>2, <3>3
  <2> DEFINE asked == [d \in Conns |-> pollout[d] \/ d \in Up]
             buffer == Taken[cur]
  <2>9. rxflow_buffer' = Taken /\ input' = Tail(input) /\ ApplyFlow(cur, flags, buffer, asked)
    BY <2>6 DEF RxReturns
  <2>10. asked \in [Conns -> BOOLEAN] /\ pollin \in [Conns -> BOOLEAN] /\ buffer.on \in BOOLEAN
         /\ buffer.on = rxflow_buffer[cur].on
    BY <2>1, <2>8, <1>0 DEF TypeOK
  <2> HIDE DEF asked, buffer
  <2>11. /\ rxflow_change_to' \in [Conns -> Flags]
         /\ \A d \in Conns : rxflow_change_to'[d].allow = flags[d].allow
         /\ pollin' \in [Conns -> BOOLEAN] /\ pollout' \in [Conns -> BOOLEAN]
         /\ \A d \in Conns : d # cur => pollin'[d] = pollin[d]
         /\ IF flags[cur].pending /\ ~buffer.on THEN pollin'[cur] = flags[cur].allow
                                                ELSE pollin'[cur] = pollin[cur]
    BY <2>1, <2>7, <2>9, <2>10, FlowApplied
  <2>12. /\ pollin'[cur] => flags[cur].allow
         /\ rxflow_buffer[cur].on => ~pollin'[cur]
    BY <2>1, <2>7, <2>10, <2>11, <1>0 DEF DeafOK
  <2>13. FlowTypes'
    <3>1. \A d \in Conns : rxflow_buffer'[d].on \in BOOLEAN
      BY <2>8, <2>9
    <3> QED BY <2>1, <2>2, <2>11, <3>1, <1>0 DEF FlowTypes, TypeOK, Flags
  <2>14. InputTypes'
    <3>1. input' \in Seq(From(cur))
      BY <2>1, <2>9, <1>0, OwnSequences DEF InputTypes
    <3> QED BY <2>1, <2>8, <2>9, <3>1, <1>0 DEF InputTypes
  <2>15. ServesUp'
    BY <2>1, <2>7, <2>8, <2>9, <2>11, <1>0, SMTT(60) DEF ServesUp, Allowed
  <2>16. DeafOK'
    <3> SUFFICES ASSUME NEW d \in Conns
                 PROVE  /\ pollin'[d] => rxflow_change_to'[d].allow
                        /\ rxflow_buffer'[d].on => ~pollin'[d]
      BY <2>1 DEF DeafOK, Allowed
    <3>1. CASE d = cur
      BY <3>1, <2>8, <2>9, <2>11, <2>12
    <3>2. CASE d # cur
      BY <3>2, <2>7, <2>8, <2>9, <2>11, <1>0 DEF DeafOK, Allowed
    <3> QED BY <3>1, <3>2
  <2>17. WorkOK'
    BY <2>1, <2>8, <2>9, <1>0 DEF WorkOK
  <2> QED BY <2>13, <2>14, <2>15, <2>16, <2>17 DEF FlowInv
<1>8. ASSUME RxStopped PROVE FlowInv'
  <2>1. /\ stage = "rx" /\ cur \in Conns /\ ~Allowed(cur) /\ RxKept
        /\ cur' = NoOne /\ stage' = "poll" /\ revin' = FALSE /\ input' = <<>> /\ draining' = FALSE
        /\ UNCHANGED <<conn, ringbuffer_head, ringbuffer_tail, rxflow_change_to, pollin, pollout,
                       socket, sentBy>>
    BY <1>8, <1>0 DEF RxStopped, ringVars
  <2>2. /\ DOMAIN rxflow_buffer' = Conns
        /\ \A d \in Conns : /\ rxflow_buffer'[d] \in [on : BOOLEAN, rest : Seq(From(d))]
                            /\ d # cur => rxflow_buffer'[d] = rxflow_buffer[d]
        /\ rxflow_buffer'[cur].on
    <3>1. input \in Seq(From(cur))
      BY <2>1, <1>0 DEF InputTypes
    <3>2. CASE rxflow_buffer[cur].on
      BY <2>1, <3>2, <1>0 DEF RxKept, InputTypes
    <3>3. CASE ~rxflow_buffer[cur].on
      <4> DEFINE kept == [on |-> TRUE, rest |-> input]
      <4>1. kept \in [on : BOOLEAN, rest : Seq(From(cur))] /\ kept.on = TRUE
        BY <3>1
      <4>2. rxflow_buffer' = [rxflow_buffer EXCEPT ![cur] = kept]
        BY <2>1, <3>3 DEF RxKept
      <4> HIDE DEF kept
      <4> QED BY <2>1, <4>1, <4>2, <1>0 DEF InputTypes
    <3> QED BY <3>2, <3>3
  <2>3. FlowTypes'
    <3>1. \A d \in Conns : rxflow_buffer'[d].on \in BOOLEAN
      BY <2>2
    <3> QED BY <2>1, <3>1, <1>0 DEF FlowTypes, TypeOK
  <2>4. InputTypes'
    BY <2>1, <2>2, <1>0 DEF InputTypes
  <2>5. ServesUp'
    BY <2>1, <2>2, <1>0 DEF ServesUp, Allowed
  <2>6. DeafOK'
    BY <2>1, <2>2, <1>0 DEF DeafOK, Allowed
  <2>7. WorkOK'
    BY <2>1, <2>2, <1>0 DEF WorkOK
  <2> QED BY <2>3, <2>4, <2>5, <2>6, <2>7 DEF FlowInv
<1>9. ASSUME RxEnd PROVE FlowInv'
  <2>1. /\ stage = "rx" /\ cur \in Conns /\ input = <<>>
        /\ cur' = NoOne /\ stage' = "poll" /\ revin' = FALSE /\ draining' = FALSE
        /\ UNCHANGED <<conn, ringbuffer_head, ringbuffer_tail, socket, input, sentBy>>
    BY <1>9, <1>0 DEF RxEnd, ringVars
  <2>2. NULL.on = FALSE /\ NULL.rest = <<>>
        /\ \A d \in Conns : NULL \in [on : BOOLEAN, rest : Seq(From(d))]
    <3>1. \A d \in Conns : <<>> \in Seq(From(d))
      OBVIOUS
    <3> QED BY <3>1 DEF NULL
  <2>3. CASE draining
    <3>1. /\ rxflow_buffer' = [rxflow_buffer EXCEPT ![cur] = NULL]
          /\ ApplyFlow(cur, rxflow_change_to, NULL, pollout)
      BY <1>9, <2>3 DEF RxEnd
    <3>2. /\ DOMAIN rxflow_buffer' = Conns /\ rxflow_buffer'[cur] = NULL
          /\ \A d \in Conns : /\ rxflow_buffer'[d] \in [on : BOOLEAN, rest : Seq(From(d))]
                              /\ d # cur => rxflow_buffer'[d] = rxflow_buffer[d]
      BY <2>1, <2>2, <3>1, <1>0 DEF InputTypes
    <3>3. /\ rxflow_change_to \in [Conns -> Flags] /\ pollin \in [Conns -> BOOLEAN]
          /\ pollout \in [Conns -> BOOLEAN]
      BY <1>0 DEF TypeOK, Flags
    <3>4. /\ rxflow_change_to' \in [Conns -> Flags]
          /\ \A d \in Conns : rxflow_change_to'[d].allow = rxflow_change_to[d].allow
          /\ pollin' \in [Conns -> BOOLEAN] /\ pollout' \in [Conns -> BOOLEAN]
          /\ \A d \in Conns : d # cur => pollin'[d] = pollin[d]
          /\ IF rxflow_change_to[cur].pending /\ ~NULL.on
             THEN pollin'[cur] = rxflow_change_to[cur].allow ELSE pollin'[cur] = pollin[cur]
      BY <2>1, <2>2, <3>1, <3>3, FlowApplied
    <3>5. pollin'[cur] => Allowed(cur)
      BY <2>1, <3>4, <1>0 DEF DeafOK, Allowed
    <3>6. FlowTypes'
      <4>1. \A d \in Conns : rxflow_buffer'[d].on \in BOOLEAN
        BY <3>2
      <4> QED BY <2>1, <3>4, <4>1, <1>0 DEF FlowTypes, TypeOK, Flags
    <3>7. InputTypes'
      BY <2>1, <3>2, <1>0 DEF InputTypes
    <3>8. ServesUp'
      BY <2>1, <3>2, <3>4, <1>0 DEF ServesUp, Allowed
    <3>9. DeafOK'
      BY <2>1, <2>2, <3>2, <3>4, <3>5, <1>0 DEF DeafOK, Allowed
    <3>10. WorkOK'
      BY <2>1, <2>2, <3>2, <1>0 DEF WorkOK
    <3> QED BY <3>6, <3>7, <3>8, <3>9, <3>10 DEF FlowInv
  <2>4. CASE ~draining
    <3>1. UNCHANGED <<rxflow_buffer, rxflow_change_to, pollin, pollout>>
      BY <1>9, <2>4 DEF RxEnd
    <3>2. FlowTypes' /\ InputTypes'
      BY <2>1, <3>1, <1>0 DEF FlowTypes, TypeOK, InputTypes
    <3>3. ServesUp' /\ DeafOK' /\ WorkOK'
      BY <2>1, <3>1, <1>0 DEF ServesUp, DeafOK, WorkOK, Allowed
    <3> QED BY <3>2, <3>3 DEF FlowInv
  <2> QED BY <2>3, <2>4
<1>10. ASSUME NEW c \in Conns, Establish(c) PROVE FlowInv'
  <2>1. /\ conn[c] = "new" /\ conn' = [conn EXCEPT ![c] = "up"]
        /\ ringbuffer_tail' = [ringbuffer_tail EXCEPT ![c] = ringbuffer_head]
        /\ pollin' = [pollin EXCEPT ![c] = TRUE]
        /\ UNCHANGED <<revin, ringbuffer_head, rxflow_change_to, rxflow_buffer, pollout, socket, cur,
                       stage, input, draining, sentBy>>
    BY <1>10 DEF Establish, ringVars
  <2>2. cur = NoOne
    BY <1>10 DEF Establish
  <2>3. FlowTypes'
    BY <2>1, <1>0 DEF FlowTypes, TypeOK
  <2>4. InputTypes'
    BY <2>1, <1>0 DEF InputTypes
  <2>5. ServesUp'
    BY <2>1, <2>2, <1>0 DEF ServesUp, Allowed, TypeOK
  <2>6. DeafOK'
    BY <2>1, <2>2, <1>0 DEF DeafOK, ServesUp, Allowed, TypeOK
  <2>7. WorkOK'
    BY <2>1, <1>0 DEF WorkOK
  <2> QED BY <2>3, <2>4, <2>5, <2>6, <2>7 DEF FlowInv
<1>11. ASSUME NEW c \in Conns, Close(c) PROVE FlowInv'
  <2>1. /\ conn' = [conn EXCEPT ![c] = "closed"] /\ conn[c] = "up"
        /\ pollin' = [pollin EXCEPT ![c] = FALSE] /\ pollout' = [pollout EXCEPT ![c] = FALSE]
        /\ rxflow_buffer' = [rxflow_buffer EXCEPT ![c] = NULL]
        /\ socket' = [socket EXCEPT ![c] = <<>>]
        /\ cur' = NoOne /\ stage' = "poll" /\ revin' = FALSE
        /\ UNCHANGED <<ringbuffer_head, ringbuffer_tail, rxflow_change_to, input, draining, sentBy>>
    BY <1>11 DEF Close, ringVars
  <2>2. stage # "rx"
    BY <1>11, <1>0 DEF Close, TypeOK
  <2>3. NULL.on = FALSE /\ NULL.rest = <<>> /\ NULL \in [on : BOOLEAN, rest : Seq(From(c))]
    <3>1. <<>> \in Seq(From(c))
      OBVIOUS
    <3> QED BY <3>1 DEF NULL
  <2>4. /\ DOMAIN rxflow_buffer' = Conns /\ rxflow_buffer'[c] = NULL
        /\ \A d \in Conns : /\ rxflow_buffer'[d] \in [on : BOOLEAN, rest : Seq(From(d))]
                            /\ d # c => rxflow_buffer'[d] = rxflow_buffer[d]
    BY <2>1, <2>3, <1>0 DEF InputTypes
  <2>5. FlowTypes'
    <3>1. \A d \in Conns : rxflow_buffer'[d].on \in BOOLEAN
      BY <2>4
    <3> QED BY <2>1, <3>1, <1>0 DEF FlowTypes, TypeOK
  <2>6. InputTypes'
    <3>1. DOMAIN socket' = Conns /\ \A d \in Conns : socket'[d] \in Seq(From(d))
      BY <2>1, <1>0 DEF InputTypes
    <3> QED BY <2>1, <2>4, <3>1, <1>0 DEF InputTypes
  <2>7. ServesUp'
    BY <2>1, <2>4, <1>0 DEF ServesUp, Allowed, TypeOK
  <2>8. DeafOK'
    BY <2>1, <2>3, <2>4, <1>0 DEF DeafOK, Allowed, TypeOK
  <2>9. WorkOK'
    BY <2>1, <2>2, <2>3, <2>4, <1>0 DEF WorkOK
  <2> QED BY <2>5, <2>6, <2>7, <2>8, <2>9 DEF FlowInv
<1>12. ASSUME NEW c \in Conns, ClientSends(c) PROVE FlowInv'
  <2>1. /\ sentBy' = [sentBy EXCEPT ![c] = @ + 1]
        /\ socket' = [socket EXCEPT ![c] = Append(@, <<c, sentBy[c] + 1>>)]
        /\ UNCHANGED <<revin, conn, ringbuffer_head, ringbuffer_tail, rxflow_change_to, rxflow_buffer,
                       pollin, pollout, cur, stage, input, draining>>
    BY <1>12 DEF ClientSends, ringVars
  <2>2. FlowTypes'
    BY <2>1, <1>0 DEF FlowTypes, TypeOK
  <2>3. InputTypes'
    <3>1. <<c, sentBy[c] + 1>> \in From(c)
      BY <1>0 DEF InputTypes, From
    <3>2. Append(socket[c], <<c, sentBy[c] + 1>>) \in Seq(From(c))
      BY <3>1, <1>0 DEF InputTypes
    <3>3. DOMAIN socket' = Conns /\ \A d \in Conns : socket'[d] \in Seq(From(d))
      BY <2>1, <3>2, <1>0 DEF InputTypes
    <3>4. sentBy' \in [Conns -> Nat]
      BY <2>1, <1>0 DEF InputTypes
    <3> QED BY <2>1, <3>3, <3>4, <1>0 DEF InputTypes
  <2>4. ServesUp' /\ DeafOK' /\ WorkOK'
    BY <2>1, <1>0 DEF ServesUp, DeafOK, WorkOK, Allowed
  <2> QED BY <2>2, <2>3, <2>4 DEF FlowInv
<1>13. ASSUME UNCHANGED vars PROVE FlowInv'
  <2>1. FlowTypes' /\ InputTypes'
    BY <1>13, <1>0 DEF vars, FlowTypes, TypeOK, InputTypes
  <2>2. ServesUp' /\ DeafOK' /\ WorkOK'
    BY <1>13, <1>0 DEF vars, ServesUp, DeafOK, WorkOK, Allowed
  <2> QED BY <2>1, <2>2 DEF FlowInv
<1> QED BY <1>1, <1>2, <1>3, <1>4, <1>5, <1>6, <1>7, <1>8, <1>9, <1>10, <1>11, <1>12, <1>13
     DEF Next, Writing, Reading

(* _libwebsocket_rx_flow_control: input kept back is never overtaken by input read after it, *)
(* however many clients there are and however they are throttled and released.               *)
THEOREM KeptIsNotOvertaken == Spec => []KeptThenDeaf
<1>1. FlowInv => KeptThenDeaf
  BY DEF FlowInv, DeafOK, KeptThenDeaf
<1> QED BY <1>1, FlowInit, FlowStep, PTL DEF Spec

---------------------------------------------------------------------------
(* The ring *)

LogInv == LogTypes /\ FreshOK /\ RingOK

LEMMA RingSize == MAX_MESSAGE_QUEUE \in Nat /\ MAX_MESSAGE_QUEUE > 3
BY MirrorAssumption

LEMMA Appended ==
  ASSUME NEW T, NEW u \in Seq(T), NEW m \in T
  PROVE  /\ Append(u, m) \in Seq(T) /\ Len(Append(u, m)) = Len(u) + 1 /\ Len(u) \in Nat
         /\ DOMAIN Append(u, m) = 1 .. Len(u) + 1 /\ DOMAIN u = 1 .. Len(u)
         /\ Append(u, m)[Len(u) + 1] = m
         /\ \A k \in 1 .. Len(u) : Append(u, m)[k] = u[k]
OBVIOUS

(* The distance of two positions less than a ring apart. *)
LEMMA DistanceIs ==
  ASSUME NEW c, NEW x \in Nat, NEW y \in Nat, x <= y, y - x < MAX_MESSAGE_QUEUE,
         ringbuffer_tail[c] = x % MAX_MESSAGE_QUEUE, ringbuffer_head = y % MAX_MESSAGE_QUEUE
  PROVE  Distance(c) = y - x
<1>1. ((y % MAX_MESSAGE_QUEUE) - (x % MAX_MESSAGE_QUEUE)) % MAX_MESSAGE_QUEUE = y - x
  BY RingSize, ModEqual
<1> QED BY <1>1 DEF Distance

LEMMA AfterPosition ==
  ASSUME NEW x \in Nat
  PROVE  After(x % MAX_MESSAGE_QUEUE) = (x + 1) % MAX_MESSAGE_QUEUE
<1>1. ((x % MAX_MESSAGE_QUEUE) + 1) % MAX_MESSAGE_QUEUE = (x + 1) % MAX_MESSAGE_QUEUE
  BY RingSize, ModAdd
<1> QED BY <1>1 DEF After

LEMMA RoundTheRing ==
  ASSUME NEW x \in Nat
  PROVE  (x + MAX_MESSAGE_QUEUE) % MAX_MESSAGE_QUEUE = x % MAX_MESSAGE_QUEUE
<1> DEFINE q == x \div MAX_MESSAGE_QUEUE
           r == x % MAX_MESSAGE_QUEUE
           y == x + MAX_MESSAGE_QUEUE
           e == q + 1
<1>1. r \in 0 .. MAX_MESSAGE_QUEUE - 1 /\ q \in Int /\ x = MAX_MESSAGE_QUEUE * q + r
  BY RingSize, DivMod
<1> HIDE DEF q, r
<1>2. y \in Int /\ e \in Int /\ y = MAX_MESSAGE_QUEUE * e + r
  BY <1>1, RingSize
<1> HIDE DEF y, e
<1>3. y % MAX_MESSAGE_QUEUE = r
  BY <1>1, <1>2, RingSize, ModUnique
<1> QED BY <1>3 DEF y, r

LEMMA LogInit == Init => LogInv
<1> SUFFICES ASSUME Init PROVE LogInv
  OBVIOUS
<1>1. LogTypes
  BY DEF Init, LogTypes
<1>2. FreshOK
  BY DEF Init, FreshOK
<1>3. RingOK
  <2>1. Len(log) = 0 /\ Up = {} /\ ringbuffer_head = 0
    BY DEF Init, Up
  <2>2. 0 % MAX_MESSAGE_QUEUE = 0
    BY RingSize
  <2> QED BY <2>1, <2>2 DEF RingOK
<1> QED BY <1>1, <1>2, <1>3 DEF LogInv

LEMMA LogStep == FlowInv /\ LogInv /\ [Next]_vars => LogInv'
<1> SUFFICES ASSUME FlowInv, LogInv, [Next]_vars PROVE LogInv'
  OBVIOUS
<1> DEFINE Q == MAX_MESSAGE_QUEUE
           L == Len(log)
<1>0. /\ FlowTypes /\ TypeOK /\ InputTypes /\ ServesUp /\ LogTypes /\ FreshOK /\ RingOK
      /\ NoOne \notin Conns /\ Up \subseteq Conns
      /\ stage # "poll" => cur \in Conns
      /\ L \in Nat
  BY MirrorAssumption DEF FlowInv, FlowTypes, TypeOK, LogInv, Up, LogTypes
<1>1. ASSUME UNCHANGED <<conn, ringbuffer, ringbuffer_head, ringbuffer_tail, sentBy, log, since,
                         mirrored, dropped, lapped>>,
             \A c \in Conns : conn[c] = "new" => socket'[c] = socket[c]
      PROVE  LogInv'
  <2>1. LogTypes' /\ FreshOK'
    BY <1>0, <1>1 DEF LogTypes, FreshOK
  <2>2. RingOK'
    BY <1>0, <1>1 DEF RingOK, Up, Position
  <2> QED BY <2>1, <2>2 DEF LogInv
<1>2. ASSUME NEW choked \in BOOLEAN, NEW part \in BOOLEAN, WriteOne(choked, part) PROVE LogInv'
  <2> DEFINE m == ringbuffer[ringbuffer_tail[cur]]
             tail == After(ringbuffer_tail[cur])
  <2>1. /\ stage = "write" /\ cur \in Conns /\ ringbuffer_tail[cur] # ringbuffer_head
        /\ mirrored' = [mirrored EXCEPT ![cur] = Append(@, m)]
        /\ ringbuffer_tail' = [ringbuffer_tail EXCEPT ![cur] = tail]
        /\ UNCHANGED <<conn, ringbuffer, ringbuffer_head, socket, sentBy, log, since, dropped, lapped>>
    BY <1>2, <1>0 DEF WriteOne, ringVars
  <2>2. conn[cur] = "up"
    BY <2>1, <1>0 DEF ServesUp
  <2>3. m \in Messages \cup {<<>>} /\ mirrored[cur] \in Seq(Messages \cup {<<>>})
    BY <2>1, <1>0 DEF LogTypes, TypeOK
  <2> DEFINE u == mirrored[cur]
             w == Append(u, m)
  <2>4. /\ w \in Seq(Messages \cup {<<>>}) /\ Len(w) = Len(u) + 1 /\ Len(u) \in Nat
        /\ w[Len(u) + 1] = m /\ \A k \in 1 .. Len(u) : w[k] = u[k]
    BY <2>3, Appended
  <2>5. /\ mirrored'[cur] = w /\ ringbuffer_tail'[cur] = tail
        /\ DOMAIN mirrored' = Conns
        /\ \A d \in Conns : d # cur => mirrored'[d] = mirrored[d] /\ ringbuffer_tail'[d] = ringbuffer_tail[d]
    BY <2>1, <1>0 DEF LogTypes, TypeOK
  <2> HIDE DEF w
  <2>6. LogTypes'
    BY <2>1, <2>4, <2>5, <1>0 DEF LogTypes
  <2>7. FreshOK'
    BY <2>1, <2>2, <2>5, <1>0 DEF FreshOK
  <2>8. RingOK'
    <3> SUFFICES ASSUME NEW d \in Up, ~lapped[d]
                 PROVE  /\ Position(d)' <= L /\ L - Position(d)' < Q
                        /\ ringbuffer_tail'[d] = Position(d)' % Q
                        /\ \A k \in 1 .. Len(mirrored'[d]) : mirrored'[d][k] = log[since[d] + k]
      BY <2>1, <1>0 DEF RingOK, Up
    <3>1. /\ Position(d) <= L /\ L - Position(d) < Q /\ ringbuffer_tail[d] = Position(d) % Q
          /\ \A k \in 1 .. Len(mirrored[d]) : mirrored[d][k] = log[since[d] + k]
      BY <1>0 DEF RingOK
    <3>2. CASE d # cur
      BY <3>1, <3>2, <2>1, <2>5, <1>0 DEF Position
    <3>3. CASE d = cur
      <4>1. since[d] \in Nat /\ Position(d) = since[d] + Len(u) /\ Position(d) \in Nat
        BY <3>3, <2>1, <2>4, <1>0 DEF LogTypes, Position
      <4>2. Position(d)' = Position(d) + 1
        <5>1. since'[d] = since[d] /\ mirrored'[d] = w
          BY <3>3, <2>1, <2>5
        <5>2. Position(d)' = since[d] + Len(w)
          BY <5>1 DEF Position
        <5> QED BY <5>2, <2>4, <4>1
      <4>3. Position(d) # L
        BY <3>1, <3>3, <2>1, <1>0 DEF RingOK
      <4>4. ringbuffer_tail'[d] = (Position(d) + 1) % Q
        BY <3>1, <3>3, <4>1, <2>5, AfterPosition
      <4>5. m = log[Position(d) + 1]
        <5> DEFINE j == Position(d) + 1
        <5>0. L \in Nat /\ Q \in Nat /\ Position(d) \in Nat /\ Position(d) < L
          BY <3>1, <4>1, <4>3, <1>0, RingSize
        <5>1. j \in 1 .. L /\ L - j < Q /\ j - 1 = Position(d)
          BY <5>0, <3>1
        <5> HIDE DEF j
        <5>2. ringbuffer[(j - 1) % Q] = log[j]
          BY <5>1, <1>0 DEF RingOK
        <5> QED BY <5>1, <5>2, <3>1, <3>3 DEF j
      <4>6. ASSUME NEW k \in 1 .. Len(w) PROVE w[k] = log[since[d] + k]
        <5>1. k \in 1 .. Len(u) \/ k = Len(u) + 1
          BY <2>4
        <5>2. CASE k \in 1 .. Len(u)
          BY <5>2, <2>4, <3>1, <3>3
        <5>3. CASE k = Len(u) + 1
          BY <5>3, <2>4, <4>1, <4>5, SMTT(60)
        <5> QED BY <5>1, <5>2, <5>3
      <4>7. L \in Nat /\ Q \in Nat /\ mirrored'[d] = w
        BY <3>3, <2>5, <1>0, RingSize
      <4>8. Position(d)' <= L /\ L - Position(d)' < Q
        BY <3>1, <4>1, <4>2, <4>3, <4>7, SMTT(60)
      <4> QED BY <4>2, <4>4, <4>6, <4>7, <4>8
    <3> QED BY <3>2, <3>3
  <2> QED BY <2>6, <2>7, <2>8 DEF LogInv
<1>3. ASSUME RxStored PROVE LogInv'
  <2> DEFINE m == Head(input)
             head == After(ringbuffer_head)
  <2>1. /\ stage = "rx" /\ cur \in Conns /\ input # <<>> /\ Room(cur)
        /\ ringbuffer' = [ringbuffer EXCEPT ![ringbuffer_head] = m]
        /\ ringbuffer_head' = head /\ log' = Append(log, m)
        /\ lapped' = [d \in Conns |-> lapped[d] \/ (d # cur /\ d \in Up /\ head = ringbuffer_tail[d])]
        /\ UNCHANGED <<conn, ringbuffer_tail, socket, sentBy, since, mirrored, dropped>>
    BY <1>3, <1>0 DEF RxStored
  <2>2. conn[cur] = "up" /\ cur \in Up
    BY <2>1, <1>0 DEF ServesUp, Up
  <2>3. m \in From(cur) /\ m \in Messages /\ m[1] = cur
    <3>1. m \in From(cur)
      BY <2>1, <1>0, OwnSequences DEF InputTypes
    <3> QED BY <3>1, <2>1 DEF From, Messages
  <2>4. /\ log' \in Seq(Messages) /\ Len(log') = L + 1
        /\ DOMAIN log' = 1 .. L + 1 /\ DOMAIN log = 1 .. L
        /\ log'[L + 1] = m /\ \A k \in 1 .. L : log'[k] = log[k]
    BY <2>1, <2>3, <1>0, Appended DEF LogTypes
  <2>5. /\ L \in Nat /\ Q \in Nat /\ Q > 3
        /\ ringbuffer_head = L % Q /\ head = (L + 1) % Q /\ ringbuffer_head \in 0 .. Q - 1
    BY <1>0, RingSize, AfterPosition DEF RingOK, TypeOK
  <2> HIDE DEF m, head
  <2>6. LogTypes'
    <3>1. lapped' \in [Conns -> BOOLEAN]
      BY <2>1, <1>0 DEF LogTypes
    <3>2. ringbuffer' \in [0 .. Q - 1 -> Messages \cup {<<>>}]
      BY <2>1, <2>3, <2>5, <1>0 DEF LogTypes
    <3> QED BY <2>1, <2>4, <3>1, <3>2, <1>0 DEF LogTypes
  <2>7. FreshOK'
    <3> SUFFICES ASSUME NEW d \in Conns, conn[d] = "new"
                 PROVE  ~lapped'[d] /\ \A k \in DOMAIN log' : log'[k][1] # d
      BY <2>1, <1>0 DEF FreshOK
    <3>1. ~lapped'[d]
      BY <2>1, <1>0 DEF FreshOK, Up
    <3>2. \A k \in 1 .. L + 1 : log'[k][1] # d
      <4> TAKE k \in 1 .. L + 1
      <4>1. CASE k = L + 1
        BY <4>1, <2>2, <2>3, <2>4
      <4>2. CASE k \in 1 .. L
        BY <4>2, <2>4, <1>0 DEF FreshOK
      <4> QED BY <4>1, <4>2, <2>5
    <3> QED BY <3>1, <3>2, <2>4
  <2>8. ASSUME NEW j \in 1 .. L + 1, (L + 1) - j < Q
        PROVE  ringbuffer'[(j - 1) % Q] = log'[j]
    <3>1. CASE j = L + 1
      <4>1. j - 1 = L
        BY <3>1, <2>5
      <4>2. ringbuffer'[L % Q] = m
        BY <2>1, <2>5, <1>0 DEF LogTypes
      <4> QED BY <3>1, <4>1, <4>2, <2>4
    <3>2. CASE j \in 1 .. L
      <4> DEFINE x == j - 1
      <4>1. x \in Int /\ x <= L /\ L - x < Q /\ x # L /\ L - j < Q
        BY <3>2, <2>5, <2>8
      <4>0. ringbuffer[(j - 1) % Q] = log[j]
        <5>1. \A jj \in 1 .. Len(log) :
                Len(log) - jj < MAX_MESSAGE_QUEUE => ringbuffer[(jj - 1) % MAX_MESSAGE_QUEUE] = log[jj]
          BY <1>0 DEF RingOK
        <5> QED BY <5>1, <3>2, <4>1
      <4> HIDE DEF x
      <4>2. x % Q # L % Q
        <5>1. x \in Int /\ L \in Int /\ Q \in Nat /\ Q > 0 /\ x < L /\ L - x < Q
          BY <4>1, <2>5
        <5> QED BY <5>1, ModDiffer
      <4>3. x % Q \in 0 .. Q - 1
        BY <4>1, <2>5, DivMod, SMTT(60)
      <4>4. ringbuffer'[x % Q] = ringbuffer[x % Q]
        BY <2>1, <2>5, <4>2, <4>3, <1>0 DEF LogTypes
      <4>5. ringbuffer[x % Q] = log[j]
        BY <4>0 DEF x
      <4> QED BY <3>2, <4>4, <4>5, <2>4 DEF x
    <3> QED BY <3>1, <3>2, <2>5, SMTT(60)
  <2>9. ASSUME NEW d \in Up, ~lapped'[d]
        PROVE  /\ Position(d)' <= L + 1 /\ (L + 1) - Position(d)' < Q
               /\ ringbuffer_tail'[d] = Position(d)' % Q
               /\ \A k \in 1 .. Len(mirrored'[d]) : mirrored'[d][k] = log'[since'[d] + k]
    <3>1. ~lapped[d] /\ (d = cur \/ head # ringbuffer_tail[d]) /\ d \in Conns
      BY <2>1, <2>9, <1>0
    <3>2. /\ Position(d) <= L /\ L - Position(d) < Q /\ ringbuffer_tail[d] = Position(d) % Q
          /\ \A k \in 1 .. Len(mirrored[d]) : mirrored[d][k] = log[since[d] + k]
      BY <3>1, <1>0 DEF RingOK
    <3>3. since[d] \in Nat /\ Len(mirrored[d]) \in Nat /\ Position(d) = since[d] + Len(mirrored[d])
      BY <3>1, <1>0 DEF Position, LogTypes
    <3>4. Position(d)' = Position(d) /\ since'[d] = since[d] /\ mirrored'[d] = mirrored[d]
          /\ ringbuffer_tail'[d] = ringbuffer_tail[d]
      BY <2>1 DEF Position
    <3>5. Position(d) \in Nat
      BY <3>3
    <3>6. L - Position(d) # Q - 1
      <4> SUFFICES ASSUME L - Position(d) = Q - 1 PROVE FALSE
        OBVIOUS
      <4>1. CASE d = cur
        <5>1. Distance(cur) = L - Position(d)
          BY <4>1, <3>2, <3>5, <2>5, DistanceIs
        <5> QED BY <5>1, <2>1 DEF Room
      <4>2. CASE head # ringbuffer_tail[d]
        <5>1. L + 1 = Position(d) + Q
          BY <3>5, <2>5
        <5>2. (L + 1) % Q = Position(d) % Q
          BY <5>1, <3>5, RoundTheRing
        <5> QED BY <4>2, <5>2, <3>2, <2>5
      <4> QED BY <3>1, <4>1, <4>2
    <3>7. Position(d) <= L + 1 /\ (L + 1) - Position(d) < Q
      BY <3>2, <3>5, <3>6, <2>5, SMTT(60)
    <3>8. ASSUME NEW k \in 1 .. Len(mirrored[d]) PROVE mirrored[d][k] = log'[since[d] + k]
      <4>1. since[d] + k \in 1 .. L
        BY <3>2, <3>3, <2>5, SMTT(60)
      <4> QED BY <4>1, <3>2, <2>4
    <3> QED BY <3>2, <3>4, <3>7, <3>8
  <2>10. RingOK'
    <3>1. Up' = Up
      BY <2>1 DEF Up
    <3> QED BY <2>1, <2>4, <2>5, <2>8, <2>9, <3>1 DEF RingOK
  <2> QED BY <2>6, <2>7, <2>10 DEF LogInv
<1>4. ASSUME RxDropped PROVE LogInv'
  <2>1. /\ stage = "rx" /\ cur \in Conns /\ dropped' = [dropped EXCEPT ![cur] = TRUE]
        /\ UNCHANGED <<conn, ringbuffer, ringbuffer_head, ringbuffer_tail, socket, sentBy, log, since,
                       mirrored, lapped>>
    BY <1>4, <1>0 DEF RxDropped
  <2>2. conn[cur] = "up"
    BY <2>1, <1>0 DEF ServesUp
  <2>3. LogTypes'
    BY <2>1, <1>0 DEF LogTypes
  <2>4. FreshOK'
    BY <2>1, <2>2, <1>0 DEF FreshOK, LogTypes
  <2>5. RingOK'
    BY <2>1, <1>0 DEF RingOK, Up, Position
  <2> QED BY <2>3, <2>4, <2>5 DEF LogInv
<1>5. ASSUME NEW c \in Conns, Establish(c) PROVE LogInv'
  <2>1. /\ conn[c] = "new" /\ conn' = [conn EXCEPT ![c] = "up"]
        /\ ringbuffer_tail' = [ringbuffer_tail EXCEPT ![c] = ringbuffer_head]
        /\ since' = [since EXCEPT ![c] = L]
        /\ UNCHANGED <<ringbuffer, ringbuffer_head, socket, sentBy, log, mirrored, dropped, lapped>>
    BY <1>5 DEF Establish, ringVars
  <2>2. LogTypes'
    BY <2>1, <1>0 DEF LogTypes
  <2>3. FreshOK'
    BY <2>1, <1>0 DEF FreshOK, TypeOK
  <2>4. RingOK'
    <3> SUFFICES ASSUME NEW d \in Up', ~lapped[d]
                 PROVE  /\ Position(d)' <= L /\ L - Position(d)' < Q
                        /\ ringbuffer_tail'[d] = Position(d)' % Q
                        /\ \A k \in 1 .. Len(mirrored[d]) : mirrored[d][k] = log[since'[d] + k]
      BY <2>1, <1>0 DEF RingOK
    <3>1. CASE d = c
      <4>1. mirrored[d] = <<>> /\ Position(d)' = L
        BY <3>1, <2>1, <1>0 DEF FreshOK, Position, LogTypes
      <4>2. ringbuffer_tail'[d] = L % Q
        BY <3>1, <2>1, <1>0 DEF RingOK, TypeOK
      <4> QED BY <4>1, <4>2, <1>0, RingSize
    <3>2. CASE d # c
      <4>1. d \in Up /\ since'[d] = since[d] /\ ringbuffer_tail'[d] = ringbuffer_tail[d]
        BY <3>2, <2>1, <1>0 DEF Up, LogTypes, TypeOK
      <4>2. Position(d)' = Position(d)
        BY <4>1, <2>1 DEF Position
      <4> QED BY <4>1, <4>2, <1>0 DEF RingOK
    <3> QED BY <3>1, <3>2
  <2> QED BY <2>2, <2>3, <2>4 DEF LogInv
<1>6. ASSUME NEW c \in Conns, Close(c) PROVE LogInv'
  <2>1. /\ conn' = [conn EXCEPT ![c] = "closed"] /\ socket' = [socket EXCEPT ![c] = <<>>]
        /\ UNCHANGED <<ringbuffer, ringbuffer_head, ringbuffer_tail, sentBy, log, since, mirrored,
                       dropped, lapped>>
    BY <1>6 DEF Close, ringVars
  <2>2. LogTypes'
    BY <2>1, <1>0 DEF LogTypes
  <2>3. FreshOK'
    BY <2>1, <1>0 DEF FreshOK, TypeOK, InputTypes
  <2>4. Up' \subseteq Up
    BY <2>1, <1>0 DEF Up, TypeOK
  <2>5. RingOK'
    BY <2>1, <2>4, <1>0 DEF RingOK, Position
  <2> QED BY <2>2, <2>3, <2>5 DEF LogInv
<1>7. ASSUME NEW c \in Conns, ClientSends(c) PROVE LogInv'
  <2>1. /\ conn[c] = "up" /\ sentBy' = [sentBy EXCEPT ![c] = @ + 1]
        /\ socket' = [socket EXCEPT ![c] = Append(@, <<c, sentBy[c] + 1>>)]
        /\ UNCHANGED <<conn, ringbuffer, ringbuffer_head, ringbuffer_tail, log, since, mirrored,
                       dropped, lapped>>
    BY <1>7 DEF ClientSends, ringVars
  <2>2. LogTypes'
    BY <2>1, <1>0 DEF LogTypes
  <2>3. FreshOK'
    BY <2>1, <1>0 DEF FreshOK, TypeOK, InputTypes
  <2>4. RingOK'
    BY <2>1, <1>0 DEF RingOK, Up, Position
  <2> QED BY <2>2, <2>3, <2>4 DEF LogInv
<1>8. ASSUME NEW c \in Conns, NEW out \in BOOLEAN, Poll(c, out) PROVE LogInv'
  BY <1>1, <1>8 DEF Poll, ringVars
<1>9. ASSUME WriteEnd \/ StartDrain \/ RecvNothing \/ RxStopped \/ RxEnd PROVE LogInv'
  BY <1>1, <1>9 DEF WriteEnd, StartDrain, RecvNothing, RxStopped, RxEnd, ringVars
<1>10. ASSUME Recv PROVE LogInv'
  <2>1. conn[cur] = "up" /\ cur \in Conns
    BY <1>10, <1>0 DEF Recv, ServesUp
  <2>2. PICK v : socket' = [socket EXCEPT ![cur] = v]
    BY <1>10 DEF Recv
  <2>3. \A c \in Conns : conn[c] = "new" => socket'[c] = socket[c]
    BY <2>1, <2>2, <1>0 DEF InputTypes
  <2> QED BY <1>1, <1>10, <2>3 DEF Recv, ringVars
<1>11. ASSUME UNCHANGED vars PROVE LogInv'
  BY <1>1, <1>11 DEF vars
<1> QED BY <1>2, <1>3, <1>4, <1>5, <1>6, <1>7, <1>8, <1>9, <1>10, <1>11 DEF Next, Writing, Reading

(* Two pieces that continue each other in a log are the log's end. *)
LEMMA Joined ==
  ASSUME NEW T, NEW l \in Seq(T), NEW u \in Seq(T), NEW w \in Seq(T), NEW s0 \in Nat,
         (s0 + Len(u)) + Len(w) = Len(l),
         \A k \in 1 .. Len(u) : u[k] = l[s0 + k],
         \A k \in 1 .. Len(w) : w[k] = l[(s0 + Len(u)) + k]
  PROVE  u \o w = SubSeq(l, s0 + 1, Len(l))
<1> DEFINE x == u \o w
           y == SubSeq(l, s0 + 1, Len(l))
<1>1. Len(u) \in Nat /\ Len(w) \in Nat /\ Len(l) \in Nat
  OBVIOUS
<1>2. /\ x \in Seq(T) /\ Len(x) = Len(u) + Len(w)
      /\ \A k \in 1 .. Len(x) : x[k] = IF k <= Len(u) THEN u[k] ELSE w[k - Len(u)]
  OBVIOUS
<1>3. y \in Seq(T) /\ Len(y) = Len(l) - s0 /\ \A k \in 1 .. Len(y) : y[k] = l[s0 + k]
  BY <1>1
<1> HIDE DEF x, y
<1>4. Len(x) = Len(y)
  BY <1>1, <1>2, <1>3
<1>5. ASSUME NEW k \in 1 .. Len(x) PROVE x[k] = y[k]
  <2>1. CASE k <= Len(u)
    <3>1. k \in 1 .. Len(u) /\ k \in 1 .. Len(y)
      BY <2>1, <1>1, <1>2, <1>4
    <3> QED BY <3>1, <2>1, <1>2, <1>3
  <2>2. CASE ~(k <= Len(u))
    <3>1. k - Len(u) \in 1 .. Len(w) /\ k \in 1 .. Len(y) /\ (s0 + Len(u)) + (k - Len(u)) = s0 + k
      BY <2>2, <1>1, <1>2, <1>4
    <3>2. w[k - Len(u)] = l[s0 + k]
      BY <3>1
    <3>3. x[k] = w[k - Len(u)]
      BY <1>2, <2>2
    <3> QED BY <3>1, <3>2, <3>3, <1>3
  <2> QED BY <2>1, <2>2
<1>6. x = y
  BY <1>2, <1>3, <1>4, <1>5
<1> QED BY <1>6 DEF x, y

(* LWS_CALLBACK_SERVER_WRITEABLE: a client that no other client has lapped, and whose socket took   *)
(* every frame whole, is written every message that entered the ring since it was established, once *)
(* and in order, for every size of the ring.                                                        *)
THEOREM MirrorKeepsOrder == Spec => []MirroredInOrder
<1>1. FlowInv /\ LogInv => MirroredInOrder
  <2> SUFFICES ASSUME FlowInv, LogInv, NEW c \in Up, ~lapped[c], ~cut[c]
               PROVE  mirrored[c] \o Backlog(c) = SubSeq(log, since[c] + 1, Len(log))
    BY DEF MirroredInOrder
  <2> DEFINE Q == MAX_MESSAGE_QUEUE
             L == Len(log)
             P == Position(c)
             T == Messages \cup {<<>>}
  <2>1. /\ P <= L /\ L - P < Q /\ ringbuffer_tail[c] = P % Q /\ ringbuffer_head = L % Q
        /\ \A k \in 1 .. Len(mirrored[c]) : mirrored[c][k] = log[since[c] + k]
        /\ \A j \in 1 .. L : L - j < Q => ringbuffer[(j - 1) % Q] = log[j]
    BY DEF LogInv, RingOK
  <2>2. /\ c \in Conns /\ since[c] \in Nat /\ mirrored[c] \in Seq(T) /\ log \in Seq(T)
        /\ L \in Nat /\ Len(mirrored[c]) \in Nat /\ P = since[c] + Len(mirrored[c])
    BY DEF LogInv, LogTypes, Up, Position
  <2>3. P \in Nat /\ Q \in Nat /\ Q > 3
    BY <2>2, RingSize
  <2> HIDE DEF P
  <2>4. Distance(c) = L - P
    BY <2>1, <2>2, <2>3, DistanceIs
  <2>5. ASSUME NEW k \in 1 .. L - P
        PROVE  ringbuffer[(ringbuffer_tail[c] + k - 1) % Q] = log[P + k]
    <3> DEFINE e == k - 1
               j == P + k
    <3>1. e \in Int /\ ringbuffer_tail[c] + k - 1 = (P % Q) + e
      <4>1. P % Q \in Int
        BY <2>3, DivMod
      <4> QED BY <4>1, <2>1
    <3>0. P \in Nat /\ L \in Nat /\ Q \in Nat /\ Q > 0 /\ P <= L /\ L - P < Q /\ P \in Int
      BY <2>1, <2>2, <2>3
    <3>2. j \in 1 .. L /\ L - j < Q /\ j - 1 = P + e
      BY <3>0
    <3> HIDE DEF e, j
    <3>5. e \in Int
      BY <3>1
    <3>3. ((P % Q) + e) % Q = (P + e) % Q
      BY <3>0, <3>5, ModAdd
    <3>4. ringbuffer[(j - 1) % Q] = log[j]
      BY <2>1, <3>2
    <3> QED BY <3>1, <3>2, <3>3, <3>4 DEF j
  <2>6. /\ Backlog(c) = [k \in 1 .. L - P |-> ringbuffer[(ringbuffer_tail[c] + k - 1) % Q]]
        /\ L - P \in Nat
    BY <2>1, <2>2, <2>3, <2>4, SMTT(60) DEF Backlog
  <2> DEFINE w == Backlog(c)
  <2>7. /\ w \in Seq(T) /\ Len(w) = L - P /\ \A k \in 1 .. L - P : w[k] = log[P + k]
    <3>1. DOMAIN w = 1 .. L - P /\ \A k \in 1 .. L - P : w[k] = log[P + k]
      BY <2>5, <2>6
    <3>2. \A k \in 1 .. L - P : log[P + k] \in T
      <4> TAKE k \in 1 .. L - P
      <4>1. P + k \in 1 .. L
        BY <2>2, <2>3
      <4> QED BY <4>1, <2>2
    <3>3. w \in [1 .. L - P -> T]
      BY <2>6, <3>1, <3>2
    <3> QED BY <2>6, <3>1, <3>3, SMTT(60)
  <2> HIDE DEF w
  <2>8. mirrored[c] \o w = SubSeq(log, since[c] + 1, Len(log))
    <3>1. (since[c] + Len(mirrored[c])) + Len(w) = Len(log)
      BY <2>2, <2>3, <2>7
    <3>2. \A k \in 1 .. Len(w) : w[k] = log[(since[c] + Len(mirrored[c])) + k]
      BY <2>2, <2>7
    <3> QED BY <2>1, <2>2, <2>7, <3>1, <3>2, Joined, ZenonT(60)
  <2> QED BY <2>8 DEF w
<1> QED BY <1>1, FlowInit, FlowStep, LogInit, LogStep, PTL DEF Spec

---------------------------------------------------------------------------
(* Throttling *)

LEMMA OthersFlow ==
  ASSUME NEW c \in Conns, NEW flags, NEW buffer, NEW asked, pollin \in [Conns -> BOOLEAN],
         ApplyFlow(c, flags, buffer, asked)
  PROVE  \A d \in Conns : d # c => pollin'[d] = pollin[d]
BY DEF ApplyFlow

(* The distance of a client's tail that was not lapped. *)
LEMMA Lag ==
  ASSUME LogInv, NEW c \in Up, ~lapped[c]
  PROVE  /\ Position(c) \in Nat /\ Len(log) \in Nat /\ Position(c) <= Len(log)
         /\ Distance(c) = Len(log) - Position(c)
         /\ ringbuffer_tail[c] = Position(c) % MAX_MESSAGE_QUEUE
         /\ ringbuffer_tail[c] # ringbuffer_head \/ Position(c) = Len(log)
<1> DEFINE P == Position(c)
           L == Len(log)
<1>1. /\ P <= L /\ L - P < MAX_MESSAGE_QUEUE
      /\ ringbuffer_tail[c] = P % MAX_MESSAGE_QUEUE /\ ringbuffer_head = L % MAX_MESSAGE_QUEUE
  BY DEF LogInv, RingOK
<1>2. P \in Nat /\ L \in Nat
  BY DEF LogInv, LogTypes, Position, Up
<1> HIDE DEF P, L
<1>3. Distance(c) = L - P
  BY <1>1, <1>2, DistanceIs
<1>4. ringbuffer_tail[c] # ringbuffer_head \/ P = L
  <2>1. CASE P < L
    <3>1. P \in Int /\ L \in Int /\ MAX_MESSAGE_QUEUE \in Nat /\ MAX_MESSAGE_QUEUE > 0
      BY <1>2, RingSize
    <3>2. P % MAX_MESSAGE_QUEUE # L % MAX_MESSAGE_QUEUE
      BY <1>1, <2>1, <3>1, ModDiffer
    <3> QED BY <1>1, <3>2
  <2> QED BY <1>1, <1>2, <2>1
<1> QED BY <1>1, <1>2, <1>3, <1>4 DEF P, L

LEMMA AloneInit == Init => AloneOK
<1> SUFFICES ASSUME Init PROVE AloneOK
  OBVIOUS
<1>1. Up = {}
  BY DEF Init, Up
<1> QED BY <1>1 DEF AloneOK

LEMMA AloneStep == FlowInv /\ LogInv /\ AloneOK /\ [Next]_vars => AloneOK'
<1> SUFFICES ASSUME FlowInv, LogInv, AloneOK, [Next]_vars, NEW c \in Conns, c \in Up', Alone(c)'
             PROVE  Throttled(c)'
  BY DEF AloneOK, Throttled, Up
<1> DEFINE Q == MAX_MESSAGE_QUEUE
           L == Len(log)
           P == Position(c)
<1>0. /\ FlowTypes /\ TypeOK /\ InputTypes /\ ServesUp /\ DeafOK /\ LogTypes /\ FreshOK
      /\ NoOne \notin Conns
      /\ stage # "poll" => cur \in Conns
      /\ cur \in Conns => cur \in Up
      /\ Q \in Nat /\ Q > 3 /\ L \in Nat /\ P \in Nat
      /\ pollin \in [Conns -> BOOLEAN]
      /\ rxflow_change_to \in [Conns -> Flags]
  <2>1. Q \in Nat /\ Q > 3
    BY RingSize
  <2>2. L \in Nat /\ P \in Nat
    BY DEF LogInv, LogTypes, Position
  <2> QED BY <2>1, <2>2, MirrorAssumption DEF FlowInv, FlowTypes, TypeOK, LogInv, ServesUp, Up, Flags
<1>a. FlowInv' /\ LogInv'
  BY FlowStep, LogStep
<1>b. ASSUME log' = log, c \in Up PROVE Throttled(c)
  <2>1. Alone(c)
    BY <1>b DEF Alone
  <2> QED BY <2>1, <1>b DEF AloneOK, Throttled
<1>c. ASSUME Throttled(c), UNCHANGED <<log, since, mirrored, lapped, dropped>>, pollin'[c] = pollin[c],
             cur' # c
      PROVE  Throttled(c)'
  BY <1>c DEF Throttled, Position
<1>1. ASSUME NEW d \in Conns, NEW out \in BOOLEAN, Poll(d, out) PROVE Throttled(c)'
  <2>1. /\ cur' = d /\ stage' = (IF out THEN "write" ELSE "in") /\ revin' = (pollin[d] /\ socket[d] # <<>>)
        /\ out \/ pollin[d]
        /\ UNCHANGED <<conn, pollin, log, since, mirrored, lapped, dropped>>
    BY <1>1 DEF Poll, ringVars
  <2>2. Throttled(c)
    BY <1>b, <2>1 DEF Up
  <2>3. CASE d = c
    <3>1. Position(c)' = Position(c)
      BY <2>1 DEF Position
    <3> QED BY <2>1, <2>2, <2>3, <3>1 DEF Throttled
  <2>4. CASE d # c
    BY <1>c, <2>1, <2>2, <2>4
  <2> QED BY <2>3, <2>4
<1>2. ASSUME NEW choked \in BOOLEAN, NEW part \in BOOLEAN, WriteOne(choked, part) PROVE Throttled(c)'
  <2>1. /\ stage = "write" /\ cur \in Conns /\ cur' = cur
        /\ mirrored' = [mirrored EXCEPT ![cur] = Append(@, ringbuffer[ringbuffer_tail[cur]])]
        /\ UNCHANGED <<conn, log, since, dropped, lapped>>
    BY <1>2, <1>0 DEF WriteOne, ringVars
  <2>2. Throttled(c) /\ c \in Up
    BY <1>b, <2>1 DEF Up
  <2>3. CASE c = cur
    <3>1. /\ mirrored'[c] = Append(mirrored[c], ringbuffer[ringbuffer_tail[c]])
          /\ mirrored[c] \in Seq(Messages \cup {<<>>})
          /\ ringbuffer[ringbuffer_tail[c]] \in Messages \cup {<<>>}
      BY <2>1, <2>3, <1>0 DEF LogTypes, TypeOK
    <3>2. Len(mirrored'[c]) = Len(mirrored[c]) + 1
      BY <3>1, Appended
    <3>3. Position(c)' = P + 1
      <4>1. since'[c] = since[c] /\ since[c] \in Nat /\ Len(mirrored[c]) \in Nat
        BY <2>1, <3>1, <1>0 DEF LogTypes
      <4> QED BY <3>2, <4>1 DEF Position
    <3> QED BY <2>1, <2>2, <3>3, <1>0 DEF Throttled
  <2>4. CASE c # cur
    <3>1. pollin'[c] = pollin[c]
      <4>1. CASE choked
        <5>1. \E flags, asked : ApplyFlow(cur, flags, rxflow_buffer[cur], asked)
          BY <1>2, <4>1 DEF WriteOne
        <5> QED BY <5>1, <2>1, <2>4, <1>0, OthersFlow
      <4>2. CASE ~choked
        BY <1>2, <4>2 DEF WriteOne
      <4> QED BY <4>1, <4>2
    <3>2. mirrored'[c] = mirrored[c] /\ Position(c)' = Position(c)
      BY <2>1, <2>4, <1>0 DEF LogTypes, Position
    <3> QED BY <2>1, <2>2, <2>4, <3>1, <3>2 DEF Throttled
  <2> QED BY <2>3, <2>4
<1>3. ASSUME WriteEnd PROVE Throttled(c)'
  <2>1. /\ stage = "write" /\ cur \in Conns /\ cur' = cur /\ ringbuffer_tail[cur] = ringbuffer_head
        /\ ApplyFlow(cur, rxflow_change_to, rxflow_buffer[cur], pollout)
        /\ UNCHANGED <<conn, log, since, mirrored, dropped, lapped>>
    BY <1>3, <1>0 DEF WriteEnd, ringVars
  <2>2. Throttled(c) /\ c \in Up /\ Position(c)' = P
    BY <1>b, <2>1 DEF Up, Position
  <2>3. CASE c = cur
    <3>1. ~lapped[c]
      BY <2>2 DEF Throttled
    <3>2. P = L
      BY <2>1, <2>2, <2>3, <3>1, Lag
    <3> QED BY <2>1, <2>2, <3>2, <1>0 DEF Throttled
  <2>4. CASE c # cur
    <3>1. pollin'[c] = pollin[c]
      BY <2>1, <2>4, <1>0, OthersFlow
    <3> QED BY <1>c, <2>1, <2>2, <2>4, <3>1
  <2> QED BY <2>3, <2>4
<1>4. ASSUME StartDrain \/ Recv PROVE Throttled(c)'
  <2>1. /\ stage = "in" /\ cur \in Conns /\ cur' = cur
        /\ Allowed(cur) \/ revin
        /\ UNCHANGED <<conn, pollin, log, since, mirrored, dropped, lapped>>
    BY <1>4, <1>0 DEF StartDrain, Recv, ringVars
  <2>2. Throttled(c) /\ Position(c)' = P
    BY <1>b, <2>1 DEF Up, Position
  <2>3. CASE c = cur
    BY <2>1, <2>2, <2>3 DEF Throttled
  <2>4. CASE c # cur
    BY <1>c, <2>1, <2>2, <2>4
  <2> QED BY <2>3, <2>4
<1>5. ASSUME RecvNothing \/ RxStopped PROVE Throttled(c)'
  <2>1. /\ cur' = NoOne /\ UNCHANGED <<conn, pollin, log, since, mirrored, dropped, lapped>>
    BY <1>5 DEF RecvNothing, RxStopped, ringVars
  <2>2. Throttled(c)
    BY <1>b, <2>1 DEF Up
  <2> QED BY <1>c, <2>1, <2>2, <1>0
<1>6. ASSUME RxStored PROVE Throttled(c)'
  <2> DEFINE m == Head(input)
             head == After(ringbuffer_head)
             full == Throttle((head - ringbuffer_tail[cur]) % Q)
             Fewer == [rxflow_change_to EXCEPT ![cur] = Changed(@, FALSE)]
  <2>1. /\ stage = "rx" /\ cur \in Conns /\ cur \in Up /\ input # <<>> /\ Allowed(cur) /\ cur' = cur /\ stage' = stage
        /\ log' = Append(log, m)
        /\ lapped' = [d \in Conns |-> lapped[d] \/ (d # cur /\ d \in Up /\ head = ringbuffer_tail[d])]
        /\ RxReturns(IF full THEN Fewer ELSE rxflow_change_to)
        /\ UNCHANGED <<conn, since, mirrored, dropped>>
    BY <1>6, <1>0 DEF RxStored
  <2>2. m \in Messages /\ m[1] = cur
    <3>1. m \in From(cur)
      BY <2>1, <1>0, OwnSequences DEF InputTypes
    <3> QED BY <3>1, <2>1 DEF From, Messages
  <2> HIDE DEF m
  <2>3. /\ Len(log') = L + 1 /\ DOMAIN log' = 1 .. L + 1 /\ DOMAIN log = 1 .. L
        /\ log'[L + 1] = m /\ \A k \in 1 .. L : log'[k] = log[k]
    BY <2>1, <2>2, <1>0, Appended DEF LogTypes
  <2>4. c = cur
    <3>1. L + 1 \in DOMAIN log'
      BY <2>3, <1>0
    <3>2. log'[L + 1][1] = c
      BY <3>1 DEF Alone
    <3> QED BY <3>2, <2>2, <2>3
  <2>5. Alone(c)
    <3>1. \A k \in 1 .. L : k \in DOMAIN log' /\ log'[k] = log[k]
      BY <2>3, <1>0
    <3> QED BY <3>1, <2>3 DEF Alone
  <2>6. Throttled(c)
    BY <2>1, <2>4, <2>5 DEF AloneOK, Throttled
  <2>7. L - P # Q - 2
    BY <2>1, <2>4, <2>6 DEF Throttled
  <2>8. Position(c)' = P /\ lapped'[c] = lapped[c] /\ dropped'[c] = dropped[c]
    BY <2>1, <2>4, <1>0 DEF Position, LogTypes
  <2>9. ASSUME (L + 1) - P = Q - 2 PROVE ~Allowed(c)'
    <3>1. P <= L /\ ringbuffer_tail[c] = P % Q
      BY <2>1, <2>4, <2>6, Lag DEF Throttled
    <3>2. head = (L + 1) % Q
      BY <1>0, AfterPosition DEF LogInv, RingOK
    <3>3. (((L + 1) % Q) - (P % Q)) % Q = (L + 1) - P
      <4> DEFINE y == L + 1
      <4>1. y \in Int /\ P \in Int /\ Q \in Nat /\ Q > 0 /\ P <= y /\ y - P < Q
        BY <1>0, <2>9, <3>1
      <4> HIDE DEF y, P
      <4>2. ((y % Q) - (P % Q)) % Q = y - P
        BY <4>1, ModEqual
      <4> QED BY <4>2 DEF y
    <3>4. full
      BY <2>4, <2>9, <3>1, <3>2, <3>3 DEF Throttle
    <3>5. RxReturns(Fewer)
      BY <2>1, <3>4
    <3>6. Fewer \in [Conns -> Flags] /\ Fewer[c].allow = FALSE
      <4>1. Changed(rxflow_change_to[cur], FALSE) \in Flags /\ Changed(rxflow_change_to[cur], FALSE).allow = FALSE
        BY <2>1, <1>0, ChangedIs
      <4> QED BY <2>1, <2>4, <4>1, <1>0
    <3> DEFINE buffer == Taken[cur]
               asked == [d \in Conns |-> pollout[d] \/ d \in Up]
    <3> HIDE DEF Fewer
    <3>7. ApplyFlow(cur, Fewer, buffer, asked) /\ rxflow_buffer' = Taken
      BY <3>5 DEF RxReturns
    <3>8. buffer.on \in BOOLEAN /\ asked \in [Conns -> BOOLEAN]
      <4>1. rxflow_buffer'[cur].on \in BOOLEAN
        BY <1>a, <2>1 DEF FlowInv, FlowTypes, TypeOK
      <4> QED BY <4>1, <3>7, <1>0 DEF TypeOK
    <3> HIDE DEF buffer, asked
    <3>9. rxflow_change_to'[c].allow = Fewer[c].allow
      <4>1. pollin \in [Conns -> BOOLEAN] /\ cur \in Conns /\ Fewer \in [Conns -> Flags]
        BY <2>1, <3>6, <1>0
      <4>2. ApplyFlow(cur, Fewer, buffer, asked)
        BY <3>7
      <4>3. \A d \in Conns : rxflow_change_to'[d].allow = Fewer[d].allow
        BY <3>8, <4>1, <4>2, FlowApplied
      <4> QED BY <4>3
    <3> QED BY <3>6, <3>9 DEF Allowed
  <2>10. pollin'[c] => Allowed(c)'
    BY <1>a DEF FlowInv, DeafOK
  <2> QED BY <2>1, <2>3, <2>6, <2>7, <2>8, <2>9, <2>10, <1>0 DEF Throttled
<1>7. ASSUME RxDropped PROVE Throttled(c)'
  <2>1. /\ stage = "rx" /\ cur \in Conns /\ cur \in Up /\ cur' = cur /\ ~Room(cur)
        /\ dropped' = [dropped EXCEPT ![cur] = TRUE]
        /\ UNCHANGED <<conn, log, since, mirrored, lapped>>
    BY <1>7, <1>0 DEF RxDropped
  <2>2. Throttled(c) /\ c \in Up
    BY <1>b, <2>1 DEF Up
  <2>3. c # cur
    <3> SUFFICES ASSUME c = cur PROVE FALSE
      OBVIOUS
    <3>1. Distance(c) = L - P
      BY <2>2, Lag DEF Throttled
    <3>2. Distance(c) = Q - 1
      BY <2>1 DEF Room
    <3> QED BY <2>2, <3>1, <3>2, <1>0 DEF Throttled
  <2>4. dropped'[c] = dropped[c]
    BY <2>1, <2>3, <1>0 DEF LogTypes
  <2>5. pollin'[c] = pollin[c]
    <3>1. \E flags, buffer, asked : ApplyFlow(cur, flags, buffer, asked)
      BY <1>7 DEF RxDropped, RxReturns
    <3> QED BY <3>1, <2>1, <2>3, <1>0, OthersFlow
  <2>6. Position(c)' = Position(c)
    BY <2>1 DEF Position
  <2> QED BY <2>1, <2>2, <2>3, <2>4, <2>5, <2>6 DEF Throttled
<1>8. ASSUME RxEnd PROVE Throttled(c)'
  <2>1. /\ stage = "rx" /\ cur \in Conns /\ cur' = NoOne
        /\ UNCHANGED <<conn, log, since, mirrored, dropped, lapped>>
        /\ IF draining THEN ApplyFlow(cur, rxflow_change_to, NULL, pollout)
                       ELSE UNCHANGED <<rxflow_change_to, pollin>>
    BY <1>8, <1>0 DEF RxEnd, ringVars
  <2>2. Throttled(c)
    BY <1>b, <2>1 DEF Up
  <2>3. CASE c # cur
    <3>1. pollin'[c] = pollin[c]
      BY <2>1, <2>3, <1>0, OthersFlow
    <3> QED BY <1>c, <2>1, <2>2, <3>1, <1>0
  <2>4. CASE c = cur
    <3>1. rxflow_change_to'[c].allow = rxflow_change_to[c].allow
      <4>1. CASE draining
        <5>1. NULL.on \in BOOLEAN /\ pollout \in [Conns -> BOOLEAN]
          BY <1>0 DEF NULL, TypeOK
        <5> QED BY <4>1, <5>1, <2>1, <1>0, FlowApplied
      <4> QED BY <4>1, <2>1
    <3>2. pollin'[c] => Allowed(c)
      <4>1. pollin'[c] => Allowed(c)'
        BY <1>a DEF FlowInv, DeafOK
      <4> QED BY <4>1, <3>1 DEF Allowed
    <3>3. Position(c)' = P
      BY <2>1 DEF Position
    <3> QED BY <2>1, <2>2, <2>4, <3>2, <3>3, <1>0 DEF Throttled
  <2> QED BY <2>3, <2>4
<1>9. ASSUME NEW d \in Conns, Establish(d) PROVE Throttled(c)'
  <2>1. /\ conn[d] = "new" /\ conn' = [conn EXCEPT ![d] = "up"] /\ cur' = NoOne
        /\ since' = [since EXCEPT ![d] = L] /\ pollin' = [pollin EXCEPT ![d] = TRUE]
        /\ UNCHANGED <<log, mirrored, dropped, lapped>>
    BY <1>9 DEF Establish, ringVars
  <2>2. CASE c = d
    <3>1. ~lapped[c] /\ ~dropped[c] /\ mirrored[c] = <<>>
      BY <2>1, <2>2, <1>0 DEF FreshOK
    <3>2. Position(c)' = L
      BY <2>1, <2>2, <3>1, <1>0 DEF Position, LogTypes
    <3> QED BY <2>1, <3>1, <3>2, <1>0 DEF Throttled
  <2>3. CASE c # d
    <3>1. c \in Up /\ since'[c] = since[c] /\ pollin'[c] = pollin[c]
      BY <2>1, <2>3, <1>0 DEF Up, TypeOK, LogTypes
    <3>2. Throttled(c) /\ Position(c)' = P
      BY <1>b, <2>1, <3>1 DEF Position
    <3> QED BY <2>1, <3>1, <3>2, <1>0 DEF Throttled
  <2> QED BY <2>2, <2>3
<1>10. ASSUME NEW d \in Conns, Close(d) PROVE Throttled(c)'
  <2>1. /\ conn' = [conn EXCEPT ![d] = "closed"] /\ cur' = NoOne /\ pollin' = [pollin EXCEPT ![d] = FALSE]
        /\ UNCHANGED <<log, since, mirrored, dropped, lapped>>
    BY <1>10 DEF Close, ringVars
  <2>2. c # d /\ c \in Up
    BY <2>1, <1>0 DEF Up, TypeOK
  <2>3. Throttled(c) /\ pollin'[c] = pollin[c]
    BY <1>b, <2>1, <2>2, <1>0
  <2> QED BY <1>c, <2>1, <2>3, <1>0
<1>11. ASSUME (\E d \in Conns : ClientSends(d)) \/ UNCHANGED vars PROVE Throttled(c)'
  <2>1. UNCHANGED <<conn, pollin, cur, stage, revin, rxflow_change_to, log, since, mirrored, dropped, lapped>>
    BY <1>11 DEF ClientSends, vars, ringVars
  <2>2. Throttled(c)
    BY <1>b, <2>1 DEF Up
  <2> QED BY <2>1, <2>2 DEF Throttled, Position, Allowed
<1> QED BY <1>1, <1>2, <1>3, <1>4, <1>5, <1>6, <1>7, <1>8, <1>9, <1>10, <1>11
     DEF Next, Writing, Reading

---------------------------------------------------------------------------
(* The messages of one client, from its socket to the ring *)

(* The messages of c numbered from e + 1 to t. *)
Run(v, c, e, t) == e <= t /\ Len(v) = t - e /\ \A k \in 1 .. Len(v) : v[k] = <<c, e + k>>

LostOK ==
  \A c \in Up : ~dropped[c] =>
    /\ \A k \in DOMAIN log : log[k][1] = c => log[k] = <<c, Entered(c, k)>>
    /\ Run(Pending(c), c, Entered(c, Len(log)), sentBy[c])

(* The first message is taken off. *)
LEMMA RunTail ==
  ASSUME NEW T, NEW u \in Seq(T), NEW w \in Seq(T), u # <<>>,
         NEW c, NEW e \in Nat, NEW t \in Nat, Run(u \o w, c, e, t)
  PROVE  Head(u) = <<c, e + 1>> /\ Run(Tail(u) \o w, c, e + 1, t)
<1> DEFINE x == u \o w
           y == Tail(u) \o w
<1>1. Len(u) \in Nat /\ Len(u) >= 1 /\ Len(w) \in Nat
  OBVIOUS
<1>2. Len(x) = Len(u) + Len(w) /\ x[1] = Head(u)
  OBVIOUS
<1>3. Len(y) = (Len(u) - 1) + Len(w) /\ \A k \in 1 .. Len(y) : y[k] = x[k + 1]
  BY <1>1
<1>4. e <= t /\ Len(x) = t - e /\ \A k \in 1 .. Len(x) : x[k] = <<c, e + k>>
  BY DEF Run
<1> HIDE DEF x, y
<1>5. 1 \in 1 .. Len(x) /\ e + 1 <= t /\ Len(y) = t - (e + 1)
  BY <1>1, <1>2, <1>3, <1>4
<1>6. ASSUME NEW k \in 1 .. Len(y) PROVE y[k] = <<c, (e + 1) + k>>
  <2>1. k + 1 \in 1 .. Len(x) /\ e + (k + 1) = (e + 1) + k
    BY <1>1, <1>2, <1>3
  <2> QED BY <2>1, <1>3, <1>4
<1>7. Head(u) = <<c, e + 1>>
  BY <1>2, <1>4, <1>5
<1>8. Run(y, c, e + 1, t)
  BY <1>5, <1>6 DEF Run
<1> QED BY <1>7, <1>8 DEF y

(* The next message is put at the end. *)
LEMMA RunAppend ==
  ASSUME NEW T, NEW u \in Seq(T), NEW w \in Seq(T), NEW c, NEW e \in Nat, NEW t \in Nat,
         <<c, t + 1>> \in T, Run(u \o w, c, e, t)
  PROVE  Run(u \o Append(w, <<c, t + 1>>), c, e, t + 1)
<1> DEFINE m == <<c, t + 1>>
           x == u \o w
           y == u \o Append(w, m)
<1>1. Len(u) \in Nat /\ Len(w) \in Nat /\ Len(x) = Len(u) + Len(w)
  OBVIOUS
<1>2. e <= t /\ Len(x) = t - e /\ \A k \in 1 .. Len(x) : x[k] = <<c, e + k>>
  BY DEF Run
<1>3. m \in T /\ m = <<c, t + 1>>
  OBVIOUS
<1> HIDE DEF m
<1>4. /\ Len(y) = Len(x) + 1 /\ y[Len(x) + 1] = m
      /\ \A k \in 1 .. Len(x) : y[k] = x[k]
  BY <1>1, <1>3
<1> HIDE DEF x, y
<1>5. e <= t + 1 /\ Len(y) = (t + 1) - e /\ e + (Len(x) + 1) = t + 1
  BY <1>2, <1>4
<1>6. ASSUME NEW k \in 1 .. Len(y) PROVE y[k] = <<c, e + k>>
  <2>1. k \in 1 .. Len(x) \/ k = Len(x) + 1
    BY <1>1, <1>2, <1>4
  <2> QED BY <2>1, <1>2, <1>3, <1>4, <1>5
<1>7. Run(y, c, e, t + 1)
  BY <1>5, <1>6 DEF Run
<1> QED BY <1>7 DEF y, m

LEMMA EmptyPieces ==
  ASSUME NEW T, NEW u \in Seq(T)
  PROVE  u \o <<>> = u /\ <<>> \o u = u /\ <<>> \in Seq(T)
OBVIOUS

LEMMA Concat ==
  ASSUME NEW T, NEW u \in Seq(T), NEW w \in Seq(T)
  PROVE  /\ u \o w \in Seq(T) /\ Len(u \o w) = Len(u) + Len(w)
         /\ \A j \in 1 .. Len(u \o w) : (u \o w)[j] = IF j <= Len(u) THEN u[j] ELSE w[j - Len(u)]
OBVIOUS

LEMMA CutAt ==
  ASSUME NEW T, NEW u \in Seq(T), NEW k \in 1 .. Len(u)
  PROVE  SubSeq(u, 1, k) \o SubSeq(u, k + 1, Len(u)) = u
<1> DEFINE a == SubSeq(u, 1, k)
           b == SubSeq(u, k + 1, Len(u))
           x == a \o b
<1>1. a \in Seq(T) /\ Len(a) = k /\ \A j \in 1 .. k : a[j] = u[j]
  OBVIOUS
<1>2. b \in Seq(T) /\ Len(b) = Len(u) - k /\ \A j \in 1 .. Len(u) - k : b[j] = u[k + j]
  OBVIOUS
<1>3. Len(u) \in Nat /\ k \in Nat
  OBVIOUS
<1> HIDE DEF a, b
<1>4. /\ x \in Seq(T) /\ Len(x) = Len(a) + Len(b)
      /\ \A j \in 1 .. Len(x) : x[j] = IF j <= Len(a) THEN a[j] ELSE b[j - Len(a)]
  BY <1>1, <1>2, Concat, ZenonT(60)
<1> HIDE DEF x
<1>7. Len(x) = Len(u)
  BY <1>1, <1>2, <1>3, <1>4
<1>5. ASSUME NEW j \in 1 .. Len(u) PROVE x[j] = u[j]
  <2>1. CASE j <= k
    BY <2>1, <1>1, <1>3, <1>4, <1>7
  <2>2. CASE ~(j <= k)
    <3>1. j - k \in 1 .. Len(u) - k /\ k + (j - k) = j
      BY <2>2, <1>3
    <3> QED BY <3>1, <2>2, <1>1, <1>2, <1>4, <1>7
  <2> QED BY <2>1, <2>2
<1>6. x = u
  BY <1>4, <1>5, <1>7
<1> QED BY <1>6 DEF x, a, b

(* How a client's share of the log grows with a message. *)
Share(l, c, h) == {j \in 1 .. h : l[j][1] = c}

LEMMA Counted ==
  ASSUME NEW l, NEW c, NEW h \in Nat
  PROVE  /\ Cardinality(Share(l, c, h)) \in Nat
         /\ Cardinality(Share(l, c, h + 1)) = IF l[h + 1][1] = c THEN Cardinality(Share(l, c, h)) + 1
                                                              ELSE Cardinality(Share(l, c, h))
<1>1. IsFiniteSet(Share(l, c, h)) /\ Cardinality(Share(l, c, h)) \in Nat
  <2>1. IsFiniteSet(1 .. h)
    BY FS_Interval
  <2>2. Share(l, c, h) \subseteq 1 .. h
    BY DEF Share
  <2> QED BY <2>1, <2>2, FS_Subset, FS_CardinalityType
<1>2. CASE l[h + 1][1] = c
  <2>1. Share(l, c, h + 1) = Share(l, c, h) \cup {h + 1} /\ h + 1 \notin Share(l, c, h)
    BY <1>2 DEF Share
  <2>2. Cardinality(Share(l, c, h) \cup {h + 1}) = Cardinality(Share(l, c, h)) + 1
    BY <1>1, <2>1, FS_AddElement
  <2> QED BY <1>1, <1>2, <2>1, <2>2
<1>3. CASE l[h + 1][1] # c
  <2>1. Share(l, c, h + 1) = Share(l, c, h)
    BY <1>3 DEF Share
  <2> QED BY <1>1, <1>3, <2>1
<1> QED BY <1>1, <1>2, <1>3

(* What of a client's input comes before its socket: what was kept back or what is in work. *)
Ahead(c) == IF rxflow_buffer[c].on THEN rxflow_buffer[c].rest ELSE IF cur = c THEN input ELSE <<>>

PendingForm ==
  \A c \in Conns : /\ Ahead(c) \in Seq(From(c)) /\ socket[c] \in Seq(From(c))
                   /\ Pending(c) = Ahead(c) \o socket[c]

LEMMA PendingIs == FlowInv => PendingForm
<1> SUFFICES ASSUME FlowInv, NEW c \in Conns
             PROVE  /\ Ahead(c) \in Seq(From(c)) /\ socket[c] \in Seq(From(c))
                    /\ Pending(c) = Ahead(c) \o socket[c]
  BY DEF PendingForm
<1> DEFINE kept == rxflow_buffer[c].rest
           work == IF cur = c /\ ~draining THEN input ELSE <<>>
<1>1. /\ rxflow_buffer[c].on \in BOOLEAN /\ draining \in BOOLEAN
      /\ kept \in Seq(From(c)) /\ socket[c] \in Seq(From(c))
      /\ cur = c => input \in Seq(From(c))
  BY DEF FlowInv, FlowTypes, TypeOK, InputTypes
<1>2. Pending(c) = kept \o work \o socket[c]
  BY DEF Pending
<1>3. CASE rxflow_buffer[c].on
  <2>1. work = <<>>
    BY <1>3 DEF FlowInv, WorkOK
  <2>2. Ahead(c) = kept
    BY <1>3 DEF Ahead
  <2>3. kept \o <<>> = kept
    BY <1>1, EmptyPieces
  <2> QED BY <1>1, <1>2, <2>1, <2>2, <2>3, Zenon
<1>4. CASE ~rxflow_buffer[c].on
  <2>1. kept = <<>> /\ work = Ahead(c)
    BY <1>4 DEF FlowInv, WorkOK, Ahead
  <2>2. Ahead(c) \in Seq(From(c))
    BY <1>1, <1>4 DEF Ahead
  <2>3. <<>> \o Ahead(c) = Ahead(c)
    BY <2>2, EmptyPieces
  <2> QED BY <1>1, <1>2, <2>1, <2>2, <2>3, Zenon
<1> QED BY <1>1, <1>3, <1>4

(* What LostOK says of one client. *)
InTurn(c) ==
  /\ \A k \in DOMAIN log : log[k][1] = c => log[k] = <<c, Entered(c, k)>>
  /\ Run(Pending(c), c, Entered(c, Len(log)), sentBy[c])

LEMMA LostInit == Init => LostOK
<1> SUFFICES ASSUME Init PROVE LostOK
  OBVIOUS
<1>1. Up = {}
  BY DEF Init, Up
<1> QED BY <1>1 DEF LostOK

LEMMA LostStep == FlowInv /\ LogInv /\ LostOK /\ [Next]_vars => LostOK'
<1> SUFFICES ASSUME FlowInv, LogInv, LostOK, [Next]_vars, NEW c \in Conns, c \in Up', ~dropped'[c]
             PROVE  InTurn(c)'
  BY DEF LostOK, InTurn, Up
<1> DEFINE L == Len(log)
<1>0. /\ FlowTypes /\ TypeOK /\ InputTypes /\ ServesUp /\ DeafOK /\ WorkOK /\ LogTypes /\ FreshOK
      /\ NoOne \notin Conns
      /\ stage # "poll" => cur \in Conns
      /\ L \in Nat
  BY MirrorAssumption, SMTT(60) DEF FlowInv, FlowTypes, TypeOK, LogInv, LogTypes
<1>a. FlowInv' /\ LogInv'
  BY FlowStep, LogStep
<1>b. PendingForm /\ PendingForm'
  <2>1. FlowInv' => PendingForm'
    BY PendingIs, PTL
  <2> QED BY <2>1, <1>a, PendingIs
<1>c. ASSUME c \in Up, ~dropped[c] PROVE InTurn(c)
  BY <1>c DEF LostOK, InTurn
<1>d. ASSUME c \in Up, ~dropped[c], log' = log, sentBy'[c] = sentBy[c],
             Ahead(c)' \o socket'[c] = Ahead(c) \o socket[c]
      PROVE  InTurn(c)'
  <2>1. Pending(c)' = Pending(c)
    BY <1>b, <1>d DEF PendingForm
  <2>2. \A k : Entered(c, k)' = Entered(c, k)
    BY <1>d DEF Entered
  <2> QED BY <1>c, <1>d, <2>1, <2>2 DEF InTurn
<1>1. ASSUME NEW d \in Conns, NEW out \in BOOLEAN, Poll(d, out) PROVE InTurn(c)'
  <2>1. /\ cur = NoOne /\ UNCHANGED <<conn, log, sentBy, dropped, rxflow_buffer, socket, input>>
    BY <1>1 DEF Poll, ringVars
  <2>2. input = <<>>
    BY <2>1, <1>0 DEF TypeOK, WorkOK
  <2>3. Ahead(c)' = Ahead(c)
    BY <2>1, <2>2, <1>0 DEF Ahead
  <2> QED BY <1>d, <2>1, <2>3 DEF Up
<1>2. ASSUME (\E choked, part \in BOOLEAN : WriteOne(choked, part)) \/ WriteEnd PROVE InTurn(c)'
  <2>1. UNCHANGED <<conn, log, sentBy, dropped, rxflow_buffer, socket, input, cur>>
    BY <1>2 DEF WriteOne, WriteEnd, ringVars
  <2>2. Ahead(c)' = Ahead(c)
    BY <2>1 DEF Ahead
  <2> QED BY <1>d, <2>1, <2>2 DEF Up
<1>3. ASSUME StartDrain PROVE InTurn(c)'
  <2>1. /\ rxflow_buffer[cur].on
        /\ UNCHANGED <<conn, log, sentBy, dropped, rxflow_buffer, socket, cur>>
    BY <1>3 DEF StartDrain, ringVars
  <2>2. Ahead(c)' = Ahead(c)
    BY <2>1 DEF Ahead
  <2> QED BY <1>d, <2>1, <2>2 DEF Up
<1>4. ASSUME Recv PROVE InTurn(c)'
  <2>1. /\ stage = "in" /\ cur \in Conns /\ revin /\ cur' = cur
        /\ UNCHANGED <<conn, log, sentBy, dropped, rxflow_buffer>>
    BY <1>4, <1>0 DEF Recv, ringVars
  <2>2. PICK k \in 1 .. Len(socket[cur]) :
          /\ input' = SubSeq(socket[cur], 1, k)
          /\ socket' = [socket EXCEPT ![cur] = SubSeq(@, k + 1, Len(@))]
    BY <1>4 DEF Recv
  <2>3. CASE c = cur
    <3>1. ~rxflow_buffer[c].on /\ input = <<>>
      BY <2>1, <2>3, <1>0 DEF DeafOK, WorkOK
    <3>2. Ahead(c) = <<>> /\ Ahead(c)' = SubSeq(socket[c], 1, k)
      BY <2>1, <2>2, <2>3, <3>1 DEF Ahead
    <3>3. socket'[c] = SubSeq(socket[c], k + 1, Len(socket[c])) /\ socket[c] \in Seq(From(c))
      BY <2>2, <2>3, <1>0 DEF InputTypes
    <3>4. SubSeq(socket[c], 1, k) \o SubSeq(socket[c], k + 1, Len(socket[c])) = socket[c]
      BY <2>2, <2>3, <3>3, CutAt
    <3>5. <<>> \o socket[c] = socket[c]
      BY <3>3, EmptyPieces
    <3>6. Ahead(c)' \o socket'[c] = Ahead(c) \o socket[c]
      BY <3>2, <3>3, <3>4, <3>5, Zenon
    <3> QED BY <1>d, <2>1, <3>6 DEF Up
  <2>4. CASE c # cur
    <3>1. Ahead(c)' = Ahead(c) /\ socket'[c] = socket[c]
      BY <2>1, <2>2, <2>4, <1>0 DEF Ahead, InputTypes
    <3> QED BY <1>d, <2>1, <3>1 DEF Up
  <2> QED BY <2>3, <2>4
<1>5. ASSUME RecvNothing PROVE InTurn(c)'
  <2>1. stage = "in" /\ cur' = NoOne /\ UNCHANGED <<conn, log, sentBy, dropped, rxflow_buffer, socket, input>>
    BY <1>5 DEF RecvNothing, ringVars
  <2>2. Ahead(c)' = Ahead(c)
    BY <2>1, <1>0 DEF Ahead, WorkOK
  <2> QED BY <1>d, <2>1, <2>2 DEF Up
<1>6. ASSUME RxStored \/ RxDropped PROVE InTurn(c)'
  <2> DEFINE m == Head(input)
  <2>1. /\ stage = "rx" /\ cur \in Conns /\ cur' = cur /\ input # <<>>
        /\ rxflow_buffer' = Taken /\ input' = Tail(input)
        /\ UNCHANGED <<conn, sentBy, socket>>
    BY <1>6, <1>0 DEF RxStored, RxDropped, RxReturns
  <2>2. CASE RxDropped
    <3>1. log' = log /\ dropped' = [dropped EXCEPT ![cur] = TRUE]
      BY <2>2 DEF RxDropped
    <3>2. c # cur /\ ~dropped[c]
      BY <3>1, <2>1, <1>0 DEF LogTypes
    <3>3. Ahead(c)' = Ahead(c)
      BY <2>1, <3>2, <1>0 DEF Ahead, Taken, InputTypes
    <3> QED BY <1>d, <2>1, <3>1, <3>2, <3>3 DEF Up
  <2>3. CASE RxStored
    <3>1. log' = Append(log, m) /\ dropped' = dropped
      BY <2>3 DEF RxStored
    <3>2. m \in Messages /\ m[1] = cur /\ input \in Seq(From(cur))
      <4>1. m \in From(cur) /\ input \in Seq(From(cur))
        BY <2>1, <1>0, OwnSequences DEF InputTypes
      <4> QED BY <4>1, <2>1 DEF From, Messages
    <3> HIDE DEF m
    <3>3. /\ Len(log') = L + 1 /\ DOMAIN log' = 1 .. L + 1 /\ DOMAIN log = 1 .. L
          /\ log'[L + 1] = m /\ \A k \in 1 .. L : log'[k] = log[k]
      BY <3>1, <3>2, <1>0, Appended DEF LogTypes
    <3>4. InTurn(c)
      BY <1>c, <2>1, <3>1 DEF Up
    <3> DEFINE e == Entered(c, L)
    <3>5. /\ e \in Nat
          /\ Cardinality(Share(log', c, L + 1)) = IF m[1] = c THEN e + 1 ELSE e
      <4>1. Share(log', c, L) = Share(log, c, L)
        BY <3>3 DEF Share
      <4>2. e = Cardinality(Share(log', c, L))
        BY <4>1 DEF Entered, Share
      <4>3. /\ Cardinality(Share(log', c, L)) \in Nat
            /\ Cardinality(Share(log', c, L + 1)) = IF log'[L + 1][1] = c THEN Cardinality(Share(log', c, L)) + 1
                                                                        ELSE Cardinality(Share(log', c, L))
        BY <1>0, Counted
      <4> QED BY <4>2, <4>3, <3>3
    <3>6. \A k \in 1 .. L : Entered(c, k)' = Entered(c, k)
      <4> TAKE k \in 1 .. L
      <4>1. {j \in 1 .. k : log'[j][1] = c} = {j \in 1 .. k : log[j][1] = c}
        BY <3>3, <1>0
      <4> QED BY <4>1 DEF Entered
    <3>7. /\ \A k : k = L + 1 => Entered(c, k)' = IF m[1] = c THEN e + 1 ELSE e
          /\ Entered(c, Len(log))' = IF m[1] = c THEN e + 1 ELSE e
      <4>1. \A k : Entered(c, k)' = Cardinality(Share(log', c, k))
        BY DEF Entered, Share
      <4>2. Entered(c, Len(log))' = Cardinality(Share(log', c, Len(log')))
        BY DEF Entered, Share
      <4> QED BY <3>3, <3>5, <4>1, <4>2
    <3>8. /\ \A k \in 1 .. L : log[k][1] = c => log[k] = <<c, Entered(c, k)>>
          /\ Run(Pending(c), c, e, sentBy[c])
      BY <3>3, <3>4 DEF InTurn
    <3> HIDE DEF e
    <3>9. CASE c # cur
      <4>1. Ahead(c)' = Ahead(c)
        BY <2>1, <3>9, <1>0 DEF Ahead, Taken, InputTypes
      <4>2. Pending(c)' = Pending(c)
        BY <1>b, <2>1, <4>1 DEF PendingForm
      <4>3. Entered(c, Len(log))' = e
        BY <3>2, <3>7, <3>9
      <4>4. Run(Pending(c), c, Entered(c, Len(log)), sentBy[c])'
        BY <2>1, <3>8, <4>2, <4>3 DEF Run
      <4>5. ASSUME NEW k \in 1 .. L + 1, log'[k][1] = c PROVE log'[k] = <<c, Entered(c, k)'>>
        <5>1. k \in 1 .. L
          BY <1>0, <3>2, <3>3, <3>9, <4>5
        <5> QED BY <5>1, <3>3, <3>6, <3>8, <4>5
      <4> QED BY <3>3, <4>4, <4>5 DEF InTurn
    <3>10. CASE c = cur
      <4>1. Ahead(c) = input /\ Ahead(c)' = Tail(input)
        <5>1. CASE rxflow_buffer[c].on
          <6>1. input = rxflow_buffer[c].rest
            BY <2>1, <3>10, <5>1, <1>0 DEF WorkOK
          <6>2. Taken = [rxflow_buffer EXCEPT ![c].rest = Tail(@)]
            BY <3>10, <5>1 DEF Taken
          <6>3. Taken[c].on = rxflow_buffer[c].on /\ Taken[c].rest = Tail(rxflow_buffer[c].rest)
            <7>1. rxflow_buffer[c] \in [on : BOOLEAN, rest : Seq(From(c))] /\ DOMAIN rxflow_buffer = Conns
              BY <1>0 DEF InputTypes
            <7>2. Taken[c] = [rxflow_buffer[c] EXCEPT !.rest = Tail(@)]
              BY <6>2, <7>1
            <7> QED BY <7>1, <7>2
          <6> QED BY <2>1, <5>1, <6>1, <6>3 DEF Ahead
        <5>2. CASE ~rxflow_buffer[c].on
          BY <2>1, <3>10, <5>2 DEF Ahead, Taken
        <5> QED BY <5>1, <5>2
      <4> DEFINE w == socket[c]
                 t == sentBy[c]
      <4>2. /\ input \in Seq(From(c)) /\ w \in Seq(From(c)) /\ e \in Nat /\ t \in Nat
        BY <3>2, <3>5, <3>10, <1>0 DEF InputTypes
      <4>3. Run(input \o w, c, e, t)
        BY <1>b, <3>8, <4>1 DEF PendingForm
      <4> HIDE DEF w, t
      <4>4. Head(input) = <<c, e + 1>> /\ Run(Tail(input) \o w, c, e + 1, t)
        BY <2>1, <4>2, <4>3, RunTail
      <4>5. Pending(c)' = Tail(input) \o w
        BY <1>b, <2>1, <4>1 DEF PendingForm, w
      <4>6. Entered(c, Len(log))' = e + 1
        BY <3>2, <3>7, <3>10
      <4>7. Run(Pending(c), c, Entered(c, Len(log)), sentBy[c])'
        BY <2>1, <4>4, <4>5, <4>6 DEF Run, t
      <4>8. ASSUME NEW k \in 1 .. L + 1, log'[k][1] = c PROVE log'[k] = <<c, Entered(c, k)'>>
        <5>1. CASE k \in 1 .. L
          BY <5>1, <3>3, <3>6, <3>8, <4>8
        <5>2. CASE k = L + 1
          BY <5>2, <3>2, <3>3, <3>7, <3>10, <4>4 DEF m
        <5> QED BY <5>1, <5>2, <1>0
      <4> QED BY <3>3, <4>7, <4>8 DEF InTurn
    <3> QED BY <3>9, <3>10
  <2> QED BY <1>6, <2>2, <2>3
<1>7. ASSUME RxStopped PROVE InTurn(c)'
  <2>1. /\ stage = "rx" /\ cur \in Conns /\ cur' = NoOne /\ RxKept
        /\ UNCHANGED <<conn, log, sentBy, dropped, socket>>
    BY <1>7, <1>0 DEF RxStopped, ringVars
  <2>2. Ahead(c)' = Ahead(c)
    <3>1. CASE c # cur
      <4>1. rxflow_buffer'[c] = rxflow_buffer[c]
        BY <2>1, <3>1, <1>0 DEF RxKept, InputTypes
      <4> QED BY <2>1, <3>1, <4>1, <1>0 DEF Ahead
    <3>2. CASE c = cur /\ rxflow_buffer[c].on
      BY <2>1, <3>2 DEF RxKept, Ahead
    <3>3. CASE c = cur /\ ~rxflow_buffer[c].on
      <4>1. rxflow_buffer'[c] = [on |-> TRUE, rest |-> input]
        BY <2>1, <3>3, <1>0 DEF RxKept, InputTypes
      <4>2. rxflow_buffer'[c].on = TRUE /\ rxflow_buffer'[c].rest = input
        BY <4>1
      <4> QED BY <3>3, <4>2 DEF Ahead
    <3> QED BY <3>1, <3>2, <3>3
  <2> QED BY <1>d, <2>1, <2>2 DEF Up
<1>8. ASSUME RxEnd PROVE InTurn(c)'
  <2>1. /\ stage = "rx" /\ cur \in Conns /\ cur' = NoOne /\ input = <<>>
        /\ rxflow_buffer' = IF draining THEN [rxflow_buffer EXCEPT ![cur] = NULL] ELSE rxflow_buffer
        /\ UNCHANGED <<conn, log, sentBy, dropped, socket>>
    BY <1>8, <1>0 DEF RxEnd, ringVars
  <2>2. Ahead(c)' = Ahead(c)
    <3>1. CASE c # cur
      <4>1. rxflow_buffer'[c] = rxflow_buffer[c]
        BY <2>1, <3>1, <1>0 DEF InputTypes
      <4> QED BY <2>1, <3>1, <4>1, <1>0 DEF Ahead
    <3>2. CASE c = cur
      <4>1. Ahead(c) = <<>>
        BY <2>1, <3>2, <1>0 DEF Ahead, WorkOK
      <4>2. ~rxflow_buffer'[c].on
        BY <2>1, <3>2, <1>0 DEF InputTypes, NULL, WorkOK
      <4>3. Ahead(c)' = <<>>
        BY <2>1, <4>2, <1>0 DEF Ahead
      <4> QED BY <4>1, <4>3
    <3> QED BY <3>1, <3>2
  <2> QED BY <1>d, <2>1, <2>2 DEF Up
<1>9. ASSUME NEW d \in Conns, Establish(d) PROVE InTurn(c)'
  <2>1. /\ cur = NoOne /\ conn[d] = "new" /\ conn' = [conn EXCEPT ![d] = "up"]
        /\ UNCHANGED <<log, sentBy, dropped, rxflow_buffer, socket, cur, input>>
    BY <1>9 DEF Establish, ringVars
  <2>2. Ahead(c)' = Ahead(c)
    BY <2>1 DEF Ahead
  <2>3. CASE c = d
    <3>1. /\ socket[c] = <<>> /\ sentBy[c] = 0 /\ \A k \in DOMAIN log : log[k][1] # c
          /\ ~rxflow_buffer[c].on
      BY <2>1, <2>3, <1>0 DEF FreshOK, ServesUp
    <3>2. Ahead(c) = <<>>
      BY <2>1, <3>1, <1>0 DEF Ahead
    <3>3. Pending(c)' = <<>> \o <<>>
      BY <1>b, <2>1, <2>2, <3>1, <3>2 DEF PendingForm
    <3>4. {j \in 1 .. Len(log) : log[j][1] = c} = {}
      BY <3>1, <1>0 DEF LogTypes
    <3>5. Entered(c, Len(log))' = 0
      BY <2>1, <3>4, FS_EmptySet DEF Entered
    <3>6. Len(<<>> \o <<>>) = 0
      OBVIOUS
    <3>7. Run(Pending(c), c, Entered(c, Len(log)), sentBy[c])'
      BY <2>1, <3>1, <3>3, <3>5, <3>6 DEF Run
    <3> QED BY <2>1, <3>1, <3>7 DEF InTurn
  <2>4. CASE c # d
    <3>1. c \in Up
      BY <2>1, <2>4, <1>0 DEF Up, TypeOK
    <3> QED BY <1>d, <2>1, <2>2, <3>1
  <2> QED BY <2>3, <2>4
<1>10. ASSUME NEW d \in Conns, Close(d) PROVE InTurn(c)'
  <2>1. /\ cur = NoOne \/ cur = d
        /\ conn' = [conn EXCEPT ![d] = "closed"] /\ cur' = NoOne
        /\ rxflow_buffer' = [rxflow_buffer EXCEPT ![d] = NULL]
        /\ socket' = [socket EXCEPT ![d] = <<>>]
        /\ UNCHANGED <<log, sentBy, dropped>>
    BY <1>10 DEF Close, ringVars
  <2>2. c # d /\ c \in Up
    BY <2>1, <1>0 DEF Up, TypeOK
  <2>3. rxflow_buffer'[c] = rxflow_buffer[c] /\ socket'[c] = socket[c]
    BY <2>1, <2>2, <1>0 DEF InputTypes
  <2>4. Ahead(c)' = Ahead(c)
    BY <2>1, <2>2, <2>3, <1>0 DEF Ahead
  <2> QED BY <1>d, <2>1, <2>2, <2>3, <2>4
<1>11. ASSUME NEW d \in Conns, ClientSends(d) PROVE InTurn(c)'
  <2>1. /\ sentBy' = [sentBy EXCEPT ![d] = @ + 1]
        /\ socket' = [socket EXCEPT ![d] = Append(@, <<d, sentBy[d] + 1>>)]
        /\ UNCHANGED <<conn, log, dropped, rxflow_buffer, input, cur>>
    BY <1>11 DEF ClientSends, ringVars
  <2>2. Ahead(c)' = Ahead(c)
    BY <2>1 DEF Ahead
  <2>3. CASE c = d
    <3> DEFINE u == Ahead(c)
               w == socket[c]
               t == sentBy[c]
               e == Entered(c, L)
    <3>1. /\ u \in Seq(From(c)) /\ w \in Seq(From(c)) /\ t \in Nat /\ <<c, t + 1>> \in From(c)
      BY <1>b, <1>0 DEF PendingForm, InputTypes, From
    <3>2. InTurn(c)
      BY <1>c, <2>1 DEF Up
    <3>3. Run(u \o w, c, e, t)
      BY <1>b, <3>2 DEF PendingForm, InTurn
    <3>4. e \in Nat
      <4>1. e = Cardinality(Share(log, c, L))
        BY DEF Entered, Share
      <4> QED BY <4>1, <1>0, Counted
    <3>5. socket'[c] = Append(w, <<c, t + 1>>) /\ sentBy'[c] = t + 1
      BY <2>1, <2>3, <1>0 DEF InputTypes
    <3>6. Pending(c)' = u \o Append(w, <<c, t + 1>>)
      BY <1>b, <2>2, <3>5 DEF PendingForm
    <3>7. Entered(c, Len(log))' = e /\ \A k : Entered(c, k)' = Entered(c, k)
      BY <2>1 DEF Entered
    <3> HIDE DEF u, w, t, e
    <3>8. Run(u \o Append(w, <<c, t + 1>>), c, e, t + 1)
      BY <3>1, <3>3, <3>4, RunAppend
    <3>9. Run(Pending(c), c, Entered(c, Len(log)), sentBy[c])'
      BY <3>5, <3>6, <3>7, <3>8 DEF Run
    <3> QED BY <2>1, <3>2, <3>7, <3>9 DEF InTurn
  <2>4. CASE c # d
    <3>1. sentBy'[c] = sentBy[c] /\ socket'[c] = socket[c]
      BY <2>1, <2>4, <1>0 DEF InputTypes
    <3> QED BY <1>d, <2>1, <2>2, <3>1 DEF Up
  <2> QED BY <2>3, <2>4
<1>12. ASSUME UNCHANGED vars PROVE InTurn(c)'
  BY <1>12, <1>d DEF vars, Up, Ahead
<1> QED BY <1>1, <1>2, <1>3, <1>4, <1>5, <1>6, <1>7, <1>8, <1>9, <1>10, <1>11, <1>12
     DEF Next, Writing, Reading

(* LWS_CALLBACK_RECEIVE: the messages of a client enter the ring in the order it sent them, none lost or *)
(* doubled, however it is throttled and its input cut; where the server drops one, another client's      *)
(* message is in the ring.                                                                               *)
THEOREM MirrorLosesNothing == Spec => []NothingLost
<1>1. FlowInv /\ LogInv /\ AloneOK /\ LostOK => NothingLost
  <2> SUFFICES ASSUME FlowInv, LogInv, AloneOK, LostOK, NEW c \in Up
               PROVE  IF dropped[c] THEN \E k \in DOMAIN log : log[k][1] # c
                      ELSE /\ \A k \in DOMAIN log : log[k][1] = c => log[k] = <<c, Entered(c, k)>>
                           /\ Pending(c) = [k \in 1 .. sentBy[c] - Entered(c, Len(log)) |->
                                              <<c, Entered(c, Len(log)) + k>>]
    BY DEF NothingLost
  <2>1. CASE dropped[c]
    BY <2>1 DEF AloneOK, Alone, Throttled
  <2>2. CASE ~dropped[c]
    <3> DEFINE e == Entered(c, Len(log))
               t == sentBy[c]
               v == Pending(c)
    <3>1. Run(v, c, e, t) /\ \A k \in DOMAIN log : log[k][1] = c => log[k] = <<c, Entered(c, k)>>
      BY <2>2 DEF LostOK
    <3>2. c \in Conns /\ t \in Nat /\ Len(log) \in Nat
      BY DEF FlowInv, InputTypes, Up, LogInv, LogTypes
    <3>3. e \in Nat
      <4>1. e = Cardinality(Share(log, c, Len(log)))
        BY DEF Entered, Share
      <4> QED BY <4>1, <3>2, Counted
    <3>4. v \in Seq(From(c))
      <4>1. Ahead(c) \in Seq(From(c)) /\ socket[c] \in Seq(From(c)) /\ v = Ahead(c) \o socket[c]
        BY <3>2, PendingIs DEF PendingForm
      <4> HIDE DEF v
      <4> QED BY <4>1, Concat
    <3>5. DOMAIN v = 1 .. t - e /\ \A k \in 1 .. t - e : v[k] = <<c, e + k>>
      <4>1. Run(v, c, e, t)
        BY <3>1
      <4> HIDE DEF e, t, v
      <4>2. DOMAIN v = 1 .. Len(v)
        BY <3>4
      <4> QED BY <4>1, <4>2 DEF Run
    <3>6. v = [k \in DOMAIN v |-> v[k]]
      <4> HIDE DEF v
      <4> QED BY <3>4
    <3> HIDE DEF e, t, v
    <3>7. v = [k \in 1 .. t - e |-> <<c, e + k>>]
      BY <3>5, <3>6, Zenon
    <3>8. \A k \in DOMAIN log : log[k][1] = c => log[k] = <<c, Entered(c, k)>>
      BY <3>1
    <3> QED BY <2>2, <3>7, <3>8, Zenon DEF e, t, v
  <2> QED BY <2>1, <2>2
<1> QED BY <1>1, FlowInit, FlowStep, LogInit, LogStep, AloneInit, AloneStep, LostInit, LostStep, PTL DEF Spec

=============================================================================
