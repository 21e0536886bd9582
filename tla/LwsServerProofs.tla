-------------------------- MODULE LwsServerProofs --------------------------
(***************************************************************************)
(* The server of libwebsockets for every set of sockets, every file and     *)
(* every size of chunk and socket buffer: the table of polled sockets, the  *)
(* order of a file's bytes, and the peers that cannot make it crash.        *)
(***************************************************************************)
EXTENDS LwsServer, TLAPS

---------------------------------------------------------------------------
(* The inductive invariant *)

Entries == [fd : Socks \cup {Listener}, out : BOOLEAN, revents : SUBSET {"IN", "OUT"}]

Connections ==
  [state : {"FREE", "HTTP", "HTTP_HEADERS", "ISSUING_FILE", "ESTABLISHED"},
   mode : {"NONE", "HTTP_SERVING", "ACCEPTED", "WS_SERVING"},
   ah : {"none", "held"}, filepos : 0 .. FileLen, truncated : 0 .. UIntMod - 1]

(* The table, in which the listener always is. *)
TableOK ==
  /\ fds \in Seq(Entries)
  /\ position \in [Socks \cup {Listener} -> Nat]
  /\ TableConsistent
  /\ Listener \in lws_lookup

(* Where the loop is: a fragment is sent for the connection of the slot. *)
CursorOK ==
  /\ pc \in {"poll", "slots", "fragment"} /\ slot \in Nat
  /\ pc = "fragment" => slot \in DOMAIN fds /\ fds[slot].fd \in Socks

ConnectionsOK ==
  /\ wsi \in [Socks -> Connections]
  /\ tcp \in [Socks -> {"up", "fin", "rst", "down"}]
  /\ unread \in [Socks -> 0 .. Room]

(* Nothing that was sent lies beyond the position of the file. *)
FileOK ==
  /\ wire \in [Socks -> Seq(Nat)]
  /\ FileInOrder
  /\ \A s \in Socks : wsi[s].state # "FREE" =>
       \A i \in DOMAIN wire[s] : wire[s][i] <= wsi[s].filepos

(* The number of packets of s that the server has read, or that were lost. *)
Seen(s) == Len(sent[s]) - Len(inbound[s])

(* What the server has still to read is the end of what the peer has sent. *)
InboundIsRest ==
  \A s \in Socks :
    /\ Seen(s) >= 0
    /\ \A i \in DOMAIN inbound[s] : inbound[s][i] = sent[s][Seen(s) + i]

(* A connection for requests that has no header table has answered one. *)
TableGoneAfterGet ==
  \A s \in Socks : wsi[s].mode \in {"HTTP_SERVING", "ACCEPTED"} /\ wsi[s].ah # "held" =>
    \E i \in 1 .. Seen(s) : sent[s][i] = "GET"

PeersOK ==
  /\ inbound \in [Socks -> Seq(Packets)] /\ sent \in [Socks -> Seq(Packets)]
  /\ crashed \in BOOLEAN
  /\ InboundIsRest /\ TableGoneAfterGet /\ WellBehavedIsSafe

ServerInv == TableOK /\ CursorOK /\ ConnectionsOK /\ FileOK /\ PeersOK

---------------------------------------------------------------------------
(* Tables as sequences *)

(* fds[m] = fds[--fds_count]: what is left of a table when entry m goes. *)
LEMMA LastTakesPlace ==
  ASSUME NEW T, NEW t \in Seq(T), NEW m \in 1 .. Len(t)
  PROVE  LET r == SubSeq([t EXCEPT ![m] = t[Len(t)]], 1, Len(t) - 1)
         IN /\ r \in Seq(T) /\ Len(r) = Len(t) - 1
            /\ \A i \in 1 .. Len(t) - 1 : r[i] = IF i = m THEN t[Len(t)] ELSE t[i]
<1> DEFINE u == [t EXCEPT ![m] = t[Len(t)]]
<1>1. u \in Seq(T) /\ Len(u) = Len(t) /\ \A i \in 1 .. Len(t) : u[i] = IF i = m THEN t[Len(t)] ELSE t[i]
  OBVIOUS
<1> HIDE DEF u
<1>2. SubSeq(u, 1, Len(u) - 1) \in Seq(T)
  BY <1>1
<1>3. /\ Len(SubSeq(u, 1, Len(u) - 1)) = Len(u) - 1
      /\ \A i \in 1 .. Len(u) - 1 : SubSeq(u, 1, Len(u) - 1)[i] = u[i]
  BY <1>1
<1> QED BY <1>1, <1>2, <1>3 DEF u

LEMMA EntryFields ==
  ASSUME NEW e \in Entries, NEW b \in BOOLEAN, NEW r \in SUBSET {"IN", "OUT"}
  PROVE  /\ [e EXCEPT !.revents = r] \in Entries /\ [e EXCEPT !.revents = r].fd = e.fd
         /\ [e EXCEPT !.out = b] \in Entries /\ [e EXCEPT !.out = b].fd = e.fd
<1>1. /\ e.fd \in Socks \cup {Listener} /\ e.out \in BOOLEAN /\ e.revents \in SUBSET {"IN", "OUT"}
      /\ e = [fd |-> e.fd, out |-> e.out, revents |-> e.revents]
  BY DEF Entries
<1>2. /\ [e EXCEPT !.revents = r] = [fd |-> e.fd, out |-> e.out, revents |-> r]
      /\ [e EXCEPT !.out = b] = [fd |-> e.fd, out |-> b, revents |-> e.revents]
  BY <1>1
<1>3. /\ [fd |-> e.fd, out |-> e.out, revents |-> r] \in Entries
      /\ [fd |-> e.fd, out |-> b, revents |-> e.revents] \in Entries
  BY <1>1, Zenon DEF Entries
<1> QED BY <1>2, <1>3

(* Forgetting the events of a slot changes no socket of the table. *)
LEMMA HandledKeeps ==
  ASSUME NEW t \in Seq(Entries), slot \in Nat
  PROVE  /\ Handled(t) \in Seq(Entries) /\ Len(Handled(t)) = Len(t)
         /\ \A i \in DOMAIN t : Handled(t)[i].fd = t[i].fd
<1>1. CASE slot \in DOMAIN t
  <2>1. [t[slot] EXCEPT !.revents = {}] \in Entries /\ [t[slot] EXCEPT !.revents = {}].fd = t[slot].fd
    <3>1. t[slot] \in Entries /\ {} \in SUBSET {"IN", "OUT"}
      BY <1>1
    <3> QED BY <3>1, EntryFields
  <2>2. Handled(t) = [t EXCEPT ![slot] = [t[slot] EXCEPT !.revents = {}]]
    BY <1>1 DEF Handled
  <2> QED BY <1>1, <2>1, <2>2
<1>2. CASE slot \notin DOMAIN t
  BY <1>2 DEF Handled
<1> QED BY <1>1, <1>2

(* Asking for POLLOUT, or no longer, changes no socket of the table. *)
LEMMA OutKeeps ==
  ASSUME NEW t \in Seq(Entries), NEW m \in DOMAIN t, NEW b \in BOOLEAN
  PROVE  LET u == [t EXCEPT ![m].out = b]
         IN /\ u \in Seq(Entries) /\ Len(u) = Len(t)
            /\ \A i \in DOMAIN t : u[i].fd = t[i].fd
<1>1. [t[m] EXCEPT !.out = b] \in Entries /\ [t[m] EXCEPT !.out = b].fd = t[m].fd
  <2>1. t[m] \in Entries /\ {} \in SUBSET {"IN", "OUT"}
    OBVIOUS
  <2> QED BY <2>1, EntryFields
<1> QED BY <1>1

LEMMA EntryOfTable ==
  ASSUME TableOK, NEW i \in DOMAIN fds
  PROVE  fds[i] \in Entries /\ fds[i].fd \in Socks \cup {Listener}
<1>1. fds[i] \in Entries
  BY DEF TableOK
<1> QED BY <1>1 DEF Entries

(* A step that leaves every socket where it is keeps the table sound. *)
LEMMA TableKept ==
  ASSUME TableOK, ConnectionsOK,
         fds' \in Seq(Entries), Len(fds') = Len(fds), \A i \in DOMAIN fds : fds'[i].fd = fds[i].fd,
         UNCHANGED <<lws_lookup, position>>,
         \A s \in Socks : wsi'[s].state = "FREE" <=> wsi[s].state = "FREE"
  PROVE  TableOK'
<1>1. DOMAIN fds' = DOMAIN fds
  BY DEF TableOK
<1>2. {fds'[i].fd : i \in DOMAIN fds'} = {fds[i].fd : i \in DOMAIN fds}
  BY <1>1
<1> QED BY <1>1, <1>2 DEF TableOK, TableConsistent

(* insert_wsi_socket_into_fds() for a connection that had none. *)
LEMMA TableInserts ==
  ASSUME TableOK, ConnectionsOK, slot \in Nat, NEW s \in Socks, wsi[s].state = "FREE",
         insert_wsi_socket_into_fds(s), wsi' = [wsi EXCEPT ![s] = NewWsi]
  PROVE  TableOK'
<1> DEFINE t == Append(fds, Entry(s))
<1>1. Entry(s) \in Entries /\ Entry(s).fd = s
  BY DEF Entry, Entries
<1>2. /\ t \in Seq(Entries) /\ Len(t) = Len(fds) + 1 /\ t[Len(fds) + 1].fd = s
      /\ \A i \in 1 .. Len(fds) : t[i] = fds[i]
  BY <1>1 DEF TableOK
<1> HIDE DEF t
<1>3. fds' = Handled(t) /\ lws_lookup' = lws_lookup \cup {s}
      /\ position' = [position EXCEPT ![s] = Len(fds) + 1]
  BY DEF insert_wsi_socket_into_fds, t
<1>4. /\ fds' \in Seq(Entries) /\ Len(fds') = Len(fds) + 1 /\ fds'[Len(fds) + 1].fd = s
      /\ \A i \in 1 .. Len(fds) : fds'[i].fd = fds[i].fd
  BY <1>2, <1>3, HandledKeeps DEF TableOK
<1>5. s \notin lws_lookup /\ Len(fds) \in Nat /\ DOMAIN fds = 1 .. Len(fds)
  BY DEF TableOK, TableConsistent
<1>6. DOMAIN fds' = 1 .. Len(fds) + 1
  BY <1>4, <1>5
<1>7. \A i \in 1 .. Len(fds) : fds[i].fd \in lws_lookup /\ fds[i].fd # s
  BY <1>5 DEF TableOK, TableConsistent
<1>8. lws_lookup' = {fds'[i].fd : i \in DOMAIN fds'}
  <2>1. ASSUME NEW x \in lws_lookup' PROVE \E i \in DOMAIN fds' : fds'[i].fd = x
    <3>1. CASE x = s
      BY <3>1, <1>4, <1>5, <1>6
    <3>2. CASE x \in lws_lookup
      <4>1. PICK i \in 1 .. Len(fds) : fds[i].fd = x
        BY <3>2, <1>5 DEF TableOK, TableConsistent
      <4> QED BY <4>1, <1>4, <1>5, <1>6
    <3> QED BY <2>1, <3>1, <3>2, <1>3
  <2>2. ASSUME NEW i \in DOMAIN fds' PROVE fds'[i].fd \in lws_lookup'
    BY <2>2, <1>3, <1>4, <1>5, <1>6, <1>7
  <2> QED BY <2>1, <2>2
<1>9. \A i \in DOMAIN fds' : position'[fds'[i].fd] = i
  <2> SUFFICES ASSUME NEW i \in DOMAIN fds' PROVE position'[fds'[i].fd] = i
    OBVIOUS
  <2>1. CASE i = Len(fds) + 1
    BY <2>1, <1>3, <1>4 DEF TableOK
  <2>2. CASE i \in 1 .. Len(fds)
    <3>1. fds'[i].fd = fds[i].fd /\ position[fds[i].fd] = i /\ fds[i].fd # s
      BY <2>2, <1>4, <1>5, <1>7 DEF TableOK, TableConsistent
    <3>2. fds[i].fd \in Socks \cup {Listener}
      BY <2>2, <1>5, EntryOfTable
    <3> QED BY <3>1, <3>2, <1>3 DEF TableOK
  <2> QED BY <2>1, <2>2, <1>5, <1>6
<1>10. \A x \in Socks : x \in lws_lookup' <=> wsi'[x].state # "FREE"
  BY <1>3 DEF TableOK, TableConsistent, NewWsi, Free, ConnectionsOK
<1>11. position' \in [Socks \cup {Listener} -> Nat] /\ Listener \in lws_lookup'
  BY <1>3, <1>5 DEF TableOK
<1> QED BY <1>4, <1>8, <1>9, <1>10, <1>11 DEF TableOK, TableConsistent

(* The connection of a slot has that slot for its position, and is live. *)
LEMMA SlotIsPosition ==
  ASSUME TableOK, ConnectionsOK, NEW s \in Socks, slot \in DOMAIN fds, fds[slot].fd = s
  PROVE  position[s] = slot /\ s \in lws_lookup /\ wsi[s].state # "FREE"
BY DEF TableOK, TableConsistent

(* remove_wsi_socket_from_fds() for a connection that is in the table. *)
LEMMA TableRemoves ==
  ASSUME TableOK, ConnectionsOK, slot \in Nat, NEW s \in Socks, slot \in DOMAIN fds, fds[slot].fd = s,
         remove_wsi_socket_from_fds(s), wsi' = [wsi EXCEPT ![s] = Free]
  PROVE  TableOK'
<1> DEFINE n == Len(fds)
           e == fds[n]
           t == SubSeq([fds EXCEPT ![slot] = e], 1, n - 1)
<1>1. n \in Nat /\ DOMAIN fds = 1 .. n /\ slot \in 1 .. n /\ n > 0
  BY DEF TableOK
<1>2. /\ t \in Seq(Entries) /\ Len(t) = n - 1
      /\ \A i \in 1 .. n - 1 : t[i] = IF i = slot THEN e ELSE fds[i]
  BY <1>1, LastTakesPlace DEF TableOK
<1>3. /\ fds' = Handled(t) /\ lws_lookup' = lws_lookup \ {s}
      /\ position' = [position EXCEPT ![e.fd] = slot, ![s] = 0]
  BY SlotIsPosition DEF remove_wsi_socket_from_fds
<1> HIDE DEF t
<1>4. /\ fds' \in Seq(Entries) /\ Len(fds') = n - 1 /\ DOMAIN fds' = 1 .. n - 1
      /\ \A i \in 1 .. n - 1 : fds'[i].fd = IF i = slot THEN e.fd ELSE fds[i].fd
  <2>1. fds' \in Seq(Entries) /\ Len(fds') = n - 1 /\ \A i \in DOMAIN t : fds'[i].fd = t[i].fd
    BY <1>2, <1>3, HandledKeeps
  <2>2. DOMAIN t = 1 .. n - 1 /\ DOMAIN fds' = 1 .. n - 1
    BY <1>1, <1>2, <2>1
  <2> QED BY <1>2, <2>1, <2>2
<1>5. e.fd \in Socks \cup {Listener} /\ \A i \in 1 .. n : fds[i].fd \in Socks \cup {Listener}
  BY <1>1, EntryOfTable
<1>6. \A i \in 1 .. n : position[fds[i].fd] = i
  BY <1>1 DEF TableOK, TableConsistent
<1>7. \A i \in 1 .. n : fds[i].fd = s => i = slot
  BY <1>1, <1>6
<1> HIDE DEF e
<1>8. e.fd = fds[n].fd
  BY DEF e
<1> HIDE DEF n
<1>9. lws_lookup' = {fds'[i].fd : i \in DOMAIN fds'}
  <2>1. ASSUME NEW x \in lws_lookup' PROVE \E i \in 1 .. n - 1 : fds'[i].fd = x
    <3>1. PICK i \in 1 .. n : fds[i].fd = x
      BY <2>1, <1>1, <1>3 DEF TableOK, TableConsistent
    <3>2. i # slot
      BY <2>1, <3>1, <1>3
    <3>3. CASE i = n
      <4>1. slot \in 1 .. n - 1
        BY <3>2, <3>3, <1>1
      <4> QED BY <4>1, <3>1, <3>3, <1>4, <1>8
    <3>4. CASE i # n
      <4>1. i \in 1 .. n - 1
        BY <3>4, <1>1
      <4> QED BY <4>1, <3>1, <3>2, <1>4
    <3> QED BY <3>3, <3>4
  <2>2. ASSUME NEW i \in 1 .. n - 1 PROVE fds'[i].fd \in lws_lookup'
    <3>1. PICK k \in 1 .. n : k # slot /\ fds'[i].fd = fds[k].fd
      BY <1>1, <1>4, <1>8
    <3>2. fds[k].fd \in lws_lookup /\ fds[k].fd # s
      BY <3>1, <1>1, <1>7 DEF TableOK, TableConsistent
    <3> QED BY <3>1, <3>2, <1>3
  <2> QED BY <2>1, <2>2, <1>4
<1>10. \A i \in DOMAIN fds' : position'[fds'[i].fd] = i
  <2> SUFFICES ASSUME NEW i \in 1 .. n - 1 PROVE position'[fds'[i].fd] = i
    BY <1>4
  <2>1. CASE i = slot
    <3>1. fds'[i].fd = e.fd /\ e.fd # s
      BY <2>1, <1>1, <1>4, <1>7, <1>8
    <3> QED BY <3>1, <2>1, <1>3, <1>5 DEF TableOK
  <2>2. CASE i # slot
    <3>1. fds'[i].fd = fds[i].fd /\ fds[i].fd # s /\ position[fds[i].fd] = i
      BY <2>2, <1>1, <1>4, <1>6, <1>7
    <3>2. fds[i].fd # e.fd
      BY <1>1, <1>6, <1>8
    <3> QED BY <3>1, <3>2, <1>1, <1>3, <1>5 DEF TableOK
  <2> QED BY <2>1, <2>2
<1>11. \A x \in Socks : x \in lws_lookup' <=> wsi'[x].state # "FREE"
  BY <1>3 DEF TableOK, TableConsistent, Free, ConnectionsOK
<1>12. position' \in [Socks \cup {Listener} -> Nat] /\ Listener \in lws_lookup'
  <2>1. Listener # s
    BY ServerAssumption
  <2> QED BY <2>1, <1>1, <1>3 DEF TableOK
<1> QED BY <1>4, <1>9, <1>10, <1>11, <1>12 DEF TableOK, TableConsistent

---------------------------------------------------------------------------
(* What a step leaves alone *)

LEMMA ServerNumbers ==
  /\ FileLen \in Nat /\ Chunk \in Nat \ {0} /\ Room \in Nat \ {0}
  /\ UIntMod \in Nat /\ UIntMod > 2 * FileLen + Chunk
BY ServerAssumption

(* Records of connections, field by field. *)
LEMMA FileposNat ==
  ASSUME NEW w \in Connections
  PROVE  w.filepos \in Nat /\ w.filepos \in 0 .. FileLen /\ w.truncated \in 0 .. UIntMod - 1
BY ServerNumbers DEF Connections

LEMMA FreeConnection ==
  /\ Free \in Connections /\ Free.state = "FREE" /\ Free.mode = "NONE"
  /\ NewWsi \in Connections /\ NewWsi.state = "HTTP" /\ NewWsi.ah = "held"
<1>1. 0 \in 0 .. FileLen /\ 0 \in 0 .. UIntMod - 1
  BY ServerNumbers
<1>2. Free \in Connections /\ Free.state = "FREE" /\ Free.mode = "NONE"
  BY <1>1 DEF Free, Connections
<1>3. NewWsi \in Connections
  BY <1>2 DEF NewWsi, Connections
<1>4. NewWsi.state = "HTTP" /\ NewWsi.ah = "held"
  BY <1>2 DEF NewWsi, Connections
<1> QED BY <1>2, <1>3, <1>4

(* The table when only events and POLLOUT have changed. *)
SameSockets ==
  /\ fds' \in Seq(Entries) /\ Len(fds') = Len(fds)
  /\ \A i \in DOMAIN fds : fds'[i].fd = fds[i].fd
  /\ UNCHANGED <<lws_lookup, position>>

LEMMA SameTable ==
  ASSUME ServerInv, UNCHANGED tableVars
  PROVE  SameSockets
BY DEF ServerInv, TableOK, SameSockets, tableVars

LEMMA HandledTable ==
  ASSUME ServerInv, fds' = Handled(fds), UNCHANGED <<lws_lookup, position>>
  PROVE  SameSockets
BY HandledKeeps DEF ServerInv, TableOK, CursorOK, SameSockets

LEMMA SameState ==
  ASSUME ServerInv, SameSockets, \A s \in Socks : wsi'[s].state = "FREE" <=> wsi[s].state = "FREE"
  PROVE  TableOK' /\ DOMAIN fds' = DOMAIN fds
<1>1. TableOK'
  BY TableKept DEF ServerInv, SameSockets
<1>2. DOMAIN fds' = DOMAIN fds
  BY DEF ServerInv, TableOK, SameSockets
<1> QED BY <1>1, <1>2

LEMMA NextSlotCursor ==
  ASSUME ServerInv, NextSlot
  PROVE  CursorOK'
BY DEF ServerInv, CursorOK, NextSlot

LEMMA SameFile ==
  ASSUME ServerInv, UNCHANGED wire,
         \A s \in Socks : wsi'[s].state # "FREE" =>
           wsi[s].state # "FREE" /\ wsi'[s].filepos = wsi[s].filepos
  PROVE  FileOK'
BY DEF ServerInv, FileOK, FileInOrder

LEMMA SamePeers ==
  ASSUME ServerInv, UNCHANGED <<inbound, sent, crashed>>,
         \A s \in Socks : wsi'[s].mode \in {"HTTP_SERVING", "ACCEPTED"} /\ wsi'[s].ah # "held" =>
           wsi[s].mode \in {"HTTP_SERVING", "ACCEPTED"} /\ wsi[s].ah # "held"
  PROVE  PeersOK'
<1>1. \A s \in Socks : Seen(s)' = Seen(s)
  BY DEF Seen
<1>2. InboundIsRest' /\ TableGoneAfterGet' /\ WellBehavedIsSafe'
  BY <1>1 DEF ServerInv, PeersOK, InboundIsRest, TableGoneAfterGet, WellBehavedIsSafe
<1> QED BY <1>2 DEF ServerInv, PeersOK

(* A step of the loop that changes no connection. *)
LEMMA SameConnections ==
  ASSUME ServerInv, SameSockets, UNCHANGED <<wsi, unread, wire, crashed>>, UNCHANGED peerVars,
         CursorOK'
  PROVE  ServerInv'
<1> USE DEF peerVars
<1>1. TableOK'
  BY SameState
<1>2. ConnectionsOK'
  BY DEF ServerInv, ConnectionsOK
<1>3. FileOK'
  BY SameFile
<1>4. PeersOK'
  BY SamePeers
<1> QED BY <1>1, <1>2, <1>3, <1>4 DEF ServerInv

(* A sequence that stands for the rest of another, and the next element. *)
LEMMA RestTail ==
  ASSUME NEW T, NEW a \in Seq(T), NEW b \in Seq(T), b # <<>>, NEW d \in Nat,
         Len(a) = d + Len(b), \A i \in DOMAIN b : b[i] = a[d + i]
  PROVE  /\ Tail(b) \in Seq(T) /\ Len(a) = (d + 1) + Len(Tail(b))
         /\ d + 1 \in DOMAIN a /\ Head(b) = a[d + 1]
         /\ \A i \in DOMAIN Tail(b) : Tail(b)[i] = a[(d + 1) + i]
<1>1. /\ Len(b) \in Nat /\ Len(b) > 0 /\ Len(a) \in Nat /\ Head(b) = b[1]
      /\ DOMAIN a = 1 .. Len(a) /\ DOMAIN b = 1 .. Len(b)
  OBVIOUS
<1>2. Tail(b) \in Seq(T) /\ Len(Tail(b)) = Len(b) - 1
  OBVIOUS
<1>3. DOMAIN Tail(b) = 1 .. Len(b) - 1 /\ \A i \in 1 .. Len(b) - 1 : Tail(b)[i] = b[i + 1]
  BY <1>1, <1>2
<1>4. ASSUME NEW i \in 1 .. Len(b) - 1 PROVE Tail(b)[i] = a[(d + 1) + i]
  <2>1. i + 1 \in DOMAIN b /\ d + (i + 1) = (d + 1) + i
    BY <1>1
  <2>2. b[i + 1] = a[d + (i + 1)]
    BY <2>1
  <2> QED BY <2>1, <2>2, <1>3
<1>5. d + 1 \in DOMAIN a /\ Head(b) = a[d + 1]
  BY <1>1
<1>6. Len(a) = (d + 1) + Len(Tail(b))
  BY <1>1, <1>2
<1>7. \A i \in DOMAIN Tail(b) : Tail(b)[i] = a[(d + 1) + i]
  BY <1>3, <1>4, ZenonT(60)
<1> QED BY <1>2, <1>5, <1>6, <1>7, Zenon

LEMMA Appended ==
  ASSUME NEW T, NEW a \in Seq(T), NEW x \in T
  PROVE  /\ Append(a, x) \in Seq(T) /\ Len(Append(a, x)) = Len(a) + 1
         /\ Append(a, x)[Len(a) + 1] = x /\ \A i \in 1 .. Len(a) : Append(a, x)[i] = a[i]
OBVIOUS

(* What InboundIsRest says of one connection. *)
LEMMA RestOf ==
  ASSUME ServerInv, NEW s \in Socks
  PROVE  /\ sent[s] \in Seq(Packets) /\ inbound[s] \in Seq(Packets)
         /\ Seen(s) \in Nat /\ Len(sent[s]) = Seen(s) + Len(inbound[s])
         /\ \A i \in DOMAIN inbound[s] : inbound[s][i] = sent[s][Seen(s) + i]
<1>1. /\ sent[s] \in Seq(Packets) /\ inbound[s] \in Seq(Packets) /\ Seen(s) >= 0
      /\ \A i \in DOMAIN inbound[s] : inbound[s][i] = sent[s][Seen(s) + i]
  BY DEF ServerInv, PeersOK, InboundIsRest
<1>2. Len(sent[s]) \in Nat /\ Len(inbound[s]) \in Nat
  BY <1>1
<1> QED BY <1>1, <1>2 DEF Seen

(* What has to be read first is the packet after those that were seen. *)
LEMMA FirstUnseen ==
  ASSUME ServerInv, NEW s \in Socks, inbound[s] # <<>>
  PROVE  /\ Tail(inbound[s]) \in Seq(Packets) /\ Len(sent[s]) = (Seen(s) + 1) + Len(Tail(inbound[s]))
         /\ Seen(s) \in Nat /\ Seen(s) + 1 \in DOMAIN sent[s] /\ Head(inbound[s]) = sent[s][Seen(s) + 1]
         /\ \A i \in DOMAIN Tail(inbound[s]) : Tail(inbound[s])[i] = sent[s][(Seen(s) + 1) + i]
<1> DEFINE a == sent[s]
           b == inbound[s]
           d == Seen(s)
<1>1. /\ a \in Seq(Packets) /\ b \in Seq(Packets) /\ d \in Nat /\ Len(a) = d + Len(b)
      /\ \A i \in DOMAIN b : b[i] = a[d + i]
  BY RestOf
<1>2. b # <<>>
  OBVIOUS
<1> HIDE DEF a, b, d
<1>3. /\ Tail(b) \in Seq(Packets) /\ Len(a) = (d + 1) + Len(Tail(b))
      /\ d + 1 \in DOMAIN a /\ Head(b) = a[d + 1]
      /\ \A i \in DOMAIN Tail(b) : Tail(b)[i] = a[(d + 1) + i]
  BY <1>1, <1>2, RestTail, SMTT(60)
<1> QED BY <1>1, <1>3 DEF a, b, d

(* Reading one packet keeps the rest the rest; the table may be gone after a GET. *)
LEMMA TookPeers ==
  ASSUME ServerInv, NEW s \in Socks, NEW p, inbound[s] # <<>>, Head(inbound[s]) = p,
         inbound' = [inbound EXCEPT ![s] = Tail(@)], UNCHANGED <<sent, crashed>>,
         \A x \in Socks : wsi'[x].mode \in {"HTTP_SERVING", "ACCEPTED"} /\ wsi'[x].ah # "held" =>
           \/ x = s /\ p = "GET"
           \/ wsi[x].mode \in {"HTTP_SERVING", "ACCEPTED"} /\ wsi[x].ah # "held"
  PROVE  PeersOK'
<1>1. /\ sent[s] \in Seq(Packets) /\ inbound[s] \in Seq(Packets)
      /\ Seen(s) \in Nat /\ Len(sent[s]) = Seen(s) + Len(inbound[s])
      /\ \A i \in DOMAIN inbound[s] : inbound[s][i] = sent[s][Seen(s) + i]
  BY RestOf
<1>2. /\ Tail(inbound[s]) \in Seq(Packets) /\ Len(sent[s]) = (Seen(s) + 1) + Len(Tail(inbound[s]))
      /\ Seen(s) + 1 \in DOMAIN sent[s] /\ Head(inbound[s]) = sent[s][Seen(s) + 1]
      /\ \A i \in DOMAIN Tail(inbound[s]) : Tail(inbound[s])[i] = sent[s][(Seen(s) + 1) + i]
  BY FirstUnseen
<1>3. /\ inbound' \in [Socks -> Seq(Packets)] /\ inbound'[s] = Tail(inbound[s])
      /\ \A x \in Socks \ {s} : inbound'[x] = inbound[x]
  BY <1>2 DEF ServerInv, PeersOK
<1>4. Seen(s)' = Seen(s) + 1 /\ \A x \in Socks \ {s} : Seen(x)' = Seen(x)
  <2>1. Len(Tail(inbound[s])) \in Nat
    BY <1>2
  <2>2. Seen(s)' = Len(sent[s]) - Len(Tail(inbound[s]))
    BY <1>3 DEF Seen
  <2>3. Seen(s)' = Seen(s) + 1
    BY <2>1, <2>2, <1>1, <1>2
  <2> QED BY <2>3, <1>3 DEF Seen
<1>5. Seen(s) \in Nat
  BY <1>1
<1>6. InboundIsRest'
  <2> SUFFICES ASSUME NEW x \in Socks
               PROVE  /\ Seen(x)' >= 0
                      /\ \A i \in DOMAIN inbound'[x] : inbound'[x][i] = sent[x][Seen(x)' + i]
    BY DEF InboundIsRest
  <2>1. CASE x = s
    BY <2>1, <1>2, <1>3, <1>4, <1>5
  <2>2. CASE x # s
    BY <2>2, <1>3, <1>4 DEF ServerInv, PeersOK, InboundIsRest
  <2> QED BY <2>1, <2>2
<1>7. TableGoneAfterGet'
  <2> SUFFICES ASSUME NEW x \in Socks,
                      wsi'[x].mode \in {"HTTP_SERVING", "ACCEPTED"}, wsi'[x].ah # "held"
               PROVE  \E i \in 1 .. Seen(x)' : sent[x][i] = "GET"
    BY DEF TableGoneAfterGet
  <2>1. CASE x = s /\ p = "GET"
    BY <2>1, <1>2, <1>4, <1>5, SMTT(60)
  <2>2. CASE wsi[x].mode \in {"HTTP_SERVING", "ACCEPTED"} /\ wsi[x].ah # "held"
    <3>1. PICK i \in 1 .. Seen(x) : sent[x][i] = "GET"
      BY <2>2 DEF ServerInv, PeersOK, TableGoneAfterGet
    <3>2. i \in 1 .. Seen(x)'
      BY <1>4, <1>5
    <3> QED BY <3>1, <3>2
  <2> QED BY <2>1, <2>2
<1>8. WellBehavedIsSafe' /\ sent' \in [Socks -> Seq(Packets)] /\ crashed' \in BOOLEAN
  BY DEF ServerInv, PeersOK, WellBehavedIsSafe
<1> QED BY <1>3, <1>6, <1>7, <1>8 DEF PeersOK

(* libwebsocket_close_and_free_session(), whatever was sent before. *)
LEMMA ClosePart ==
  ASSUME ServerInv, ~crashed, NEW s \in Socks, slot \in DOMAIN fds, fds[slot].fd = s,
         close_and_free_session(s), ServiceDone
  PROVE  TableOK' /\ CursorOK' /\ ConnectionsOK' /\ PeersOK'
<1> USE DEF close_and_free_session
<1>1. TableOK'
  BY TableRemoves DEF ServerInv, CursorOK
<1>2. CursorOK'
  BY NextSlotCursor DEF ServiceDone
<1>3. ConnectionsOK'
  <2>1. Free \in Connections
    BY ServerNumbers DEF Free, Connections
  <2> QED BY <2>1, ServerNumbers DEF ServerInv, ConnectionsOK
<1>4. PeersOK'
  <2>1. /\ inbound' \in [Socks -> Seq(Packets)] /\ sent' \in [Socks -> Seq(Packets)]
        /\ inbound'[s] = <<>> /\ sent'[s] = <<>>
        /\ \A x \in Socks \ {s} : inbound'[x] = inbound[x] /\ sent'[x] = sent[x]
    BY DEF ServerInv, PeersOK
  <2>2. Seen(s)' = 0 /\ \A x \in Socks \ {s} : Seen(x)' = Seen(x)
    BY <2>1 DEF Seen
  <2>3. InboundIsRest'
    <3> SUFFICES ASSUME NEW x \in Socks
                 PROVE  /\ Seen(x)' >= 0
                        /\ \A i \in DOMAIN inbound'[x] : inbound'[x][i] = sent'[x][Seen(x)' + i]
      BY DEF InboundIsRest
    <3>1. CASE x = s
      BY <3>1, <2>1, <2>2
    <3>2. CASE x # s
      BY <3>2, <2>1, <2>2 DEF ServerInv, PeersOK, InboundIsRest
    <3> QED BY <3>1, <3>2
  <2>4. TableGoneAfterGet'
    <3>1. wsi'[s].mode = "NONE" /\ \A x \in Socks \ {s} : wsi'[x] = wsi[x]
      BY DEF ServerInv, ConnectionsOK, Free
    <3> QED BY <3>1, <2>1, <2>2 DEF ServerInv, PeersOK, TableGoneAfterGet
  <2>5. crashed' = FALSE
    BY DEF ServiceDone, ServerInv, PeersOK
  <2> QED BY <2>1, <2>3, <2>4, <2>5 DEF PeersOK, WellBehavedIsSafe
<1> QED BY <1>1, <1>2, <1>3, <1>4

LEMMA CloseStep ==
  ASSUME ServerInv, ~crashed, NEW s \in Socks, slot \in DOMAIN fds, fds[slot].fd = s,
         CloseAndHandled(s)
  PROVE  ServerInv'
<1>1. TableOK' /\ CursorOK' /\ ConnectionsOK' /\ PeersOK'
  BY ClosePart DEF CloseAndHandled
<1>2. \A x \in Socks : wsi'[x].state # "FREE" => wsi'[x] = wsi[x]
  BY DEF CloseAndHandled, close_and_free_session, ServerInv, ConnectionsOK, Free
<1>3. FileOK'
  BY <1>2, SameFile DEF CloseAndHandled
<1> QED BY <1>1, <1>3 DEF ServerInv

---------------------------------------------------------------------------
(* The steps of the loop *)

LEMMA ServerInit == Init => ServerInv
<1> SUFFICES ASSUME Init PROVE ServerInv
  OBVIOUS
<1> USE ServerNumbers DEF Init
<1>1. TableOK
  <2>1. Entry(Listener) \in Entries /\ Entry(Listener).fd = Listener
    BY Zenon DEF Entry, Entries
  <2>2. /\ fds \in Seq(Entries) /\ DOMAIN fds = {1} /\ fds[1].fd = Listener
    BY <2>1
  <2>3. \A s \in Socks : s # Listener /\ wsi[s].state = "FREE"
    BY ServerAssumption DEF Free
  <2>4. position \in [Socks \cup {Listener} -> Nat] /\ position[Listener] = 1
    OBVIOUS
  <2>5. TableConsistent
    BY <2>2, <2>3, <2>4 DEF TableConsistent
  <2> QED BY <2>2, <2>4, <2>5 DEF TableOK
<1>2. CursorOK
  BY DEF CursorOK
<1>3. ConnectionsOK
  BY DEF ConnectionsOK, Connections, Free
<1>4. FileOK
  BY DEF FileOK, FileInOrder, Free
<1>5. PeersOK
  <2>1. \A s \in Socks : Seen(s) = 0
    BY DEF Seen
  <2>2. InboundIsRest /\ TableGoneAfterGet
    BY <2>1 DEF InboundIsRest, TableGoneAfterGet, Free
  <2>3. inbound \in [Socks -> Seq(Packets)] /\ sent \in [Socks -> Seq(Packets)]
    OBVIOUS
  <2>4. crashed \in BOOLEAN /\ ~crashed
    OBVIOUS
  <2> QED BY <2>2, <2>3, <2>4 DEF PeersOK, WellBehavedIsSafe
<1> QED BY <1>1, <1>2, <1>3, <1>4, <1>5 DEF ServerInv

LEMMA PollStep ==
  ASSUME ServerInv, Poll
  PROVE  ServerInv'
<1>1. PICK waiting \in BOOLEAN :
        fds' = [i \in DOMAIN fds |->
                 [fds[i] EXCEPT !.revents = IF fds[i].fd = Listener /\ ~waiting THEN {}
                                            ELSE Ready(fds[i])]]
  BY DEF Poll
<1> DEFINE r(i) == IF fds[i].fd = Listener /\ ~waiting THEN {} ELSE Ready(fds[i])
<1>2. \A i \in DOMAIN fds : r(i) \in SUBSET {"IN", "OUT"}
  BY DEF Ready
<1> HIDE DEF r
<1>3. \A i \in DOMAIN fds : /\ [fds[i] EXCEPT !.revents = r(i)] \in Entries
                            /\ [fds[i] EXCEPT !.revents = r(i)].fd = fds[i].fd
  BY <1>2, EntryFields, EntryOfTable DEF ServerInv
<1>4. fds' = [i \in DOMAIN fds |-> [fds[i] EXCEPT !.revents = r(i)]]
  BY <1>1 DEF r
<1>5. SameSockets
  <2>1. DOMAIN fds = 1 .. Len(fds) /\ Len(fds) \in Nat
    BY DEF ServerInv, TableOK
  <2>4. fds' \in [1 .. Len(fds) -> Entries] /\ \A i \in DOMAIN fds : fds'[i].fd = fds[i].fd
    BY <1>3, <1>4, <2>1
  <2>2. /\ fds' \in Seq(Entries) /\ Len(fds') = Len(fds)
        /\ \A i \in DOMAIN fds : fds'[i].fd = fds[i].fd
    BY <2>1, <2>4
  <2>3. UNCHANGED <<lws_lookup, position>>
    BY DEF Poll
  <2> QED BY <2>2, <2>3 DEF SameSockets
<1>6. CursorOK'
  BY DEF Poll, CursorOK
<1> QED BY <1>5, <1>6, SameConnections DEF Poll

LEMMA AcceptStep ==
  ASSUME ServerInv, NEW s \in Socks, Accept(s)
  PROVE  ServerInv'
<1> USE DEF Accept
<1>1. TableOK'
  BY TableInserts DEF ServerInv, CursorOK
<1>2. CursorOK'
  BY NextSlotCursor
<1>3. NewWsi \in Connections /\ NewWsi.ah = "held"
  BY FreeConnection
<1>4. ConnectionsOK'
  BY <1>3 DEF ServerInv, ConnectionsOK
<1>5. FileOK'
  <2>1. /\ wire' \in [Socks -> Seq(Nat)] /\ wire'[s] = <<>>
        /\ \A x \in Socks \ {s} : wire'[x] = wire[x] /\ wsi'[x] = wsi[x]
    BY DEF ServerInv, FileOK, ConnectionsOK
  <2> QED BY <2>1 DEF ServerInv, FileOK, FileInOrder
<1>6. PeersOK'
  <2>1. wsi'[s].ah = "held" /\ \A x \in Socks \ {s} : wsi'[x] = wsi[x]
    BY <1>3 DEF ServerInv, ConnectionsOK
  <2> QED BY <2>1, SamePeers
<1> QED BY <1>1, <1>2, <1>4, <1>5, <1>6 DEF ServerInv

LEMMA SlotServed ==
  ASSUME ServerInv, NEW s \in Socks, slot \in DOMAIN fds, fds[slot].fd = s
  PROVE  wsi[s] \in Connections /\ wsi[s].state # "FREE" /\ position[s] = slot
BY SlotIsPosition DEF ServerInv, ConnectionsOK

(* A packet that leaves the connection with its header table, or upgrades it. *)
LEMMA ReadPartStep ==
  ASSUME ServerInv, NEW s \in Socks, ReadPart(s)
  PROVE  ServerInv'
<1>1. wsi[s] \in Connections /\ wsi[s].state # "FREE"
  BY SlotServed DEF ReadPart, Took, Http, Serving
<1>2. /\ AfterPart(s) \in Connections /\ AfterPart(s).state = "HTTP_HEADERS"
      /\ AfterPart(s).ah = wsi[s].ah /\ AfterPart(s).mode = wsi[s].mode
      /\ AfterPart(s).filepos = wsi[s].filepos
  BY <1>1 DEF AfterPart, Connections
<1>3. wsi' \in [Socks -> Connections] /\ wsi'[s] = AfterPart(s) /\ \A x \in Socks \ {s} : wsi'[x] = wsi[x]
  BY <1>2 DEF ReadPart, ServerInv, ConnectionsOK
<1>4. TableOK'
  BY <1>1, <1>2, <1>3, HandledTable, SameState DEF ReadPart
<1>5. CursorOK'
  BY NextSlotCursor DEF ReadPart
<1>6. ConnectionsOK'
  BY <1>3 DEF ServerInv, ConnectionsOK, ReadPart, Took
<1>7. FileOK'
  BY <1>1, <1>2, <1>3, SameFile DEF ReadPart
<1>8. PeersOK'
  <2>1. /\ inbound[s] # <<>> /\ Head(inbound[s]) = "PART"
        /\ inbound' = [inbound EXCEPT ![s] = Tail(@)] /\ UNCHANGED <<sent, crashed>>
    BY DEF ReadPart, Took
  <2>2. \A x \in Socks : wsi'[x].mode \in {"HTTP_SERVING", "ACCEPTED"} /\ wsi'[x].ah # "held" =>
          wsi[x].mode \in {"HTTP_SERVING", "ACCEPTED"} /\ wsi[x].ah # "held"
    BY <1>2, <1>3
  <2> QED BY <2>1, <2>2, TookPeers
<1> QED BY <1>4, <1>5, <1>6, <1>7, <1>8 DEF ServerInv

(* The answer to a request or a handshake starts the connection's output. *)
LEMMA AnswerFile ==
  ASSUME ServerInv, NEW s \in Socks, wsi'[s].filepos \in Nat,
         wire' = [wire EXCEPT ![s] = <<HDR>>], \A x \in Socks \ {s} : wsi'[x] = wsi[x]
  PROVE  FileOK'
<1>1. <<HDR>> \in Seq(Nat) /\ DOMAIN <<HDR>> = {1} /\ <<HDR>>[1] = 0
  BY DEF HDR
<1>2. wire' \in [Socks -> Seq(Nat)] /\ wire'[s] = <<HDR>> /\ \A x \in Socks \ {s} : wire'[x] = wire[x]
  BY <1>1 DEF ServerInv, FileOK
<1>3. \A i, j \in DOMAIN wire'[s] : ~(i < j)
  BY <1>1, <1>2
<1>4. FileInOrder'
  BY <1>2, <1>3 DEF ServerInv, FileOK, FileInOrder
<1>5. \A i \in DOMAIN wire'[s] : wire'[s][i] <= wsi'[s].filepos
  BY <1>1, <1>2
<1> QED BY <1>2, <1>4, <1>5 DEF ServerInv, FileOK

LEMMA ReadWsStep ==
  ASSUME ServerInv, NEW s \in Socks, ReadWs(s)
  PROVE  ServerInv'
<1> DEFINE w == [wsi[s] EXCEPT !.state = "ESTABLISHED", !.mode = "WS_SERVING", !.ah = "none"]
<1>1. wsi[s] \in Connections /\ wsi[s].state # "FREE"
  BY SlotServed DEF ReadWs, Took, Http, Serving
<1>2. /\ w \in Connections /\ w.state = "ESTABLISHED" /\ w.mode = "WS_SERVING"
      /\ w.filepos = wsi[s].filepos /\ w.filepos \in Nat
  <2>1. w \in Connections
    BY <1>1 DEF Connections
  <2>2. w.state = "ESTABLISHED" /\ w.mode = "WS_SERVING" /\ w.filepos = wsi[s].filepos
    BY <1>1 DEF Connections
  <2> QED BY <2>1, <2>2, FileposNat
<1>3. wsi' = [wsi EXCEPT ![s] = w]
  BY DEF ServerInv, ConnectionsOK, ReadWs
<1> HIDE DEF w
<1>4. wsi' \in [Socks -> Connections] /\ wsi'[s] = w /\ \A x \in Socks \ {s} : wsi'[x] = wsi[x]
  BY <1>2, <1>3 DEF ServerInv, ConnectionsOK
<1>5. TableOK'
  BY <1>1, <1>2, <1>4, HandledTable, SameState DEF ReadWs
<1>6. CursorOK'
  BY NextSlotCursor DEF ReadWs
<1>7. ConnectionsOK'
  BY <1>4, ServerNumbers DEF ServerInv, ConnectionsOK, ReadWs, Took
<1>8. FileOK'
  BY <1>2, <1>4, AnswerFile DEF ReadWs
<1>9. PeersOK'
  <2>1. /\ inbound[s] # <<>> /\ Head(inbound[s]) = "WS"
        /\ inbound' = [inbound EXCEPT ![s] = Tail(@)] /\ UNCHANGED <<sent, crashed>>
    BY DEF ReadWs, Took
  <2>2. \A x \in Socks : wsi'[x].mode \in {"HTTP_SERVING", "ACCEPTED"} /\ wsi'[x].ah # "held" =>
          wsi[x].mode \in {"HTTP_SERVING", "ACCEPTED"} /\ wsi[x].ah # "held"
    BY <1>2, <1>4
  <2> QED BY <2>1, <2>2, TookPeers
<1> QED BY <1>5, <1>6, <1>7, <1>8, <1>9 DEF ServerInv

LEMMA ReadGetStep ==
  ASSUME ServerInv, NEW s \in Socks, ReadGet(s)
  PROVE  ServerInv'
<1>1. /\ wsi[s] \in Connections /\ wsi[s].state # "FREE"
      /\ slot \in DOMAIN fds /\ fds[slot].fd = s
  BY SlotServed DEF ReadGet, Took, Http, Serving
<1>2. /\ AfterGet(s) \in Connections /\ AfterGet(s).state = "ISSUING_FILE"
      /\ AfterGet(s).filepos = wsi[s].filepos /\ AfterGet(s).filepos \in Nat
  <2>1. AfterGet(s) \in Connections
    BY <1>1 DEF AfterGet, Connections
  <2>2. AfterGet(s).state = "ISSUING_FILE" /\ AfterGet(s).filepos = wsi[s].filepos
    BY <1>1 DEF AfterGet, Connections
  <2> QED BY <2>1, <2>2, FileposNat
<1>3. wsi' \in [Socks -> Connections] /\ wsi'[s] = AfterGet(s) /\ \A x \in Socks \ {s} : wsi'[x] = wsi[x]
  BY <1>2 DEF ServerInv, ConnectionsOK, ReadGet
<1>4. TableOK'
  BY <1>1, <1>2, <1>3, SameTable, SameState DEF tableVars, ReadGet
<1>5. CursorOK'
  BY <1>1 DEF ServerInv, CursorOK, ReadGet
<1>6. ConnectionsOK'
  BY <1>3, ServerNumbers DEF ServerInv, ConnectionsOK, ReadGet, Took
<1>7. FileOK'
  BY <1>2, <1>3, AnswerFile DEF ReadGet
<1>8. PeersOK'
  <2>1. /\ inbound[s] # <<>> /\ Head(inbound[s]) = "GET"
        /\ inbound' = [inbound EXCEPT ![s] = Tail(@)] /\ UNCHANGED <<sent, crashed>>
    BY DEF ReadGet, Took
  <2>2. \A x \in Socks : wsi'[x].mode \in {"HTTP_SERVING", "ACCEPTED"} /\ wsi'[x].ah # "held" =>
          \/ x = s /\ "GET" = "GET"
          \/ wsi[x].mode \in {"HTTP_SERVING", "ACCEPTED"} /\ wsi[x].ah # "held"
    BY <1>3
  <2> QED BY <2>1, <2>2, TookPeers
<1> QED BY <1>4, <1>5, <1>6, <1>7, <1>8 DEF ServerInv

(* The parser without its table, or free() of it a second time: the peer has sent a      *)
(* second request, or a handshake that lacks a header.                                    *)
LEMMA CrashStep ==
  ASSUME ServerInv, NEW s \in Socks, inbound[s] # <<>>, Crash, UNCHANGED <<tcp, sent, packets>>,
         inbound' \in {inbound, [inbound EXCEPT ![s] = Tail(@)]},
         \/ NoTable(s) /\ wsi[s].mode \in {"HTTP_SERVING", "ACCEPTED"}
         \/ Head(inbound[s]) = "SHORT"
  PROVE  ServerInv'
<1>1. ~WellBehaved(sent[s])
  <2>1. Seen(s) \in Nat /\ Seen(s) + 1 \in DOMAIN sent[s] /\ Head(inbound[s]) = sent[s][Seen(s) + 1]
    BY FirstUnseen
  <2>2. CASE Head(inbound[s]) = "SHORT"
    BY <2>1, <2>2 DEF WellBehaved
  <2>3. CASE NoTable(s) /\ wsi[s].mode \in {"HTTP_SERVING", "ACCEPTED"}
    <3>1. PICK i \in 1 .. Seen(s) : sent[s][i] = "GET"
      BY <2>3 DEF NoTable, ServerInv, PeersOK, TableGoneAfterGet
    <3>2. DOMAIN sent[s] = 1 .. Len(sent[s]) /\ Len(sent[s]) \in Nat
      BY DEF ServerInv, PeersOK
    <3>3. i \in DOMAIN sent[s] /\ i < Seen(s) + 1
      BY <2>1, <3>1, <3>2
    <3> QED BY <2>1, <3>1, <3>3 DEF WellBehaved
  <2> QED BY <2>2, <2>3
<1>2. TableOK' /\ CursorOK' /\ ConnectionsOK' /\ FileOK'
  <2>1. UNCHANGED <<fds, lws_lookup, position, wsi, pc, slot, unread, wire, tcp>>
    BY DEF Crash, tableVars
  <2> QED BY <2>1 DEF ServerInv, TableOK, TableConsistent, CursorOK, ConnectionsOK, FileOK, FileInOrder
<1>3. inbound' \in [Socks -> Seq(Packets)] /\ InboundIsRest' /\ TableGoneAfterGet'
  <2>1. CASE inbound' = inbound
    <3>1. \A x \in Socks : Seen(x)' = Seen(x)
      BY <2>1 DEF Seen
    <3> QED BY <2>1, <3>1 DEF Crash, ServerInv, PeersOK, InboundIsRest, TableGoneAfterGet
  <2>2. CASE inbound' = [inbound EXCEPT ![s] = Tail(@)]
    <3>1. /\ Tail(inbound[s]) \in Seq(Packets) /\ Seen(s) \in Nat
          /\ Len(sent[s]) = (Seen(s) + 1) + Len(Tail(inbound[s]))
          /\ \A i \in DOMAIN Tail(inbound[s]) : Tail(inbound[s])[i] = sent[s][(Seen(s) + 1) + i]
      BY FirstUnseen
    <3>2. /\ inbound' \in [Socks -> Seq(Packets)] /\ inbound'[s] = Tail(inbound[s])
          /\ \A x \in Socks \ {s} : inbound'[x] = inbound[x]
      BY <2>2, <3>1 DEF ServerInv, PeersOK
    <3>3. Seen(s)' = Seen(s) + 1 /\ \A x \in Socks \ {s} : Seen(x)' = Seen(x)
      <4>1. Len(Tail(inbound[s])) \in Nat
        BY <3>1
      <4>2. Seen(s)' = Len(sent[s]) - Len(Tail(inbound[s]))
        BY <3>2 DEF Seen
      <4>3. Seen(s)' = Seen(s) + 1
        BY <4>1, <4>2, <3>1
      <4> QED BY <4>3, <3>2 DEF Seen
    <3>4. InboundIsRest'
      <4> SUFFICES ASSUME NEW x \in Socks
                   PROVE  /\ Seen(x)' >= 0
                          /\ \A i \in DOMAIN inbound'[x] : inbound'[x][i] = sent[x][Seen(x)' + i]
        BY DEF InboundIsRest
      <4>1. CASE x = s
        BY <4>1, <3>1, <3>2, <3>3
      <4>2. CASE x # s
        BY <4>2, <3>2, <3>3 DEF ServerInv, PeersOK, InboundIsRest
      <4> QED BY <4>1, <4>2
    <3>5. \A x \in Socks : Seen(x)' \in Nat /\ Seen(x) \in Nat /\ Seen(x) <= Seen(x)'
      <4> SUFFICES ASSUME NEW x \in Socks PROVE Seen(x)' \in Nat /\ Seen(x) \in Nat /\ Seen(x) <= Seen(x)'
        OBVIOUS
      <4>1. Seen(x) \in Nat
        BY RestOf
      <4> QED BY <4>1, <3>3
    <3>6. \A x \in Socks : \A i \in 1 .. Seen(x) : i \in 1 .. Seen(x)'
      BY <3>5
    <3>7. TableGoneAfterGet'
      BY <3>6 DEF Crash, ServerInv, PeersOK, TableGoneAfterGet
    <3> QED BY <3>2, <3>4, <3>7
  <2> QED BY <2>1, <2>2
<1>4. crashed' \in BOOLEAN /\ WellBehavedIsSafe' /\ sent' \in [Socks -> Seq(Packets)]
  BY <1>1 DEF Crash, WellBehavedIsSafe, ServerInv, PeersOK
<1> QED BY <1>2, <1>3, <1>4 DEF ServerInv, PeersOK

---------------------------------------------------------------------------
(* A fragment of the file *)

(* What a fragment reads, what of it the socket takes and what is reported. *)
LEMMA FragmentSizes ==
  ASSUME ServerInv, NEW s \in Socks, unread[s] < Room
  PROVE  /\ Taken(s) \in Nat /\ ReadLen(s) \in Nat /\ Issued(s) \in Nat
         /\ Taken(s) <= ReadLen(s) /\ Taken(s) <= Issued(s)
         /\ unread[s] \in Nat /\ unread[s] + Taken(s) <= Room
         /\ wsi[s].filepos \in Nat /\ wsi[s].filepos + ReadLen(s) <= FileLen
         /\ wsi[s].filepos + Issued(s) <= FileLen
         /\ TruncatedAfter(s) \in 0 .. UIntMod - 1
<1>1. wsi[s] \in Connections /\ unread[s] \in 0 .. Room
  BY DEF ServerInv, ConnectionsOK
<1>2. /\ wsi[s].filepos \in Nat /\ wsi[s].filepos \in 0 .. FileLen
      /\ wsi[s].truncated \in 0 .. UIntMod - 1
  BY <1>1, FileposNat
<1>3. /\ FileLen \in Nat /\ Chunk \in Nat \ {0} /\ Room \in Nat \ {0}
      /\ UIntMod \in Nat /\ UIntMod > 2 * FileLen + Chunk
  BY ServerNumbers
<1>4. ReadLen(s) \in Nat /\ ReadLen(s) <= Chunk /\ wsi[s].filepos + ReadLen(s) <= FileLen
  BY <1>2, <1>3 DEF ReadLen, AtMost
<1>5. Taken(s) \in Nat /\ Taken(s) <= ReadLen(s) /\ unread[s] + Taken(s) <= Room
  <2> HIDE DEF ReadLen
  <2> QED BY <1>1, <1>3, <1>4 DEF Taken, AtMost
<1>6. Issued(s) \in Nat /\ Taken(s) <= Issued(s) /\ wsi[s].filepos + Issued(s) <= FileLen
  BY <1>2, <1>4, <1>5, <1>3 DEF Issued
<1>7. TruncatedAfter(s) \in 0 .. UIntMod - 1
  <2>1. CASE wsi[s].truncated # 0
    <3> DEFINE d == wsi[s].truncated - Taken(s)
    <3>1. d \in Int
      BY <1>2, <1>5, <1>3
    <3>2. TruncatedAfter(s) = d % UIntMod
      BY <2>1 DEF TruncatedAfter
    <3> HIDE DEF d
    <3>3. d % UIntMod \in 0 .. UIntMod - 1
      BY <3>1, <1>3
    <3> QED BY <3>2, <3>3
  <2>2. CASE wsi[s].truncated = 0
    <3>1. TruncatedAfter(s) = ReadLen(s) - Taken(s)
      BY <2>2 DEF TruncatedAfter
    <3> QED BY <3>1, <1>3, <1>4, <1>5
  <2> QED BY <2>1, <2>2
<1> QED BY <1>1, <1>2, <1>3, <1>4, <1>5, <1>6, <1>7

LEMMA Concatenated ==
  ASSUME NEW T, NEW a \in Seq(T), NEW b \in Seq(T)
  PROVE  /\ a \o b \in Seq(T) /\ Len(a \o b) = Len(a) + Len(b)
         /\ \A i \in 1 .. Len(a) : (a \o b)[i] = a[i]
         /\ \A i \in Len(a) + 1 .. Len(a) + Len(b) : (a \o b)[i] = b[i - Len(a)]
OBVIOUS

(* Appending the bytes after position f of the file to what goes no further than f. *)
LEMMA FileAppend ==
  ASSUME NEW w \in Seq(Nat), NEW f \in Nat, NEW n \in Nat,
         \A i, j \in DOMAIN w : i < j => w[i] < w[j], \A i \in DOMAIN w : w[i] <= f
  PROVE  \A u : u = w \o [i \in 1 .. n |-> f + i] =>
           /\ u \in Seq(Nat)
           /\ \A i, j \in DOMAIN u : i < j => u[i] < u[j]
           /\ \A i \in DOMAIN u : u[i] <= f + n
<1> DEFINE x == [i \in 1 .. n |-> f + i]
           u == w \o x
<1>1. x \in Seq(Nat) /\ Len(x) = n /\ \A i \in 1 .. n : x[i] = f + i
  OBVIOUS
<1> HIDE DEF x
<1>2. /\ u \in Seq(Nat) /\ Len(u) = Len(w) + n
      /\ \A i \in 1 .. Len(w) : u[i] = w[i]
      /\ \A i \in Len(w) + 1 .. Len(w) + n : u[i] = x[i - Len(w)]
  BY <1>1, Concatenated, ZenonT(60)
<1>8. u = w \o [i \in 1 .. n |-> f + i]
  BY DEF x
<1> HIDE DEF u
<1>3. /\ Len(w) \in Nat /\ \A i \in 1 .. Len(w) : w[i] \in Nat /\ w[i] <= f
      /\ \A i, j \in 1 .. Len(w) : i < j => w[i] < w[j]
  OBVIOUS
<1>4. DOMAIN u = 1 .. Len(w) + n
  BY <1>2, <1>3
<1>5. \A i \in Len(w) + 1 .. Len(w) + n : u[i] = f + (i - Len(w))
  BY <1>1, <1>2, <1>3
<1>6. ASSUME NEW i \in 1 .. Len(w) + n, NEW j \in 1 .. Len(w) + n, i < j PROVE u[i] < u[j]
  <2>1. CASE j <= Len(w)
    <3>1. i \in 1 .. Len(w) /\ j \in 1 .. Len(w)
      BY <2>1, <1>3, <1>6
    <3>2. u[i] = w[i] /\ u[j] = w[j]
      BY <3>1, <1>2
    <3> QED BY <3>1, <3>2, <1>3, <1>6
  <2>2. CASE i > Len(w)
    <3>1. i \in Len(w) + 1 .. Len(w) + n /\ j \in Len(w) + 1 .. Len(w) + n
      BY <2>2, <1>3, <1>6
    <3>2. u[i] = f + (i - Len(w)) /\ u[j] = f + (j - Len(w))
      BY <3>1, <1>5
    <3> QED BY <3>1, <3>2, <1>3, <1>6
  <2>3. CASE i <= Len(w) /\ j > Len(w)
    <3>3. i \in 1 .. Len(w)
      BY <2>3, <1>3
    <3>4. u[i] = w[i]
      BY <3>3, <1>2
    <3>1. u[i] = w[i] /\ w[i] <= f /\ w[i] \in Nat
      BY <3>3, <3>4, <1>3
    <3>2. u[j] = f + (j - Len(w))
      BY <2>3, <1>3, <1>5
    <3> QED BY <2>3, <3>1, <3>2, <1>3
  <2> QED BY <2>1, <2>2, <2>3, <1>3
<1>7. ASSUME NEW i \in 1 .. Len(w) + n PROVE u[i] <= f + n
  <2>1. CASE i <= Len(w)
    <3>1. i \in 1 .. Len(w)
      BY <2>1, <1>3
    <3>2. u[i] = w[i]
      BY <3>1, <1>2
    <3> QED BY <3>1, <3>2, <1>3
  <2>2. CASE i > Len(w)
    <3>1. i \in Len(w) + 1 .. Len(w) + n
      BY <2>2, <1>3
    <3>2. u[i] = f + (i - Len(w))
      BY <3>1, <1>5
    <3> QED BY <3>1, <3>2, <1>3
  <2> QED BY <2>1, <2>2, <1>3
<1> QED BY <1>2, <1>4, <1>6, <1>7, <1>8

(* The end of the connection, after all of the file. *)
LEMMA EndAppend ==
  ASSUME NEW w \in Seq(Nat), NEW f \in Nat, NEW x \in Nat, f < x,
         \A i, j \in DOMAIN w : i < j => w[i] < w[j], \A i \in DOMAIN w : w[i] <= f,
         NEW u, u = w \o <<x>>
  PROVE  u \in Seq(Nat) /\ \A i, j \in DOMAIN u : i < j => u[i] < u[j]
<1>1. /\ u \in Seq(Nat) /\ Len(u) = Len(w) + 1 /\ u[Len(w) + 1] = x
      /\ \A i \in 1 .. Len(w) : u[i] = w[i]
  OBVIOUS
<1>2. /\ Len(w) \in Nat /\ \A i \in 1 .. Len(w) : w[i] \in Nat /\ w[i] <= f
      /\ \A i, j \in 1 .. Len(w) : i < j => w[i] < w[j]
  OBVIOUS
<1>3. DOMAIN u = 1 .. Len(w) + 1
  BY <1>1, <1>2
<1>4. ASSUME NEW i \in 1 .. Len(w) + 1, NEW j \in 1 .. Len(w) + 1, i < j PROVE u[i] < u[j]
  <2>1. i \in 1 .. Len(w) /\ u[i] = w[i] /\ w[i] <= f /\ w[i] \in Nat
    BY <1>1, <1>2, <1>4
  <2>2. CASE j = Len(w) + 1
    BY <2>1, <2>2, <1>1
  <2>3. CASE j \in 1 .. Len(w)
    BY <2>1, <2>3, <1>1, <1>2, <1>4
  <2> QED BY <2>2, <2>3, <1>2
<1> QED BY <1>1, <1>3, <1>4

LEMMA FragmentSlot ==
  ASSUME ServerInv, NEW s \in Socks, InFragment(s)
  PROVE  slot \in DOMAIN fds /\ fds[slot].fd = s /\ ~crashed /\ wsi[s] \in Connections
         /\ wsi[s].state # "FREE" /\ position[s] = slot
<1>1. slot \in DOMAIN fds /\ fds[slot].fd = s /\ ~crashed
  BY DEF InFragment, ServerInv, CursorOK
<1> QED BY <1>1, SlotServed

(* What was sent to s before, with respect to its file. *)
LEMMA WireSoFar ==
  ASSUME ServerInv, NEW s \in Socks, wsi[s].state # "FREE"
  PROVE  /\ wire[s] \in Seq(Nat) /\ \A i, j \in DOMAIN wire[s] : i < j => wire[s][i] < wire[s][j]
         /\ \A i \in DOMAIN wire[s] : wire[s][i] <= wsi[s].filepos
BY DEF ServerInv, FileOK, FileInOrder

(* What will have been sent to s when the socket has taken its part of the fragment. *)
LEMMA WireAfter ==
  ASSUME ServerInv, NEW s \in Socks, wsi[s].state # "FREE", unread[s] < Room,
         NEW u, u = wire[s] \o [i \in 1 .. Taken(s) |-> wsi[s].filepos + i]
  PROVE  /\ u \in Seq(Nat) /\ \A i, j \in DOMAIN u : i < j => u[i] < u[j]
         /\ \A i \in DOMAIN u : u[i] <= wsi[s].filepos + Taken(s)
<1> DEFINE w == wire[s]
           f == wsi[s].filepos
           n == Taken(s)
<1>1. /\ w \in Seq(Nat) /\ \A i, j \in DOMAIN w : i < j => w[i] < w[j]
      /\ \A i \in DOMAIN w : w[i] <= f
  BY WireSoFar
<1>2. f \in Nat /\ n \in Nat
  BY FragmentSizes
<1>3. u = w \o [i \in 1 .. n |-> f + i]
  OBVIOUS
<1> HIDE DEF w, f, n
<1>4. /\ u \in Seq(Nat) /\ \A i, j \in DOMAIN u : i < j => u[i] < u[j]
      /\ \A i \in DOMAIN u : u[i] <= f + n
  BY <1>1, <1>2, <1>3, FileAppend
<1> QED BY <1>4 DEF f, n

LEMMA FragmentChokedStep ==
  ASSUME ServerInv, NEW s \in Socks, FragmentChoked(s)
  PROVE  ServerInv'
<1> DEFINE t == [fds EXCEPT ![slot].out = TRUE]
<1>1. slot \in DOMAIN fds /\ position[s] = slot
  BY FragmentSlot DEF FragmentChoked
<1>2. fds \in Seq(Entries) /\ slot \in Nat
  BY DEF ServerInv, TableOK, CursorOK
<1>3. t \in Seq(Entries) /\ Len(t) = Len(fds) /\ \A i \in DOMAIN fds : t[i].fd = fds[i].fd
  BY <1>1, <1>2, OutKeeps, ZenonT(60)
<1>4. fds' = Handled(t)
  BY <1>1 DEF FragmentChoked, callback_on_writable
<1> HIDE DEF t
<1>5. DOMAIN t = DOMAIN fds
  BY <1>2, <1>3
<1>6. SameSockets
  <2>1. UNCHANGED <<lws_lookup, position>>
    BY DEF FragmentChoked
  <2>2. fds' \in Seq(Entries) /\ Len(fds') = Len(t) /\ \A i \in DOMAIN t : fds'[i].fd = t[i].fd
    BY <1>2, <1>3, <1>4, HandledKeeps
  <2> QED BY <2>1, <2>2, <1>3, <1>5 DEF SameSockets
<1>7. CursorOK'
  BY NextSlotCursor DEF FragmentChoked
<1> QED BY <1>6, <1>7, SameConnections DEF FragmentChoked

LEMMA FragmentSendsStep ==
  ASSUME ServerInv, NEW s \in Socks, FragmentSends(s)
  PROVE  ServerInv'
<1> DEFINE w == [wsi[s] EXCEPT !.filepos = wsi[s].filepos + Issued(s), !.truncated = TruncatedAfter(s)]
           x == wire[s] \o [i \in 1 .. Taken(s) |-> wsi[s].filepos + i]
<1>1. /\ slot \in DOMAIN fds /\ fds[slot].fd = s /\ wsi[s] \in Connections /\ wsi[s].state # "FREE"
  BY FragmentSlot DEF FragmentSends
<1>2. /\ Taken(s) \in Nat /\ Issued(s) \in Nat /\ Taken(s) <= Issued(s)
      /\ unread[s] \in Nat /\ unread[s] + Taken(s) <= Room
      /\ wsi[s].filepos \in Nat /\ wsi[s].filepos + Issued(s) <= FileLen
      /\ TruncatedAfter(s) \in 0 .. UIntMod - 1
  BY FragmentSizes DEF FragmentSends
<1>3. /\ w \in Connections /\ w.state = wsi[s].state /\ w.mode = wsi[s].mode /\ w.ah = wsi[s].ah
      /\ w.filepos = wsi[s].filepos + Issued(s)
  <2>1. wsi[s].filepos + Issued(s) \in 0 .. FileLen
    BY <1>2, ServerNumbers
  <2>2. TruncatedAfter(s) \in 0 .. UIntMod - 1
    BY <1>2
  <2> HIDE DEF Issued, TruncatedAfter
  <2>3. w \in Connections
    BY <1>1, <2>1, <2>2 DEF Connections
  <2>4. /\ w.state = wsi[s].state /\ w.mode = wsi[s].mode /\ w.ah = wsi[s].ah
        /\ w.filepos = wsi[s].filepos + Issued(s)
    BY <1>1 DEF Connections
  <2> QED BY <2>3, <2>4
<1>4. wsi' = [wsi EXCEPT ![s] = w]
  BY DEF FragmentSends, ServerInv, ConnectionsOK
<1> HIDE DEF w
<1>5. wsi' \in [Socks -> Connections] /\ wsi'[s] = w /\ \A y \in Socks \ {s} : wsi'[y] = wsi[y]
  BY <1>3, <1>4 DEF ServerInv, ConnectionsOK
<1>6. SameSockets
  <2>1. fds \in Seq(Entries) /\ fds[slot] \in Entries
    BY <1>1, EntryOfTable DEF ServerInv, TableOK
  <2>2. PICK b \in BOOLEAN : b = (fds[slot].out \/ TruncatedAfter(s) # 0)
    BY Zenon
  <2>3. fds' = [fds EXCEPT ![slot].out = b]
    BY <2>2 DEF FragmentSends
  <2>4. fds' \in Seq(Entries) /\ Len(fds') = Len(fds) /\ \A i \in DOMAIN fds : fds'[i].fd = fds[i].fd
    BY <1>1, <2>1, <2>3, OutKeeps
  <2>5. UNCHANGED <<lws_lookup, position>>
    BY DEF FragmentSends
  <2> QED BY <2>4, <2>5 DEF SameSockets
<1>7. TableOK' /\ DOMAIN fds' = DOMAIN fds
  BY <1>1, <1>3, <1>5, <1>6, SameState
<1>8. CursorOK'
  BY <1>1, <1>6, <1>7 DEF FragmentSends, ServerInv, CursorOK, SameSockets
<1>9. ConnectionsOK'
  <2>1. unread' \in [Socks -> 0 .. Room]
    BY <1>2, ServerNumbers, SMTT(60) DEF FragmentSends, Sent, ServerInv, ConnectionsOK
  <2>2. tcp' = tcp
    BY DEF FragmentSends, peerVars
  <2> QED BY <1>5, <2>1, <2>2 DEF ServerInv, ConnectionsOK
<1>10. FileOK'
  <2>1. /\ x \in Seq(Nat) /\ \A i, j \in DOMAIN x : i < j => x[i] < x[j]
        /\ \A i \in DOMAIN x : x[i] <= wsi[s].filepos + Taken(s)
    BY <1>1, WireAfter DEF FragmentSends
  <2>2. wire' = [wire EXCEPT ![s] = x]
    BY DEF FragmentSends, Sent
  <2> HIDE DEF x
  <2>3. wire' \in [Socks -> Seq(Nat)] /\ wire'[s] = x /\ \A y \in Socks \ {s} : wire'[y] = wire[y]
    BY <2>1, <2>2 DEF ServerInv, FileOK
  <2>4. FileInOrder'
    BY <2>1, <2>3 DEF ServerInv, FileOK, FileInOrder
  <2>5. \A i \in DOMAIN x : x[i] <= w.filepos
    <3> SUFFICES ASSUME NEW i \in DOMAIN x PROVE x[i] <= w.filepos
      OBVIOUS
    <3>1. x[i] \in Nat /\ x[i] <= wsi[s].filepos + Taken(s)
      BY <2>1
    <3> QED BY <3>1, <1>2, <1>3
  <2> QED BY <2>3, <2>4, <2>5, <1>5 DEF ServerInv, FileOK
<1>11. PeersOK'
  <2>1. UNCHANGED <<inbound, sent, crashed>>
    BY DEF FragmentSends, peerVars
  <2> QED BY <2>1, <1>3, <1>5, SamePeers
<1> QED BY <1>7, <1>8, <1>9, <1>10, <1>11 DEF ServerInv

LEMMA FragmentCompletesStep ==
  ASSUME ServerInv, NEW s \in Socks, FragmentCompletes(s)
  PROVE  ServerInv'
<1> DEFINE x == wire[s] \o [i \in 1 .. Taken(s) |-> wsi[s].filepos + i]
           y == x \o <<DONE>>
<1>1. slot \in DOMAIN fds /\ fds[slot].fd = s /\ ~crashed /\ wsi[s].state # "FREE"
  BY FragmentSlot DEF FragmentCompletes
<1>2. /\ Taken(s) \in Nat /\ Taken(s) <= Issued(s) /\ Issued(s) \in Nat
      /\ wsi[s].filepos \in Nat /\ wsi[s].filepos + Issued(s) <= FileLen /\ FileLen \in Nat
  BY FragmentSizes, ServerNumbers DEF FragmentCompletes
<1>3. TableOK' /\ CursorOK' /\ ConnectionsOK' /\ PeersOK'
  BY <1>1, ClosePart DEF FragmentCompletes
<1>4. /\ x \in Seq(Nat) /\ \A i, j \in DOMAIN x : i < j => x[i] < x[j]
      /\ \A i \in DOMAIN x : x[i] <= wsi[s].filepos + Taken(s)
  BY <1>1, WireAfter DEF FragmentCompletes
<1>5. wire' = [wire EXCEPT ![s] = y]
  BY DEF FragmentCompletes
<1> HIDE DEF x
<1>6. y \in Seq(Nat) /\ \A i, j \in DOMAIN y : i < j => y[i] < y[j]
  <2>1. /\ DONE \in Nat /\ wsi[s].filepos + Taken(s) \in Nat /\ wsi[s].filepos + Taken(s) < DONE
    BY <1>2 DEF DONE
  <2> QED BY <1>4, <2>1, EndAppend
<1> HIDE DEF y
<1>7. /\ wire' \in [Socks -> Seq(Nat)] /\ wire'[s] = y
      /\ \A z \in Socks \ {s} : wire'[z] = wire[z]
  BY <1>5, <1>6 DEF ServerInv, FileOK
<1>8. wsi'[s].state = "FREE" /\ \A z \in Socks \ {s} : wsi'[z] = wsi[z]
  BY FreeConnection DEF FragmentCompletes, close_and_free_session, ServerInv, ConnectionsOK
<1>9. FileInOrder'
  BY <1>6, <1>7 DEF ServerInv, FileOK, FileInOrder
<1>10. FileOK'
  BY <1>7, <1>8, <1>9 DEF ServerInv, FileOK
<1> QED BY <1>3, <1>10 DEF ServerInv

---------------------------------------------------------------------------
(* The peers *)

LEMMA PeerSendsStep ==
  ASSUME ServerInv, NEW s \in Socks, NEW p \in Packets, PeerSends(s, p)
  PROVE  ServerInv'
<1> DEFINE a == sent[s]
           b == inbound[s]
           d == Seen(s)
           u == Append(a, p)
           v == Append(b, p)
<1>1. UNCHANGED <<fds, lws_lookup, position, wsi, pc, slot, tcp, unread, wire, crashed>>
      /\ ~crashed
  BY DEF PeerSends, PeersTurn
<1>2. TableOK' /\ CursorOK' /\ ConnectionsOK' /\ FileOK'
  BY <1>1 DEF ServerInv, TableOK, TableConsistent, CursorOK, ConnectionsOK, FileOK, FileInOrder
<1>3. /\ a \in Seq(Packets) /\ b \in Seq(Packets) /\ d \in Nat /\ Len(a) = d + Len(b)
      /\ \A i \in DOMAIN b : b[i] = a[d + i]
  BY RestOf
<1>4. sent' = [sent EXCEPT ![s] = Append(a, p)] /\ inbound' = [inbound EXCEPT ![s] = Append(b, p)]
  BY DEF PeerSends
<1>5. sent \in [Socks -> Seq(Packets)] /\ inbound \in [Socks -> Seq(Packets)]
  BY DEF ServerInv, PeersOK
<1>6. d = Seen(s)
  OBVIOUS
<1> HIDE DEF a, b, d
<1>13. u = Append(a, p) /\ v = Append(b, p)
  OBVIOUS
<1>14. /\ u \in Seq(Packets) /\ Len(u) = Len(a) + 1 /\ u[Len(a) + 1] = p
       /\ \A i \in 1 .. Len(a) : u[i] = a[i]
       /\ v \in Seq(Packets) /\ Len(v) = Len(b) + 1 /\ v[Len(b) + 1] = p
       /\ \A i \in 1 .. Len(b) : v[i] = b[i]
  BY <1>3, Appended
<1> HIDE DEF u, v
<1>7. /\ u \in Seq(Packets) /\ v \in Seq(Packets)
      /\ Len(u) = d + Len(v)
      /\ \A i \in DOMAIN v : v[i] = u[d + i]
      /\ \A i \in 1 .. Len(a) : u[i] = a[i]
  <2>1. Len(a) \in Nat /\ Len(b) \in Nat /\ d \in Nat /\ Len(a) = d + Len(b)
    BY <1>3
  <2>2. DOMAIN v = 1 .. Len(b) + 1 /\ DOMAIN b = 1 .. Len(b)
    BY <1>3, <1>14
  <2>3. ASSUME NEW i \in 1 .. Len(b) + 1 PROVE v[i] = u[d + i]
    <3>1. CASE i = Len(b) + 1
      <4>1. d + i = Len(a) + 1
        BY <2>1, <3>1
      <4> QED BY <4>1, <3>1, <1>14
    <3>2. CASE i # Len(b) + 1
      <4>1. i \in 1 .. Len(b) /\ d + i \in 1 .. Len(a)
        BY <2>1, <3>2
      <4>2. b[i] = a[d + i]
        BY <4>1, <2>2, <1>3
      <4>3. v[i] = b[i] /\ u[d + i] = a[d + i]
        BY <4>1, <1>14
      <4> QED BY <4>2, <4>3
    <3> QED BY <3>1, <3>2
  <2>4. Len(u) = d + Len(v)
    BY <2>1, <1>14
  <2> QED BY <2>2, <2>3, <2>4, <1>14
<1>8. /\ sent' \in [Socks -> Seq(Packets)] /\ inbound' \in [Socks -> Seq(Packets)]
      /\ sent'[s] = u /\ inbound'[s] = v
      /\ \A x \in Socks \ {s} : sent'[x] = sent[x] /\ inbound'[x] = inbound[x]
  BY <1>4, <1>5, <1>7, <1>13
<1>9. Seen(s)' = d /\ \A x \in Socks \ {s} : Seen(x)' = Seen(x)
  <2>1. Len(v) \in Nat
    BY <1>7
  <2>2. Seen(s)' = Len(u) - Len(v)
    BY <1>8 DEF Seen
  <2>3. Seen(s)' = d
    BY <2>1, <2>2, <1>3, <1>7
  <2> QED BY <2>3, <1>8 DEF Seen
<1>10. InboundIsRest'
  <2> SUFFICES ASSUME NEW x \in Socks
               PROVE  /\ Seen(x)' >= 0
                      /\ \A i \in DOMAIN inbound'[x] : inbound'[x][i] = sent'[x][Seen(x)' + i]
    BY DEF InboundIsRest
  <2>1. CASE x = s
    BY <2>1, <1>3, <1>7, <1>8, <1>9
  <2>2. CASE x # s
    BY <2>2, <1>8, <1>9 DEF ServerInv, PeersOK, InboundIsRest
  <2> QED BY <2>1, <2>2
<1>11. TableGoneAfterGet'
  <2> SUFFICES ASSUME NEW x \in Socks,
                      wsi[x].mode \in {"HTTP_SERVING", "ACCEPTED"}, wsi[x].ah # "held"
               PROVE  \E i \in 1 .. Seen(x)' : sent'[x][i] = "GET"
    BY <1>1 DEF TableGoneAfterGet
  <2>1. PICK i \in 1 .. Seen(x) : sent[x][i] = "GET"
    BY DEF ServerInv, PeersOK, TableGoneAfterGet
  <2>2. CASE x = s
    <3>1. i \in 1 .. Len(a)
      <4>1. i \in 1 .. d /\ Len(b) \in Nat
        BY <2>2, <1>3, <1>6
      <4> QED BY <4>1, <1>3
    <3>2. sent'[s][i] = a[i] /\ a[i] = "GET"
      BY <2>1, <2>2, <3>1, <1>7, <1>8 DEF a
    <3> QED BY <2>2, <3>2, <1>6, <1>9
  <2>3. CASE x # s
    BY <2>1, <2>3, <1>8, <1>9
  <2> QED BY <2>2, <2>3
<1>12. crashed' \in BOOLEAN /\ WellBehavedIsSafe'
  BY <1>1 DEF WellBehavedIsSafe, ServerInv, PeersOK
<1> QED BY <1>2, <1>8, <1>10, <1>11, <1>12 DEF ServerInv, PeersOK

LEMMA PeerEndsStep ==
  ASSUME ServerInv, NEW s \in Socks, PeerEnds(s)
  PROVE  ServerInv'
<1>1. UNCHANGED <<fds, lws_lookup, position, wsi, pc, slot, unread, wire, sent, crashed>> /\ ~crashed
  BY DEF PeerEnds, PeersTurn
<1>2. TableOK' /\ CursorOK' /\ FileOK'
  BY <1>1 DEF ServerInv, TableOK, TableConsistent, CursorOK, FileOK, FileInOrder
<1>3. ConnectionsOK'
  BY <1>1 DEF PeerEnds, ServerInv, ConnectionsOK
<1>4. /\ inbound' \in [Socks -> Seq(Packets)]
      /\ \A x \in Socks : inbound'[x] = inbound[x] \/ inbound'[x] = <<>>
  <2>1. inbound' = inbound \/ inbound' = [inbound EXCEPT ![s] = <<>>]
    BY DEF PeerEnds
  <2>2. inbound \in [Socks -> Seq(Packets)] /\ <<>> \in Seq(Packets)
    BY DEF ServerInv, PeersOK
  <2> QED BY <2>1, <2>2
<1>5. ASSUME NEW x \in Socks
      PROVE  /\ Seen(x)' \in Nat /\ Seen(x) \in Nat /\ Seen(x)' >= Seen(x)
             /\ \A i \in DOMAIN inbound'[x] : inbound'[x][i] = sent[x][Seen(x)' + i]
  <2>1. /\ sent[x] \in Seq(Packets) /\ Seen(x) \in Nat /\ Len(sent[x]) = Seen(x) + Len(inbound[x])
        /\ Len(inbound[x]) \in Nat
        /\ \A i \in DOMAIN inbound[x] : inbound[x][i] = sent[x][Seen(x) + i]
    <3>1. inbound[x] \in Seq(Packets)
      BY RestOf
    <3> QED BY <3>1, RestOf
  <2>2. CASE inbound'[x] = inbound[x]
    <3>1. Seen(x)' = Seen(x)
      BY <2>2, <1>1 DEF Seen
    <3> QED BY <2>1, <2>2, <3>1
  <2>3. CASE inbound'[x] = <<>>
    <3>1. Seen(x)' = Len(sent[x])
      BY <2>1, <2>3, <1>1 DEF Seen
    <3> QED BY <2>1, <2>3, <3>1
  <2> QED BY <2>2, <2>3, <1>4
<1>6. InboundIsRest'
  BY <1>1, <1>5 DEF InboundIsRest
<1>7. \A x \in Socks : \A i \in 1 .. Seen(x) : i \in 1 .. Seen(x)'
  BY <1>5
<1>8. TableGoneAfterGet'
  BY <1>1, <1>7 DEF ServerInv, PeersOK, TableGoneAfterGet
<1>9. sent' \in [Socks -> Seq(Packets)] /\ crashed' \in BOOLEAN /\ WellBehavedIsSafe'
  BY <1>1 DEF WellBehavedIsSafe, ServerInv, PeersOK
<1> QED BY <1>2, <1>3, <1>4, <1>6, <1>8, <1>9 DEF ServerInv, PeersOK

LEMMA PeerReadsStep ==
  ASSUME ServerInv, NEW s \in Socks, PeerReads(s)
  PROVE  ServerInv'
<1>1. UNCHANGED <<fds, lws_lookup, position, wsi, pc, slot, wire, crashed>> /\ UNCHANGED peerVars
  BY DEF PeerReads
<1>2. TableOK' /\ CursorOK' /\ FileOK'
  BY <1>1 DEF ServerInv, TableOK, TableConsistent, CursorOK, FileOK, FileInOrder
<1>3. ConnectionsOK'
  BY <1>1, ServerNumbers DEF PeerReads, ServerInv, ConnectionsOK, peerVars
<1>4. PeersOK'
  BY <1>1, SamePeers DEF peerVars
<1> QED BY <1>2, <1>3, <1>4 DEF ServerInv

---------------------------------------------------------------------------
(* The theorems *)

LEMMA ServerStep == ServerInv /\ [Next]_vars => ServerInv'
<1> SUFFICES ASSUME ServerInv, [Next]_vars PROVE ServerInv'
  OBVIOUS
<1>1. CASE UNCHANGED vars
  <2>2. TableOK' /\ CursorOK' /\ ConnectionsOK' /\ FileOK'
    BY <1>1 DEF vars, ServerInv, TableOK, TableConsistent, CursorOK, ConnectionsOK, FileOK, FileInOrder
  <2>3. PeersOK'
    BY <1>1, SamePeers DEF vars
  <2> QED BY <2>2, <2>3 DEF ServerInv
<1>2. CASE Poll
  BY <1>2, PollStep
<1>3. CASE SkipSlot
  <2>1. SameSockets /\ CursorOK'
    BY <1>3, SameTable, NextSlotCursor DEF SkipSlot, tableVars
  <2> QED BY <1>3, <2>1, SameConnections DEF SkipSlot
<1>4. CASE LoopEnds
  <2>1. SameSockets /\ CursorOK'
    BY <1>4, SameTable DEF LoopEnds, tableVars, CursorOK
  <2> QED BY <1>4, <2>1, SameConnections DEF LoopEnds
<1>5. CASE AcceptNothing
  <2>1. SameSockets /\ CursorOK'
    BY <1>5, HandledTable, NextSlotCursor DEF AcceptNothing, ServiceDone
  <2> QED BY <1>5, <2>1, SameConnections DEF AcceptNothing, ServiceDone
<1>6. ASSUME NEW s \in Socks, Accept(s) PROVE ServerInv'
  BY <1>6, AcceptStep
<1>7. ASSUME NEW s \in Socks, HttpGone(s) PROVE ServerInv'
  BY <1>7, CloseStep DEF HttpGone, Http, Serving
<1>8. ASSUME NEW s \in Socks, ReadWithoutTable(s) PROVE ServerInv'
  <2>1. PICK p \in Packets : Took(s, p)
    BY <1>8 DEF ReadWithoutTable
  <2>2. /\ inbound[s] # <<>> /\ UNCHANGED <<tcp, sent, packets>>
        /\ inbound' = [inbound EXCEPT ![s] = Tail(@)]
        /\ wsi[s].mode \in {"HTTP_SERVING", "ACCEPTED"}
    BY <2>1 DEF Took, Http
  <2> QED BY <1>8, <2>2, CrashStep DEF ReadWithoutTable
<1>9. ASSUME NEW s \in Socks, ReadPart(s) PROVE ServerInv'
  BY <1>9, ReadPartStep
<1>10. ASSUME NEW s \in Socks, ReadBad(s) PROVE ServerInv'
  BY <1>10, CloseStep DEF ReadBad, Http, Serving
<1>11. ASSUME NEW s \in Socks, ReadShort(s) PROVE ServerInv'
  <2>1. CASE CloseAndHandled(s)
    BY <1>11, <2>1, CloseStep DEF ReadShort, Http, Serving
  <2>2. CASE Crash /\ UNCHANGED peerVars
    <3>1. UNCHANGED <<tcp, sent, packets>> /\ inbound' = inbound
      BY <2>2 DEF peerVars
    <3>2. inbound[s] # <<>> /\ Head(inbound[s]) = "SHORT"
      BY <1>11 DEF ReadShort
    <3> QED BY <2>2, <3>1, <3>2, CrashStep
  <2> QED BY <1>11, <2>1, <2>2 DEF ReadShort
<1>12. ASSUME NEW s \in Socks, ReadWs(s) PROVE ServerInv'
  BY <1>12, ReadWsStep
<1>13. ASSUME NEW s \in Socks, ReadGet(s) PROVE ServerInv'
  BY <1>13, ReadGetStep
<1>14. ASSUME NEW s \in Socks, ReadGetFails(s) PROVE ServerInv'
  BY <1>14, CloseStep DEF ReadGetFails, Http, Serving
<1>15. ASSUME NEW s \in Socks, HttpOut(s) PROVE ServerInv'
  <2>1. slot \in DOMAIN fds /\ fds[slot].fd = s
    BY <1>15 DEF HttpOut, Http, Serving
  <2>2. fds \in Seq(Entries) /\ FALSE \in BOOLEAN
    BY DEF ServerInv, TableOK
  <2>3. fds' = [fds EXCEPT ![slot].out = FALSE]
    BY <1>15 DEF HttpOut
  <2>4. fds' \in Seq(Entries) /\ Len(fds') = Len(fds) /\ \A i \in DOMAIN fds : fds'[i].fd = fds[i].fd
    BY <2>1, <2>2, <2>3, OutKeeps
  <2>5. SameSockets
    BY <1>15, <2>4 DEF HttpOut, SameSockets
  <2>6. CursorOK'
    <3>1. DOMAIN fds' = DOMAIN fds
      BY <2>2, <2>4
    <3>2. pc' = "fragment" /\ slot' = slot
      BY <1>15 DEF HttpOut
    <3> QED BY <3>1, <3>2, <2>1, <2>4 DEF ServerInv, CursorOK
  <2> QED BY <1>15, <2>5, <2>6, SameConnections DEF HttpOut
<1>16. ASSUME NEW s \in Socks, FragmentChoked(s) PROVE ServerInv'
  BY <1>16, FragmentChokedStep
<1>17. ASSUME NEW s \in Socks, FragmentFails(s) PROVE ServerInv'
  <2>1. InFragment(s) /\ CloseAndHandled(s)
    BY <1>17 DEF FragmentFails
  <2> QED BY <2>1, FragmentSlot, CloseStep
<1>18. ASSUME NEW s \in Socks, FragmentSends(s) PROVE ServerInv'
  BY <1>18, FragmentSendsStep
<1>19. ASSUME NEW s \in Socks, FragmentCompletes(s) PROVE ServerInv'
  BY <1>19, FragmentCompletesStep
<1>20. ASSUME NEW s \in Socks, WsFrame(s) PROVE ServerInv'
  <2>1. SameSockets /\ CursorOK'
    BY <1>20, HandledTable, NextSlotCursor DEF WsFrame, ServiceDone
  <2>2. TableOK' /\ ConnectionsOK' /\ FileOK'
    <3>1. UNCHANGED <<wsi, unread, tcp, wire>>
      BY <1>20 DEF WsFrame
    <3> QED BY <2>1, <3>1, SameState, SameFile DEF ServerInv, ConnectionsOK
  <2>3. /\ inbound[s] # <<>> /\ Head(inbound[s]) = "PART" /\ UNCHANGED <<wsi, sent, crashed>>
        /\ inbound' = [inbound EXCEPT ![s] = Tail(@)]
    BY <1>20 DEF WsFrame, ServiceDone
  <2>4. PeersOK'
    BY <2>3, TookPeers
  <2> QED BY <2>1, <2>2, <2>4 DEF ServerInv
<1>21. ASSUME NEW s \in Socks, WsEnds(s) PROVE ServerInv'
  BY <1>21, CloseStep DEF WsEnds, Serving
<1>22. ASSUME NEW s \in Socks, PeerReads(s) PROVE ServerInv'
  BY <1>22, PeerReadsStep
<1>23. ASSUME NEW s \in Socks, PeerEnds(s) PROVE ServerInv'
  BY <1>23, PeerEndsStep
<1>24. ASSUME NEW s \in Socks, NEW p \in Packets, PeerSends(s, p) PROVE ServerInv'
  BY <1>24, PeerSendsStep
<1> QED BY <1>1, <1>2, <1>3, <1>4, <1>5, <1>6, <1>7, <1>8, <1>9, <1>10, <1>11, <1>12, <1>13,
           <1>14, <1>15, <1>16, <1>17, <1>18, <1>19, <1>20, <1>21, <1>22, <1>23, <1>24 DEF Next, Server

LEMMA ServerInvariant == Spec => []ServerInv
BY ServerInit, ServerStep, PTL DEF Spec

(* Every variable of the server keeps its type: in particular filepos never leaves the file,  *)
(* truncated_send_len stays an unsigned int and a socket never holds more than its room.     *)
THEOREM ServerTypes == Spec => []TypeOK
<1>1. ServerInv => TypeOK
  <2> SUFFICES ASSUME ServerInv PROVE TypeOK
    OBVIOUS
  <2>1. lws_lookup \subseteq Socks \cup {Listener}
    BY EntryOfTable DEF ServerInv, TableOK, TableConsistent
  <2>2. fds \in Seq([fd : Socks \cup {Listener}, out : BOOLEAN, revents : SUBSET {"IN", "OUT"}])
    BY DEF ServerInv, TableOK, Entries
  <2>3. position \in [Socks \cup {Listener} -> Nat]
    BY DEF ServerInv, TableOK
  <2>4. wsi \in [Socks -> Connections] /\ tcp \in [Socks -> {"up", "fin", "rst", "down"}]
        /\ unread \in [Socks -> 0 .. Room]
    BY DEF ServerInv, ConnectionsOK
  <2>5. pc \in {"poll", "slots", "fragment"} /\ slot \in Nat
    BY DEF ServerInv, CursorOK
  <2>6. inbound \in [Socks -> Seq(Packets)] /\ sent \in [Socks -> Seq(Packets)]
    BY DEF ServerInv, PeersOK
  <2> QED BY <2>1, <2>2, <2>3, <2>4, <2>5, <2>6 DEF TypeOK, Connections
<1> QED BY <1>1, ServerInvariant, PTL

(* insert_wsi_socket_into_fds() and remove_wsi_socket_from_fds(), which moves the last entry  *)
(* into the hole, are called while the service loop is in the middle of the table: whatever   *)
(* connections come and go, every live one has one slot, the one its position names.          *)
THEOREM TableStaysConsistent == Spec => []TableConsistent
<1>1. ServerInv => TableConsistent
  BY DEF ServerInv, TableOK
<1> QED BY <1>1, ServerInvariant, PTL

(* For every size of file, of chunk and of socket buffer: the bytes leave in order and none   *)
(* leaves twice, although a short send() is reported as whole and filepos advances past what  *)
(* the socket took.                                                                           *)
THEOREM FileLeavesInOrder == Spec => []FileInOrder
<1>1. ServerInv => FileInOrder
  BY DEF ServerInv, FileOK
<1> QED BY <1>1, ServerInvariant, PTL

(* The parser meets a freed header table only for a peer that sends a second request on its   *)
(* connection, or a handshake without Host or key; for all others the server does not crash.  *)
THEOREM WellBehavedPeersAreSafe == Spec => []WellBehavedIsSafe
<1>1. ServerInv => WellBehavedIsSafe
  BY DEF ServerInv, PeersOK
<1> QED BY <1>1, ServerInvariant, PTL

=============================================================================
