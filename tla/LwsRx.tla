------------------------------- MODULE LwsRx -------------------------------
(***************************************************************************)
(* WebSocket frames between two ends of libwebsockets 1.23: a frame is      *)
(* written by libwebsocket_write (lib/output.c) and read byte by byte by    *)
(* libwebsocket_rx_sm (lib/parsers.c) in a server or by                     *)
(* libwebsocket_client_rx_sm (lib/client-parser.c) in a client.             *)
(*                                                                         *)
(* Both parsers work on single bytes, so that it makes no difference how    *)
(* the bytes of a frame are packed into packets; the writer writes the next *)
(* frame when the last one has been read.  FIN and the reserved bits are    *)
(* set and never looked at.  No close status is ever passed to              *)
(* close_and_free_session in the established state, so that nobody is in    *)
(* WSI_STATE_AWAITING_CLOSE_ACK.                                            *)
(***************************************************************************)
EXTENDS Integers, Sequences, SequencesExt

CONSTANTS Small,     \* 126: first length that needs an extended field
          Base,      \* 256: values of a length byte
          RxBuf,     \* rx_buffer_size of the reader's protocol
          Lens,      \* payload lengths the writer uses
          Keys,      \* masking keys it may draw, each of four bits
          MaxFrames  \* bound: frames written

\* size_t holds eight bytes.
SizeMod == LET b2 == Base * Base
               b4 == b2 * b2
           IN b4 * b4

\* A length is written without its top bit.
ASSUME RxAssumption ==
  /\ Small \in Nat /\ Base \in Nat \ {0, 1} /\ RxBuf \in Nat \ {0}
  /\ Lens \subseteq {n \in Nat : 2 * n < SizeMod} /\ Keys \subseteq 0 .. 15
  /\ MaxFrames \in Nat

VARIABLES role,     \* what the reader is: "client" or "server"
          written,  \* frames written, in order
          wire,     \* bytes written and not yet read
          conn,     \* the reader's connection: "open" or "closed"
          lws_rx_parse_state, left,  \* the state, and the bytes of a field to come
          opcode, frame_is_binary, this_frame_masked, all_zero_nonce,
          frame_masking_nonce, frame_mask_index,
          rx_packet_length,
          rx_user_buffer,  \* up to rx_user_buffer_head
          received, \* RECEIVE callbacks: data, lws_frame_is_binary, remaining payload
          pongs,    \* payloads returned as pongs
          closes    \* close frames returned

rxVars == <<role, written, wire, conn, lws_rx_parse_state, left, opcode, frame_is_binary,
          this_frame_masked, all_zero_nonce, frame_masking_nonce, frame_mask_index,
          rx_packet_length, rx_user_buffer, received, pongs, closes>>
frameVars == <<opcode, frame_is_binary, this_frame_masked>>
keyVars == <<all_zero_nonce, frame_masking_nonce, frame_mask_index>>
outVars == <<received, pongs, closes, conn>>

DataOps    == {"TEXT", "BINARY", "CONT"}
ControlOps == {"PING", "PONG", "CLOSE"}

\* A byte: a value, and whether a key bit has been applied to it.
Byte(v) == [v |-> v, x |-> 0]
Mask(b, k) == [b EXCEPT !.x = (b.x + k) % 2]

---------------------------------------------------------------------------
(* libwebsocket_write() *)

\* n and what is left of it when it is shifted by one byte, by two and so on.
Shifts(n) ==
  LET s1 == n \div Base
      s2 == s1 \div Base
      s3 == s2 \div Base
      s4 == s3 \div Base
      s5 == s4 \div Base
      s6 == s5 \div Base
      s7 == s6 \div Base
  IN <<n, s1, s2, s3, s4, s5, s6, s7>>

\* The k low bytes of n, the most significant first.
Digits(n, k) == [i \in 1 .. k |-> Shifts(n)[k + 1 - i] % Base]

\* The second byte of the header and the bytes of the extended length.
LenField(n) ==
  IF n < Small THEN <<n>>
  ELSE IF n < Base * Base THEN <<Small>> \o Digits(n, 2)
  ELSE <<Small + 1>> \o Digits(n, 8)

\* The i-th byte of a masking key; a bit stands for it.
KeyByte(key, i) == (key \div <<1, 2, 4, 8>>[i + 1]) % 2

Frame(op, n, masked, key, seq) ==
  LET len == LenField(n) IN
  <<Byte(op), Byte([masked |-> masked, n |-> len[1]])>>
    \o [i \in 1 .. Len(len) - 1 |-> Byte(len[i + 1])]
    \o (IF masked THEN [i \in 1 .. 4 |-> Byte(KeyByte(key, i - 1))] ELSE <<>>)
    \o [i \in 1 .. n |-> IF masked THEN Mask(Byte(<<seq, i>>), KeyByte(key, (i - 1) % 4))
                                   ELSE Byte(<<seq, i>>)]

\* An empty data frame is refused; a client masks what it writes.  After its close
\* the writer's connection is over.
Write(op, n, key) ==
  /\ conn = "open" /\ wire = <<>> /\ Len(written) < MaxFrames
  /\ n = 0 => op \in ControlOps
  /\ \A i \in DOMAIN written : written[i].op # "CLOSE"
  /\ written' = Append(written, [op |-> op, n |-> n])
  /\ wire' = Frame(op, n, role = "server", key, Len(written) + 1)
  /\ UNCHANGED <<role, lws_rx_parse_state, left, rx_packet_length, rx_user_buffer>>
  /\ UNCHANGED frameVars /\ UNCHANGED keyVars /\ UNCHANGED outVars

---------------------------------------------------------------------------
(* The parsers *)

Read == conn = "open" /\ wire # <<>> /\ wire' = Tail(wire)

\* The connection is closed; what else arrived is lost.
Bail == conn' = "closed"

\* A piece of the payload is passed to the user; nothing is done with an empty one.
Callback(reason, data, length) ==
  received' = IF data = <<>> THEN received
              ELSE Append(received, [reason |-> reason, data |-> data,
                                     binary |-> frame_is_binary, rest |-> length])

\* Where "spill" takes what is in the buffer, with length bytes still to come.
\* Whether the pong could be written is looked at by the server only, and a pong
\* is shown to the user by the client only.
Spill(data, length) ==
  \/ /\ opcode \in DataOps
     /\ Callback("RECEIVE", data, length) /\ UNCHANGED <<pongs, closes, conn>>
  \/ /\ opcode = "PING"
     /\ \/ pongs' = Append(pongs, data) /\ UNCHANGED conn
        \/ UNCHANGED pongs /\ (IF role = "server" THEN Bail ELSE UNCHANGED conn)
     /\ UNCHANGED <<received, closes>>
  \/ /\ opcode = "PONG"
     /\ IF role = "client" THEN Callback("RECEIVE_PONG", data, length) ELSE UNCHANGED received
     /\ UNCHANGED <<pongs, closes, conn>>
  \/ /\ opcode = "CLOSE"
     /\ closes' = Append(closes, data) /\ Bail
     /\ UNCHANGED <<received, pongs>>

BinaryAfter_EachFrame(op) == op = "BINARY"

\* A continuation or a control frame leaves the type of the message.
BinaryAfter(op) == IF op \in {"TEXT", "BINARY"} THEN op = "BINARY" ELSE frame_is_binary

\* LWS_RXPS_NEW.  The server starts a frame as if it had a key of zeros.
RxNew ==
  LET c == Head(wire) IN
    /\ lws_rx_parse_state = "NEW" /\ Read
    /\ opcode' = c.v
    /\ frame_is_binary' = BinaryAfter(c.v)
    /\ all_zero_nonce' = IF role = "server" THEN TRUE ELSE all_zero_nonce
    /\ lws_rx_parse_state' = "HDR_LEN"
    /\ UNCHANGED <<role, written, left, this_frame_masked, frame_masking_nonce, frame_mask_index,
                   rx_packet_length, rx_user_buffer>>
    /\ UNCHANGED outVars

\* With the length known and no key to come, a client spills an empty frame at once;
\* a server goes on to the payload.
StartPayload(n) ==
  IF role = "client" /\ n = 0
  THEN lws_rx_parse_state' = "NEW" /\ Spill(rx_user_buffer, n)
  ELSE lws_rx_parse_state' = "PAYLOAD" /\ UNCHANGED outVars

\* The client leaves the mask bit in the length.
MaskBit == Base \div 2
ShortLength(c) == IF role = "client" /\ c.masked THEN c.n + MaskBit ELSE c.n

\* LWS_RXPS_04_FRAME_HDR_LEN
RxHdrLen ==
  LET c == Head(wire) IN
    /\ lws_rx_parse_state = "HDR_LEN" /\ Read
    /\ this_frame_masked' = c.v.masked
    /\ \/ /\ c.v.n >= Small /\ opcode \in ControlOps
          /\ Bail
          /\ UNCHANGED <<lws_rx_parse_state, left, rx_packet_length, received, pongs, closes>>
       \/ /\ c.v.n >= Small /\ opcode \notin ControlOps
          /\ lws_rx_parse_state' = "LEN" /\ left' = (IF c.v.n = Small THEN 2 ELSE 8)
          /\ rx_packet_length' = 0
          /\ UNCHANGED outVars
       \/ /\ c.v.n < Small
          /\ rx_packet_length' = ShortLength(c.v)
          /\ IF c.v.masked
             THEN lws_rx_parse_state' = "KEY" /\ left' = 4 /\ UNCHANGED outVars
             ELSE UNCHANGED left /\ StartPayload(c.v.n)
    /\ UNCHANGED <<role, written, opcode, frame_is_binary, rx_user_buffer>>
    /\ UNCHANGED keyVars

\* The first byte of a length of eight has its top bit set: "b63 of length must be
\* zero".  libwebsocket_write never sets it.
TopBitSet(b) == left = 8 /\ 2 * b >= Base

\* The states HDR_LEN16_2 .. 1 and HDR_LEN64_8 .. 1: one byte of an extended length.
RxLen ==
  LET c == Head(wire)
      n == rx_packet_length * Base + c.v
  IN
    /\ lws_rx_parse_state = "LEN" /\ Read
    /\ IF TopBitSet(c.v)
       THEN /\ Bail
            /\ UNCHANGED <<lws_rx_parse_state, left, rx_packet_length, received, pongs, closes>>
       ELSE /\ rx_packet_length' = n
            /\ IF left > 1
               THEN left' = left - 1 /\ UNCHANGED lws_rx_parse_state /\ UNCHANGED outVars
               ELSE IF this_frame_masked
               THEN lws_rx_parse_state' = "KEY" /\ left' = 4 /\ UNCHANGED outVars
               ELSE left' = 0 /\ StartPayload(n)
    /\ UNCHANGED <<role, written, rx_user_buffer>>
    /\ UNCHANGED frameVars /\ UNCHANGED keyVars

MaskStart_Kept == frame_mask_index

\* The server starts each frame with the first byte of its key, the client does not.
MaskStart == IF role = "server" THEN 0 ELSE frame_mask_index

\* LWS_RXPS_07_COLLECT_FRAME_KEY_1 .. 4.  An empty frame is spilled here; a server
\* stays in the payload all the same.
RxKey ==
  LET c == Head(wire) IN
    /\ lws_rx_parse_state = "KEY" /\ Read
    /\ frame_masking_nonce' = [frame_masking_nonce EXCEPT ![4 - left] = c.v]
    /\ all_zero_nonce' = (all_zero_nonce /\ c.v = 0)
    /\ left' = left - 1
    /\ IF left > 1
       THEN UNCHANGED <<lws_rx_parse_state, frame_mask_index>> /\ UNCHANGED outVars
       ELSE /\ lws_rx_parse_state' = (IF rx_packet_length = 0 /\ role = "client" THEN "NEW" ELSE "PAYLOAD")
            /\ frame_mask_index' = MaskStart
            /\ IF rx_packet_length = 0 THEN Spill(rx_user_buffer, 0) ELSE UNCHANGED outVars
    /\ UNCHANGED <<role, written, rx_packet_length, rx_user_buffer>>
    /\ UNCHANGED frameVars

\* A client looks at the mask bit of the frame, a server at its key only.
Masked == ~all_zero_nonce /\ (role = "client" => this_frame_masked)

Full(buffer) == Len(buffer) = RxBuf

\* LWS_RXPS_PAYLOAD_UNTIL_LENGTH_EXHAUSTED: spill at the end of the frame and when
\* the buffer is full.
RxPayload ==
    LET c == Head(wire)
        b == IF Masked THEN Mask(c, frame_masking_nonce[frame_mask_index % 4]) ELSE c
        buffer == Append(rx_user_buffer, b)
        n == (rx_packet_length - 1) % SizeMod
    IN
    /\ lws_rx_parse_state = "PAYLOAD" /\ Read
    /\ frame_mask_index' = (IF Masked THEN (frame_mask_index + 1) % 4 ELSE frame_mask_index)
    /\ rx_packet_length' = n
    /\ lws_rx_parse_state' = (IF n = 0 THEN "NEW" ELSE "PAYLOAD")
    /\ IF n = 0 \/ Full(buffer)
       THEN rx_user_buffer' = <<>> /\ Spill(buffer, n)
       ELSE rx_user_buffer' = buffer /\ UNCHANGED outVars
    /\ UNCHANGED <<role, written, left, all_zero_nonce, frame_masking_nonce>>
    /\ UNCHANGED frameVars

---------------------------------------------------------------------------

RxInit ==
  /\ role \in {"client", "server"}
  /\ written = <<>> /\ wire = <<>> /\ conn = "open"
  /\ lws_rx_parse_state = "NEW" /\ left = 0
  /\ opcode = "CONT" /\ frame_is_binary = FALSE /\ this_frame_masked = FALSE
  /\ all_zero_nonce = FALSE /\ frame_masking_nonce = [i \in 0 .. 3 |-> 0] /\ frame_mask_index = 0
  /\ rx_packet_length = 0 /\ rx_user_buffer = <<>>
  /\ received = <<>> /\ pongs = <<>> /\ closes = <<>>

Rx == RxNew \/ RxHdrLen \/ RxLen \/ RxKey \/ RxPayload

RxNext ==
  \/ \E op \in DataOps \cup ControlOps, n \in Lens, key \in Keys : Write(op, n, key)
  \/ Rx

RxSpec == RxInit /\ [][RxNext]_rxVars

---------------------------------------------------------------------------
(* Properties *)

TypeOK ==
  /\ role \in {"client", "server"} /\ conn \in {"open", "closed"}
  /\ lws_rx_parse_state \in {"NEW", "HDR_LEN", "LEN", "KEY", "PAYLOAD"}
  /\ left \in 0 .. 8 /\ frame_mask_index \in 0 .. 3
  /\ opcode \in DataOps \cup ControlOps
  /\ frame_is_binary \in BOOLEAN /\ this_frame_masked \in BOOLEAN /\ all_zero_nonce \in BOOLEAN
  /\ frame_masking_nonce \in [0 .. 3 -> {0, 1}]
  /\ rx_packet_length \in 0 .. SizeMod - 1
  /\ Len(rx_user_buffer) < RxBuf

Payload(i) == [k \in 1 .. written[i].n |-> Byte(<<i, k>>)]

\* The writer has sent a server a masked frame without payload: the server's parser
\* takes the next header for payload.
Derailed == role = "server" /\ \E i \in DOMAIN written : written[i].n = 0

Heard == IF role = "client" THEN DataOps \cup {"PONG"} ELSE DataOps

\* The payloads of the frames of which the user hears, one after the other.
SentPayloads == LET OfFrame(i) == IF written[i].op \in Heard THEN Payload(i) ELSE <<>>
        IN FlattenSeq([i \in DOMAIN written |-> OfFrame(i)])

Got == FlattenSeq([i \in DOMAIN received |-> received[i].data])

\* The buffer takes the longest payload a control frame may have.
PingFits == Small <= RxBuf + 1

\* The pieces the user is given, put together, are the payloads written, unmasked and
\* in order, none lost, doubled or taken from a control frame; once all bytes are read
\* on an open connection nothing is missing.  A pong returns a ping's payload whole if
\* the buffer takes it: a ping that does not fit is answered with several pongs.
Reassembled ==
  ~Derailed => /\ IsPrefix(Got, SentPayloads)
               /\ wire = <<>> /\ conn = "open" => Got = SentPayloads
               /\ PingFits => \A i \in DOMAIN pongs : \E f \in DOMAIN written :
                    written[f].op = "PING" /\ pongs[i] = Payload(f)

\* The message a data frame belongs to began with the last frame that is not a
\* continuation.
StartsBinary(f) ==
  LET starts == {i \in 1 .. f : written[i].op \in {"TEXT", "BINARY"}} IN
  starts # {} /\ written[CHOOSE i \in starts : \A j \in starts : j <= i].op = "BINARY"

\* "which you can detect by using libwebsockets_remaining_packet_payload()": what it
\* says during a callback is what is still to come of the frame, and
\* lws_frame_is_binary, after control frames and continuations, is the message's type.
\* The buffer of rx_buffer_size bytes is never overrun.
PiecesDescribed ==
  /\ Len(rx_user_buffer) < RxBuf
  /\ ~Derailed => \A i \in DOMAIN received :
       LET p == received[i]
           f == p.data[1].v[1]
       IN /\ p.data[Len(p.data)].v[2] + p.rest = written[f].n
          /\ p.reason = "RECEIVE" => p.binary = StartsBinary(f)

=============================================================================
