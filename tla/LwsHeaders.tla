----------------------------- MODULE LwsHeaders -----------------------------
(***************************************************************************)
(* The HTTP header parser of libwebsockets 1.23 (lib/parsers.c) and the     *)
(* table it fills: libwebsocket_parse is called for every byte of a request *)
(* or an answer, and keeps the values of the headers it knows as chains of  *)
(* fragments of one block of characters.                                    *)
(*                                                                         *)
(* A header's name is one symbol, for the lexer that recognises it walks a  *)
(* fixed table; a value is made of two characters, the space and another.   *)
(***************************************************************************)
EXTENDS Integers, Sequences, SequencesExt

CONSTANTS Headers,   \* names of the lexer's table, and the client's own
          MaxValue,  \* bound: characters of a value
          NFrags,    \* entries of ah->frags
          DataSize,  \* sizeof(ah->data)
          MaxLines   \* bound: header lines sent

\* What a client keeps for its request: _WSI_TOKEN_CLIENT_PEER_ADDRESS and the like.
ClientTokens == {"PEER_ADDRESS", "URI"}

ASSUME HeadersAssumption ==
  /\ {"GET_URI", "HTTP", "ORIGIN", "UPGRADE", "VERSION"} \cup ClientTokens \subseteq Headers
  /\ {"NAME_PART", "SKIPPING", "SKIPPING_SAW_CR", "PARSING_COMPLETE"} \cap Headers = {}
  /\ {"CR", "LF", " ", "x", "NUL", "?"} \cap Headers = {}
  /\ NFrags \in Nat \ {0} /\ DataSize \in Nat /\ MaxLines \in Nat /\ MaxValue \in Nat

VARIABLES lines,           \* what the peer has sent: names and values, in order
          input,           \* characters of the line that are still to be parsed
          parser_state, lextable_pos,
          frag_index,      \* per header: its first fragment, or 0
          frags,           \* fragments 1 .. next_frag_index: offset, len, next_frag_index
          data,            \* the characters up to ah->pos
          dropped,         \* libwebsocket_parse has returned -1
          ietf_spec_revision

vars == <<lines, input, parser_state, lextable_pos, frag_index, frags, data, dropped,
          ietf_spec_revision>>
tableVars == <<frag_index, frags, data>>

CR == "CR"
LF == "LF"
SP == " "
NUL == "NUL"
Unknown == "?"

Names == (Headers \ ClientTokens) \cup {"SWORIGIN", Unknown}
Values == UNION {[1 .. n -> {"x", SP}] : n \in 0 .. MaxValue}

next_frag_index == Len(frags)
pos == Len(data)

---------------------------------------------------------------------------
(* Reading the table *)

\* The fragments of a chain, from n on.
Chain(n) ==
  LET chain[k \in 0 .. NFrags] ==
        IF k = 0 \/ k > Len(frags) THEN <<>> ELSE <<k>> \o
          (IF frags[k].next > k THEN chain[frags[k].next] ELSE <<>>)
  IN chain[n]

lws_hdr_total_length(h) ==
  LET c == Chain(frag_index[h])
      total[i \in 0 .. Len(c)] == IF i = 0 THEN 0 ELSE total[i - 1] + frags[c[i]].len
  IN total[Len(c)]

\* strcpy() of a fragment: up to its NUL.
FragText(k) ==
  LET from == frags[k].offset
      ends == {i \in from + 1 .. pos : data[i] = NUL}
      end  == IF ends = {} THEN pos + 1 ELSE CHOOSE i \in ends : \A j \in ends : i <= j
  IN SubSeq(data, from + 1, end - 1)

\* lws_hdr_copy: each fragment is copied to where the lengths before it put it.
lws_hdr_copy(h) == FlattenSeq([i \in DOMAIN Chain(frag_index[h]) |-> FragText(Chain(frag_index[h])[i])])

lws_hdr_simple_ptr(h) == IF frag_index[h] = 0 THEN <<>> ELSE FragText(frag_index[h])

---------------------------------------------------------------------------
(* lws_hdr_simple_create(): a client keeps what it needs for its request in the same *)
(* table, before the answer is parsed                                                *)

Space_OneOver == Len(data) <= DataSize

Space == pos # DataSize

Create(h, s) ==
  /\ lines = <<>> /\ frag_index[h] = 0 /\ ~dropped
  /\ IF next_frag_index + 1 = NFrags
     THEN dropped' = TRUE /\ UNCHANGED tableVars
     ELSE LET room == DataSize - pos
              part == IF Len(s) <= room THEN s ELSE SubSeq(s, 1, room) IN
          /\ frag_index' = [frag_index EXCEPT ![h] = next_frag_index + 1]
          /\ frags' = Append(frags, [offset |-> pos, len |-> Len(part), next |-> 0])
          /\ data' = data \o (IF Len(s) < room THEN Append(s, NUL) ELSE part)
          /\ dropped' = (Len(s) >= room)
  /\ UNCHANGED <<lines, input, parser_state, lextable_pos, ietf_spec_revision>>

---------------------------------------------------------------------------
(* libwebsocket_parse() *)

Parsed(c) == ~dropped /\ input # <<>> /\ Head(input) = c /\ input' = Tail(input)

Drop == dropped' = TRUE

InValue == parser_state \in Headers

FirstLen == frags[frag_index[parser_state]].len

\* Optional initial space: as long as the first fragment of the header is empty.
Swallow ==
  /\ Parsed(SP)
  /\ InValue /\ FirstLen = 0
  /\ UNCHANGED <<lines, parser_state, lextable_pos, dropped, ietf_spec_revision>>
  /\ UNCHANGED tableVars

\* The space after the URI and the end of the line are stored as NUL.
StoreState(c) ==
  IF parser_state = "GET_URI" /\ c = SP THEN "SKIPPING"
  ELSE IF c = CR THEN "SKIPPING_SAW_CR"
  ELSE parser_state

Stored(c) == IF StoreState(c) = parser_state THEN c ELSE NUL

\* A character of a value, counted to the fragment begun last.
Store(c) ==
  /\ InValue /\ Parsed(c) /\ ~(c = SP /\ FirstLen = 0)
  /\ parser_state' = StoreState(c)
  /\ IF Space
     THEN /\ data' = Append(data, Stored(c))
          /\ frags' = IF Stored(c) = NUL THEN frags
                      ELSE [frags EXCEPT ![next_frag_index].len = @ + 1]
          /\ UNCHANGED dropped
     ELSE Drop /\ UNCHANGED <<data, frags>>
  /\ UNCHANGED <<lines, lextable_pos, frag_index, ietf_spec_revision>>

\* The state for a name: Sec-WebSocket-Origin counts as Origin.
TokenOf(name) == IF name = "SWORIGIN" THEN "ORIGIN" ELSE name

StartFragment_Relink(h) ==
  /\ frags' = Append(frags, [offset |-> pos, len |-> 0, next |-> 0])
  /\ frag_index' = [frag_index EXCEPT ![h] = next_frag_index + 1]
  /\ UNCHANGED <<data, dropped>>

\* start_fragment: the first of its header, or one more at the end of the chain, which
\* then begins with a space.
StartFragment(h) ==
  IF next_frag_index + 1 = NFrags
  THEN Drop /\ UNCHANGED tableVars
  ELSE IF frag_index[h] = 0
  THEN /\ frags' = Append(frags, [offset |-> pos, len |-> 0, next |-> 0])
       /\ frag_index' = [frag_index EXCEPT ![h] = next_frag_index + 1]
       /\ UNCHANGED <<data, dropped>>
  ELSE /\ UNCHANGED frag_index
       /\ LET linked == [frags EXCEPT ![Last(Chain(frag_index[h]))].next = next_frag_index + 1] IN
          IF Space
          THEN /\ frags' = Append(linked, [offset |-> pos, len |-> 1, next |-> 0])
               /\ data' = Append(data, SP)
               /\ UNCHANGED dropped
          ELSE /\ frags' = Append(linked, [offset |-> pos, len |-> 0, next |-> 0])
               /\ Drop /\ UNCHANGED data

\* WSI_TOKEN_NAME_PART with a name of the table.
Known(name) ==
  /\ parser_state = "NAME_PART" /\ lextable_pos = 0 /\ name \in Names \ {Unknown}
  /\ Parsed(name)
  /\ IF name = "GET_URI" /\ frag_index["GET_URI"] # 0
     THEN Drop /\ UNCHANGED parser_state /\ UNCHANGED tableVars
     ELSE parser_state' = TokenOf(name) /\ StartFragment(TokenOf(name))
  /\ UNCHANGED <<lines, lextable_pos, ietf_spec_revision>>

\* The first half of the empty line that ends the headers.
NameCR ==
  /\ parser_state = "NAME_PART" /\ lextable_pos = 0
  /\ Parsed(CR) /\ lextable_pos' = 1
  /\ UNCHANGED <<lines, parser_state, dropped, ietf_spec_revision>>
  /\ UNCHANGED tableVars

\* set_parsing_complete
Complete ==
  /\ parser_state = "NAME_PART" /\ lextable_pos = 1
  /\ Parsed(LF)
  /\ parser_state' = "PARSING_COMPLETE"
  /\ ietf_spec_revision' = IF lws_hdr_total_length("UPGRADE") # 0 /\ lws_hdr_total_length("VERSION") # 0
                           THEN lws_hdr_simple_ptr("VERSION") ELSE ietf_spec_revision
  /\ UNCHANGED <<lines, lextable_pos, dropped>>
  /\ UNCHANGED tableVars

\* A name that is not in the table is skipped once the method is known.
UnknownName ==
  /\ parser_state = "NAME_PART"
  /\ Parsed(Unknown)
  /\ IF frag_index["GET_URI"] # 0 \/ frag_index["HTTP"] # 0
     THEN parser_state' = "SKIPPING" /\ UNCHANGED dropped
     ELSE Drop /\ UNCHANGED parser_state
  /\ UNCHANGED <<lines, lextable_pos, ietf_spec_revision>>
  /\ UNCHANGED tableVars

\* WSI_TOKEN_SKIPPING and WSI_TOKEN_SKIPPING_SAW_CR
Skip(c) ==
  /\ Parsed(c)
  /\ \/ /\ parser_state = "SKIPPING"
        /\ parser_state' = (IF c = CR THEN "SKIPPING_SAW_CR" ELSE "SKIPPING")
        /\ UNCHANGED lextable_pos
     \/ /\ parser_state = "SKIPPING_SAW_CR"
        /\ parser_state' = (IF c = LF THEN "NAME_PART" ELSE "SKIPPING")
        /\ lextable_pos' = 0
  /\ UNCHANGED <<lines, dropped, ietf_spec_revision>>
  /\ UNCHANGED tableVars

\* Whatever follows the headers in the same packet is ignored.
Ignore(c) ==
  /\ parser_state = "PARSING_COMPLETE" /\ Parsed(c)
  /\ UNCHANGED <<lines, parser_state, lextable_pos, dropped, ietf_spec_revision>>
  /\ UNCHANGED tableVars

---------------------------------------------------------------------------
(* The peer, which sends well-formed lines *)

SendLine(name, value) ==
  /\ input = <<>> /\ ~dropped /\ parser_state = "NAME_PART" /\ Len(lines) < MaxLines
  /\ lines' = Append(lines, <<name, value>>)
  /\ input' = <<name>> \o value \o <<CR, LF>>
  /\ UNCHANGED <<parser_state, lextable_pos, dropped, ietf_spec_revision>>
  /\ UNCHANGED tableVars

SendEnd ==
  /\ input = <<>> /\ ~dropped /\ lines # <<>> /\ parser_state = "NAME_PART"
  /\ input' = <<CR, LF>>
  /\ UNCHANGED <<lines, parser_state, lextable_pos, dropped, ietf_spec_revision>>
  /\ UNCHANGED tableVars

\* What a peer sends behind its headers, such as a first frame.
SendMore ==
  /\ input = <<>> /\ ~dropped /\ parser_state = "PARSING_COMPLETE"
  /\ input' = <<"x">>
  /\ UNCHANGED <<lines, parser_state, lextable_pos, dropped, ietf_spec_revision>>
  /\ UNCHANGED tableVars

Init ==
  /\ lines = <<>> /\ input = <<>>
  /\ parser_state = "NAME_PART" /\ lextable_pos = 0
  /\ frag_index = [h \in Headers |-> 0] /\ frags = <<>> /\ data = <<>>
  /\ dropped = FALSE /\ ietf_spec_revision = <<>>

Chars == {"x", SP, CR, LF} \cup Names

Parse ==
  \/ Swallow \/ NameCR \/ Complete \/ UnknownName
  \/ \E c \in Chars : Store(c) \/ Known(c) \/ Skip(c) \/ Ignore(c)

Next ==
  \/ \E h \in ClientTokens : Create(h, <<"x">>)
  \/ \E name \in Names, value \in Values : SendLine(name, value)
  \/ SendEnd \/ SendMore
  \/ Parse

Spec == Init /\ [][Next]_vars

---------------------------------------------------------------------------
(* Properties *)

\* No fragment is on the way of two chains, or twice on one, and no character is in two.
FragmentsApart ==
  /\ \A j, k \in 1 .. next_frag_index : frags[j].next # 0 /\ frags[j].next = frags[k].next => j = k
  /\ \A g \in Headers : frag_index[g] # 0 =>
       /\ \A h \in Headers : frag_index[h] = frag_index[g] => h = g
       /\ \A k \in 1 .. next_frag_index : frags[k].next # frag_index[g]
  /\ \A k \in 1 .. next_frag_index - 1 : frags[k].offset + frags[k].len <= frags[k + 1].offset

\* The table stays inside its arrays; a chain runs through the fragments upwards, so
\* that the loops of lws_hdr_total_length and lws_hdr_copy come to an end, and shares
\* nothing with the chain of another header, whose value it could not tell from its own.
TableSound ==
  /\ pos <= DataSize /\ next_frag_index < NFrags
  /\ parser_state \in Headers \cup {"NAME_PART", "SKIPPING", "SKIPPING_SAW_CR", "PARSING_COMPLETE"}
  /\ frag_index \in [Headers -> 0 .. next_frag_index]
  /\ \A k \in 1 .. next_frag_index :
       /\ frags[k].next = 0 \/ frags[k].next \in k + 1 .. next_frag_index
       /\ frags[k].offset + frags[k].len <= pos
  /\ FragmentsApart
  /\ InValue /\ ~dropped => frag_index[parser_state] # 0

\* The values of the lines with a header's name, in order.
Sent(h) ==
  LET sent[n \in 0 .. Len(lines)] ==
        IF n = 0 THEN <<>>
        ELSE IF TokenOf(lines[n][1]) = h THEN Append(sent[n - 1], lines[n]) ELSE sent[n - 1]
  IN sent[Len(lines)]

Untrimmed(s) == \A i \in DOMAIN s : s[i] = SP

\* A value without the spaces before it; of a URI, its first word.
Trimmed(s) == LET first == CHOOSE i \in 1 .. Len(s) + 1 :
                             /\ i = Len(s) + 1 \/ s[i] # SP
                             /\ \A j \in 1 .. i - 1 : s[j] = SP
              IN SubSeq(s, first, Len(s))

FirstWord(s) == LET t == Trimmed(s)
                    cut == CHOOSE i \in 1 .. Len(t) + 1 :
                             /\ i = Len(t) + 1 \/ t[i] = SP
                             /\ \A j \in 1 .. i - 1 : t[j] # SP
                IN SubSeq(t, 1, cut - 1)

\* What the i-th of the lines v adds to header h.
Piece(h, v, i) ==
  IF i > 1 THEN <<SP>> \o v[i][2]
  ELSE IF h = "GET_URI" THEN FirstWord(v[1][2]) ELSE Trimmed(v[1][2])

Joined(h) == FlattenSeq([i \in 1 .. Len(Sent(h)) |-> Piece(h, Sent(h), i)])

\* What lws_hdr_copy returns of a header is all the values it was sent with, joined by
\* spaces, however the lines of several headers alternate, and lws_hdr_total_length is
\* its length; provided the first of the values is not empty.
HeadersCollected ==
  parser_state = "PARSING_COMPLETE" => \A h \in Headers :
    Sent(h) # <<>> /\ ~Untrimmed(Sent(h)[1][2]) =>
      /\ lws_hdr_copy(h) = Joined(h)
      /\ lws_hdr_total_length(h) = Len(Joined(h))

=============================================================================
