------------------------------ MODULE ZStream ------------------------------
(***************************************************************************)
(* deflate and inflate together: a caller compresses an input in calls of   *)
(* its choice, flushing and changing the parameters in between, then        *)
(* another reads the result back in calls of its choice, perhaps after      *)
(* losing its place and looking for a flush point.                          *)
(***************************************************************************)
EXTENDS Deflate, Inflate

CONSTANTS Jobs,                \* an input, a preset dictionary or none, a level and a strategy
          Setups,              \* <<level, strategy>> to change to
          Chunks,              \* bytes given to a call of deflate()
          Outs,                \* room given to a call of deflate()
          ParamOuts,           \* room given to deflateParams()
          Flushes,             \* flush values but for Z_FINISH
          Kinds,               \* kinds of block
          MaxExtras,           \* flushes and changes of parameters
          Readers              \* items, room and flush value that a reader calls inflate() with, and how
                               \* often it loses its place

VARIABLES input, dict,
          extras,              \* flushes and changes of parameters so far
          phase,               \* "deflate", then "inflate"
          wire,                \* what is left to give to inflate()
          packed,              \* all that deflate() made
          reader,              \* the one of Readers
          syncs,               \* calls of inflateSync()
          since                \* the output before the last of them, and its place in the input

vars == <<d, i, input, dict, extras, phase, wire, packed, reader, syncs, since>>

---------------------------------------------------------------------------
(* A reference: what items stand for *)

\* A distance that reaches nothing gives no byte of the input.
RECURSIVE Copied(_, _, _)
Copied(out, dist, n) ==
  IF n = 0 THEN out
  ELSE Copied(Append(out, IF dist \in DOMAIN out THEN out[Len(out) - dist + 1] ELSE Unset), dist, n - 1)

Expand(items) ==
  LET more(out, x) == CASE x.k \in {"lit", "byte"} -> Append(out, x.c)
                        [] x.k = "match" -> Copied(out, x.dist, x.len)
                        [] OTHER -> out
      out == FoldLeft(more, dict, items)
  IN SubSeq(out, Len(dict) + 1, Len(out))

---------------------------------------------------------------------------

Init ==
  /\ \E j \in Jobs : input = j.input /\ dict = j.dict /\ d = DeflateInit(j.input, j.level, j.strategy)
  /\ i = InflateInit
  /\ extras = 0 /\ phase = IF dict = <<>> THEN "deflate" ELSE "dict"
  /\ wire = <<>> /\ packed = <<>> /\ reader = <<>> /\ syncs = 0 /\ since = <<0, 0>>

Deflating == UNCHANGED <<i, input, dict, wire, packed, reader, syncs, since>>

SetDictionary ==
  /\ phase = "dict" /\ deflateSetDictionary(dict)
  /\ phase' = "deflate" /\ UNCHANGED extras /\ Deflating

Given == Len(d.next_in) - d.avail_in         \* bytes of the input not given yet

\* A flush that came back for want of room has to be called again as it was, with more than
\* six bytes of room, or its marker is repeated (zlib.h:313-318).
Interrupted == d.flush \in {Z_PARTIAL_FLUSH, Z_SYNC_FLUSH, Z_FULL_FLUSH} /\ d.avail_out = 0

\* A call of deflate(): a flush once more, with the rest of its output; Z_FINISH comes with
\* the last of the input, and then again until all is out.
Compress ==
  /\ phase = "deflate" /\ d.ret # "Z_STREAM_END"
  /\ \E m \in Outs :
       \/ \E flush \in Flushes, n \in Chunks :
            /\ d.flush # Z_FINISH /\ n <= Given
            /\ flush = Z_NO_FLUSH => n # 0
            /\ extras' = extras + (IF flush = Z_NO_FLUSH THEN 0 ELSE 1) /\ extras' <= MaxExtras
            /\ deflate(flush, n, m)
       \/ /\ Interrupted /\ m > 6 /\ deflate(d.flush, 0, m) /\ UNCHANGED extras
       \/ /\ deflate(Z_FINISH, Given, m) /\ UNCHANGED extras
  /\ UNCHANGED phase /\ Deflating

ChangeParams ==
  /\ phase = "deflate" /\ d.flush # Z_FINISH /\ extras < MaxExtras
  /\ \E s \in Setups, m \in ParamOuts :
       /\ s # <<d.level, d.strategy>> /\ d.total_in # 0
       /\ deflateParams(s[1], s[2], 0, m)
  /\ extras' = extras + 1 /\ UNCHANGED phase /\ Deflating

Squeeze ==
  /\ phase = "deflate"
  /\ (\E kind \in Kinds : Turn(kind)) \/ (\E twice \in BOOLEAN : Back(twice))
  /\ UNCHANGED <<extras, phase>> /\ Deflating

\* All is compressed.
Handover ==
  /\ phase = "deflate" /\ d.pc = "idle" /\ d.ret = "Z_STREAM_END"
  /\ phase' = "inflate" /\ wire' = d.out /\ packed' = d.out
  /\ d' = DeflateInit(<<>>, 1, "default") /\ extras' = 0
  /\ reader' \in Readers /\ UNCHANGED <<i, input, dict, syncs, since>>

Inflating == phase = "inflate" /\ UNCHANGED <<d, input, dict, extras, phase, packed, reader>>

\* A call of inflate(), with some more items.
Decompress ==
  /\ Inflating /\ i.ret \notin {"Z_STREAM_END", "Z_DATA_ERROR", "Z_NEED_DICT"}
  /\ \E n \in {Least(reader[1], Len(wire))} :
       /\ inflate(reader[3], SubSeq(wire, 1, n), reader[2])
       /\ wire' = SubSeq(wire, n + 1, Len(wire))
  /\ UNCHANGED <<syncs, since>>

Unpack == Inflating /\ Work /\ UNCHANGED <<wire, syncs, since>>

GiveDictionary ==
  /\ Inflating /\ i.ret = "Z_NEED_DICT" /\ inflateSetDictionary(dict)
  /\ UNCHANGED <<wire, syncs, since>>

\* The reader loses its place and looks for a flush point in all that is left.
Resync ==
  /\ Inflating /\ syncs < reader[4] /\ i.ret # "Z_STREAM_END" /\ dict = <<>>
  /\ inflateSync(wire)
  /\ wire' = <<>> /\ syncs' = syncs + 1
  /\ since' = <<Len(i.out), Len(Expand(SubSeq(packed, 1, Len(packed) - Len(i'.next_in))))>>

Next == SetDictionary \/ Compress \/ ChangeParams \/ Squeeze \/ Handover
        \/ Decompress \/ Unpack \/ GiveDictionary \/ Resync

\* deflate() and inflate() do not stop half way; a caller that has begun to finish goes on
\* until Z_STREAM_END.
Ending == phase = "deflate" /\ (d.pc = "loop" \/ d.flush = Z_FINISH) /\ d.ret # "Z_STREAM_END"

Fairness == []<>~Ending \/ []<><<Compress \/ Squeeze>>_vars

Spec == Init /\ [][Next]_vars /\ Fairness

---------------------------------------------------------------------------
(* Properties *)

\* What has come out of deflate() stands for a beginning of the input, also when the window
\* has slid, a block has lost its start, or level and strategy have changed; all of it at
\* the end (deflate.c:582-892, 1305-1448).
Decodable ==
  phase = "deflate" /\ d.pc = "idle" =>
    /\ IsPrefix(Expand(d.out), input)
    /\ d.ret = "Z_STREAM_END" => Expand(d.out) = input

\* After a flush that returned with room left, all input given so far can be read (zlib.h:
\* 279-305; trees.c:871-919).
FlushReaches ==
  phase = "deflate" /\ d.pc = "idle" /\ d.ret = "Z_OK" /\ d.avail_out # 0
    /\ d.flush \in {Z_PARTIAL_FLUSH, Z_SYNC_FLUSH, Z_FULL_FLUSH} =>
      Expand(d.out) = SubSeq(input, 1, Len(input) - Given)

\* No match behind a full flush reaches back over it, so that a reader can start there
\* (zlib.h:307-311, deflate.c:839-846).
HistoryForgotten ==
  phase = "deflate" /\ d.pc = "idle" =>
    \A p \in DOMAIN d.out : d.out[p].k = "len" /\ d.out[p].full =>
      \A q \in (p + 1)..Len(d.out) :
        d.out[q].k = "match" => d.out[q].dist <= Len(Expand(SubSeq(d.out, 1, q - 1))) - Len(Expand(SubSeq(d.out, 1, p)))

\* A flush makes all that was given readable, and a full flush is a place to start from.
FlushPoints == FlushReaches /\ HistoryForgotten

\* What longest_match() may read has been written: up to and with the byte MAX_MATCH behind
\* strstart, where its loop stops, whatever the lookahead (deflate.c:1171-1179, 1419-1447).
WindowWritten ==
  d.pc = "loop" /\ d.lookahead > 0 =>
    \A k \in 0..(window_size - 1) : k <= d.strstart + MAX_MATCH => d.window[k] # Unset

\* inflate() gives back the input, or from the flush point on after inflateSync(); it finds
\* fault only with what it lost its place in: a match that reaches back over the flush point,
\* or the check over all (inflate.c:358-400, 1096-1146, inffast.c:180-260).
ReadBack ==
  phase = "inflate" =>
    LET got == SubSeq(i.out, since[1] + 1, Len(i.out))
    IN /\ got = SubSeq(input, since[2] + 1, since[2] + Len(got))
       /\ i.mode = "BAD" => syncs > 0
       /\ i.ret = "Z_STREAM_END" => since[2] + Len(got) = Len(input)

\* A caller that goes on calling with Z_FINISH comes to the end (zlib.h:320-326).
StreamEnds == (phase = "deflate" /\ d.flush = Z_FINISH) ~> (phase = "inflate" \/ d.ret = "Z_STREAM_END")
=============================================================================
