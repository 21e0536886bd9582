------------------------------ MODULE Inflate ------------------------------
(***************************************************************************)
(* zlib's decompressor (win32port/zlib: inflate.c, inffast.c): the modes of *)
(* inflate(), the circular window that keeps what earlier calls have        *)
(* written, inflateSetDictionary() and inflateSync().  It reads items, one  *)
(* for what some bits or bytes say.  The record i holds inflate_state and   *)
(* z_stream.                                                                *)
(***************************************************************************)
EXTENDS ZBase

CONSTANT FastIn                \* items inflate_fast() wants: 6 bytes

VARIABLE i

\* inflateInit2_() and inflateReset()
InflateInit ==
  [mode |-> "HEAD", last |-> FALSE, havedict |-> FALSE, wrap |-> 1, wsize |-> 0, whave |-> 0, wnext |-> 0,
   window |-> [k \in 0..(WSize - 1) |-> 0], length |-> 0, offset |-> 0, check |-> Adler0, found |-> FALSE,
   next_in |-> <<>>, left |-> 0, out |-> <<>>, start |-> 0, in |-> 0, pc |-> "idle", flush |-> 0,
   ret |-> "Z_OK"]

\* inflateReset(), as inflateSync() uses it: the window and the output stay where they are.
inflateReset(s) ==
  [s EXCEPT !.mode = "HEAD", !.last = FALSE, !.havedict = FALSE, !.wsize = 0, !.whave = 0, !.wnext = 0]

---------------------------------------------------------------------------
(* The window *)

updatewindow_KeepsNext(s, bytes) ==
  LET copy == Len(bytes)
      at == IF s.wsize = 0 THEN 0 ELSE s.wnext
  IN [s EXCEPT !.wsize = WSize, !.wnext = (at + copy) % WSize,
               !.whave = Least((IF s.wsize = 0 THEN 0 ELSE @) + copy, WSize),
               !.window = [k \in DOMAIN @ |-> IF k - at \in 0..(copy - 1) THEN bytes[k - at + 1] ELSE @[k]]]

\* updatewindow(): the bytes just written go behind those before, around the end.
updatewindow(s, bytes) ==
  LET w == IF s.wsize # 0 THEN s ELSE [s EXCEPT !.wsize = WSize, !.wnext = 0, !.whave = 0]
      copy == Len(bytes)
      dist == Least(WSize - w.wnext, copy)
      put == [k \in DOMAIN w.window |->
                CASE k - w.wnext \in 0..(dist - 1) -> bytes[k - w.wnext + 1]
                  [] k < copy - dist               -> bytes[dist + k + 1]
                  [] OTHER                         -> w.window[k]]
  IN IF copy >= WSize
     THEN [w EXCEPT !.window = [k \in DOMAIN @ |-> bytes[copy - WSize + k + 1]], !.wnext = 0, !.whave = WSize]
     ELSE IF copy > dist THEN [w EXCEPT !.window = put, !.wnext = copy - dist, !.whave = WSize]
     ELSE [w EXCEPT !.window = put, !.wnext = IF @ + dist = WSize THEN 0 ELSE @ + dist,
                    !.whave = IF @ < WSize THEN @ + dist ELSE @]

Written(s) == SubSeq(s.out, s.start + 1, Len(s.out))

\* inf_leave: the window is only made when something will have to be read from it again.
Leave(s, ret) ==
  LET new == Written(s)
      w == IF s.wsize # 0 \/ (s.mode \notin {"CHECK", "DONE", "BAD"} /\ new # <<>>) THEN updatewindow(s, new) ELSE s
      idle == Len(s.next_in) = s.in /\ new = <<>>
  IN [w EXCEPT !.pc = "idle", !.check = IF s.wrap # 0 THEN Adler(@, new) ELSE @,
               !.ret = IF ret = "Z_OK" /\ (idle \/ s.flush = Z_FINISH) THEN "Z_BUF_ERROR" ELSE ret]

---------------------------------------------------------------------------
(* Copying a match *)

Bad(s) == [s EXCEPT !.mode = "BAD"]
Give(s, bytes) == [s EXCEPT !.out = @ \o bytes, !.left = @ - Len(bytes)]
Window(s, from, n) == [k \in 1..n |-> s.window[from + k - 1]]

\* n bytes from dist back in the output, which may overlap themselves.
Repeated(out, dist, n) == [k \in 1..n |-> out[Len(out) - dist + 1 + ((k - 1) % dist)]]

\* MATCH: as much as is in one piece, in the window or in the output.
MatchPart(s) ==
  LET copy == Len(Written(s))
      behind == s.offset - copy
      piece == IF behind > s.wnext THEN behind - s.wnext ELSE behind
      from == IF behind > s.wnext THEN s.wsize - piece ELSE s.wnext - behind
      n == Least(Least(piece, s.length), s.left)
      m == Least(s.length, s.left)
      t == IF behind > 0 THEN [Give(s, Window(s, from, n)) EXCEPT !.length = @ - n]
           ELSE [Give(s, Repeated(s.out, s.offset, m)) EXCEPT !.length = @ - m]
  IN IF behind > s.whave THEN Bad(s)
     ELSE IF t.length = 0 THEN [t EXCEPT !.mode = "LEN"] ELSE t

\* inflate_fast(): all of a match at once, in up to three pieces.
FastMatch(s, len, dist) ==
  LET op == dist - Len(Written(s))
      piece == CASE s.wnext = 0 -> Window(s, s.wsize - op, Least(op, len))
                 [] s.wnext # 0 /\ s.wnext < op ->
                      LET end == Window(s, s.wsize + s.wnext - op, Least(op - s.wnext, len))
                      IN end \o Window(s, 0, Least(s.wnext, len - Len(end)))
                 [] OTHER -> Window(s, s.wnext - op, Least(op, len))
      t == Give(s, piece)
  IN IF op <= 0 THEN Give(s, Repeated(s.out, dist, len))
     ELSE IF op > s.whave THEN Bad(s)
     ELSE Give(t, Repeated(t.out, dist, len - Len(piece)))

---------------------------------------------------------------------------
(* inflate() *)

Item(s) == Head(s.next_in)
Drop(s) == [s EXCEPT !.next_in = Tail(@)]
To(s, mode) == [s EXCEPT !.mode = mode]

HeadMode(s) ==
  IF s.wrap = 0 THEN To(s, "TYPEDO")
  ELSE IF s.next_in = <<>> THEN Leave(s, "Z_OK")
  ELSE IF Item(s).k # "head" THEN Bad(s)
  ELSE To([Drop(s) EXCEPT !.check = Adler0], IF Item(s).dict THEN "DICTID" ELSE "TYPE")

DictMode(s) ==
  CASE s.mode = "DICTID" /\ s.next_in = <<>> -> Leave(s, "Z_OK")
    [] s.mode = "DICTID" /\ s.next_in # <<>> -> To([Drop(s) EXCEPT !.check = Item(s).sum], "DICT")
    [] s.mode = "DICT" /\ ~s.havedict -> [s EXCEPT !.pc = "idle", !.ret = "Z_NEED_DICT"]
    [] OTHER -> To([s EXCEPT !.check = Adler0], "TYPE")

TypeMode(s) ==
  IF s.mode = "TYPE" /\ s.flush = Z_BLOCK THEN Leave(s, "Z_OK")
  ELSE IF s.last THEN To(s, "CHECK")
  ELSE IF s.next_in = <<>> THEN Leave(s, "Z_OK")
  ELSE IF Item(s).k # "block" THEN Bad(s)
  ELSE To([Drop(s) EXCEPT !.last = Item(s).last], IF Item(s).type = "stored" THEN "STORED" ELSE "LEN")

StoredMode(s) ==
  LET n == Least(s.length, Least(Len(s.next_in), s.left))
  IN CASE s.mode = "STORED" -> IF s.next_in = <<>> THEN Leave(s, "Z_OK")
                               ELSE IF Item(s).k # "len" THEN Bad(s)
                               ELSE To([Drop(s) EXCEPT !.length = Item(s).n], "COPY")
       [] s.mode = "COPY" /\ s.length = 0 -> To(s, "TYPE")
       [] s.mode = "COPY" /\ s.length # 0 ->
            IF n = 0 THEN Leave(s, "Z_OK")
            ELSE [Give(s, [k \in 1..n |-> s.next_in[k].c]) EXCEPT !.length = @ - n,
                    !.next_in = SubSeq(@, n + 1, Len(@))]

\* A code with plenty of input and room is for inflate_fast().
LenMode(s) ==
  LET x == Item(s)
      fast == Len(s.next_in) >= FastIn /\ s.left >= MAX_MATCH
  IN IF s.next_in = <<>> THEN Leave(s, "Z_OK")
     ELSE CASE x.k = "eob" -> To(Drop(s), "TYPE")
            [] x.k = "lit" -> IF fast THEN Give(Drop(s), <<x.c>>)
                              ELSE To([Drop(s) EXCEPT !.length = x.c], "LIT")
            [] x.k = "match" -> IF fast THEN FastMatch(Drop(s), x.len, x.dist)
                                ELSE To([Drop(s) EXCEPT !.length = x.len, !.offset = x.dist], "MATCH")
            [] OTHER -> Bad(s)

CheckMode(s) ==
  LET sum == Adler(s.check, Written(s))
  IN IF s.next_in = <<>> THEN Leave(s, "Z_OK")
     ELSE IF Item(s).k # "check" \/ Item(s).sum # sum THEN Bad([s EXCEPT !.check = sum, !.start = Len(s.out)])
     ELSE To([Drop(s) EXCEPT !.check = sum, !.start = Len(s.out)], "DONE")

Stepped(s) ==
  CASE s.mode = "HEAD" -> HeadMode(s)
    [] s.mode \in {"DICTID", "DICT"} -> DictMode(s)
    [] s.mode \in {"TYPE", "TYPEDO"} -> TypeMode(s)
    [] s.mode \in {"STORED", "COPY"} -> StoredMode(s)
    [] s.mode = "LEN" -> LenMode(s)
    [] s.mode = "MATCH" -> IF s.left = 0 THEN Leave(s, "Z_OK") ELSE MatchPart(s)
    [] s.mode = "LIT" -> IF s.left = 0 THEN Leave(s, "Z_OK") ELSE To(Give(s, <<s.length>>), "LEN")
    [] s.mode = "CHECK" -> CheckMode(s)
    [] s.mode = "DONE" -> Leave(s, "Z_STREAM_END")
    [] s.mode = "BAD" -> Leave(s, "Z_DATA_ERROR")
    [] s.mode = "SYNC" -> [s EXCEPT !.pc = "idle", !.ret = "Z_STREAM_ERROR"]

\* inflate(): the items the caller hands over come behind what is left, with room for m bytes.
inflate(flush, items, m) ==
  /\ i.pc = "idle"
  /\ i' = [i EXCEPT !.next_in = @ \o items, !.in = Len(i.next_in \o items), !.left = m, !.start = Len(i.out),
                    !.flush = flush, !.pc = "loop", !.mode = IF @ = "TYPE" THEN "TYPEDO" ELSE @]

Work == i.pc = "loop" /\ i' = Stepped(i)

\* inflateSetDictionary(): the dictionary goes to the end of the window.
inflateSetDictionary(dict) ==
  /\ i.pc = "idle" /\ i.mode = "DICT"
  /\ LET w == updatewindow(i, <<>>)
         len == Least(Len(dict), WSize)
     IN i' = IF Adler(Adler0, dict) # i.check THEN [i EXCEPT !.ret = "Z_DATA_ERROR"]
             ELSE [w EXCEPT !.window = [k \in DOMAIN @ |-> IF k < WSize - len THEN @[k]
                                                           ELSE dict[Len(dict) - WSize + k + 1]],
                            !.whave = len, !.havedict = TRUE, !.ret = "Z_OK"]

\* inflateSync(): the lengths of an empty stored block are looked for in the input.
Mark(x) == x.k = "len" /\ x.n = 0
inflateSync(items) ==
  /\ i.pc = "idle" /\ i.next_in \o items # <<>>
  /\ LET all == i.next_in \o items
         at == {n \in DOMAIN all : Mark(all[n])}
         first == CHOOSE n \in at : \A m \in at : n <= m
         skip == IF at = {} THEN Len(all) ELSE first
         s == [i EXCEPT !.next_in = SubSeq(all, skip + 1, Len(all))]
     IN i' = IF at = {} THEN [s EXCEPT !.mode = "SYNC", !.ret = "Z_DATA_ERROR"]
             ELSE [inflateReset(s) EXCEPT !.mode = "TYPE", !.ret = "Z_OK"]
=============================================================================
