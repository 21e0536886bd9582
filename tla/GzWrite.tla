------------------------------ MODULE GzWrite ------------------------------
(***************************************************************************)
(* A gzip file open for writing (gzwrite.c and the writing half of          *)
(* gzlib.c).  Bytes wait in the input buffer until gz_comp() gives them to  *)
(* deflate(), which holds back as many as it likes until it is flushed.     *)
(***************************************************************************)
EXTENDS Gz

CONSTANTS Want,                \* buffer size, as gzbuffer() set it
          Bytes,               \* what gzwrite() and gzprintf() are given: lengths
          Gaps,                \* offsets that gzseek() is given
          MaxGiven             \* bound: bytes and gaps given

\* gzbuffer() refuses a buffer of no size; gzseek() goes forwards only when writing.
ASSUME GzWriteAssumption == Want \in Nat \ {0} /\ Bytes \subseteq Nat /\ Gaps \subseteq Nat

VARIABLES w,                   \* the gz_state: strm's input as "in", what deflate() holds back as
                               \* "held" and "pend", the output buffer from next as "out"
          wcall,               \* call in progress or made last
          zeroing,             \* gz_zero(): what is left, and what the input buffer is full of
          given,               \* what the caller wrote, zeros for the gaps among it
          marred               \* what has come between that and the file:
                               \*   "write"    a write failed or took only a part
                               \*   "resumed"  writing went on after that
                               \*   "gap"      a gap was made of memory that nobody has written
                               \*   "params"   deflateParams() lost a byte

wvars == <<w, wcall, zeroing, given, marred>>

JUNK == 77                     \* what memory that nobody has written may hold
A    == 1                      \* a byte
NoFill == -1
NoWrite == [op |-> "none", over |-> TRUE, data |-> <<>>, flush |-> "NO", large |-> FALSE]
NoZero  == [left |-> 0, fill |-> NoFill, consumed |-> TRUE]

Times(n, b) == [i \in 1..n |-> b]

---------------------------------------------------------------------------
(* gz_init() and gz_comp() *)

wopen == [size |-> 0, in |-> <<>>, begun |-> FALSE, finishing |-> FALSE, held |-> <<>>,
          pend |-> <<>>, out |-> <<>>, room |-> 0, pos |-> 0, seek |-> 0, level |-> 0,
          err |-> "OK"]

gz_init(s) == IF s.size > 0 THEN s ELSE [s EXCEPT !.size = Want, !.room = Want]

\* What deflate() makes of its input, keeping back its last bytes unless it is flushed.
deflated(s, flush, keep) ==
  LET all == s.held \o s.in
      n   == IF flush = "NO" THEN Len(all) - keep ELSE Len(all)
  IN IF s.finishing THEN [s EXCEPT !.pend = @]
     ELSE [s EXCEPT !.in = <<>>, !.held = Drop(all, n), !.begun = TRUE,
                    !.finishing = flush = "FINISH",
                    !.pend = @ \o (IF s.begun THEN <<>> ELSE Header) \o Take(all, n)
                               \o (IF flush = "FINISH" THEN <<STREAM_END, TRAILER>> ELSE <<>>)]

Emptied_Kept(s) == [s EXCEPT !.room = IF @ = 0 THEN s.size ELSE @]

\* The output buffer before deflate() is called again: written if it is full or everything
\* is to be written.
Emptied(s) == [s EXCEPT !.out = <<>>, !.room = IF @ = 0 THEN s.size ELSE @]
WritesFirst(s, flush) == s.out # <<>> /\ (s.room = 0 \/ flush \notin {"NO", "FINISH"})

Kept_Always(flush, all, full) == Drop(all, full)

\* What stays in the output buffer: what is less than a buffer full, unless flushing.
Kept(flush, all, full) == IF flush = "NO" THEN Drop(all, full) ELSE <<>>

\* The loop of gz_comp() with a device that works: what is written, and the state after.
Through(s, flush, keep) ==
  LET first == IF WritesFirst(s, flush) \/ s.room = 0 THEN Emptied(s) ELSE s
      d     == deflated(first, flush, keep)
      all   == d.out \o d.pend
      cap   == Len(d.out) + d.room
      full  == IF Len(all) < cap THEN 0 ELSE cap + ((Len(all) - cap) \div s.size) * s.size
      room  == IF full = 0 THEN cap - Len(all) ELSE s.size - (Len(all) - full)
      out   == Kept(flush, all, full)
  IN [to |-> SubSeq(s.out, 1, IF WritesFirst(s, flush) THEN Len(s.out) ELSE 0)
             \o Take(all, Len(all) - Len(out)),
      s  |-> [d EXCEPT !.pend = <<>>, !.out = out, !.room = room,
                       !.begun = @ /\ flush # "FINISH", !.finishing = FALSE]]

\* The same with a device that fails: the first write there is gets part of its bytes to
\* the file, and next stays where it is.
Stopped(s, flush, keep) ==
  IF WritesFirst(s, flush) THEN [s EXCEPT !.err = "ERRNO"]
  ELSE LET d == deflated(s, flush, keep)
           all == d.out \o d.pend
           cap == Len(d.out) + d.room
       IN IF Len(all) < cap /\ (flush = "NO" \/ all = <<>>)
          THEN [d EXCEPT !.out = all, !.pend = <<>>, !.room = cap - Len(all)]
          ELSE [d EXCEPT !.out = Take(all, cap), !.pend = Drop(all, Lesser(cap, Len(all))),
                         !.room = cap - Lesser(cap, Len(all)), !.err = "ERRNO"]

\* gz_comp(flush): the states it may leave, with what has gone to the file.  Without a
\* flush deflate() keeps everything back or nothing.
gz_comp(s0, flush) ==
  LET s == gz_init(s0)
      keeps == {0, IF flush = "NO" THEN Len(s.held) + Len(s.in) ELSE 0}
  IN IF s.finishing /\ flush # "FINISH" THEN {[to |-> <<>>, s |-> [s EXCEPT !.err = "STREAM"]]}
     ELSE IF ~failing THEN {Through(s, flush, k) : k \in keeps}
     ELSE UNION {LET t == Stopped(s, flush, k) IN
                 IF t.err = "OK" THEN {[to |-> <<>>, s |-> t]}
                 ELSE {[to |-> Take(t.out, n), s |-> t] : n \in 0..(Len(t.out) - 1)} : k \in keeps}
---------------------------------------------------------------------------
(* The calls *)

WInit == w = wopen /\ wcall = NoWrite /\ zeroing = NoZero /\ given = <<>> /\ marred = {}

WReady == wcall.over /\ w.err = "OK"

\* Only gzclose_w() goes on after an error.
Resumes(s) == IF s.err = "OK" THEN {} ELSE {"resumed"}

\* A call begins with the gap a seek has asked for.
WBegin(s, op, data, flush) ==
  /\ wcall' = [op |-> op, over |-> FALSE, data |-> data, flush |-> flush,
               large |-> s.size > 0 /\ Len(data) >= s.size]
  /\ zeroing' = IF s.seek = 0 THEN NoZero ELSE [left |-> s.seek, fill |-> NoFill, consumed |-> FALSE]
  /\ w' = [s EXCEPT !.seek = 0] /\ marred' = marred \cup Resumes(s)
  /\ UNCHANGED <<given, file, failing>>

Room(n) == Len(given) + w.seek + n <= MaxGiven /\ Len(file) < MaxFile

gzwrite(n)  == WReady /\ n > 0 /\ Room(n) /\ WBegin(gz_init(w), "write", Times(n, A), "NO")
gzprintf(n) == WReady /\ Room(n) /\ WBegin(gz_init(w), "printf", Times(n, A), "NO")
gzputc      == WReady /\ Room(1) /\ WBegin(w, "putc", <<A>>, "NO")
gzflush(f)  == WReady /\ Room(0) /\ WBegin(w, "flush", <<>>, f)
gzclose_w   == wcall.over /\ WBegin(w, "close", <<>>, "FINISH")

\* Nothing is done, not even the gap, when the level is the one in use.
gzsetparams(level) ==
  /\ WReady /\ Room(0) /\ level # w.level
  /\ WBegin(w, "params", <<>>, "PARTIAL")

\* gzseek64() when writing: forwards only; a pending gap is dropped even if it refuses.
gzseek_w(offset) ==
  /\ WReady /\ Room(offset)
  /\ w' = [w EXCEPT !.seek = offset]
  /\ wcall' = NoWrite /\ UNCHANGED <<zeroing, given, marred, file, failing>>

gzclearerr_w == /\ wcall.over /\ w.err # "OK"
                /\ w' = [w EXCEPT !.err = "OK"] /\ marred' = marred \cup Resumes(w)
                /\ wcall' = NoWrite /\ UNCHANGED <<zeroing, given, file, failing>>

Fails(s) == IF s.err = "OK" THEN {} ELSE {"write"}

\* gz_comp() on s, whose input is marred by more, and how the call goes on; an error ends it.
Comp(s, flush, call, more) ==
  \E r \in gz_comp(s, flush) :
    /\ w' = r.s /\ file' = file \o r.to
    /\ marred' = marred \cup more \cup Fails(r.s)
    /\ wcall' = IF r.s.err = "OK" THEN call ELSE [wcall EXCEPT !.over = TRUE]
    /\ UNCHANGED failing

Plain(s, call, more) == w' = s /\ wcall' = call /\ marred' = marred \cup more /\ UNCHANGED <<file, failing>>

Done == [wcall EXCEPT !.over = TRUE, !.data = <<>>]

\* What gz_zero() finds in the input buffer: the zeros it has set there the first time
\* round; with no buffer yet it sets none, and the second time round it sets none either.
Fills(n, fill) == IF fill # NoFill THEN {fill} ELSE IF n > 0 THEN {0} ELSE {0, JUNK}

\* A turn of gz_zero(): what waits is compressed first.
Zero ==
  /\ ~wcall.over /\ zeroing.left > 0
  /\ IF ~zeroing.consumed
     THEN /\ zeroing' = [zeroing EXCEPT !.consumed = TRUE]
          /\ given' = given
          /\ IF w.in = <<>> THEN Plain(w, wcall, {}) ELSE Comp(w, "NO", wcall, {})
     ELSE LET n == Lesser(w.size, zeroing.left) IN
          \E b \in Fills(n, zeroing.fill) :
            /\ zeroing' = [zeroing EXCEPT !.left = @ - n, !.fill = b]
            /\ given' = given \o Times(n, 0)
            /\ Comp([w EXCEPT !.in = Times(n, b), !.pos = @ + n], "NO", wcall,
                    IF n > 0 /\ b # 0 THEN {"gap"} ELSE {})

\* The error of gz_zero() ends every call but gzclose_w().
Ready2(op) == wcall.op = op /\ ~wcall.over /\ zeroing.left = 0 /\ UNCHANGED zeroing

\* A turn of gzwrite()'s loop for less than the buffer takes.  After an error a larger
\* buffer of the caller's may still be there: what room is left is then unsigned and large.
WriteSmall ==
  /\ Ready2("write") /\ ~wcall.large
  /\ LET n == IF Len(w.in) > w.size THEN Len(wcall.data)
              ELSE Lesser(w.size - Len(w.in), Len(wcall.data))
         s == [w EXCEPT !.in = @ \o Take(wcall.data, n), !.pos = @ + n]
     IN /\ given' = given \o Take(wcall.data, n)
        /\ IF n = Len(wcall.data) THEN Plain(s, Done, {})
           ELSE Comp(s, "NO", [wcall EXCEPT !.data = Drop(@, n)], {})

\* gzwrite() for more: what waits goes first, then the caller's buffer is compressed.
WriteLarge ==
  /\ Ready2("write") /\ wcall.large
  /\ IF w.in # <<>> THEN Comp(w, "NO", wcall, {}) /\ UNCHANGED given
     ELSE /\ given' = given \o wcall.data
          /\ Comp([w EXCEPT !.in = wcall.data, !.pos = @ + Len(wcall.data)], "NO", Done, {})

Putc ==
  /\ Ready2("putc")
  /\ IF Len(w.in) < w.size
     THEN /\ Plain([w EXCEPT !.in = @ \o wcall.data, !.pos = @ + 1], Done, {})
          /\ given' = given \o wcall.data
     ELSE LET s == gz_init(w) IN
          /\ Plain(s, [wcall EXCEPT !.op = "write", !.large = 1 >= s.size], {})
          /\ UNCHANGED given

\* What does not fit the buffer with its end is not written.
Printf ==
  /\ Ready2("printf")
  /\ IF w.in # <<>> THEN Comp(w, "NO", wcall, {}) /\ UNCHANGED given
     ELSE IF Len(wcall.data) >= w.size THEN Plain(w, Done, {}) /\ UNCHANGED given
     ELSE /\ Plain([w EXCEPT !.in = wcall.data, !.pos = @ + Len(wcall.data)], Done, {})
          /\ given' = given \o wcall.data

Flush == Ready2("flush") /\ Comp(w, wcall.flush, Done, {}) /\ UNCHANGED given

\* deflate(Z_BLOCK) in deflateParams() has compressed k bytes of what it held back, put as
\* many of them to the output buffer as that takes, and holds back the rest.
Blocked(s, k, rest) ==
  LET all == s.out \o s.pend \o Take(s.held, k)
      cap == Len(s.out) + s.room
      n   == Lesser(cap, Len(all))
  IN [s EXCEPT !.level = 1 - @, !.out = Take(all, n), !.pend = Drop(all, n), !.room = cap - n,
               !.held = rest]

\* It stops when everything is compressed or the output buffer is full.
Stops(s, k) == k = Len(s.held) \/ Len(s.pend) + k >= s.room

\* What waits is compressed before deflateParams().  That does not flush when the function
\* stays the same; else it changes it whether or not the flush was completed, and the new
\* function does not know of a literal that deflate_slow() has put off or of the block
\* that deflate_stored() was to put out.
Params ==
  /\ Ready2("params") /\ UNCHANGED given
  /\ IF w.size > 0 /\ w.in # <<>> THEN Comp(w, "PARTIAL", wcall, {})
     ELSE \/ Plain([w EXCEPT !.level = 1 - @], Done, {})
          \/ \E k \in 0..Len(w.held) :
               /\ Stops(w, k)
               /\ \/ Plain(Blocked(w, k, Drop(w.held, k)), Done, {})
                  \/ \E i \in k + 1 .. Len(w.held), j \in k + 1 .. Len(w.held) :
                       /\ i <= j
                       /\ Plain(Blocked(w, k, SubSeq(w.held, k + 1, i - 1) \o Drop(w.held, j)),
                                Done, {"params"})

\* gzclose_w() after the gap, whether or not that went well.
Close ==
  /\ wcall.op = "close" /\ zeroing' = NoZero /\ UNCHANGED given
  /\ (zeroing.left = 0 /\ ~wcall.over) \/ (wcall.over /\ w.err # "OK" /\ wcall.data = <<>>)
  /\ \E r \in gz_comp(w, "FINISH") :
       /\ w' = r.s /\ file' = file \o r.to
       /\ marred' = marred \cup Resumes(w) \cup Fails(r.s)
       /\ wcall' = [NoWrite EXCEPT !.op = "closed", !.over = FALSE]
       /\ UNCHANGED failing

WNext ==
  \/ \E n \in Bytes : gzwrite(n) \/ gzprintf(n)
  \/ \E f \in {"NO", "SYNC", "FINISH"} : gzflush(f)
  \/ \E level \in {0, 1} : gzsetparams(level)
  \/ \E offset \in Gaps : gzseek_w(offset)
  \/ gzputc \/ gzclose_w \/ gzclearerr_w
  \/ Zero \/ WriteSmall \/ WriteLarge \/ Putc \/ Printf \/ Flush \/ Params \/ Close

---------------------------------------------------------------------------
(* Properties *)

\* Once gzflush() or gzclose() has succeeded the file holds what was given, but for what
\* may have come between.
WrittenBut(excuses) ==
  /\ marred \subseteq excuses
  /\ wcall.op = "closed" \/ (wcall.op = "flush" /\ wcall.over /\ wcall.flush # "NO")
  => Decoded(file).data = given /\ (wcall.op = "closed" => Decoded(file).how = "look")

\* Once gzflush() or gzclose() has succeeded the file holds what was given, byte for byte
\* and once, zeros for the gaps among it (gzwrite.c:59-108), unless a write has failed,
\* gz_zero() has found no buffer to set to zero (gzwrite.c:124-131) or deflateParams() no
\* room for what it was to flush (gzwrite.c:492).
FlushedIsGiven == WrittenBut({})

\* zlib.h:1344: gzseek() "then compresses a sequence of zeroes up to the new starting
\* position".  The code does not keep that: gz_zero() sets no zeros before the buffer is
\* allocated (gzwrite.c:124-131).
GapsAreZeros == WrittenBut({"gap"})

\* zlib.h:654: "If the compression level is changed, the input available so far is
\* compressed with the old level (and may be flushed)".  The code does not keep that:
\* gzsetparams() leaves it to deflateParams() whether there is room, and bytes are lost.
ParamsKeepData == WrittenBut({"params"})
=============================================================================
