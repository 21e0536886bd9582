------------------------------- MODULE GzRead -------------------------------
(***************************************************************************)
(* A gzip file open for reading (gzread.c and the reading half of gzlib.c). *)
(* Input is loaded want units at a time; the output buffer takes twice as   *)
(* many bytes.  The file may be one that another process is still writing.  *)
(***************************************************************************)
EXTENDS Gz

CONSTANTS Files,               \* the files there are, complete
          Wants,               \* buffer sizes that gzbuffer() is given
          Lens,                \* lengths that gzread() and gzgets() are given
          Offsets,             \* offsets that gzseek() is given, back and forth
          MaxPos,              \* bound: positions sought
          MaxPushed            \* bound: characters pushed back and not read again

\* gzread() and gzgets() return at once for less than one byte.
ASSUME GzReadAssumption ==
  /\ Files \subseteq Seq(Unit) /\ Wants \subseteq Nat \ {0}
  /\ Lens \subseteq Nat \ {0} /\ Offsets \subseteq Int

VARIABLES state,               \* the gz_state: strm's input as "in", the output buffer as "out"
          rcall,               \* call in progress or made last: its kind, whether it is over,
                               \* what is left of it, its buffer, and whether its loop's
                               \* turns are odd in number
          skipping,            \* what gz_skip() has left to skip
          whole,               \* the file as it will be
          cleared              \* gzclearerr() has cleared an error

rvars == <<state, rcall, skipping, whole, cleared>>

EOL == 10                      \* the end of a line
PUSHED == -1                   \* a character that is pushed back, told from those of the file
NoCall == [op |-> "none", over |-> TRUE, left |-> 0, buf |-> <<>>, odd |-> FALSE]

---------------------------------------------------------------------------
(* Loading and decompressing: what becomes of a gz_state *)

\* gz_reset() for reading.
gz_reset(g) == [g EXCEPT !.out = <<>>, !.eof = FALSE, !.how = "LOOK", !.direct = TRUE,
                         !.seek = 0, !.err = "OK", !.pos = 0, !.in = <<>>]

\* gz_open() for reading; fd is at the start of the file.
gz_open(want) == gz_reset([size |-> 0, want |-> want, in |-> <<>>, out |-> <<>>, fpos |-> 0,
                           pos |-> 0, raw |-> 0, eof |-> FALSE, how |-> "LOOK",
                           direct |-> TRUE, seek |-> 0, err |-> "OK"])

Rest(g) == Drop(file, Lesser(g.fpos, Len(file)))

\* gz_load(n): the units read; less than n of them is the end of the file.
gz_load(g, n) == Take(Rest(g), n)

Loaded_Again(g, n) == [g EXCEPT !.eof = @ \/ Len(gz_load(g, n)) < n]

\* The state after gz_load(n).
Loaded(g, n) == [g EXCEPT !.fpos = @ + Len(gz_load(g, n)), !.eof = @ \/ Len(gz_load(g, n)) < n]

\* gz_avail() where it is called for: the input buffer is empty.
gz_avail(g) == IF g.in # <<>> \/ g.err # "OK" \/ g.eof THEN g
               ELSE IF failing THEN [g EXCEPT !.err = "ERRNO"]
               ELSE [Loaded(g, g.size) EXCEPT !.in = gz_load(g, g.size)]

\* NEXT(): the input without its first unit, if there is one.
Next1(g) == IF g.in = <<>> THEN g ELSE [g EXCEPT !.in = Tail(@)]

\* gz_head() from "doing raw i/o" on; first is the magic byte that was not followed by
\* the other one.
Raw(g, first) == [g EXCEPT !.raw = g.pos, !.out = first \o g.in, !.in = <<>>,
                           !.how = "COPY", !.direct = TRUE]

gz_head(g0) ==
  LET g == gz_avail([g0 EXCEPT !.size = g0.want])
      h == gz_avail(Next1(g))
      m == gz_avail(Next1(h))
  IN CASE g.in = <<>>          -> g
       [] g.in # <<>> /\ Head(g.in) # ID1 -> Raw(g, <<>>)
       [] OTHER ->
          IF h.in = <<>> /\ h.err # "OK" THEN h
          ELSE IF h.in = <<>> \/ (h.in # <<>> /\ Head(h.in) # ID2) THEN Raw(h, <<ID1>>)
          ELSE IF m.in = <<>> \/ (m.in # <<>> /\ Head(m.in) # DEFLATED)
          THEN [Next1(m) EXCEPT !.err = "DATA"]
          ELSE [Next1(m) EXCEPT !.how = "GZIP", !.direct = FALSE]

\* The state once c more units of input are used, buffer after buffer.
Used(g, c) ==
  LET all == g.in \o Rest(g)
      more == IF c <= Len(g.in) THEN 0 ELSE ((c - Len(g.in) + g.size - 1) \div g.size) * g.size
      n == Lesser(Len(g.in) + more, Len(all))
  IN [g EXCEPT !.in = SubSeq(all, c + 1, n), !.fpos = @ + n - Len(g.in),
               !.eof = @ \/ Len(g.in) + more > Len(all)]

\* Input is over though more is asked for.
Exhausted(g) == [g EXCEPT !.in = <<>>, !.fpos = @ + (IF g.eof THEN 0 ELSE Len(Rest(g))),
                          !.eof = TRUE]

\* gz_decomp() at the end of the deflate stream: the trailer is looked at.
Decompressed(g, all, data, end) ==
  IF end < Len(all) /\ all[end + 1] = TRAILER
  THEN [Used(g, end + 1) EXCEPT !.how = "LOOK", !.out = data]
  ELSE [Used(g, Lesser(end + 1, Len(all))) EXCEPT
          !.err = "DATA", !.out = data, !.eof = @ \/ (end = Len(all) /\ ~failing)]

\* gz_decomp() for n bytes.  inflate() sees the end of the stream with the last byte if
\* it is in the buffer.  What was decompressed before an error is lost: the buffer only
\* counts at the end.
gz_decomp(g, n) ==
  LET all  == g.in \o (IF g.eof \/ failing THEN <<>> ELSE Rest(g))
      stop == {i \in 1..Len(all) : all[i] \notin Byte}
      end  == IF stop = {} THEN Len(all) + 1 ELSE CHOOSE i \in stop : \A j \in stop : i <= j
      made == Lesser(n, end - 1)
      data == SubSeq(all, 1, made)
      after == Used(g, made)
      atEnd == made = end - 1 /\ end <= Len(all) /\ (made < n \/ after.in # <<>>)
  IN CASE made < n /\ end > Len(all) ->
            IF failing /\ ~g.eof THEN [g EXCEPT !.in = <<>>, !.err = "ERRNO"]
            ELSE [Exhausted(g) EXCEPT !.err = "DATA"]
       [] atEnd /\ all[end] = STREAM_END -> Decompressed(g, all, data, end)
       [] atEnd /\ all[end] # STREAM_END -> [Used(g, end) EXCEPT !.err = "DATA"]
       [] OTHER -> [after EXCEPT !.out = data]

\* gz_make(): the output buffer is empty.
gz_make(g0) ==
  LET g == IF g0.how = "LOOK" THEN gz_head(g0) ELSE g0 IN
  IF g.err # "OK" \/ g.out # <<>> THEN g
  ELSE CASE g.how = "COPY" -> IF failing THEN [g EXCEPT !.err = "ERRNO"]
                              ELSE [Loaded(g, 2 * g.size) EXCEPT !.out = gz_load(g, 2 * g.size)]
         [] g.how = "GZIP" -> gz_decomp(g, 2 * g.size)
         [] OTHER -> g

\* n bytes leave the output buffer.
TakenOut(g, n) == [g EXCEPT !.out = Drop(@, n), !.pos = @ + n]

AtEnd_Eof(g) == g.eof

AtEnd_Copying(g) == g.eof /\ g.in = <<>> /\ g.how = "COPY"

\* There is no more input.
AtEnd(g) == g.eof /\ g.in = <<>>

---------------------------------------------------------------------------
(* The calls *)

RInit == /\ whole \in Files
         /\ file \in {Take(whole, n) : n \in {0, Len(whole) - 2, Len(whole)}}
         /\ state \in {gz_open(want) : want \in Wants}
         /\ rcall = NoCall /\ skipping = 0 /\ cleared = FALSE

\* What every reading function checks first.
Ready == rcall.over /\ state.err = "OK"

\* A call begins with the skip a seek has asked for.
Begin(op, n) == /\ rcall' = [NoCall EXCEPT !.op = op, !.over = FALSE, !.left = n]
                /\ skipping' = state.seek
                /\ state' = [state EXCEPT !.seek = 0]
                /\ UNCHANGED <<whole, cleared, file, failing>>

gzread(n) == Ready /\ Begin("read", n)
gzgets(n) == Ready /\ Begin("gets", n - 1)
gzungetc  == Ready /\ Cardinality({i \in DOMAIN state.out : state.out[i] = PUSHED}) < MaxPushed
                   /\ Begin("unget", 0)

\* The output buffer is tried first: a pending skip is thought to leave it empty.
gzgetc ==
  /\ Ready
  /\ IF state.out # <<>>
     THEN /\ state' = TakenOut(state, 1)
          /\ rcall' = [NoCall EXCEPT !.op = "read", !.buf = Take(state.out, 1)]
          /\ UNCHANGED <<skipping, whole, cleared, file, failing>>
     ELSE Begin("read", 1)

\* The call in progress ends, or goes on for another turn, with the file in state g.
Goes(g, call) == /\ state' = g
                 /\ rcall' = IF g.err # "OK" THEN NoCall
                             ELSE [call EXCEPT !.odd = ~call.over /\ ~@]
                 /\ UNCHANGED <<whole, cleared, file, failing>>

\* A turn of gz_skip()'s loop.
Skip ==
  /\ ~rcall.over /\ skipping > 0
  /\ LET n == Lesser(skipping, Len(state.out)) IN
     IF n > 0 THEN Goes(TakenOut(state, n), rcall) /\ skipping' = skipping - n
     ELSE IF AtEnd(state) THEN Goes(state, rcall) /\ skipping' = 0
     ELSE LET g == gz_make(state) IN
          Goes(g, rcall) /\ skipping' = IF g.err = "OK" THEN skipping ELSE 0

\* The call once data is copied to the caller, and when it is over with that.
More(data) == [rcall EXCEPT !.left = @ - Len(data), !.buf = @ \o data]
Over(data) == [More(data) EXCEPT !.over = TRUE]

\* data is copied to the caller, who is done if that was all.
Copied(g, data) == Goes(g, IF rcall.left = Len(data) THEN Over(data) ELSE More(data))

\* A turn of gzread()'s loop.
Read ==
  /\ rcall.op = "read" /\ ~rcall.over /\ skipping = 0 /\ UNCHANGED skipping
  /\ LET n == Lesser(rcall.left, Len(state.out))
         direct == [gz_decomp(state, rcall.left) EXCEPT !.pos = @ + Len(gz_decomp(state, rcall.left).out)]
     IN \/ n > 0 /\ Copied(TakenOut(state, n), Take(state.out, n))
        \/ n = 0 /\ AtEnd(state) /\ Goes(state, Over(<<>>))
        \/ /\ n = 0 /\ ~AtEnd(state) /\ (state.how = "LOOK" \/ rcall.left < 2 * state.size)
           /\ Goes(gz_make(state), rcall)
        \/ /\ n = 0 /\ ~AtEnd(state) /\ state.how = "COPY" /\ rcall.left >= 2 * state.size
           /\ IF failing THEN Goes([state EXCEPT !.err = "ERRNO"], rcall)
              ELSE LET data == gz_load(state, rcall.left)
                   IN Copied([Loaded(state, rcall.left) EXCEPT !.pos = @ + Len(data)], data)
        \/ /\ n = 0 /\ ~AtEnd(state) /\ state.how = "GZIP" /\ rcall.left >= 2 * state.size
           /\ IF direct.err # "OK" THEN Goes(gz_decomp(state, rcall.left), rcall)
              ELSE Copied([direct EXCEPT !.out = <<>>], direct.out)

\* A turn of gzgets()'s loop.  Nothing in the output buffer after gz_make() is taken for
\* the end of the file.
Gets ==
  /\ rcall.op = "gets" /\ ~rcall.over /\ skipping = 0 /\ UNCHANGED skipping
  /\ IF rcall.left = 0 THEN Goes(state, Over(<<>>))
     ELSE IF state.out = <<>>
     THEN LET g == gz_make(state) IN Goes(g, IF g.out = <<>> THEN Over(<<>>) ELSE rcall)
     ELSE LET here == Take(state.out, rcall.left)
              eol == {i \in DOMAIN here : here[i] = EOL}
              n == IF eol = {} THEN Len(here) ELSE CHOOSE i \in eol : \A j \in eol : i <= j
          IN IF eol = {} THEN Copied(TakenOut(state, n), Take(here, n))
             ELSE Goes(TakenOut(state, n), Over(Take(here, n)))

\* gzungetc() after the skip.  With no buffers yet the byte goes where an uninitialised
\* pointer points: the process is taken to stop there.
Unget ==
  /\ rcall.op = "unget" /\ ~rcall.over /\ skipping = 0 /\ UNCHANGED skipping
  /\ IF state.size = 0 THEN Goes([state EXCEPT !.how = "crash"], [NoCall EXCEPT !.op = "closed", !.over = FALSE])
     ELSE IF Len(state.out) = 2 * state.size THEN Goes([state EXCEPT !.err = "BUF"], NoCall)
     ELSE Goes([state EXCEPT !.out = <<PUSHED>> \o @, !.pos = @ - 1], NoCall)

Quick(g) == state' = g /\ rcall' = NoCall /\ UNCHANGED <<skipping, whole, cleared, file, failing>>

\* gzrewind() from a given state.
Rewound(g) == gz_reset([g EXCEPT !.fpos = 0])

gzrewind == Ready /\ Quick(Rewound(state))

\* gzseek64() within the part of the file that is copied: the descriptor is moved, from
\* where the buffered output has been read.
SeekRaw(offset) ==
  [state EXCEPT !.fpos = @ + offset - Len(state.out), !.out = <<>>, !.eof = FALSE,
                !.seek = 0, !.in = <<>>, !.pos = @ + offset]

\* gzseek64() for an offset relative to the current position.
SeekTo(offset) ==
  IF state.how = "COPY" /\ state.pos + offset >= state.raw
  THEN Quick(SeekRaw(offset))
  ELSE IF offset < 0 /\ state.pos + offset < 0 THEN Quick([state EXCEPT !.seek = 0])
  ELSE LET g == IF offset < 0 THEN Rewound(state) ELSE [state EXCEPT !.seek = 0]
           ahead == IF offset < 0 THEN state.pos + offset ELSE offset
           n == Lesser(ahead, Len(g.out))
       IN Quick([TakenOut(g, n) EXCEPT !.seek = ahead - n])

gzseek_set(offset) == Ready /\ SeekTo(offset - state.pos)
gzseek_cur(offset) == /\ Ready /\ state.pos + state.seek + offset <= MaxPos
                      /\ SeekTo(offset + state.seek)

\* gzdirect() looks for the header if it can, whatever skip is pending.
gzdirect == /\ rcall.over /\ state.how = "LOOK" /\ state.out = <<>>
            /\ Quick(gz_head(state))

gzbuffer(want) == rcall.over /\ state.size = 0 /\ Quick([state EXCEPT !.want = want])

gzclearerr == /\ rcall.over
              /\ state' = [state EXCEPT !.eof = FALSE, !.err = "OK"]
              /\ cleared' = (cleared \/ state.err # "OK")
              /\ rcall' = NoCall /\ UNCHANGED <<skipping, whole, file, failing>>

gzclose_r == /\ rcall.over /\ rcall' = [NoCall EXCEPT !.op = "closed", !.over = FALSE]
             /\ UNCHANGED <<state, skipping, whole, cleared, file, failing>>

\* The other process goes on writing.  A file that ends in one magic byte is not one it
\* leaves: gzip writes its header whole.
Grow == /\ file # whole /\ rcall.over /\ Decoded(file).how # "id1"
        /\ file' = whole
        /\ UNCHANGED <<state, rcall, skipping, whole, cleared, failing>>

RNext ==
  \/ \E n \in Lens : gzread(n) \/ gzgets(n)
  \/ gzgetc \/ gzungetc \/ Skip \/ Read \/ Gets \/ Unget
  \/ gzrewind \/ gzdirect \/ gzclearerr \/ gzclose_r \/ Grow
  \/ \E offset \in Offsets : gzseek_set(offset) \/ gzseek_cur(offset) \/ gzseek_cur(-offset)
  \/ \E want \in Wants : gzbuffer(want)

---------------------------------------------------------------------------
(* Properties *)

\* What a caller of gzread(), gzgets() or gzgetc() has got, but for characters pushed back
\* before, is what the file holds up to pos.
GotUpTo(pos) ==
  ~cleared /\ state.err = "OK" =>
    \E k \in 0..Len(rcall.buf) :
      LET data == Drop(rcall.buf, k)
      IN /\ \A i \in 1..k : rcall.buf[i] = PUSHED
         /\ data = <<>> \/ (/\ pos >= Len(data) /\ pos <= Len(Content(file))
                            /\ data = SubSeq(Content(file), pos - Len(data) + 1, pos))

\* What a caller has got is what the file holds up to the position that gztell() then
\* tells (gzread.c:362-440), while no seek is pending.
GotContent == state.seek = 0 => GotUpTo(state.pos)

\* zlib.h:1338 and :1364: gzseek() sets the starting position of the next read, and
\* gztell() tells it.  The code does not keep that: gzgetc() takes the byte at the old
\* position from the output buffer and leaves the seek pending (gzread.c:469-474).
GetcAtTold == GotUpTo(state.pos + state.seek)

\* zlib.h:1250: the entire file is read if gzread() is called until it returns less than
\* asked for: a short read leaves nothing of what the file held when its end was met.
ShortReadAtEnd ==
  rcall.op = "read" /\ rcall.over /\ rcall.left > 0 /\ state.err = "OK" /\ ~cleared =>
    state.pos >= Len(Content(Take(file, state.fpos)))
=============================================================================
