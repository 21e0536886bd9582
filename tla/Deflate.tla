------------------------------ MODULE Deflate ------------------------------
(***************************************************************************)
(* zlib's compressor (win32port/zlib: deflate.c and the output half of      *)
(* trees.c): deflate() with its status, the window that slides over the     *)
(* input, the hash chains, the five compression functions, blocks, flushes  *)
(* and deflateParams().                                                     *)
(*                                                                         *)
(* What is written is a sequence of items, one for what some bits or bytes  *)
(* say; an item takes one place of the output.  The record d holds          *)
(* deflate_state and z_stream.  Sizes are scaled down, MIN_MATCH is not.    *)
(***************************************************************************)
EXTENDS ZBase

CONSTANTS Byte,                \* values of a byte
          LitBuf,              \* lit_bufsize
          MaxStored,           \* pending_buf_size - 5
          TOO_FAR              \* 4096

VARIABLE d

MIN_MATCH == 3
MIN_LOOKAHEAD == MAX_MATCH + MIN_MATCH + 1
MAX_DIST == WSize - MIN_LOOKAHEAD
window_size == 2 * WSize
NIL == 0
Unset == -1                    \* memory never written

\* configuration_table: the functions, and the limits that count at this scale.
Config(level) ==
  CASE level = 0 -> [func |-> "stored", good |-> 0, lazy |-> 0, nice |-> 0, chain |-> 0]
    [] level = 1 -> [func |-> "fast", good |-> 3, lazy |-> MIN_MATCH, nice |-> MAX_MATCH, chain |-> 4]
    [] OTHER     -> [func |-> "slow", good |-> MAX_MATCH, lazy |-> MAX_MATCH, nice |-> MAX_MATCH, chain |-> 8]

\* deflateInit2_(), deflateReset(), _tr_init() and lm_init().
DeflateInit(input, level, strategy) ==
  [status |-> "INIT", wrap |-> 1, last_flush |-> Z_NO_FLUSH, pending |-> <<>>, bi |-> <<>>,
   eob |-> "long", syms |-> <<>>, level |-> level, strategy |-> strategy,
   window |-> [k \in 0..(window_size - 1) |-> Unset], high_water |-> 0,
   head |-> [k \in Byte \X Byte |-> NIL], prev |-> [k \in 0..(WSize - 1) |-> NIL], ins_h |-> <<0, 0>>,
   strstart |-> 0, lookahead |-> 0, block_start |-> 0, hash_head |-> NIL, match_start |-> 0,
   match_length |-> MIN_MATCH - 1, prev_length |-> MIN_MATCH - 1, prev_match |-> 0,
   match_available |-> FALSE,
   next_in |-> input, avail_in |-> 0, avail_out |-> 0, total_in |-> 0, adler |-> Adler0, out |-> <<>>,
   pc |-> "idle", flush |-> Z_NO_FLUSH, bstate |-> "", ret |-> "Z_OK", params |-> <<>>]

---------------------------------------------------------------------------
(* Output *)

\* send_bits(): the bits of the last item may not all have left bi_buf; the worst is assumed.
Send(s, x) == [s EXCEPT !.pending = @ \o s.bi, !.bi = <<x>>]

bi_windup(s) == [s EXCEPT !.pending = @ \o s.bi, !.bi = <<>>]

flush_pending(s) ==
  LET len == Least(Len(s.pending), s.avail_out)
  IN [s EXCEPT !.out = @ \o SubSeq(s.pending, 1, len),
               !.pending = SubSeq(@, len + 1, Len(@)), !.avail_out = @ - len]

\* _tr_stored_block() and copy_block()
tr_stored_block(s, bytes, last, full) ==
  LET w == bi_windup(Send(s, BlockItem("stored", last)))
  IN [w EXCEPT !.pending = @ \o <<LenItem(Len(bytes), full)>> \o Raw(bytes), !.eob = "long"]

\* _tr_align(): an empty static block, or two when the end of the block before was so short
\* that inflate could not look ahead far enough.
tr_align(s, twice) ==
  LET one == Send(Send(s, BlockItem("static", FALSE)), EobItem)
      two == Send(Send(one, BlockItem("static", FALSE)), EobItem)
  IN [(IF twice /\ s.eob = "short" THEN two ELSE one) EXCEPT !.eob = "long"]

\* compress_block()
compress_block(s, type) ==
  [Send(FoldLeft(Send, s, s.syms), EobItem) EXCEPT !.eob = IF type = "static" THEN "long" ELSE "short"]

\* _tr_flush_block(): which of the three kinds is shortest depends on the data and is left
\* open.  A block whose start has left the window cannot be stored.
Kind(s, kind) ==
  CASE s.level = 0 -> IF s.block_start >= 0 THEN "stored" ELSE "static"
    [] s.level > 0 /\ kind = "stored" /\ s.block_start < 0 -> "dynamic"
    [] OTHER -> kind

Block(s) == [k \in 1..(s.strstart - s.block_start) |-> s.window[s.block_start + k - 1]]
Blocked(s, last, type) ==
  IF type = "stored" THEN tr_stored_block(s, Block(s), last, FALSE)
  ELSE compress_block(Send(s, BlockItem(type, last)), type)
init_block(s, last) == [s EXCEPT !.syms = <<>>, !.pending = IF last THEN @ \o s.bi ELSE @,
                                 !.bi = IF last THEN <<>> ELSE @]
tr_flush_block(s, last, kind) == init_block(Blocked(s, last, Kind(s, kind)), last)

\* FLUSH_BLOCK_ONLY and FLUSH_BLOCK
FLUSH_BLOCK_ONLY(s, last, kind) ==
  flush_pending([tr_flush_block(s, last, kind) EXCEPT !.block_start = s.strstart])

ExitIfNoRoom(s, bstate) == IF s.avail_out # 0 THEN s ELSE [s EXCEPT !.bstate = bstate]
FLUSH_BLOCK(s, last, kind) ==
  ExitIfNoRoom(FLUSH_BLOCK_ONLY(s, last, kind), IF last THEN "finish_started" ELSE "need_more")

\* The end of a compression function: what is left goes into a block.
Done(s) == IF s.bstate # "" THEN s
           ELSE [s EXCEPT !.bstate = IF s.flush = Z_FINISH THEN "finish_done" ELSE "block_done"]
LastBlock(s, kind) == Done(FLUSH_BLOCK(s, s.flush = Z_FINISH, kind))

\* _tr_tally(): the buffer of symbols is full with one place left.
Tally(s, x) == [s EXCEPT !.syms = Append(@, x)]
Full(s) == Len(s.syms) = LitBuf - 1

---------------------------------------------------------------------------
(* The window *)

Slide_KeepsHead(s) ==
  LET down(p) == IF p >= WSize THEN p - WSize ELSE NIL
  IN [s EXCEPT !.window = [k \in DOMAIN @ |-> IF k < WSize THEN @[k + WSize] ELSE @[k]],
               !.match_start = @ - WSize, !.strstart = @ - WSize, !.block_start = @ - WSize,
               !.prev = [k \in DOMAIN @ |-> down(@[k])]]

\* fill_window(): the upper half moves down; what the chains say moves with it.
Slide(s) ==
  LET down(p) == IF p >= WSize THEN p - WSize ELSE NIL
  IN [s EXCEPT !.window = [k \in DOMAIN @ |-> IF k < WSize THEN @[k + WSize] ELSE @[k]],
               !.match_start = @ - WSize, !.strstart = @ - WSize, !.block_start = @ - WSize,
               !.head = [k \in DOMAIN @ |-> down(@[k])],
               !.prev = [k \in DOMAIN @ |-> down(@[k])]]

\* read_buf(), called with the place behind the data and the room there.
read_buf(s, at, len) ==
  [s EXCEPT !.window = [k \in DOMAIN @ |-> IF k \in at..(at + len - 1) THEN s.next_in[k - at + 1] ELSE @[k]],
            !.adler = Adler(@, SubSeq(s.next_in, 1, len)), !.next_in = SubSeq(@, len + 1, Len(@)),
            !.avail_in = @ - len, !.total_in = @ + len, !.lookahead = @ + len]
Read(s) == read_buf(s, s.strstart + s.lookahead,
                    Least(s.avail_in, window_size - s.lookahead - s.strstart))

\* The hash starts anew at strstart.
Rehashed(s) == IF s.lookahead < MIN_MATCH THEN s
               ELSE [s EXCEPT !.ins_h = <<s.window[s.strstart], s.window[s.strstart + 1]>>]

Zeroed_ToData(s) == s

\* The bytes a comparison may reach behind the data are set to zero, once.
Zeroed(s) ==
  LET curr == s.strstart + s.lookahead
      top == Least(curr + MAX_MATCH, window_size)
  IN [s EXCEPT !.window = [k \in DOMAIN @ |-> IF k \in Most(s.high_water, curr)..(top - 1) THEN 0 ELSE @[k]],
               !.high_water = Most(@, top)]

Slid(s) == IF s.strstart >= WSize + MAX_DIST THEN Slide(s) ELSE s

RECURSIVE fill_window(_)
Again(s) == IF s.lookahead < MIN_LOOKAHEAD /\ s.avail_in # 0 THEN fill_window(s) ELSE Zeroed(s)
fill_window(s) == IF s.avail_in = 0 THEN Slid(s) ELSE Again(Rehashed(Read(Slid(s))))

\* INSERT_STRING: of the three bytes the first has been shifted out of the hash.
Linked(s, str, h) ==
  [s EXCEPT !.ins_h = h, !.prev[str % WSize] = s.head[h], !.hash_head = s.head[h], !.head[h] = str]
Insert(s, str) == Linked(s, str, <<s.ins_h[2], s.window[str + MIN_MATCH - 1]>>)
InsertAll(s, from, to) == FoldLeft(Insert, s, [k \in 1..(to - from + 1) |-> from + k - 1])

\* longest_match(): bytes 0 and 1 are compared, and those around the best length so far; byte
\* 2 is not, as the hash is the same; then on to MAX_MATCH, over what is behind the data too.
Same(s, cur, k) == s.window[cur + k] = s.window[s.strstart + k]
MatchLen(s, cur) ==
  CHOOSE n \in MIN_MATCH..MAX_MATCH : /\ \A k \in MIN_MATCH..(n - 1) : Same(s, cur, k)
                                      /\ n = MAX_MATCH \/ ~Same(s, cur, n)

Limit(s) == IF s.strstart > MAX_DIST THEN s.strstart - MAX_DIST ELSE NIL

Compare(s, cur, best) ==
  IF Same(s, cur, best) /\ Same(s, cur, best - 1) /\ Same(s, cur, 0) /\ Same(s, cur, 1) THEN MatchLen(s, cur) ELSE 0
Better(s, cur, len, best) == IF len > best THEN [s EXCEPT !.match_start = cur, !.match_length = len] ELSE s

RECURSIVE Chain(_, _, _)
Onward(s, best, chain_length, nxt) ==
  IF \/ s.match_length > best /\ s.match_length >= Least(Config(s.level).nice, s.lookahead)
     \/ nxt <= Limit(s) \/ chain_length = 1
  THEN [s EXCEPT !.match_length = Least(@, s.lookahead)]
  ELSE Chain(s, nxt, chain_length - 1)
Chain(s, cur, chain_length) ==
  Onward(Better(s, cur, Compare(s, cur, s.match_length), s.match_length), s.match_length, chain_length,
        s.prev[cur % WSize])

\* The best so far, to begin with, is the match at the byte before.
longest_match(s, chain) ==
  Chain([s EXCEPT !.match_length = s.prev_length], s.hash_head,
        IF s.prev_length >= Config(s.level).good THEN chain \div 4 ELSE chain)

InReach(s) == s.hash_head # NIL /\ s.strstart - s.hash_head <= MAX_DIST

---------------------------------------------------------------------------
(* The compression functions: a turn of their loops *)

\* What they begin with: enough input, or back for more, or the last block.
More(s, least) == IF s.lookahead < least THEN fill_window(s) ELSE s
Starved_AnyFlush(s, least) == s.lookahead < least
Starved(s, least) == s.lookahead < least /\ s.flush = Z_NO_FLUSH
NeedMore(s) == [s EXCEPT !.bstate = "need_more"]
Inserted(s) == IF s.lookahead >= MIN_MATCH THEN Insert(s, s.strstart) ELSE [s EXCEPT !.hash_head = NIL]

\* A literal at strstart.
Literal(s) == [Tally(s, Lit(s.window[s.strstart])) EXCEPT !.lookahead = @ - 1, !.strstart = @ + 1]
IfFull(s, kind) == IF Full(s) THEN FLUSH_BLOCK(s, FALSE, kind) ELSE s

\* deflate_stored(): a block when pending_buf would be full, and one before the window may slide.
Cut(s, max_start) == IF s.strstart < max_start THEN s
                     ELSE [s EXCEPT !.lookahead = s.strstart - max_start, !.strstart = max_start]
Store(s, kind) == IF s.strstart < s.block_start + MaxStored THEN s
                  ELSE FLUSH_BLOCK(Cut(s, s.block_start + MaxStored), FALSE, kind)
BeforeSlide(s, kind) == IF s.bstate # "" \/ s.strstart - s.block_start < MAX_DIST THEN s
                        ELSE FLUSH_BLOCK(s, FALSE, kind)
StoredTurn(s, kind) ==
  IF s.lookahead = 0 THEN IF s.flush = Z_NO_FLUSH THEN NeedMore(s) ELSE LastBlock(s, kind)
  ELSE BeforeSlide(Store([s EXCEPT !.strstart = @ + s.lookahead, !.lookahead = 0], kind), kind)
deflate_stored(s, kind) == StoredTurn(More(s, 2), kind)

\* deflate_fast(): the strings of a short match are inserted, those of a long one are not.
Over(s, len) == [s EXCEPT !.strstart = @ + len, !.match_length = 0]
Skipped(s) == [s EXCEPT !.ins_h = <<s.window[s.strstart], s.window[s.strstart + 1]>>]
Passed(s, len) ==
  IF len <= Config(s.level).lazy /\ s.lookahead >= MIN_MATCH
  THEN Over(InsertAll(s, s.strstart + 1, s.strstart + len - 1), len)
  ELSE Skipped(Over(s, len))
Taken(s) == Passed([Tally(s, Match(s.match_length, s.strstart - s.match_start))
                      EXCEPT !.lookahead = @ - s.match_length], s.match_length)

Found(s) == IF InReach(s) THEN longest_match(s, Config(s.level).chain) ELSE s
FastEmit(s) == IF s.match_length >= MIN_MATCH THEN Taken(s) ELSE Literal(s)
FastTurn(s, kind) ==
  IF Starved(s, MIN_LOOKAHEAD) THEN NeedMore(s)
  ELSE IF s.lookahead = 0 THEN LastBlock(s, kind)
  ELSE IfFull(FastEmit(Found(Inserted(s))), kind)
deflate_fast(s, kind) == FastTurn(More(s, MIN_LOOKAHEAD), kind)

\* deflate_slow(): a match is held back for one byte; a longer one there turns it into a
\* literal.  A short match far away is not worth it.
Poor(s) == IF s.match_length = MIN_MATCH /\ s.strstart - s.match_start > TOO_FAR
           THEN [s EXCEPT !.match_length = MIN_MATCH - 1] ELSE s
Lazy(s) == IF InReach(s) /\ s.prev_length < Config(s.level).lazy
           THEN Poor(longest_match(s, Config(s.level).chain)) ELSE s
Kept(s) == [s EXCEPT !.prev_length = s.match_length, !.prev_match = s.match_start,
                     !.match_length = MIN_MATCH - 1]

Adopted(s) ==
  [InsertAll(Tally(s, Match(s.prev_length, s.strstart - 1 - s.prev_match)), s.strstart + 1,
             Least(s.strstart + s.prev_length - 2, s.strstart + s.lookahead - MIN_MATCH))
     EXCEPT !.lookahead = @ - (s.prev_length - 1), !.prev_length = 0, !.strstart = @ + s.prev_length - 1,
            !.match_available = FALSE, !.match_length = MIN_MATCH - 1]

Held(s) == Tally(s, Lit(s.window[s.strstart - 1]))
Forward(s) == [s EXCEPT !.strstart = @ + 1, !.lookahead = @ - 1]
IfFullOnly(s, kind) == IF Full(s) THEN FLUSH_BLOCK_ONLY(s, FALSE, kind) ELSE s

SlowEmit(s, kind) ==
  IF s.prev_length >= MIN_MATCH /\ s.match_length <= s.prev_length THEN IfFull(Adopted(s), kind)
  ELSE IF s.match_available THEN ExitIfNoRoom(Forward(IfFullOnly(Held(s), kind)), "need_more")
  ELSE [Forward(s) EXCEPT !.match_available = TRUE]

SlowTurn(s, kind) ==
  IF Starved(s, MIN_LOOKAHEAD) THEN NeedMore(s)
  ELSE IF s.lookahead = 0
       THEN LastBlock(IF s.match_available THEN [Held(s) EXCEPT !.match_available = FALSE] ELSE s, kind)
  ELSE SlowEmit(Lazy(Kept(Inserted(s))), kind)
deflate_slow(s, kind) == SlowTurn(More(s, MIN_LOOKAHEAD), kind)

\* deflate_rle(): runs of the byte before.
Repeats(s) ==
  LET same(n) == \A k \in 0..(n - 1) : s.window[s.strstart + k] = s.window[s.strstart - 1]
  IN IF s.lookahead < MIN_MATCH \/ s.strstart = 0 THEN 0
     ELSE Least(s.lookahead, CHOOSE n \in 0..MAX_MATCH : same(n) /\ (n = MAX_MATCH \/ ~same(n + 1)))

RleEmit(s, n) == IF n >= MIN_MATCH THEN [Over(Tally(s, Match(n, 1)), n) EXCEPT !.lookahead = @ - n]
                 ELSE Literal([s EXCEPT !.match_length = 0])
RleTurn(s, kind) ==
  IF Starved(s, MAX_MATCH) THEN NeedMore(s)
  ELSE IF s.lookahead = 0 THEN LastBlock(s, kind)
  ELSE IfFull(RleEmit(s, Repeats(s)), kind)
deflate_rle(s, kind) == RleTurn(More(s, MAX_MATCH), kind)

HuffTurn(s, kind) ==
  IF s.lookahead = 0 THEN IF s.flush = Z_NO_FLUSH THEN NeedMore(s) ELSE LastBlock(s, kind)
  ELSE IfFull(Literal([s EXCEPT !.match_length = 0]), kind)
deflate_huff(s, kind) == HuffTurn(More(s, 1), kind)

Compressed(s, kind) ==
  CASE s.strategy = "huffman" -> deflate_huff(s, kind)
    [] s.strategy = "rle"     -> deflate_rle(s, kind)
    [] OTHER -> CASE Config(s.level).func = "stored" -> deflate_stored(s, kind)
                  [] Config(s.level).func = "fast"   -> deflate_fast(s, kind)
                  [] OTHER                           -> deflate_slow(s, kind)

---------------------------------------------------------------------------
(* deflate() *)

\* The return: deflateParams() has the call made for it and goes on from there.
Return(s, ret) ==
  [s EXCEPT !.pc = "idle", !.bstate = "", !.ret = ret, !.params = <<>>,
            !.level = IF s.params = <<>> THEN @ ELSE s.params[1],
            !.strategy = IF s.params = <<>> THEN @ ELSE s.params[2]]

\* No room is left: the next call may find nothing to do, which is no error then.
NoRoom(s) == [s EXCEPT !.last_flush = -1]

\* The trailer, written once.
Trailed(s) == Return(s, IF s.pending # <<>> THEN "Z_OK" ELSE "Z_STREAM_END")
Trailer(s) ==
  IF s.flush # Z_FINISH THEN Return(s, "Z_OK")
  ELSE IF s.wrap <= 0 THEN Return(s, "Z_STREAM_END")
  ELSE Trailed(flush_pending([s EXCEPT !.pending = Append(@, SumItem("check", s.adler)), !.wrap = -1]))

Forget_Keeps(s) == s

\* A full flush forgets the history.
Forget(s) ==
  IF s.flush # Z_FULL_FLUSH THEN s
  ELSE [s EXCEPT !.head = [k \in DOMAIN @ |-> NIL], !.strstart = IF s.lookahead = 0 THEN 0 ELSE @,
                 !.block_start = IF s.lookahead = 0 THEN 0 ELSE @]

\* After a block that a flush has ended: something that lets inflate get at all of it.
FlushMark(s, twice) ==
  CASE s.flush = Z_PARTIAL_FLUSH -> tr_align(s, twice)
    [] s.flush = Z_BLOCK -> s
    [] OTHER -> Forget(tr_stored_block(s, <<>>, FALSE, s.flush = Z_FULL_FLUSH))

\* The compression function has come back.
Marked(s) == IF s.avail_out = 0 THEN Return(NoRoom(s), "Z_OK") ELSE Trailer(s)
Finished(s, twice) ==
  CASE s.bstate = "need_more" -> Return(IF s.avail_out = 0 THEN NoRoom(s) ELSE s, "Z_OK")
    [] s.bstate = "finish_started" -> Return([s EXCEPT !.status = "FINISH",
                                                !.last_flush = IF s.avail_out = 0 THEN -1 ELSE @], "Z_OK")
    [] s.bstate = "finish_done" -> Trailer([s EXCEPT !.status = "FINISH"])
    [] s.bstate = "block_done" -> Marked(flush_pending(FlushMark(s, twice)))

\* A call with room for some items, up to the compression function.
Header(s) ==
  IF s.status # "INIT" THEN s
  ELSE LET dict == s.strstart # 0
       IN [s EXCEPT !.status = "BUSY", !.adler = Adler0,
                    !.pending = <<HeadItem(dict)>>
                                  \o (IF dict THEN <<SumItem("dictid", s.adler)>> ELSE <<>>)]

\* What is pending goes out first; without any, and without input, a flush must be a new one.
Begin(s) ==
  IF s.status = "FINISH" /\ s.avail_in # 0 THEN Return(s, "Z_BUF_ERROR")
  ELSE IF s.avail_in # 0 \/ s.lookahead # 0 \/ (s.flush # Z_NO_FLUSH /\ s.status # "FINISH")
       THEN [s EXCEPT !.pc = "loop"]
  ELSE Trailer(s)
AfterPending(s) == IF s.avail_out = 0 THEN Return(NoRoom(s), "Z_OK") ELSE Begin(s)
Ready(s, old_flush) ==
  IF s.pending # <<>> THEN AfterPending(flush_pending(s))
  ELSE IF s.avail_in = 0 /\ s.flush <= old_flush /\ s.flush # Z_FINISH THEN Return(s, "Z_BUF_ERROR")
  ELSE Begin(s)
Entered(s) ==
  IF s.status = "FINISH" /\ s.flush # Z_FINISH THEN Return(s, "Z_STREAM_ERROR")
  ELSE IF s.avail_out = 0 THEN Return(s, "Z_BUF_ERROR")
  ELSE Ready(Header([s EXCEPT !.last_flush = s.flush]), s.last_flush)

\* deflate(): the caller gives n more bytes and room for m items.
deflate(flush, n, m) ==
  /\ d.pc = "idle" /\ d.avail_in + n <= Len(d.next_in)
  /\ d' = Entered([d EXCEPT !.avail_in = @ + n, !.avail_out = m, !.flush = flush])

\* A turn of the compression function, and its return.
Turn(kind) ==
  /\ d.pc = "loop" /\ d.bstate = ""
  /\ d' = Compressed(d, kind)

Back(twice) ==
  /\ d.pc = "loop" /\ d.bstate # ""
  /\ d' = Finished(d, twice)

\* deflateParams(): what is there is compressed the old way first.
deflateParams(level, strategy, n, m) ==
  /\ d.pc = "idle" /\ d.avail_in + n <= Len(d.next_in)
  /\ LET s == [d EXCEPT !.avail_in = @ + n, !.avail_out = m, !.params = <<level, strategy>>]
         other == strategy # d.strategy \/ Config(level).func # Config(d.level).func
     IN d' = IF other /\ d.total_in # 0 THEN Entered([s EXCEPT !.flush = Z_BLOCK])
             ELSE Return(s, "Z_OK")

\* deflateSetDictionary(): only the tail that fits the window counts, and nothing shorter
\* than a match.
Preset(s, tail) ==
  InsertAll([s EXCEPT !.window = [k \in DOMAIN @ |-> IF k < Len(tail) THEN tail[k + 1] ELSE @[k]],
                      !.strstart = Len(tail), !.block_start = Len(tail), !.ins_h = <<tail[1], tail[2]>>],
            0, Len(tail) - MIN_MATCH)
deflateSetDictionary(dict) ==
  /\ d.pc = "idle" /\ d.status = "INIT"
  /\ LET s == [d EXCEPT !.adler = Adler(@, dict)]
     IN d' = IF Len(dict) < MIN_MATCH THEN s
             ELSE Preset(s, SubSeq(dict, Most(Len(dict) - WSize, 0) + 1, Len(dict)))
=============================================================================
