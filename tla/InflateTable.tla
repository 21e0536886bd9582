---------------------------- MODULE InflateTable ----------------------------
(***************************************************************************)
(* How inflate reads a Huffman code (win32port/zlib: inftrees.c and the     *)
(* CODELENS and LEN states of inflate.c): lengths are received, a table is  *)
(* made of them, with a root and sub-tables, and bits are looked up in it.  *)
(***************************************************************************)
EXTENDS Integers, SequencesExt, TLC

CONSTANTS MaxBits,             \* longest code, 15
          Roots,               \* index bits asked for the root table: 7, 9 or 6
          Enough               \* entries a table has room for: ENOUGH_LENS, ENOUGH_DISTS

VARIABLES recv,                \* CODELENS: what is left to receive, and the lengths so far
          lens,                \* the lengths of symbols 0, 1, ... for inflate_table()
          build                \* inflate_table(): its variables

ivars == <<recv, lens, build>>

---------------------------------------------------------------------------
(* Receiving the lengths *)

\* A code is read: a length, or a repetition of the one before or of zero.
Receive ==
  /\ recv.mode = "CODELENS" /\ recv.in # <<>>
  /\ LET here == Head(recv.in)
         copy == CASE here.sym < 16 -> 1
                   [] here.sym = 16 -> 3 + (here.bits % 4)
                   [] here.sym = 17 -> 3 + (here.bits % 8)
                   [] OTHER         -> 11 + (here.bits % 128)
         bad  == (here.sym = 16 /\ recv.lens = <<>>) \/ Len(recv.lens) + copy > recv.total
         len  == IF here.sym < 16 THEN here.sym
                 ELSE IF here.sym = 16 THEN Last(recv.lens) ELSE 0
     IN recv' = IF bad THEN [recv EXCEPT !.mode = "BAD"]
                ELSE [recv EXCEPT !.in = Tail(@), !.lens = @ \o [i \in 1..copy |-> len]]
  /\ UNCHANGED <<lens, build>>

---------------------------------------------------------------------------
(* inflate_table() *)

INVALID == [op |-> "invalid", bits |-> 1, val |-> 0, width |-> 0]
Sym(n, bits) == [op |-> "symbol", bits |-> bits, val |-> n, width |-> 0]
Sub(at, width, root) == [op |-> "table", bits |-> root, val |-> at, width |-> width]

NoBuild == [pc |-> "start", type |-> "CODES", root |-> 0, huff |-> 0, sym |-> 0, len |-> 0, curr |-> 0, drop |-> 0,
            low |-> -1, used |-> 0, next |-> 0, count |-> <<>>, table |-> <<>>]

Count(b) == Cardinality({i \in DOMAIN lens : lens[i] = b})
Used     == {b \in 1..MaxBits : Count(b) > 0}
Longest  == CHOOSE b \in Used : \A c \in Used : b >= c
Shortest == CHOOSE b \in Used : \A c \in Used : b <= c

\* Room left for codes after those of b bits; less than none is over-subscribed.
Left[b \in 0..MaxBits] == IF b = 0 THEN 1 ELSE Left[b - 1] * 2 - Count(b)

\* The lengths are over-subscribed, or leave codes over: that is let pass for a single code
\* of one bit, and not for the code of the code lengths.
Unfit(type) == \/ \E b \in 1..MaxBits : Left[b] < 0
               \/ Left[MaxBits] > 0 /\ (type = "CODES" \/ Longest # 1)

\* work[]: the symbols by length, those of one length in their order.
Work == FoldLeft(LAMBDA s, b : s \o SelectSeq([i \in 1..Len(lens) |-> i - 1],
                                              LAMBDA n : lens[n + 1] = b),
                 <<>>, [b \in 1..MaxBits |-> b])

\* The space of the table is used up: not asked for the code of the code lengths.
Short(type, used) == type # "CODES" /\ used >= Enough

\* inflate_table() up to its loop.
Start(type, bits) ==
  /\ build.pc = "start" /\ lens # <<>>
  /\ build' =
       IF Used = {} THEN [NoBuild EXCEPT !.pc = "done", !.root = 1, !.used = 2, !.table = (0 :> INVALID) @@ (1 :> INVALID)]
       ELSE IF Unfit(type) THEN [NoBuild EXCEPT !.pc = "refused"]
       ELSE LET top == IF bits > Longest THEN Longest ELSE bits
                root == IF top < Shortest THEN Shortest ELSE top
            IN [NoBuild EXCEPT !.pc = IF Short(type, 2 ^ root) THEN "full" ELSE "fill",
                               !.type = type, !.root = root, !.curr = root, !.len = Shortest, !.sym = 1,
                               !.used = 2 ^ root, !.count = [b \in 1..MaxBits |-> Count(b)]]
  /\ UNCHANGED <<recv, lens>>

\* The code after huff, of the same length, with its bits reversed.
RECURSIVE BackInc(_, _)
BackInc(huff, incr) == IF incr = 0 THEN 0
                       ELSE IF (huff \div incr) % 2 = 1 THEN BackInc(huff, incr \div 2)
                       ELSE (huff % incr) + incr

\* The index bits of a sub-table that starts with codes of curr bits: as many as its codes
\* need.
Width_Exact(curr, left, drop, count) == curr

RECURSIVE Width(_, _, _, _)
Width(curr, left, drop, count) ==
  IF curr + drop >= Longest \/ left - count[curr + drop] <= 0 THEN curr
  ELSE Width(curr + 1, (left - count[curr + drop]) * 2, drop, count)

\* A turn of the loop: the entries of one code; then a sub-table if the next code needs one.
Fill ==
  /\ build.pc = "fill"
  /\ LET b == build
         step == 2 ^ (b.len - b.drop)
         here == Sym(Work[b.sym], b.len - b.drop)
         at == {b.next + (b.huff \div 2 ^ b.drop) + k * step : k \in 0..((2 ^ b.curr) \div step - 1)}
         table == [i \in at |-> here] @@ b.table
         huff == BackInc(b.huff, 2 ^ (b.len - 1))
         count == [b.count EXCEPT ![b.len] = @ - 1]
         over == count[b.len] = 0 /\ b.len = Longest
         len == IF count[b.len] = 0 /\ ~over THEN lens[Work[b.sym + 1] + 1] ELSE b.len
         c == [b EXCEPT !.table = table, !.huff = huff, !.count = count, !.sym = @ + 1, !.len = len]
         low == huff % 2 ^ b.root
         curr == Width(len - b.root, 2 ^ (len - b.root), b.root, count)
         next == b.next + 2 ^ b.curr
     IN build' = IF over THEN [c EXCEPT !.pc = "rest"]
                 ELSE IF ~(len > b.root /\ low # b.low) THEN c
                 ELSE [c EXCEPT !.drop = b.root, !.next = next, !.curr = curr, !.low = low,
                                !.used = @ + 2 ^ curr,
                                !.pc = IF Short(b.type, b.used + 2 ^ curr) THEN "full" ELSE "fill",
                                !.table = (low :> Sub(next, curr, b.root)) @@ table]
  /\ UNCHANGED <<recv, lens>>

\* A turn of the second loop: what no code has taken is invalid.  Past the last sub-table it
\* drops back to the root table.
Rest ==
  /\ build.pc = "rest"
  /\ LET back == build.drop # 0 /\ build.huff % 2 ^ build.root # build.low
         b == IF back THEN [build EXCEPT !.drop = 0, !.len = build.root, !.next = 0] ELSE build
         at == b.next + (b.huff \div 2 ^ b.drop)
     IN build' = IF build.huff = 0 THEN [build EXCEPT !.pc = "done"]
                 ELSE [b EXCEPT !.table = (at :> [INVALID EXCEPT !.bits = b.len - b.drop]) @@ @,
                                !.huff = BackInc(@, 2 ^ (b.len - 1))]
  /\ UNCHANGED <<recv, lens>>

---------------------------------------------------------------------------
(* Looking up: the LEN state of inflate() *)

\* The entry for the bits v, and how many of them it uses.
Lookup(v) ==
  LET here == build.table[v % 2 ^ build.root]
      sub  == build.table[here.val + ((v \div 2 ^ here.bits) % 2 ^ here.width)]
  IN IF here.op # "table" THEN here ELSE [sub EXCEPT !.bits = here.bits + @]

\* Match lengths and distances: base values and extra bits (inftrees.c, lbase to dext).
lbase == <<3, 4, 5, 6, 7, 8, 9, 10, 11, 13, 15, 17, 19, 23, 27, 31,
           35, 43, 51, 59, 67, 83, 99, 115, 131, 163, 195, 227, 258>>
lext  == <<0, 0, 0, 0, 0, 0, 0, 0, 1, 1, 1, 1, 2, 2, 2, 2, 3, 3, 3, 3, 4, 4, 4, 4, 5, 5, 5, 5, 0>>
dbase == <<1, 2, 3, 4, 5, 7, 9, 13, 17, 25, 33, 49, 65, 97, 129, 193, 257, 385, 513, 769,
           1025, 1537, 2049, 3073, 4097, 6145, 8193, 12289, 16385, 24577>>
dext  == <<0, 0, 0, 0, 1, 1, 2, 2, 3, 3, 4, 4, 5, 5, 6, 6, 7, 7, 8, 8, 9, 9, 10, 10,
           11, 11, 12, 12, 13, 13>>

\* LENEXT and DISTEXT: the match that two codes and the extra bits behind them stand for.
Matched(m) == [len  |-> lbase[m.lsym - 256] + (m.extra % 2 ^ lext[m.lsym - 256]),
               dist |-> dbase[m.dsym + 1] +
                          ((m.extra \div 2 ^ lext[m.lsym - 256]) % 2 ^ dext[m.dsym + 1])]
=============================================================================
