---------------------------- MODULE HuffmanTree ----------------------------
(***************************************************************************)
(* How deflate makes a Huffman code (win32port/zlib/trees.c): a tree from   *)
(* the frequencies of the symbols, bit lengths from the tree, cut to a      *)
(* greatest length, codes from the lengths; and how the lengths are sent.   *)
(***************************************************************************)
EXTENDS Integers, SequencesExt

CONSTANTS Elems,               \* symbols of the tree: 0..Elems-1
          MaxLength            \* greatest bit length: 15, or 7 for the bit length tree

ASSUME HuffmanAssumption == Elems \in Nat /\ Elems >= 3 /\ 2 ^ MaxLength >= Elems

VARIABLES tree,                \* Freq, Dad, Len and depth of the nodes, and max_code
          heap,                \* heap[1..heap_len]
          sorted,              \* heap[heap_max..]: the nodes taken out, the last one first
          opt_len,             \* bits the symbols take
          code,                \* the codes, for the symbols that have one
          scan                 \* send_tree(): the lengths, how far it is and what it sent

tvars == <<tree, heap, sorted, opt_len, code, scan>>

Symbols == 0..(Elems - 1)
Nodes   == 0..(2 * Elems - 1)
Put(f, x, v) == [f EXCEPT ![x] = v]

---------------------------------------------------------------------------
(* build_tree() *)

\* smaller(): the depth breaks a tie.
Smaller(t, n, m) == \/ t.Freq[n] < t.Freq[m]
                    \/ t.Freq[n] = t.Freq[m] /\ t.depth[n] <= t.depth[m]

RECURSIVE pqdownheap_LeftOnly(_, _, _)
pqdownheap_LeftOnly(t, h, k) ==
  IF 2 * k > Len(h) \/ Smaller(t, h[k], h[2 * k]) THEN h
  ELSE pqdownheap_LeftOnly(t, [h EXCEPT ![k] = h[2 * k], ![2 * k] = h[k]], 2 * k)

\* pqdownheap(): the element at k is moved down to where it belongs.
RECURSIVE pqdownheap(_, _, _)
pqdownheap(t, h, k) ==
  IF 2 * k > Len(h) THEN h
  ELSE LET j == IF 2 * k < Len(h) /\ Smaller(t, h[2 * k + 1], h[2 * k]) THEN 2 * k + 1 ELSE 2 * k
       IN IF Smaller(t, h[k], h[j]) THEN h
          ELSE pqdownheap(t, [h EXCEPT ![k] = h[j], ![j] = h[k]], j)

RECURSIVE Heapified(_, _, _)
Heapified(t, h, k) == IF k = 0 THEN h ELSE Heapified(t, pqdownheap(t, h, k), k - 1)

\* At least two codes: symbols that do not occur are made to, without cost.
RECURSIVE Forced(_, _, _)
Forced(t, h, bits) ==
  IF Len(h) >= 2 THEN [t |-> t, h |-> h, bits |-> bits]
  ELSE LET node == IF t.max_code < 2 THEN t.max_code + 1 ELSE 0
       IN Forced([t EXCEPT !.Freq[node] = 1, !.max_code = IF @ < 2 THEN @ + 1 ELSE @],
                 Append(h, node), bits - 1)

\* build_tree() up to the heap, for the frequencies given.
Planted(freq) ==
  LET used == SelectSeq([i \in 1..Elems |-> i - 1], LAMBDA n : freq[n] # 0)
      t == [Freq |-> [n \in Nodes |-> IF n \in Symbols THEN freq[n] ELSE 0],
            Dad |-> [n \in Nodes |-> 0], Len |-> [n \in Nodes |-> 0],
            depth |-> [n \in Nodes |-> 0], node |-> Elems,
            max_code |-> IF used = <<>> THEN -1 ELSE Last(used)]
      f == Forced(t, used, 0)
  IN [f EXCEPT !.h = Heapified(f.t, f.h, Len(f.h) \div 2)]

\* A turn of the loop: the two least frequent nodes get a father.
Merge ==
  /\ Len(heap) >= 2
  /\ LET n == heap[1]
         h == pqdownheap(tree, Put(Front(heap), 1, Last(heap)), 1)
         m == h[1]
         t == [tree EXCEPT !.Freq[tree.node] = tree.Freq[n] + tree.Freq[m],
                           !.depth[tree.node] = 1 + (IF tree.depth[n] >= tree.depth[m]
                                                     THEN tree.depth[n] ELSE tree.depth[m]),
                           !.Dad = Put(Put(@, n, tree.node), m, tree.node),
                           !.node = @ + 1]
         down == pqdownheap(t, Put(h, 1, tree.node), 1)
     IN /\ tree' = t
        /\ heap' = down
        /\ sorted' = (IF Len(down) = 1 THEN <<down[1]>> ELSE <<>>) \o <<m, n>> \o sorted
  /\ UNCHANGED <<opt_len, code, scan>>

---------------------------------------------------------------------------
(* gen_bitlen() and gen_codes() *)

\* The first pass: a node is one deeper than its father; those too deep are counted.
Deepened(p, n) ==
  LET bits == p.Len[tree.Dad[n]] + 1
      cut  == IF bits > MaxLength THEN MaxLength ELSE bits
  IN [Len |-> Put(p.Len, n, cut), overflow |-> p.overflow + (IF bits > MaxLength THEN 1 ELSE 0),
      bl_count |-> IF n > tree.max_code THEN p.bl_count ELSE Put(p.bl_count, cut, p.bl_count[cut] + 1)]

FirstPass == FoldLeft(Deepened, [Len |-> tree.Len, overflow |-> 0,
                                 bl_count |-> [b \in 0..MaxLength |-> 0]], Tail(sorted))

\* A leaf of length bits goes down and takes one that was too deep for its brother.
MovedDown(cnt, bits) ==
  LET down == Put(Put(cnt, bits, cnt[bits] - 1), bits + 1, cnt[bits + 1] + 2)
  IN Put(down, MaxLength, down[MaxLength] - 1)

RECURSIVE Relieved(_, _)
Relieved(cnt, overflow) ==
  IF overflow <= 0 THEN cnt
  ELSE LET bits == CHOOSE b \in 1..(MaxLength - 1) :
                     cnt[b] # 0 /\ \A c \in (b + 1)..(MaxLength - 1) : cnt[c] = 0
       IN Relieved(MovedDown(cnt, bits), overflow - 2)

\* Lengths are given out again, the greatest to the least frequent leaves.
Redealt(cnt) ==
  LET leaves == SelectSeq(Reverse(sorted), LAMBDA n : n <= tree.max_code)
      below[b \in 0..MaxLength] == IF b = 0 THEN 0 ELSE below[b - 1] + cnt[b]
      rank(n) == CHOOSE i \in 1..Len(leaves) : leaves[i] = n
  IN [n \in Nodes |-> IF n \in ToSet(leaves)
                      THEN CHOOSE b \in 1..MaxLength : /\ Len(leaves) - rank(n) < below[b]
                                                       /\ Len(leaves) - rank(n) >= below[b - 1]
                      ELSE 0]

\* bi_reverse()
RECURSIVE bi_reverse(_, _)
bi_reverse(v, n) == IF n = 0 THEN 0 ELSE (v % 2) * 2 ^ (n - 1) + bi_reverse(v \div 2, n - 1)

\* gen_codes(): the codes of one length count up from the first, which follows on the
\* shorter ones; the bits go out in reverse.
gen_codes(lens, n) ==
  LET cnt(b) == IF b = 0 THEN 0 ELSE Cardinality({k \in DOMAIN lens : lens[k] = b})
      next[b \in 0..MaxLength] == IF b = 0 THEN 0 ELSE (next[b - 1] + cnt(b - 1)) * 2
      before == Cardinality({k \in DOMAIN lens : k < n /\ lens[k] = lens[n]})
  IN bi_reverse(next[lens[n]] + before, lens[n])

Cost(freq, len) == FoldLeft(LAMBDA sum, n : sum + freq[n] * len[n], 0, [i \in 1..Elems |-> i - 1])

\* The lengths and the codes.
Generate ==
  /\ Len(heap) = 1 /\ code = <<>>
  /\ LET p == FirstPass
         lens == IF p.overflow = 0 THEN [n \in Nodes |-> IF n <= tree.max_code THEN p.Len[n] ELSE 0]
                 ELSE Redealt(Relieved(p.bl_count, p.overflow))
         coded == [n \in Symbols |-> lens[n]]
     IN /\ tree' = [tree EXCEPT !.Len = lens]
        /\ opt_len' = opt_len + Cost(tree.Freq, lens)
        /\ code' = [n \in {m \in Symbols : coded[m] > 0} |-> gen_codes(coded, n)]
  /\ UNCHANGED <<heap, sorted, scan>>

---------------------------------------------------------------------------
(* scan_tree() and send_tree(): the one counts what the other sends *)

REP_3_6 == 16
REPZ_3_10 == 17
REPZ_11_138 == 18
Guard == 65535

\* How long a run of what comes next may get, and how long it must be to be sent as one.
Limits_Seven(cur, nxt) == IF nxt = 0 THEN <<138, 3>> ELSE IF cur = nxt THEN <<7, 3>> ELSE <<7, 4>>

Limits(cur, nxt) == IF nxt = 0 THEN <<138, 3>> ELSE IF cur = nxt THEN <<6, 3>> ELSE <<7, 4>>

Scanning(lens) == [lens |-> lens, n |-> 1, prevlen |-> -1, count |-> 0,
                   limits |-> Limits(-1, lens[1]), sent |-> <<>>]

\* What is sent for a run of count lengths cur: codes of the bit length tree, those that
\* repeat with the count as extra bits.
Run(cur, prev, count, min) ==
  CASE count < min -> [i \in 1..count |-> [sym |-> cur, bits |-> 0]]
    [] count >= min /\ cur # 0 /\ cur # prev -> <<[sym |-> cur, bits |-> 0],
                                                  [sym |-> REP_3_6, bits |-> count - 4]>>
    [] count >= min /\ cur # 0 /\ cur = prev -> <<[sym |-> REP_3_6, bits |-> count - 3]>>
    [] count >= min /\ cur = 0 /\ count <= 10 -> <<[sym |-> REPZ_3_10, bits |-> count - 3]>>
    [] OTHER -> <<[sym |-> REPZ_11_138, bits |-> count - 11]>>

\* A turn of the loop.
Scanned(s, cur) ==
  LET nxt == IF s.n = Len(s.lens) THEN Guard ELSE s.lens[s.n + 1]
      count == s.count + 1
  IN IF count < s.limits[1] /\ cur = nxt THEN [s EXCEPT !.n = @ + 1, !.count = count]
     ELSE [s EXCEPT !.n = @ + 1, !.count = 0, !.prevlen = cur, !.limits = Limits(cur, nxt),
                    !.sent = @ \o Run(cur, s.prevlen, count, s.limits[2])]

\* send_tree(), a turn at a time.
Send ==
  /\ scan.n <= Len(scan.lens)
  /\ scan' = Scanned(scan, scan.lens[scan.n])
  /\ UNCHANGED <<tree, heap, sorted, opt_len, code>>

---------------------------------------------------------------------------
(* tr_static_init(): match lengths and distances have a code and extra bits *)

extra_lbits(c) == IF c < 8 \/ c = 28 THEN 0 ELSE (c \div 4) - 1
extra_dbits(c) == IF c < 4 THEN 0 ELSE (c \div 2) - 1

base_length == [c \in 0..28 |-> IF c = 28 THEN 0
                                 ELSE FoldLeft(LAMBDA sum, k : sum + 2 ^ extra_lbits(k - 1), 0, [k \in 1..c |-> k])]
base_dist == [c \in 0..29 |-> FoldLeft(LAMBDA sum, k : sum + 2 ^ extra_dbits(k - 1), 0, [k \in 1..c |-> k])]

\* _length_code and d_code(), for a match length less MIN_MATCH and a distance less one.
\* The greatest length, 258, has a code of its own.
length_code(lc) == IF lc = 255 THEN 28
                   ELSE CHOOSE c \in 0..27 : base_length[c] <= lc /\ lc < base_length[c] + 2 ^ extra_lbits(c)
d_code(dist) == CHOOSE c \in 0..29 : base_dist[c] <= dist /\ dist < base_dist[c] + 2 ^ extra_dbits(c)

\* compress_block(): a match as two codes and the extra bits sent for them.
Match(len, dist) ==
  LET lc == len - 3
      l == length_code(lc)
      d == d_code(dist - 1)
      lbits == IF extra_lbits(l) = 0 THEN 0 ELSE lc - base_length[l]
      dbits == IF extra_dbits(d) = 0 THEN 0 ELSE dist - 1 - base_dist[d]
  IN [lsym |-> l + 257, dsym |-> d, extra |-> lbits + dbits * 2 ^ extra_lbits(l)]
=============================================================================
