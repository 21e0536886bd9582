------------------------------- MODULE Huffman -------------------------------
(***************************************************************************)
(* The Huffman codes of deflate and inflate together: the code deflate      *)
(* makes of some frequencies goes as lengths to inflate, which makes its    *)
(* table of them.  inflate is also given lengths nobody has made, as any    *)
(* sender may, and deflate long runs of lengths to send.                    *)
(***************************************************************************)
EXTENDS HuffmanTree, InflateTable

CONSTANTS Freqs,               \* frequencies of the symbols
          RunLengths,          \* lengths of runs of equal bit lengths
          Dists                \* match distances

VARIABLES job,                 \* what is made: "code", "table", "runs" or "match"
          freq,                \* the frequencies
          match                \* a match, and what is left of it at the other end

vars == <<tree, heap, sorted, opt_len, code, scan, recv, lens, build, job, freq, match>>

NoScan == [lens |-> <<>>, n |-> 1, prevlen |-> -1, count |-> 0, limits |-> <<0, 0>>, sent |-> <<>>]
NoRecv == [mode |-> "none", in |-> <<>>, total |-> 0, lens |-> <<>>]
NoTree == Planted([n \in Symbols |-> 0])
Runs   == {[i \in 1..n |-> b] : n \in RunLengths, b \in 0..1}

Init ==
  /\ code = <<>> /\ recv = NoRecv /\ build = NoBuild /\ sorted = <<>>
  /\ \/ /\ job = "code" /\ freq \in [Symbols -> Freqs]
        /\ tree = Planted(freq).t /\ heap = Planted(freq).h /\ opt_len = Planted(freq).bits
        /\ scan = NoScan /\ lens = <<>> /\ match = <<>>
     \/ /\ job = "table" /\ lens \in [1..Elems -> 0..MaxBits]
        /\ freq = <<>> /\ tree = NoTree.t /\ heap = <<>> /\ opt_len = 0
        /\ scan = NoScan /\ match = <<>>
     \/ /\ job = "runs" /\ scan \in {Scanning(a \o b \o <<1>>) : a, b \in Runs}
        /\ freq = <<>> /\ tree = NoTree.t /\ heap = <<>> /\ opt_len = 0
        /\ lens = <<>> /\ match = <<>>
     \/ /\ job = "match" /\ match \in {[len |-> n, dist |-> d, got |-> <<>>] : n \in {3, 4, 257, 258}, d \in Dists}
                                      \cup {[len |-> n, dist |-> 1, got |-> <<>>] : n \in 3..258}
        /\ freq = <<>> /\ tree = NoTree.t /\ heap = <<>> /\ opt_len = 0
        /\ scan = NoScan /\ lens = <<>>

Others == UNCHANGED <<job, freq, match>>

\* The lengths are sent: those of the symbols up to the last that has a code.
SendLengths ==
  /\ job = "code" /\ code # <<>> /\ scan = NoScan
  /\ scan' = Scanning([i \in 1..(tree.max_code + 1) |-> tree.Len[i - 1]])
  /\ UNCHANGED <<tree, heap, sorted, opt_len, code, recv, lens, build>> /\ Others

\* What was sent arrives.
Arrive ==
  /\ scan.lens # <<>> /\ scan.n > Len(scan.lens) /\ recv = NoRecv
  /\ recv' = [mode |-> "CODELENS", in |-> scan.sent, total |-> Len(scan.lens), lens |-> <<>>]
  /\ UNCHANGED <<tree, heap, sorted, opt_len, code, scan, lens, build>> /\ Others

\* All lengths are there: a table is made of them.
Complete ==
  /\ job = "code" /\ recv.mode = "CODELENS" /\ Len(recv.lens) = recv.total /\ lens = <<>>
  /\ lens' = recv.lens
  /\ UNCHANGED <<tree, heap, sorted, opt_len, code, scan, recv, build>> /\ Others

\* A match goes out as codes and extra bits and comes back.
SendMatch ==
  /\ job = "match" /\ match.got = <<>>
  /\ match' = [match EXCEPT !.got = <<Matched(Match(match.len, match.dist))>>]
  /\ UNCHANGED <<tree, heap, sorted, opt_len, code, scan, recv, lens, build, job, freq>>

Next ==
  \/ (job = "code" /\ (Merge \/ Generate)) /\ UNCHANGED ivars /\ Others
  \/ Send /\ UNCHANGED ivars /\ Others
  \/ Receive /\ UNCHANGED tvars /\ Others
  \/ (\E type \in {"CODES", "LENS"}, bits \in Roots : Start(type, bits)) /\ UNCHANGED tvars /\ Others
  \/ (Fill \/ Rest) /\ UNCHANGED tvars /\ Others
  \/ SendLengths \/ Arrive \/ Complete \/ SendMatch

Spec == Init /\ [][Next]_vars

---------------------------------------------------------------------------
(* Properties *)

Coded == job = "code" /\ code # <<>>
Sum(f, S) == FoldLeft(LAMBDA sum, n : sum + f[n], 0, SetToSeq(S))

\* build_tree(): every symbol that occurs has a code of at most MaxLength bits, a more
\* frequent one no longer than a rarer one, and the codes use up all bit patterns, also
\* after lengths had to be cut (trees.c:513-561).
CodeIsComplete ==
  LET coded == DOMAIN code IN
    /\ {n \in Symbols : freq[n] > 0} \subseteq coded
    /\ Sum([n \in coded |-> 2 ^ (MaxLength - tree.Len[n])], coded) = 2 ^ MaxLength
    /\ \A m, n \in coded : tree.Freq[m] > tree.Freq[n] => tree.Len[m] <= tree.Len[n]

\* The code is complete, and as short as any: no other lengths a prefix code may have cost
\* less, as long as none had to be cut; opt_len is what it costs, forced codes left out
\* (trees.c:494-571).
CodeIsOptimal ==
  Coded /\ scan = NoScan =>
    LET used == {n \in Symbols : freq[n] > 0}
        cost(l) == Sum([n \in used |-> freq[n] * l[n]], used)
    IN /\ CodeIsComplete
       /\ Cardinality(used) >= 2 => opt_len = cost(tree.Len)
       /\ FirstPass.overflow = 0 /\ Cardinality(used) >= 2 =>
            \A l \in [used -> 1..MaxLength] :
              Sum([n \in used |-> 2 ^ (MaxLength - l[n])], used) <= 2 ^ MaxLength => opt_len <= cost(l)

\* What send_tree() sends, inflate receives, and makes a table of: deflate's own codes are
\* never refused (trees.c:756-799, inflate.c:920-1003, inftrees.c:133-142).
LengthsArrive ==
  /\ recv.mode # "BAD"
  /\ recv.mode = "CODELENS" /\ recv.in = <<>> => recv.lens = scan.lens
  /\ job = "code" => build.pc \notin {"refused", "full"}

\* The table gives every bit pattern the symbol whose code, as deflate makes codes of
\* lengths, it begins with, and that code's length; patterns with none are invalid.  All
\* entries of the space used are set, and none outside it.
TableDecodes ==
  build.pc = "done" =>
    LET len == [n \in 0..(Len(lens) - 1) |-> lens[n + 1]]
        own == [n \in {m \in DOMAIN len : len[m] > 0} |-> gen_codes(len, n)]
    IN /\ DOMAIN build.table = 0..(build.used - 1)
       /\ \A v \in 0..(2 ^ MaxBits - 1) :
            LET begins == {n \in DOMAIN own : v % 2 ^ len[n] = own[n]}
                here == Lookup(v)
            IN IF begins = {} THEN here.op = "invalid"
               ELSE begins = {here.val} /\ here.bits = len[here.val]

\* A match comes back as it was: the two sides' tables of codes and extra bits agree
\* (trees.c:228-312, inftrees.c:58-73).
MatchArrives == job = "match" /\ match.got # <<>> =>
                  match.got = <<[len |-> match.len, dist |-> match.dist]>>

\* What deflate sends of its codes and in them arrives at inflate as it was.
SymbolsArrive == LengthsArrive /\ MatchArrives
=============================================================================
