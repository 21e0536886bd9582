------------------------------- MODULE ZBase -------------------------------
(***************************************************************************)
(* What zlib's compressor and decompressor share (win32port/zlib: zlib.h,   *)
(* adler32.c): flush values, the check sum, and the items that stand for    *)
(* compressed data.                                                         *)
(***************************************************************************)
EXTENDS Integers, SequencesExt

CONSTANTS MAX_MATCH,           \* longest match: 258
          WSize,               \* size of the window
          Base                 \* of adler32(): 65521

ASSUME ZAssumption == MAX_MATCH > 3 /\ WSize > MAX_MATCH + 4

\* Flush values, in zlib.h's order.
Z_NO_FLUSH == 0
Z_PARTIAL_FLUSH == 1
Z_SYNC_FLUSH == 2
Z_FULL_FLUSH == 3
Z_FINISH == 4
Z_BLOCK == 5

Least(a, b) == IF a < b THEN a ELSE b
Most(a, b) == IF a < b THEN b ELSE a

\* adler32(): two sums.
Adler(sum, bytes) == FoldLeft(LAMBDA s, c : <<(s[1] + c) % Base, (s[2] + s[1] + c) % Base>>, sum, bytes)
Adler0 == <<1, 0>>

\* Items.  That an empty stored block was meant for a full flush cannot be read from it:
\* full is for the properties.
HeadItem(dict) == [k |-> "head", dict |-> dict]
BlockItem(type, last) == [k |-> "block", type |-> type, last |-> last]
LenItem(n, full) == [k |-> "len", n |-> n, full |-> full]
Raw(bytes) == [k \in DOMAIN bytes |-> [k |-> "byte", c |-> bytes[k]]]
Lit(c) == [k |-> "lit", c |-> c]
Match(len, dist) == [k |-> "match", len |-> len, dist |-> dist]
EobItem == [k |-> "eob"]
SumItem(kind, sum) == [k |-> kind, sum |-> sum]
=============================================================================
