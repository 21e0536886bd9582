--------------------------------- MODULE Gz ---------------------------------
(***************************************************************************)
(* What the gzip file functions of zlib read and write (win32port/zlib:     *)
(* gzlib.c, gzread.c, gzwrite.c): the file, and what it holds.              *)
(*                                                                         *)
(* A gzip member is the magic bytes 31 and 139, the method (the rest of the *)
(* header goes with it), its compressed data, the end of the deflate stream *)
(* and the trailer with the check values.  A compressed byte stands for the *)
(* byte it decompresses to: how deflate codes data is not the business of   *)
(* these functions, only when inflate() and deflate() hand bytes over.      *)
(***************************************************************************)
EXTENDS Integers, Sequences, FiniteSets

CONSTANT MaxFile              \* bound: units of a file being written

VARIABLES file,               \* the file's units
          failing             \* read() and write() fail at present

ID1 == 31
ID2 == 139
DEFLATED == 8
Byte == 0..255
STREAM_END == 256             \* end of a deflate stream
TRAILER == 257                \* check value and length that fit the data
BAD_TRAILER == 258
Unit == 0..258

Header == <<ID1, ID2, DEFLATED>>

\* Where a unit takes the reader of a file.
After(how, u) ==
  CASE how = "look" -> IF u = ID1 THEN "id1" ELSE "raw"
    [] how = "id1"  -> IF u = ID2 THEN "id2" ELSE "raw"
    [] how = "id2"  -> IF u = DEFLATED THEN "data" ELSE "bad"
    [] how = "data" -> IF u \in Byte THEN "data" ELSE IF u = STREAM_END THEN "end" ELSE "bad"
    [] how = "end"  -> IF u = TRAILER THEN "look" ELSE "bad"
    [] OTHER        -> how

\* What a unit adds to what is known of a file.
Decode(known, u) ==
  LET how == After(known.how, u) IN
  [how  |-> how,
   data |-> known.data \o (IF known.how = "id1" /\ how = "raw" THEN <<ID1, u>>
                           ELSE IF how = "raw" \/ (known.how = "data" /\ how = "data") THEN <<u>>
                           ELSE <<>>)]

Decoded(f) ==
  LET decoded[n \in 0 .. Len(f)] ==
        IF n = 0 THEN [how |-> "look", data |-> <<>>] ELSE Decode(decoded[n - 1], f[n])
  IN decoded[Len(f)]

\* What a file holds: the data of its members and what follows the last of them as it
\* is.  A lone first magic byte is data.
Content(f) == LET d == Decoded(f) IN IF d.how = "id1" THEN Append(d.data, ID1) ELSE d.data

\* A device that recovers, or stops working.
Device == failing' = ~failing

Lesser(a, b) == IF a < b THEN a ELSE b
Take(s, n) == SubSeq(s, 1, Lesser(n, Len(s)))
Drop(s, n) == SubSeq(s, n + 1, Len(s))
=============================================================================
